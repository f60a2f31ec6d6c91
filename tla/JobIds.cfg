\* Background jobs with overlapping lives, three at a time.
SPECIFICATION Spec

CONSTANTS
  Jobs = {j1, j2, j3}
  NoJob = NoJob
  Pids = {p1, p2, p3}
  NoPid = NoPid
  Shell = Shell
  MaxUnsigned = 3
  MaxSize = 3
  PipelineSizes = {1}
  ExtSignals = {}
  FgArgs = {}
  BgArgs = {}

SYMMETRY AnyJobAnyPid

INVARIANTS
  JobIdsAreUnique

\* The shell ends, and a wait whose SIGCHLD was lost never returns.
CHECK_DEADLOCK FALSE
