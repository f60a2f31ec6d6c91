\* fg blocks SIGCHLD after it has chosen and continued the job.
SPECIFICATION Spec

CONSTANTS
  Jobs = {j1, j2, j3}
  NoJob = NoJob
  Pids = {p1, p2}
  NoPid = NoPid
  Shell = Shell
  MaxUnsigned = 3
  MaxSize = 3
  PipelineSizes = {1}
  ExtSignals = {}
  FgArgs <- NoIds
  BgArgs <- NoIds

SYMMETRY AnyJobAnyPid

INVARIANTS
  WaitedJobIsHeard

\* The shell ends, and a wait whose SIGCHLD was lost never returns.
CHECK_DEADLOCK FALSE
