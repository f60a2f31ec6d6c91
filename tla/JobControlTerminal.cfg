\* Jobs of one process that only the terminal and the shell signal: here the
\* counters of the job table are exact.
SPECIFICATION Spec

CONSTANTS
  Jobs = {j1, j2, j3}
  NoJob = NoJob
  Pids = {p1, p2, p3}
  NoPid = NoPid
  Shell = Shell
  MaxUnsigned = 3
  MaxSize = 3
  PipelineSizes = {1}
  ExtSignals = {}
  FgArgs <- SomeIds
  BgArgs <- SomeIds

SYMMETRY AnyJobAnyPid

INVARIANTS
  LiveCountIsExact
  RunningCountIsExact

PROPERTIES
  OnlyOwnEntryEndsShell
  DoneMeansFinished
  EndOfFileWarns

\* The shell ends, and a wait whose SIGCHLD was lost never returns.
CHECK_DEADLOCK FALSE
