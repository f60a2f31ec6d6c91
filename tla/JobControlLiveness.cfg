\* No fg and no bg: the waits of run_job return and the idle shell reports.
SPECIFICATION FairSpec

CONSTANTS
  Jobs = {j1, j2}
  NoJob = NoJob
  Pids = {p1, p2}
  NoPid = NoPid
  Shell = Shell
  MaxUnsigned = 3
  MaxSize = 3
  PipelineSizes = {1, 2}
  ExtSignals = {"CONT"}
  FgArgs = {}
  BgArgs = {}

INVARIANTS
  RunJobRestoresMask

PROPERTIES
  LaunchedJobReturns
  IdleShellReports

\* The shell ends, and a wait whose SIGCHLD was lost never returns.
CHECK_DEADLOCK FALSE
