\* Pipelines, fg of several ids, and other programs stopping and killing
\* the children.
SPECIFICATION Spec

CONSTANTS
  Jobs = {j1, j2, j3}
  NoJob = NoJob
  Pids = {p1, p2}
  NoPid = NoPid
  Shell = Shell
  MaxUnsigned = 3
  MaxSize = 3
  PipelineSizes = {1, 2}
  ExtSignals = {"STOP", "KILL"}
  FgArgs <- SomeIds
  BgArgs <- NoIds

SYMMETRY AnyJobAnyPid

INVARIANTS
  TypeOK
  TerminalFollowsWait
  WaitedJobStaysListed
  GroupsAreDistinct
  StoppedIsForeground
  LaunchedJobIsHeard
  IInv

PROPERTIES
  ImplementsProtocol

\* The shell ends, and a wait whose SIGCHLD was lost never returns.
CHECK_DEADLOCK FALSE
