SPECIFICATION FairSpec

CONSTANTS
  MaxFd = 9
  MaxProcesses = 3
  PIPE_BUF = 1
  Redirections <- SomeRedirections
  Lines <- SomeLines

INVARIANTS
  PipelineInv
  EndsAreHeld
  ProgramIsConnected
  ShellDescriptorsKept
  JobIsOneGroup

PROPERTIES
  JobIsLaunched
  PipelineEnds

CHECK_DEADLOCK FALSE
