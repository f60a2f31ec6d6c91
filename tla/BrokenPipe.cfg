SPECIFICATION FairSpec

CONSTANTS
  MaxFd = 9
  MaxProcesses = 2
  PIPE_BUF = 1
  Redirections <- SomeRedirections
  Lines <- YesHead

PROPERTY
  PipelineEndsWithLast

CHECK_DEADLOCK FALSE
