\* A command that fails, && and another one.
SPECIFICATION Spec

CONSTANTS
  MaxTokens = 3
  Garbage = {FALSE}
  ExitCodes = {0, 1}

PROPERTIES
  AndFollowsSuccess

CHECK_DEADLOCK FALSE
