\* history -c empties the ring, and an empty ring is not trimmed to.
SPECIFICATION Spec

CONSTANTS
  a = a
  b = b
  c = c
  clr = clr
  NoCommand = NoCommand
  Commands <- SomeCommands
  ClearCommand <- clr
  HIST_SIZE = 3
  MaxLines = 6
  CrashPoints = {}

PROPERTIES
  FileIsTrimmed
