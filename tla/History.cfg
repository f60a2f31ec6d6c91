\* Sessions that end in order or are killed, except while they trim.
SPECIFICATION Spec

CONSTANTS
  a = a
  b = b
  c = c
  clr = clr
  NoCommand = NoCommand
  Commands <- SomeCommands
  ClearCommand <- clr
  HIST_SIZE = 3
  MaxLines = 6
  CrashPoints = {"load", "prompt"}

INVARIANTS
  PrintedIsSaved
  HistoryInv

PROPERTIES
  RingIsALog
  FileIsALog
