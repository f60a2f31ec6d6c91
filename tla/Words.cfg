SPECIFICATION FairSpec

CONSTANTS
  Lines <- SomeLines
  environment <- SomeVariables
  special <- SpecialValues
  home <- SomeHomes
  Files <- SomeFiles

INVARIANTS
  WordsTypeOK
  LexerMeetsReader
  TokensSuitParser
  CrashNeedsOpenBrace
  EachWordCounts

PROPERTIES
  QuotedIsVerbatim
  LineIsExpanded

CHECK_DEADLOCK FALSE
