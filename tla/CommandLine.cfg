\* Every line of up to MaxTokens tokens, whatever malloc returns.
SPECIFICATION FairSpec

CONSTANTS
  MaxTokens = 5
  Garbage = {TRUE, FALSE}
  ExitCodes = {0, 1}

INVARIANTS
  CommandLineTypeOK
  ParserMeetsGrammar
  WordsInOrder
  BackgroundEndsList

PROPERTIES
  ImplementsLists
  EveryLineEnds

CHECK_DEADLOCK FALSE
