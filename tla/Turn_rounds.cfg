SPECIFICATION FairSpec
CONSTANTS
  MaxRounds = 2
  MaxStored = 2
  MaxTokens = 1
  MaxCalls = 2
CHECK_DEADLOCK FALSE
INVARIANTS
  TypeOK
  OneReply
  ToolsHandled
  HirerTold
PROPERTIES
  KeepsContract
  TurnEnds
