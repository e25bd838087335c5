CONSTANTS
  main = main
  c1 = c1
  c2 = c2
  NoOne = NoOne
  Main <- main
  Clients <- TwoClients
  MaxRequests = 2
  MaxPasses = 2
  MaxDepth = 2
SPECIFICATION FairSpec
INVARIANTS
  TypeOK
  NoneEscapesPreWalk
  WalkedBeforeFill
  StartSeesAllFilled
PROPERTIES
  ImplementsContract
  ConfigureProgresses
  RequestReturns
CHECK_DEADLOCK FALSE
