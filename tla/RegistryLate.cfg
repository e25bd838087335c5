CONSTANTS
  main = main
  c1 = c1
  c2 = c2
  NoOne = NoOne
  Main <- main
  Clients <- TwoClients
  MaxRequests = 2
  MaxPasses = 2
  MaxDepth = 1
SPECIFICATION Spec
INVARIANT RunningRequestsFilled
CHECK_DEADLOCK FALSE
