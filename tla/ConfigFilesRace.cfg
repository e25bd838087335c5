CONSTANTS
  c1 = c1
  c2 = c2
  f1 = f1
  f2 = f2
  NoOne = NoOne
  Idle = Idle
  Clients <- TwoClients
  Files <- TwoFiles
  Tags <- TwoTags
  InPlace <- Second
  NumRequests = 3
  Copied <- Outer
  Prefixed <- Third
  NumFields = 2
SPECIFICATION Spec
INVARIANT NoFillersRace
CHECK_DEADLOCK FALSE
