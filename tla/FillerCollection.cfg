CONSTANTS
  env = env
  config = config
  flag = flag
  f1 = f1
  f2 = f2
  NoFiller = NoFiller
  NoTag = NoTag
  Tags <- ThreeTags
  Fillers <- TwoFillers
  MaxOptions = 5
SPECIFICATION Spec
INVARIANTS
  TypeOK
  EachFillerAskedOnce
  OrderVisitsEachOnce
  PanicsOnlyOnReturn
PROPERTIES
  KeepsPromise
CHECK_DEADLOCK FALSE
