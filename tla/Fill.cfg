SPECIFICATION Spec
CONSTANTS
  NoFiller = NoFiller
  NoTag = ""
  Tags <- AllTags
  Fillers <- NoFillers
  Objects <- AllObjects
  Registered <- InOrder
  Sources <- AllSources
  PrefixPaths <- SomePrefixes
INVARIANTS
  TypeOK
  ScalarsByPrecedence
  SlicesAreComplete
  ArraysAreFilled
  MapsAreComplete
  PointersSetWhenNeeded
CHECK_DEADLOCK FALSE
