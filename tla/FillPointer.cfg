SPECIFICATION Spec
CONSTANTS
  NoFiller = NoFiller
  NoTag = ""
  Tags <- AllTags
  Fillers <- NoFillers
  Objects <- PointerObjects
  Registered <- PointerOrder
  Sources <- PointerSources
  PrefixPaths <- NoPrefix
INVARIANT
  PointersByPrecedence
CHECK_DEADLOCK FALSE
