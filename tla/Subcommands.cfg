CONSTANTS
  Names <- SomeNames
  Kinds <- SomeKinds
  ArgLists <- SomeArgs
  MaxHandlers = 4
  MaxPasses = 2
SPECIFICATION Spec
INVARIANTS
  TypeOK
  StartsWhatWasSelected
  HelpReachesEveryHandler
  HelpFlagIsThere
CHECK_DEADLOCK FALSE
