SPECIFICATION Spec
CONSTANTS
  Absent = Absent
  Commands <- TwoCommands
  Fields <- MainFields
  Imported <- SomeImported
  Numbers <- NumberTexts
  Styles = {"posix", "go"}
  Ignorables <- SomeIgnored
  ArgLists <- BothArgs
  HelpTexts <- RootOnly
  NoPositional <- SubOnly
  MaxConfigures = 2
  MaxArgs = 3
  Sample <- Five
INVARIANTS
  TypeOK
  EveryArgumentOnce
  EveryValueIsNamed
  PanicsAreKnown
  GivenIsFilled
  ReconfigureRepeats
  ShownFormsAreAccepted
PROPERTY
  SubcommandsHaveTheirOwnFlags
CHECK_DEADLOCK FALSE
