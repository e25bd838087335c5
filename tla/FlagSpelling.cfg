SPECIFICATION SpecTwice
CONSTANTS
  Absent = Absent
  Commands <- NoCommand
  Fields <- PlainFields
  Imported <- NoneImported
  Numbers <- NoNumbers
  Styles = {"posix"}
  Ignorables <- NothingIgnored
  ArgLists <- PlainArgs
  HelpTexts = {}
  NoPositional = {}
  MaxConfigures = 1
  MaxArgs = 4
INVARIANT
  SpellingsAgree
CHECK_DEADLOCK FALSE
