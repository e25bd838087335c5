SPECIFICATION SpecTwice
CONSTANTS
  Absent = Absent
  Commands <- NoCommand
  Fields <- MapFields
  Imported <- NoneImported
  Numbers <- NoNumbers
  Styles = {"posix"}
  Ignorables <- NothingIgnored
  ArgLists <- MapArgs
  HelpTexts = {}
  NoPositional = {}
  MaxConfigures = 1
  MaxArgs = 2
INVARIANT
  SpellingsAgree
CHECK_DEADLOCK FALSE
