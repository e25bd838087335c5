CONSTANTS
  Absent = Absent
  Blank = Blank
  Bad = Bad
  Nil = Nil
  Clipped = Clipped
  p = p
  q = q
  Commands <- Others
  Fields <- Models
  Imported <- NoneImported
  Numbers <- NoNumbers
  TextsOf <- TextsOfField
  MaxUses = 4
SPECIFICATION Spec
INVARIANTS
  TypeOK
  UsesAreComplete
  UnusedPointersStay
  AgreesWithFlagHandler
CHECK_DEADLOCK FALSE
