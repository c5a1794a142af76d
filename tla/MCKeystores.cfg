\* Keystores in files of their own, and in one file that two type keys name.
CONSTANTS
  Blank = Blank
  Absent = Absent
  Order <- MCOrder
  Files <- MCFiles
  Stems = {"s", "t"}
  OldPems = {"none"}
  MaxRuns = 3
SPECIFICATION Spec
INVARIANTS
  KeystoresInv
PROPERTIES
  SuccessHasEveryPem
CHECK_DEADLOCK FALSE
