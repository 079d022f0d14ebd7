SPECIFICATION Spec
CONSTANTS
  Expenses = {1, 2}
  MaxRev = 2
  MaxPages = 3
INVARIANTS
  CreatedOnce
  SavedIsRead
PROPERTIES
  FormIsTheUsers
  NoSilentEnd
CHECK_DEADLOCK FALSE
