SPECIFICATION Spec
CONSTANTS
  Users = {founder, user1}
  Founder = founder
  Invites = {i1}
  Persons = {p1, p2}
  None = None
  Slots = {s1}
  Offered <- PersonOperations
INVARIANTS
  UsedIsLive
PROPERTIES
  ClaimRespected
  DeletionDisowns
SYMMETRY PersonSymmetry
CHECK_DEADLOCK FALSE
