SPECIFICATION Spec
CONSTANTS
  Users = {founder, user1, user2}
  Founder = founder
  Invites = {i1, i2}
  Persons = {}
  None = None
  Slots = {s1}
  Offered <- RightsOperations
INVARIANTS
  TypeOK
  OneOpenInvite
PROPERTIES
  NobodyEvicted
SYMMETRY Symmetry
CHECK_DEADLOCK FALSE
