SPECIFICATION Spec
CONSTANTS
  Users = {founder, user1, user2}
  Founder = founder
  Invites = {i1}
  Persons = {}
  None = None
  Slots = {s1, s2}
  Offered <- RightsOperations
INVARIANTS
  ReuseNeedsOverlap
SYMMETRY Symmetry
CHECK_DEADLOCK FALSE
