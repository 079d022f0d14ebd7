SPECIFICATION Spec
CONSTANTS
  Users = {me, other}
  Me = me
  None = None
  Calls = {1, 2}
  MaxRows = 2
INVARIANTS
  BothAskedMeansFriends
PROPERTIES
  NobodyFriendsAlone
  ButtonsComeBack
CHECK_DEADLOCK FALSE
