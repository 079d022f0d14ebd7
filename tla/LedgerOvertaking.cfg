SPECIFICATION Spec
CONSTANTS
  ann = ann
  bob = bob
  Users = {user1, user2}
  Revocable = {user1}
  Accounts = {ann, trip, rent}
  Clearing = {trip, rent}
  Transactions = {dinner}
  Purchases = {dinner}
  Items = {wine}
  Founded <- OnePerson
  MaxRevisions = 4
  MaxClock = 4
SYMMETRY ClearingOnly
INVARIANTS  DanglingOnlyByRace
CHECK_DEADLOCK FALSE
