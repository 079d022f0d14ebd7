SPECIFICATION OrderedSpec
CONSTANTS
  ann = ann
  bob = bob
  Users = {user1, user2}
  Revocable = {}
  Accounts = {ann, trip}
  Clearing = {trip}
  Transactions = {dinner}
  Purchases = {dinner}
  Items = {wine}
  Founded <- OnePerson
  MaxRevisions = 4
  MaxClock = 5
SYMMETRY UserSymmetry
INVARIANTS TypeOK ReferencesLive Readable
PROPERTY ImplementsAbstract
CHECK_DEADLOCK FALSE
