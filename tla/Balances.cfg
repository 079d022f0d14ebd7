SPECIFICATION Spec
CONSTANTS
  Accounts = {1, 2, 3, 4, 5, 6, 7}
  Cent = 1000
  Persons <- MCPersons
  Events <- MCEvents
  Bills = {1}
  Scale = 1296
  Whole = 3
  Drafts <- MCDrafts
  Positions <- MCPositions
  Clearings <- MCClearings
  MaxItems = 1
INVARIANTS
  OnlyGapsAreMissing
  HandedDown
  HistoryEndsAtBalance
  ExactPairsFirst
  SettlesUpToRounding
PROPERTIES
  ImplementsPlan
  PlanComes
CHECK_DEADLOCK FALSE
