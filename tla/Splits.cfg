SPECIFICATION Spec
CONSTANTS
  People = {1, 2, 3}
  Values <- MCValues
  Amounts <- MCAmounts
  Percents <- MCPercents
  Typed <- MCTyped
  MaxEdits = 4
INVARIANTS
  RefusedOnlyByGaps
  SpreadAddsUp
  StoredAddsUp
  TypedAsShown
PROPERTY ModeKeepsParts
CHECK_DEADLOCK FALSE
