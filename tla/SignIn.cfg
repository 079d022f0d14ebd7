SPECIFICATION Spec
CONSTANTS
  Requests = {r1, r2}
  Emails = {e1, e2}
  NoEmail = NoEmail
  None = None
  MaxKey = 2
  MaxToken = 2
  MaxMoves = 4
  Pages = {"expenses", "add"}
  Root = "expenses"
INVARIANTS
  RefusedForCause
  NoSignInLoop
PROPERTY WhereHeaded
SYMMETRY Symmetry
CHECK_DEADLOCK FALSE
