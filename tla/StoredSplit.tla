---------------------------- MODULE StoredSplit ----------------------------
(***************************************************************************)
(* One expense as the database holds it, and the constraints that decide   *)
(* what it takes.  Both web apps read and write it.                        *)
(***************************************************************************)
EXTENDS Shares

CONSTANT Values     \* amounts that are typed as the value
ASSUME ValuesAssumption == Values \subseteq Int

VARIABLE stored

NoExpense == [type |-> "none", mode |-> "none", value |-> 0, shares |-> Nobody, positions |-> FALSE]
Exists == stored # NoExpense

\* check_debitor_share_gt_zero, check_debitor_shares and
\* check_committed_transactions.  Positions are counted only if the revision
\* writes them.  Every expense has one creditor here.
Accepted(e, writesPositions, edge) ==
  /\ \A p \in Holders(e.shares) : e.shares.num[p] > 0
  /\ e.type = "transfer" => Cardinality(Holders(e.shares)) = 1
  /\ e.type = "purchase" =>
       /\ Holders(e.shares) # {}
       /\ e.mode = "absolute" =>
            /\ ~writesPositions
            /\ Within(Off(e.mode, e.shares, e.value, 1), e.shares.den, Unit, 10000, edge)
       /\ e.mode = "percent" =>
            Within(Off(e.mode, e.shares, e.value, 1), e.shares.den, 1, 10000, edge)
=============================================================================
