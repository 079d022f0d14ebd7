--------------------------- MODULE SettlementPlan ---------------------------
(***************************************************************************)
(* What a settlement plan promises, whatever way it is worked out: it is a *)
(* sequence of payments, each from an account that still owes to one that  *)
(* is still owed, and each the smaller of the two amounts.                 *)
(*                                                                         *)
(* Settlement (computeGroupSettlement of libs/core) implements it.         *)
(***************************************************************************)
EXTENDS Integers, FiniteSets

CONSTANT Accounts

VARIABLES
  total,      \* balances the plan is for: positive is owed money, negative owes
  left,       \* what the payments so far leave to be settled
  received,   \* what each account received so far, less what it paid
  payments    \* how many payments there are

vars == <<total, left, received, payments>>

Smaller(x, y) == IF x <= y THEN x ELSE y

CanPay(debitor, creditor) == left[debitor] < 0 /\ left[creditor] > 0

Init ==
  /\ total = [a \in Accounts |-> 0]
  /\ left = total
  /\ received = total
  /\ payments = 0

\* A new plan, once nothing is left to be paid under the one before.
Begin ==
  /\ ~\E d, c \in Accounts : CanPay(d, c)
  /\ total' \in [Accounts -> Int]
  /\ left' = total'
  /\ received' = [a \in Accounts |-> 0]
  /\ payments' = 0

Pay(d, c) ==
  /\ CanPay(d, c)
  /\ LET amount == Smaller(-left[d], left[c])
     IN  /\ left' = [left EXCEPT ![d] = @ + amount, ![c] = @ - amount]
         /\ received' = [received EXCEPT ![d] = @ - amount, ![c] = @ + amount]
  /\ payments' = payments + 1
  /\ UNCHANGED total

Next == Begin \/ \E d, c \in Accounts : Pay(d, c)
Spec == Init /\ [][Next]_vars

-----------------------------------------------------------------------------
TypeOK ==
  /\ total \in [Accounts -> Int]
  /\ left \in [Accounts -> Int]
  /\ received \in [Accounts -> Int]
  /\ payments \in Nat

\* Nobody pays or receives more than the balance says, and what was paid is
\* exactly what has left the balance: the payments of the plan move a balance
\* towards zero and never across it.
NeverOverpays ==
  \A a \in Accounts :
    /\ left[a] + received[a] = total[a]
    /\ total[a] >= 0 => left[a] >= 0 /\ received[a] >= 0
    /\ total[a] <= 0 => left[a] <= 0 /\ received[a] <= 0

Unsettled(f) == {a \in Accounts : f[a] # 0}

\* Every payment settles at least one account for good, so a plan never has
\* more payments than there are balances to settle.
FewPayments ==
  Cardinality(Unsettled(left)) + payments <= Cardinality(Unsettled(total))
=============================================================================
