----------------------------- MODULE Settlement -----------------------------
(***************************************************************************)
(* computeGroupSettlement: who pays whom so that all balances of a group   *)
(* become zero.  One action per iteration of its two nested loops: the     *)
(* inner one pairs creditors with debitors of exactly the same amount, the *)
(* outer one then lets the largest debitor pay the largest creditor and    *)
(* starts over.  Amounts are exact integers (of a smallest unit); Cent of  *)
(* them make a cent.                                                       *)
(***************************************************************************)
EXTENDS Integers, FiniteSets, Sequences, SequencesExt

CONSTANTS
  Accounts,   \* ids: the code goes through them in ascending order
  Cent        \* units of a cent
ASSUME AccountIds == Accounts \subseteq Nat /\ IsFiniteSet(Accounts)
ASSUME CentPositive == Cent \in Nat \ {0}

VARIABLES
  stage,      \* "idle", "sort" (loop head), "match" (inner loop) or "done"
  total,      \* the balances the plan is computed from
  creditors, debitors,   \* sequences of accounts with what they still get or owe
  credI, debI,           \* positions of the inner loop
  plan,       \* result: the payments so far
  edges       \* what the caller is given in the end

settlement == <<stage, total, creditors, debitors, credI, debI, plan, edges>>

Magnitude(x) == IF x < 0 THEN -x ELSE x

\* The elements of S in the order in which each comes before the next.
Ranked(S, Before(_, _)) ==
  [k \in 1..Cardinality(S) |->
     CHOOSE x \in S : Cardinality({y \in S : Before(y, x)}) = k - 1]

\* Object.entries(balances): integer keys come in ascending order.
Entries(balance, accounts) ==
  LET ids == Ranked(accounts, <)
  IN  [i \in DOMAIN ids |-> [id |-> ids[i], amount |-> balance[ids[i]]]]

\* Array.prototype.sort with balanceSortCompareFn: by amount, and stable.
Earlier(s, i, j) ==
  \/ Magnitude(s[i].amount) < Magnitude(s[j].amount)
  \/ Magnitude(s[i].amount) = Magnitude(s[j].amount) /\ i < j

Sorted(s) ==
  LET order == Ranked(DOMAIN s, LAMBDA i, j : Earlier(s, i, j))
  IN  [k \in DOMAIN order |-> s[order[k]]]

\* The filter of the last line, which rounds to whole cents.
Keep(kept, p) == IF 2 * p.amount >= Cent THEN Append(kept, p) ELSE kept
Kept(payments) == FoldLeft(Keep, <<>>, payments)

\* Slip: the names of the code taken at their word.
SlipNames(payments) ==
  LET kept == Kept(payments)
  IN  [i \in DOMAIN kept |-> [from |-> kept[i].debitorId, to |-> kept[i].creditorId,
                              amount |-> kept[i].amount]]

\* settlementFor turns the names round: the code calls the one who pays the
\* creditor.
Shown(payments) ==
  LET kept == Kept(payments)
  IN  [i \in DOMAIN kept |-> [from |-> kept[i].creditorId, to |-> kept[i].debitorId,
                              amount |-> kept[i].amount]]

InnerLoop == credI <= Len(creditors) /\ debI <= Len(debitors)
Outstanding == creditors # <<>> /\ debitors # <<>>

-----------------------------------------------------------------------------
SettlementInit ==
  /\ stage = "idle"
  /\ total = [a \in Accounts |-> 0]
  /\ creditors = <<>> /\ debitors = <<>>
  /\ credI = 1 /\ debI = 1
  /\ plan = <<>> /\ edges = <<>>

\* The call, with the balances of the group.
Prepare(balance) ==
  /\ stage = "idle"
  /\ total' = balance
  /\ creditors' = Entries(balance, {a \in Accounts : balance[a] > 0})
  /\ debitors' = Entries(balance, {a \in Accounts : balance[a] < 0})
  /\ plan' = <<>>
  /\ stage' = "sort"
  /\ UNCHANGED <<credI, debI, edges>>

\* The head of the outer loop.
SortBoth ==
  /\ stage = "sort" /\ Outstanding
  /\ creditors' = Sorted(creditors)
  /\ debitors' = Sorted(debitors)
  /\ credI' = 1 /\ debI' = 1
  /\ stage' = "match"
  /\ UNCHANGED <<total, plan, edges>>

\* Slip: the debitor stays in its list.
SlipOneSplice ==
  /\ stage = "match" /\ InnerLoop
  /\ creditors[credI].amount = -debitors[debI].amount
  /\ plan' = Append(plan, [creditorId |-> debitors[debI].id,
                           debitorId |-> creditors[credI].id,
                           amount |-> creditors[credI].amount])
  /\ creditors' = RemoveAt(creditors, credI)
  /\ UNCHANGED <<stage, total, debitors, credI, debI, edges>>

\* extractOneToOneSettlements: two accounts of the same amount.
MatchExact ==
  /\ stage = "match" /\ InnerLoop
  /\ creditors[credI].amount = -debitors[debI].amount
  /\ plan' = Append(plan, [creditorId |-> debitors[debI].id,
                           debitorId |-> creditors[credI].id,
                           amount |-> creditors[credI].amount])
  /\ creditors' = RemoveAt(creditors, credI)
  /\ debitors' = RemoveAt(debitors, debI)
  /\ UNCHANGED <<stage, total, credI, debI, edges>>

\* Slip: the comparison the wrong way round.
SlipComparison ==
  \/ debI = Len(debitors)
  \/ /\ credI # Len(creditors)
     /\ creditors[credI].amount > -debitors[debI].amount

\* Which of two different amounts is left behind: the smaller, unless one
\* of the lists is at its last entry.
LeaveCreditor ==
  \/ debI = Len(debitors)
  \/ /\ credI # Len(creditors)
     /\ creditors[credI].amount < -debitors[debI].amount

Step ==
  /\ stage = "match" /\ InnerLoop
  /\ creditors[credI].amount # -debitors[debI].amount
  /\ IF LeaveCreditor
     THEN credI' = credI + 1 /\ UNCHANGED debI
     ELSE debI' = debI + 1 /\ UNCHANGED credI
  /\ UNCHANGED <<stage, total, creditors, debitors, plan, edges>>

\* The rest of a list whose last entry has changed by the payment: put back
\* unless it is settled.
PutBack(s, amount) ==
  IF amount = 0 THEN Front(s) ELSE Append(Front(s), [Last(s) EXCEPT !.amount = amount])

\* After the inner loop: the largest debitor pays the largest creditor.
PayLargest ==
  /\ stage = "match" /\ ~InnerLoop /\ Outstanding
  /\ LET owed == Last(creditors).amount
         owes == -Last(debitors).amount
         amount == IF owes > owed THEN owed ELSE owes
     IN  /\ plan' = Append(plan, [creditorId |-> Last(debitors).id,
                                  debitorId |-> Last(creditors).id,
                                  amount |-> amount])
         /\ debitors' = PutBack(debitors, amount - owes)
         /\ creditors' = PutBack(creditors, owed - amount)
  /\ stage' = "sort"
  /\ UNCHANGED <<total, credI, debI, edges>>

\* One of the lists is empty, at the head of the outer loop or at its break.
Return ==
  /\ \/ stage = "sort"
     \/ stage = "match" /\ ~InnerLoop
  /\ ~Outstanding
  /\ edges' = Shown(plan)
  /\ stage' = "done"
  /\ UNCHANGED <<total, creditors, debitors, credI, debI, plan>>

SettlementNext == SortBoth \/ MatchExact \/ Step \/ PayLargest \/ Return

\* The function on its own, called with any balances at all.  Balances calls
\* it with those of a group.
Call == \E given \in [Accounts -> Int] : Prepare(given)
SettlementSpec == SettlementInit /\ [][SettlementNext \/ Call]_settlement

-----------------------------------------------------------------------------
Added(numbers) ==
  LET upTo[i \in 0..Len(numbers)] == IF i = 0 THEN 0 ELSE upTo[i - 1] + numbers[i]
  IN  upTo[Len(numbers)]

SumOver(s, Value(_)) == Added([i \in DOMAIN s |-> Value(s[i])])

SumAll(Value(_), S) == SumFunction([x \in S |-> Value(x)])

\* What the entry of a in one of the two lists still says.
AmountIn(s, a) ==
  IF \E i \in DOMAIN s : s[i].id = a
  THEN s[CHOOSE i \in DOMAIN s : s[i].id = a].amount ELSE 0

\* What a payment brings the account a.
Receipt(p, a) ==
  IF p.debitorId = a THEN p.amount ELSE IF p.creditorId = a THEN -p.amount ELSE 0

\* What the plan is, seen as payments between accounts: what is still in the
\* two lists is left, what is in the result was paid.
Plan == INSTANCE SettlementPlan WITH
  total <- total,
  left <- [a \in Accounts |-> AmountIn(creditors, a) + AmountIn(debitors, a)],
  received <- [a \in Accounts |-> SumOver(plan, LAMBDA p : Receipt(p, a))],
  payments <- Len(plan)

\* Every payment of the two loops is one the plan allows: from an account
\* that still owes to one that is still owed, of the smaller amount.
ImplementsPlan == Plan!Spec

\* The inner loop finds every pair of accounts that can settle with a single
\* payment between them, although it goes through each list only once and
\* takes entries out of both while it does.
ExactPairsFirst ==
  stage = "match" /\ ~InnerLoop =>
    \A i \in DOMAIN creditors, j \in DOMAIN debitors :
      creditors[i].amount # -debitors[j].amount

Abs(f) == SumAll(LAMBDA a : Magnitude(f[a]), Accounts)

\* When everybody has paid as shown, what remains is the money the balances
\* do not account for, and less than a cent for each payment that was too
\* small to be shown.
SettlesUpToRounding ==
  stage = "done" =>
    LET Paid(a) == SumOver(edges, LAMBDA e : IF e.from = a THEN e.amount
                                             ELSE IF e.to = a THEN -e.amount ELSE 0)
        after == [a \in Accounts |-> total[a] + Paid(a)]
        gap == SumFunction(total)
    IN  Abs(after) <= Magnitude(gap) + Cent * (Len(plan) - Len(edges))
=============================================================================
