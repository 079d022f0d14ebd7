------------------------------ MODULE Balances ------------------------------
(***************************************************************************)
(* From the books of a group to its balances and its settlement plan.      *)
(*                                                                         *)
(* The books are what the database lets in: a bill is a transaction as the *)
(* last revision that holds one left it, with the positions as the last    *)
(* revision that touched each left them.  Opening them computes the effect *)
(* of every bill, then hands the balance of each event (clearing account)  *)
(* down to the accounts that share it, in the order a topological sort of  *)
(* the events gives, then works out the plan (Settlement).  The sort and   *)
(* the handing down are one action per iteration.  Nothing runs in between *)
(* them: the functions are synchronous and own their data.                 *)
(*                                                                         *)
(* Shares and values are small naturals; a balance is in units of 1/Scale, *)
(* with Scale large enough for every division to be exact (ScaleDivides).  *)
(***************************************************************************)
EXTENDS Settlement

CONSTANTS
  Persons, Events,   \* the personal and the clearing accounts
  Bills,             \* ids of transactions
  Scale,             \* units a value is counted in
  Whole,             \* what the shares of a percent split add up to
  Drafts,            \* what a client may send as a transaction
  Positions,         \* ... and as a position
  Clearings,         \* clearing shares of all events
  MaxItems           \* positions a bill may have

ASSUME AccountKinds == Persons \cup Events = Accounts /\ Persons \cap Events = {}
ASSUME ScalePositive == Scale \in Nat \ {0} /\ Whole \in Nat \ {0}

\* Parts by account; not all of them need to have one.
IsShares(s) == \E S \in SUBSET Accounts : s \in [S -> Int]

\* The database lets no share of a creditor or a debitor be zero or less.
ASSUME InputTypes ==
  /\ IsFiniteSet(Bills) /\ MaxItems \in Nat
  /\ \A d \in Drafts :
       /\ d.type \in {"purchase", "mimo", "transfer"} /\ d.value \in Int /\ d.rate \in Int
       /\ IsShares(d.creditors) /\ \A a \in DOMAIN d.creditors : d.creditors[a] > 0
       /\ IsShares(d.debitors) /\ \A a \in DOMAIN d.debitors : d.debitors[a] > 0
  /\ \A p \in Positions : p.price \in Int /\ p.communist \in Int /\ IsShares(p.usages)
  /\ \A c \in Clearings : \A e \in Events : IsShares(c[e])

VARIABLES
  bills,      \* the transactions of the group
  clearing,   \* clearing_shares of each event; an empty function is none
  phase,      \* "edit", "sort", "clear", "plan", or "failed" (an exception)
  balance,    \* AccountBalance.balance
  before,     \* AccountBalance.beforeClearing
  resolution, \* AccountBalance.clearingResolution of each event
  inDegree, ready, sorting   \* of the topological sort

books == <<bills, clearing>>
clearingVars == <<balance, before, resolution, inDegree, ready, sorting>>
vars == <<bills, clearing, phase, clearingVars, settlement>>

NoBill == [exists |-> FALSE]
NoShares == [a \in {} |-> 0]
ShareOf(shares, a) == IF a \in DOMAIN shares THEN shares[a] ELSE 0
TotalOf(shares) == SumFunction(shares)
Part(amount, share, whole) == IF whole > 0 THEN (amount * share) \div whole ELSE 0

-----------------------------------------------------------------------------
(* What the constraints of the database ask of a revision that has a       *)
(* transaction row, when it is committed.  Only the positions this         *)
(* revision touched are counted.                                           *)
ItemWhole(position) == TotalOf(position.usages) + position.communist
Assigned(position) == ItemWhole(position) > 0

Accepted(draft, touched) ==
  LET creditorCount == Cardinality(DOMAIN draft.creditors)
      debitorCount == Cardinality(DOMAIN draft.debitors)
      live == {i \in DOMAIN touched : ~touched[i].deleted}
  IN  CASE draft.type = "transfer" -> creditorCount = 1 /\ debitorCount = 1
        [] draft.type = "mimo" -> creditorCount >= 1 /\ debitorCount >= 1
        [] draft.type = "purchase" ->
             /\ creditorCount = 1 /\ debitorCount >= 1
             /\ draft.mode = "absolute" => /\ live = {}
                                           /\ TotalOf(draft.debitors) = draft.value
             /\ draft.mode = "percent" => TotalOf(draft.debitors) = Whole
             /\ draft.mode = "shares" => \A i \in live : Assigned(touched[i])

Bill(draft, items) ==
  [exists |-> TRUE, deleted |-> FALSE, type |-> draft.type, mode |-> draft.mode,
   value |-> draft.value, rate |-> draft.rate, creditors |-> draft.creditors,
   debitors |-> draft.debitors, items |-> items]

\* The positions of a bill when some of them were touched.
Overlaid(items, touched) ==
  [i \in DOMAIN items \cup DOMAIN touched |->
     IF i \in DOMAIN touched THEN touched[i] ELSE items[i]]

\* A revision touches positions that are there, by their place in the bill,
\* or puts a new one at the end, which is not a deleted one.
Fits(items, touched) ==
  \A i \in DOMAIN touched :
    \/ i \in DOMAIN items
    \/ i = Len(items) + 1 /\ ~touched[i].deleted

-----------------------------------------------------------------------------
(* computeTransactionBalanceEffect                                         *)
\* The throw of its second statement.
Throws(bill) == bill.mode = "absolute" /\ bill.items # <<>>

LiveItems(bill) == {i \in DOMAIN bill.items : ~bill.items[i].deleted}
ItemPart(item, share) ==
  Part(item.price * Scale, share, ItemWhole(item))

FromPositions(bill, a) ==
  SumAll(LAMBDA i : ItemPart(bill.items[i], ShareOf(bill.items[i].usages, a)) * bill.rate,
         LiveItems(bill))

\* Slip: the common part of a position is lost.
SlipCommonRemainder(bill) ==
  bill.value * Scale * bill.rate
    - SumAll(LAMBDA i : bill.items[i].price * Scale * bill.rate, LiveItems(bill))

\* remainingTransactionValue: what the positions leave to the debitors.
Remaining(bill) ==
  bill.value * Scale * bill.rate
    - SumAll(LAMBDA i : (bill.items[i].price * Scale
                          - ItemPart(bill.items[i], bill.items[i].communist)) * bill.rate,
             LiveItems(bill))

FromDebitors(bill, a) ==
  IF bill.mode = "absolute" THEN ShareOf(bill.debitors, a) * Scale
  ELSE Part(Remaining(bill), ShareOf(bill.debitors, a), TotalOf(bill.debitors))

FromCreditors(bill, a) ==
  Part(bill.value * Scale * bill.rate, ShareOf(bill.creditors, a), TotalOf(bill.creditors))

Effect(bill, a) == FromCreditors(bill, a) - FromPositions(bill, a) - FromDebitors(bill, a)

\* alive: balancesFor and settlementFor leave deleted transactions out.
Alive == {t \in Bills : bills[t].exists /\ ~bills[t].deleted}

-----------------------------------------------------------------------------
(* The events that have shares, and how many of them share each account.   *)
Sharing == {e \in Events : clearing[e] # NoShares}
\* Slip: only persons are counted.
SlipDegree(a) ==
  IF a \in Persons THEN Cardinality({e \in Sharing : a \in DOMAIN clearing[e]}) ELSE 0
Degree(a) == Cardinality({e \in Sharing : a \in DOMAIN clearing[e]})

\* The accounts that share e are visited in ascending order; those with no
\* other event before them any more go on the stack.
Released(e, degrees) ==
  Ranked({a \in DOMAIN clearing[e] : degrees[a] = 1}, <)

HasCycle(shares) ==
  \E C \in SUBSET Events : C # {} /\ \A e \in C : \E f \in C : e \in DOMAIN shares[f]

(* Scale is large enough for every division to be exact: what a bill books *)
(* on an event is a multiple of the event's grain, which can be divided by *)
(* the event's shares, and by those of the events it is handed down to.    *)
Divisors ==
  {n \in {TotalOf(d.creditors) : d \in Drafts}
         \cup {TotalOf(d.debitors) * k : d \in Drafts, k \in {1} \cup {ItemWhole(p) : p \in Positions}}
     : n > 0}

Grain(grain, a) == IF a \in Events THEN grain[a] ELSE 1

Evenly(shares, grain) ==
  /\ \A a \in Accounts, n \in Divisors : Scale % (n * Grain(grain, a)) = 0
  /\ \A e \in Events : \A a \in DOMAIN shares[e] :
       grain[e] % (TotalOf(shares[e]) * Grain(grain, a)) = 0

\* Shares of an event that add up to zero, by which the code would divide,
\* are left out.
ASSUME ScaleDivides ==
  \A c \in Clearings : ~HasCycle(c) =>
    /\ \A e \in Events : c[e] # NoShares => TotalOf(c[e]) > 0
    /\ \E grain \in [Events -> {n \in 1..Scale : Scale % n = 0}] : Evenly(c, grain)

Init ==
  /\ bills = [t \in Bills |-> NoBill]
  /\ clearing \in {c \in Clearings : ~HasCycle(c)}
  /\ phase = "edit"
  /\ balance = [a \in Accounts |-> 0] /\ before = balance
  /\ resolution = [e \in Events |-> NoShares]
  /\ inDegree = balance /\ ready = <<>> /\ sorting = <<>>
  /\ SettlementInit

\* create_transaction and update_transaction; the type of a transaction
\* stays, and an update of a deleted one revives it.
SaveBill(t, draft, touched) ==
  /\ phase = "edit"
  /\ bills[t].exists => draft.type = bills[t].type
  /\ touched # NoShares => draft.type = "purchase"
  /\ Accepted(draft, touched)
  /\ LET items == IF bills[t].exists THEN bills[t].items ELSE <<>>
     IN  /\ Fits(items, touched)
         /\ bills' = [bills EXCEPT ![t] = Bill(draft, Overlaid(items, touched))]
  /\ UNCHANGED <<clearing, phase, clearingVars, settlement>>

\* update_transaction_positions: there is no transaction row in its revision,
\* so the constraint finds no type to check.
UpdatePositions(t, touched) ==
  /\ phase = "edit"
  /\ bills[t].exists /\ bills[t].type = "purchase"
  /\ Fits(bills[t].items, touched)
  /\ bills' = [bills EXCEPT ![t].items = Overlaid(@, touched)]
  /\ UNCHANGED <<clearing, phase, clearingVars, settlement>>

\* delete_transaction
DeleteBill(t) ==
  /\ phase = "edit"
  /\ bills[t].exists /\ ~bills[t].deleted
  /\ bills' = [bills EXCEPT ![t].deleted = TRUE]
  /\ UNCHANGED <<clearing, phase, clearingVars, settlement>>

\* The call of computeAccountBalances: the effects of all bills, and the
\* start of the topological sort.
OpenBooks ==
  /\ phase = "edit"
  /\ \A t \in Alive : ~Throws(bills[t])
  /\ balance' = [a \in Accounts |-> SumAll(LAMBDA t : Effect(bills[t], a), Alive)]
  /\ before' = balance'
  /\ inDegree' = [a \in Accounts |-> Degree(a)]
  /\ ready' = Ranked({e \in Sharing : Degree(e) = 0}, <)
  /\ phase' = "sort"
  /\ UNCHANGED <<books, resolution, sorting, settlement>>

OpenFails ==
  /\ phase = "edit"
  /\ \E t \in Alive : Throws(bills[t])
  /\ phase' = "failed"
  /\ UNCHANGED <<books, clearingVars, settlement>>

\* Slip: an account without shares is looked at and left on the stack.
SlipPeek ==
  /\ phase = "sort" /\ ready # <<>>
  /\ Last(ready) \in Sharing
  /\ LET node == Last(ready)
     IN  /\ sorting' = Append(sorting, node)
         /\ inDegree' = [a \in Accounts |->
                           IF a \in DOMAIN clearing[node] /\ inDegree[a] > 0
                           THEN inDegree[a] - 1 ELSE inDegree[a]]
         /\ ready' = Front(ready) \o Released(node, inDegree)
  /\ UNCHANGED <<books, phase, balance, before, resolution, settlement>>

\* One turn of the while loop: pop an account; a person has no shares.
SortNext ==
  /\ phase = "sort" /\ ready # <<>>
  /\ LET node == Last(ready)
     IN  IF node \in Sharing
         THEN /\ sorting' = Append(sorting, node)
              /\ inDegree' = [a \in Accounts |->
                                IF a \in DOMAIN clearing[node] /\ inDegree[a] > 0
                                THEN inDegree[a] - 1 ELSE inDegree[a]]
              /\ ready' = Front(ready) \o Released(node, inDegree)
         ELSE /\ ready' = Front(ready)
              /\ UNCHANGED <<sorting, inDegree>>
  /\ UNCHANGED <<books, phase, balance, before, resolution, settlement>>

SortEnds ==
  /\ phase = "sort" /\ ready = <<>>
  /\ phase' = "clear"
  /\ UNCHANGED <<books, clearingVars, settlement>>

\* Slip: what is noted is the part of the balance before clearing.
SlipResolution ==
  /\ phase = "clear" /\ sorting # <<>>
  /\ LET e == Head(sorting)
         Handed(sum, a) == Part(sum, ShareOf(clearing[e], a), TotalOf(clearing[e]))
     IN  /\ balance' = [a \in Accounts |->
                          IF a = e THEN 0 ELSE balance[a] + Handed(balance[e], a)]
         /\ resolution' = [resolution EXCEPT ![e] =
                              [a \in DOMAIN clearing[e] |-> Handed(before[e], a)]]
  /\ sorting' = Tail(sorting)
  /\ UNCHANGED <<books, phase, before, inDegree, ready, settlement>>

\* One turn of the for loop over the sorted events.
ClearNext ==
  /\ phase = "clear" /\ sorting # <<>>
  /\ LET e == Head(sorting)
         Handed(a) == Part(balance[e], ShareOf(clearing[e], a), TotalOf(clearing[e]))
     IN  /\ balance' = [a \in Accounts |-> IF a = e THEN 0 ELSE balance[a] + Handed(a)]
         /\ resolution' = [resolution EXCEPT ![e] = [a \in DOMAIN clearing[e] |-> Handed(a)]]
  /\ sorting' = Tail(sorting)
  /\ UNCHANGED <<books, phase, before, inDegree, ready, settlement>>

\* settlementFor passes the balances on to computeGroupSettlement.
ClearEnds ==
  /\ phase = "clear" /\ sorting = <<>>
  /\ Prepare(balance)
  /\ phase' = "plan"
  /\ UNCHANGED <<books, clearingVars>>

PlanNext == SettlementNext /\ UNCHANGED <<books, phase, clearingVars>>

Edit ==
  \E t \in Bills :
    \/ \E draft \in Drafts : SaveBill(t, draft, NoShares)
    \/ \E i \in 1..MaxItems, p \in Positions :
         \/ \E draft \in Drafts : SaveBill(t, draft, [j \in {i} |-> p])
         \/ UpdatePositions(t, [j \in {i} |-> p])
    \/ DeleteBill(t)

\* What follows the call without anybody asking for it.
Turn == SortNext \/ SortEnds \/ ClearNext \/ ClearEnds \/ PlanNext

Next == Edit \/ OpenBooks \/ OpenFails \/ Turn

\* A function that is called runs to its end.
Spec == Init /\ [][Next]_vars /\ WF_vars(Turn)

-----------------------------------------------------------------------------
Opened == phase \in {"sort", "clear", "plan"}

\* What a bill takes from nobody: the part of an absolute split that does
\* not add up to the converted value, and positions nobody is assigned to.
Gap(bill) ==
  IF bill.mode = "absolute"
  THEN Scale * (bill.value * bill.rate - TotalOf(bill.debitors))
  ELSE SumAll(LAMBDA i : IF Assigned(bill.items[i]) THEN 0
                         ELSE bill.items[i].price * Scale * bill.rate,
              LiveItems(bill))

SumOfBalances == SumFunction(balance)

\* Money is neither created nor destroyed, by the effects of the bills nor by
\* any step of the clearing, but for the two kinds of gap the constraints of
\* the database let in.
OnlyGapsAreMissing ==
  Opened => SumOfBalances = SumAll(LAMBDA t : Gap(bills[t]), Alive)

\* transactions.ts:118, "this state should never be possible".
NeverFails == phase # "failed"

\* What an account ends up with, by its definition: what the bills book on it
\* and its part of what every event ends up with.  Events do not share each
\* other in a circle, so as many rounds as there are events are enough.
Inflow[round \in 0..Cardinality(Events)] ==
  IF round = 0 THEN before
  ELSE LET last == Inflow[round - 1]
       IN  [a \in Accounts |->
              before[a] + SumAll(LAMBDA e : Part(last[e], ShareOf(clearing[e], a),
                                                 TotalOf(clearing[e])), Sharing)]

\* The order of the topological sort is one in which every event is handed
\* down once, and only when all that flows into it has arrived.
HandedDown ==
  phase = "plan" =>
    LET final == Inflow[Cardinality(Events)]
    IN  \A a \in Accounts : balance[a] = IF a \in Sharing THEN 0 ELSE final[a]

\* computeAccountBalanceHistory: the last line of an account's history.
HistoryEnd(a) == before[a] + SumAll(LAMBDA e : ShareOf(resolution[e], a), Events)

\* The history of an account ends at the balance shown above it, although one
\* is added up from the bills and the resolutions, the other while clearing.
HistoryEndsAtBalance ==
  phase = "plan" => \A a \in Accounts \ Sharing : HistoryEnd(a) = balance[a]

\* No books make the loops run forever: the plan comes.
PlanComes == phase = "sort" ~> stage = "done"
=============================================================================
