--------------------------- MODULE AbstractLedger ---------------------------
(***************************************************************************)
(* What the members of a group are promised: every account, transaction    *)
(* and position has one current state, a write replaces it at one instant, *)
(* and nothing that exists ever names an account that was deleted.         *)
(***************************************************************************)
EXTENDS FiniteSets

CONSTANTS Accounts, Clearing, Transactions, Purchases, Items

VARIABLES
  shown,  \* the state of each account and transaction
  item    \* the state of each position

Entities == Accounts \cup Transactions

Status == {"absent", "live", "deleted"}
State == [status : Status, refs : SUBSET Accounts]
Absent == [status |-> "absent", refs |-> {}]
Live(refs) == [status |-> "live", refs |-> refs]
Deleted(refs) == [status |-> "deleted", refs |-> refs]

ItemState == [of : Transactions, status : {"live", "deleted"}, usages : SUBSET Accounts]
NoItem == [status |-> "absent"]

Named ==
  UNION ({shown[e].refs : e \in {x \in Entities : shown[x].status = "live"}}
         \cup {item[i].usages : i \in {x \in Items : item[x].status = "live"}})

NamesOnlyLive == \A a \in Named : shown[a].status = "live"

\* The clearing accounts can be put in an order in which each one only names
\* later ones.
Settleable ==
  \A C \in SUBSET Clearing : C # {} =>
    \E a \in C : shown[a].status # "live" \/ shown[a].refs \cap C = {}

Init ==
  /\ shown \in [Entities -> {Absent, Live({})}]
  /\ item = [i \in Items |-> NoItem]

\* Positions belong to one transaction for ever.
ItemsMayBecome(t) ==
  \A i \in Items : item'[i] # item[i] =>
    /\ item[i] = NoItem \/ item[i].of = t
    /\ item'[i] # NoItem /\ item'[i].of = t

\* Create or replace an account: it exists afterwards.
PutAccount(a) ==
  \E refs \in SUBSET Accounts :
    /\ refs # {} => a \in Clearing
    /\ shown' = [shown EXCEPT ![a] = Live(refs)]
    /\ UNCHANGED item
    /\ NamesOnlyLive' /\ Settleable'

RemoveAccount(a) ==
  /\ shown[a].status = "live"
  /\ shown' = [shown EXCEPT ![a] = Deleted({})]
  /\ UNCHANGED item
  /\ NamesOnlyLive'

PutTransaction(t) ==
  \E refs \in (SUBSET Accounts) \ {{}} :
    /\ shown' = [shown EXCEPT ![t] = Live(refs)]
    /\ ItemsMayBecome(t)
    /\ NamesOnlyLive'

PutItems(t) ==
  /\ t \in Purchases
  /\ shown[t].status # "absent"
  /\ UNCHANGED shown
  /\ ItemsMayBecome(t)
  /\ NamesOnlyLive'

\* The shares stay on the deleted transaction; its positions stay as they are.
RemoveTransaction(t) ==
  /\ shown[t].status = "live"
  /\ shown' = [shown EXCEPT ![t] = Deleted(@.refs)]
  /\ UNCHANGED item

Next ==
  \/ \E a \in Accounts : PutAccount(a) \/ RemoveAccount(a)
  \/ \E t \in Transactions : PutTransaction(t) \/ PutItems(t) \/ RemoveTransaction(t)

Spec == Init /\ [][Next]_<<shown, item>>
=============================================================================
