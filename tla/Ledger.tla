------------------------------- MODULE Ledger -------------------------------
(***************************************************************************)
(* The versioned accounts and transactions of one group: what the account  *)
(* and the transaction service write, and what the state_valid_at views of *)
(* the database read back.                                                 *)
(*                                                                         *)
(* Nothing is overwritten.  Every write adds a revision; a revision bears  *)
(* the time its request BEGAN (now() is the time of BEGIN), and the views  *)
(* show, of the revisions at or before a time, the one that began last.    *)
(* A write first updates the row of its group and so holds that row's lock *)
(* until it commits: after the lock, the body and the commit are one step  *)
(* here.  BEGIN is a step of its own, because requests that wait for the   *)
(* lock may get it in another order than the one they began in.            *)
(***************************************************************************)
EXTENDS Naturals, Sequences, FiniteSets

CONSTANTS
  Users,         \* members of the group; each has at most one request open
  Revocable,     \* the users whose write permission is granted and revoked
  Accounts,      \* ids of accounts, of both types
  Clearing,      \* the accounts of type "clearing"; the others are "personal"
  Transactions,  \* ids of transactions
  Purchases,     \* the transactions of type "purchase"
  Items,         \* ids of purchase items (positions)
  Founded,       \* the personal accounts the group has at the start, in order
  MaxRevisions,  \* bound on the revisions committed and under way
  MaxClock       \* bound on the clock, so on the requests ever begun

ASSUME LedgerAssumption ==
  /\ Revocable \subseteq Users
  /\ Clearing \subseteq Accounts
  /\ Purchases \subseteq Transactions
  /\ Accounts \cap Transactions = {}
  /\ Items \cap (Accounts \cup Transactions) = {}
  /\ Founded \in Seq(Accounts \ Clearing)
  /\ MaxRevisions \in Nat
  /\ MaxClock \in Nat

VARIABLES
  log,       \* account_revision and transaction_revision, in commit order
  itemOf,    \* purchase_item.transaction_id, the item itself while unused
  clock,     \* the time of the last BEGIN
  canWrite,  \* the users whose membership has can_write or is_owner
  pending    \* the open request of each user, or NoRequest

vars == <<log, itemOf, clock, canWrite, pending>>

Entities == Accounts \cup Transactions

(***************************************************************************)
(* A revision.  row: it has an account_history or transaction_history row  *)
(* (an update of positions writes none).  refs: the accounts its shares    *)
(* name: clearing shares of an account, creditors and debitors of a        *)
(* transaction.  items: the purchase_item_history rows it writes.  done is *)
(* a history field: the clock when the revision was committed.             *)
(***************************************************************************)
ItemRow == [touched : BOOLEAN, deleted : BOOLEAN, usages : SUBSET Accounts]
Untouched == [touched |-> FALSE, deleted |-> FALSE, usages |-> {}]
NoItems == [it \in Items |-> Untouched]

Revision == [of : Entities, at : Nat, done : Nat, row : BOOLEAN,
             deleted : BOOLEAN, refs : SUBSET Accounts,
             items : [Items -> ItemRow]]

Operations == {"create", "update", "positions", "delete"}
Request == [op : Operations, of : Entities, at : Nat,
            refs : SUBSET Accounts, items : [Items -> ItemRow]]
NoRequest == [op |-> "none"]

(***************************************************************************)
(* The views.  Rows: the revisions of e at or before ts.  Newest: distinct *)
(* on ... order by created_at desc.                                        *)
(***************************************************************************)
Rows(e, ts) == {i \in DOMAIN log : log[i].of = e /\ log[i].at <= ts}
Newest(S) == CHOOSE i \in S : \A j \in S : log[j].at <= log[i].at

AccountAt(a, ts) == log[Newest(Rows(a, ts))]
LiveAccount(a, ts) == Rows(a, ts) # {} /\ ~AccountAt(a, ts).deleted

\* aggregated_transaction_history: the revisions of a transaction that have
\* equally many history rows up to their time form a partition, and each of
\* them shows the row of the partition's first revision (by id, so in commit
\* order).  A first revision without a row shows nulls: row is FALSE.  (SlipX is
\* X with a plausible slip: the definitions named so are not part of the model.)
HistoryUpTo(i) ==
  {j \in DOMAIN log : log[j].of = log[i].of /\ log[j].row /\ log[j].at <= log[i].at}
Partition(i) ==
  {j \in DOMAIN log : log[j].of = log[i].of /\ HistoryUpTo(j) = HistoryUpTo(i)}
SlipLast(i) == CHOOSE j \in Partition(i) : \A k \in Partition(i) : k <= j
First(i) == CHOOSE j \in Partition(i) : \A k \in Partition(i) : j <= k

TransactionAt(t, ts) == log[First(Newest(Rows(t, ts)))]
LiveTransaction(t, ts) ==
  /\ Rows(t, ts) # {}
  /\ TransactionAt(t, ts).row
  /\ ~TransactionAt(t, ts).deleted

\* transaction_position_state_valid_at: the last revision that wrote the item.
ItemRows(it, ts) == {i \in Rows(itemOf[it], ts) : log[i].items[it].touched}
ItemAt(it, ts) == log[Newest(ItemRows(it, ts))].items[it]
LiveItem(it, ts) == ItemRows(it, ts) # {} /\ ~ItemAt(it, ts).deleted

(***************************************************************************)
(* The checks of the services and of the database constraints.             *)
(***************************************************************************)
Exists(e) == \E i \in DOMAIN log : log[i].of = e

AllLive(S, ts) == \A a \in S : LiveAccount(a, ts)

UsagesLive(items, ts) == \A it \in Items : AllLive(items[it].usages, ts)

\* Slips: has_clearing_shares is forgotten; has_usages leaves out the items of
\* deleted transactions.
SlipNoClearingShares(a, ts) ==
  \/ \E t \in Transactions : LiveTransaction(t, ts) /\ a \in TransactionAt(t, ts).refs
  \/ \E it \in Items : LiveItem(it, ts) /\ a \in ItemAt(it, ts).usages
SlipExistingOnly(a, ts) ==
  \/ \E t \in Transactions : LiveTransaction(t, ts) /\ a \in TransactionAt(t, ts).refs
  \/ \E it \in Items : /\ LiveItem(it, ts) /\ LiveTransaction(itemOf[it], ts)
                        /\ a \in ItemAt(it, ts).usages
  \/ \E b \in Accounts : LiveAccount(b, ts) /\ a \in AccountAt(b, ts).refs

\* What delete_account asks before it deletes: has_shares, has_usages (of
\* items that are not deleted, even when their transaction is) and
\* has_clearing_shares.
Referenced(a, ts) ==
  \/ \E t \in Transactions : LiveTransaction(t, ts) /\ a \in TransactionAt(t, ts).refs
  \/ \E it \in Items : LiveItem(it, ts) /\ a \in ItemAt(it, ts).usages
  \/ \E b \in Accounts : LiveAccount(b, ts) /\ a \in AccountAt(b, ts).refs

\* clearing_account_share: the shares of every revision there ever was.
ClearingEdges ==
  {e \in Accounts \X Accounts :
     \E i \in DOMAIN log : log[i].of = e[1] /\ e[2] \in log[i].refs}

ClosedUnder(S, edges) == \A e \in edges : e[1] \in S => e[2] \in S
Descendants(S, edges) ==
  {b \in Accounts :
     \A R \in SUBSET Accounts : S \subseteq R /\ ClosedUnder(R, edges) => b \in R}
HasCycle(S, edges) ==
  \E C \in SUBSET S : C # {} /\ \A a \in C : \E b \in C : <<a, b>> \in edges

\* Slip: the check runs before the new shares are inserted.
SlipBeforeInsert(a, refs) == HasCycle(Descendants(refs, ClearingEdges), ClearingEdges)

\* The recursive query follows the shares of the new revision through the
\* shares of all revisions, and looks for an account it has already passed.
WouldBeCyclic(a, refs) ==
  LET edges == ClearingEdges \cup ({a} \X refs)
  IN  HasCycle(Descendants(refs, edges), edges)

-----------------------------------------------------------------------------
Init ==
  /\ log = [i \in 1..Len(Founded) |->
              [of |-> Founded[i], at |-> i, done |-> i, row |-> TRUE,
               deleted |-> FALSE, refs |-> {}, items |-> NoItems]]
  /\ itemOf = [it \in Items |-> it]
  /\ clock = Len(Founded)
  /\ canWrite = Users
  /\ pending = [u \in Users |-> NoRequest]

(***************************************************************************)
(* A request begins: its now() is fixed.  The entities and accounts it     *)
(* names are ones its client has seen, so committed ones; a created entity *)
(* takes an id of its own.  All handlers but update_account and            *)
(* delete_account check the write permission here, before the lock.        *)
(***************************************************************************)
Busy == {u \in Users : pending[u] # NoRequest}
Reserved(e) == \E u \in Busy : pending[u].of = e

Begin(u, op, e, refs, items) ==
  /\ pending[u] = NoRequest
  /\ clock < MaxClock
  /\ Len(log) + Cardinality(Busy) < MaxRevisions
  /\ IF op = "create" THEN ~Exists(e) /\ ~Reserved(e) ELSE Exists(e)
  /\ \A a \in refs : Exists(a)
  /\ (op = "create" \/ e \in Transactions) => u \in canWrite
  /\ clock' = clock + 1
  /\ pending' = [pending EXCEPT ![u] =
                   [op |-> op, of |-> e, at |-> clock + 1, refs |-> refs, items |-> items]]
  /\ UNCHANGED <<log, itemOf, canWrite>>

\* The items a request on purchase t writes: at most one (a bound), new or one
\* of t's own; a new item is not deleted.  Other types have no positions.
Writes(it, deleted, usages) ==
  [NoItems EXCEPT ![it] = [touched |-> TRUE, deleted |-> deleted, usages |-> usages]]
Adds(it, usages) == Writes(it, FALSE, usages)
OwnItems(t) == {it \in Items : itemOf[it] = t}
NewItems == {it \in Items : itemOf[it] = it /\ \A u \in Busy : ~pending[u].items[it].touched}
KnownUsages == SUBSET {a \in Accounts : Exists(a)}
OldItemChanges(t) == {Writes(it, d, us) : it \in OwnItems(t), d \in BOOLEAN, us \in KnownUsages}
NewItemChanges == {Adds(it, us) : it \in NewItems, us \in KnownUsages}
ItemChanges(t) == IF t \in Purchases THEN OldItemChanges(t) \cup NewItemChanges ELSE {}

BeginAccount(u) ==
  \E a \in Accounts :
    \/ \E refs \in SUBSET Accounts, op \in {"create", "update"} :
         Begin(u, op, a, refs, NoItems)
    \/ Begin(u, "delete", a, {}, NoItems)

BeginTransaction(u) ==
  \E t \in Transactions :
    \/ \E refs \in (SUBSET Accounts) \ {{}}, op \in {"create", "update"} :
         \E items \in ItemChanges(t) \cup {NoItems} : Begin(u, op, t, refs, items)
    \/ \E items \in ItemChanges(t) : Begin(u, "positions", t, {}, items)
    \/ Begin(u, "delete", t, {}, NoItems)

(***************************************************************************)
(* The body of a request under the group's lock, and its commit.  u's      *)
(* request writes one revision of its entity.                              *)
(***************************************************************************)
Runs(u, op, kind) == pending[u] # NoRequest /\ pending[u].op = op /\ pending[u].of \in kind

\* Slip: a new position is stored under the revision's id.
SlipUnderRevision(u, row, deleted, refs) ==
  LET r == pending[u]
  IN  /\ log' = Append(log, [of |-> r.of, at |-> r.at, done |-> clock, row |-> row,
                             deleted |-> deleted, refs |-> refs, items |-> r.items])
      /\ itemOf' = [it \in Items |-> IF r.items[it].touched THEN Len(log) + 1 ELSE itemOf[it]]
      /\ pending' = [pending EXCEPT ![u] = NoRequest]
      /\ UNCHANGED <<clock, canWrite>>

Commit(u, row, deleted, refs) ==
  LET r == pending[u]
  IN  /\ log' = Append(log, [of |-> r.of, at |-> r.at, done |-> clock, row |-> row,
                             deleted |-> deleted, refs |-> refs, items |-> r.items])
      /\ itemOf' = [it \in Items |-> IF r.items[it].touched THEN r.of ELSE itemOf[it]]
      /\ pending' = [pending EXCEPT ![u] = NoRequest]
      /\ UNCHANGED <<clock, canWrite>>

\* The shares of an account: only of clearing accounts, to live accounts, and
\* never in a circle.
SharesAccepted(r) ==
  /\ r.refs # {} => r.of \in Clearing
  /\ AllLive(r.refs, r.at)
  /\ ~WouldBeCyclic(r.of, r.refs)

CreateAccount(u) ==
  /\ Runs(u, "create", Accounts)
  /\ SharesAccepted(pending[u])
  /\ Commit(u, TRUE, FALSE, pending[u].refs)

\* The new history row has deleted = false: an update revives the account.
UpdateAccount(u) ==
  /\ Runs(u, "update", Accounts)
  /\ u \in canWrite
  /\ SharesAccepted(pending[u])
  /\ Commit(u, TRUE, FALSE, pending[u].refs)

DeleteAccount(u) ==
  /\ Runs(u, "delete", Accounts)
  /\ u \in canWrite
  /\ ~Referenced(pending[u].of, pending[u].at)
  /\ LiveAccount(pending[u].of, pending[u].at)
  /\ Commit(u, TRUE, TRUE, {})

CreateTransaction(u) ==
  /\ Runs(u, "create", Transactions)
  /\ AllLive(pending[u].refs, pending[u].at)
  /\ UsagesLive(pending[u].items, pending[u].at)
  /\ Commit(u, TRUE, FALSE, pending[u].refs)

\* As for accounts, an update of a deleted transaction revives it.
UpdateTransaction(u) ==
  /\ Runs(u, "update", Transactions)
  /\ u \in canWrite
  /\ AllLive(pending[u].refs, pending[u].at)
  /\ UsagesLive(pending[u].items, pending[u].at)
  /\ Commit(u, TRUE, FALSE, pending[u].refs)

\* Only purchases; the revision gets no transaction_history row.
UpdatePositions(u) ==
  /\ Runs(u, "positions", Purchases)
  /\ u \in canWrite
  /\ UsagesLive(pending[u].items, pending[u].at)
  /\ Commit(u, FALSE, FALSE, {})

\* Slip: the shares are not copied to the new revision.
SlipSharesLost(u) ==
  /\ Runs(u, "delete", Transactions)
  /\ u \in canWrite
  /\ LiveTransaction(pending[u].of, pending[u].at)
  /\ Commit(u, TRUE, TRUE, {})

\* Refuses a transaction that shows as deleted (nulls do not), then copies the
\* shares of the last revision with a history row, whatever its time.
DeleteTransaction(u) ==
  LET t == pending[u].of
      history == {i \in DOMAIN log : log[i].of = t /\ log[i].row}
  IN  /\ Runs(u, "delete", Transactions)
      /\ u \in canWrite
      /\ Rows(t, pending[u].at) # {}
      /\ ~TransactionAt(t, pending[u].at).deleted
      /\ history # {}
      /\ Commit(u, TRUE, TRUE, log[Newest(history)].refs)

\* The request is refused, fails, or loses its connection: rolled back.
Abort(u) ==
  /\ pending[u] # NoRequest
  /\ pending' = [pending EXCEPT ![u] = NoRequest]
  /\ UNCHANGED <<log, itemOf, clock, canWrite>>

\* update_member_permissions grants or revokes u's write permission; it does
\* not take the group's lock.
ChangePermission(u) ==
  /\ u \in Revocable
  /\ canWrite' = IF u \in canWrite THEN canWrite \ {u} ELSE canWrite \cup {u}
  /\ UNCHANGED <<log, itemOf, clock, pending>>

Next ==
  \E u \in Users :
    \/ BeginAccount(u) \/ BeginTransaction(u)
    \/ CreateAccount(u) \/ UpdateAccount(u) \/ DeleteAccount(u)
    \/ CreateTransaction(u) \/ UpdateTransaction(u)
    \/ UpdatePositions(u) \/ DeleteTransaction(u)
    \/ Abort(u) \/ ChangePermission(u)

Spec == Init /\ [][Next]_vars

(***************************************************************************)
(* The same system when no request overtakes another: requests commit in   *)
(* the order they began in.                                                *)
(***************************************************************************)
InCommitOrder == \A i, j \in DOMAIN log : i < j => log[i].at < log[j].at

OrderedSpec == Init /\ [][Next /\ InCommitOrder']_vars

-----------------------------------------------------------------------------
TypeOK ==
  /\ log \in Seq(Revision)
  /\ itemOf \in [Items -> Items \cup Transactions]
  /\ clock \in Nat
  /\ canWrite \subseteq Users
  /\ pending \in [Users -> Request \cup {NoRequest}]

(***************************************************************************)
(* The clearing shares of all revisions together form no circle, however   *)
(* the requests interleave; so the shares on show form none, and the       *)
(* clients can settle the clearing accounts one after another.             *)
(***************************************************************************)
AcyclicClearing == ~HasCycle(Accounts, ClearingEdges)

(***************************************************************************)
(* What delete_account is for: no account that shows as deleted is named   *)
(* by a transaction, a position (even of a deleted transaction, which an   *)
(* update can revive) or a clearing account that shows as existing.        *)
(***************************************************************************)
NamedOnShow ==
  UNION ({TransactionAt(t, clock).refs : t \in {x \in Transactions : LiveTransaction(x, clock)}}
         \cup {ItemAt(it, clock).usages : it \in {x \in Items : LiveItem(x, clock)}}
         \cup {AccountAt(a, clock).refs : a \in {x \in Accounts : LiveAccount(x, clock)}})
Dangling(a) == a \in NamedOnShow /\ ~LiveAccount(a, clock)
ReferencesLive == \A a \in Accounts : ~Dangling(a)

(***************************************************************************)
(* Without the order assumption a reference can dangle, but only by a race *)
(* of two requests: one deleted the account, one named it, and each had    *)
(* begun before the other one committed.                                   *)
(***************************************************************************)
Names(i, a) == a \in log[i].refs \/ \E it \in Items : a \in log[i].items[it].usages
Overlap(i, j) == log[i].at <= log[j].done /\ log[j].at <= log[i].done
DanglingOnlyByRace ==
  \A a \in Accounts : Dangling(a) =>
    \E i, d \in DOMAIN log :
      Names(i, a) /\ log[d].of = a /\ log[d].deleted /\ Overlap(i, d)

(***************************************************************************)
(* Every committed transaction shows a name, a value and shares, not the   *)
(* nulls of a revision without a history row.                              *)
(***************************************************************************)
Readable == \A t \in Transactions : Exists(t) => TransactionAt(t, clock).row

(***************************************************************************)
(* When no request overtakes another, the revisions and views implement    *)
(* one current state per account, transaction and position.                *)
(***************************************************************************)
ShownState(e) ==
  LET rev == IF e \in Accounts THEN AccountAt(e, clock) ELSE TransactionAt(e, clock)
  IN  [status |-> IF rev.deleted THEN "deleted" ELSE "live", refs |-> rev.refs]
ShownItem(it) ==
  [of |-> itemOf[it], status |-> IF LiveItem(it, clock) THEN "live" ELSE "deleted",
   usages |-> ItemAt(it, clock).usages]

EntityStates ==
  [e \in Entities |-> IF Exists(e) THEN ShownState(e) ELSE [status |-> "absent", refs |-> {}]]
ItemStates ==
  [it \in Items |-> IF itemOf[it] # it THEN ShownItem(it) ELSE [status |-> "absent"]]

Abstract == INSTANCE AbstractLedger WITH shown <- EntityStates, item <- ItemStates

ImplementsAbstract == Abstract!Spec

=============================================================================
