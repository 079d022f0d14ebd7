---------------------------- MODULE LedgerProofs ----------------------------
(***************************************************************************)
(* Theorems about Ledger, for every set of users, accounts, transactions   *)
(* and items and every bound.                                              *)
(***************************************************************************)
EXTENDS Ledger, SequenceTheorems, WellFoundedInduction, TLAPS

(***************************************************************************)
(* TypeOK is not inductive: a deletion copies the shares of the newest     *)
(* revision, so there must be one, and Newest only has a value because no  *)
(* revision is from the future; and itemOf stays in its type because the   *)
(* request on an account writes no item.                                   *)
(***************************************************************************)
TimesBounded ==
  /\ \A i \in DOMAIN log : log[i].at <= clock
  /\ \A u \in Users : pending[u] # NoRequest => pending[u].at <= clock

AccountsHaveNoItems ==
  \A u \in Users : pending[u] # NoRequest /\ pending[u].of \in Accounts
                     => pending[u].items = NoItems

IInv == TypeOK /\ TimesBounded /\ AccountsHaveNoItems

LEMMA LogTypes ==
  ASSUME TypeOK
  PROVE  /\ Len(log) \in Nat
         /\ DOMAIN log = 1..Len(log)
         /\ \A i \in DOMAIN log : /\ log[i] \in Revision
                                  /\ log[i].of \in Entities
                                  /\ log[i].at \in Nat
                                  /\ log[i].refs \in SUBSET Accounts
<1>1. log \in Seq(Revision)
  BY DEF TypeOK
<1>2. Len(log) \in Nat /\ DOMAIN log = 1..Len(log)
  BY <1>1, LenProperties
<1>3. \A i \in DOMAIN log : log[i] \in Revision
  BY <1>1, <1>2, ElementOfSeq
<1> QED
  BY <1>2, <1>3 DEF Revision

(***************************************************************************)
(* A non-empty set of natural numbers has a least one.                     *)
(***************************************************************************)
LEMMA LeastNatural ==
  ASSUME NEW T \in SUBSET Nat, T # {}
  PROVE  \E m \in T : \A n \in T : m <= n
<1>1. PICK m \in T : \A n \in T : ~(<<n, m>> \in OpToRel(<, Nat))
  <2> HIDE DEF OpToRel
  <2> QED
    BY WFMin, NatLessThanWellFounded
<1>2. \A n \in T : ~(n < m)
  BY <1>1 DEF OpToRel
<1> QED
  BY <1>2

(***************************************************************************)
(* The revisions of a non-empty set have a newest one, so Newest is in the *)
(* set: the distance to the clock is a natural number and has a minimum.   *)
(***************************************************************************)
LEMMA NewestIsMax ==
  ASSUME IInv, NEW S \in SUBSET DOMAIN log, S # {}
  PROVE  /\ Newest(S) \in S
         /\ \A j \in S : log[j].at <= log[Newest(S)].at
<1> DEFINE ages == {clock - log[i].at : i \in S}
<1>1. \A i \in S : log[i].at \in Nat /\ clock \in Nat /\ log[i].at <= clock
  BY LogTypes DEF IInv, TypeOK, TimesBounded
<1>2. ages \in SUBSET Nat /\ ages # {}
  BY <1>1
<1>3. PICK n \in ages : \A m \in ages : n <= m
  BY <1>2, LeastNatural
<1>4. PICK i \in S : n = clock - log[i].at
  BY <1>3
<1>5. \A j \in S : log[j].at <= log[i].at
  <2> TAKE j \in S
  <2>1. n <= clock - log[j].at
    BY <1>3
  <2> QED
    BY <2>1, <1>4, <1>1
<1> QED
  BY <1>5 DEF Newest

(***************************************************************************)
(* Types.                                                                  *)
(***************************************************************************)
LEMMA ItemTypes ==
  /\ NoItems \in [Items -> ItemRow]
  /\ \A it \in Items, d \in BOOLEAN, us \in SUBSET Accounts :
       Writes(it, d, us) \in [Items -> ItemRow]
BY DEF NoItems, Untouched, ItemRow, Writes

LEMMA ItemChangesType ==
  ASSUME NEW t, NEW items \in ItemChanges(t)
  PROVE  items \in [Items -> ItemRow]
<1>1. items \in OldItemChanges(t) \/ items \in NewItemChanges
  BY DEF ItemChanges
<1>2. /\ OwnItems(t) \subseteq Items
      /\ NewItems \subseteq Items
      /\ KnownUsages \subseteq SUBSET Accounts
  BY DEF OwnItems, NewItems, KnownUsages
<1>3. CASE items \in OldItemChanges(t)
  BY <1>2, <1>3, ItemTypes DEF OldItemChanges
<1>4. CASE items \in NewItemChanges
  <2>1. PICK it \in NewItems, us \in KnownUsages : items = Adds(it, us)
    BY <1>4 DEF NewItemChanges
  <2> QED
    BY <2>1, <1>2, ItemTypes DEF Adds
<1> QED
  BY <1>1, <1>3, <1>4

LEMMA InitIInv == Init => IInv
<1> SUFFICES ASSUME Init PROVE IInv
  OBVIOUS
<1> USE LedgerAssumption
<1>1. Len(Founded) \in Nat /\ \A i \in 1..Len(Founded) : Founded[i] \in Accounts
  OBVIOUS
<1>2. log \in [1..Len(Founded) -> Revision]
  BY <1>1, ItemTypes DEF Init, Revision, Entities
<1>3. log \in Seq(Revision) /\ DOMAIN log = 1..Len(Founded)
  BY <1>1, <1>2
<1>4. \A i \in DOMAIN log : log[i].at = i
  BY <1>3 DEF Init
<1> QED
  BY <1>1, <1>3, <1>4 DEF Init, IInv, TypeOK, TimesBounded, AccountsHaveNoItems

LEMMA BeginIInv ==
  ASSUME IInv, NEW u \in Users, NEW op \in Operations, NEW e \in Entities,
         NEW refs \in SUBSET Accounts, NEW items \in [Items -> ItemRow],
         e \in Accounts => items = NoItems,
         Begin(u, op, e, refs, items)
  PROVE  IInv'
<1> DEFINE r == [op |-> op, of |-> e, at |-> clock + 1, refs |-> refs, items |-> items]
<1>1. clock \in Nat /\ clock' = clock + 1 /\ UNCHANGED <<log, itemOf, canWrite>>
  BY DEF IInv, TypeOK, Begin
<1>2. r \in Request /\ pending' = [pending EXCEPT ![u] = r]
  BY <1>1 DEF Request, Begin
<1>3. TypeOK'
  BY <1>1, <1>2 DEF IInv, TypeOK
<1>4. TimesBounded'
  <2>1. \A i \in DOMAIN log' : log'[i].at <= clock'
    <3> SUFFICES ASSUME NEW i \in DOMAIN log PROVE log[i].at <= clock + 1
      BY <1>1
    <3>1. log[i].at \in Nat /\ log[i].at <= clock
      BY LogTypes DEF IInv, TimesBounded
    <3> QED
      BY <3>1, <1>1
  <2>2. ASSUME NEW v \in Users, pending'[v] # NoRequest
        PROVE  pending'[v].at <= clock'
    <3>1. CASE v = u
      BY <3>1, <1>1, <1>2 DEF IInv, TypeOK
    <3>2. CASE v # u
      <4>1. pending'[v] = pending[v] /\ pending[v] \in Request
        BY <3>2, <2>2, <1>2 DEF IInv, TypeOK
      <4>2. pending[v].at \in Nat /\ pending[v].at <= clock
        BY <4>1, <2>2 DEF IInv, TimesBounded, Request
      <4> QED
        BY <4>1, <4>2, <1>1
    <3> QED
      BY <3>1, <3>2
  <2> QED
    BY <2>1, <2>2 DEF TimesBounded
<1>5. AccountsHaveNoItems'
  BY <1>2 DEF IInv, TypeOK, AccountsHaveNoItems
<1> QED
  BY <1>3, <1>4, <1>5 DEF IInv

(***************************************************************************)
(* What a commit appends.                                                  *)
(***************************************************************************)
Appended(u, row, deleted, refs) ==
  [of |-> pending[u].of, at |-> pending[u].at, done |-> clock, row |-> row,
   deleted |-> deleted, refs |-> refs, items |-> pending[u].items]

LEMMA CommitAppends ==
  ASSUME IInv, NEW u \in Users, pending[u] # NoRequest,
         NEW row \in BOOLEAN, NEW deleted \in BOOLEAN, NEW refs \in SUBSET Accounts,
         Commit(u, row, deleted, refs)
  PROVE  /\ Appended(u, row, deleted, refs) \in Revision
         /\ log' = Append(log, Appended(u, row, deleted, refs))
         /\ DOMAIN log' = 1..Len(log) + 1
         /\ \A i \in DOMAIN log : log'[i] = log[i]
         /\ log'[Len(log) + 1] = Appended(u, row, deleted, refs)
<1>1. pending[u] \in Request /\ clock \in Nat /\ log \in Seq(Revision)
  BY DEF IInv, TypeOK
<1>2. Appended(u, row, deleted, refs) \in Revision
  BY <1>1 DEF Appended, Request, Revision
<1>3. log' = Append(log, Appended(u, row, deleted, refs))
  BY DEF Commit, Appended
<1> QED
  BY <1>1, <1>2, <1>3

LEMMA CommitIInv ==
  ASSUME IInv, NEW u \in Users, pending[u] # NoRequest,
         NEW row \in BOOLEAN, NEW deleted \in BOOLEAN, NEW refs \in SUBSET Accounts,
         Commit(u, row, deleted, refs)
  PROVE  IInv'
<1>1. /\ pending[u] \in Request /\ pending[u].at \in Nat /\ pending[u].at <= clock
      /\ clock \in Nat /\ log \in Seq(Revision)
  BY DEF IInv, TypeOK, TimesBounded, Request
<1>2. /\ clock' = clock /\ canWrite' = canWrite
      /\ pending' = [pending EXCEPT ![u] = NoRequest]
      /\ itemOf' = [it \in Items |-> IF pending[u].items[it].touched
                                     THEN pending[u].of ELSE itemOf[it]]
  BY DEF Commit
<1>3. log' \in Seq(Revision)
  BY <1>1, CommitAppends
<1>4. itemOf' \in [Items -> Items \cup Transactions]
  <2>1. CASE pending[u].of \in Accounts
    <3>1. \A it \in Items : ~pending[u].items[it].touched
      BY <2>1 DEF IInv, AccountsHaveNoItems, NoItems, Untouched
    <3> QED
      BY <3>1, <1>2 DEF IInv, TypeOK
  <2>2. CASE pending[u].of \in Transactions
    BY <2>2, <1>2 DEF IInv, TypeOK
  <2> QED
    BY <2>1, <2>2, <1>1 DEF Request, Entities
<1>5. pending' \in [Users -> Request \cup {NoRequest}]
  BY <1>2 DEF IInv, TypeOK
<1>6. TypeOK'
  BY <1>2, <1>3, <1>4, <1>5 DEF IInv, TypeOK
<1>7. TimesBounded'
  <2>1. ASSUME NEW i \in DOMAIN log' PROVE log'[i].at <= clock'
    <3>1. CASE i \in DOMAIN log
      BY <3>1, <1>2, CommitAppends DEF IInv, TimesBounded
    <3>2. CASE i = Len(log) + 1
      <4>1. log'[i] = Appended(u, row, deleted, refs)
        BY <3>2, CommitAppends
      <4>2. log'[i].at = pending[u].at
        BY <4>1 DEF Appended
      <4> QED
        BY <4>2, <1>1, <1>2
    <3>3. i \in DOMAIN log \/ i = Len(log) + 1
      BY CommitAppends, LogTypes DEF IInv
    <3> QED
      BY <3>1, <3>2, <3>3
  <2>2. \A v \in Users : pending'[v] # NoRequest => pending'[v].at <= clock'
    BY <1>2 DEF IInv, TypeOK, TimesBounded
  <2> QED
    BY <2>1, <2>2 DEF TimesBounded
<1>8. AccountsHaveNoItems'
  BY <1>2 DEF IInv, TypeOK, AccountsHaveNoItems
<1> QED
  BY <1>6, <1>7, <1>8 DEF IInv

(***************************************************************************)
(* The commits of Next, and what each of them appends: its entity is an    *)
(* account or a transaction, its shares are a set of accounts, and those   *)
(* of an account have passed the check against circles.                    *)
(***************************************************************************)
Commits(u) ==
  \/ CreateAccount(u) \/ UpdateAccount(u) \/ DeleteAccount(u)
  \/ CreateTransaction(u) \/ UpdateTransaction(u)
  \/ UpdatePositions(u) \/ DeleteTransaction(u)

LEMMA EveryCommit ==
  ASSUME IInv, NEW u \in Users, Commits(u)
  PROVE  /\ pending[u] # NoRequest
         /\ \E row \in BOOLEAN, deleted \in BOOLEAN, refs \in SUBSET Accounts :
              /\ Commit(u, row, deleted, refs)
              /\ \/ pending[u].of \in Transactions
                 \/ pending[u].of \in Accounts /\ refs = {}
                 \/ pending[u].of \in Accounts /\ ~WouldBeCyclic(pending[u].of, refs)
<1>1. pending[u] # NoRequest
  BY DEF Commits, CreateAccount, UpdateAccount, DeleteAccount, CreateTransaction,
         UpdateTransaction, UpdatePositions, DeleteTransaction, Runs
<1>2. pending[u].refs \in SUBSET Accounts
  BY <1>1 DEF IInv, TypeOK, Request
<1>3. CASE CreateAccount(u)
  BY <1>2, <1>3 DEF CreateAccount, Runs, SharesAccepted
<1>4. CASE UpdateAccount(u)
  BY <1>2, <1>4 DEF UpdateAccount, Runs, SharesAccepted
<1>5. CASE DeleteAccount(u)
  BY <1>5 DEF DeleteAccount, Runs
<1>6. CASE CreateTransaction(u)
  BY <1>2, <1>6 DEF CreateTransaction, Runs
<1>7. CASE UpdateTransaction(u)
  BY <1>2, <1>7 DEF UpdateTransaction, Runs
<1>8. CASE UpdatePositions(u)
  BY <1>8, LedgerAssumption DEF UpdatePositions, Runs
<1>9. CASE DeleteTransaction(u)
  <2> DEFINE history == {i \in DOMAIN log : log[i].of = pending[u].of /\ log[i].row}
  <2>1. /\ pending[u].of \in Transactions
        /\ history # {}
        /\ Commit(u, TRUE, TRUE, log[Newest(history)].refs)
    BY <1>9 DEF DeleteTransaction, Runs
  <2>2. Newest(history) \in DOMAIN log
    BY <2>1, NewestIsMax
  <2>3. log[Newest(history)].refs \in SUBSET Accounts
    BY <2>2, LogTypes DEF IInv
  <2> QED
    BY <1>1, <2>1, <2>3
<1> QED
  BY <1>1, <1>3, <1>4, <1>5, <1>6, <1>7, <1>8, <1>9 DEF Commits

LEMMA NextCases ==
  ASSUME Next
  PROVE  \E u \in Users : \/ BeginAccount(u) \/ BeginTransaction(u)
                          \/ Commits(u)
                          \/ Abort(u) \/ ChangePermission(u)
BY DEF Next, Commits

LEMMA NextIInv == IInv /\ [Next]_vars => IInv'
<1> SUFFICES ASSUME IInv, [Next]_vars PROVE IInv'
  OBVIOUS
<1>1. CASE UNCHANGED vars
  BY <1>1 DEF vars, IInv, TypeOK, TimesBounded, AccountsHaveNoItems
<1>2. ASSUME NEW u \in Users, BeginAccount(u) PROVE IInv'
  <2>1. \E e \in Accounts, op \in Operations, refs \in SUBSET Accounts :
          Begin(u, op, e, refs, NoItems)
    BY <1>2 DEF BeginAccount, Operations
  <2> QED
    BY <2>1, BeginIInv, ItemTypes DEF Entities
<1>3. ASSUME NEW u \in Users, BeginTransaction(u) PROVE IInv'
  <2>1. PICK e \in Transactions, op \in Operations, refs \in SUBSET Accounts,
             items \in [Items -> ItemRow] : Begin(u, op, e, refs, items)
    BY <1>3, ItemChangesType, ItemTypes DEF BeginTransaction, Operations
  <2>2. e \in Entities /\ e \notin Accounts
    BY LedgerAssumption DEF Entities
  <2> QED
    BY <2>1, <2>2, BeginIInv
<1>4. ASSUME NEW u \in Users, Commits(u) PROVE IInv'
  BY <1>4, EveryCommit, CommitIInv
<1>5. ASSUME NEW u \in Users, Abort(u) PROVE IInv'
  BY <1>5 DEF Abort, IInv, TypeOK, TimesBounded, AccountsHaveNoItems
<1>6. ASSUME NEW u \in Users, ChangePermission(u) PROVE IInv'
  BY <1>6, LedgerAssumption
  DEF ChangePermission, IInv, TypeOK, TimesBounded, AccountsHaveNoItems
<1> QED
  BY <1>1, <1>2, <1>3, <1>4, <1>5, <1>6, NextCases

LEMMA Inductive == Spec => []IInv
<1> QED
  BY InitIInv, NextIInv, PTL DEF Spec

(***************************************************************************)
(* Every reachable state is well typed: revisions, items and requests keep *)
(* their shape whatever the members do and in whatever order.              *)
(***************************************************************************)
THEOREM TypeCorrect == Spec => []TypeOK
<1>1. IInv => TypeOK
  BY DEF IInv
<1> QED
  BY <1>1, Inductive, PTL

(***************************************************************************)
(* Circles.  Descendants(S, edges) holds S and everything its members      *)
(* point to; so a circle that meets it stays in it.                        *)
(***************************************************************************)
LEMMA DescendantsClosed ==
  ASSUME NEW S \in SUBSET Accounts, NEW edges \in SUBSET (Accounts \X Accounts)
  PROVE  /\ Descendants(S, edges) \subseteq Accounts
         /\ S \subseteq Descendants(S, edges)
         /\ ClosedUnder(Descendants(S, edges), edges)
<1>1. Descendants(S, edges) \subseteq Accounts /\ S \subseteq Descendants(S, edges)
  BY DEF Descendants
<1>2. ASSUME NEW e \in edges, e[1] \in Descendants(S, edges)
      PROVE  e[2] \in Descendants(S, edges)
  <2>1. e[2] \in Accounts
    OBVIOUS
  <2>2. ASSUME NEW R \in SUBSET Accounts, S \subseteq R, ClosedUnder(R, edges)
        PROVE  e[2] \in R
    <3>1. e[1] \in R
      BY <1>2, <2>2 DEF Descendants
    <3> QED
      BY <2>2, <3>1 DEF ClosedUnder
  <2> QED
    BY <2>1, <2>2 DEF Descendants
<1> QED
  BY <1>1, <1>2 DEF ClosedUnder

(***************************************************************************)
(* The check of one account is enough: shares that close a circle close    *)
(* one that the descendants of the new shares contain.                     *)
(***************************************************************************)
LEMMA CheckIsEnough ==
  ASSUME NEW edges \in SUBSET (Accounts \X Accounts),
         NEW a \in Accounts, NEW refs \in SUBSET Accounts,
         ~HasCycle(Accounts, edges),
         ~HasCycle(Descendants(refs, edges \cup ({a} \X refs)), edges \cup ({a} \X refs))
  PROVE  ~HasCycle(Accounts, edges \cup ({a} \X refs))
<1> DEFINE new == edges \cup ({a} \X refs)
<1> DEFINE D == Descendants(refs, new)
<1> SUFFICES ASSUME NEW C \in SUBSET Accounts, C # {},
                    \A x \in C : \E y \in C : <<x, y>> \in new
             PROVE  FALSE
  BY DEF HasCycle
<1>1. new \in SUBSET (Accounts \X Accounts)
  OBVIOUS
<1>2. D \subseteq Accounts /\ refs \subseteq D /\ ClosedUnder(D, new)
  BY <1>1, DescendantsClosed
<1>3. CASE C \cap D # {}
  <2>1. \A x \in C \cap D : \E y \in C \cap D : <<x, y>> \in new
    <3> SUFFICES ASSUME NEW x \in C \cap D
                 PROVE  \E y \in C \cap D : <<x, y>> \in new
      OBVIOUS
    <3>1. PICK y \in C : <<x, y>> \in new
      OBVIOUS
    <3>2. y \in D
      BY <1>2, <3>1 DEF ClosedUnder
    <3> QED
      BY <3>1, <3>2
  <2>2. C \cap D \in SUBSET D
    OBVIOUS
  <2>3. HasCycle(D, new)
    BY <1>3, <2>1, <2>2 DEF HasCycle
  <2> QED
    BY <2>3
<1>4. CASE C \cap D = {}
  <2>1. \A x \in C : \E y \in C : <<x, y>> \in edges
    <3> SUFFICES ASSUME NEW x \in C PROVE \E y \in C : <<x, y>> \in edges
      OBVIOUS
    <3>1. PICK y \in C : <<x, y>> \in new
      OBVIOUS
    <3>2. y \notin refs
      BY <1>2, <1>4
    <3> QED
      BY <3>1, <3>2
  <2> QED
    BY <2>1 DEF HasCycle
<1> QED
  BY <1>3, <1>4

(***************************************************************************)
(* A commit adds the edges of its shares, and only if its entity is an     *)
(* account.                                                                *)
(***************************************************************************)
LEMMA CommitEdges ==
  ASSUME IInv, NEW u \in Users, pending[u] # NoRequest,
         NEW row \in BOOLEAN, NEW deleted \in BOOLEAN, NEW refs \in SUBSET Accounts,
         Commit(u, row, deleted, refs)
  PROVE  ClearingEdges' = ClearingEdges
                          \cup (IF pending[u].of \in Accounts THEN {pending[u].of} \X refs
                                                              ELSE {})
<1> DEFINE n == Len(log) + 1
<1>1. /\ DOMAIN log' = DOMAIN log \cup {n}
      /\ \A i \in DOMAIN log : log'[i] = log[i]
      /\ log'[n].of = pending[u].of /\ log'[n].refs = refs
  <2>1. DOMAIN log = 1..Len(log) /\ Len(log) \in Nat
    BY LogTypes DEF IInv
  <2>2. log'[n] = Appended(u, row, deleted, refs)
    BY CommitAppends
  <2>3. log'[n].of = pending[u].of /\ log'[n].refs = refs
    BY <2>2 DEF Appended
  <2>4. DOMAIN log' = 1..n /\ \A i \in DOMAIN log : log'[i] = log[i]
    BY CommitAppends
  <2>5. 1..n = DOMAIN log \cup {n}
    BY <2>1
  <2> QED
    BY <2>3, <2>4, <2>5
<1>2. ASSUME NEW e \in Accounts \X Accounts
      PROVE  e \in ClearingEdges' <=>
               e \in ClearingEdges \/ (e[1] = pending[u].of /\ e[2] \in refs)
  BY <1>1 DEF ClearingEdges
<1> QED
  BY <1>2 DEF ClearingEdges

LEMMA NextAcyclic ==
  IInv /\ AcyclicClearing /\ [Next]_vars => AcyclicClearing'
<1> SUFFICES ASSUME IInv, AcyclicClearing, [Next]_vars PROVE AcyclicClearing'
  OBVIOUS
<1>1. ASSUME UNCHANGED log PROVE AcyclicClearing'
  BY <1>1 DEF AcyclicClearing, ClearingEdges, HasCycle
<1>2. ASSUME NEW u \in Users, Commits(u) PROVE AcyclicClearing'
  <2>1. pending[u] # NoRequest
    BY <1>2, EveryCommit
  <2>2. PICK row \in BOOLEAN, deleted \in BOOLEAN, refs \in SUBSET Accounts :
              /\ Commit(u, row, deleted, refs)
              /\ \/ pending[u].of \in Transactions
                 \/ pending[u].of \in Accounts /\ refs = {}
                 \/ pending[u].of \in Accounts /\ ~WouldBeCyclic(pending[u].of, refs)
    BY <1>2, EveryCommit
  <2>3. ClearingEdges' = ClearingEdges
                         \cup (IF pending[u].of \in Accounts THEN {pending[u].of} \X refs
                                                             ELSE {})
    BY <2>1, <2>2, CommitEdges
  <2>4. CASE ClearingEdges' = ClearingEdges
    BY <2>4 DEF AcyclicClearing, HasCycle
  <2>5. CASE pending[u].of \in Accounts /\ ~WouldBeCyclic(pending[u].of, refs)
    <3> DEFINE new == ClearingEdges \cup ({pending[u].of} \X refs)
    <3>1. ClearingEdges \in SUBSET (Accounts \X Accounts) /\ ClearingEdges' = new
      BY <2>3, <2>5 DEF ClearingEdges
    <3>2. ~HasCycle(Accounts, new)
      BY <2>5, <3>1, CheckIsEnough DEF AcyclicClearing, WouldBeCyclic
    <3> QED
      BY <3>1, <3>2 DEF AcyclicClearing, HasCycle
  <2>6. CASE pending[u].of \notin Accounts \/ refs = {}
    BY <2>3, <2>4, <2>6
  <2> QED
    BY <2>2, <2>5, <2>6, LedgerAssumption
<1>3. ASSUME NEW u \in Users, BeginAccount(u) \/ BeginTransaction(u) PROVE UNCHANGED log
  BY <1>3 DEF BeginAccount, BeginTransaction, Begin
<1>4. ASSUME NEW u \in Users, Abort(u) \/ ChangePermission(u) PROVE UNCHANGED log
  BY <1>4 DEF Abort, ChangePermission
<1>5. UNCHANGED vars => UNCHANGED log
  BY DEF vars
<1> QED
  BY <1>1, <1>2, <1>3, <1>4, <1>5, NextCases

LEMMA InitAcyclic == Init => AcyclicClearing
<1> SUFFICES ASSUME Init PROVE AcyclicClearing
  OBVIOUS
<1>1. \A i \in DOMAIN log : log[i].refs = {}
  BY LedgerAssumption DEF Init
<1> QED
  BY <1>1 DEF AcyclicClearing, ClearingEdges, HasCycle

(***************************************************************************)
(* The check of check_clearing_accounts_for_cyclic_dependencies looks only *)
(* at the descendants of one account, in one request at a time: it still   *)
(* keeps the clearing shares of the whole group free of circles, in every  *)
(* interleaving and for every number of accounts and members.              *)
(***************************************************************************)
THEOREM ClearingStaysAcyclic == Spec => []AcyclicClearing
<1> QED
  BY Inductive, InitAcyclic, NextAcyclic, PTL DEF Spec

-----------------------------------------------------------------------------
(***************************************************************************)
(* What the order of requests does to the references.  The invariant:      *)
(* every BEGIN has a time of its own; a commit follows its                 *)
(* BEGIN, and commits follow each other; a position stays with its         *)
(* transaction; deletions write no position.                               *)
(***************************************************************************)
TimesDiffer ==
  /\ \A i, j \in DOMAIN log : log[i].at = log[j].at => i = j
  /\ \A u \in Users : pending[u] # NoRequest =>
       /\ \A i \in DOMAIN log : log[i].at # pending[u].at
       /\ \A v \in Users : pending[v] # NoRequest /\ pending[u].at = pending[v].at => u = v

CommitsFollow ==
  \A i \in DOMAIN log :
    /\ log[i].at <= log[i].done /\ log[i].done <= clock
    /\ \A j \in DOMAIN log : i < j => log[i].done <= log[j].done

ItemsBelong ==
  /\ \A i \in DOMAIN log, it \in Items : log[i].items[it].touched => itemOf[it] = log[i].of
  /\ \A u \in Users, it \in Items : pending[u] # NoRequest /\ pending[u].items[it].touched =>
       \/ itemOf[it] = pending[u].of
       \/ /\ itemOf[it] = it
          /\ \A v \in Users : pending[v] # NoRequest /\ pending[v].items[it].touched => u = v

DeletionsHaveNoItems ==
  \A u \in Users : pending[u] # NoRequest /\ pending[u].op = "delete" => pending[u].items = NoItems

(***************************************************************************)
(* What the checks of revision i saw, which was all that came before i in  *)
(* the log and began before it: the accounts that i names were live.       *)
(***************************************************************************)
LiveBefore(n, a, ts) ==
  \E r \in DOMAIN log :
    /\ r < n /\ log[r].of = a /\ log[r].at <= ts /\ ~log[r].deleted
    /\ \A j \in DOMAIN log : j < n /\ log[j].of = a /\ log[j].at <= ts => log[j].at <= log[r].at
NamesAsLive(i, a) ==
  \/ a \in log[i].refs /\ ~log[i].deleted
  \/ \E it \in Items : a \in log[i].items[it].usages
SawLive == \A i \in DOMAIN log, a \in Accounts : NamesAsLive(i, a) => LiveBefore(i, a, log[i].at)

(***************************************************************************)
(* And the account that d deletes was named by nothing on show: where i    *)
(* names it, another revision keeps i from being shown.                    *)
(***************************************************************************)
Hides(j, i) ==
  /\ log[j].of = log[i].of /\ log[i].at < log[j].at
  /\ log[i].of \in Transactions => log[j].row \/ j < i
HidesItem(j, i, it) ==
  log[j].of = log[i].of /\ log[i].at < log[j].at /\ log[j].items[it].touched
SawUnnamed ==
  \A d \in DOMAIN log : log[d].of \in Accounts /\ log[d].deleted =>
    \A i \in DOMAIN log : i < d /\ log[i].at <= log[d].at =>
      /\ log[d].of \in log[i].refs /\ ~log[i].deleted /\ log[i].row =>
           \E j \in DOMAIN log : Hides(j, i)
      /\ \A it \in Items :
           log[i].items[it].touched /\ ~log[i].items[it].deleted /\ log[d].of \in log[i].items[it].usages =>
             \E j \in DOMAIN log : HidesItem(j, i, it)

AccountRows == \A i \in DOMAIN log : log[i].of \in Accounts => log[i].row

OrderInv == /\ IInv
            /\ TimesDiffer /\ CommitsFollow /\ ItemsBelong /\ DeletionsHaveNoItems
            /\ AccountRows /\ SawLive /\ SawUnnamed

-----------------------------------------------------------------------------
(* Which revision a view shows.                                            *)

LEMMA RowsInLog ==
  ASSUME NEW e, NEW ts
  PROVE  /\ Rows(e, ts) \in SUBSET DOMAIN log
         /\ \A i \in Rows(e, ts) : i \in DOMAIN log /\ log[i].of = e /\ log[i].at <= ts
BY DEF Rows

(***************************************************************************)
(* Of an account, the revision that nothing hides.                         *)
(***************************************************************************)
LEMMA NewestIs ==
  ASSUME IInv, TimesDiffer, NEW S \in SUBSET DOMAIN log, NEW i \in S,
         \A j \in S : ~(log[i].at < log[j].at)
  PROVE  Newest(S) = i
<1>1. Newest(S) \in S /\ log[i].at <= log[Newest(S)].at
  BY NewestIsMax
<1>2. log[i].at \in Nat /\ log[Newest(S)].at \in Nat
  BY <1>1, LogTypes DEF IInv
<1> QED
  BY <1>1, <1>2 DEF TimesDiffer

LEMMA NewestHidden ==
  ASSUME IInv, NEW S \in SUBSET DOMAIN log, S # {}
  PROVE  Newest(S) \in S /\ \A j \in S : ~(log[Newest(S)].at < log[j].at)
<1>1. Newest(S) \in S /\ \A j \in S : log[j].at <= log[Newest(S)].at
  BY NewestIsMax
<1>2. \A j \in S : log[j].at \in Nat
  BY LogTypes DEF IInv
<1> QED
  BY <1>1, <1>2

LEMMA FirstIsLeast ==
  ASSUME IInv, NEW i \in DOMAIN log
  PROVE  /\ First(i) \in Partition(i) /\ \A k \in Partition(i) : First(i) <= k
         /\ \A f \in Partition(i) : (\A k \in Partition(i) : f <= k) => First(i) = f
<1>1. DOMAIN log \subseteq Nat
  BY LogTypes DEF IInv
<1>2. Partition(i) \in SUBSET Nat /\ i \in Partition(i)
  BY <1>1 DEF Partition
<1>3. PICK m \in Partition(i) : \A n \in Partition(i) : m <= n
  BY <1>2, LeastNatural
<1>4. First(i) \in Partition(i) /\ \A k \in Partition(i) : First(i) <= k
  BY <1>3 DEF First
<1> QED
  BY <1>2, <1>4

(***************************************************************************)
(* Of a transaction, the revision with a row after which no row was        *)
(* written, and before which none was committed that began later.          *)
(***************************************************************************)
LEMMA ShownTransaction ==
  ASSUME IInv, TimesDiffer, NEW t \in Transactions, NEW ts \in Nat,
         NEW i \in Rows(t, ts), log[i].row,
         \A j \in DOMAIN log : ~Hides(j, i)
  PROVE  First(Newest(Rows(t, ts))) = i
<1> DEFINE w == Newest(Rows(t, ts))
<1>1. /\ w \in DOMAIN log /\ log[w].of = t /\ log[w].at <= ts
      /\ i \in DOMAIN log /\ log[i].of = t /\ log[i].at <= log[w].at
      /\ \A j \in Rows(t, ts) : log[j].at <= log[w].at
  BY RowsInLog, NewestIsMax
<1>2. /\ \A j \in DOMAIN log : log[j].at \in Nat
      /\ DOMAIN log \subseteq Nat
  BY LogTypes DEF IInv
<1> HIDE DEF w
<1>4. HistoryUpTo(w) = HistoryUpTo(i)
  <2>1. ASSUME NEW j \in DOMAIN log, log[j].of = t, log[j].row
        PROVE  log[j].at <= log[w].at <=> log[j].at <= log[i].at
    BY <2>1, <1>1, <1>2 DEF Hides
  <2> QED
    BY <2>1, <1>1 DEF HistoryUpTo
<1>5. i \in Partition(w)
  BY <1>1, <1>4 DEF Partition
<1>6. ASSUME NEW k \in Partition(w) PROVE i <= k
  <2>1. k \in DOMAIN log /\ log[k].of = t /\ HistoryUpTo(k) = HistoryUpTo(i)
    BY <1>1, <1>4, <1>6 DEF Partition
  <2>2. i \in HistoryUpTo(k)
    BY <2>1, <1>1, <1>2 DEF HistoryUpTo
  <2>3. log[i].at <= log[k].at
    BY <2>2 DEF HistoryUpTo
  <2>4. CASE k = i
    BY <2>4, <1>1, <1>2
  <2>5. CASE k # i /\ k < i
    <3>1. log[i].at < log[k].at
      BY <2>1, <2>3, <2>5, <1>1, <1>2 DEF TimesDiffer
    <3>2. Hides(k, i)
      BY <3>1, <2>1, <2>5, <1>1 DEF Hides
    <3> QED
      BY <3>2, <2>1
  <2> QED
    BY <2>1, <2>4, <2>5, <1>1, <1>2
<1> QED
  BY <1>1, <1>5, <1>6, FirstIsLeast DEF w

(***************************************************************************)
(* Conversely, and once all revisions began by then.                       *)
(***************************************************************************)
LEMMA AllRows ==
  ASSUME IInv, NEW e
  PROVE  Rows(e, clock) = {i \in DOMAIN log : log[i].of = e}
BY DEF Rows, IInv, TimesBounded

LEMMA NothingHidesShown ==
  ASSUME IInv, NEW t \in Transactions, Rows(t, clock) # {}, TransactionAt(t, clock).row
  PROVE  \E i \in DOMAIN log :
           /\ TransactionAt(t, clock) = log[i] /\ log[i].of = t /\ log[i].row
           /\ \A j \in DOMAIN log : ~Hides(j, i)
<1> DEFINE w == Newest(Rows(t, clock))
           i == First(w)
<1>1. /\ w \in DOMAIN log /\ log[w].of = t
      /\ \A j \in DOMAIN log : log[j].of = t => log[j].at <= log[w].at
  BY AllRows, NewestIsMax
<1>2. /\ \A j \in DOMAIN log : log[j].at \in Nat
      /\ DOMAIN log \subseteq Nat
  BY LogTypes DEF IInv
<1>3. TransactionAt(t, clock) = log[i]
  BY DEF TransactionAt
<1> HIDE DEF w
<1>4. i \in Partition(w) /\ \A k \in Partition(w) : i <= k
  BY <1>1, FirstIsLeast
<1> HIDE DEF i
<1>5. i \in DOMAIN log /\ log[i].of = t /\ HistoryUpTo(i) = HistoryUpTo(w) /\ log[i].row
  BY <1>1, <1>3, <1>4 DEF Partition
<1>6. ASSUME NEW j \in DOMAIN log, log[j].of = t, log[i].at < log[j].at PROVE ~log[j].row
  <2>1. j \notin HistoryUpTo(i)
    BY <1>6, <1>5, <1>2 DEF HistoryUpTo
  <2> QED
    BY <2>1, <1>6, <1>5, <1>1 DEF HistoryUpTo
<1>7. ASSUME NEW j \in DOMAIN log, log[j].of = t, log[i].at < log[j].at PROVE ~(j < i)
  <2>1. HistoryUpTo(j) = HistoryUpTo(i)
    BY <1>7, <1>6, <1>5, <1>2 DEF HistoryUpTo
  <2>2. j \in Partition(w)
    BY <2>1, <1>5, <1>1, <1>7 DEF Partition
  <2> QED
    BY <2>2, <1>4, <1>2, <1>5
<1> QED
  BY <1>3, <1>5, <1>6, <1>7 DEF Hides

-----------------------------------------------------------------------------
(* What a commit has checked.                                              *)

Extends(u, row, deleted, refs) ==
  /\ DOMAIN log' = DOMAIN log \cup {Len(log) + 1}
  /\ Len(log) + 1 \in Nat
  /\ \A i \in DOMAIN log : i \in Nat /\ i < Len(log) + 1 /\ log'[i] = log[i]
  /\ log'[Len(log) + 1].of = pending[u].of
  /\ log'[Len(log) + 1].at = pending[u].at
  /\ log'[Len(log) + 1].done = clock
  /\ log'[Len(log) + 1].row = row
  /\ log'[Len(log) + 1].deleted = deleted
  /\ log'[Len(log) + 1].refs = refs
  /\ log'[Len(log) + 1].items = pending[u].items

LEMMA CommitExtends ==
  ASSUME IInv, NEW u \in Users, pending[u] # NoRequest,
         NEW row \in BOOLEAN, NEW deleted \in BOOLEAN, NEW refs \in SUBSET Accounts,
         Commit(u, row, deleted, refs)
  PROVE  Extends(u, row, deleted, refs)
<1>1. DOMAIN log = 1..Len(log) /\ Len(log) \in Nat
  BY LogTypes DEF IInv
<1>2. /\ DOMAIN log' = 1..Len(log) + 1
      /\ \A i \in DOMAIN log : log'[i] = log[i]
      /\ log'[Len(log) + 1] = Appended(u, row, deleted, refs)
  BY CommitAppends
<1>3. DOMAIN log' = DOMAIN log \cup {Len(log) + 1}
  BY <1>1, <1>2
<1> QED
  BY <1>1, <1>2, <1>3 DEF Extends, Appended

Checked(u, row, deleted, refs) ==
  /\ ~deleted => AllLive(refs, pending[u].at)
  /\ \/ UsagesLive(pending[u].items, pending[u].at)
     \/ pending[u].items = NoItems
  /\ deleted => pending[u].items = NoItems
  /\ ~row => pending[u].op = "positions"
  /\ pending[u].of \in Accounts =>
       /\ row
       /\ deleted => ~Referenced(pending[u].of, pending[u].at)

LEMMA CommitChecked ==
  ASSUME IInv, DeletionsHaveNoItems, NEW u \in Users, Commits(u)
  PROVE  /\ pending[u] # NoRequest
         /\ pending[u] \in Request
         /\ \E row \in BOOLEAN, deleted \in BOOLEAN, refs \in SUBSET Accounts :
              /\ Commit(u, row, deleted, refs)
              /\ Extends(u, row, deleted, refs)
              /\ Checked(u, row, deleted, refs)
<1>1. pending[u] # NoRequest
  BY EveryCommit
<1>2. pending[u] \in Request
  BY <1>1 DEF IInv, TypeOK
<1>3. pending[u].refs \in SUBSET Accounts
  BY <1>2 DEF Request
<1>4. SUFFICES \E row \in BOOLEAN, deleted \in BOOLEAN, refs \in SUBSET Accounts :
                 Commit(u, row, deleted, refs) /\ Checked(u, row, deleted, refs)
  BY <1>1, <1>2, CommitExtends
<1>5. pending[u].of \in Accounts => pending[u].items = NoItems
  BY <1>1 DEF IInv, AccountsHaveNoItems
<1>6. pending[u].op = "delete" => pending[u].items = NoItems
  BY <1>1 DEF DeletionsHaveNoItems
<1>7. CASE CreateAccount(u) \/ UpdateAccount(u)
  BY <1>3, <1>5, <1>7 DEF CreateAccount, UpdateAccount, Runs, SharesAccepted, Checked
<1>8. CASE DeleteAccount(u)
  <2>1. Commit(u, TRUE, TRUE, {}) /\ pending[u].items = NoItems
        /\ ~Referenced(pending[u].of, pending[u].at)
    BY <1>5, <1>8 DEF DeleteAccount, Runs
  <2>2. Checked(u, TRUE, TRUE, {})
    BY <2>1 DEF Checked
  <2> QED
    BY <2>1, <2>2
<1>9. CASE CreateTransaction(u) \/ UpdateTransaction(u)
  BY <1>3, <1>9, LedgerAssumption DEF CreateTransaction, UpdateTransaction, Runs, Checked
<1>10. CASE UpdatePositions(u)
  <2>1. pending[u].of \notin Accounts /\ AllLive({}, pending[u].at)
    BY <1>10, LedgerAssumption DEF UpdatePositions, Runs, AllLive
  <2>2. /\ Commit(u, FALSE, FALSE, {}) /\ UsagesLive(pending[u].items, pending[u].at)
        /\ pending[u].op = "positions"
    BY <1>10 DEF UpdatePositions, Runs
  <2>3. Checked(u, FALSE, FALSE, {})
    BY <2>1, <2>2 DEF Checked
  <2> QED
    BY <2>2, <2>3
<1>11. CASE DeleteTransaction(u)
  <2> DEFINE history == {i \in DOMAIN log : log[i].of = pending[u].of /\ log[i].row}
  <2>1. /\ pending[u].of \notin Accounts /\ pending[u].op = "delete"
        /\ history # {}
        /\ Commit(u, TRUE, TRUE, log[Newest(history)].refs)
    BY <1>11, LedgerAssumption DEF DeleteTransaction, Runs
  <2>2. Newest(history) \in DOMAIN log
    BY <2>1, NewestIsMax
  <2>3. log[Newest(history)].refs \in SUBSET Accounts
    BY <2>2, LogTypes DEF IInv
  <2> HIDE DEF history
  <2> QED
    BY <2>1, <2>3, <1>6 DEF Checked
<1> QED
  BY <1>7, <1>8, <1>9, <1>10, <1>11 DEF Commits

-----------------------------------------------------------------------------
(* Each part of the invariant is kept.                                     *)

Quiet ==
  /\ UNCHANGED <<log, itemOf>>
  /\ clock' \in Nat /\ clock <= clock'

LEMMA NoItemsUntouched == \A it \in Items : ~NoItems[it].touched /\ NoItems[it].usages = {}
BY DEF NoItems, Untouched

LEMMA CommitTimes ==
  ASSUME OrderInv, NEW u \in Users, Commits(u)
  PROVE  TimesDiffer' /\ CommitsFollow'
<1>1. PICK row \in BOOLEAN, deleted \in BOOLEAN, refs \in SUBSET Accounts :
        Commit(u, row, deleted, refs) /\ Extends(u, row, deleted, refs)
  BY CommitChecked DEF OrderInv
<1>2. pending[u] # NoRequest /\ pending[u].at \in Nat /\ pending[u].at <= clock
  BY CommitChecked DEF OrderInv, IInv, TimesBounded, Request
<1>3. /\ clock' = clock /\ clock \in Nat
      /\ \A v \in Users : pending'[v] # NoRequest => pending'[v] = pending[v] /\ v # u
  BY <1>1 DEF Commit, OrderInv, IInv, TypeOK
<1>4. \A i \in DOMAIN log : log[i].at \in Nat /\ log[i].done <= clock /\ log[i].done \in Nat
  BY LogTypes DEF OrderInv, IInv, CommitsFollow, Revision
<1>5. TimesDiffer'
  <2>1. ASSUME NEW i \in DOMAIN log', NEW j \in DOMAIN log', log'[i].at = log'[j].at
        PROVE  i = j
    BY <2>1, <1>1, <1>2 DEF Extends, OrderInv, TimesDiffer
  <2>2. ASSUME NEW v \in Users, pending'[v] # NoRequest
        PROVE  \A i \in DOMAIN log' : log'[i].at # pending'[v].at
    BY <2>2, <1>1, <1>2, <1>3 DEF Extends, OrderInv, TimesDiffer
  <2>3. ASSUME NEW v \in Users, pending'[v] # NoRequest, NEW x \in Users, pending'[x] # NoRequest,
               pending'[v].at = pending'[x].at
        PROVE  v = x
    BY <2>3, <1>3 DEF OrderInv, TimesDiffer
  <2> QED
    BY <2>1, <2>2, <2>3 DEF TimesDiffer
<1>6. ASSUME NEW i \in DOMAIN log'
      PROVE  /\ log'[i].at <= log'[i].done /\ log'[i].done <= clock'
             /\ \A j \in DOMAIN log' : i < j => log'[i].done <= log'[j].done
  <2>1. CASE i \in DOMAIN log
    BY <2>1, <1>1, <1>3, <1>4 DEF Extends, OrderInv, CommitsFollow
  <2>2. CASE i = Len(log) + 1
    BY <2>2, <1>1, <1>2, <1>3 DEF Extends
  <2> QED
    BY <2>1, <2>2, <1>1 DEF Extends
<1> QED
  BY <1>5, <1>6 DEF CommitsFollow

LEMMA CommitItems ==
  ASSUME OrderInv, NEW u \in Users, Commits(u)
  PROVE  ItemsBelong' /\ DeletionsHaveNoItems' /\ AccountRows'
<1>1. PICK row \in BOOLEAN, deleted \in BOOLEAN, refs \in SUBSET Accounts :
        /\ Commit(u, row, deleted, refs) /\ Extends(u, row, deleted, refs)
        /\ Checked(u, row, deleted, refs)
  BY CommitChecked DEF OrderInv
<1>2. pending[u] # NoRequest
  BY CommitChecked DEF OrderInv
<1>3. /\ \A v \in Users : pending'[v] # NoRequest => pending'[v] = pending[v] /\ v # u
      /\ \A it \in Items : itemOf'[it] = IF pending[u].items[it].touched THEN pending[u].of ELSE itemOf[it]
  BY <1>1 DEF Commit, OrderInv, IInv, TypeOK
<1>4. pending[u].of \in Entities
  BY CommitChecked DEF OrderInv, Request
<1>5. \A it \in Items : pending[u].items[it].touched => pending[u].of \notin Items
  BY <1>4, LedgerAssumption DEF Entities
<1>6. ASSUME NEW i \in DOMAIN log', NEW it \in Items, log'[i].items[it].touched
      PROVE  itemOf'[it] = log'[i].of
  <2>1. CASE i \in DOMAIN log
    <3>1. itemOf[it] = log[i].of /\ log[i].of \in Entities
      BY <2>1, <1>1, <1>6, LogTypes DEF Extends, OrderInv, IInv, ItemsBelong
    <3>2. itemOf[it] # it
      BY <3>1, LedgerAssumption DEF Entities
    <3> QED
      BY <2>1, <3>1, <3>2, <1>1, <1>2, <1>3 DEF Extends, OrderInv, ItemsBelong
  <2>2. CASE i = Len(log) + 1
    BY <2>2, <1>1, <1>3, <1>6 DEF Extends
  <2> QED
    BY <2>1, <2>2, <1>1 DEF Extends
<1>7. ASSUME NEW v \in Users, NEW it \in Items, pending'[v] # NoRequest, pending'[v].items[it].touched
      PROVE  \/ itemOf'[it] = pending'[v].of
             \/ /\ itemOf'[it] = it
                /\ \A x \in Users : pending'[x] # NoRequest /\ pending'[x].items[it].touched => v = x
  <2>1. pending'[v] = pending[v] /\ v # u
    BY <1>3, <1>7
  <2>2. CASE pending[u].items[it].touched
    <3>1. itemOf[it] = pending[v].of
      BY <2>1, <2>2, <1>2, <1>7 DEF OrderInv, ItemsBelong
    <3>2. itemOf[it] = pending[u].of
      BY <2>1, <2>2, <1>2, <1>7 DEF OrderInv, ItemsBelong
    <3> QED
      BY <2>1, <2>2, <3>1, <3>2, <1>3
  <2>3. CASE ~pending[u].items[it].touched
    BY <2>1, <2>3, <1>3, <1>7 DEF OrderInv, ItemsBelong
  <2> QED
    BY <2>2, <2>3
<1>8. DeletionsHaveNoItems'
  BY <1>3 DEF OrderInv, DeletionsHaveNoItems
<1>9. AccountRows'
  BY <1>1 DEF OrderInv, AccountRows, Extends, Checked
<1> QED
  BY <1>6, <1>7, <1>8, <1>9 DEF ItemsBelong

LEMMA LiveIsLiveBefore ==
  ASSUME OrderInv, NEW a \in Accounts, NEW ts \in Nat, LiveAccount(a, ts)
  PROVE  LiveBefore(Len(log) + 1, a, ts)
<1> DEFINE r == Newest(Rows(a, ts))
<1>1. r \in Rows(a, ts) /\ \A j \in Rows(a, ts) : log[j].at <= log[r].at
  BY RowsInLog, NewestIsMax DEF LiveAccount, OrderInv
<1>2. ~log[r].deleted
  BY DEF LiveAccount, AccountAt
<1>3. \A j \in DOMAIN log : j < Len(log) + 1
  BY LogTypes DEF OrderInv, IInv
<1> HIDE DEF r
<1>4. r \in DOMAIN log /\ log[r].of = a /\ log[r].at <= ts
  BY <1>1, RowsInLog
<1>5. \A j \in DOMAIN log : log[j].of = a /\ log[j].at <= ts => log[j].at <= log[r].at
  BY <1>1 DEF Rows
<1> QED
  BY <1>2, <1>3, <1>4, <1>5 DEF LiveBefore

LEMMA CommitSawLive ==
  ASSUME OrderInv, NEW u \in Users, Commits(u)
  PROVE  SawLive'
<1>1. PICK row \in BOOLEAN, deleted \in BOOLEAN, refs \in SUBSET Accounts :
        Extends(u, row, deleted, refs) /\ Checked(u, row, deleted, refs)
  BY CommitChecked DEF OrderInv
<1>2. pending[u].at \in Nat
  BY CommitChecked DEF OrderInv, Request
<1> DEFINE n == Len(log) + 1
<1> SUFFICES ASSUME NEW i \in DOMAIN log', NEW a \in Accounts, NamesAsLive(i, a)'
             PROVE  LiveBefore(i, a, log[i].at)'
  BY DEF SawLive
<1>3. \A m \in Nat, ts \in Nat : m <= n /\ LiveBefore(m, a, ts) => LiveBefore(m, a, ts)'
  <2> SUFFICES ASSUME NEW m \in Nat, NEW ts \in Nat, m <= n, LiveBefore(m, a, ts)
               PROVE  LiveBefore(m, a, ts)'
    OBVIOUS
  <2>1. PICK r \in DOMAIN log :
          /\ r < m /\ log[r].of = a /\ log[r].at <= ts /\ ~log[r].deleted
          /\ \A j \in DOMAIN log : j < m /\ log[j].of = a /\ log[j].at <= ts => log[j].at <= log[r].at
    BY DEF LiveBefore
  <2>2. r \in DOMAIN log' /\ log'[r] = log[r]
    BY <1>1 DEF Extends
  <2>3. \A j \in DOMAIN log' : j < m => j \in DOMAIN log /\ log'[j] = log[j]
    BY <1>1 DEF Extends
  <2> QED
    BY <2>1, <2>2, <2>3 DEF LiveBefore
<1>4. CASE i \in DOMAIN log
  <2>1. log'[i] = log[i] /\ i \in Nat /\ i <= n /\ log[i].at \in Nat
    BY <1>1, <1>4, LogTypes DEF Extends, OrderInv, IInv
  <2>2. NamesAsLive(i, a)
    BY <2>1 DEF NamesAsLive
  <2>3. LiveBefore(i, a, log[i].at)
    BY <2>2, <1>4 DEF OrderInv, SawLive
  <2> QED
    BY <2>1, <2>3, <1>3
<1>5. CASE i = n
  <2>1. /\ log'[i].at = pending[u].at /\ log'[i].refs = refs /\ log'[i].deleted = deleted
        /\ log'[i].items = pending[u].items /\ n \in Nat
    BY <1>1, <1>5 DEF Extends
  <2>2. LiveAccount(a, pending[u].at)
    BY <1>1, <2>1, NoItemsUntouched DEF NamesAsLive, Checked, AllLive, UsagesLive
  <2>3. LiveBefore(n, a, pending[u].at)
    BY <2>2, <1>2, LiveIsLiveBefore
  <2> QED
    BY <2>1, <2>3, <1>2, <1>3, <1>5
<1> QED
  BY <1>1, <1>4, <1>5 DEF Extends

(***************************************************************************)
(* What a deletion finds referenced.                                       *)
(***************************************************************************)
LEMMA UnhiddenIsReferenced ==
  ASSUME OrderInv, NEW a \in Accounts, NEW ts \in Nat,
         NEW i \in DOMAIN log, log[i].at <= ts
  PROVE  /\ a \in log[i].refs /\ ~log[i].deleted /\ log[i].row /\ ~Referenced(a, ts)
              => \E j \in DOMAIN log : Hides(j, i)
         /\ \A it \in Items :
              log[i].items[it].touched /\ ~log[i].items[it].deleted
              /\ a \in log[i].items[it].usages /\ ~Referenced(a, ts)
                => \E j \in DOMAIN log : HidesItem(j, i, it)
<1> USE DEF OrderInv
<1>1. log[i].of \in Entities
  BY LogTypes DEF IInv
<1>2. ASSUME log[i].of \in Accounts, a \in log[i].refs, ~log[i].deleted,
             ~\E j \in DOMAIN log : Hides(j, i)
      PROVE  Referenced(a, ts)
  <2> DEFINE b == log[i].of
  <2>1. i \in Rows(b, ts)
    BY DEF Rows
  <2>2. \A j \in Rows(b, ts) : ~(log[i].at < log[j].at)
    BY <1>2, RowsInLog, LedgerAssumption DEF Hides
  <2>3. Newest(Rows(b, ts)) = i
    BY <2>1, <2>2, RowsInLog, NewestIs
  <2>4. LiveAccount(b, ts) /\ a \in AccountAt(b, ts).refs
    BY <2>1, <2>3, <1>2 DEF LiveAccount, AccountAt
  <2> QED
    BY <2>4, <1>2 DEF Referenced
<1>3. ASSUME log[i].of \in Transactions, a \in log[i].refs, ~log[i].deleted, log[i].row,
             ~\E j \in DOMAIN log : Hides(j, i)
      PROVE  Referenced(a, ts)
  <2> DEFINE t == log[i].of
  <2>1. i \in Rows(t, ts)
    BY DEF Rows
  <2>2. First(Newest(Rows(t, ts))) = i
    BY <2>1, <1>3, ShownTransaction
  <2>3. LiveTransaction(t, ts) /\ a \in TransactionAt(t, ts).refs
    BY <2>1, <2>2, <1>3 DEF LiveTransaction, TransactionAt
  <2> QED
    BY <2>3, <1>3 DEF Referenced
<1>4. ASSUME NEW it \in Items, log[i].items[it].touched, ~log[i].items[it].deleted,
             a \in log[i].items[it].usages, ~\E j \in DOMAIN log : HidesItem(j, i, it)
      PROVE  Referenced(a, ts)
  <2>1. i \in ItemRows(it, ts) /\ ItemRows(it, ts) \in SUBSET DOMAIN log
        /\ \A j \in ItemRows(it, ts) : log[j].items[it].touched /\ log[j].of = log[i].of
    BY <1>4 DEF ItemRows, Rows, ItemsBelong
  <2>2. \A j \in ItemRows(it, ts) : ~(log[i].at < log[j].at)
    BY <1>4, <2>1 DEF HidesItem
  <2>3. Newest(ItemRows(it, ts)) = i
    BY <2>1, <2>2, NewestIs
  <2>4. LiveItem(it, ts) /\ a \in ItemAt(it, ts).usages
    BY <2>1, <2>3, <1>4 DEF LiveItem, ItemAt
  <2> QED
    BY <2>4, <1>4 DEF Referenced
<1> QED
  BY <1>1, <1>2, <1>3, <1>4 DEF Entities

LEMMA CommitSawUnnamed ==
  ASSUME OrderInv, NEW u \in Users, Commits(u)
  PROVE  SawUnnamed'
<1>1. PICK row \in BOOLEAN, deleted \in BOOLEAN, refs \in SUBSET Accounts :
        Extends(u, row, deleted, refs) /\ Checked(u, row, deleted, refs)
  BY CommitChecked DEF OrderInv
<1>2. pending[u].at \in Nat
  BY CommitChecked DEF OrderInv, Request
<1>3. \A i, j \in DOMAIN log :
        /\ i \in DOMAIN log' /\ log'[i] = log[i]
        /\ Hides(j, i) => Hides(j, i)'
        /\ \A it \in Items : HidesItem(j, i, it) => HidesItem(j, i, it)'
  BY <1>1 DEF Extends, Hides, HidesItem
<1> SUFFICES ASSUME NEW d \in DOMAIN log', log'[d].of \in Accounts, log'[d].deleted,
                    NEW i \in DOMAIN log', i < d, log'[i].at <= log'[d].at
             PROVE  /\ log'[d].of \in log'[i].refs /\ ~log'[i].deleted /\ log'[i].row =>
                          \E j \in DOMAIN log' : Hides(j, i)'
                    /\ \A it \in Items :
                         log'[i].items[it].touched /\ ~log'[i].items[it].deleted
                         /\ log'[d].of \in log'[i].items[it].usages =>
                            \E j \in DOMAIN log' : HidesItem(j, i, it)'
  BY DEF SawUnnamed
<1>4. i \in DOMAIN log /\ log'[i] = log[i]
  BY <1>1 DEF Extends
<1>5. CASE d \in DOMAIN log
  BY <1>3, <1>4, <1>5 DEF OrderInv, SawUnnamed
<1>6. CASE d = Len(log) + 1
  <2>1. log'[d].of = pending[u].of /\ log'[d].at = pending[u].at /\ log'[d].deleted = deleted
    BY <1>1, <1>6 DEF Extends
  <2>2. ~Referenced(pending[u].of, pending[u].at)
    BY <1>1, <2>1 DEF Checked
  <2> QED
    BY <2>1, <2>2, <1>2, <1>3, <1>4, UnhiddenIsReferenced DEF OrderInv
<1> QED
  BY <1>1, <1>5, <1>6 DEF Extends

LEMMA LogStays ==
  ASSUME OrderInv, UNCHANGED log
  PROVE  AccountRows' /\ SawLive' /\ SawUnnamed'
BY DEF OrderInv, AccountRows, SawLive, SawUnnamed, NamesAsLive, LiveBefore, Hides, HidesItem

Fits(op, e, refs, items) ==
  /\ \A it \in Items : items[it].touched =>
       \/ itemOf[it] = e
       \/ itemOf[it] = it /\ \A v \in Users : pending[v] # NoRequest => ~pending[v].items[it].touched
  /\ op = "delete" => items = NoItems
  /\ op \in {"create", "update"} /\ e \in Transactions => refs # {}

LEMMA ItemChangesFit ==
  ASSUME NEW t, NEW items \in ItemChanges(t), NEW refs, NEW op, op # "delete",
         op = "positions" \/ refs # {}
  PROVE  Fits(op, t, refs, items)
<1>1. items \in OldItemChanges(t) \/ items \in NewItemChanges
  BY DEF ItemChanges
<1>2. CASE items \in OldItemChanges(t)
  <2>1. PICK it \in OwnItems(t), d \in BOOLEAN, us \in KnownUsages : items = Writes(it, d, us)
    BY <1>2 DEF OldItemChanges
  <2>2. itemOf[it] = t /\ \A x \in Items : items[x].touched => x = it
    BY <2>1, NoItemsUntouched DEF OwnItems, Writes, NoItems
  <2> QED
    BY <2>2 DEF Fits
<1>3. CASE items \in NewItemChanges
  <2>1. PICK it \in NewItems, us \in KnownUsages : items = Adds(it, us)
    BY <1>3 DEF NewItemChanges
  <2>2. itemOf[it] = it /\ \A v \in Users : pending[v] # NoRequest => ~pending[v].items[it].touched
    BY <2>1 DEF NewItems, Busy
  <2>3. \A x \in Items : items[x].touched => x = it
    BY <2>1, NoItemsUntouched DEF Adds, Writes, NoItems
  <2> QED
    BY <2>2, <2>3 DEF Fits
<1> QED
  BY <1>1, <1>2, <1>3

BeginsFit(u) ==
  \E op, e, refs, items :
    e \in Entities /\ Begin(u, op, e, refs, items) /\ Fits(op, e, refs, items)

LEMMA EveryBegin ==
  ASSUME NEW u, BeginAccount(u) \/ BeginTransaction(u)
  PROVE  BeginsFit(u)
<1>1. ASSUME NEW op, NEW e \in Entities, NEW refs, NEW items,
             Begin(u, op, e, refs, items), Fits(op, e, refs, items)
      PROVE  BeginsFit(u)
  <2> USE DEF BeginsFit
  <2> WITNESS op, e, refs, items
  <2> QED
    BY <1>1
<1>2. \A op, e, refs :
        e \in Accounts \/ op = "delete" \/ refs # {} => Fits(op, e, refs, NoItems)
  BY NoItemsUntouched, LedgerAssumption DEF Fits
<1>3. Accounts \subseteq Entities /\ Transactions \subseteq Entities
  BY DEF Entities
<1>4. CASE BeginAccount(u)
  <2>1. PICK a \in Accounts :
          \/ \E refs \in SUBSET Accounts, op \in {"create", "update"} :
               Begin(u, op, a, refs, NoItems)
          \/ Begin(u, "delete", a, {}, NoItems)
    BY <1>4 DEF BeginAccount
  <2>2. CASE \E refs \in SUBSET Accounts, op \in {"create", "update"} :
               Begin(u, op, a, refs, NoItems)
    BY <1>1, <1>2, <1>3, <2>2
  <2>3. CASE Begin(u, "delete", a, {}, NoItems)
    BY <1>1, <1>2, <1>3, <2>3
  <2> QED
    BY <2>1, <2>2, <2>3
<1>5. CASE BeginTransaction(u)
  <2>1. PICK t \in Transactions :
          \/ \E refs \in (SUBSET Accounts) \ {{}}, op \in {"create", "update"} :
               \E items \in ItemChanges(t) \cup {NoItems} : Begin(u, op, t, refs, items)
          \/ \E items \in ItemChanges(t) : Begin(u, "positions", t, {}, items)
          \/ Begin(u, "delete", t, {}, NoItems)
    BY <1>5 DEF BeginTransaction
  <2>2. CASE \E refs \in (SUBSET Accounts) \ {{}}, op \in {"create", "update"} :
               \E items \in ItemChanges(t) \cup {NoItems} : Begin(u, op, t, refs, items)
    <3>1. PICK refs \in (SUBSET Accounts) \ {{}}, op \in {"create", "update"},
               items \in ItemChanges(t) \cup {NoItems} : Begin(u, op, t, refs, items)
      BY <2>2
    <3>2. op # "delete" /\ refs # {}
      BY <3>1
    <3>3. Fits(op, t, refs, items)
      BY <1>2, <3>1, <3>2, ItemChangesFit
    <3> QED
      BY <1>1, <1>3, <3>1, <3>3
  <2>3. CASE \E items \in ItemChanges(t) : Begin(u, "positions", t, {}, items)
    <3>1. PICK items \in ItemChanges(t) : Begin(u, "positions", t, {}, items)
      BY <2>3
    <3>2. Fits("positions", t, {}, items)
      BY ItemChangesFit
    <3> QED
      BY <1>1, <1>3, <3>1, <3>2
  <2>4. CASE Begin(u, "delete", t, {}, NoItems)
    BY <1>1, <1>2, <1>3, <2>4
  <2> QED
    BY <2>1, <2>2, <2>3, <2>4
<1> QED
  BY <1>4, <1>5

LEMMA BeginOrder ==
  ASSUME OrderInv, NEW u \in Users, NEW op, NEW e \in Entities, NEW refs, NEW items,
         Begin(u, op, e, refs, items), Fits(op, e, refs, items)
  PROVE  TimesDiffer' /\ CommitsFollow' /\ ItemsBelong' /\ DeletionsHaveNoItems'
<1> USE DEF OrderInv
<1>1. /\ clock \in Nat /\ clock' = clock + 1 /\ UNCHANGED <<log, itemOf>>
      /\ pending'[u] = [op |-> op, of |-> e, at |-> clock + 1, refs |-> refs, items |-> items]
      /\ \A v \in Users : v # u => pending'[v] = pending[v]
  BY DEF Begin, IInv, TypeOK
<1>2. /\ \A i \in DOMAIN log : /\ log[i].at \in Nat /\ log[i].at <= clock
                             /\ log[i].done \in Nat /\ log[i].done <= clock
      /\ \A v \in Users : pending[v] # NoRequest => pending[v].at \in Nat /\ pending[v].at <= clock
  BY LogTypes DEF IInv, TypeOK, TimesBounded, CommitsFollow, Request, Revision
<1>3. TimesDiffer'
  <2>1. \A v \in Users : pending'[v] # NoRequest =>
          \A i \in DOMAIN log : log[i].at # pending'[v].at
    BY <1>1, <1>2 DEF TimesDiffer
  <2>2. \A v, x \in Users : pending'[v] # NoRequest /\ pending'[x] # NoRequest
                           /\ pending'[v].at = pending'[x].at => v = x
    BY <1>1, <1>2 DEF TimesDiffer
  <2> QED
    BY <2>1, <2>2, <1>1 DEF TimesDiffer
<1>4. CommitsFollow'
  BY <1>1, <1>2 DEF CommitsFollow
<1>5. ItemsBelong'
  <2>1. e \notin Items
    BY LedgerAssumption DEF Entities
  <2>2. ASSUME NEW v \in Users, NEW it \in Items, pending'[v] # NoRequest, pending'[v].items[it].touched
        PROVE  \/ itemOf[it] = pending'[v].of
               \/ /\ itemOf[it] = it
                  /\ \A x \in Users : pending'[x] # NoRequest /\ pending'[x].items[it].touched => v = x
    <3>1. CASE v = u
      BY <3>1, <2>2, <1>1 DEF Fits
    <3>2. CASE v # u
      <4>1. pending'[v] = pending[v]
        BY <3>2, <1>1
      <4>2. items[it].touched => itemOf[it] = e
        BY <4>1, <2>2 DEF Fits
      <4> QED
        BY <4>1, <4>2, <2>1, <2>2, <1>1 DEF ItemsBelong
    <3> QED
      BY <3>1, <3>2
  <2> QED
    BY <2>2, <1>1 DEF ItemsBelong
<1>6. DeletionsHaveNoItems'
  BY <1>1 DEF DeletionsHaveNoItems, Fits
<1> QED
  BY <1>3, <1>4, <1>5, <1>6

LEMMA InitOrder == Init => OrderInv
<1> SUFFICES ASSUME Init PROVE OrderInv
  OBVIOUS
<1>1. Len(Founded) \in Nat /\ \A i \in 1..Len(Founded) : Founded[i] \in Accounts
  BY LedgerAssumption
<1>2. /\ DOMAIN log = 1..Len(Founded)
      /\ \A i \in DOMAIN log : /\ log[i].at = i /\ log[i].done = i /\ log[i].row /\ ~log[i].deleted
                             /\ log[i].refs = {} /\ log[i].items = NoItems
      /\ clock = Len(Founded)
      /\ \A u \in Users : pending[u] = NoRequest
  BY <1>1 DEF Init
<1>3. TimesDiffer /\ CommitsFollow
  BY <1>1, <1>2 DEF TimesDiffer, CommitsFollow
<1>4. ItemsBelong /\ DeletionsHaveNoItems
  BY <1>2, NoItemsUntouched DEF ItemsBelong, DeletionsHaveNoItems
<1>5. SawLive /\ SawUnnamed /\ AccountRows
  BY <1>2, NoItemsUntouched DEF SawLive, SawUnnamed, AccountRows, NamesAsLive
<1> QED
  BY <1>3, <1>4, <1>5, InitIInv DEF OrderInv

LEMMA NextOrder == OrderInv /\ [Next]_vars => OrderInv'
<1> SUFFICES ASSUME OrderInv, [Next]_vars PROVE OrderInv'
  OBVIOUS
<1>1. IInv'
  BY NextIInv DEF OrderInv
<1>2. ASSUME NEW u \in Users, Commits(u) PROVE OrderInv'
  BY <1>1, <1>2, CommitTimes, CommitItems, CommitSawLive, CommitSawUnnamed DEF OrderInv
<1>3. ASSUME NEW u \in Users, BeginAccount(u) \/ BeginTransaction(u) PROVE OrderInv'
  <2>1. PICK op, e, refs, items :
          e \in Entities /\ Begin(u, op, e, refs, items) /\ Fits(op, e, refs, items)
    BY <1>3, EveryBegin DEF BeginsFit
  <2>2. UNCHANGED log
    BY <2>1 DEF Begin
  <2> QED
    BY <1>1, <2>1, <2>2, BeginOrder, LogStays DEF OrderInv
<1>4. ASSUME UNCHANGED <<log, itemOf, clock>>,
             \A u \in Users : pending'[u] = NoRequest \/ pending'[u] = pending[u]
      PROVE  OrderInv'
  <2>1. TimesDiffer' /\ CommitsFollow'
    BY <1>4 DEF OrderInv, TimesDiffer, CommitsFollow
  <2>2. ItemsBelong' /\ DeletionsHaveNoItems'
    BY <1>4 DEF OrderInv, ItemsBelong, DeletionsHaveNoItems
  <2> QED
    BY <1>1, <1>4, <2>1, <2>2, LogStays DEF OrderInv
<1>5. ASSUME NEW u \in Users, Abort(u) \/ ChangePermission(u) PROVE OrderInv'
  BY <1>4, <1>5 DEF Abort, ChangePermission, OrderInv, IInv, TypeOK
<1>6. CASE UNCHANGED vars
  BY <1>4, <1>6 DEF vars
<1> QED
  BY <1>2, <1>3, <1>5, <1>6, NextCases

LEMMA OrderInductive == Spec => []OrderInv
BY InitOrder, NextOrder, PTL DEF Spec

-----------------------------------------------------------------------------
(* References that dangle.                                                 *)

(***************************************************************************)
(* An account that is deleted and named on show is so by a deletion and a  *)
(* revision that names it whose commits are in the other order than their  *)
(* BEGINs: each was invisible to the checks of the other.                  *)
(***************************************************************************)
Inverted(i, d) ==
  \/ i < d /\ log[d].at < log[i].at
  \/ d < i /\ log[i].at < log[d].at

LEMMA NamedByShown ==
  ASSUME OrderInv, NEW a \in Accounts, a \in NamedOnShow
  PROVE  \E i \in DOMAIN log :
           \/ /\ a \in log[i].refs /\ ~log[i].deleted /\ log[i].row
              /\ \A j \in DOMAIN log : ~Hides(j, i)
           \/ \E it \in Items :
                /\ log[i].items[it].touched /\ ~log[i].items[it].deleted
                /\ a \in log[i].items[it].usages
                /\ \A j \in DOMAIN log : ~HidesItem(j, i, it)
<1> USE DEF OrderInv
<1>1. CASE \E t \in Transactions : LiveTransaction(t, clock) /\ a \in TransactionAt(t, clock).refs
  BY <1>1, NothingHidesShown DEF LiveTransaction
<1>2. CASE \E it \in Items : LiveItem(it, clock) /\ a \in ItemAt(it, clock).usages
  <2>1. PICK it \in Items : LiveItem(it, clock) /\ a \in ItemAt(it, clock).usages
    BY <1>2
  <2> DEFINE i == Newest(ItemRows(it, clock))
  <2>2. ItemRows(it, clock) = {j \in DOMAIN log : log[j].of = itemOf[it] /\ log[j].items[it].touched}
    BY AllRows DEF ItemRows
  <2>3. i \in ItemRows(it, clock) /\ \A j \in ItemRows(it, clock) : ~(log[i].at < log[j].at)
    BY <2>1, <2>2, NewestHidden DEF LiveItem
  <2>4. ~log[i].items[it].deleted /\ a \in log[i].items[it].usages
    BY <2>1 DEF LiveItem, ItemAt
  <2> HIDE DEF i
  <2> QED
    BY <2>2, <2>3, <2>4 DEF HidesItem
<1>3. CASE \E b \in Accounts : LiveAccount(b, clock) /\ a \in AccountAt(b, clock).refs
  <2>1. PICK b \in Accounts : LiveAccount(b, clock) /\ a \in AccountAt(b, clock).refs
    BY <1>3
  <2> DEFINE i == Newest(Rows(b, clock))
  <2>2. Rows(b, clock) = {j \in DOMAIN log : log[j].of = b}
    BY AllRows
  <2>3. i \in Rows(b, clock) /\ \A j \in Rows(b, clock) : ~(log[i].at < log[j].at)
    BY <2>1, <2>2, NewestHidden DEF LiveAccount
  <2>4. ~log[i].deleted /\ a \in log[i].refs
    BY <2>1 DEF LiveAccount, AccountAt
  <2> HIDE DEF i
  <2> QED
    BY <2>2, <2>3, <2>4, LedgerAssumption DEF Hides, AccountRows
<1> QED
  BY <1>1, <1>2, <1>3 DEF NamedOnShow

LEMMA DanglingByInversion ==
  ASSUME OrderInv, NEW a \in Accounts, Dangling(a)
  PROVE  \E i, d \in DOMAIN log :
           Names(i, a) /\ log[d].of = a /\ log[d].deleted /\ Inverted(i, d)
<1> USE DEF OrderInv
<1>1. PICK i \in DOMAIN log :
        \/ /\ a \in log[i].refs /\ ~log[i].deleted /\ log[i].row
           /\ \A j \in DOMAIN log : ~Hides(j, i)
        \/ \E it \in Items :
             /\ log[i].items[it].touched /\ ~log[i].items[it].deleted
             /\ a \in log[i].items[it].usages
             /\ \A j \in DOMAIN log : ~HidesItem(j, i, it)
  BY NamedByShown DEF Dangling
<1>2. Names(i, a) /\ NamesAsLive(i, a)
  BY <1>1 DEF Names, NamesAsLive
<1>3. LiveBefore(i, a, log[i].at)
  BY <1>2 DEF SawLive
<1>4. PICK r \in DOMAIN log :
        /\ r < i /\ log[r].of = a /\ log[r].at <= log[i].at /\ ~log[r].deleted
        /\ \A j \in DOMAIN log : j < i /\ log[j].of = a /\ log[j].at <= log[i].at => log[j].at <= log[r].at
  BY <1>3 DEF LiveBefore
<1>5. Rows(a, clock) = {j \in DOMAIN log : log[j].of = a}
  BY AllRows
<1> DEFINE d == Newest(Rows(a, clock))
<1>6. d \in Rows(a, clock) /\ \A j \in Rows(a, clock) : ~(log[d].at < log[j].at)
  BY <1>4, <1>5, NewestHidden
<1>7. log[d].deleted
  BY <1>4, <1>5 DEF Dangling, LiveAccount, AccountAt
<1> HIDE DEF d
<1>8. /\ d \in DOMAIN log /\ log[d].of = a /\ d \in Nat /\ i \in Nat
      /\ log[d].at \in Nat /\ log[i].at \in Nat /\ log[r].at \in Nat
      /\ ~(log[d].at < log[r].at)
  BY <1>4, <1>5, <1>6, LogTypes DEF IInv
<1>9. CASE d < i
  <2>1. log[d].at = log[r].at => d = r
    BY <1>8 DEF TimesDiffer
  <2>2. ~(log[d].at <= log[i].at)
    BY <2>1, <1>4, <1>7, <1>8, <1>9
  <2> QED
    BY <2>2, <1>2, <1>7, <1>8, <1>9 DEF Inverted
<1>10. CASE i < d
  <2>1. ~(log[i].at <= log[d].at)
    BY <1>1, <1>7, <1>8, <1>10 DEF SawUnnamed
  <2> QED
    BY <2>1, <1>2, <1>7, <1>8, <1>10 DEF Inverted
<1>11. i # d
  BY <1>1, <1>7, <1>8, LedgerAssumption DEF IInv, TypeOK, ItemsBelong
<1> QED
  BY <1>8, <1>9, <1>10, <1>11

(***************************************************************************)
(* Whatever the members do, and in whatever order their requests commit, a *)
(* reference dangles only by a race: the request that deleted the account  *)
(* and a request that named it each began before the other one committed.  *)
(* delete_account and the checks of shares and usages read the views as of *)
(* now(), the BEGIN of their own request.                                  *)
(***************************************************************************)
THEOREM DanglingNeedsRace == Spec => []DanglingOnlyByRace
<1>1. OrderInv => DanglingOnlyByRace
  <2> SUFFICES ASSUME OrderInv, NEW a \in Accounts, Dangling(a)
               PROVE  \E i, d \in DOMAIN log :
                        Names(i, a) /\ log[d].of = a /\ log[d].deleted /\ Overlap(i, d)
    BY DEF DanglingOnlyByRace
  <2>1. PICK i \in DOMAIN log, d \in DOMAIN log :
          Names(i, a) /\ log[d].of = a /\ log[d].deleted /\ Inverted(i, d)
    BY DanglingByInversion
  <2>2. \A k \in DOMAIN log : log[k].at \in Nat /\ log[k].done \in Nat
    BY LogTypes DEF OrderInv, IInv, Revision
  <2>3. Overlap(i, d)
    BY <2>1, <2>2 DEF Inverted, Overlap, OrderInv, CommitsFollow
  <2> QED
    BY <2>1, <2>3
<1> QED
  BY <1>1, OrderInductive, PTL

(***************************************************************************)
(* When no request overtakes another.                                      *)
(***************************************************************************)
LEMMA InitInCommitOrder == Init => InCommitOrder
<1> SUFFICES ASSUME Init PROVE InCommitOrder
  OBVIOUS
<1>1. Len(Founded) \in Nat
  BY LedgerAssumption
<1> QED
  BY <1>1 DEF Init, InCommitOrder

LEMMA OrderedInductive == OrderedSpec => Spec /\ []InCommitOrder
<1>1. InCommitOrder /\ UNCHANGED vars => InCommitOrder'
  BY DEF vars, InCommitOrder
<1> QED
  BY <1>1, InitInCommitOrder, PTL DEF OrderedSpec, Spec

(***************************************************************************)
(* When requests commit in the order they began in, no account that shows  *)
(* as deleted is named by anything on show: what delete_account asks of    *)
(* has_shares, has_usages and has_clearing_shares, together with what the  *)
(* writers of shares and usages ask of the accounts, is then enough.       *)
(***************************************************************************)
THEOREM OrderedReferencesLive == OrderedSpec => []ReferencesLive
<1>1. OrderInv /\ InCommitOrder => ReferencesLive
  <2> SUFFICES ASSUME OrderInv, InCommitOrder, NEW a \in Accounts, Dangling(a)
               PROVE  FALSE
    BY DEF ReferencesLive
  <2>1. PICK i \in DOMAIN log, d \in DOMAIN log : Inverted(i, d)
    BY DanglingByInversion
  <2>2. log[i].at \in Nat /\ log[d].at \in Nat
    BY LogTypes DEF OrderInv, IInv
  <2> QED
    BY <2>1, <2>2 DEF Inverted, InCommitOrder
<1> QED
  BY <1>1, OrderInductive, OrderedInductive, PTL

-----------------------------------------------------------------------------
(***************************************************************************)
(* When no request overtakes another, the revisions of Ledger and the      *)
(* views on them implement AbstractLedger: one current state for every     *)
(* account, transaction and position.                                      *)
(***************************************************************************)

(***************************************************************************)
(* The invariant.  Whatever is committed has a revision with a row, as     *)
(* positions are only written to what exists; a position that was stored   *)
(* was written by a revision; and a transaction always has shares.         *)
(***************************************************************************)
RowsExist ==
  /\ \A i \in DOMAIN log : \E j \in DOMAIN log : log[j].of = log[i].of /\ log[j].row
  /\ \A u \in Users : pending[u] # NoRequest =>
       /\ pending[u].op # "create" => Exists(pending[u].of)
       /\ pending[u].op \in {"create", "update"} /\ pending[u].of \in Transactions
            => pending[u].refs # {}

ItemsWritten ==
  \A it \in Items :
    \/ itemOf[it] = it
    \/ itemOf[it] \in Transactions /\ \E i \in DOMAIN log : log[i].items[it].touched

OrderedInv == OrderInv /\ AcyclicClearing /\ RowsExist /\ ItemsWritten /\ InCommitOrder

-----------------------------------------------------------------------------
(* The views show what was committed last.                                 *)

Current(e, i) ==
  /\ i \in DOMAIN log /\ log[i].of = e /\ log[i].row
  /\ \A j \in DOMAIN log : log[j].of = e /\ log[j].row => j <= i

CurrentItem(it, i) ==
  /\ i \in DOMAIN log /\ log[i].items[it].touched
  /\ \A j \in DOMAIN log : log[j].items[it].touched => j <= i

View(e) == IF e \in Accounts THEN AccountAt(e, clock) ELSE TransactionAt(e, clock)

LEMMA OrderedIndices ==
  ASSUME OrderedInv
  PROVE  /\ DOMAIN log \subseteq Nat
         /\ \A i \in DOMAIN log : log[i].at \in Nat
         /\ \A i, j \in DOMAIN log : log[i].at <= log[j].at => i <= j
         /\ \A i, j \in DOMAIN log : i <= j => log[i].at <= log[j].at
<1>1. /\ DOMAIN log \subseteq Nat
      /\ \A i \in DOMAIN log : log[i].at \in Nat
  BY LogTypes DEF OrderedInv, OrderInv, IInv
<1>2. \A i, j \in DOMAIN log : log[i].at <= log[j].at => i <= j
  BY <1>1 DEF OrderedInv, InCommitOrder
<1>3. \A i, j \in DOMAIN log : i <= j => log[i].at <= log[j].at
  BY <1>1 DEF OrderedInv, InCommitOrder
<1> QED
  BY <1>1, <1>2, <1>3

LEMMA NewestIsLast ==
  ASSUME OrderedInv, NEW S \in SUBSET DOMAIN log, S # {}
  PROVE  /\ Newest(S) \in S
         /\ \A j \in S : j <= Newest(S)
<1>1. Newest(S) \in S /\ \A j \in S : log[j].at <= log[Newest(S)].at
  BY NewestIsMax DEF OrderedInv, OrderInv
<1> QED
  BY <1>1, OrderedIndices

(***************************************************************************)
(* Of a transaction, the partition of its last revision begins with the    *)
(* last revision that has a row.                                           *)
(***************************************************************************)
LEMMA LastRowIsShown ==
  ASSUME OrderedInv, NEW e, NEW h, Current(e, h)
  PROVE  TransactionAt(e, clock) = log[h]
<1> DEFINE w == Newest(Rows(e, clock))
<1>1. /\ h \in DOMAIN log /\ log[h].of = e /\ log[h].row
      /\ \A j \in DOMAIN log : log[j].of = e /\ log[j].row => j <= h
  BY DEF Current
<1>2. Rows(e, clock) = {j \in DOMAIN log : log[j].of = e}
  BY AllRows DEF OrderedInv, OrderInv
<1>3. w \in DOMAIN log /\ log[w].of = e /\ \A j \in DOMAIN log : log[j].of = e => j <= w
  BY <1>1, <1>2, NewestIsLast
<1> HIDE DEF w
<1>4. \A k \in DOMAIN log : log[k].of = e =>
        (HistoryUpTo(k) = HistoryUpTo(h) <=> h <= k)
  <2> SUFFICES ASSUME NEW k \in DOMAIN log, log[k].of = e
               PROVE  HistoryUpTo(k) = HistoryUpTo(h) <=> h <= k
    OBVIOUS
  <2>1. h \in HistoryUpTo(h)
    BY <1>1, OrderedIndices DEF HistoryUpTo
  <2>2. h \in HistoryUpTo(k) => h <= k
    BY <1>1, OrderedIndices DEF HistoryUpTo
  <2>3. ASSUME h <= k, NEW j \in DOMAIN log, log[j].of = e, log[j].row
        PROVE  log[j].at <= log[k].at /\ log[j].at <= log[h].at
    <3>1. j <= h
      BY <1>1, <2>3
    <3>2. j <= k
      BY <3>1, <2>3, <1>1, OrderedIndices
    <3> QED
      BY <3>1, <3>2, <1>1, OrderedIndices
  <2>4. h <= k => HistoryUpTo(k) = HistoryUpTo(h)
    BY <2>3, <1>1 DEF HistoryUpTo
  <2> QED
    BY <2>1, <2>2, <2>4
<1>5. h <= w
  BY <1>1, <1>3
<1>6. Partition(w) = {k \in DOMAIN log : log[k].of = e /\ h <= k}
  BY <1>3, <1>4, <1>5 DEF Partition
<1>7. First(w) = h
  <2>1. h \in Partition(w) /\ \A k \in Partition(w) : h <= k
    BY <1>1, <1>6, OrderedIndices
  <2> QED
    BY <2>1, <1>3, FirstIsLeast DEF OrderedInv, OrderInv
<1> QED
  BY <1>7 DEF TransactionAt, w

LEMMA CurrentIsShown ==
  ASSUME OrderedInv, NEW e \in Entities, NEW h, Current(e, h)
  PROVE  View(e) = log[h]
<1>1. CASE e \in Accounts
  <2>1. Rows(e, clock) = {j \in DOMAIN log : log[j].of = e}
    BY AllRows DEF OrderedInv, OrderInv
  <2>2. /\ h \in Rows(e, clock)
        /\ \A j \in Rows(e, clock) : j \in DOMAIN log /\ j <= h
    BY <1>1, <2>1 DEF Current, OrderedInv, OrderInv, AccountRows
  <2>3. Newest(Rows(e, clock)) \in Rows(e, clock) /\ h <= Newest(Rows(e, clock))
    BY <2>1, <2>2, NewestIsLast
  <2>4. Newest(Rows(e, clock)) = h
    BY <2>2, <2>3, OrderedIndices
  <2> QED
    BY <1>1, <2>4 DEF View, AccountAt
<1>2. CASE e \notin Accounts
  BY <1>2, LastRowIsShown DEF View
<1> QED
  BY <1>1, <1>2

LEMMA CurrentExists ==
  ASSUME OrderedInv, NEW e, Exists(e)
  PROVE  \E h \in DOMAIN log : Current(e, h)
<1> DEFINE S == {j \in DOMAIN log : log[j].of = e /\ log[j].row}
<1>1. S \in SUBSET DOMAIN log /\ S # {}
  BY DEF OrderedInv, RowsExist, Exists
<1>2. Newest(S) \in S /\ \A j \in S : j <= Newest(S)
  BY <1>1, NewestIsLast
<1> QED
  BY <1>2 DEF Current

LEMMA CurrentUnique ==
  ASSUME OrderedInv, NEW e, NEW h, NEW k, Current(e, h), Current(e, k)
  PROVE  h = k
BY OrderedIndices DEF Current

(***************************************************************************)
(* Of an item, the last revision that wrote it.                            *)
(***************************************************************************)
LEMMA CurrentItemIsShown ==
  ASSUME OrderedInv, NEW it \in Items, NEW h, CurrentItem(it, h)
  PROVE  /\ ItemAt(it, clock) = log[h].items[it]
         /\ LiveItem(it, clock) <=> ~log[h].items[it].deleted
<1>1. Rows(itemOf[it], clock) = {j \in DOMAIN log : log[j].of = itemOf[it]}
  BY AllRows DEF OrderedInv, OrderInv
<1>2. ItemRows(it, clock) = {j \in DOMAIN log : log[j].items[it].touched}
  BY <1>1 DEF ItemRows, OrderedInv, OrderInv, ItemsBelong
<1>3. Newest(ItemRows(it, clock)) \in ItemRows(it, clock) /\ h <= Newest(ItemRows(it, clock))
  BY <1>2, NewestIsLast DEF CurrentItem
<1>4. Newest(ItemRows(it, clock)) = h
  BY <1>2, <1>3, OrderedIndices DEF CurrentItem
<1> QED
  BY <1>3, <1>4 DEF ItemAt, LiveItem

LEMMA CurrentItemExists ==
  ASSUME OrderedInv, NEW it \in Items, itemOf[it] # it
  PROVE  \E h \in DOMAIN log : CurrentItem(it, h)
<1> DEFINE S == {j \in DOMAIN log : log[j].items[it].touched}
<1>1. S \in SUBSET DOMAIN log /\ S # {}
  BY DEF OrderedInv, ItemsWritten
<1>2. Newest(S) \in S /\ \A j \in S : j <= Newest(S)
  BY <1>1, NewestIsLast
<1> QED
  BY <1>2 DEF CurrentItem

-----------------------------------------------------------------------------
(* The invariant holds.                                                    *)

LEMMA CommitRowsExist ==
  ASSUME OrderInv, RowsExist, ItemsWritten, NEW u \in Users, Commits(u)
  PROVE  RowsExist' /\ ItemsWritten'
<1>1. PICK row \in BOOLEAN, deleted \in BOOLEAN, refs \in SUBSET Accounts :
        /\ Commit(u, row, deleted, refs) /\ Extends(u, row, deleted, refs)
        /\ Checked(u, row, deleted, refs)
  BY CommitChecked DEF OrderInv
<1>2. pending[u] # NoRequest /\ pending[u].of \in Entities
  BY CommitChecked DEF OrderInv, Request
<1>3. /\ \A v \in Users : pending'[v] # NoRequest => pending'[v] = pending[v] /\ v # u
      /\ \A it \in Items : itemOf'[it] = IF pending[u].items[it].touched THEN pending[u].of ELSE itemOf[it]
  BY <1>1 DEF Commit, OrderInv, IInv, TypeOK
<1>4. \A e : Exists(e) => Exists(e)'
  BY <1>1 DEF Exists, Extends
<1>5. row \/ \E j \in DOMAIN log : log[j].of = pending[u].of /\ log[j].row
  BY <1>1, <1>2 DEF Checked, RowsExist, Exists
<1>6. \A i \in DOMAIN log' : \E j \in DOMAIN log' : log'[j].of = log'[i].of /\ log'[j].row
  <2> TAKE i \in DOMAIN log'
  <2>1. CASE i \in DOMAIN log
    <3>1. PICK j \in DOMAIN log : log[j].of = log[i].of /\ log[j].row
      BY <2>1 DEF RowsExist
    <3> QED
      BY <2>1, <3>1, <1>1 DEF Extends
  <2>2. CASE i = Len(log) + 1
    BY <2>2, <1>1, <1>5 DEF Extends
  <2> QED
    BY <2>1, <2>2, <1>1 DEF Extends
<1>7. RowsExist'
  BY <1>3, <1>4, <1>6 DEF RowsExist
<1>8. ItemsWritten'
  <2> SUFFICES ASSUME NEW it \in Items
               PROVE  \/ itemOf'[it] = it
                      \/ itemOf'[it] \in Transactions /\ \E i \in DOMAIN log' : log'[i].items[it].touched
    BY DEF ItemsWritten
  <2>1. CASE pending[u].items[it].touched
    <3>1. pending[u].of \in Transactions
      BY <2>1, <1>2, NoItemsUntouched DEF OrderInv, IInv, AccountsHaveNoItems, Entities
    <3> QED
      BY <2>1, <3>1, <1>1, <1>3 DEF Extends
  <2>2. CASE ~pending[u].items[it].touched
    BY <2>2, <1>1, <1>3 DEF Extends, ItemsWritten
  <2> QED
    BY <2>1, <2>2
<1> QED
  BY <1>7, <1>8

LEMMA NextRowsExist ==
  OrderInv /\ RowsExist /\ ItemsWritten /\ [Next]_vars => RowsExist' /\ ItemsWritten'
<1> SUFFICES ASSUME OrderInv, RowsExist, ItemsWritten, [Next]_vars
             PROVE  RowsExist' /\ ItemsWritten'
  OBVIOUS
<1>1. ASSUME NEW u \in Users, BeginAccount(u) \/ BeginTransaction(u)
      PROVE  RowsExist' /\ ItemsWritten'
  <2>1. PICK op, e, refs, items :
          e \in Entities /\ Begin(u, op, e, refs, items) /\ Fits(op, e, refs, items)
    BY <1>1, EveryBegin DEF BeginsFit
  <2>2. /\ UNCHANGED <<log, itemOf>>
        /\ pending'[u] = [op |-> op, of |-> e, at |-> clock + 1, refs |-> refs, items |-> items]
        /\ \A v \in Users : v # u => pending'[v] = pending[v]
        /\ op # "create" => Exists(e)
    BY <2>1 DEF Begin, OrderInv, IInv, TypeOK
  <2>3. RowsExist'
    BY <2>1, <2>2 DEF RowsExist, Exists, Fits
  <2> QED
    BY <2>2, <2>3 DEF ItemsWritten
<1>2. ASSUME UNCHANGED <<log, itemOf>>,
             \A u \in Users : pending'[u] = NoRequest \/ pending'[u] = pending[u]
      PROVE  RowsExist' /\ ItemsWritten'
  BY <1>2 DEF RowsExist, Exists, ItemsWritten
<1>3. ASSUME NEW u \in Users, Abort(u) \/ ChangePermission(u)
      PROVE  RowsExist' /\ ItemsWritten'
  BY <1>2, <1>3 DEF Abort, ChangePermission, OrderInv, IInv, TypeOK
<1>4. CASE UNCHANGED vars
  BY <1>2, <1>4 DEF vars
<1> QED
  BY <1>1, <1>3, <1>4, CommitRowsExist, NextCases

LEMMA InitRowsExist == Init => RowsExist /\ ItemsWritten
BY DEF Init, RowsExist, ItemsWritten

LEMMA OrderedInvariant == OrderedSpec => []OrderedInv
<1>1. Init => RowsExist /\ ItemsWritten
  BY InitRowsExist
<1> QED
  BY <1>1, NextRowsExist, OrderInductive, OrderedInductive, ClearingStaysAcyclic, PTL
     DEF Spec, OrderedInv

(***************************************************************************)
(* When no request overtakes another, every committed transaction shows a  *)
(* name, a value and shares: update_transaction_positions writes a         *)
(* revision without a transaction_history row, and the view still finds    *)
(* the row of an earlier one.                                              *)
(***************************************************************************)
THEOREM OrderedReadable == OrderedSpec => []Readable
<1>1. OrderedInv => Readable
  <2> SUFFICES ASSUME OrderedInv, NEW t \in Transactions, Exists(t)
               PROVE  TransactionAt(t, clock).row
    BY DEF Readable
  <2>1. PICK h \in DOMAIN log : Current(t, h)
    BY CurrentExists
  <2> QED
    BY <2>1, LastRowIsShown DEF Current
<1> QED
  BY <1>1, OrderedInvariant, PTL

-----------------------------------------------------------------------------
(* The refinement: what the abstract state is.                             *)

StateOf(rev) == [status |-> IF rev.deleted THEN "deleted" ELSE "live", refs |-> rev.refs]
ItemStateOf(t, row) ==
  [of |-> t, status |-> IF row.deleted THEN "deleted" ELSE "live", usages |-> row.usages]
Absent == [status |-> "absent", refs |-> {}]
NoItem == [status |-> "absent"]

StatesShown ==
  /\ EntityStates = [e \in Entities |-> EntityStates[e]]
  /\ ItemStates = [it \in Items |-> ItemStates[it]]
  /\ \A e \in Entities :
       /\ ~Exists(e) => EntityStates[e] = Absent
       /\ Exists(e) => \E h \in DOMAIN log : Current(e, h)
       /\ \A h \in DOMAIN log : Current(e, h) => EntityStates[e] = StateOf(log[h])
  /\ \A it \in Items :
       /\ itemOf[it] = it => ItemStates[it] = NoItem
       /\ itemOf[it] # it =>
            /\ itemOf[it] \in Transactions
            /\ \E h \in DOMAIN log : CurrentItem(it, h)
            /\ \A h \in DOMAIN log :
                 CurrentItem(it, h) => ItemStates[it] = ItemStateOf(itemOf[it], log[h].items[it])

LEMMA StatesAreShown == OrderedInv => StatesShown
<1> SUFFICES ASSUME OrderedInv PROVE StatesShown
  OBVIOUS
<1>1. /\ EntityStates = [e \in Entities |-> EntityStates[e]]
      /\ ItemStates = [it \in Items |-> ItemStates[it]]
  BY DEF EntityStates, ItemStates
<1>2. ASSUME NEW e \in Entities
      PROVE  /\ ~Exists(e) => EntityStates[e] = Absent
             /\ Exists(e) => \E h \in DOMAIN log : Current(e, h)
             /\ \A h \in DOMAIN log : Current(e, h) => EntityStates[e] = StateOf(log[h])
  <2>1. ~Exists(e) => EntityStates[e] = Absent
    BY DEF EntityStates, Absent
  <2>2. ASSUME NEW h \in DOMAIN log, Current(e, h)
        PROVE  EntityStates[e] = StateOf(log[h])
    <3>1. Exists(e)
      BY <2>2 DEF Current, Exists
    <3>2. View(e) = log[h]
      BY <2>2, CurrentIsShown
    <3>3. ShownState(e) = StateOf(View(e))
      BY DEF ShownState, StateOf, View
    <3> QED
      BY <3>1, <3>2, <3>3 DEF EntityStates
  <2> QED
    BY <2>1, <2>2, CurrentExists
<1>3. ASSUME NEW it \in Items
      PROVE  /\ itemOf[it] = it => ItemStates[it] = NoItem
             /\ itemOf[it] # it =>
                  /\ itemOf[it] \in Transactions
                  /\ \E h \in DOMAIN log : CurrentItem(it, h)
                  /\ \A h \in DOMAIN log :
                       CurrentItem(it, h) => ItemStates[it] = ItemStateOf(itemOf[it], log[h].items[it])
  <2>1. itemOf[it] = it => ItemStates[it] = NoItem
    BY DEF ItemStates, NoItem
  <2>2. itemOf[it] # it => itemOf[it] \in Transactions /\ \E h \in DOMAIN log : CurrentItem(it, h)
    BY CurrentItemExists DEF OrderedInv, ItemsWritten
  <2>3. ASSUME itemOf[it] # it, NEW h \in DOMAIN log, CurrentItem(it, h)
        PROVE  ItemStates[it] = ItemStateOf(itemOf[it], log[h].items[it])
    <3>1. ItemStates[it] = ShownItem(it)
      BY <2>3 DEF ItemStates
    <3>2. /\ ItemAt(it, clock) = log[h].items[it]
          /\ LiveItem(it, clock) <=> ~log[h].items[it].deleted
      BY <2>3, CurrentItemIsShown
    <3> QED
      BY <3>1, <3>2 DEF ShownItem, ItemStateOf
  <2> QED
    BY <2>1, <2>2, <2>3
<1> QED
  BY <1>1, <1>2, <1>3 DEF StatesShown

(***************************************************************************)
(* The abstract state names no deleted account and can be settled.         *)
(***************************************************************************)
LEMMA ShownAsLive ==
  ASSUME OrderedInv, ReferencesLive, NEW a \in Accounts, a \in NamedOnShow
  PROVE  EntityStates[a].status = "live"
<1>1. LiveAccount(a, clock)
  BY DEF ReferencesLive, Dangling
<1>2. Exists(a) /\ ShownState(a).status = "live"
  BY <1>1, AllRows DEF OrderedInv, OrderInv, LiveAccount, Exists, ShownState
<1> QED
  BY <1>2 DEF EntityStates, Entities

LEMMA NamesLive == OrderedInv /\ ReferencesLive => Abstract!NamesOnlyLive
<1> SUFFICES ASSUME OrderedInv, ReferencesLive,
                    NEW a \in Abstract!Named
             PROVE  EntityStates[a].status = "live"
  BY DEF Abstract!NamesOnlyLive
<1>1. StatesShown
  BY StatesAreShown
<1>2. \A h \in DOMAIN log : /\ log[h].refs \in SUBSET Accounts
                          /\ \A it \in Items : log[h].items[it].usages \in SUBSET Accounts
  BY LogTypes DEF OrderedInv, OrderInv, IInv, Revision, ItemRow
<1>3. CASE \E e \in Entities : EntityStates[e].status = "live" /\ a \in EntityStates[e].refs
  <2>1. PICK e \in Entities : EntityStates[e].status = "live" /\ a \in EntityStates[e].refs
    BY <1>3
  <2>2. Exists(e)
    BY <1>1, <2>1 DEF StatesShown, Absent
  <2>3. PICK h \in DOMAIN log : Current(e, h)
    BY <1>1, <2>2 DEF StatesShown
  <2>4. ~log[h].deleted /\ a \in log[h].refs
    BY <1>1, <2>1, <2>3 DEF StatesShown, StateOf
  <2>5. View(e) = log[h] /\ log[h].row /\ h \in Rows(e, clock)
    BY <2>3, CurrentIsShown, AllRows DEF Current, OrderedInv, OrderInv
  <2>6. e \in Accounts => a \in NamedOnShow
    BY <2>4, <2>5 DEF View, NamedOnShow, LiveAccount
  <2>7. e \in Transactions /\ e \notin Accounts => a \in NamedOnShow
    BY <2>4, <2>5 DEF View, NamedOnShow, LiveTransaction
  <2>8. a \in NamedOnShow /\ a \in Accounts
    BY <1>2, <2>4, <2>6, <2>7 DEF Entities
  <2> QED
    BY <2>8, ShownAsLive
<1>4. CASE \E it \in Items : ItemStates[it].status = "live" /\ a \in ItemStates[it].usages
  <2>1. PICK it \in Items : ItemStates[it].status = "live" /\ a \in ItemStates[it].usages
    BY <1>4
  <2>2. itemOf[it] # it
    BY <1>1, <2>1 DEF StatesShown, NoItem
  <2>3. PICK h \in DOMAIN log : CurrentItem(it, h)
    BY <1>1, <2>2 DEF StatesShown
  <2>4. ~log[h].items[it].deleted /\ a \in log[h].items[it].usages
    BY <1>1, <2>1, <2>2, <2>3 DEF StatesShown, ItemStateOf
  <2>5. LiveItem(it, clock) /\ a \in ItemAt(it, clock).usages
    BY <2>3, <2>4, CurrentItemIsShown
  <2>6. a \in NamedOnShow /\ a \in Accounts
    BY <1>2, <2>4, <2>5 DEF NamedOnShow
  <2> QED
    BY <2>6, ShownAsLive
<1>5. \/ \E e \in Entities : EntityStates[e].status = "live" /\ a \in EntityStates[e].refs
      \/ \E it \in Items : ItemStates[it].status = "live" /\ a \in ItemStates[it].usages
  BY DEF Abstract!Named, Abstract!Entities, Entities
<1> QED
  BY <1>3, <1>4, <1>5

LEMMA CanBeSettled == OrderedInv => Abstract!Settleable
<1> SUFFICES ASSUME OrderedInv,
                    NEW C \in SUBSET Clearing, C # {},
                    \A a \in C : EntityStates[a].status = "live" /\ EntityStates[a].refs \cap C # {}
             PROVE  FALSE
  BY DEF Abstract!Settleable
<1>1. StatesShown
  BY StatesAreShown
<1>2. ASSUME NEW a \in C PROVE \E b \in C : <<a, b>> \in ClearingEdges
  <2>1. a \in Accounts /\ a \in Entities /\ C \subseteq Accounts
    BY LedgerAssumption DEF Entities
  <2>2. Exists(a)
    BY <1>1, <2>1 DEF StatesShown, Absent
  <2>3. PICK h \in DOMAIN log : Current(a, h)
    BY <1>1, <2>1, <2>2 DEF StatesShown
  <2>4. EntityStates[a].refs = log[h].refs /\ log[h].of = a
    BY <1>1, <2>1, <2>3 DEF StatesShown, StateOf, Current
  <2>5. PICK b \in C : b \in log[h].refs
    BY <2>4
  <2> QED
    BY <2>1, <2>4, <2>5 DEF ClearingEdges
<1>3. HasCycle(Accounts, ClearingEdges)
  BY <1>2, LedgerAssumption DEF HasCycle
<1> QED
  BY <1>3 DEF OrderedInv, AcyclicClearing

-----------------------------------------------------------------------------
(* The refinement: every step.                                             *)

LEMMA Initially == OrderedInv /\ Init => Abstract!Init
<1> SUFFICES ASSUME OrderedInv, Init PROVE Abstract!Init
  OBVIOUS
<1>1. StatesShown
  BY StatesAreShown
<1>2. /\ \A h \in DOMAIN log : ~log[h].deleted /\ log[h].refs = {}
      /\ \A it \in Items : itemOf[it] = it
  BY LedgerAssumption DEF Init
<1>3. \A e \in Entities : EntityStates[e] \in {Absent, StateOf([deleted |-> FALSE, refs |-> {}])}
  BY <1>1, <1>2 DEF StatesShown, StateOf
<1>4. EntityStates \in [Entities -> {Absent, [status |-> "live", refs |-> {}]}]
  BY <1>1, <1>3 DEF StatesShown, StateOf
<1>5. ItemStates = [it \in Items |-> NoItem]
  BY <1>1, <1>2 DEF StatesShown
<1> QED
  BY <1>4, <1>5 DEF Abstract!Init, Abstract!Entities, Abstract!Absent, Abstract!Live,
                    Abstract!NoItem, Entities, Absent, NoItem

LEMMA NothingCommitted ==
  ASSUME StatesShown, StatesShown', UNCHANGED <<log, itemOf>>
  PROVE  UNCHANGED <<EntityStates, ItemStates>>
<1>1. /\ \A e : Exists(e) <=> Exists(e)'
      /\ \A e, h : Current(e, h) <=> Current(e, h)'
      /\ \A it, h : CurrentItem(it, h) <=> CurrentItem(it, h)'
  BY DEF Exists, Current, CurrentItem
<1>2. ASSUME NEW e \in Entities PROVE EntityStates'[e] = EntityStates[e]
  <2>1. CASE Exists(e)
    <3>1. PICK h \in DOMAIN log : Current(e, h)
      BY <2>1 DEF StatesShown
    <3>2. EntityStates[e] = StateOf(log[h]) /\ EntityStates'[e] = StateOf(log[h])
      BY <3>1, <1>1 DEF StatesShown
    <3> QED
      BY <3>2
  <2>2. CASE ~Exists(e)
    BY <2>2, <1>1 DEF StatesShown
  <2> QED
    BY <2>1, <2>2
<1>3. ASSUME NEW it \in Items PROVE ItemStates'[it] = ItemStates[it]
  <2>1. CASE itemOf[it] # it
    <3>1. PICK h \in DOMAIN log : CurrentItem(it, h)
      BY <2>1 DEF StatesShown
    <3>2. /\ ItemStates[it] = ItemStateOf(itemOf[it], log[h].items[it])
          /\ ItemStates'[it] = ItemStateOf(itemOf[it], log[h].items[it])
      BY <2>1, <3>1, <1>1 DEF StatesShown
    <3> QED
      BY <3>2
  <2>2. CASE itemOf[it] = it
    BY <2>2 DEF StatesShown
  <2> QED
    BY <2>1, <2>2
<1>4. EntityStates' = EntityStates
  BY <1>2 DEF StatesShown
<1>5. ItemStates' = ItemStates
  BY <1>3 DEF StatesShown
<1> QED
  BY <1>4, <1>5

(***************************************************************************)
(* A commit replaces the state of its entity, if it writes a row, and of   *)
(* the items it writes.                                                    *)
(***************************************************************************)
LEMMA CommitReplaces ==
  ASSUME OrderedInv, StatesShown, StatesShown', NEW u \in Users, pending[u] # NoRequest,
         NEW row \in BOOLEAN, NEW deleted \in BOOLEAN, NEW refs \in SUBSET Accounts,
         Commit(u, row, deleted, refs), Extends(u, row, deleted, refs),
         ~row => Exists(pending[u].of)
  PROVE  /\ \A e \in Entities \ {pending[u].of} : EntityStates'[e] = EntityStates[e]
         /\ ~row => EntityStates'[pending[u].of] = EntityStates[pending[u].of]
         /\ row => EntityStates'[pending[u].of]
                     = [status |-> IF deleted THEN "deleted" ELSE "live", refs |-> refs]
         /\ \A it \in Items :
              IF pending[u].items[it].touched
              THEN ItemStates'[it] = ItemStateOf(pending[u].of, pending[u].items[it])
              ELSE ItemStates'[it] = ItemStates[it]
<1>0. PICK n, o : n = Len(log) + 1 /\ o = pending[u].of
  OBVIOUS
<1>1. pending[u] \in Request /\ o \in Entities
  BY <1>0 DEF OrderedInv, OrderInv, IInv, TypeOK, Request
<1>2. \A it \in Items : itemOf'[it] = IF pending[u].items[it].touched THEN o ELSE itemOf[it]
  BY <1>0 DEF Commit
<1>3. /\ n \in Nat /\ n \in DOMAIN log' /\ DOMAIN log' = DOMAIN log \cup {n}
      /\ \A i \in DOMAIN log : i \in Nat /\ i < n /\ log'[i] = log[i]
      /\ log'[n].of = o /\ log'[n].row = row /\ log'[n].items = pending[u].items
      /\ log'[n].refs = refs /\ log'[n].deleted = deleted
  BY <1>0 DEF Extends
<1>4. ASSUME NEW e \in Entities, e # o \/ ~row
      PROVE  EntityStates'[e] = EntityStates[e]
  <2>1. CASE Exists(e)
    <3>1. PICK h \in DOMAIN log : Current(e, h)
      BY <2>1 DEF StatesShown
    <3>2. h \in DOMAIN log' /\ log'[h] = log[h] /\ Current(e, h)'
      BY <3>1, <1>3, <1>4 DEF Current
    <3>3. EntityStates[e] = StateOf(log[h])
      BY <3>1 DEF StatesShown
    <3>4. EntityStates'[e] = StateOf(log'[h])
      BY <3>2 DEF StatesShown, StateOf
    <3> QED
      BY <3>2, <3>3, <3>4
  <2>2. CASE ~Exists(e)
    <3>1. ~Exists(e)'
      BY <2>2, <1>0, <1>3, <1>4 DEF Exists
    <3> QED
      BY <2>2, <3>1 DEF StatesShown, Absent
  <2> QED
    BY <2>1, <2>2
<1>5. ASSUME row PROVE EntityStates'[o]
                        = [status |-> IF deleted THEN "deleted" ELSE "live", refs |-> refs]
  <2>1. Current(o, n)'
    BY <1>3, <1>5 DEF Current
  <2>2. EntityStates'[o] = StateOf(log'[n])
    BY <2>1, <1>1, <1>3 DEF StatesShown, StateOf
  <2> QED
    BY <2>2, <1>3 DEF StateOf
<1>6. ASSUME NEW it \in Items, pending[u].items[it].touched
      PROVE  ItemStates'[it] = ItemStateOf(o, pending[u].items[it])
  <2>1. \A j \in DOMAIN log' : j <= n
    BY <1>3
  <2>2. CurrentItem(it, n)'
    BY <1>3, <1>6, <2>1 DEF CurrentItem
  <2>3. itemOf'[it] = o /\ itemOf'[it] # it
    BY <1>1, <1>2, <1>6, LedgerAssumption DEF Entities
  <2>4. ItemStates'[it] = ItemStateOf(itemOf'[it], log'[n].items[it])
    BY <2>2, <2>3, <1>3 DEF StatesShown, ItemStateOf
  <2> QED
    BY <2>3, <2>4, <1>3
<1>7. ASSUME NEW it \in Items, ~pending[u].items[it].touched
      PROVE  ItemStates'[it] = ItemStates[it]
  <2>1. itemOf'[it] = itemOf[it]
    BY <1>2, <1>7
  <2>2. CASE itemOf[it] # it
    <3>1. PICK h \in DOMAIN log : CurrentItem(it, h)
      BY <2>2 DEF StatesShown
    <3>2. h \in DOMAIN log' /\ log'[h] = log[h] /\ CurrentItem(it, h)'
      BY <3>1, <1>3, <1>7 DEF CurrentItem
    <3>3. ItemStates[it] = ItemStateOf(itemOf[it], log[h].items[it])
      BY <2>2, <3>1 DEF StatesShown
    <3>4. ItemStates'[it] = ItemStateOf(itemOf'[it], log'[h].items[it])
      BY <2>1, <2>2, <3>2 DEF StatesShown, ItemStateOf
    <3> QED
      BY <2>1, <3>2, <3>3, <3>4
  <2>3. CASE itemOf[it] = it
    BY <2>1, <2>3 DEF StatesShown, NoItem
  <2> QED
    BY <2>2, <2>3
<1> QED
  BY <1>0, <1>1, <1>4, <1>5, <1>6, <1>7

(***************************************************************************)
(* When requests commit in the order they began in, what a request sees at *)
(* its BEGIN is what is shown when it commits.                             *)
(***************************************************************************)
LEMMA SeesAll ==
  ASSUME OrderInv, NEW u \in Users, pending[u] # NoRequest,
         NEW row \in BOOLEAN, NEW deleted \in BOOLEAN, NEW refs \in SUBSET Accounts,
         Extends(u, row, deleted, refs), InCommitOrder'
  PROVE  \A e : Rows(e, pending[u].at) = Rows(e, clock)
<1>1. PICK n : n = Len(log) + 1
  OBVIOUS
<1>2. \A i \in DOMAIN log : log[i].at < pending[u].at
  BY <1>1 DEF Extends, InCommitOrder
<1>3. pending[u].at \in Nat /\ \A i \in DOMAIN log : log[i].at \in Nat /\ log[i].at <= clock
  BY LogTypes DEF OrderInv, IInv, TypeOK, TimesBounded, Request
<1> QED
  BY <1>2, <1>3 DEF Rows

LEMMA ReplacedState ==
  ASSUME StatesShown, StatesShown', NEW o \in Entities, NEW s,
         \A e \in Entities \ {o} : EntityStates'[e] = EntityStates[e],
         EntityStates'[o] = s
  PROVE  EntityStates' = [EntityStates EXCEPT ![o] = s]
BY DEF StatesShown

LEMMA SameStates ==
  ASSUME StatesShown, StatesShown'
  PROVE  /\ (\A e \in Entities : EntityStates'[e] = EntityStates[e]) => EntityStates' = EntityStates
         /\ (\A it \in Items : ItemStates'[it] = ItemStates[it]) => ItemStates' = ItemStates
BY DEF StatesShown

(***************************************************************************)
(* Positions change as ItemsMayBecome allows.                              *)
(***************************************************************************)
LEMMA ItemsBecome ==
  ASSUME OrderedInv, StatesShown, NEW u \in Users, pending[u] # NoRequest,
         \A it \in Items :
           IF pending[u].items[it].touched
           THEN ItemStates'[it] = ItemStateOf(pending[u].of, pending[u].items[it])
           ELSE ItemStates'[it] = ItemStates[it]
  PROVE  Abstract!ItemsMayBecome(pending[u].of)
<1> SUFFICES ASSUME NEW it \in Items, ItemStates'[it] # ItemStates[it]
             PROVE  /\ ItemStates[it] = NoItem \/ ItemStates[it].of = pending[u].of
                    /\ ItemStates'[it] # NoItem /\ ItemStates'[it].of = pending[u].of
  BY DEF Abstract!ItemsMayBecome, Abstract!NoItem, NoItem
<1>1. /\ pending[u].items[it].touched
      /\ ItemStates'[it] = ItemStateOf(pending[u].of, pending[u].items[it])
  OBVIOUS
<1>2. ItemStates'[it].of = pending[u].of /\ ItemStates'[it].status \in {"live", "deleted"}
  BY <1>1 DEF ItemStateOf
<1>3. itemOf[it] = pending[u].of \/ itemOf[it] = it
  BY <1>1 DEF OrderedInv, OrderInv, ItemsBelong
<1>4. CASE itemOf[it] = it
  BY <1>2, <1>4 DEF StatesShown, NoItem
<1>5. CASE itemOf[it] # it
  <2>1. PICK h \in DOMAIN log : CurrentItem(it, h)
    BY <1>5 DEF StatesShown
  <2>2. ItemStates[it].of = pending[u].of
    BY <1>3, <1>5, <2>1 DEF StatesShown, ItemStateOf
  <2> QED
    BY <1>2, <2>2 DEF NoItem
<1> QED
  BY <1>4, <1>5

Steady(u) == OrderedInv /\ StatesShown /\ StatesShown' /\ InCommitOrder' /\ u \in Users

LEMMA PutAccountStep ==
  ASSUME NEW u, Steady(u), Abstract!NamesOnlyLive', Abstract!Settleable',
         CreateAccount(u) \/ UpdateAccount(u)
  PROVE  \E a \in Accounts : Abstract!PutAccount(a)
<1>1. /\ pending[u] # NoRequest /\ pending[u].of \in Accounts
      /\ Commit(u, TRUE, FALSE, pending[u].refs)
      /\ pending[u].refs # {} => pending[u].of \in Clearing
  BY DEF CreateAccount, UpdateAccount, Runs, SharesAccepted
<1>2. pending[u].refs \in SUBSET Accounts /\ pending[u].items = NoItems
  BY <1>1 DEF Steady, OrderedInv, OrderInv, IInv, TypeOK, AccountsHaveNoItems, Request
<1>3. Extends(u, TRUE, FALSE, pending[u].refs)
  BY <1>1, <1>2, CommitExtends DEF Steady, OrderedInv, OrderInv
<1>4. /\ \A e \in Entities \ {pending[u].of} : EntityStates'[e] = EntityStates[e]
      /\ EntityStates'[pending[u].of] = [status |-> "live", refs |-> pending[u].refs]
      /\ \A it \in Items : ItemStates'[it] = ItemStates[it]
  BY <1>1, <1>2, <1>3, CommitReplaces, NoItemsUntouched DEF Steady
<1>5. PICK a \in Accounts, refs \in SUBSET Accounts : a = pending[u].of /\ refs = pending[u].refs
  BY <1>1, <1>2
<1>6. EntityStates' = [EntityStates EXCEPT ![a] = Abstract!Live(refs)]
  BY <1>4, <1>5, ReplacedState DEF Steady, Entities, Abstract!Live
<1>7. ItemStates' = ItemStates
  BY <1>4, SameStates DEF Steady
<1> QED
  BY <1>1, <1>5, <1>6, <1>7 DEF Abstract!PutAccount

LEMMA RemoveAccountStep ==
  ASSUME NEW u, Steady(u), Abstract!NamesOnlyLive', DeleteAccount(u)
  PROVE  \E a \in Accounts : Abstract!RemoveAccount(a)
<1>1. /\ pending[u] # NoRequest /\ pending[u].of \in Accounts
      /\ Commit(u, TRUE, TRUE, {}) /\ {} \in SUBSET Accounts
      /\ LiveAccount(pending[u].of, pending[u].at)
  BY DEF DeleteAccount, Runs
<1>2. pending[u].items = NoItems
  BY <1>1 DEF Steady, OrderedInv, OrderInv, IInv, AccountsHaveNoItems
<1>3. Extends(u, TRUE, TRUE, {})
  BY <1>1, CommitExtends DEF Steady, OrderedInv, OrderInv
<1>4. /\ \A e \in Entities \ {pending[u].of} : EntityStates'[e] = EntityStates[e]
      /\ EntityStates'[pending[u].of] = [status |-> "deleted", refs |-> {}]
      /\ \A it \in Items : ItemStates'[it] = ItemStates[it]
  BY <1>1, <1>2, <1>3, CommitReplaces, NoItemsUntouched DEF Steady
<1>5. PICK a \in Accounts : a = pending[u].of
  BY <1>1
<1>6. EntityStates' = [EntityStates EXCEPT ![a] = Abstract!Deleted({})]
  BY <1>4, <1>5, ReplacedState DEF Steady, Entities, Abstract!Deleted
<1>7. ItemStates' = ItemStates
  BY <1>4, SameStates DEF Steady
<1>8. EntityStates[a].status = "live"
  <2>1. Rows(a, pending[u].at) = Rows(a, clock)
    BY <1>1, <1>3, SeesAll DEF Steady, OrderedInv
  <2>2. LiveAccount(a, clock)
    BY <2>1, <1>1, <1>5 DEF LiveAccount, AccountAt
  <2>3. Exists(a) /\ ShownState(a).status = "live"
    BY <2>2, AllRows DEF Steady, OrderedInv, OrderInv, LiveAccount, Exists, ShownState
  <2> QED
    BY <2>3 DEF EntityStates, Entities
<1> QED
  BY <1>6, <1>7, <1>8 DEF Abstract!RemoveAccount

LEMMA PutTransactionStep ==
  ASSUME NEW u, Steady(u), Abstract!NamesOnlyLive', CreateTransaction(u) \/ UpdateTransaction(u)
  PROVE  \E t \in Transactions : Abstract!PutTransaction(t)
<1>1. /\ pending[u] # NoRequest /\ pending[u].of \in Transactions
      /\ pending[u].op \in {"create", "update"}
      /\ Commit(u, TRUE, FALSE, pending[u].refs)
  BY DEF CreateTransaction, UpdateTransaction, Runs
<1>2. pending[u].refs \in SUBSET Accounts /\ pending[u].refs # {}
  BY <1>1 DEF Steady, OrderedInv, OrderInv, IInv, TypeOK, RowsExist, Request
<1>3. Extends(u, TRUE, FALSE, pending[u].refs)
  BY <1>1, <1>2, CommitExtends DEF Steady, OrderedInv, OrderInv
<1>4. /\ \A e \in Entities \ {pending[u].of} : EntityStates'[e] = EntityStates[e]
      /\ EntityStates'[pending[u].of] = [status |-> "live", refs |-> pending[u].refs]
      /\ Abstract!ItemsMayBecome(pending[u].of)
  BY <1>1, <1>2, <1>3, CommitReplaces, ItemsBecome DEF Steady
<1>5. PICK t \in Transactions, refs \in (SUBSET Accounts) \ {{}} :
        t = pending[u].of /\ refs = pending[u].refs
  BY <1>1, <1>2
<1>6. EntityStates' = [EntityStates EXCEPT ![t] = Abstract!Live(refs)]
  BY <1>4, <1>5, ReplacedState DEF Steady, Entities, Abstract!Live
<1>7. Abstract!ItemsMayBecome(t)
  BY <1>4, <1>5
<1> QED
  BY <1>6, <1>7 DEF Abstract!PutTransaction

LEMMA PutItemsStep ==
  ASSUME NEW u, Steady(u), Abstract!NamesOnlyLive', UpdatePositions(u)
  PROVE  \E t \in Transactions : Abstract!PutItems(t)
<1>1. /\ pending[u] # NoRequest /\ pending[u].of \in Purchases
      /\ pending[u].op = "positions"
      /\ Commit(u, FALSE, FALSE, {}) /\ {} \in SUBSET Accounts
  BY DEF UpdatePositions, Runs
<1>2. Extends(u, FALSE, FALSE, {})
  BY <1>1, CommitExtends DEF Steady, OrderedInv, OrderInv
<1>3. PICK t \in Transactions : t = pending[u].of /\ t \in Entities
  BY <1>1, LedgerAssumption DEF Entities
<1>4. Exists(t)
  BY <1>1, <1>3 DEF Steady, OrderedInv, RowsExist
<1>5. /\ \A e \in Entities \ {t} : EntityStates'[e] = EntityStates[e]
      /\ EntityStates'[t] = EntityStates[t]
      /\ \A it \in Items :
           IF pending[u].items[it].touched
           THEN ItemStates'[it] = ItemStateOf(t, pending[u].items[it])
           ELSE ItemStates'[it] = ItemStates[it]
  BY <1>1, <1>2, <1>3, <1>4, CommitReplaces DEF Steady
<1>6. Abstract!ItemsMayBecome(t)
  BY <1>1, <1>3, <1>5, ItemsBecome DEF Steady
<1>7. EntityStates' = EntityStates
  BY <1>5, SameStates DEF Steady
<1>8. EntityStates[t].status # "absent"
  <2>1. PICK h \in DOMAIN log : Current(t, h)
    BY <1>3, <1>4 DEF Steady, StatesShown
  <2>2. EntityStates[t] = StateOf(log[h])
    BY <1>3, <2>1 DEF Steady, StatesShown
  <2> QED
    BY <2>2 DEF StateOf
<1> QED
  BY <1>1, <1>3, <1>6, <1>7, <1>8 DEF Abstract!PutItems

LEMMA RemoveTransactionStep ==
  ASSUME NEW u, Steady(u), DeleteTransaction(u)
  PROVE  \E t \in Transactions : Abstract!RemoveTransaction(t)
<1> DEFINE history == {i \in DOMAIN log : log[i].of = pending[u].of /\ log[i].row}
<1>1. /\ pending[u] # NoRequest /\ pending[u].of \in Transactions
      /\ pending[u].op = "delete"
      /\ ~TransactionAt(pending[u].of, pending[u].at).deleted
      /\ history # {}
      /\ Commit(u, TRUE, TRUE, log[Newest(history)].refs)
  BY DEF DeleteTransaction, Runs
<1>2. Newest(history) \in history /\ \A j \in history : j <= Newest(history)
  BY <1>1, NewestIsLast DEF Steady
<1>3. PICK h \in DOMAIN log : h = Newest(history) /\ Current(pending[u].of, h)
  BY <1>2 DEF Current
<1> HIDE DEF history
<1>4. log[h].refs \in SUBSET Accounts /\ Commit(u, TRUE, TRUE, log[h].refs)
  BY <1>1, <1>3, LogTypes DEF Steady, OrderedInv, OrderInv, IInv
<1>5. Extends(u, TRUE, TRUE, log[h].refs)
  BY <1>1, <1>4, CommitExtends DEF Steady, OrderedInv, OrderInv
<1>6. pending[u].items = NoItems
  BY <1>1 DEF Steady, OrderedInv, OrderInv, DeletionsHaveNoItems
<1>7. /\ \A e \in Entities \ {pending[u].of} : EntityStates'[e] = EntityStates[e]
      /\ EntityStates'[pending[u].of] = [status |-> "deleted", refs |-> log[h].refs]
      /\ \A it \in Items : ItemStates'[it] = ItemStates[it]
  BY <1>1, <1>4, <1>5, <1>6, CommitReplaces, NoItemsUntouched DEF Steady
<1>8. PICK t \in Transactions : t = pending[u].of /\ t \in Entities
  BY <1>1 DEF Entities
<1>9. ItemStates' = ItemStates
  BY <1>7, SameStates DEF Steady
<1>10. EntityStates[t].status = "live" /\ EntityStates[t].refs = log[h].refs
  <2>1. Rows(t, pending[u].at) = Rows(t, clock)
    BY <1>1, <1>4, <1>5, SeesAll DEF Steady, OrderedInv
  <2>2. TransactionAt(t, pending[u].at) = log[h]
    BY <2>1, <1>3, <1>8, LastRowIsShown DEF TransactionAt, Steady
  <2>3. EntityStates[t] = StateOf(log[h])
    BY <1>3, <1>8 DEF Steady, StatesShown
  <2> QED
    BY <2>2, <2>3, <1>1, <1>8 DEF StateOf
<1>11. EntityStates' = [EntityStates EXCEPT ![t] = Abstract!Deleted(EntityStates[t].refs)]
  BY <1>7, <1>8, <1>10, ReplacedState DEF Steady, Abstract!Deleted
<1> QED
  BY <1>8, <1>9, <1>10, <1>11 DEF Abstract!RemoveTransaction

LEMMA StepImplements ==
  /\ OrderedInv /\ StatesShown /\ StatesShown'
  /\ Abstract!NamesOnlyLive' /\ Abstract!Settleable'
  /\ [Next /\ InCommitOrder']_vars
  => [Abstract!Next]_<<EntityStates, ItemStates>>
<1> SUFFICES ASSUME OrderedInv, StatesShown, StatesShown',
                    Abstract!NamesOnlyLive', Abstract!Settleable',
                    [Next /\ InCommitOrder']_vars
             PROVE  Abstract!Next \/ UNCHANGED <<EntityStates, ItemStates>>
  OBVIOUS
<1>1. CASE UNCHANGED vars
  BY <1>1, NothingCommitted DEF vars
<1>2. ASSUME NEW u \in Users, InCommitOrder', Commits(u)
      PROVE  Abstract!Next
  <2>1. Steady(u)
    BY <1>2 DEF Steady
  <2> QED
    BY <2>1, <1>2, PutAccountStep, RemoveAccountStep, PutTransactionStep, PutItemsStep,
       RemoveTransactionStep DEF Commits, Abstract!Next
<1>3. ASSUME NEW u \in Users, BeginAccount(u) \/ BeginTransaction(u)
      PROVE  UNCHANGED <<EntityStates, ItemStates>>
  <2>1. UNCHANGED <<log, itemOf>>
    BY <1>3, EveryBegin DEF BeginsFit, Begin
  <2> QED
    BY <2>1, NothingCommitted
<1>4. ASSUME NEW u \in Users, Abort(u) \/ ChangePermission(u)
      PROVE  UNCHANGED <<EntityStates, ItemStates>>
  BY <1>4, NothingCommitted DEF Abort, ChangePermission
<1> QED
  BY <1>1, <1>2, <1>3, <1>4, NextCases

(***************************************************************************)
(* When requests commit in the order they began in, the revisions and the  *)
(* state_valid_at views implement one current state per account,           *)
(* transaction and position: every commit replaces the state of its entity *)
(* and of its positions at one instant, nothing on show names a deleted    *)
(* account, and the clearing accounts can be settled.                      *)
(***************************************************************************)
THEOREM OrderedImplementsAbstract == OrderedSpec => ImplementsAbstract
<1>1. OrderedInv => StatesShown
  BY StatesAreShown
<1>2. OrderedInv /\ ReferencesLive => Abstract!NamesOnlyLive /\ Abstract!Settleable
  BY NamesLive, CanBeSettled
<1>3. OrderedInv /\ Init => Abstract!Init
  BY Initially
<1> QED
  BY <1>1, <1>2, <1>3, StepImplements, OrderedInvariant, OrderedReferencesLive, PTL
     DEF OrderedSpec, ImplementsAbstract, Abstract!Spec
=============================================================================
