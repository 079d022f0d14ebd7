------------------------------- MODULE Drafts -------------------------------
(***************************************************************************)
(* The web app's drafts of the transactions and accounts of one group: the *)
(* two redux slices, the pages that dispatch to them, the requests they    *)
(* send, and the server these change.                                      *)
(*                                                                         *)
(* One browser tab with one user.  Reducers run at once; a request is      *)
(* carried out by the server some time after it was sent, and answered     *)
(* some time after that, in any order; it may fail before or after it was  *)
(* carried out.  A reload of the page keeps the slices, which are          *)
(* persisted, and drops every callback.  Other members write as well.      *)
(***************************************************************************)
EXTENDS Integers, Sequences, FiniteSets

CONSTANTS
  Followed,   \* sets of kinds: one of them is followed in a behaviour
  Slots,      \* the requests that can be under way
  MaxEdits,   \* bound: fields typed or chosen, by this user and by others
  MaxItems,   \* bound: changes to positions and files
  MaxSends,   \* bound: requests this user starts
  MaxVisits,  \* bound: how often the group is left for another page, or reloaded
  Budget      \* bound: the sum of these
ASSUME Bounds ==
  /\ Followed # {} /\ Followed \subseteq SUBSET {"transaction", "account"}
  /\ Slots \subseteq Nat \ {0} /\ IsFiniteSet(Slots) /\ Budget \in Nat
  /\ {MaxEdits, MaxItems, MaxSends, MaxVisits} \subseteq Nat

VARIABLES
  kinds,      \* what is followed; the two slices share no more than the page
  slices,     \* state.transactions and state.accounts
  server,     \* what is stored: id i of a kind is the i-th of its sequence
  reqs,       \* the requests under way, by slot
  inGroup,    \* the route is one of the group's
  mounted,    \* Group has run its effect for this visit
  joined,     \* the group is among state.groups
  edits, items, sends, visits,  \* counters, for the bounds
  typed,      \* history: each draft as its user last left it
  raced       \* history: drafts the user went on with while an answer was due

T == INSTANCE TransactionSlice
A == INSTANCE AccountSlice

counters == <<edits, items, sends, visits>>
history == <<typed, raced>>
nav == <<kinds, inGroup, mounted, joined>>
vars == <<slices, server, reqs, nav, counters, history>>

Known(es) == DOMAIN es.byId
Blank == T!Blank

\* What the user sees of a transaction or an account.
View(k, t) ==
  [fields |-> t.fields,
   items |-> IF k = "account" THEN {}
             ELSE {t.positions.byId[p].what : p \in T!selectPositions(t)}
                    \cup {t.files.byId[f].what : f \in T!selectFiles(t)}]

\* Group shows its pages once both lists have been answered for.
Ready == \A k \in kinds : slices[k].status \in {"initialized", "failed"}
Shown == joined /\ mounted /\ Ready

Selected(k, id) == IF k = "account" THEN A!selectAccountById(slices[k], id)
                   ELSE T!selectTransactionById(slices[k], id)
Kept(k) == Known(slices[k].wip) \cup Known(slices[k].saved)
\* The routes within the group are left out: from each the user gets to the page
\* of whatever the lists show, and no reducer asks for the route.
On(k, id) == Shown /\ id \in Kept(k) /\ ~Selected(k, id).deleted
Editing(k, id) == On(k, id) /\ Selected(k, id).is_wip
Stamp == edits + items + 1   \* of the next thing that is changed

Count(counter, bound) ==
  counter < bound /\ edits + items + sends + visits < Budget /\ counter' = counter + 1
CountEdit == Count(edits, MaxEdits) /\ UNCHANGED items
CountItem == Count(items, MaxItems) /\ UNCHANGED edits
Ids == -MaxEdits .. MaxSends + 1

-----------------------------------------------------------------------------
(* Requests                                                                 *)

Free == Slots \ DOMAIN reqs
NextFree(rs) == CHOOSE n \in Slots \ DOMAIN rs : \A m \in Slots \ DOMAIN rs : n <= m
NoBody == [is_wip |-> FALSE]
Request(kind, k, id, body) ==
  [kind |-> kind, of |-> k, id |-> id, body |-> body, stage |-> "sent",
   answer |-> 0, content |-> NoBody, overtaken |-> FALSE, heard |-> TRUE, stamp |-> Stamp]
With(rs, n, r) == [m \in DOMAIN rs \cup {n} |-> IF m = n THEN r ELSE rs[m]]
Without(rs, n) == [m \in DOMAIN rs \ {n} |-> rs[m]]

\* The user starts a request, in the lowest free slot.
Start(r) ==
  /\ Count(sends, MaxSends) /\ Free # {}
  /\ reqs' = With(reqs, NextFree(reqs), r)

\* An answer that may replace this draft, or end it, is due.
Due(k, id) == \E n \in DOMAIN reqs :
  reqs[n].kind \in {"save", "rates", "delete"} /\ reqs[n].of = k /\ reqs[n].id = id
Raced(k, id) == IF Due(k, id) THEN raced \cup {<<k, id>>} ELSE raced

Typed(k, id, view) ==
  [i \in DOMAIN typed \cup {<<k, id>>} |-> IF i = <<k, id>> THEN view ELSE typed[i]]
Untyped(k, id) == [i \in DOMAIN typed \ {<<k, id>>} |-> typed[i]]

-----------------------------------------------------------------------------
(* The server.  Creating and updating store what the body says; an update   *)
(* or a deletion of what is deleted is refused.                             *)

Apply(k, old, t) ==
  IF k = "account" THEN [old EXCEPT !.fields = t.fields, !.ver = @ + 1]
  ELSE LET b == T!saveBody(t)
           row(p) == [what |-> b.positions[p].what, deleted |-> b.positions[p].deleted]
           doc(f) == [what |-> b.files[f].what, deleted |-> b.files[f].deleted]
       IN  [old EXCEPT
              !.fields = b.fields, !.ver = @ + 1,
              !.positions = [p \in DOMAIN @ |-> IF p \in b.changed_positions THEN row(p) ELSE @[p]]
                              \o [i \in DOMAIN b.new_positions |-> row(b.new_positions[i])],
              !.files = [f \in DOMAIN @ |-> IF f \in b.changed_files THEN doc(f) ELSE @[f]]
                          \o [i \in DOMAIN b.new_files |-> doc(b.new_files[i])]]

Fresh(k, id) ==
  LET base == [fields |-> <<>>, deleted |-> FALSE, ver |-> 0, origin |-> id]
  IN  IF k = "account" THEN base
      ELSE [fields |-> <<>>, deleted |-> FALSE, ver |-> 0, origin |-> id,
            positions |-> <<>>, files |-> <<>>]

Stored(k, list) == server' = [server EXCEPT ![k] = list]

Execute(n) ==
  LET r == reqs[n]  list == IF r.of \in kinds THEN server[r.of] ELSE <<>>
      \* The answer is what is stored now, under its id; nobody hears it after a reload.
      done(id) == reqs' = IF ~r.heard THEN Without(reqs, n)
                          ELSE [reqs EXCEPT ![n].stage = "done", ![n].answer = id,
                                  ![n].content = IF id = 0 THEN list ELSE server'[r.of][id]]
  IN  /\ r.stage = "sent" /\ r.kind # "rates"
      /\ \/ /\ r.kind = "save" /\ r.id < 0
            /\ Stored(r.of, Append(list, Apply(r.of, Fresh(r.of, r.id), r.body)))
            /\ done(Len(list) + 1)
         \/ /\ r.kind = "save" /\ r.id > 0 /\ ~list[r.id].deleted
            /\ Stored(r.of, [list EXCEPT ![r.id] = Apply(r.of, @, r.body)])
            /\ done(r.id)
         \/ /\ r.kind = "delete" /\ ~list[r.id].deleted
            /\ Stored(r.of, [list EXCEPT ![r.id].deleted = TRUE, ![r.id].ver = @ + 1])
            /\ done(r.id)
         \/ /\ r.kind \in {"load", "leave"} /\ UNCHANGED server
            /\ done(0)
      /\ UNCHANGED <<slices, nav, counters, history>>

-----------------------------------------------------------------------------
(* The page of the group                                                    *)

\* The effect of Group: both lists are asked for, whatever is there.
MountGroup ==
  /\ inGroup /\ joined /\ ~mounted /\ Cardinality(Free) >= Cardinality(kinds)
  /\ mounted' = TRUE
  /\ slices' = [k \in kinds |->
                  IF k = "account" THEN A!fetchPending(A!setStatus(slices[k], "loading"))
                  ELSE T!fetchPending(T!setStatus(slices[k], "loading"))]
  /\ reqs' = LET ask(rs, k) == IF k \notin kinds THEN rs
                               ELSE With(rs, NextFree(rs), Request("load", k, 0, NoBody))
             IN  ask(ask(reqs, "account"), "transaction")
  /\ UNCHANGED <<kinds, server, inGroup, joined, counters, history>>

Depart ==
  /\ inGroup /\ Count(visits, MaxVisits)
  /\ inGroup' = FALSE /\ mounted' = FALSE
  /\ UNCHANGED <<kinds, slices, server, reqs, joined, edits, items, sends, history>>
Return ==
  /\ ~inGroup /\ joined /\ inGroup' = TRUE
  /\ UNCHANGED <<kinds, slices, server, reqs, mounted, joined, counters, history>>

\* The slices are read back; of the requests only what they do remains.
Reload ==
  /\ Count(visits, MaxVisits)
  /\ mounted' = FALSE
  /\ LET kept == {n \in DOMAIN reqs : reqs[n].kind \in {"save", "delete", "leave"}
                                        /\ reqs[n].stage = "sent"}
     IN  reqs' = [n \in kept |-> [reqs[n] EXCEPT !.heard = FALSE]]
  /\ raced' = raced \cup {<<reqs[n].of, reqs[n].id>> :
                           n \in {m \in DOMAIN reqs : reqs[m].kind = "save"}}
  /\ UNCHANGED <<kinds, slices, server, inGroup, joined, edits, items, sends, typed>>

-----------------------------------------------------------------------------
(* What the user does                                                       *)

Names(k, n) == IF k = "account" THEN [text |-> n] ELSE [text |-> n, currency |-> 0]
SliceOf(k, s) == slices' = [slices EXCEPT ![k] = s]

Create(k) ==
  LET id == slices[k].nextId  fields == Names(k, Stamp)
  IN  /\ Shown /\ CountEdit
      /\ SliceOf(k, IF k = "account" THEN A!createFulfilled(slices[k], fields)
                    ELSE T!createFulfilled(slices[k], fields))
      /\ typed' = Typed(k, id, [fields |-> fields, items |-> {}])
      /\ UNCHANGED <<server, reqs, nav, sends, visits, raced>>

CopyAccount(id) ==
  LET k == "account"  fields == Names(k, Stamp)
  IN  /\ Shown /\ CountEdit /\ id \in A!selectGroupAccounts(slices[k])
      /\ SliceOf(k, A!copyAccount(slices[k], id, fields))
      /\ typed' = Typed(k, slices[k].nextId, [fields |-> fields, items |-> {}])
      /\ UNCHANGED <<server, reqs, nav, sends, visits, raced>>

StartEdit(k, id) ==
  /\ On(k, id) /\ ~Selected(k, id).is_wip
  /\ SliceOf(k, IF k = "account" THEN A!editStarted(slices[k], id)
                ELSE T!editStarted(slices[k], id))
  /\ typed' = Typed(k, id, View(k, slices[k].saved.byId[id]))
  /\ raced' = Raced(k, id)
  /\ UNCHANGED <<server, reqs, nav, counters>>

\* One thing is changed in the draft on show; view is the draft the user means.
Edit(k, id, s, view) ==
  /\ Editing(k, id)
  /\ SliceOf(k, s)
  /\ typed' = Typed(k, id, view)
  /\ raced' = Raced(k, id)
  /\ UNCHANGED <<server, reqs, nav, sends, visits>>

Mine(k, id) == typed[<<k, id>>]
Meant(k, id) == IF <<k, id>> \in DOMAIN typed THEN Mine(k, id) ELSE View(k, Selected(k, id))

\* pushChanges: a field, with the rest of what is on show.
EditField(k, id) ==
  LET t == [Selected(k, id) EXCEPT !.fields.text = Stamp]
  IN  CountEdit /\
      Edit(k, id, IF k = "account" THEN A!wipUpdated(slices[k], id, t)
                  ELSE T!wipUpdated(slices[k], id, t),
           [Meant(k, id) EXCEPT !.fields.text = Stamp])

Tx == slices.transaction
Rows(id) == T!selectPositions(Selected("transaction", id))
Files(id) == T!selectFiles(Selected("transaction", id))
RowIs(id, p) == Selected("transaction", id).positions.byId[p].what
FileIs(id, f) == Selected("transaction", id).files.byId[f].what
EditItems(id, s, gone, come) ==
  CountItem /\
  Edit("transaction", id, s,
       LET meant == Meant("transaction", id)
       IN  [meant EXCEPT !.items = (@ \ gone) \cup come])
\* What is still seen when a row or a file goes.
WithoutRow(id, p) ==
  {RowIs(id, q) : q \in Rows(id) \ {p}} \cup {FileIs(id, f) : f \in Files(id)}
WithoutFile(id, f) ==
  {RowIs(id, p) : p \in Rows(id)} \cup {FileIs(id, g) : g \in Files(id) \ {f}}

\* The empty row below the list, or the row of a position, is typed into.
EditRow(id, p) ==
  IF p \in Rows(id)
  THEN EditItems(id, T!wipPositionUpdated(Tx, id, p, Stamp),
                 {RowIs(id, p)} \ WithoutRow(id, p), {Stamp})
  ELSE EditItems(id, T!wipPositionUpdated(Tx, id, p, Stamp), {}, {Stamp})
\* A row is copied, or, on a small screen, a blank one is added to be filled.
AddRow(id, what) == EditItems(id, T!wipPositionAdded(Tx, id, what), {}, {what})
DeleteRow(id, p) ==
  EditItems(id, T!positionDeleted(Tx, id, p), {RowIs(id, p)} \ WithoutRow(id, p), {})
Upload(id) == EditItems(id, T!wipFileAdded(Tx, id, Stamp), {}, {Stamp})
DeleteFile(id, f) == 
  EditItems(id, T!wipFileDeleted(Tx, id, f), {FileIs(id, f)} \ WithoutFile(id, f), {})

\* A currency is chosen, or its rate asked for again: the answer will push the
\* transaction that is on show now.
AskRate(id) ==
  /\ Editing("transaction", id) /\ CountEdit
  /\ Start(Request("rates", "transaction", id, Selected("transaction", id)))
  /\ raced' = Raced("transaction", id)
  /\ UNCHANGED <<slices, server, nav, visits, typed>>

\* The values are taken to pass the validators: a refused save changes nothing.
Save(k, id) ==
  /\ Editing(k, id)
  /\ Start(Request("save", k, id, slices[k].wip.byId[id]))
  /\ raced' = Raced(k, id)
  /\ UNCHANGED <<slices, server, nav, edits, items, visits, typed>>

Discard(k, id) ==
  /\ Editing(k, id)
  /\ SliceOf(k, IF k = "account" THEN A!discardChange(slices[k], id)
                ELSE T!discardChange(slices[k], id))
  /\ typed' = Untyped(k, id) /\ raced' = Raced(k, id)
  /\ UNCHANGED <<server, reqs, nav, counters>>

\* Deleting asks the server only about what it is known to have.
Delete(k, id) ==
  /\ On(k, id) /\ raced' = Raced(k, id)
  /\ \/ /\ id \in Known(slices[k].saved)
        /\ Start(Request("delete", k, id, NoBody))
        /\ UNCHANGED <<slices, typed>>
     \/ /\ id \notin Known(slices[k].saved)
        /\ SliceOf(k, IF k = "account" THEN A!deleteLocal(slices[k], id)
                      ELSE T!deleteLocal(slices[k], id))
        /\ typed' = Untyped(k, id)
        /\ UNCHANGED <<reqs, sends>>
  /\ UNCHANGED <<server, nav, edits, items, visits>>

Leave ==
  /\ Shown
  /\ Start(Request("leave", "none", 0, NoBody))
  /\ UNCHANGED <<slices, server, nav, edits, items, visits, history>>

\* Somebody else changes what is stored.
OtherWrites(k, id) ==
  /\ CountEdit
  /\ ~server[k][id].deleted
  /\ Stored(k, [server[k] EXCEPT ![id].fields.text = Stamp, ![id].ver = @ + 1])
  /\ UNCHANGED <<slices, reqs, nav, sends, visits, history>>

-----------------------------------------------------------------------------
(* Answers                                                                  *)

\* Request n is done; lists of this kind that are still due are overtaken.
Delivered(n) ==
  reqs' = [m \in DOMAIN reqs \ {n} |->
             [reqs[m] EXCEPT !.overtaken = @ \/ (reqs[m].of = reqs[n].of /\ reqs[n].kind # "rates")]]

LoadAnswered(n) ==
  LET k == reqs[n].of
  IN  /\ reqs[n].kind = "load" /\ reqs[n].stage = "done" /\ Delivered(n)
      /\ SliceOf(k, IF k = "account" THEN A!fetchFulfilled(slices[k], reqs[n].content)
                    ELSE T!fetchFulfilled(slices[k], reqs[n].content))
      /\ UNCHANGED <<server, nav, counters, history>>

SaveAnswered(n) ==
  LET r == reqs[n]  k == r.of
  IN  /\ r.kind = "save" /\ r.stage = "done" /\ Delivered(n)
      /\ SliceOf(k, IF k = "account" THEN A!saveFulfilled(slices[k], r.id, r.answer, r.content)
                    ELSE T!saveFulfilled(slices[k], r.id, r.answer, r.content))
      /\ typed' = IF <<k, r.id>> \in DOMAIN typed /\ Mine(k, r.id) = View(k, r.body)
                  THEN Untyped(k, r.id) ELSE typed
      /\ UNCHANGED <<server, nav, counters, raced>>

DeleteAnswered(n) ==
  LET r == reqs[n]  k == r.of
  IN  /\ r.kind = "delete" /\ r.stage = "done" /\ Delivered(n)
      /\ SliceOf(k, IF k = "account" THEN A!deleteFulfilled(slices[k], r.id, r.content)
                    ELSE T!deleteFulfilled(slices[k], r.id, r.content))
      /\ typed' = Untyped(k, r.id)
      /\ UNCHANGED <<server, nav, counters, raced>>

\* The rate, or the failure to get it, is followed by the push of the
\* transaction as it was when the rate was asked for.
RateAnswered(n) ==
  LET r == reqs[n]
      t == [r.body EXCEPT !.fields.currency = r.stamp]
      item == <<r.of, r.id>>
  IN  /\ r.kind = "rates" /\ Delivered(n)
      /\ SliceOf(r.of, T!wipUpdated(slices[r.of], r.id, t))
      /\ typed' = IF item \in DOMAIN typed
                  THEN [typed EXCEPT ![item].fields.currency = r.stamp] ELSE typed
      /\ UNCHANGED <<server, nav, counters, raced>>

LeaveAnswered(n) ==
  /\ reqs[n].kind = "leave" /\ reqs[n].stage = "done" /\ Delivered(n)
  /\ slices' = [k \in kinds |-> IF k = "account" THEN A!leaveGroupFulfilled(slices[k])
                               ELSE T!leaveGroupFulfilled(slices[k])]
  /\ joined' = FALSE /\ inGroup' = FALSE /\ mounted' = FALSE
  /\ typed' = <<>>
  /\ UNCHANGED <<kinds, server, counters, raced>>

\* The server refuses, or the connection breaks, before or after the server
\* has done what it was asked.
Fails(n) ==
  LET r == reqs[n]  k == r.of
  IN  /\ r.kind # "rates" /\ (r.kind = "load" => r.stage = "sent")
      /\ reqs' = Without(reqs, n)
      /\ IF r.kind = "load"
         THEN SliceOf(k, IF k = "account" THEN A!fetchRejected(slices[k])
                         ELSE T!fetchRejected(slices[k]))
         ELSE UNCHANGED slices
      /\ raced' = IF r.kind = "save" /\ r.stage = "done" THEN raced \cup {<<k, r.id>>} ELSE raced
      /\ UNCHANGED <<server, nav, counters, typed>>

-----------------------------------------------------------------------------
\* What is stored at first: an account, a transaction with a position and a file.
Stored1(k) ==
  LET base == [fields |-> [text |-> 0], deleted |-> FALSE, ver |-> 0, origin |-> 0]
  IN  IF k = "account" THEN base
      ELSE [fields |-> [text |-> 0, currency |-> 0], deleted |-> FALSE, ver |-> 0, origin |-> 0,
            positions |-> <<[what |-> -1, deleted |-> FALSE]>>,
            files |-> <<[what |-> -2, deleted |-> FALSE]>>]
Init ==
  /\ kinds \in Followed
  /\ slices = [k \in kinds |-> IF k = "account" THEN A!initialState ELSE T!initialState]
  /\ server = [k \in kinds |-> <<Stored1(k)>>]
  /\ reqs = <<>>
  /\ inGroup = TRUE /\ mounted = FALSE /\ joined = TRUE
  /\ edits = 0 /\ items = 0 /\ sends = 0 /\ visits = 0
  /\ typed = <<>> /\ raced = {}

EditTransaction(id) ==
  \/ AskRate(id)
  \/ /\ Editing("transaction", id)
     /\ \/ \E p \in Rows(id) \cup {Tx.nextPosition} : EditRow(id, p)
        \/ \E p \in Rows(id) : AddRow(id, RowIs(id, p)) \/ DeleteRow(id, p)
        \/ AddRow(id, Blank)
        \/ Upload(id)
        \/ \E f \in Files(id) : DeleteFile(id, f)
User ==
  \/ Depart \/ Return \/ Reload \/ Leave
  \/ \E k \in kinds : Create(k)
  \/ "account" \in kinds /\ \E id \in Kept("account") : CopyAccount(id)
  \/ "transaction" \in kinds /\ \E id \in Kept("transaction") : EditTransaction(id)
  \/ \E k \in kinds : \E id \in Kept(k) :
       On(k, id) /\ (StartEdit(k, id) \/ EditField(k, id) \/ Save(k, id)
                       \/ Discard(k, id) \/ Delete(k, id))
Answered(n) ==
  n \in DOMAIN reqs /\ (LoadAnswered(n) \/ SaveAnswered(n) \/ DeleteAnswered(n)
                          \/ RateAnswered(n) \/ LeaveAnswered(n) \/ Fails(n))
Executed(n) == n \in DOMAIN reqs /\ Execute(n)
Next ==
  \/ User \/ MountGroup
  \/ \E k \in kinds : \E id \in DOMAIN server[k] : OtherWrites(k, id)
  \/ \E n \in Slots : Executed(n) \/ Answered(n)

\* Every request ends: its promise is settled by the answer, or by the browser
\* when there is none; and an effect runs once its component is shown.
Fairness == WF_vars(MountGroup) /\ \A n \in Slots : WF_vars(Executed(n) \/ Answered(n))
Spec == Init /\ [][Next]_vars /\ Fairness

-----------------------------------------------------------------------------
(* Properties *)

\* Both slices list what they hold, and each once, but for drafts of the race
\* that EditsLostOnlyByRace names.  (utils.ts: addEntity, removeEntity, and the
\* three reducers that push ids themselves)
SlicesListed == \A k \in kinds :
  /\ T!ListedOnce(slices[k].saved)
  /\ \A id \in Known(slices[k].wip) : <<k, id>> \notin raced =>
       Cardinality({i \in DOMAIN slices[k].wip.ids : slices[k].wip.ids[i] = id}) = 1
  /\ \A i \in DOMAIN slices[k].wip.ids : slices[k].wip.ids[i] \in Known(slices[k].wip)

EditsStayIn(k, id) ==
  /\ <<k, id>> \in DOMAIN typed <=> id \in Known(slices[k].wip)
  /\ id \in Known(slices[k].wip) => View(k, slices[k].wip.byId[id]) = Mine(k, id)

\* A draft holds what its user left in it until it is saved, discarded or
\* deleted, unless the user went on with it while an answer to a save or about
\* a rate was due, or the answer to a save was lost.
EditsLostOnlyByRace ==
  \A k \in kinds, id \in Ids : <<k, id>> \notin raced => EditsStayIn(k, id)

\* A draft becomes one stored transaction or account, and is gone once the
\* answer has come; a second one takes a second save before the first answer.
OneOfEach == \A k \in kinds :
  /\ \A i, j \in DOMAIN server[k] :
       server[k][i].origin = server[k][j].origin /\ i # j => <<k, server[k][i].origin>> \in raced
  /\ \A i \in DOMAIN server[k] :
       LET d == server[k][i].origin
       IN  d \in Known(slices[k].wip) /\ ~Due(k, d) => <<k, d>> \in raced

\* What the store holds as saved goes back to an older version, or goes, only
\* by an answer that was due when a later one came, or with the group.
BackOnlyByOvertaking == [][\A k \in kinds : \A id \in Known(slices[k].saved) :
  \/ id \in Known(slices'[k].saved) /\ slices'[k].saved.byId[id].ver >= slices[k].saved.byId[id].ver
  \/ joined /\ ~joined'
  \/ \E n \in DOMAIN reqs \ DOMAIN reqs' : reqs[n].of = k /\ reqs[n].overtaken]_vars

\* While the page of the group shows that it loads, the answer that ends this is
\* due, and with Fairness comes.  (Group.tsx: the effect, and the two lists)
LoadingIsAnswered ==
  mounted => \A k \in kinds : T!HasGroup(slices[k]) /\
    (slices[k].status = "loading" =>
       \E n \in DOMAIN reqs : reqs[n].kind = "load" /\ reqs[n].of = k /\ reqs[n].heard)
=============================================================================
