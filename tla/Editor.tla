------------------------------- MODULE Editor -------------------------------
(***************************************************************************)
(* The editor of an expense in the Angular frontend, the store it is       *)
(* filled from, and their requests.                                        *)
(*                                                                         *)
(* The browser shows one page at a time: the page of the group, under the  *)
(* shell, or the editor, outside of it.  A page that is left is destroyed, *)
(* its requests go on: nothing unsubscribes them, so their answers still   *)
(* reach the store and the router.  The server is any sequence of writes,  *)
(* by this browser and by others; the content of an expense is the number  *)
(* of the write that left it so, negative when that write deleted it.      *)
(***************************************************************************)
EXTENDS Integers, FiniteSets

CONSTANTS
  Expenses,   \* ids the server can give
  MaxRev,     \* bound: writes the server records
  MaxPages    \* bound: how often the editor is opened or the page reloaded
ASSUME Bounds ==
  /\ Expenses # {} /\ Expenses \subseteq Nat \ {0}
  /\ MaxRev \in Nat /\ MaxPages \in Nat \ {0}

VARIABLES
  server,     \* what is recorded
  store,      \* Store.data for the group
  page,       \* what is on show
  form,       \* the signals of the editor
  saving,     \* Editor.saving
  notice,     \* Store.notice is set
  reads, writes,        \* requests under way
  recorded, lost, stranded  \* history: what the server recorded for a page, the
                            \* pages that missed that, those whose refresh failed

pageVars == <<page, form, saving>>
history == <<recorded, lost, stranded>>
vars == <<server, store, pageVars, notice, reads, writes, history>>

New == 0      \* the route .../expenses/new
Pages == 1..MaxPages
NoData == [rev |-> -1, content |-> [e \in Expenses |-> 0]]
Loaded == store # NoData
\* What the form can be filled from: an expense that was read, deleted or not;
\* for a new one the people, whom every group is taken to have.
Fillable == {New} \cup {e \in Expenses : store.content[e] # 0}
Blank == [filled |-> FALSE, typed |-> FALSE]

\* The two ways the store is read: a load, of the shell or of an editor that
\* finds the store empty, and the refresh that follows a write.
Read(p, why) == [page |-> p, why |-> why, data |-> NoData]

\* navigate(["/groups", gid]) from the editor: the shell is built anew, and
\* loads the store, which withdraws the notice.
ToGroup(asked) ==
  /\ page' = [page EXCEPT !.kind = "group"]
  /\ form' = Blank
  /\ saving' = FALSE /\ notice' = FALSE
  /\ reads' = asked \cup {Read(page.id, "shell")}

-----------------------------------------------------------------------------
Init ==
  /\ server = [rev |-> 0, content |-> [e \in Expenses |-> 0]]
  /\ store = NoData
  /\ page = [id |-> 1, kind |-> "group", expense |-> New]
  /\ form = Blank /\ saving = FALSE /\ notice = FALSE
  /\ reads = {Read(1, "shell")} /\ writes = {}
  /\ recorded = {} /\ lost = {} /\ stranded = {}

\* openExpense and newExpense of the group page, which shows what is not
\* deleted.
OpenEditor(e) ==
  /\ page.kind = "group" /\ page.id < MaxPages
  /\ Loaded
  /\ e \in {New} \cup {d \in Expenses : store.content[d] > 0}
  /\ page' = [id |-> page.id + 1, kind |-> "editor", expense |-> e]
  /\ form' = Blank /\ saving' = FALSE
  /\ UNCHANGED <<server, store, notice, reads, writes, history>>

\* The browser reloads: nobody waits for the requests that are under way.
Reload ==
  /\ page.id < MaxPages
  /\ page' = [page EXCEPT !.id = @ + 1]
  /\ form' = Blank /\ saving' = FALSE /\ notice' = FALSE
  /\ store' = NoData
  /\ reads' = {Read(page.id + 1, IF page.kind = "editor" THEN "editor" ELSE "shell")}
  /\ writes' = {[w EXCEPT !.heard = FALSE] : w \in {v \in writes : v.state = "sent"}}
  /\ UNCHANGED <<server, history>>

\* Slip: the form is filled whenever there is something to fill it with.
SlipFill ==
  /\ page.kind = "editor"
  /\ Loaded
  /\ page.expense \in Fillable
  /\ form' = [filled |-> TRUE, typed |-> form.typed /\ page.expense = New]
  /\ UNCHANGED <<server, store, page, saving, notice, reads, writes, history>>
\* The effect that fills the form, once.  What was typed before stays in a
\* new expense, where only payer and shares are set.
Fill ==
  /\ page.kind = "editor" /\ ~form.filled
  /\ Loaded
  /\ page.expense \in Fillable
  /\ form' = [filled |-> TRUE, typed |-> form.typed /\ page.expense = New]
  /\ UNCHANGED <<server, store, page, saving, notice, reads, writes, history>>

\* Any input; the form takes it whether it is filled or not.
Type ==
  /\ page.kind = "editor"
  /\ form' = [form EXCEPT !.typed = TRUE]
  /\ UNCHANGED <<server, store, page, saving, notice, reads, writes, history>>

Send(op) ==
  /\ saving' = TRUE /\ notice' = FALSE
  /\ writes' = writes \cup {[page |-> page.id, op |-> op, expense |-> page.expense,
                             state |-> "sent", heard |-> TRUE]}

\* A form nobody has filled has no participants and does not validate; nor does
\* a new expense without a name.
Valid == form.filled /\ (page.expense = New => form.typed)
\* Slip: a second click is not held back.
SlipSave ==
  /\ page.kind = "editor" /\ Valid
  /\ Send(IF page.expense = New THEN "create" ELSE "update")
  /\ UNCHANGED <<server, store, page, form, reads, history>>
\* Slip: the refresh does not wait for the answer.
SlipEagerSave ==
  /\ page.kind = "editor" /\ Valid /\ ~saving
  /\ Send(IF page.expense = New THEN "create" ELSE "update")
  /\ reads' = reads \cup {Read(page.id, "saved")}
  /\ UNCHANGED <<server, store, page, form, history>>
Save ==
  /\ page.kind = "editor" /\ Valid /\ ~saving
  /\ Send(IF page.expense = New THEN "create" ELSE "update")
  /\ UNCHANGED <<server, store, page, form, reads, history>>

Delete ==
  /\ page.kind = "editor" /\ page.expense # New /\ ~saving
  /\ Send("delete")
  /\ UNCHANGED <<server, store, page, form, reads, history>>

Close ==
  /\ page.kind = "editor"
  /\ ToGroup(reads)
  /\ UNCHANGED <<server, store, writes, history>>

-----------------------------------------------------------------------------
(* The server, which other members write to as well.                       *)
Free == {e \in Expenses : server.content[e] = 0}
Written(op, e) ==
  [rev |-> server.rev + 1,
   content |-> [server.content EXCEPT ![e] = IF op = "delete" THEN -(server.rev + 1)
                                             ELSE server.rev + 1]]

\* Ids are serial.  An update revives; what is deleted cannot be deleted again.
Allowed(op, e) ==
  /\ op = "create" => e \in Free /\ \A d \in Free : e <= d
  /\ op = "update" => e \notin Free
  /\ op = "delete" => server.content[e] > 0

Record(w) ==
  /\ w.state = "sent" /\ server.rev < MaxRev
  /\ \E e \in IF w.op = "create" THEN Expenses ELSE {w.expense} :
       Allowed(w.op, e) /\ server' = Written(w.op, e)
  /\ writes' = (writes \ {w}) \cup
                 (IF w.heard THEN {[w EXCEPT !.state = "ok"]} ELSE {})
  /\ recorded' = recorded \cup {[page |-> w.page, op |-> w.op, heard |-> w.heard,
                                 rev |-> server'.rev]}
  /\ lost' = IF w.heard THEN lost ELSE lost \cup {w.page}
  /\ UNCHANGED <<store, pageVars, notice, reads, stranded>>

OthersWrite ==
  /\ server.rev < MaxRev
  /\ \E op \in {"create", "update", "delete"}, e \in Expenses :
       Allowed(op, e) /\ server' = Written(op, e)
  /\ UNCHANGED <<store, pageVars, notice, reads, writes, history>>

ReadServer(r) ==
  /\ r.data = NoData
  /\ reads' = (reads \ {r}) \cup {[r EXCEPT !.data = server]}
  /\ UNCHANGED <<server, store, pageVars, notice, writes, history>>

-----------------------------------------------------------------------------
(* The answers.                                                            *)
\* Slip: the answer has no consequence.
SlipIgnored(w) ==
  /\ w.state = "ok"
  /\ writes' = writes \ {w}
  /\ UNCHANGED <<server, store, pageVars, notice, reads, history>>
WriteAnswered(w) ==
  /\ w.state = "ok"
  /\ writes' = writes \ {w}
  /\ reads' = reads \cup {Read(w.page, "saved")}
  /\ UNCHANGED <<server, store, pageVars, notice, history>>

\* The server refuses the request or never has it; it has it, unheard (bound:
\* one such request of a kind); or the answer is lost.
WriteFails(w) ==
  LET unheard == [w EXCEPT !.heard = FALSE] IN
  /\ w.heard
  /\ saving' = (saving /\ w.page # page.id)
  /\ notice' = TRUE
  /\ \/ writes' = writes \ {w}
     \/ w.state = "sent" /\ unheard \notin writes /\ writes' = (writes \ {w}) \cup {unheard}
  /\ lost' = IF w.state = "ok" THEN lost \cup {w.page} ELSE lost
  /\ UNCHANGED <<server, store, page, form, reads, recorded, stranded>>

\* mergeGroup; the refresh after a write then closes the editor, whichever
\* editor is open.
ReadAnswered(r) ==
  /\ r.data # NoData
  /\ store' = r.data
  /\ IF r.why = "saved" /\ page.kind = "editor" THEN ToGroup(reads \ {r})
     ELSE reads' = reads \ {r} /\ UNCHANGED <<pageVars, notice>>
  /\ UNCHANGED <<server, writes, history>>

\* load tells the user; nobody handles the error of a refresh.
ReadFails(r) ==
  /\ reads' = reads \ {r}
  /\ notice' = IF r.why = "saved" THEN notice ELSE TRUE
  /\ stranded' = IF r.why = "saved" THEN stranded \cup {r.page} ELSE stranded
  /\ UNCHANGED <<server, store, pageVars, writes, recorded, lost>>

-----------------------------------------------------------------------------
User == (\E e \in Expenses \cup {New} : OpenEditor(e)) \/ Type \/ Save \/ Delete \/ Close
WriteEnds(w) == WriteAnswered(w) \/ WriteFails(w)
ReadGoesOn(r) == ReadServer(r) \/ ReadAnswered(r) \/ ReadFails(r)

Next ==
  \/ User \/ Reload \/ Fill \/ OthersWrite
  \/ \E w \in writes : Record(w) \/ WriteEnds(w)
  \/ \E r \in reads : ReadGoesOn(r)

\* Every request of the browser is answered or fails.
Fairness ==
  \A p \in Pages :
    /\ WF_vars(\E w \in writes : w.page = p /\ WriteEnds(w))
    /\ WF_vars(\E r \in reads : r.page = p /\ ReadGoesOn(r))

Spec == Init /\ [][Next]_vars /\ Fairness

-----------------------------------------------------------------------------
\* However often Save is pressed, an editor creates its expense once, but for
\* an answer that never came although the server has, or later gets, the
\* request: then the user is told it failed, and saves again.
CreatedOnce ==
  \A c, d \in recorded :
    c.op = "create" /\ d.op = "create" /\ c.page = d.page => c = d \/ c.page \in lost

\* Once filled, a form belongs to the user: data that arrives later changes
\* nothing in it.  It goes when the user closes the editor or reloads, or when
\* a save is done.
FormIsTheUsers ==
  [][form.filled /\ form' # form =>
       \/ form' = [form EXCEPT !.typed = TRUE]
       \/ /\ form' = Blank
          /\ \/ Close \/ Reload
             \/ \E r \in reads : r.why = "saved" /\ ReadAnswered(r)]_vars

\* The refresh that follows a save has seen the save: when the editor closes,
\* the group page shows what was just written.
SavedIsRead ==
  \A r \in reads, c \in recorded :
    r.why = "saved" /\ r.data # NoData /\ c.page = r.page /\ c.heard
      => r.data.rev >= c.rev

\* No save ends in silence (store.ts:47): the editor closes or the user is told,
\* unless the refresh after the save fails, which leaves the editor saving.
NoSilentEnd ==
  \A p \in Pages :
    saving /\ page.id = p
      ~> \/ page.id # p \/ page.kind = "group"
         \/ ~saving /\ notice
         \/ p \in stranded
=============================================================================
