---------------------------- MODULE EditorProofs ----------------------------
(***************************************************************************)
(* Theorems about Editor, for every set of expenses and every bound.       *)
(***************************************************************************)
EXTENDS Editor, TLAPS

Operations == {"create", "update", "delete"}
Data == [rev : Int, content : [Expenses -> Int]]
Page == [id : Nat, kind : {"group", "editor"}, expense : Expenses \cup {New}]
Form == [filled : BOOLEAN, typed : BOOLEAN]
Reading == [page : Nat, why : {"shell", "editor", "saved"}, data : Data]
Writing == {w \in [page : Nat, op : Operations, expense : Expenses \cup {New},
                   state : {"sent", "ok"}, heard : BOOLEAN] :
              w.op # "create" => w.expense # New}
Recording == [page : Nat, op : Operations, heard : BOOLEAN, rev : Int]

TypeOK ==
  /\ server \in Data /\ store \in Data
  /\ page \in Page /\ form \in Form
  /\ saving \in BOOLEAN /\ notice \in BOOLEAN
  /\ reads \in SUBSET Reading /\ writes \in SUBSET Writing /\ recorded \in SUBSET Recording

(***************************************************************************)
(* The invariant.  A page that comes has a number nobody used before; the  *)
(* request of a page somebody still waits for is the only one; a create it *)
(* comes after was recorded unheard.                                       *)
(***************************************************************************)
PagesPast ==
  /\ \A w \in writes : w.page <= page.id
  /\ \A r \in reads : r.page <= page.id
  /\ \A c \in recorded : c.page <= page.id

OneHeard ==
  /\ \A w, v \in writes : w.heard /\ v.heard /\ w.page = v.page => w = v
  /\ \A w \in writes : ~w.heard => w.state = "sent"

SentAfterLost ==
  \A w \in writes, c \in recorded :
    w.heard /\ w.state = "sent" /\ c.op = "create" /\ c.page = w.page => w.page \in lost

(***************************************************************************)
(* An editor that is not saving has nothing under way.                     *)
(***************************************************************************)
IdleEditor ==
  page.kind = "editor" /\ ~saving =>
    /\ \A w \in writes : w.page = page.id => ~w.heard
    /\ \A r \in reads : r.page = page.id => r.why # "saved"
    /\ \A c \in recorded : c.page = page.id /\ c.op = "create" => page.id \in lost

(***************************************************************************)
(* The refresh of a page comes after its request, and reads what that      *)
(* wrote; the group page has no form.                                      *)
(***************************************************************************)
RefreshLast ==
  /\ \A r \in reads, w \in writes : r.why = "saved" /\ w.page = r.page => ~w.heard
  /\ \A c \in recorded : c.rev <= server.rev

NoForm == page.kind = "group" => form = Blank

IInv == /\ TypeOK /\ PagesPast /\ OneHeard /\ SentAfterLost
        /\ IdleEditor /\ RefreshLast /\ NoForm
        /\ CreatedOnce /\ SavedIsRead

LEMMA ReadingTypes ==
  /\ NoData \in Data
  /\ \A p \in Nat, why \in {"shell", "editor", "saved"} : Read(p, why) \in Reading
<1>1. NoData \in Data
  BY DEF NoData, Data
<1> QED
  BY <1>1 DEF Read, Reading

LEMMA BlankType == Blank \in Form
BY DEF Blank, Form

LEMMA WrittenType ==
  ASSUME server \in Data, NEW op, NEW e \in Expenses
  PROVE  Written(op, e) \in Data /\ Written(op, e).rev = server.rev + 1
BY DEF Written, Data

LEMMA OpenKeeps ==
  ASSUME IInv, NEW e \in Expenses \cup {New}, OpenEditor(e)
  PROVE  IInv'
<1> USE DEF IInv, pageVars, history, OpenEditor
<1>1. TypeOK'
  <2>1. page' \in Page
    BY DEF TypeOK, Page
  <2>2. form' \in Form
    BY DEF Form, Blank
  <2> QED
    BY <2>1, <2>2 DEF TypeOK
<1>2. PagesPast'
  BY DEF TypeOK, Page, Reading, Writing, Recording, PagesPast
<1>3. OneHeard'
  BY DEF OneHeard
<1>4. SentAfterLost'
  BY DEF SentAfterLost
<1>5. IdleEditor'
  BY DEF TypeOK, Page, PagesPast, IdleEditor
<1>6. RefreshLast'
  BY DEF RefreshLast
<1>7. NoForm'
  BY DEF NoForm
<1>8. CreatedOnce'
  BY DEF CreatedOnce
<1>9. SavedIsRead'
  BY DEF SavedIsRead
<1> QED
  BY <1>1, <1>2, <1>3, <1>4, <1>5, <1>6, <1>7, <1>8, <1>9

LEMMA ReloadKeeps ==
  ASSUME IInv, Reload
  PROVE  IInv'
<1> USE DEF IInv, pageVars, history, Reload
<1>1. TypeOK'
  <2>1. page' \in Page /\ form' \in Form /\ page.id + 1 \in Nat
    BY DEF TypeOK, Page, Form, Blank
  <2>2. reads' \in SUBSET Reading /\ store' \in Data
    BY <2>1, ReadingTypes
  <2>3. ASSUME NEW w \in Writing PROVE [w EXCEPT !.heard = FALSE] \in Writing
    BY <2>3 DEF Writing
  <2>4. writes' \in SUBSET Writing
    BY <2>3 DEF TypeOK
  <2> QED
    BY <2>1, <2>2, <2>4 DEF TypeOK
<1>2. PagesPast'
  BY DEF TypeOK, Page, Writing, Recording, PagesPast, Read
<1>3. OneHeard'
  BY DEF TypeOK, Writing, OneHeard
<1>4. SentAfterLost'
  BY DEF TypeOK, Writing, SentAfterLost
<1>5. IdleEditor'
  BY DEF TypeOK, Page, Writing, PagesPast, IdleEditor, Read
<1>6. RefreshLast'
  BY DEF RefreshLast, Read
<1>7. NoForm'
  BY DEF NoForm
<1>8. CreatedOnce'
  BY DEF CreatedOnce
<1>9. SavedIsRead'
  BY DEF SavedIsRead, Read
<1> QED
  BY <1>1, <1>2, <1>3, <1>4, <1>5, <1>6, <1>7, <1>8, <1>9

LEMMA FormKeeps ==
  ASSUME IInv, Fill \/ Type
  PROVE  IInv'
<1> USE DEF IInv, pageVars, history, Fill, Type
<1>1. TypeOK'
  <2>1. form' \in Form
    <3>1. (form.typed /\ page.expense = New) \in BOOLEAN
      OBVIOUS
    <3>2. CASE Fill
      BY <3>1, <3>2 DEF Form
    <3>3. CASE Type
      BY <3>3 DEF TypeOK, Form
    <3> QED
      BY <3>2, <3>3
  <2> QED
    BY <2>1 DEF TypeOK
<1>2. PagesPast'
  BY DEF PagesPast
<1>3. OneHeard'
  BY DEF OneHeard
<1>4. SentAfterLost'
  BY DEF SentAfterLost
<1>5. IdleEditor'
  BY DEF IdleEditor
<1>6. RefreshLast'
  BY DEF RefreshLast
<1>7. NoForm'
  BY DEF NoForm
<1>8. CreatedOnce'
  BY DEF CreatedOnce
<1>9. SavedIsRead'
  BY DEF SavedIsRead
<1> QED
  BY <1>1, <1>2, <1>3, <1>4, <1>5, <1>6, <1>7, <1>8, <1>9

LEMMA SendKeeps ==
  ASSUME IInv, page.kind = "editor", ~saving, NEW op \in Operations, Send(op),
         op # "create" => page.expense # New,
         UNCHANGED <<server, store, page, form, reads, history>>
  PROVE  IInv'
<1> USE DEF IInv, history, Send
<1>1. TypeOK'
  <2> DEFINE w == [page |-> page.id, op |-> op, expense |-> page.expense,
                   state |-> "sent", heard |-> TRUE]
  <2>1. page.id \in Nat /\ page.expense \in Expenses \cup {New}
    BY DEF TypeOK, Page
  <2>2. w \in Writing
    BY <2>1 DEF Writing
  <2>3. writes' = writes \cup {w}
    OBVIOUS
  <2> HIDE DEF w
  <2> QED
    BY <2>2, <2>3 DEF TypeOK
<1>2. PagesPast'
  BY DEF TypeOK, Page, PagesPast
<1>3. OneHeard'
  <2> DEFINE w == [page |-> page.id, op |-> op, expense |-> page.expense,
                   state |-> "sent", heard |-> TRUE]
  <2>1. writes' = writes \cup {w} /\ w.page = page.id /\ w.heard
    OBVIOUS
  <2>2. \A v \in writes : v.page = page.id => ~v.heard
    BY DEF IdleEditor
  <2> HIDE DEF w
  <2> QED
    BY <2>1, <2>2 DEF OneHeard
<1>4. SentAfterLost'
  BY DEF SentAfterLost, IdleEditor
<1>5. IdleEditor'
  BY DEF IdleEditor
<1>6. RefreshLast'
  BY DEF IdleEditor, RefreshLast
<1>7. NoForm'
  BY DEF NoForm
<1>8. CreatedOnce'
  BY DEF CreatedOnce
<1>9. SavedIsRead'
  BY DEF SavedIsRead
<1> QED
  BY <1>1, <1>2, <1>3, <1>4, <1>5, <1>6, <1>7, <1>8, <1>9

LEMMA CloseKeeps ==
  ASSUME IInv, Close
  PROVE  IInv'
<1> USE DEF IInv, pageVars, history, Close, ToGroup
<1>1. TypeOK'
  <2>1. page' \in Page /\ form' \in Form /\ page.id \in Nat
    BY DEF TypeOK, Page, Form, Blank
  <2>2. reads' \in SUBSET Reading
    BY <2>1, ReadingTypes DEF TypeOK
  <2> QED
    BY <2>1, <2>2 DEF TypeOK
<1>2. PagesPast'
  BY DEF TypeOK, Page, PagesPast, Read
<1>3. OneHeard'
  BY DEF OneHeard
<1>4. SentAfterLost'
  BY DEF SentAfterLost
<1>5. IdleEditor'
  BY DEF IdleEditor
<1>6. RefreshLast'
  BY DEF RefreshLast, Read
<1>7. NoForm'
  BY DEF NoForm
<1>8. CreatedOnce'
  BY DEF CreatedOnce
<1>9. SavedIsRead'
  BY DEF SavedIsRead, Read
<1> QED
  BY <1>1, <1>2, <1>3, <1>4, <1>5, <1>6, <1>7, <1>8, <1>9

LEMMA RecordKeeps ==
  ASSUME IInv, NEW w \in writes, Record(w)
  PROVE  IInv'
<1> USE DEF IInv, pageVars, history, Record
<1>0. server' \in Data /\ server'.rev = server.rev + 1
  <2>1. PICK e \in IF w.op = "create" THEN Expenses ELSE {w.expense} :
          Allowed(w.op, e) /\ server' = Written(w.op, e)
    OBVIOUS
  <2>2. e \in Expenses
    BY <2>1 DEF TypeOK, Writing
  <2> QED
    BY <2>1, <2>2, WrittenType DEF TypeOK
<1>1. TypeOK'
  <2>1. writes' \in SUBSET Writing
    BY DEF TypeOK, Writing
  <2>2. recorded' \in SUBSET Recording
    BY <1>0 DEF TypeOK, Writing, Recording, Data
  <2> QED
    BY <1>0, <2>1, <2>2 DEF TypeOK
<1>2. PagesPast'
  BY DEF TypeOK, Writing, PagesPast
<1>3. OneHeard'
  BY DEF TypeOK, Writing, OneHeard
<1>4. SentAfterLost'
  BY DEF TypeOK, Writing, OneHeard, SentAfterLost
<1>5. IdleEditor'
  BY DEF TypeOK, Writing, IdleEditor
<1>6. RefreshLast'
  <2>1. \A c \in recorded : c.rev <= server'.rev
    BY <1>0 DEF TypeOK, Recording, Data, RefreshLast
  <2>2. \A c \in recorded' : c \in recorded \/ c.rev = server'.rev
    OBVIOUS
  <2>3. server'.rev \in Int
    BY <1>0 DEF Data
  <2>4. \A v \in writes' : v.heard => \E x \in writes : x.heard /\ x.page = v.page
    BY DEF TypeOK, Writing
  <2> QED
    BY <2>1, <2>2, <2>3, <2>4 DEF RefreshLast
<1>7. NoForm'
  BY DEF NoForm
<1>8. CreatedOnce'
  BY DEF SentAfterLost, CreatedOnce
<1>9. SavedIsRead'
  BY DEF RefreshLast, SavedIsRead
<1> QED
  BY <1>1, <1>2, <1>3, <1>4, <1>5, <1>6, <1>7, <1>8, <1>9

LEMMA OthersKeep ==
  ASSUME IInv, OthersWrite
  PROVE  IInv'
<1> USE DEF IInv, pageVars, history, OthersWrite
<1>0. server' \in Data /\ server'.rev = server.rev + 1
  BY WrittenType DEF TypeOK
<1>1. TypeOK'
  BY <1>0 DEF TypeOK
<1>2. PagesPast'
  BY DEF PagesPast
<1>3. OneHeard'
  BY DEF OneHeard
<1>4. SentAfterLost'
  BY DEF SentAfterLost
<1>5. IdleEditor'
  BY DEF IdleEditor
<1>6. RefreshLast'
  BY <1>0 DEF TypeOK, Recording, Data, RefreshLast
<1>7. NoForm'
  BY DEF NoForm
<1>8. CreatedOnce'
  BY DEF CreatedOnce
<1>9. SavedIsRead'
  BY DEF SavedIsRead
<1> QED
  BY <1>1, <1>2, <1>3, <1>4, <1>5, <1>6, <1>7, <1>8, <1>9

LEMMA ReadServerKeeps ==
  ASSUME IInv, NEW r \in reads, ReadServer(r)
  PROVE  IInv'
<1> USE DEF IInv, pageVars, history, ReadServer
<1>1. TypeOK'
  BY DEF TypeOK, Reading
<1>2. PagesPast'
  BY DEF TypeOK, Reading, PagesPast
<1>3. OneHeard'
  BY DEF OneHeard
<1>4. SentAfterLost'
  BY DEF SentAfterLost
<1>5. IdleEditor'
  BY DEF TypeOK, Reading, IdleEditor
<1>6. RefreshLast'
  BY DEF TypeOK, Reading, RefreshLast
<1>7. NoForm'
  BY DEF NoForm
<1>8. CreatedOnce'
  BY DEF CreatedOnce
<1>9. SavedIsRead'
  BY DEF TypeOK, Reading, RefreshLast, SavedIsRead
<1> QED
  BY <1>1, <1>2, <1>3, <1>4, <1>5, <1>6, <1>7, <1>8, <1>9

LEMMA WriteAnsweredKeeps ==
  ASSUME IInv, NEW w \in writes, WriteAnswered(w)
  PROVE  IInv'
<1> USE DEF IInv, pageVars, history, WriteAnswered
<1>1. TypeOK'
  BY ReadingTypes DEF TypeOK, Writing
<1>2. PagesPast'
  BY DEF PagesPast, Read
<1>3. OneHeard'
  BY DEF OneHeard
<1>4. SentAfterLost'
  BY DEF SentAfterLost
<1>5. IdleEditor'
  BY DEF OneHeard, IdleEditor, Read
<1>6. RefreshLast'
  BY DEF OneHeard, RefreshLast, Read
<1>7. NoForm'
  BY DEF NoForm
<1>8. CreatedOnce'
  BY DEF CreatedOnce
<1>9. SavedIsRead'
  BY DEF SavedIsRead, Read
<1> QED
  BY <1>1, <1>2, <1>3, <1>4, <1>5, <1>6, <1>7, <1>8, <1>9

LEMMA WriteFailsKeeps ==
  ASSUME IInv, NEW w \in writes, WriteFails(w)
  PROVE  IInv'
<1> USE DEF IInv, pageVars, history, WriteFails
<1>1. TypeOK'
  BY DEF TypeOK, Writing
<1>2. PagesPast'
  BY DEF TypeOK, Writing, PagesPast
<1>3. OneHeard'
  BY DEF TypeOK, Writing, OneHeard
<1>4. SentAfterLost'
  BY DEF TypeOK, Writing, SentAfterLost
<1>5. IdleEditor'
  BY DEF TypeOK, Writing, OneHeard, SentAfterLost, IdleEditor, RefreshLast
<1>6. RefreshLast'
  BY DEF TypeOK, Writing, RefreshLast
<1>7. NoForm'
  BY DEF NoForm
<1>8. CreatedOnce'
  BY DEF CreatedOnce
<1>9. SavedIsRead'
  BY DEF SavedIsRead
<1> QED
  BY <1>1, <1>2, <1>3, <1>4, <1>5, <1>6, <1>7, <1>8, <1>9

LEMMA ReadAnsweredKeeps ==
  ASSUME IInv, NEW r \in reads, ReadAnswered(r)
  PROVE  IInv'
<1> USE DEF IInv, pageVars, history, ReadAnswered, ToGroup
<1>1. TypeOK'
  <2>1. page' \in Page /\ page.id \in Nat
    BY DEF TypeOK, Page
  <2>2. form' = form \/ form' = Blank
    OBVIOUS
  <2>3. form' \in Form
    BY <2>2, BlankType DEF TypeOK
  <2>4. reads' \in SUBSET Reading /\ store' \in Data
    BY <2>1, ReadingTypes DEF TypeOK, Reading
  <2> QED
    BY <2>1, <2>3, <2>4 DEF TypeOK
<1>2. PagesPast'
  BY DEF TypeOK, Page, PagesPast, Read
<1>3. OneHeard'
  BY DEF OneHeard
<1>4. SentAfterLost'
  BY DEF SentAfterLost
<1>5. IdleEditor'
  BY DEF TypeOK, Page, IdleEditor
<1>6. RefreshLast'
  BY DEF RefreshLast, Read
<1>7. NoForm'
  BY DEF NoForm
<1>8. CreatedOnce'
  BY DEF CreatedOnce
<1>9. SavedIsRead'
  BY DEF SavedIsRead, Read
<1> QED
  BY <1>1, <1>2, <1>3, <1>4, <1>5, <1>6, <1>7, <1>8, <1>9

LEMMA ReadFailsKeeps ==
  ASSUME IInv, NEW r \in reads, ReadFails(r)
  PROVE  IInv'
<1> USE DEF IInv, pageVars, history, ReadFails
<1>1. TypeOK'
  BY DEF TypeOK
<1>2. PagesPast'
  BY DEF PagesPast
<1>3. OneHeard'
  BY DEF OneHeard
<1>4. SentAfterLost'
  BY DEF SentAfterLost
<1>5. IdleEditor'
  BY DEF IdleEditor
<1>6. RefreshLast'
  BY DEF RefreshLast
<1>7. NoForm'
  BY DEF NoForm
<1>8. CreatedOnce'
  BY DEF CreatedOnce
<1>9. SavedIsRead'
  BY DEF SavedIsRead
<1> QED
  BY <1>1, <1>2, <1>3, <1>4, <1>5, <1>6, <1>7, <1>8, <1>9

-----------------------------------------------------------------------------
LEMMA InitIInv == Init => IInv
<1> SUFFICES ASSUME Init PROVE IInv
  OBVIOUS
<1> USE DEF Init
<1>1. TypeOK
  <2>1. server \in Data /\ store \in Data
    BY ReadingTypes DEF Data
  <2>2. page \in Page
    BY DEF Page
  <2>3. reads \in SUBSET Reading
    BY ReadingTypes
  <2> QED
    BY <2>1, <2>2, <2>3, BlankType DEF TypeOK
<1> QED
  BY <1>1 DEF IInv, PagesPast, OneHeard, SentAfterLost, IdleEditor, RefreshLast, NoForm,
     CreatedOnce, SavedIsRead, Read

LEMMA NextIInv == IInv /\ [Next]_vars => IInv'
<1> SUFFICES ASSUME IInv, [Next]_vars PROVE IInv'
  OBVIOUS
<1>1. CASE UNCHANGED vars
  BY <1>1 DEF vars, pageVars, history, IInv, TypeOK, PagesPast, OneHeard, SentAfterLost,
     IdleEditor, RefreshLast, NoForm, CreatedOnce, SavedIsRead
<1>2. CASE Save \/ Delete
  BY <1>2, SendKeeps DEF Save, Delete, Operations
<1>3. CASE (\E e \in Expenses \cup {New} : OpenEditor(e)) \/ Type \/ Close \/ Reload \/ Fill \/ OthersWrite
  BY <1>3, OpenKeeps, FormKeeps, CloseKeeps, ReloadKeeps, OthersKeep
<1>4. CASE \E w \in writes : Record(w) \/ WriteEnds(w)
  BY <1>4, RecordKeeps, WriteAnsweredKeeps, WriteFailsKeeps DEF WriteEnds
<1>5. CASE \E r \in reads : ReadGoesOn(r)
  BY <1>5, ReadServerKeeps, ReadAnsweredKeeps, ReadFailsKeeps DEF ReadGoesOn
<1> QED
  BY <1>1, <1>2, <1>3, <1>4, <1>5 DEF Next, User

LEMMA Inductive == Spec => []IInv
BY InitIInv, NextIInv, PTL DEF Spec

(***************************************************************************)
(* However often Save is pressed, and whatever answers come late or never, *)
(* two creations are recorded for one editor only where an answer was lost *)
(* or the request reached the server after the browser had given it up.    *)
(* The signal saving, which holds the button back, is what this rests on.  *)
(***************************************************************************)
THEOREM NoSecondCreate == Spec => []CreatedOnce
<1>1. IInv => CreatedOnce
  BY DEF IInv
<1> QED
  BY <1>1, Inductive, PTL

(***************************************************************************)
(* The refresh after a save has read what the save wrote: it is asked for  *)
(* only when the answer of the save is there.                              *)
(***************************************************************************)
THEOREM RefreshSeesSave == Spec => []SavedIsRead
<1>1. IInv => SavedIsRead
  BY DEF IInv
<1> QED
  BY <1>1, Inductive, PTL

(***************************************************************************)
(* No answer that arrives later changes a form that was filled: only the   *)
(* user does, or leaves it, or the refresh of a save closes the editor.    *)
(***************************************************************************)
THEOREM FormStaysTheUsers == Spec => FormIsTheUsers
<1> DEFINE Kept ==
      form.filled /\ form' # form =>
        \/ form' = [form EXCEPT !.typed = TRUE]
        \/ /\ form' = Blank
           /\ \/ Close \/ Reload
              \/ \E r \in reads : r.why = "saved" /\ ReadAnswered(r)
<1>1. ASSUME IInv, Next PROVE Kept
  <2>1. CASE \E e \in Expenses \cup {New} : OpenEditor(e)
    BY <2>1, <1>1 DEF OpenEditor, IInv, NoForm
  <2>2. CASE Type
    BY <2>2 DEF Type
  <2>3. CASE Close \/ Reload
    BY <2>3 DEF Close, Reload, ToGroup
  <2>4. CASE \E r \in reads : ReadAnswered(r)
    BY <2>4 DEF ReadAnswered, ToGroup, pageVars
  <2>5. CASE Fill
    BY <2>5 DEF Fill
  <2>6. CASE UNCHANGED form
    BY <2>6
  <2>7. Save \/ Delete \/ OthersWrite => UNCHANGED form
    BY DEF Save, Delete, OthersWrite, pageVars
  <2>8. \A w \in writes : Record(w) \/ WriteEnds(w) => UNCHANGED form
    BY DEF Record, WriteEnds, WriteAnswered, WriteFails, pageVars
  <2>9. \A r \in reads : ReadServer(r) \/ ReadFails(r) => UNCHANGED form
    BY DEF ReadServer, ReadFails, pageVars
  <2> HIDE DEF Kept
  <2> QED
    BY <1>1, <2>1, <2>2, <2>3, <2>4, <2>5, <2>6, <2>7, <2>8, <2>9 DEF Next, User, ReadGoesOn
<1> HIDE DEF Kept
<1>2. IInv /\ [Next]_vars => [Kept]_vars
  BY <1>1
<1>3. Spec => [][Kept]_vars
  BY <1>2, Inductive, PTL DEF Spec
<1> QED
  BY <1>3 DEF FormIsTheUsers, Kept
=============================================================================
