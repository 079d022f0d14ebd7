---------------------------- MODULE DraftsProofs ----------------------------
(***************************************************************************)
(* Theorems about Drafts, for any number of requests at a time and any     *)
(* bounds.                                                                 *)
(***************************************************************************)
EXTENDS Drafts, FiniteSetTheorems, SequenceTheorems, WellFoundedInduction, TLAPS

Kinds == {"transaction", "account"}
Maps(E) == UNION {[S -> E] : S \in SUBSET Int}
Collection(E) ==
  {c \in [byId : Maps(E), ids : Seq(Int)] : \A i \in DOMAIN c.ids : c.ids[i] \in DOMAIN c.byId}

Row == [what : Int, deleted : BOOLEAN, is_changed : BOOLEAN, only_local : BOOLEAN]
File == [what : Int, deleted : BOOLEAN, type : {"backend", "new", "updated"}]
FieldsOf(k) == IF k = "account" THEN [text : Int] ELSE [text : Int, currency : Int]
TransactionDraft ==
  [fields : FieldsOf("transaction"), deleted : BOOLEAN, ver : Nat, is_wip : BOOLEAN,
   positions : Collection(Row), files : Collection(File)]
AccountDraft ==
  [fields : FieldsOf("account"), deleted : BOOLEAN, ver : Nat, is_wip : BOOLEAN]
Entity(k) == IF k = "account" THEN AccountDraft ELSE TransactionDraft

StoredItem == [what : Int, deleted : BOOLEAN]
StoredTransaction ==
  [fields : FieldsOf("transaction"), deleted : BOOLEAN, ver : Nat, origin : Int,
   positions : Seq(StoredItem), files : Seq(StoredItem)]
StoredAccount == [fields : FieldsOf("account"), deleted : BOOLEAN, ver : Nat, origin : Int]
StoredEntity(k) == IF k = "account" THEN StoredAccount ELSE StoredTransaction

Status == {"absent", "loading", "initialized", "failed"}
TransactionState ==
  [saved : Collection(TransactionDraft), wip : Collection(TransactionDraft), status : Status,
   nextId : Int, nextPosition : Int, nextFile : Int]
AccountState ==
  [saved : Collection(AccountDraft), wip : Collection(AccountDraft), status : Status, nextId : Int]
Slice(k) == IF k = "account" THEN AccountState ELSE TransactionState

Body == TransactionDraft \cup AccountDraft \cup {NoBody}
Content == {NoBody} \cup StoredTransaction \cup StoredAccount
             \cup Seq(StoredTransaction) \cup Seq(StoredAccount)
RequestType ==
  [kind : {"load", "save", "rates", "delete", "leave"}, of : Kinds \cup {"none"}, id : Int,
   body : Body, stage : {"sent", "done"}, answer : Int, content : Content,
   overtaken : BOOLEAN, heard : BOOLEAN, stamp : Int]

\* What a request says of the kind it is about, by what it is.
Fits(r) ==
  /\ r.kind = "leave" <=> r.of = "none"
  /\ r.kind = "rates" => r.of = "transaction" /\ r.stage = "sent" /\ r.heard
  /\ r.kind \in {"save", "rates"} => r.body \in Entity(r.of) /\ r.body.is_wip
  /\ r.kind = "load" => r.heard
  /\ r.stage = "done" =>
       /\ r.heard
       /\ r.kind = "load" => r.content \in Seq(StoredEntity(r.of))
       /\ r.kind \in {"save", "delete"} => r.content \in StoredEntity(r.of)

\* The known ids are those of the server, and the local ones given so far.
IdOf(k, id) ==
  /\ id # 0 /\ slices[k].nextId < id /\ id <= Len(server[k])

Typing ==
  /\ kinds \subseteq Kinds
  /\ DOMAIN slices = kinds /\ \A k \in kinds : slices[k] \in Slice(k)
  /\ DOMAIN server = kinds /\ \A k \in kinds : server[k] \in Seq(StoredEntity(k))
  /\ reqs = [n \in DOMAIN reqs |-> reqs[n]] /\ DOMAIN reqs \subseteq Slots
  /\ \A n \in DOMAIN reqs : reqs[n] \in RequestType /\ Fits(reqs[n])
                              /\ (reqs[n].kind # "leave" => reqs[n].of \in kinds)
  /\ typed = [i \in DOMAIN typed |-> typed[i]]
  /\ edits \in Nat /\ items \in Nat
  /\ inGroup \in BOOLEAN /\ mounted \in BOOLEAN /\ joined \in BOOLEAN

PlacesIn(k) ==
  /\ slices[k].nextId < 0
  /\ \A id \in Known(slices[k].wip) : IdOf(k, id) /\ slices[k].wip.byId[id].is_wip
  /\ \A id \in Known(slices[k].saved) :
       /\ id \in DOMAIN server[k] /\ ~slices[k].saved.byId[id].is_wip
       /\ slices[k].saved.byId[id].ver <= server[k][id].ver
  /\ \A i \in DOMAIN server[k] : slices[k].nextId < server[k][i].origin /\ server[k][i].origin <= 0
  /\ slices[k].status = "absent" => Known(slices[k].wip) = {} /\ Known(slices[k].saved) = {}
Places == \A k \in kinds : PlacesIn(k)

Visit ==
  /\ mounted => inGroup /\ joined
  /\ \A k \in kinds : ~joined => slices[k].status = "absent"
  /\ mounted => \A k \in kinds : slices[k].status # "absent"

\* What the requests say of what is stored.
AskedBy(n) ==
  LET r == reqs[n]
  IN  /\ r.kind \in {"save", "rates"} => IdOf(r.of, r.id)
      /\ r.kind = "delete" => r.id \in DOMAIN server[r.of]
      /\ r.stage = "done" /\ r.kind = "load" =>
           /\ Len(r.content) <= Len(server[r.of])
           /\ \A i \in DOMAIN r.content : r.content[i].ver <= server[r.of][i].ver
      /\ r.stage = "done" /\ r.kind \in {"save", "delete"} =>
           /\ r.answer \in DOMAIN server[r.of] /\ r.content.ver <= server[r.of][r.answer].ver
           /\ r.kind = "delete" => r.answer = r.id
Asked == \A n \in DOMAIN reqs : AskedBy(n)

\* An answer that was not overtaken is not older than what is shown as saved.
NewerIs(n) ==
  LET r == reqs[n]
  IN  r.stage = "done" /\ ~r.overtaken =>
        /\ r.kind = "load" =>
             \A id \in Known(slices[r.of].saved) :
               id \in DOMAIN r.content /\ slices[r.of].saved.byId[id].ver <= r.content[id].ver
        /\ r.kind \in {"save", "delete"} /\ r.answer \in Known(slices[r.of].saved) =>
             slices[r.of].saved.byId[r.answer].ver <= r.content.ver
Newer == \A n \in DOMAIN reqs : NewerIs(n)

\* Only one answer is due for a draft that is in no race, and this is still the
\* draft that was sent.
IsDue(n, k, id) ==
  reqs[n].kind \in {"save", "rates", "delete"} /\ reqs[n].of = k /\ reqs[n].id = id
OneDueFor(n) ==
  LET r == reqs[n]
  IN  r.kind \in {"save", "rates", "delete"} /\ <<r.of, r.id>> \notin raced =>
        /\ \A m \in DOMAIN reqs : IsDue(m, r.of, r.id) => m = n
        /\ r.kind \in {"save", "rates"} =>
             /\ r.heard
             /\ \/ ~joined
                \/ r.id \in Known(slices[r.of].wip) /\ slices[r.of].wip.byId[r.id] = r.body
OneDue == \A n \in DOMAIN reqs : OneDueFor(n)

DraftsStay == \A k \in kinds, id \in Int : <<k, id>> \notin raced => EditsStayIn(k, id)

\* A draft in no race was stored once at most; one that was stored is there only
\* while the answer about that is due.
OriginIs(k, i) ==
  LET d == server[k][i].origin
  IN  <<k, d>> \notin raced =>
        /\ \A j \in DOMAIN server[k] : server[k][j].origin = d => i = j
        /\ \A n \in DOMAIN reqs : reqs[n].kind = "save" /\ reqs[n].of = k /\ reqs[n].id = d =>
             reqs[n].stage = "done"
        /\ d \in Known(slices[k].wip) =>
             \E n \in DOMAIN reqs : reqs[n].kind = "save" /\ reqs[n].of = k /\ reqs[n].id = d
Origins == \A k \in kinds : \A i \in DOMAIN server[k] : OriginIs(k, i)

\* The local ids given to the positions and files of a transaction are above
\* the next ones.
Room(s, t) == /\ \A p \in Known(t.positions) : s.nextPosition < p
              /\ \A f \in Known(t.files) : s.nextFile < f
Roomy == "transaction" \in kinds =>
  LET s == slices["transaction"]
  IN  /\ s.nextPosition < 0 /\ s.nextFile < 0
      /\ \A id \in Known(s.wip) : Room(s, s.wip.byId[id])
      /\ \A id \in Known(s.saved) : Room(s, s.saved.byId[id])
      /\ \A n \in DOMAIN reqs : reqs[n].kind = "rates" => Room(s, reqs[n].body)

\* An id is listed once.
Once(c, x) ==
  \E i \in DOMAIN c.ids : c.ids[i] = x /\ \A j \in DOMAIN c.ids : c.ids[j] = x => i = j
ListedIn(k) ==
  /\ \A id \in Known(slices[k].saved) : Once(slices[k].saved, id)
  /\ \A id \in Known(slices[k].wip) : <<k, id>> \notin raced => Once(slices[k].wip, id)
Listed == \A k \in kinds : ListedIn(k)

Inv == /\ Typing /\ Places /\ Visit /\ LoadingIsAnswered /\ Roomy /\ Listed
       /\ Asked /\ Newer /\ OneDue /\ DraftsStay /\ Origins

-----------------------------------------------------------------------------
(***************************************************************************)
(* Induction over the natural numbers: a set of them with no least element *)
(* is empty.                                                               *)
(***************************************************************************)
LEMMA LeastNatural ==
  ASSUME NEW P \in SUBSET Nat, P # {}
  PROVE  \E m \in P : \A n \in P : m <= n
<1>1. PICK m \in P : \A n \in P : ~(<<n, m>> \in OpToRel(<, Nat))
  <2> HIDE DEF OpToRel
  <2> QED
    BY ZenonT(60), WFMin, NatLessThanWellFounded
<1>2. \A n \in P : ~(n < m)
  BY <1>1 DEF OpToRel
<1> QED
  BY <1>2

LEMMA Induction ==
  ASSUME NEW P \in SUBSET Nat, 0 \in P, \A n \in Nat : n \in P => n + 1 \in P
  PROVE  P = Nat
<1>1. SUFFICES ASSUME Nat \ P # {} PROVE FALSE
  OBVIOUS
<1>2. PICK m \in Nat \ P : \A n \in Nat \ P : m <= n
  BY <1>1, LeastNatural
<1>3. m # 0 /\ m - 1 \in Nat /\ ~(m <= m - 1)
  BY <1>2
<1>4. m - 1 \in P
  BY <1>2, <1>3
<1>5. (m - 1) + 1 = m
  BY <1>2
<1> QED
  BY <1>2, <1>3, <1>4, <1>5

-----------------------------------------------------------------------------
(* The ids that are chosen from a list.  Among is defined by a recursive    *)
(* function: there is one.                                                  *)
ChosenUpTo(ids, chosen, n, f) ==
  /\ f = [i \in 0..n |-> f[i]]
  /\ f[0] = <<>>
  /\ \A i \in 1..n : f[i] = IF ids[i] \in chosen THEN Append(f[i - 1], ids[i]) ELSE f[i - 1]

LEMMA ChosenExists ==
  ASSUME NEW ids, NEW chosen, NEW m \in Nat
  PROVE  \E f : ChosenUpTo(ids, chosen, m, f)
<1> DEFINE P == {n \in Nat : \E f : ChosenUpTo(ids, chosen, n, f)}
<1>1. 0 \in P
  <2>1. ChosenUpTo(ids, chosen, 0, [i \in 0..0 |-> <<>>])
    BY DEF ChosenUpTo
  <2> QED  BY <2>1
<1>2. ASSUME NEW n \in Nat, n \in P PROVE n + 1 \in P
  <2>1. PICK f : ChosenUpTo(ids, chosen, n, f)
    BY <1>2
  <2> DEFINE next == IF ids[n + 1] \in chosen THEN Append(f[n], ids[n + 1]) ELSE f[n]
             g == [i \in 0..(n + 1) |-> IF i = n + 1 THEN next ELSE f[i]]
  <2>2. g[0] = <<>>
    BY <2>1 DEF ChosenUpTo
  <2>3. ASSUME NEW i \in 1..(n + 1)
        PROVE  g[i] = IF ids[i] \in chosen THEN Append(g[i - 1], ids[i]) ELSE g[i - 1]
    <3>1. CASE i = n + 1
      <4>1. g[i] = next /\ g[i - 1] = f[n]
        BY <3>1
      <4> QED  BY <3>1, <4>1
    <3>2. CASE i # n + 1
      <4>1. i \in 1..n /\ g[i] = f[i] /\ g[i - 1] = f[i - 1]
        BY <3>2
      <4> QED  BY <2>1, <4>1 DEF ChosenUpTo
    <3> QED  BY <3>1, <3>2
  <2>4. g = [i \in 0..(n + 1) |-> g[i]]
    OBVIOUS
  <2> HIDE DEF g
  <2>5. ChosenUpTo(ids, chosen, n + 1, g)
    BY <2>2, <2>3, <2>4 DEF ChosenUpTo
  <2> QED  BY <2>5
<1>3. P = Nat
  <2> HIDE DEF P
  <2>1. P \in SUBSET Nat
    BY DEF P
  <2> QED  BY <1>1, <1>2, <2>1, Induction
<1> QED
  BY <1>3

LEMMA AmongIsChosen ==
  ASSUME NEW ids, NEW chosen, Len(ids) \in Nat
  PROVE  \E f : ChosenUpTo(ids, chosen, Len(ids), f) /\ T!Among(ids, chosen) = f[Len(ids)]
<1> DEFINE Tail1(h) == [i \in 0..Len(ids) |->
             IF i = 0 THEN <<>>
             ELSE IF ids[i] \in chosen THEN Append(h[i - 1], ids[i]) ELSE h[i - 1]]
           upTo == CHOOSE h : h = Tail1(h)
<1>1. PICK f : ChosenUpTo(ids, chosen, Len(ids), f)
  BY ChosenExists
<1>2. f = Tail1(f)
  <2>1. \A i \in 0..Len(ids) : f[i] = Tail1(f)[i]
    BY <1>1 DEF ChosenUpTo
  <2> QED  BY <1>1, <2>1 DEF ChosenUpTo
<1>3. upTo = Tail1(upTo)
  BY ZenonT(60), <1>2
<1>4. T!Among(ids, chosen) = upTo[Len(ids)]
  BY DEF T!Among
<1> HIDE DEF upTo
<1>5. ChosenUpTo(ids, chosen, Len(ids), upTo)
  <2>1. upTo = [i \in 0..Len(ids) |-> upTo[i]]
    BY <1>3
  <2>2. \A i \in 1..Len(ids) :
          upTo[i] = IF ids[i] \in chosen THEN Append(upTo[i - 1], ids[i]) ELSE upTo[i - 1]
    <3> SUFFICES ASSUME NEW i \in 1..Len(ids)
                 PROVE  upTo[i] = IF ids[i] \in chosen THEN Append(upTo[i - 1], ids[i])
                                                       ELSE upTo[i - 1]
      OBVIOUS
    <3>1. i \in 0..Len(ids) /\ i # 0
      OBVIOUS
    <3>2. upTo[i] = Tail1(upTo)[i]
      BY <1>3
    <3> QED  BY <3>1, <3>2
  <2>3. upTo[0] = <<>>
    BY <1>3
  <2> HIDE DEF Tail1
  <2> QED  BY <2>1, <2>2, <2>3 DEF ChosenUpTo
<1> QED
  BY <1>4, <1>5

\* What a list of chosen ids has to do with the list: its members are the chosen
\* ones, and two of one kind come from two.
AreChosen(new, ids, n, chosen) ==
  /\ \A j \in DOMAIN new : new[j] \in chosen /\ \E i \in 1..n : ids[i] = new[j]
  /\ \A i \in 1..n : ids[i] \in chosen => \E j \in DOMAIN new : new[j] = ids[i]
  /\ \A j, l \in DOMAIN new : new[j] = new[l] /\ j # l =>
       \E i, h \in 1..n : i # h /\ ids[i] = new[j] /\ ids[h] = new[j]

LEMMA AmongAreChosen ==
  ASSUME NEW X, NEW ids \in Seq(X), NEW chosen
  PROVE  /\ T!Among(ids, chosen) \in Seq(X)
         /\ AreChosen(T!Among(ids, chosen), ids, Len(ids), chosen)
<1>0. Len(ids) \in Nat /\ \A i \in 1..Len(ids) : ids[i] \in X
  BY LenProperties, ElementOfSeq
<1>1. PICK f : ChosenUpTo(ids, chosen, Len(ids), f) /\ T!Among(ids, chosen) = f[Len(ids)]
  BY <1>0, AmongIsChosen
<1> DEFINE P == {n \in Nat : n <= Len(ids) => f[n] \in Seq(X) /\ AreChosen(f[n], ids, n, chosen)}
<1>2. 0 \in P
  BY <1>1 DEF ChosenUpTo, AreChosen
<1>3. ASSUME NEW n \in Nat, n \in P PROVE n + 1 \in P
  <2> SUFFICES ASSUME n + 1 <= Len(ids)
               PROVE  f[n + 1] \in Seq(X) /\ AreChosen(f[n + 1], ids, n + 1, chosen)
    OBVIOUS
  <2>1. PICK old, new, x : old = f[n] /\ new = f[n + 1] /\ x = ids[n + 1]
    OBVIOUS
  <2>2. n \in 0..Len(ids) /\ old \in Seq(X) /\ AreChosen(old, ids, n, chosen) /\ x \in X
    BY <1>0, <1>3, <2>1
  <2>3. new = IF x \in chosen THEN Append(old, x) ELSE old
    <3>1. n + 1 \in 1..Len(ids) /\ (n + 1) - 1 = n
      BY <1>0
    <3> QED  BY <1>1, <2>1, <3>1 DEF ChosenUpTo
  <2>4. CASE x \notin chosen
    BY <2>1, <2>2, <2>3, <2>4 DEF AreChosen
  <2>5. CASE x \in chosen
    <3>1. /\ new \in Seq(X) /\ Len(new) = Len(old) + 1 /\ new[Len(old) + 1] = x
          /\ \A i \in 1..Len(old) : new[i] = old[i]
      BY <2>2, <2>3, <2>5, AppendProperties
    <3>2. DOMAIN new = 1..(Len(old) + 1) /\ DOMAIN old = 1..Len(old) /\ Len(old) \in Nat
      BY <2>2, <3>1, LenProperties
    <3>3. \A j \in DOMAIN new : j = Len(old) + 1 \/ j \in DOMAIN old
      BY <3>2
    <3>4. \A i \in 1..(n + 1) : i = n + 1 \/ i \in 1..n
      OBVIOUS
    <3>5. ASSUME NEW j \in DOMAIN new
          PROVE  new[j] \in chosen /\ \E i \in 1..(n + 1) : ids[i] = new[j]
      <4>1. CASE j = Len(old) + 1
        BY <2>1, <2>5, <3>1, <4>1
      <4>2. CASE j \in DOMAIN old
        <5>1. new[j] = old[j]
          BY <3>1, <3>2, <4>2
        <5>2. old[j] \in chosen /\ \E i \in 1..n : ids[i] = old[j]
          BY <2>2, <4>2 DEF AreChosen
        <5> QED  BY <5>1, <5>2
      <4> QED  BY <3>3, <4>1, <4>2
    <3>6. ASSUME NEW i \in 1..(n + 1), ids[i] \in chosen PROVE \E j \in DOMAIN new : new[j] = ids[i]
      <4>1. CASE i = n + 1
        BY SMTT(60), <2>1, <3>1, <3>2, <4>1
      <4>2. CASE i \in 1..n
        <5>1. PICK j \in DOMAIN old : old[j] = ids[i]
          BY <2>2, <3>6, <4>2 DEF AreChosen
        <5> QED  BY <3>1, <3>2, <5>1
      <4> QED  BY <3>4, <4>1, <4>2
    <3>7. ASSUME NEW j \in DOMAIN new, NEW l \in DOMAIN new, new[j] = new[l], j # l
          PROVE  \E i, h \in 1..(n + 1) : i # h /\ ids[i] = new[j] /\ ids[h] = new[j]
      <4>1. CASE j \in DOMAIN old /\ l \in DOMAIN old
        <5>1. PICK i \in 1..n, h \in 1..n : i # h /\ ids[i] = old[j] /\ ids[h] = old[j]
          BY <2>2, <3>1, <3>2, <3>7, <4>1 DEF AreChosen
        <5>2. new[j] = old[j]
          BY <3>1, <3>2, <4>1
        <5>3. i \in 1..(n + 1) /\ h \in 1..(n + 1)
          OBVIOUS
        <5>4. i # h /\ ids[i] = new[j] /\ ids[h] = new[j]
          BY <5>1, <5>2
        <5> QED  BY <5>3, <5>4
      <4>2. ASSUME NEW a \in DOMAIN old, new[a] = x
            PROVE  \E i \in 1..n : ids[i] = x
        BY <2>2, <3>1, <3>2, <4>2 DEF AreChosen
      <4>3. CASE j = Len(old) + 1 \/ l = Len(old) + 1
        <5>1. new[j] = x /\ \E a \in DOMAIN old : new[a] = x
          BY <3>1, <3>2, <3>3, <3>7, <4>3
        <5>2. PICK i \in 1..n : ids[i] = x
          BY <4>2, <5>1
        <5> QED  BY <2>1, <5>1, <5>2
      <4> QED  BY <3>3, <4>1, <4>3
    <3> QED  BY <2>1, <3>1, <3>5, <3>6, <3>7 DEF AreChosen
  <2> QED  BY <2>1, <2>4, <2>5
<1>4. P = Nat
  <2> HIDE DEF P
  <2>1. P \in SUBSET Nat
    BY DEF P
  <2> QED  BY <1>2, <1>3, <2>1, Induction
<1>5. Len(ids) \in P
  BY <1>0, <1>4
<1> QED
  BY <1>0, <1>1, <1>5

-----------------------------------------------------------------------------
(* Collections: what is known of one after an entity was put into it or     *)
(* taken out.                                                               *)
LEMMA MapsAre ==
  ASSUME NEW E, NEW f
  PROVE  f \in Maps(E) <=> /\ f = [i \in DOMAIN f |-> f[i]] /\ DOMAIN f \subseteq Int
                           /\ \A i \in DOMAIN f : f[i] \in E
<1>1. ASSUME f \in Maps(E)
      PROVE  /\ f = [i \in DOMAIN f |-> f[i]] /\ DOMAIN f \subseteq Int
             /\ \A i \in DOMAIN f : f[i] \in E
  BY <1>1 DEF Maps
<1>2. ASSUME f = [i \in DOMAIN f |-> f[i]], DOMAIN f \subseteq Int, \A i \in DOMAIN f : f[i] \in E
      PROVE  f \in Maps(E)
  <2>1. f \in [DOMAIN f -> E]
    BY <1>2
  <2> QED  BY <1>2, <2>1 DEF Maps
<1> QED
  BY <1>1, <1>2

LEMMA CollectionIs ==
  ASSUME NEW E, NEW c \in Collection(E)
  PROVE  /\ c = [byId |-> c.byId, ids |-> c.ids]
         /\ c.byId \in Maps(E) /\ c.ids \in Seq(Int)
         /\ c.ids \in Seq(DOMAIN c.byId)
         /\ DOMAIN c.ids = 1..Len(c.ids) /\ Len(c.ids) \in Nat
         /\ DOMAIN c.byId \subseteq Int /\ \A i \in DOMAIN c.byId : c.byId[i] \in E
<1>1. /\ c = [byId |-> c.byId, ids |-> c.ids]
      /\ c.byId \in Maps(E) /\ c.ids \in Seq(Int)
      /\ \A i \in DOMAIN c.ids : c.ids[i] \in DOMAIN c.byId
  BY DEF Collection
<1>2. DOMAIN c.ids = 1..Len(c.ids) /\ Len(c.ids) \in Nat /\ c.ids \in [1..Len(c.ids) -> Int]
  BY <1>1, LenProperties
<1>3. c.ids \in [1..Len(c.ids) -> DOMAIN c.byId]
  BY <1>1, <1>2
<1>4. c.ids \in Seq(DOMAIN c.byId)
  BY ONLY <1>2, <1>3, SeqDef
<1>5. DOMAIN c.byId \subseteq Int /\ \A i \in DOMAIN c.byId : c.byId[i] \in E
  BY ONLY <1>1, MapsAre
<1> QED
  BY ONLY <1>1, <1>2, <1>4, <1>5

LEMMA CollectionFrom ==
  ASSUME NEW E, NEW c, c = [byId |-> c.byId, ids |-> c.ids],
         c.byId \in Maps(E), c.ids \in Seq(DOMAIN c.byId)
  PROVE  c \in Collection(E)
<1>1. DOMAIN c.byId \subseteq Int
  BY ONLY c.byId \in Maps(E), MapsAre
<1>2. c.ids \in Seq(Int)
  BY <1>1, SeqMonotonic
<1>3. \A i \in DOMAIN c.ids : c.ids[i] \in DOMAIN c.byId
  BY ElementOfSeq, LenProperties
<1>4. [byId |-> c.byId, ids |-> c.ids] \in [byId : Maps(E), ids : Seq(Int)]
  BY <1>2
<1> QED
  BY <1>3, <1>4 DEF Collection

LEMMA PutKeeps ==
  ASSUME NEW E, NEW c \in Collection(E), NEW id \in Int, NEW e \in E
  PROVE  /\ T!Put(c, id, e).ids = c.ids
         /\ T!Put(c, id, e) = [byId |-> T!Put(c, id, e).byId, ids |-> c.ids]
         /\ T!Put(c, id, e).byId \in Maps(E)
         /\ DOMAIN T!Put(c, id, e).byId = Known(c) \cup {id}
         /\ T!Put(c, id, e).byId[id] = e
         /\ \A i \in Known(c) \ {id} : T!Put(c, id, e).byId[i] = c.byId[i]
<1>1. PICK f : f = [i \in Known(c) \cup {id} |-> IF i = id THEN e ELSE c.byId[i]]
  OBVIOUS
<1>2. c = [byId |-> c.byId, ids |-> c.ids] /\ DOMAIN c.byId \subseteq Int
      /\ \A i \in DOMAIN c.byId : c.byId[i] \in E
  BY CollectionIs
<1>3. T!Put(c, id, e) = [byId |-> f, ids |-> c.ids]
  BY <1>1, <1>2 DEF T!Put, T!Known, Known
<1>4. f = [i \in DOMAIN f |-> f[i]] /\ DOMAIN f = Known(c) \cup {id} /\ f[id] = e
      /\ \A i \in Known(c) \ {id} : f[i] = c.byId[i]
  BY ONLY <1>1
<1>5. f \in Maps(E)
  BY <1>2, <1>4, MapsAre DEF Known
<1> QED
  BY <1>3, <1>4, <1>5

LEMMA AddKeeps ==
  ASSUME NEW E, NEW c \in Collection(E), NEW id \in Int, NEW e \in E,
         NEW d, d = T!addEntity(c, id, e)
  PROVE  /\ d \in Collection(E)
         /\ Known(d) = Known(c) \cup {id} /\ d.byId[id] = e
         /\ \A i \in Known(c) \ {id} : d.byId[i] = c.byId[i]
         /\ \A x : Once(c, x) /\ (x = id => id \in Known(c)) => Once(d, x)
         /\ id \notin Known(c) => Once(d, id)
<1> DEFINE p == T!Put(c, id, e)
           ids == IF id \in Known(c) THEN c.ids ELSE Append(c.ids, id)
<1>1. /\ c = [byId |-> c.byId, ids |-> c.ids]
      /\ c.ids \in Seq(DOMAIN c.byId)
      /\ DOMAIN c.ids = 1..Len(c.ids) /\ Len(c.ids) \in Nat
  BY CollectionIs
<1>2. /\ p = [byId |-> p.byId, ids |-> c.ids]
      /\ p.byId \in Maps(E) /\ DOMAIN p.byId = Known(c) \cup {id} /\ p.byId[id] = e
      /\ \A i \in Known(c) \ {id} : p.byId[i] = c.byId[i]
  BY PutKeeps
<1>3. d = [p EXCEPT !.ids = ids]
  BY DEF T!addEntity, T!Known, Known
<1> HIDE DEF p, ids
<1>4. d = [byId |-> p.byId, ids |-> ids]
  BY <1>2, <1>3
<1>5. Known(c) = DOMAIN c.byId
  BY DEF Known
<1>6. CASE id \in Known(c)
  <2>1. ids = c.ids /\ DOMAIN p.byId = DOMAIN c.byId
    BY <1>2, <1>5, <1>6 DEF ids
  <2>2. d \in Collection(E)
    BY <1>1, <1>2, <1>4, <2>1, CollectionFrom
  <2> QED  BY <1>2, <1>4, <1>6, <2>1, <2>2 DEF Known, Once
<1>7. CASE id \notin Known(c)
  <2>1. ids = Append(c.ids, id)
    BY <1>7 DEF ids
  <2>2. c.ids \in Seq(DOMAIN p.byId) /\ id \in DOMAIN p.byId
    BY <1>1, <1>2, <1>5, SeqMonotonic
  <2>3. /\ ids \in Seq(DOMAIN p.byId) /\ Len(ids) = Len(c.ids) + 1
        /\ ids[Len(c.ids) + 1] = id /\ \A i \in 1..Len(c.ids) : ids[i] = c.ids[i]
    <3>1. PICK S, old : S = DOMAIN p.byId /\ old = c.ids
      OBVIOUS
    <3>2. old \in Seq(S) /\ id \in S
      BY <2>2, <3>1
    <3>3. /\ Append(old, id) \in Seq(S) /\ Len(Append(old, id)) = Len(old) + 1
          /\ Append(old, id)[Len(old) + 1] = id
          /\ \A i \in 1..Len(old) : Append(old, id)[i] = old[i]
      BY ONLY <3>2, AppendProperties
    <3> QED  BY <2>1, <3>1, <3>3
  <2>4. DOMAIN ids = 1..(Len(c.ids) + 1)
    BY <2>3, LenProperties
  <2>5. d \in Collection(E)
    BY <1>2, <1>4, <2>3, CollectionFrom
  <2>6. \A i \in 1..Len(c.ids) : c.ids[i] # id
    BY <1>1, <1>5, <1>7, ElementOfSeq
  <2>7. \A i \in DOMAIN ids : i = Len(c.ids) + 1 \/ i \in 1..Len(c.ids)
    BY <1>1, <2>4
  <2>8. Once(d, id)
    <3>1. Len(c.ids) + 1 \in DOMAIN ids /\ \A j \in DOMAIN ids : ids[j] = id => j = Len(c.ids) + 1
      BY <1>1, <2>3, <2>4, <2>6, <2>7
    <3> QED  BY <1>4, <2>3, <3>1 DEF Once
  <2>9. ASSUME NEW x, Once(c, x), x # id PROVE Once(d, x)
    <3>1. PICK i \in DOMAIN c.ids : c.ids[i] = x /\ \A j \in DOMAIN c.ids : c.ids[j] = x => i = j
      BY <2>9 DEF Once
    <3>2. i \in DOMAIN ids /\ ids[i] = x /\ \A j \in DOMAIN ids : ids[j] = x => i = j
      BY SMTT(60), <1>1, <2>3, <2>4, <2>7, <2>9, <3>1
    <3> QED  BY <1>4, <3>2 DEF Once
  <2> QED  BY <1>2, <1>4, <1>7, <2>5, <2>8, <2>9 DEF Known
<1> QED
  BY <1>6, <1>7

LEMMA RemoveKeeps ==
  ASSUME NEW E, NEW c \in Collection(E), NEW id, NEW d, d = T!removeEntity(c, id)
  PROVE  /\ d \in Collection(E) /\ Known(d) = Known(c) \ {id}
         /\ \A i \in Known(d) : d.byId[i] = c.byId[i]
         /\ \A x : Once(c, x) /\ x # id => Once(d, x)
<1>1. CASE id \notin Known(c)
  <2>1. d = c
    BY <1>1 DEF T!removeEntity, T!Known, Known
  <2> QED  BY <1>1, <2>1
<1>2. CASE id \in Known(c)
  <2>1. PICK f, others, ids :
          /\ f = [i \in Known(c) \ {id} |-> c.byId[i]]
          /\ others = {c.ids[i] : i \in DOMAIN c.ids} \ {id}
          /\ ids = T!Among(c.ids, others)
    OBVIOUS
  <2>2. d = [byId |-> f, ids |-> ids]
    BY <1>2, <2>1 DEF T!removeEntity, T!Known, Known
  <2>3. /\ c.ids \in Seq(DOMAIN c.byId) /\ DOMAIN c.ids = 1..Len(c.ids)
        /\ DOMAIN c.byId \subseteq Int /\ \A i \in DOMAIN c.byId : c.byId[i] \in E
    BY CollectionIs
  <2>4. ids \in Seq(DOMAIN c.byId) /\ AreChosen(ids, c.ids, Len(c.ids), others)
    BY ONLY <2>1, <2>3, AmongAreChosen
  <2>5. DOMAIN f = Known(c) \ {id} /\ f = [i \in DOMAIN f |-> f[i]]
        /\ \A i \in DOMAIN f : f[i] = c.byId[i]
    BY ONLY <2>1
  <2>6. f \in Maps(E)
    BY <2>3, <2>5, MapsAre DEF Known
  <2>7. ids \in Seq(DOMAIN f)
    <3>1. DOMAIN ids = 1..Len(ids) /\ Len(ids) \in Nat /\ ids \in [1..Len(ids) -> DOMAIN c.byId]
      BY <2>4, LenProperties
    <3>2. \A j \in DOMAIN ids : ids[j] \in others
      BY <2>4 DEF AreChosen
    <3>3. ids \in [1..Len(ids) -> DOMAIN f]
      BY <2>1, <2>5, <3>1, <3>2 DEF Known
    <3> QED  BY ONLY <3>1, <3>3, SeqDef
  <2>8. d \in Collection(E)
    BY <2>2, <2>6, <2>7, CollectionFrom
  <2>9. ASSUME NEW x, Once(c, x), x # id PROVE Once(d, x)
    <3>1. PICK i \in DOMAIN c.ids : c.ids[i] = x /\ \A j \in DOMAIN c.ids : c.ids[j] = x => i = j
      BY <2>9 DEF Once
    <3>2. PICK j \in DOMAIN ids : ids[j] = x
      <4>1. x \in others
        BY <2>1, <2>9, <3>1
      <4> QED  BY <2>3, <2>4, <3>1, <4>1 DEF AreChosen
    <3>3. ASSUME NEW l \in DOMAIN ids, ids[l] = x PROVE j = l
      BY ZenonT(60), <2>3, <2>4, <3>1, <3>2, <3>3 DEF AreChosen
    <3> QED  BY <2>2, <3>2, <3>3 DEF Once
  <2> QED  BY <2>2, <2>5, <2>8, <2>9 DEF Known
<1> QED
  BY <1>1, <1>2

-----------------------------------------------------------------------------
(* The reducers, for both slices.                                           *)
LEMMA SameHelpers ==
  /\ \A c, id, e : A!addEntity(c, id, e) = T!addEntity(c, id, e)
  /\ \A c, id : A!removeEntity(c, id) = T!removeEntity(c, id)
  /\ \A c, id, e : A!Put(c, id, e) = T!Put(c, id, e)
  /\ A!NoEntities = T!NoEntities
<1>1. \A s, chosen : A!Among(s, chosen) = T!Among(s, chosen)
  BY DEF A!Among, T!Among
<1> QED
  BY <1>1 DEF A!addEntity, T!addEntity, A!removeEntity, T!removeEntity, A!Put, T!Put,
              A!Known, T!Known, A!NoEntities, T!NoEntities

LEMMA NoEntitiesType ==
  ASSUME NEW E
  PROVE  T!NoEntities \in Collection(E) /\ Known(T!NoEntities) = {}
<1>1. PICK e : e = << >>
  OBVIOUS
<1>2. DOMAIN e = {} /\ e = [i \in DOMAIN e |-> e[i]] /\ e \in Seq(DOMAIN e)
  BY <1>1
<1>3. e \in Maps(E)
  BY ONLY <1>2, MapsAre
<1>4. T!NoEntities = [byId |-> e, ids |-> e]
  BY <1>1 DEF T!NoEntities
<1>5. T!NoEntities \in Collection(E)
  BY ONLY <1>2, <1>3, <1>4, CollectionFrom
<1> QED
  BY <1>2, <1>4, <1>5 DEF Known

FromServer(k, t) ==
  IF k = "account" THEN A!FromServer(t) ELSE T!backendTransactionToTransaction(t)

\* What is listed as the server numbers it.
LEMMA NumberedType ==
  ASSUME NEW E, NEW n \in Nat, NEW f, f = [i \in 1..n |-> f[i]], \A i \in 1..n : f[i] \in E
  PROVE  LET c == [byId |-> f, ids |-> [i \in 1..n |-> i]]
         IN  c \in Collection(E) /\ Known(c) = 1..n /\ \A i \in 1..n : Once(c, i)
<1>1. PICK ids : ids = [i \in 1..n |-> i]
  OBVIOUS
<1> DEFINE c == [byId |-> f, ids |-> ids]
<1>2. DOMAIN f = 1..n /\ DOMAIN ids = 1..n /\ ids \in [1..n -> 1..n]
  BY <1>1
<1>3. ids \in Seq(DOMAIN f)
  BY <1>2, SeqDef
<1>4. f \in Maps(E)
  BY SMTT(60), <1>2, MapsAre
<1>5. c \in Collection(E)
  BY <1>3, <1>4, CollectionFrom
<1>6. \A i \in 1..n : Once(c, i)
  BY <1>1, <1>2 DEF Once
<1> QED
  BY <1>1, <1>2, <1>5, <1>6 DEF Known

\* The server numbers positions and files, from 1.
Numbered(k, t) ==
  k = "transaction" => /\ \A p \in Known(t.positions) : p > 0
                       /\ \A f \in Known(t.files) : f > 0

LEMMA FromServerType ==
  ASSUME NEW k \in Kinds, NEW t \in StoredEntity(k), NEW e, e = FromServer(k, t)
  PROVE  e \in Entity(k) /\ e.ver = t.ver /\ ~e.is_wip /\ Numbered(k, e)
<1>1. CASE k = "account"
  BY <1>1 DEF Numbered, FromServer, A!FromServer, Entity, AccountDraft, StoredEntity, StoredAccount
<1>2. CASE k = "transaction"
  <2>1. t \in StoredTransaction
    BY <1>2 DEF StoredEntity
  <2>2. t.positions \in Seq(StoredItem) /\ t.files \in Seq(StoredItem)
    BY <2>1 DEF StoredTransaction
  <2>3. PICK ps, fs, m, n : /\ ps = t.positions /\ fs = t.files /\ m = Len(ps) /\ n = Len(fs)
    OBVIOUS
  <2>4. /\ m \in Nat /\ DOMAIN ps = 1..m /\ \A i \in 1..m : ps[i] \in StoredItem
        /\ n \in Nat /\ DOMAIN fs = 1..n /\ \A i \in 1..n : fs[i] \in StoredItem
    BY ONLY <2>2, <2>3, LenProperties, ElementOfSeq
  <2>5. PICK f : f = [p \in 1..m |-> [what |-> ps[p].what, deleted |-> ps[p].deleted,
                                      is_changed |-> FALSE, only_local |-> FALSE]]
    OBVIOUS
  <2>6. PICK g : g = [i \in 1..n |-> [what |-> fs[i].what, deleted |-> fs[i].deleted,
                                      type |-> "backend"]]
    OBVIOUS
  <2>7. f = [i \in 1..m |-> f[i]] /\ \A i \in 1..m : f[i] \in Row
    BY ONLY <2>4, <2>5 DEF Row, StoredItem
  <2>8. g = [i \in 1..n |-> g[i]] /\ \A i \in 1..n : g[i] \in File
    BY ONLY <2>4, <2>6 DEF File, StoredItem
  <2>9. [byId |-> f, ids |-> [p \in 1..m |-> p]] \in Collection(Row)
    BY ONLY <2>4, <2>7, NumberedType
  <2>10. [byId |-> g, ids |-> [p \in 1..n |-> p]] \in Collection(File)
    BY ONLY <2>4, <2>8, NumberedType
  <2>11. e = [fields |-> t.fields, deleted |-> t.deleted, ver |-> t.ver, is_wip |-> FALSE,
              positions |-> [byId |-> f, ids |-> [p \in 1..m |-> p]],
              files |-> [byId |-> g, ids |-> [p \in 1..n |-> p]]]
    BY <1>2, <2>3, <2>4, <2>5, <2>6 DEF FromServer, T!backendTransactionToTransaction
  <2>12. DOMAIN f = 1..m /\ DOMAIN g = 1..n /\ (\A i \in 1..m : i > 0) /\ (\A i \in 1..n : i > 0)
    BY ONLY <2>4, <2>5, <2>6
  <2>13. (\A p \in Known(e.positions) : p > 0) /\ (\A i \in Known(e.files) : i > 0)
    BY ONLY <2>4, <2>5, <2>6, <2>11, <2>12 DEF Known
  <2> QED
    BY ONLY <1>2, <2>1, <2>9, <2>10, <2>11, <2>13
       DEF Entity, TransactionDraft, StoredTransaction, Numbered
<1> QED
  BY <1>1, <1>2 DEF Kinds

LEMMA SliceParts ==
  ASSUME NEW k \in Kinds, NEW s \in Slice(k)
  PROVE  /\ s.saved \in Collection(Entity(k)) /\ s.wip \in Collection(Entity(k))
         /\ s.status \in Status /\ s.nextId \in Int
  BY DEF Slice, Kinds, AccountState, TransactionState, Entity

\* A slice with other contents; the counters of positions and files aside.
Remade(s, saved, wip, status, nextId) ==
  [s EXCEPT !.saved = saved, !.wip = wip, !.status = status, !.nextId = nextId]

\* The counters of positions and files only fall.
Lower(k, s, u) ==
  k = "transaction" => u.nextPosition <= s.nextPosition /\ u.nextFile <= s.nextFile

LEMMA SliceWith ==
  ASSUME NEW k \in Kinds, NEW s \in Slice(k),
         NEW saved \in Collection(Entity(k)), NEW wip \in Collection(Entity(k)),
         NEW status \in Status, NEW nextId \in Int,
         NEW u, u = Remade(s, saved, wip, status, nextId)
  PROVE  /\ u \in Slice(k) /\ u.saved = saved /\ u.wip = wip /\ u.status = status /\ u.nextId = nextId
         /\ Lower(k, s, u)
<1>1. CASE k = "account"
  BY <1>1 DEF Lower, Remade, Slice, AccountState, Entity
<1>2. CASE k = "transaction"
  <2>1. s \in TransactionState /\ Entity(k) = TransactionDraft
    BY <1>2 DEF Slice, Entity
  <2>2. /\ u \in TransactionState /\ u.saved = saved /\ u.wip = wip /\ u.status = status
        /\ u.nextId = nextId /\ u.nextPosition = s.nextPosition /\ u.nextFile = s.nextFile
    BY <2>1 DEF Remade, TransactionState
  <2>3. s.nextPosition \in Int /\ s.nextFile \in Int
    BY <2>1 DEF TransactionState
  <2> QED  BY <1>2, <2>2, <2>3 DEF Slice, Lower
<1> QED
  BY <1>1, <1>2 DEF Kinds

LEMMA LowerSame == \A k \in Kinds : \A s \in Slice(k) : Lower(k, s, s)
  BY DEF Lower, Slice, TransactionState, Kinds

LEMMA Fetched ==
  ASSUME NEW k \in Kinds, NEW s \in Slice(k), NEW list \in Seq(StoredEntity(k)),
         NEW u, u = IF k = "account" THEN A!fetchFulfilled(s, list) ELSE T!fetchFulfilled(s, list)
  PROVE  /\ u \in Slice(k) /\ u.wip = s.wip /\ u.nextId = s.nextId /\ Lower(k, s, u)
         /\ s.status = "absent" => u = s
         /\ s.status # "absent" =>
              /\ u.status = "initialized" /\ Known(u.saved) = DOMAIN list
              /\ \A i \in DOMAIN list :
                   /\ ~u.saved.byId[i].is_wip /\ u.saved.byId[i].ver = list[i].ver
                   /\ Numbered(k, u.saved.byId[i]) /\ Once(u.saved, i)
<1>1. CASE s.status = "absent"
  BY <1>1, LowerSame DEF A!fetchFulfilled, T!fetchFulfilled, A!HasGroup, T!HasGroup
<1>2. CASE s.status # "absent"
  <2>1. PICK n : n = Len(list)
    OBVIOUS
  <2>2. n \in Nat /\ DOMAIN list = 1..n /\ \A i \in 1..n : list[i] \in StoredEntity(k)
    BY <2>1, LenProperties, ElementOfSeq
  <2>3. PICK f : f = [i \in 1..n |-> FromServer(k, list[i])]
    OBVIOUS
  <2>4. \A i \in 1..n : f[i] \in Entity(k) /\ f[i].ver = list[i].ver /\ ~f[i].is_wip
                          /\ Numbered(k, f[i])
    BY <2>2, <2>3, FromServerType
  <2>5. PICK c : c = [byId |-> f, ids |-> [i \in 1..n |-> i]]
    OBVIOUS
  <2>6. c \in Collection(Entity(k)) /\ Known(c) = 1..n /\ \A i \in 1..n : Once(c, i)
    <3>1. f = [i \in 1..n |-> f[i]]
      BY <2>3
    <3>2. \A i \in 1..n : f[i] \in Entity(k)
      BY <2>4
    <3> QED  BY ONLY <2>2, <2>5, <3>1, <3>2, NumberedType
  <2>7. u = Remade(s, c, s.wip, "initialized", s.nextId)
    <3>1. CASE k = "account"
      <4>1. u = [s EXCEPT !.status = "initialized", !.saved = c]
        BY <1>2, <2>2, <2>3, <2>5, <3>1 DEF A!fetchFulfilled, A!HasGroup, FromServer
      <4> QED  BY <3>1, <4>1 DEF Remade, Slice, AccountState
    <3>2. CASE k = "transaction"
      <4>1. u = [s EXCEPT !.status = "initialized", !.saved = c]
        BY <1>2, <2>2, <2>3, <2>5, <3>2 DEF T!fetchFulfilled, T!HasGroup, FromServer
      <4> QED  BY <3>2, <4>1 DEF Remade, Slice, TransactionState
    <3> QED  BY <3>1, <3>2 DEF Kinds
  <2>8. "initialized" \in Status /\ s.wip \in Collection(Entity(k)) /\ s.nextId \in Int
    BY SliceParts DEF Status
  <2>9. u \in Slice(k) /\ u.saved = c /\ u.wip = s.wip /\ u.status = "initialized" /\ u.nextId = s.nextId
      /\ Lower(k, s, u)
    BY ONLY <2>6, <2>7, <2>8, k \in Kinds, s \in Slice(k), SliceWith
  <2>10. c.byId = f
    BY <2>5
  <2> QED  BY <1>2, <2>2, <2>4, <2>6, <2>9, <2>10
<1> QED
  BY <1>1, <1>2

\* An answer with one entity, which ends the draft old.
LEMMA Answered1 ==
  ASSUME NEW k \in Kinds, NEW s \in Slice(k), NEW old, NEW id \in Int, NEW t \in StoredEntity(k),
         NEW u, u = IF k = "account" THEN A!saveFulfilled(s, old, id, t)
                                     ELSE T!saveFulfilled(s, old, id, t)
  PROVE  /\ u \in Slice(k) /\ u.status = s.status /\ u.nextId = s.nextId /\ Lower(k, s, u)
         /\ s.status = "absent" => u = s
         /\ s.status # "absent" => u.saved = T!addEntity(s.saved, id, FromServer(k, t))
                                     /\ u.wip = T!removeEntity(s.wip, old)
<1>1. CASE s.status = "absent"
  BY <1>1, LowerSame DEF A!saveFulfilled, T!saveFulfilled, A!HasGroup, T!HasGroup
<1>2. CASE s.status # "absent"
  <2>1. PICK c, w : c = T!addEntity(s.saved, id, FromServer(k, t)) /\ w = T!removeEntity(s.wip, old)
    OBVIOUS
  <2>2. s.saved \in Collection(Entity(k)) /\ s.wip \in Collection(Entity(k))
        /\ s.status \in Status /\ s.nextId \in Int
    BY SliceParts
  <2>3. FromServer(k, t) \in Entity(k)
    BY FromServerType
  <2>4. c \in Collection(Entity(k)) /\ w \in Collection(Entity(k))
    BY ONLY <2>1, <2>2, <2>3, id \in Int, AddKeeps, RemoveKeeps
  <2>5. u = Remade(s, c, w, s.status, s.nextId)
    <3>1. u = [s EXCEPT !.saved = c, !.wip = w]
      BY <1>2, <2>1, SameHelpers
         DEF A!saveFulfilled, T!saveFulfilled, A!HasGroup, T!HasGroup, FromServer
    <3> QED  BY <3>1 DEF Remade, Slice, Kinds, AccountState, TransactionState
  <2>6. u \in Slice(k) /\ u.saved = c /\ u.wip = w /\ u.status = s.status /\ u.nextId = s.nextId
      /\ Lower(k, s, u)
    BY ONLY <2>2, <2>4, <2>5, k \in Kinds, s \in Slice(k), SliceWith
  <2> QED  BY <1>2, <2>1, <2>6
<1> QED
  BY <1>1, <1>2

LEMMA DeletedIsAnswered ==
  \A k, s, id, t : /\ A!deleteFulfilled(s, id, t) = A!saveFulfilled(s, id, id, t)
                   /\ T!deleteFulfilled(s, id, t) = T!saveFulfilled(s, id, id, t)
  BY DEF A!deleteFulfilled, A!saveFulfilled, T!deleteFulfilled, T!saveFulfilled

\* Giving up a draft, and deleting one the server does not know.
LEMMA Dropped ==
  ASSUME NEW k \in Kinds, NEW s \in Slice(k), NEW id,
         NEW u, \/ u = IF k = "account" THEN A!discardChange(s, id) ELSE T!discardChange(s, id)
                \/ u = IF k = "account" THEN A!deleteLocal(s, id) ELSE T!deleteLocal(s, id),
         s.status # "absent"
  PROVE  /\ u \in Slice(k) /\ u.status = s.status /\ u.nextId = s.nextId /\ u.saved = s.saved
         /\ Lower(k, s, u)
         /\ u.wip = T!removeEntity(s.wip, id)
<1>1. PICK w : w = T!removeEntity(s.wip, id)
  OBVIOUS
<1>2. s.saved \in Collection(Entity(k)) /\ s.wip \in Collection(Entity(k))
      /\ s.status \in Status /\ s.nextId \in Int
  BY SliceParts
<1>3. w \in Collection(Entity(k))
  BY ONLY <1>1, <1>2, RemoveKeeps
<1>4. u = Remade(s, s.saved, w, s.status, s.nextId)
  <2>1. u = [s EXCEPT !.wip = w]
    BY <1>1, SameHelpers
       DEF A!discardChange, T!discardChange, A!deleteLocal, T!deleteLocal, A!HasGroup, T!HasGroup
  <2> QED  BY <2>1 DEF Remade, Slice, Kinds, AccountState, TransactionState
<1>5. u \in Slice(k) /\ u.saved = s.saved /\ u.wip = w /\ u.status = s.status /\ u.nextId = s.nextId
      /\ Lower(k, s, u)
  BY ONLY <1>2, <1>3, <1>4, k \in Kinds, s \in Slice(k), SliceWith
<1> QED  BY <1>1, <1>5

\* A draft that is new.
NewDraft(k, fields) == IF k = "account" THEN A!NewAccount(fields) ELSE T!NewTransaction(fields)

LEMMA NewDraftType ==
  ASSUME NEW k \in Kinds, NEW fields \in FieldsOf(k), NEW e, e = NewDraft(k, fields)
  PROVE  e \in Entity(k) /\ e.is_wip /\ View(k, e) = [fields |-> fields, items |-> {}]
<1>1. CASE k = "account"
  BY <1>1 DEF NewDraft, A!NewAccount, Entity, AccountDraft, View
<1>2. CASE k = "transaction"
  <2>1. e = [fields |-> fields, deleted |-> FALSE, ver |-> 0, is_wip |-> TRUE,
             positions |-> T!NoEntities, files |-> T!NoEntities]
    BY <1>2 DEF NewDraft, T!NewTransaction
  <2>2. T!NoEntities \in Collection(Row) /\ T!NoEntities \in Collection(File)
        /\ Known(T!NoEntities) = {}
    BY NoEntitiesType
  <2>3. e \in TransactionDraft
    BY ONLY <1>2, <2>1, <2>2, fields \in FieldsOf(k) DEF TransactionDraft
  <2>4. T!selectPositions(e) = {} /\ T!selectFiles(e) = {}
    BY <2>1, <2>2 DEF T!selectPositions, T!selectFiles, T!Known, Known
  <2>5. View(k, e) = [fields |-> fields, items |-> {}]
    BY <1>2, <2>1, <2>4 DEF View
  <2> QED  BY <1>2, <2>1, <2>3, <2>5 DEF Entity
<1> QED
  BY <1>1, <1>2 DEF Kinds

LEMMA Created ==
  ASSUME NEW k \in Kinds, NEW s \in Slice(k), NEW fields \in FieldsOf(k), s.status # "absent",
         NEW u, u = IF k = "account" THEN A!createFulfilled(s, fields) ELSE T!createFulfilled(s, fields)
  PROVE  /\ u \in Slice(k) /\ u.status = s.status /\ u.nextId = s.nextId - 1 /\ u.saved = s.saved
         /\ Lower(k, s, u)
         /\ u.wip = T!addEntity(s.wip, s.nextId, NewDraft(k, fields))
<1>1. PICK w : w = T!addEntity(s.wip, s.nextId, NewDraft(k, fields))
  OBVIOUS
<1>2. s.saved \in Collection(Entity(k)) /\ s.wip \in Collection(Entity(k))
      /\ s.status \in Status /\ s.nextId \in Int
  BY SliceParts
<1>3. NewDraft(k, fields) \in Entity(k)
  BY NewDraftType
<1>4. w \in Collection(Entity(k)) /\ s.nextId - 1 \in Int
  BY ONLY <1>1, <1>2, <1>3, AddKeeps
<1>5. u = Remade(s, s.saved, w, s.status, s.nextId - 1)
  <2>1. u = [s EXCEPT !.nextId = s.nextId - 1, !.wip = w]
    BY <1>1, SameHelpers DEF A!createFulfilled, T!createFulfilled, A!HasGroup, T!HasGroup, NewDraft
  <2> QED  BY <2>1 DEF Remade, Slice, Kinds, AccountState, TransactionState
<1>6. u \in Slice(k) /\ u.saved = s.saved /\ u.wip = w /\ u.status = s.status /\ u.nextId = s.nextId - 1
      /\ Lower(k, s, u)
  BY ONLY <1>2, <1>4, <1>5, k \in Kinds, s \in Slice(k), SliceWith
<1> QED  BY <1>1, <1>6

LEMMA Copied ==
  ASSUME NEW s \in Slice("account"), NEW fields \in FieldsOf("account"),
         NEW id \in Known(s.wip) \cup Known(s.saved),
         NEW u, u = A!copyAccount(s, id, fields)
  PROVE  /\ u \in Slice("account") /\ u.status = s.status /\ u.nextId = s.nextId - 1
         /\ u.saved = s.saved /\ Lower("account", s, u)
         /\ \E e \in Entity("account") :
              /\ e.is_wip /\ View("account", e) = [fields |-> fields, items |-> {}]
              /\ u.wip = T!addEntity(s.wip, s.nextId, e)
<1>1. PICK a, e, w : /\ a = A!selectAccountById(s, id)
                     /\ e = [a EXCEPT !.fields = fields, !.is_wip = TRUE]
                     /\ w = T!addEntity(s.wip, s.nextId, e)
  BY ZenonT(60)
<1>2. s.saved \in Collection(Entity("account")) /\ s.wip \in Collection(Entity("account"))
      /\ s.status \in Status /\ s.nextId \in Int
  BY SliceParts DEF Kinds
<1>3. a \in Entity("account")
  <2>1. \A i \in Known(s.saved) : s.saved.byId[i] \in Entity("account")
    BY <1>2, CollectionIs DEF Known
  <2>2. \A i \in Known(s.wip) : s.wip.byId[i] \in Entity("account")
    BY <1>2, CollectionIs DEF Known
  <2> QED  BY <1>1, <2>1, <2>2 DEF A!selectAccountById, A!Over, A!Known, Known
<1>4. e \in Entity("account") /\ e.is_wip /\ e.fields = fields
  BY <1>1, <1>3 DEF Entity, AccountDraft
<1>5. w \in Collection(Entity("account")) /\ s.nextId - 1 \in Int
  BY ONLY <1>1, <1>2, <1>4, AddKeeps
<1>6. u = Remade(s, s.saved, w, s.status, s.nextId - 1)
  <2>1. u = [s EXCEPT !.nextId = s.nextId - 1, !.wip = w]
    BY <1>1, SameHelpers DEF A!copyAccount
  <2> QED  BY <2>1 DEF Remade, Slice, AccountState
<1>7. u \in Slice("account") /\ u.saved = s.saved /\ u.wip = w /\ u.status = s.status
      /\ u.nextId = s.nextId - 1 /\ Lower("account", s, u)
  <2>1. "account" \in Kinds
    BY DEF Kinds
  <2> QED  BY ONLY <1>2, <1>5, <1>6, <2>1, s \in Slice("account"), SliceWith
<1>8. View("account", e) = [fields |-> fields, items |-> {}]
  BY <1>4 DEF View
<1> QED  BY <1>1, <1>4, <1>7, <1>8

LEMMA Entities1 ==
  ASSUME NEW k \in Kinds, NEW e \in Entity(k)
  PROVE  /\ e.is_wip \in BOOLEAN /\ e.fields \in FieldsOf(k) /\ e.ver \in Nat
         /\ k = "transaction" => e.positions \in Collection(Row) /\ e.files \in Collection(File)
  BY DEF Entity, Kinds, AccountDraft, TransactionDraft

Marked(e) == [e EXCEPT !.is_wip = TRUE]
LEMMA MarkedType ==
  ASSUME NEW k \in Kinds, NEW e \in Entity(k)
  PROVE  /\ Marked(e) \in Entity(k) /\ Marked(e).is_wip /\ View(k, Marked(e)) = View(k, e)
         /\ Marked(e).fields = e.fields
         /\ k = "transaction" => Marked(e).positions = e.positions /\ Marked(e).files = e.files
<1>1. CASE k = "account"
  BY <1>1 DEF Marked, Entity, AccountDraft, View
<1>2. CASE k = "transaction"
  <2>1. /\ Marked(e) \in Entity(k) /\ Marked(e).is_wip /\ Marked(e).fields = e.fields
        /\ Marked(e).positions = e.positions /\ Marked(e).files = e.files
    BY <1>2 DEF Marked, Entity, TransactionDraft
  <2> QED  BY <1>2, <2>1 DEF View, T!selectPositions, T!selectFiles
<1> QED
  BY <1>1, <1>2 DEF Kinds

LEMMA EditStarted ==
  ASSUME NEW k \in Kinds, NEW s \in Slice(k), NEW id \in Known(s.saved), id \notin Known(s.wip),
         s.status # "absent",
         NEW u, u = IF k = "account" THEN A!editStarted(s, id) ELSE T!editStarted(s, id)
  PROVE  /\ u \in Slice(k) /\ u.status = s.status /\ u.nextId = s.nextId /\ u.saved = s.saved
         /\ Lower(k, s, u)
         /\ u.wip = T!addEntity(s.wip, id, Marked(s.saved.byId[id]))
<1>1. PICK e, w, p : e = Marked(s.saved.byId[id]) /\ w = T!addEntity(s.wip, id, e)
                     /\ p = T!Put(s.wip, id, e)
  OBVIOUS
<1>2. s.saved \in Collection(Entity(k)) /\ s.wip \in Collection(Entity(k))
      /\ s.status \in Status /\ s.nextId \in Int
  BY SliceParts
<1>3. s.saved.byId[id] \in Entity(k) /\ id \in Int
  BY <1>2, CollectionIs DEF Known
<1>4. e \in Entity(k)
  BY <1>1, <1>3, MarkedType
<1>5. w \in Collection(Entity(k))
  BY ONLY <1>1, <1>2, <1>3, <1>4, AddKeeps
<1>6. p.ids = s.wip.ids
  BY ONLY <1>1, <1>2, <1>3, <1>4, PutKeeps
<1>7. w = [p EXCEPT !.ids = Append(p.ids, id)]
  BY ONLY <1>1, <1>6, id \notin Known(s.wip) DEF T!addEntity, T!Known, Known
<1>8. u = Remade(s, s.saved, w, s.status, s.nextId)
  <2>2. u = [s EXCEPT !.wip = w]
    BY <1>1, <1>7, SameHelpers
       DEF A!editStarted, T!editStarted, A!moveAccountToWip, T!moveTransactionToWip,
           A!HasGroup, T!HasGroup, A!Known, T!Known, Known, Marked
  <2> QED  BY ZenonT(60), <2>2 DEF Remade, Slice, Kinds, AccountState, TransactionState
<1>9. u \in Slice(k) /\ u.saved = s.saved /\ u.wip = w /\ u.status = s.status /\ u.nextId = s.nextId
      /\ Lower(k, s, u)
  BY ONLY <1>2, <1>5, <1>8, k \in Kinds, s \in Slice(k), SliceWith
<1> QED  BY <1>1, <1>9

\* The collection d is c, but for one entity: it is e now, or it went.
Changed(c, d, id, e) ==
  /\ Known(d) = Known(c) \cup {id} /\ d.byId[id] = e
  /\ \A i \in Known(c) \ {id} : d.byId[i] = c.byId[i]
  /\ \A x : Once(c, x) /\ (x = id => id \in Known(c)) => Once(d, x)
Gone(c, d, id) ==
  /\ Known(d) = Known(c) \ {id}
  /\ \A i \in Known(d) : d.byId[i] = c.byId[i]
  /\ \A x : Once(c, x) /\ x # id => Once(d, x)

LEMMA PutOver ==
  ASSUME NEW E, NEW c \in Collection(E), NEW id \in Known(c), NEW e \in E,
         NEW d, d = T!Put(c, id, e)
  PROVE  d \in Collection(E) /\ Changed(c, d, id, e)
<1>1. id \in Int /\ c.ids \in Seq(DOMAIN c.byId)
  BY CollectionIs DEF Known
<1>2. /\ d.ids = c.ids /\ d = [byId |-> d.byId, ids |-> c.ids]
      /\ d.byId \in Maps(E) /\ DOMAIN d.byId = Known(c) \cup {id} /\ d.byId[id] = e
      /\ \A i \in Known(c) \ {id} : d.byId[i] = c.byId[i]
  BY <1>1, PutKeeps
<1>3. DOMAIN d.byId = DOMAIN c.byId
  BY <1>2 DEF Known
<1>4. d \in Collection(E)
  BY <1>1, <1>2, <1>3, CollectionFrom
<1> QED
  BY <1>2, <1>3, <1>4 DEF Changed, Known, Once

LEMMA AddChanges ==
  ASSUME NEW E, NEW c \in Collection(E), NEW id \in Int, NEW e \in E,
         NEW d, d = T!addEntity(c, id, e)
  PROVE  d \in Collection(E) /\ Changed(c, d, id, e) /\ (id \notin Known(c) => Once(d, id))
BY AddKeeps DEF Changed

LEMMA RemoveIsGone ==
  ASSUME NEW E, NEW c \in Collection(E), NEW id, NEW d, d = T!removeEntity(c, id)
  PROVE  d \in Collection(E) /\ Gone(c, d, id)
BY RemoveKeeps DEF Gone

\* A slice in which only drafts differ.
OnlyWip(k, s, u) ==
  /\ u \in Slice(k) /\ u.saved = s.saved /\ u.status = s.status /\ u.nextId = s.nextId
  /\ Lower(k, s, u)

LEMMA WipUpdated ==
  ASSUME NEW k \in Kinds, NEW s \in Slice(k), NEW id \in Int, NEW t \in Entity(k), t.is_wip,
         s.status # "absent",
         NEW u, u = IF k = "account" THEN A!wipUpdated(s, id, t) ELSE T!wipUpdated(s, id, t)
  PROVE  /\ OnlyWip(k, s, u) /\ Changed(s.wip, u.wip, id, t)
         /\ k = "transaction" => u.nextPosition = s.nextPosition /\ u.nextFile = s.nextFile
<1>1. PICK p, again, w : /\ p = T!Put(s.wip, id, t)
                         /\ again = IF id \in Known(s.wip) THEN <<>> ELSE <<id, id>>
                         /\ w = [p EXCEPT !.ids = p.ids \o again]
  OBVIOUS
<1>2. s.saved \in Collection(Entity(k)) /\ s.wip \in Collection(Entity(k))
      /\ s.status \in Status /\ s.nextId \in Int
  BY SliceParts
<1>3. /\ p.ids = s.wip.ids /\ p = [byId |-> p.byId, ids |-> s.wip.ids]
      /\ p.byId \in Maps(Entity(k)) /\ DOMAIN p.byId = Known(s.wip) \cup {id} /\ p.byId[id] = t
      /\ \A i \in Known(s.wip) \ {id} : p.byId[i] = s.wip.byId[i]
  BY ONLY <1>1, <1>2, id \in Int, t \in Entity(k), PutKeeps
<1>4. PICK old, new, S : old = s.wip.ids /\ new = old \o again /\ S = DOMAIN p.byId
  OBVIOUS
<1>5. w = [byId |-> p.byId, ids |-> new]
  BY ONLY <1>1, <1>3, <1>4
<1>6. /\ old \in Seq(DOMAIN s.wip.byId) /\ Len(old) \in Nat /\ DOMAIN old = 1..Len(old)
      /\ \A i \in DOMAIN old : old[i] \in Known(s.wip)
  BY <1>2, <1>4, CollectionIs, ElementOfSeq DEF Known
<1>7. old \in Seq(S) /\ again \in Seq(S) /\ Len(again) \in Nat
      /\ \A i \in 1..Len(again) : again[i] = id /\ id \notin Known(s.wip)
  <2>1. old \in Seq(S) /\ id \in S
    BY <1>3, <1>4, <1>6, SeqMonotonic DEF Known
  <2>2. CASE id \in Known(s.wip)
    BY <1>1, <2>1, <2>2
  <2>3. CASE id \notin Known(s.wip)
    BY <1>1, <2>1, <2>3
  <2> QED  BY <2>1, <2>2, <2>3
<1>8. /\ new \in Seq(S) /\ DOMAIN new = 1..(Len(old) + Len(again))
      /\ \A i \in 1..Len(old) : new[i] = old[i]
      /\ \A i \in DOMAIN new : i \in 1..Len(old) \/ (new[i] = id /\ id \notin Known(s.wip))
  <2>1. /\ new \in Seq(S) /\ Len(new) = Len(old) + Len(again)
        /\ \A i \in 1..(Len(old) + Len(again)) :
             new[i] = IF i <= Len(old) THEN old[i] ELSE again[i - Len(old)]
    <3>1. new = old \o again
      BY <1>4
    <3>2. old \in Seq(S) /\ again \in Seq(S)
      BY <1>7
    <3> QED  BY ONLY <3>1, <3>2, ConcatProperties
  <2>2. DOMAIN new = 1..(Len(old) + Len(again))
    BY <2>1, LenProperties
  <2>3. ASSUME NEW i \in DOMAIN new, i \notin 1..Len(old)
        PROVE  new[i] = id /\ id \notin Known(s.wip)
    <3>1. i - Len(old) \in 1..Len(again) /\ new[i] = again[i - Len(old)]
      BY <1>6, <1>7, <2>1, <2>2, <2>3
    <3> QED  BY <1>7, <3>1
  <2>4. \A i \in 1..Len(old) : new[i] = old[i]
    BY <1>6, <1>7, <2>1
  <2> QED  BY <2>1, <2>2, <2>3, <2>4
<1>9. w \in Collection(Entity(k))
  BY <1>3, <1>4, <1>5, <1>8, CollectionFrom
<1>10. Changed(s.wip, w, id, t)
  <2>1. ASSUME NEW x, Once(s.wip, x), x = id => id \in Known(s.wip)
        PROVE  Once(w, x)
    <3>1. PICK i \in DOMAIN old : old[i] = x /\ \A j \in DOMAIN old : old[j] = x => i = j
      BY <1>4, <2>1 DEF Once
    <3>2. x # id \/ id \in Known(s.wip)
      BY <2>1
    <3>3. i \in DOMAIN new /\ new[i] = x
      BY <1>6, <1>7, <1>8, <3>1
    <3>4. ASSUME NEW j \in DOMAIN new, new[j] = x PROVE i = j
      BY <1>6, <1>8, <3>1, <3>2, <3>4
    <3> QED  BY <1>5, <3>3, <3>4 DEF Once
  <2> QED  BY <1>3, <1>5, <2>1 DEF Changed, Known
<1>11. u = [s EXCEPT !.wip = w]
  <2>1. CASE k = "account"
    BY <1>1, <2>1, SameHelpers DEF A!wipUpdated, A!HasGroup, A!Known, Known
  <2>2. CASE k = "transaction"
    <3>1. [t EXCEPT !.is_wip = TRUE] = t
      BY <2>2 DEF Entity, TransactionDraft
    <3> QED  BY <1>1, <2>2, <3>1 DEF T!wipUpdated, T!HasGroup, T!Known, Known
  <2> QED  BY <2>1, <2>2 DEF Kinds
<1>12. u = Remade(s, s.saved, w, s.status, s.nextId)
  BY <1>11 DEF Remade, Slice, Kinds, AccountState, TransactionState
<1>13. u \in Slice(k) /\ u.saved = s.saved /\ u.wip = w /\ u.status = s.status /\ u.nextId = s.nextId
       /\ Lower(k, s, u)
  BY ONLY <1>2, <1>9, <1>12, k \in Kinds, s \in Slice(k), SliceWith
<1>14. k = "transaction" => u.nextPosition = s.nextPosition /\ u.nextFile = s.nextFile
  BY <1>11 DEF Slice, TransactionState
<1> QED
  BY <1>10, <1>13, <1>14 DEF OnlyWip

-----------------------------------------------------------------------------
(* What is seen of positions and files.                                     *)
Seen(c) == {c.byId[p].what : p \in {q \in Known(c) : ~c.byId[q].deleted}}
SeenBut(c, p) == {c.byId[q].what : q \in {r \in Known(c) : ~c.byId[r].deleted} \ {p}}

LEMMA SeenPut ==
  ASSUME NEW c, NEW d, NEW p, NEW e, Changed(c, d, p, e), ~e.deleted
  PROVE  Seen(d) = SeenBut(c, p) \cup {e.what}
BY DEF Changed, Seen, SeenBut

LEMMA SeenGone ==
  ASSUME NEW c, NEW d, NEW p, NEW e, Gone(c, d, p) \/ (Changed(c, d, p, e) /\ e.deleted)
  PROVE  Seen(d) = SeenBut(c, p)
BY DEF Changed, Gone, Seen, SeenBut

LEMMA SeenOf ==
  ASSUME NEW c, NEW p
  PROVE  /\ p \in Known(c) /\ ~c.byId[p].deleted => Seen(c) = SeenBut(c, p) \cup {c.byId[p].what}
         /\ p \notin Known(c) => Seen(c) = SeenBut(c, p)
BY DEF Seen, SeenBut

LEMMA ViewIs ==
  ASSUME NEW t
  PROVE  View("transaction", t) = [fields |-> t.fields, items |-> Seen(t.positions) \cup Seen(t.files)]
BY DEF View, Seen, T!selectPositions, T!selectFiles, T!Known, Known

WithRows(t, c) == [t EXCEPT !.positions = c]
WithDocs(t, c) == [t EXCEPT !.files = c]

LEMMA WithRowsType ==
  ASSUME NEW t \in TransactionDraft, NEW c \in Collection(Row), NEW e, e = WithRows(t, c)
  PROVE  /\ e \in TransactionDraft /\ e.positions = c /\ e.files = t.files /\ e.fields = t.fields
         /\ e.is_wip = t.is_wip
BY DEF WithRows, TransactionDraft

LEMMA WithDocsType ==
  ASSUME NEW t \in TransactionDraft, NEW c \in Collection(File), NEW e, e = WithDocs(t, c)
  PROVE  /\ e \in TransactionDraft /\ e.positions = t.positions /\ e.files = c /\ e.fields = t.fields
         /\ e.is_wip = t.is_wip
BY DEF WithDocs, TransactionDraft

\* The slice s with other counters of positions and files, and other drafts.
Counting(s, position, file) == [s EXCEPT !.nextPosition = position, !.nextFile = file]
Recounted(s, position, file, w) == [Counting(s, position, file) EXCEPT !.wip = w]

LEMMA ItemsChanged ==
  ASSUME NEW s \in TransactionState, NEW id \in Known(s.wip), NEW e \in TransactionDraft,
         NEW position \in Int, NEW file \in Int,
         position <= s.nextPosition, file <= s.nextFile,
         NEW u, u = Recounted(s, position, file, T!Put(s.wip, id, e))
  PROVE  /\ OnlyWip("transaction", s, u) /\ Changed(s.wip, u.wip, id, e)
         /\ u.nextPosition = position /\ u.nextFile = file
<1>1. PICK w : w = T!Put(s.wip, id, e)
  OBVIOUS
<1>2. s.wip \in Collection(TransactionDraft)
  BY DEF TransactionState
<1>3. w \in Collection(TransactionDraft) /\ Changed(s.wip, w, id, e)
  BY ONLY <1>1, <1>2, id \in Known(s.wip), e \in TransactionDraft, PutOver
<1>4. u = [s EXCEPT !.wip = w, !.nextPosition = position, !.nextFile = file]
  BY <1>1 DEF Recounted, Counting, TransactionState
<1>5. /\ u \in TransactionState /\ u.wip = w /\ u.saved = s.saved /\ u.status = s.status
      /\ u.nextId = s.nextId /\ u.nextPosition = position /\ u.nextFile = file
  BY ONLY <1>3, <1>4, s \in TransactionState, position \in Int, file \in Int DEF TransactionState
<1> QED
  BY <1>3, <1>5 DEF OnlyWip, Lower, Slice

\* One kind of change to a draft on the page: its positions or files are other
\* ones, and what is seen is what went and what came.
WithItems(view, gone, come) == [view EXCEPT !.items = (@ \ gone) \cup come]
ItemStep(s, u, id, gone, come) ==
  \E e \in TransactionDraft :
    /\ OnlyWip("transaction", s, u) /\ Changed(s.wip, u.wip, id, e)
    /\ e.is_wip /\ Room(u, e)
    /\ View("transaction", e) = WithItems(View("transaction", s.wip.byId[id]), gone, come)

LEMMA ItemView ==
  ASSUME NEW t, NEW e, NEW gone, NEW come, e.fields = t.fields,
         Seen(e.positions) \cup Seen(e.files)
           = ((Seen(t.positions) \cup Seen(t.files)) \ gone) \cup come
  PROVE  View("transaction", e) = WithItems(View("transaction", t), gone, come)
BY ViewIs DEF WithItems

\* The draft of id, in a slice the page may show.
Drafted(s, id) ==
  /\ s \in TransactionState /\ id \in Known(s.wip) /\ s.wip.byId[id].is_wip
  /\ Room(s, s.wip.byId[id])

LEMMA DraftedHas ==
  ASSUME NEW s, NEW id, Drafted(s, id), NEW d, d = s.wip.byId[id]
  PROVE  /\ d \in TransactionDraft /\ d.positions \in Collection(Row) /\ d.files \in Collection(File)
         /\ s.nextPosition \in Int /\ s.nextFile \in Int
<1>1. s.wip \in Collection(TransactionDraft)
  BY DEF Drafted, TransactionState
<1>2. d \in TransactionDraft
  BY <1>1, CollectionIs DEF Drafted, Known
<1> QED
  BY <1>2 DEF TransactionDraft, Drafted, TransactionState

LEMMA RowsStep ==
  ASSUME NEW s, NEW id, Drafted(s, id), NEW d, d = s.wip.byId[id],
         NEW c \in Collection(Row), NEW position \in Int, position <= s.nextPosition,
         \A p \in Known(c) : position < p,
         NEW u, u = T!WithPositions(Counting(s, position, s.nextFile), id, c),
         NEW gone, NEW come,
         Seen(c) \cup Seen(d.files) = ((Seen(d.positions) \cup Seen(d.files)) \ gone) \cup come
  PROVE  ItemStep(s, u, id, gone, come)
<1>1. /\ d \in TransactionDraft /\ s.nextPosition \in Int /\ s.nextFile \in Int
      /\ s \in TransactionState /\ id \in Known(s.wip) /\ d.is_wip
      /\ \A f \in Known(d.files) : s.nextFile < f
  BY DraftedHas DEF Drafted, Room
<1>2. PICK e : e = WithRows(d, c)
  OBVIOUS
<1>3. e \in TransactionDraft /\ e.positions = c /\ e.files = d.files /\ e.fields = d.fields /\ e.is_wip
  BY <1>1, <1>2, WithRowsType
<1>4. PICK v : v = Counting(s, position, s.nextFile)
  OBVIOUS
<1>5. v.wip = s.wip
  BY <1>1, <1>4 DEF Counting, TransactionState
<1>6. u = Recounted(s, position, s.nextFile, T!Put(s.wip, id, e))
  BY <1>2, <1>4, <1>5 DEF T!WithPositions, WithRows, Recounted
<1>7. /\ OnlyWip("transaction", s, u) /\ Changed(s.wip, u.wip, id, e)
      /\ u.nextPosition = position /\ u.nextFile = s.nextFile
  <2>1. s.nextFile <= s.nextFile /\ s.nextPosition <= s.nextPosition
    BY <1>1
  <2> QED  BY <1>1, <1>3, <1>6, <2>1, ItemsChanged
<1>8. Room(u, e)
  BY <1>1, <1>3, <1>7 DEF Room
<1>9. View("transaction", e) = WithItems(View("transaction", d), gone, come)
  BY ONLY <1>3, ItemView,
     Seen(c) \cup Seen(d.files) = ((Seen(d.positions) \cup Seen(d.files)) \ gone) \cup come
<1> QED
  BY <1>3, <1>7, <1>8, <1>9 DEF ItemStep

LEMMA DocsStep ==
  ASSUME NEW s, NEW id, Drafted(s, id), NEW d, d = s.wip.byId[id],
         NEW c \in Collection(File), NEW file \in Int, file <= s.nextFile,
         \A f \in Known(c) : file < f,
         NEW u, u = T!WithFiles(Counting(s, s.nextPosition, file), id, c),
         NEW gone, NEW come,
         Seen(d.positions) \cup Seen(c) = ((Seen(d.positions) \cup Seen(d.files)) \ gone) \cup come
  PROVE  ItemStep(s, u, id, gone, come)
<1>1. /\ d \in TransactionDraft /\ s.nextPosition \in Int /\ s.nextFile \in Int
      /\ s \in TransactionState /\ id \in Known(s.wip) /\ d.is_wip
      /\ \A p \in Known(d.positions) : s.nextPosition < p
  BY DraftedHas DEF Drafted, Room
<1>2. PICK e : e = WithDocs(d, c)
  OBVIOUS
<1>3. e \in TransactionDraft /\ e.positions = d.positions /\ e.files = c /\ e.fields = d.fields
      /\ e.is_wip
  BY <1>1, <1>2, WithDocsType
<1>4. PICK v : v = Counting(s, s.nextPosition, file)
  OBVIOUS
<1>5. v.wip = s.wip
  BY <1>1, <1>4 DEF Counting, TransactionState
<1>6. u = Recounted(s, s.nextPosition, file, T!Put(s.wip, id, e))
  BY <1>2, <1>4, <1>5 DEF T!WithFiles, WithDocs, Recounted
<1>7. /\ OnlyWip("transaction", s, u) /\ Changed(s.wip, u.wip, id, e)
      /\ u.nextPosition = s.nextPosition /\ u.nextFile = file
  <2>1. s.nextFile <= s.nextFile /\ s.nextPosition <= s.nextPosition
    BY <1>1
  <2> QED  BY <1>1, <1>3, <1>6, <2>1, ItemsChanged
<1>8. Room(u, e)
  BY <1>1, <1>3, <1>7 DEF Room
<1>9. View("transaction", e) = WithItems(View("transaction", d), gone, come)
  BY ONLY <1>3, ItemView,
     Seen(d.positions) \cup Seen(c) = ((Seen(d.positions) \cup Seen(d.files)) \ gone) \cup come
<1> QED
  BY <1>3, <1>7, <1>8, <1>9 DEF ItemStep

\* The five changes to positions and files.
LEMMA CountingSame ==
  ASSUME NEW s \in TransactionState
  PROVE  /\ Counting(s, s.nextPosition, s.nextFile) = s
         /\ [s EXCEPT !.nextPosition = s.nextPosition - 1]
              = Counting(s, s.nextPosition - 1, s.nextFile)
         /\ [s EXCEPT !.nextFile = s.nextFile - 1]
              = Counting(s, s.nextPosition, s.nextFile - 1)
         /\ [s EXCEPT !.nextPosition = s.nextPosition] = s
BY DEF Counting, TransactionState

LEMMA MoveKnown ==
  ASSUME NEW s, NEW id \in Known(s.wip)
  PROVE  T!moveTransactionToWip(s, id) = s
BY DEF T!moveTransactionToWip, T!Known, Known

\* A row, or a file, that is new.
LEMMA SeenAdded ==
  ASSUME NEW E, NEW c \in Collection(E), NEW x \in Int, \A p \in Known(c) : x < p,
         NEW e \in E, ~e.deleted, NEW d, d = T!addEntity(c, x, e)
  PROVE  d \in Collection(E) /\ Seen(d) = Seen(c) \cup {e.what}
         /\ \A p \in Known(d) : x - 1 < p
<1>1. d \in Collection(E) /\ Changed(c, d, x, e)
  BY AddChanges
<1>2. Seen(d) = SeenBut(c, x) \cup {e.what}
  BY ONLY <1>1, ~e.deleted, SeenPut
<1>3. x \notin Known(c)
  OBVIOUS
<1>4. Seen(c) = SeenBut(c, x)
  BY <1>3, SeenOf
<1>5. Known(c) \subseteq Int
  BY CollectionIs DEF Known
<1>6. \A p \in Known(d) : x - 1 < p
  BY <1>1, <1>5 DEF Changed
<1> QED
  BY <1>1, <1>2, <1>4, <1>6

NewRow(what) == [what |-> what, deleted |-> FALSE, is_changed |-> TRUE, only_local |-> TRUE]

LEMMA RowAdded ==
  ASSUME NEW s, NEW id, Drafted(s, id), NEW what \in Int,
         NEW u, \/ u = T!wipPositionAdded(s, id, what)
                \/ what # T!Blank /\ u = T!wipPositionUpdated(s, id, s.nextPosition, what)
  PROVE  ItemStep(s, u, id, {}, {what})
<1>1. PICK d, c, x, e : /\ d = s.wip.byId[id] /\ x = s.nextPosition /\ e = NewRow(what)
                        /\ c = T!addEntity(d.positions, x, e)
  OBVIOUS
<1>2. /\ d.positions \in Collection(Row) /\ x \in Int /\ \A p \in Known(d.positions) : x < p
      /\ s \in TransactionState /\ id \in Known(s.wip)
  BY <1>1, DraftedHas DEF Drafted, Room
<1>3. e \in Row /\ e.what = what /\ ~e.deleted
  BY <1>1 DEF NewRow, Row
<1>4. c \in Collection(Row) /\ Seen(c) = Seen(d.positions) \cup {what}
      /\ \A p \in Known(c) : x - 1 < p
  BY <1>1, <1>2, <1>3, SeenAdded
<1>5. T!moveTransactionToWip(s, id) = s
  BY <1>2, MoveKnown
<1>6. u = T!WithPositions(Counting(s, x - 1, s.nextFile), id, c)
  <2>1. x \notin Known(d.positions)
    BY <1>2
  <2>2. CASE u = T!wipPositionAdded(s, id, what)
    BY <1>1, <1>2, <1>5, <2>2, CountingSame DEF T!wipPositionAdded, NewRow
  <2>3. CASE what # T!Blank /\ u = T!wipPositionUpdated(s, id, s.nextPosition, what)
    BY <1>1, <1>2, <1>5, <2>1, <2>3, CountingSame
       DEF T!wipPositionUpdated, NewRow, T!Known, Known
  <2> QED  BY <2>2, <2>3
<1>7. Seen(c) \cup Seen(d.files) = ((Seen(d.positions) \cup Seen(d.files)) \ {}) \cup {what}
  BY <1>4
<1>8. x - 1 \in Int /\ x - 1 <= s.nextPosition
  BY <1>1, <1>2
<1> QED
  BY ONLY <1>1, <1>4, <1>6, <1>7, <1>8, Drafted(s, id), RowsStep

NewDoc(what) == [what |-> what, deleted |-> FALSE, type |-> "new"]

LEMMA FileAdded ==
  ASSUME NEW s, NEW id, Drafted(s, id), NEW what \in Int,
         NEW u, u = T!wipFileAdded(s, id, what)
  PROVE  ItemStep(s, u, id, {}, {what})
<1>1. PICK d, c, x, e : /\ d = s.wip.byId[id] /\ x = s.nextFile
                        /\ e = NewDoc(what)
                        /\ c = T!addEntity(d.files, x, e)
  OBVIOUS
<1>2. /\ d.files \in Collection(File) /\ x \in Int /\ \A f \in Known(d.files) : x < f
      /\ s \in TransactionState /\ id \in Known(s.wip)
  BY <1>1, DraftedHas DEF Drafted, Room
<1>3. e \in File /\ e.what = what /\ ~e.deleted
  BY <1>1 DEF NewDoc, File
<1>4. c \in Collection(File) /\ Seen(c) = Seen(d.files) \cup {what}
      /\ \A f \in Known(c) : x - 1 < f
  BY <1>1, <1>2, <1>3, SeenAdded
<1>5. T!moveTransactionToWip(s, id) = s
  BY <1>2, MoveKnown
<1>6. u = T!WithFiles(Counting(s, s.nextPosition, x - 1), id, c)
  BY <1>1, <1>2, <1>5, CountingSame DEF T!wipFileAdded, NewDoc
<1>7. Seen(d.positions) \cup Seen(c) = ((Seen(d.positions) \cup Seen(d.files)) \ {}) \cup {what}
  BY <1>4
<1>8. x - 1 \in Int /\ x - 1 <= s.nextFile
  BY <1>1, <1>2
<1> QED
  BY ONLY <1>1, <1>4, <1>6, <1>7, <1>8, Drafted(s, id), DocsStep

\* A row that is typed into, and one that goes.
LEMMA RowChanged ==
  ASSUME NEW s, NEW id, Drafted(s, id), NEW what \in Int,
         NEW ps, ps = s.wip.byId[id].positions, NEW p \in Known(ps), ~ps.byId[p].deleted,
         NEW rest, rest = SeenBut(ps, p) \cup Seen(s.wip.byId[id].files),
         NEW u, NEW come,
         \/ u = T!wipPositionUpdated(s, id, p, what) /\ come = {what}
         \/ u = T!positionDeleted(s, id, p) /\ come = {}
  PROVE  ItemStep(s, u, id, {ps.byId[p].what} \ rest, come)
<1>1. PICK d, x, row : d = s.wip.byId[id] /\ x = s.nextPosition /\ row = ps.byId[p]
  OBVIOUS
<1>2. /\ ps \in Collection(Row) /\ x \in Int /\ (\A q \in Known(ps) : x < q)
      /\ s \in TransactionState /\ id \in Known(s.wip)
  BY <1>1, DraftedHas DEF Drafted, Room
<1>3. p \in Int /\ row \in Row
  BY <1>1, <1>2, CollectionIs DEF Known
<1>4. T!moveTransactionToWip(s, id) = s
  BY <1>2, MoveKnown
<1>5. PICK c : \/ /\ come = {what}
                  /\ c = T!addEntity(ps, p, [row EXCEPT !.what = what, !.is_changed = TRUE])
                  /\ u = T!WithPositions(s, id, c)
               \/ /\ come = {}
                  /\ \/ c = T!removeEntity(ps, p)
                     \/ c = T!Put(ps, p, [row EXCEPT !.deleted = TRUE, !.is_changed = TRUE])
                  /\ u = T!WithPositions(s, id, c)
  <2>1. CASE u = T!wipPositionUpdated(s, id, p, what) /\ come = {what}
    <3>1. p # x
      BY <1>2
    <3> QED
      BY <1>1, <1>2, <1>4, <2>1, <3>1, CountingSame DEF T!wipPositionUpdated, T!Known, Known
  <2>2. CASE u = T!positionDeleted(s, id, p) /\ come = {}
    BY <1>1, <1>4, <2>2 DEF T!positionDeleted, T!Known, Known
  <2> QED  BY SMTT(60), <2>1, <2>2
<1>6. /\ c \in Collection(Row) /\ Seen(c) = SeenBut(ps, p) \cup come
      /\ Known(c) \subseteq Known(ps)
  <2>1. ASSUME NEW e \in Row, Changed(ps, c, p, e), ~e.deleted, come = {e.what}
        PROVE  Seen(c) = SeenBut(ps, p) \cup come /\ Known(c) \subseteq Known(ps)
    <3>1. Seen(c) = SeenBut(ps, p) \cup {e.what}
      BY ONLY SMTT(60), <2>1, SeenPut
    <3> QED  BY <2>1, <3>1 DEF Changed
  <2>2. ASSUME NEW e, Gone(ps, c, p) \/ (Changed(ps, c, p, e) /\ e.deleted), come = {}
        PROVE  Seen(c) = SeenBut(ps, p) \cup come /\ Known(c) \subseteq Known(ps)
    <3>1. Seen(c) = SeenBut(ps, p)
      BY ONLY SMTT(60), <2>2, SeenGone
    <3> QED  BY <2>2, <3>1 DEF Changed, Gone
  <2>3. CASE come = {what} /\ c = T!addEntity(ps, p, [row EXCEPT !.what = what, !.is_changed = TRUE])
    <3>1. PICK e : e = [row EXCEPT !.what = what, !.is_changed = TRUE]
      BY SMTT(60)
    <3>2. e \in Row /\ ~e.deleted /\ e.what = what
      BY <1>1, <1>3, <3>1 DEF Row
    <3>3. c \in Collection(Row) /\ Changed(ps, c, p, e)
      <4>1. c = T!addEntity(ps, p, e)
        BY <2>3, <3>1
      <4> QED  BY ONLY <1>2, <1>3, <3>2, <4>1, AddChanges
    <3> QED  BY <2>1, <2>3, <3>2, <3>3
  <2>4. CASE come = {} /\ c = T!removeEntity(ps, p)
    <3>1. c \in Collection(Row) /\ Gone(ps, c, p)
      BY ONLY SMTT(60), <1>2, <2>4, RemoveIsGone
    <3> QED  BY <2>2, <2>4, <3>1
  <2>5. CASE come = {} /\ c = T!Put(ps, p, [row EXCEPT !.deleted = TRUE, !.is_changed = TRUE])
    <3>1. PICK e : e = [row EXCEPT !.deleted = TRUE, !.is_changed = TRUE]
      BY SMTT(60)
    <3>2. e \in Row /\ e.deleted
      BY <1>1, <1>3, <3>1 DEF Row
    <3>3. c \in Collection(Row) /\ Changed(ps, c, p, e)
      <4>1. c = T!Put(ps, p, e)
        BY <2>5, <3>1
      <4> QED  BY ONLY <1>2, <3>2, <4>1, p \in Known(ps), PutOver
    <3> QED  BY <2>2, <2>5, <3>2, <3>3
  <2> QED  BY <1>5, <2>3, <2>4, <2>5
<1>7. u = T!WithPositions(Counting(s, x, s.nextFile), id, c)
  BY <1>1, <1>2, <1>5, CountingSame
<1>8. Seen(ps) = SeenBut(ps, p) \cup {row.what}
  BY <1>1, SeenOf
<1>9. Seen(c) \cup Seen(d.files) = ((Seen(ps) \cup Seen(d.files)) \ ({row.what} \ rest)) \cup come
  BY ONLY <1>1, <1>6, <1>8, rest = SeenBut(ps, p) \cup Seen(s.wip.byId[id].files)
<1>10. x <= s.nextPosition /\ \A q \in Known(c) : x < q
  BY <1>1, <1>2, <1>6
<1>11. d.positions = ps
  BY <1>1
<1>12. ItemStep(s, u, id, {row.what} \ rest, come)
  BY ONLY SMTT(60), <1>1, <1>2, <1>6, <1>7, <1>9, <1>10, <1>11, Drafted(s, id), RowsStep
<1> QED
  BY SMTT(60), <1>1, <1>12

LEMMA FileDropped ==
  ASSUME NEW s, NEW id, Drafted(s, id),
         NEW fs, fs = s.wip.byId[id].files, NEW f \in Known(fs), ~fs.byId[f].deleted,
         NEW rest, rest = Seen(s.wip.byId[id].positions) \cup SeenBut(fs, f),
         NEW u, u = T!wipFileDeleted(s, id, f)
  PROVE  ItemStep(s, u, id, {fs.byId[f].what} \ rest, {})
<1>1. PICK d, x, doc : d = s.wip.byId[id] /\ x = s.nextFile /\ doc = fs.byId[f]
  OBVIOUS
<1>2. /\ fs \in Collection(File) /\ x \in Int /\ (\A q \in Known(fs) : x < q)
      /\ s \in TransactionState /\ id \in Known(s.wip)
  BY <1>1, DraftedHas DEF Drafted, Room
<1>3. doc \in File
  BY <1>1, <1>2, CollectionIs DEF Known
<1>4. T!moveTransactionToWip(s, id) = s
  BY SMTT(60), <1>2, MoveKnown
<1>5. PICK c : /\ \/ c = T!removeEntity(fs, f)
                  \/ c = T!Put(fs, f, [doc EXCEPT !.type = "updated", !.deleted = TRUE])
               /\ u = T!WithFiles(s, id, c)
  BY <1>1, <1>4 DEF T!wipFileDeleted, T!Known, Known
<1>6. /\ c \in Collection(File) /\ Seen(c) = SeenBut(fs, f)
      /\ Known(c) \subseteq Known(fs)
  <2>1. CASE c = T!removeEntity(fs, f)
    <3>1. c \in Collection(File) /\ Gone(fs, c, f)
      BY ONLY <1>2, <2>1, RemoveIsGone
    <3> QED  BY <3>1, SeenGone DEF Gone
  <2>2. CASE c = T!Put(fs, f, [doc EXCEPT !.type = "updated", !.deleted = TRUE])
    <3>1. PICK e : e = [doc EXCEPT !.type = "updated", !.deleted = TRUE]
      BY SMTT(60)
    <3>2. e \in File /\ e.deleted
      BY <1>1, <1>3, <3>1 DEF File
    <3>3. c \in Collection(File) /\ Changed(fs, c, f, e)
      <4>1. c = T!Put(fs, f, e)
        BY <2>2, <3>1
      <4> QED  BY ONLY <1>2, <3>2, <4>1, f \in Known(fs), PutOver
    <3> QED  BY <3>2, <3>3, SeenGone DEF Changed
  <2> QED  BY <1>5, <2>1, <2>2
<1>7. u = T!WithFiles(Counting(s, s.nextPosition, x), id, c)
  BY <1>1, <1>2, <1>5, CountingSame
<1>8. Seen(fs) = SeenBut(fs, f) \cup {doc.what}
  BY <1>1, SeenOf
<1>9. Seen(d.positions) \cup Seen(c)
        = ((Seen(d.positions) \cup Seen(fs)) \ ({doc.what} \ rest)) \cup {}
  BY ONLY <1>1, <1>6, <1>8, rest = Seen(s.wip.byId[id].positions) \cup SeenBut(fs, f)
<1>10. x <= s.nextFile /\ \A q \in Known(c) : x < q
  BY <1>1, <1>2, <1>6
<1>11. d.files = fs
  BY <1>1
<1>12. ItemStep(s, u, id, {doc.what} \ rest, {})
  BY ONLY <1>1, <1>2, <1>6, <1>7, <1>9, <1>10, <1>11, Drafted(s, id), DocsStep
<1> QED
  BY <1>1, <1>12

\* The reducers of the lists: they are asked for, they fail, and the group goes.
Pending(k, s) == IF k = "account" THEN A!fetchPending(A!setStatus(s, "loading"))
                 ELSE T!fetchPending(T!setStatus(s, "loading"))
Rejected(k, s) == IF k = "account" THEN A!fetchRejected(s) ELSE T!fetchRejected(s)
Left(k, s) == IF k = "account" THEN A!leaveGroupFulfilled(s) ELSE T!leaveGroupFulfilled(s)
InitialSlice(k) == IF k = "account" THEN A!initialState ELSE T!initialState

LEMMA PendingIs ==
  ASSUME NEW k \in Kinds, NEW s \in Slice(k), NEW u, u = Pending(k, s)
  PROVE  /\ u \in Slice(k) /\ u.saved = s.saved /\ u.wip = s.wip /\ u.nextId = s.nextId
         /\ Lower(k, s, u) /\ u.status = "loading"
<1>1. u = Remade(s, s.saved, s.wip, "loading", s.nextId)
  <2>1. CASE k = "account"
    <3>1. A!initializeGroupState(s) \in AccountState
          /\ [A!initializeGroupState(s) EXCEPT !.status = "loading"] = [s EXCEPT !.status = "loading"]
      BY <2>1 DEF A!initializeGroupState, Slice, AccountState, Status
    <3>2. A!setStatus(s, "loading") = [s EXCEPT !.status = "loading"]
      BY <3>1 DEF A!setStatus
    <3>3. [s EXCEPT !.status = "loading"].status = "loading"
      BY <2>1 DEF Slice, AccountState
    <3>4. u = [s EXCEPT !.status = "loading"]
      BY <2>1, <3>2, <3>3 DEF Pending, A!fetchPending, A!initializeGroupState, A!HasGroup
    <3> QED  BY <2>1, <3>4 DEF Remade, Slice, AccountState
  <2>2. CASE k = "transaction"
    <3>1. T!initializeGroupState(s) \in TransactionState
          /\ [T!initializeGroupState(s) EXCEPT !.status = "loading"] = [s EXCEPT !.status = "loading"]
      BY <2>2 DEF T!initializeGroupState, Slice, TransactionState, Status
    <3>2. T!setStatus(s, "loading") = [s EXCEPT !.status = "loading"]
      BY <3>1 DEF T!setStatus
    <3>3. [s EXCEPT !.status = "loading"].status = "loading"
      BY <2>2 DEF Slice, TransactionState
    <3>4. u = [s EXCEPT !.status = "loading"]
      BY <2>2, <3>2, <3>3 DEF Pending, T!fetchPending, T!initializeGroupState, T!HasGroup
    <3> QED  BY <2>2, <3>4 DEF Remade, Slice, TransactionState
  <2> QED  BY <2>1, <2>2 DEF Kinds
<1>2. /\ s.saved \in Collection(Entity(k)) /\ s.wip \in Collection(Entity(k))
      /\ "loading" \in Status /\ s.nextId \in Int
  BY SliceParts DEF Status
<1> QED
  BY ONLY <1>1, <1>2, k \in Kinds, s \in Slice(k), SliceWith

LEMMA RejectedIs ==
  ASSUME NEW k \in Kinds, NEW s \in Slice(k), NEW u, u = Rejected(k, s)
  PROVE  /\ u \in Slice(k) /\ u.saved = s.saved /\ u.wip = s.wip /\ u.nextId = s.nextId
         /\ Lower(k, s, u)
         /\ u.status = IF s.status = "absent" THEN "absent" ELSE "failed"
<1>1. CASE s.status = "absent"
  BY <1>1, LowerSame DEF Rejected, A!fetchRejected, T!fetchRejected, A!HasGroup, T!HasGroup
<1>2. CASE s.status # "absent"
  <2>1. u = [s EXCEPT !.status = "failed"]
    BY <1>2 DEF Rejected, A!fetchRejected, T!fetchRejected, A!HasGroup, T!HasGroup
  <2>2. u = Remade(s, s.saved, s.wip, "failed", s.nextId)
    BY <2>1 DEF Remade, Slice, Kinds, AccountState, TransactionState
  <2>3. /\ s.saved \in Collection(Entity(k)) /\ s.wip \in Collection(Entity(k))
        /\ "failed" \in Status /\ s.nextId \in Int
    BY SliceParts DEF Status
  <2>4. u \in Slice(k) /\ u.saved = s.saved /\ u.wip = s.wip /\ u.status = "failed"
        /\ u.nextId = s.nextId /\ Lower(k, s, u)
    BY ONLY <2>2, <2>3, k \in Kinds, s \in Slice(k), SliceWith
  <2> QED  BY <1>2, <2>4
<1> QED
  BY <1>1, <1>2

LEMMA LeftIs ==
  ASSUME NEW k \in Kinds, NEW s \in Slice(k), NEW u, u = Left(k, s)
  PROVE  /\ u \in Slice(k) /\ Known(u.saved) = {} /\ Known(u.wip) = {} /\ u.nextId = s.nextId
         /\ Lower(k, s, u) /\ u.status = "absent"
<1>1. PICK e : e = T!NoEntities
  OBVIOUS
<1>2. e \in Collection(TransactionDraft) /\ e \in Collection(AccountDraft) /\ Known(e) = {}
  BY <1>1, NoEntitiesType
<1>3. CASE k = "account"
  <2>1. u = [saved |-> e, wip |-> e, status |-> "absent", nextId |-> s.nextId]
    BY <1>1, <1>3, SameHelpers DEF Left, A!leaveGroupFulfilled, A!initialState
  <2> QED  BY ONLY <1>2, <1>3, <2>1, s \in Slice(k) DEF Slice, AccountState, Status, Lower
<1>4. CASE k = "transaction"
  <2>1. u = [saved |-> e, wip |-> e, status |-> "absent", nextId |-> s.nextId,
             nextPosition |-> s.nextPosition, nextFile |-> s.nextFile]
    BY <1>1, <1>4 DEF Left, T!leaveGroupFulfilled, T!initialState
  <2> QED  BY ONLY <1>2, <1>4, <2>1, s \in Slice(k) DEF Slice, TransactionState, Status, Lower
<1> QED
  BY <1>3, <1>4 DEF Kinds

LEMMA InitialIs ==
  ASSUME NEW k \in Kinds, NEW u, u = InitialSlice(k)
  PROVE  /\ u \in Slice(k) /\ Known(u.saved) = {} /\ Known(u.wip) = {} /\ u.nextId = -1
         /\ u.status = "absent"
         /\ k = "transaction" => u.nextPosition = -1 /\ u.nextFile = -1
<1>1. PICK e : e = T!NoEntities
  OBVIOUS
<1>2. e \in Collection(TransactionDraft) /\ e \in Collection(AccountDraft) /\ Known(e) = {}
  BY <1>1, NoEntitiesType
<1>3. CASE k = "account"
  <2>1. u = [saved |-> e, wip |-> e, status |-> "absent", nextId |-> -1]
    BY <1>1, <1>3, SameHelpers DEF InitialSlice, A!initialState
  <2> QED  BY ONLY <1>2, <1>3, <2>1 DEF Slice, AccountState, Status
<1>4. CASE k = "transaction"
  <2>1. u = [saved |-> e, wip |-> e, status |-> "absent", nextId |-> -1,
             nextPosition |-> -1, nextFile |-> -1]
    BY <1>1, <1>4 DEF InitialSlice, T!initialState
  <2> QED  BY ONLY <1>2, <1>4, <2>1 DEF Slice, TransactionState, Status
<1> QED
  BY <1>3, <1>4 DEF Kinds

-----------------------------------------------------------------------------
(* The server stores what it is sent.                                       *)
Refielded(t, fields) == [t EXCEPT !.fields = fields]

LEMMA ApplyAny ==
  ASSUME NEW k \in Kinds, NEW f \in StoredEntity(k), NEW z, NEW old, old = Refielded(f, z),
         NEW t \in Entity(k), NEW u, u = Apply(k, old, t)
  PROVE  u \in StoredEntity(k) /\ u.ver = f.ver + 1 /\ u.origin = f.origin
<1>1. CASE k = "account"
  <2>1. u = [old EXCEPT !.fields = t.fields, !.ver = @ + 1]
    BY <1>1 DEF Apply
  <2>2. t.fields \in FieldsOf("account") /\ f \in StoredAccount
    BY <1>1 DEF Entity, AccountDraft, StoredEntity
  <2>3. PICK fields, v : fields = t.fields /\ v = old.ver + 1
    OBVIOUS
  <2>4. f.ver \in Nat /\ old.ver = f.ver
    BY <2>2 DEF Refielded, StoredAccount
  <2>5. v \in Nat /\ v = f.ver + 1
    BY <2>3, <2>4
  <2>6. old = [f EXCEPT !.fields = z]
    BY DEF Refielded
  <2>7. u = [f EXCEPT !.fields = fields, !.ver = v]
    BY ONLY <2>1, <2>2, <2>3, <2>6 DEF StoredAccount
  <2>8. fields \in FieldsOf("account")
    BY <2>2, <2>3
  <2>9. u \in StoredAccount /\ u.ver = v /\ u.origin = f.origin
    BY ONLY <2>2, <2>5, <2>7, <2>8 DEF StoredAccount
  <2> QED  BY <1>1, <2>5, <2>9 DEF StoredEntity
<1>2. CASE k = "transaction"
  <2>1. /\ t.positions \in Collection(Row) /\ t.files \in Collection(File)
        /\ old.positions \in Seq(StoredItem) /\ old.files \in Seq(StoredItem)
        /\ f \in StoredTransaction /\ t.fields \in FieldsOf("transaction")
    BY <1>2 DEF Entity, TransactionDraft, StoredEntity, StoredTransaction, Refielded
  <2>2. PICK b : b = T!saveBody(t)
    OBVIOUS
  <2>3. PICK ps, new, os, chosen : /\ ps = t.positions.byId /\ new = b.new_positions
                                   /\ os = old.positions /\ chosen = b.changed_positions
    OBVIOUS
  <2>4. PICK fs, added, of, changed : /\ fs = t.files.byId /\ added = b.new_files
                                      /\ of = old.files /\ changed = b.changed_files
    OBVIOUS
  <2>5. /\ new \in Seq(DOMAIN ps) /\ chosen \subseteq DOMAIN ps
        /\ \A p \in DOMAIN ps : ps[p] \in Row
        /\ os \in Seq(StoredItem) /\ b.positions = ps
    <3>1. t.positions.ids \in Seq(DOMAIN ps) /\ \A p \in DOMAIN ps : ps[p] \in Row
      BY <2>1, <2>3, CollectionIs
    <3>2. PICK c : b.new_positions = T!Among(t.positions.ids, c)
      BY <2>2 DEF T!saveBody
    <3>3. new \in Seq(DOMAIN ps)
      BY <2>3, <3>1, <3>2, AmongAreChosen
    <3>4. chosen \subseteq DOMAIN ps /\ b.positions = ps
      BY <2>2, <2>3 DEF T!saveBody, T!Known
    <3> QED  BY <2>1, <2>3, <3>1, <3>3, <3>4
  <2>6. /\ added \in Seq(DOMAIN fs) /\ changed \subseteq DOMAIN fs
        /\ \A g \in DOMAIN fs : fs[g] \in File
        /\ of \in Seq(StoredItem) /\ b.files = fs
    <3>1. t.files.ids \in Seq(DOMAIN fs) /\ \A g \in DOMAIN fs : fs[g] \in File
      BY <2>1, <2>4, CollectionIs
    <3>2. PICK c : b.new_files = T!Among(t.files.ids, c)
      BY <2>2 DEF T!saveBody
    <3>3. added \in Seq(DOMAIN fs)
      BY <2>4, <3>1, <3>2, AmongAreChosen
    <3>4. changed \subseteq DOMAIN fs /\ b.files = fs
      BY <2>2, <2>4 DEF T!saveBody, T!Known
    <3> QED  BY <2>1, <2>4, <3>1, <3>3, <3>4
  <2> DEFINE row(p) == [what |-> ps[p].what, deleted |-> ps[p].deleted]
             doc(g) == [what |-> fs[g].what, deleted |-> fs[g].deleted]
             kept == [p \in DOMAIN os |-> IF p \in chosen THEN row(p) ELSE os[p]]
             come == [i \in DOMAIN new |-> row(new[i])]
             keptFiles == [g \in DOMAIN of |-> IF g \in changed THEN doc(g) ELSE of[g]]
             comeFiles == [i \in DOMAIN added |-> doc(added[i])]
  <2>7. (\A p \in DOMAIN ps : row(p) \in StoredItem) /\ (\A g \in DOMAIN fs : doc(g) \in StoredItem)
    BY <2>5, <2>6 DEF Row, File, StoredItem
  <2>8. /\ DOMAIN os = 1..Len(os) /\ Len(os) \in Nat /\ \A i \in DOMAIN os : os[i] \in StoredItem
        /\ DOMAIN of = 1..Len(of) /\ Len(of) \in Nat /\ \A i \in DOMAIN of : of[i] \in StoredItem
        /\ DOMAIN new = 1..Len(new) /\ Len(new) \in Nat /\ \A i \in DOMAIN new : new[i] \in DOMAIN ps
        /\ DOMAIN added = 1..Len(added) /\ Len(added) \in Nat
        /\ \A i \in DOMAIN added : added[i] \in DOMAIN fs
    BY <2>5, <2>6, LenProperties, ElementOfSeq
  <2>9. kept \in Seq(StoredItem)
    <3>1. kept \in [1..Len(os) -> StoredItem]
      <4> HIDE DEF row
      <4> QED  BY <2>5, <2>7, <2>8
    <3> QED  BY <2>8, <3>1, SeqDef
  <2>10. come \in Seq(StoredItem)
    <3>1. come \in [1..Len(new) -> StoredItem]
      <4> HIDE DEF row
      <4> QED  BY <2>7, <2>8
    <3> QED  BY <2>8, <3>1, SeqDef
  <2>11. keptFiles \in Seq(StoredItem)
    <3>1. keptFiles \in [1..Len(of) -> StoredItem]
      <4> HIDE DEF doc
      <4> QED  BY <2>6, <2>7, <2>8
    <3> QED  BY <2>8, <3>1, SeqDef
  <2>12. comeFiles \in Seq(StoredItem)
    <3>1. comeFiles \in [1..Len(added) -> StoredItem]
      <4> HIDE DEF doc
      <4> QED  BY <2>7, <2>8
    <3> QED  BY <2>8, <3>1, SeqDef
  <2>13. b.fields = t.fields
    BY SMTT(60), <2>2 DEF T!saveBody
  <2>14. u = [old EXCEPT !.fields = t.fields, !.ver = @ + 1,
                         !.positions = kept \o come, !.files = keptFiles \o comeFiles]
    <3>1. u = [old EXCEPT !.fields = b.fields, !.ver = @ + 1,
                 !.positions = [p \in DOMAIN old.positions |->
                                  IF p \in chosen
                                  THEN [what |-> b.positions[p].what, deleted |-> b.positions[p].deleted]
                                  ELSE old.positions[p]]
                     \o [i \in DOMAIN new |->
                          [what |-> b.positions[new[i]].what, deleted |-> b.positions[new[i]].deleted]],
                 !.files = [g \in DOMAIN old.files |->
                              IF g \in changed
                              THEN [what |-> b.files[g].what, deleted |-> b.files[g].deleted]
                              ELSE old.files[g]]
                     \o [i \in DOMAIN added |->
                          [what |-> b.files[added[i]].what, deleted |-> b.files[added[i]].deleted]]]
      BY <1>2, <2>2, <2>3, <2>4 DEF Apply
    <3> QED  BY ONLY <2>3, <2>4, <2>5, <2>6, <2>13, <3>1
  <2>15. kept \o come \in Seq(StoredItem) /\ keptFiles \o comeFiles \in Seq(StoredItem)
    <3> HIDE DEF kept, come, keptFiles, comeFiles
    <3> QED  BY ONLY <2>9, <2>10, <2>11, <2>12, ConcatProperties
  <2>16. PICK x, y : x = kept \o come /\ y = keptFiles \o comeFiles
    BY ZenonT(60)
  <2>17. u = [old EXCEPT !.fields = t.fields, !.ver = @ + 1, !.positions = x, !.files = y]
    BY ZenonT(60), <2>14, <2>16
  <2>18. x \in Seq(StoredItem) /\ y \in Seq(StoredItem)
    BY <2>15, <2>16
  <2>19. PICK fields, v : fields = t.fields /\ v = old.ver + 1
    OBVIOUS
  <2>20. f.ver \in Nat /\ old.ver = f.ver
    BY <2>1 DEF Refielded, StoredTransaction
  <2>21. v \in Nat /\ v = f.ver + 1
    BY <2>19, <2>20
  <2>22. old = [f EXCEPT !.fields = z]
    BY DEF Refielded
  <2>23. f \in StoredTransaction /\ fields \in FieldsOf("transaction")
    BY <2>1, <2>19
  <2>24. u = [f EXCEPT !.fields = fields, !.ver = v, !.positions = x, !.files = y]
    BY ONLY <2>17, <2>19, <2>22, <2>23 DEF StoredTransaction
  <2>25. u \in StoredTransaction /\ u.ver = v /\ u.origin = f.origin
    BY ONLY <2>18, <2>21, <2>23, <2>24 DEF StoredTransaction
  <2> QED
    BY <1>2, <2>21, <2>25 DEF StoredEntity
<1> QED
  BY <1>1, <1>2 DEF Kinds

LEMMA ApplyType ==
  ASSUME NEW k \in Kinds, NEW old \in StoredEntity(k), NEW t \in Entity(k), NEW u, u = Apply(k, old, t)
  PROVE  u \in StoredEntity(k) /\ u.ver = old.ver + 1 /\ u.origin = old.origin
<1>1. old = Refielded(old, old.fields)
  BY DEF Refielded, StoredEntity, StoredAccount, StoredTransaction, Kinds
<1> QED
  BY <1>1, ApplyAny

RowOf(x, d, v, o) == [fields |-> x, deleted |-> d, ver |-> v, origin |-> o]
RowWith(x, d, v, o, rows) ==
  [fields |-> x, deleted |-> d, ver |-> v, origin |-> o, positions |-> rows, files |-> rows]

LEMMA RefieldedIs ==
  ASSUME NEW x, NEW z, NEW d, NEW v, NEW o, NEW rows
  PROVE  /\ Refielded(RowOf(x, d, v, o), z) = RowOf(z, d, v, o)
         /\ Refielded(RowWith(x, d, v, o, rows), z) = RowWith(z, d, v, o, rows)
BY DEF Refielded, RowOf, RowWith

\* An entity that is created: what it had before is of no account.
LEMMA FreshType ==
  ASSUME NEW k \in Kinds, NEW id \in Int, NEW t \in Entity(k), NEW u, u = Apply(k, Fresh(k, id), t)
  PROVE  u \in StoredEntity(k) /\ u.ver \in Nat /\ u.origin = id
<1>1. PICK fields, z : fields = t.fields /\ z = << >>
  OBVIOUS
<1>2. fields \in FieldsOf(k) /\ z \in Seq(StoredItem)
  BY <1>1, Entities1
<1>3. PICK f : f = IF k = "account"
                   THEN [fields |-> fields, deleted |-> FALSE, ver |-> 0, origin |-> id]
                   ELSE [fields |-> fields, deleted |-> FALSE, ver |-> 0, origin |-> id,
                         positions |-> z, files |-> z]
  OBVIOUS
<1>4. f \in StoredEntity(k) /\ f.ver = 0 /\ f.origin = id
  BY <1>2, <1>3 DEF StoredEntity, StoredAccount, StoredTransaction, Kinds
<1>5. Fresh(k, id) = Refielded(f, z)
  <2>0. PICK no, zero : no = FALSE /\ zero = 0
    OBVIOUS
  <2>1. CASE k = "account"
    <3>1. f = RowOf(fields, no, zero, id) /\ Fresh(k, id) = RowOf(z, no, zero, id)
      BY <1>1, <1>3, <2>0, <2>1 DEF Fresh, RowOf
    <3> QED  BY ONLY <3>1, RefieldedIs
  <2>2. CASE k = "transaction"
    <3>1. f = RowWith(fields, no, zero, id, z) /\ Fresh(k, id) = RowWith(z, no, zero, id, z)
      BY <1>1, <1>3, <2>0, <2>2 DEF Fresh, RowWith
    <3> QED  BY ONLY <3>1, RefieldedIs
  <2> QED  BY <2>1, <2>2 DEF Kinds
<1>6. PICK old : old = Fresh(k, id)
  OBVIOUS
<1>7. old = Refielded(f, z) /\ u = Apply(k, old, t)
  BY <1>5, <1>6
<1>8. u \in StoredEntity(k) /\ u.ver = f.ver + 1 /\ u.origin = f.origin
  BY ONLY <1>4, <1>7, k \in Kinds, t \in Entity(k), ApplyAny
<1> QED
  BY ONLY <1>4, <1>8

-----------------------------------------------------------------------------
(* What a step of a draft does, and that it keeps the invariant.            *)
OthersSame(k) ==
  /\ DOMAIN slices' = kinds /\ \A j \in kinds \ {k} : slices'[j] = slices[j]

\* The draft is another one, which its user sees as it is typed.
DraftKept(k, id) == \E e, view :
  /\ Changed(slices[k].wip, slices'[k].wip, id, e)
  /\ id \notin Known(slices[k].wip) =>
       Once(slices'[k].wip, id) /\ (id > 0 \/ id = slices[k].nextId)
  /\ e.is_wip /\ (k = "transaction" => Room(slices'[k], e))
  /\ typed' = Typed(k, id, view) /\ (<<k, id>> \notin raced' => view = View(k, e))
DraftGone(k, id) == Gone(slices[k].wip, slices'[k].wip, id) /\ typed' = Untyped(k, id)

DraftStep(k, id) ==
  /\ k \in kinds /\ id \in Int /\ slices[k].status # "absent"
  /\ OthersSame(k)
  /\ slices'[k] \in Slice(k) /\ Lower(k, slices[k], slices'[k])
  /\ slices'[k].saved = slices[k].saved /\ slices'[k].status = slices[k].status
  /\ slices'[k].nextId \in {slices[k].nextId, slices[k].nextId - 1}
  /\ id # 0 /\ slices'[k].nextId < id /\ id <= Len(server[k])
  /\ raced' = Raced(k, id)
  /\ DraftKept(k, id) \/ DraftGone(k, id)
  /\ edits' \in Nat /\ items' \in Nat
  /\ UNCHANGED <<server, reqs, nav>>

\* What the types say of one entity, and of one request.
LEMMA StoredHas ==
  ASSUME Typing, NEW k \in kinds, NEW i \in DOMAIN server[k]
  PROVE  /\ server[k][i] \in StoredEntity(k) /\ server[k][i].origin \in Int
         /\ server[k][i].ver \in Nat
         /\ DOMAIN server[k] = 1..Len(server[k]) /\ Len(server[k]) \in Nat
<1>1. PICK list : list = server[k]
  OBVIOUS
<1>2. list \in Seq(StoredEntity(k)) /\ i \in DOMAIN list /\ k \in Kinds
  BY <1>1 DEF Typing
<1>3. DOMAIN list = 1..Len(list) /\ Len(list) \in Nat /\ list[i] \in StoredEntity(k)
  BY ONLY <1>2, LenProperties, ElementOfSeq
<1>4. \A t \in StoredEntity(k) : t.origin \in Int /\ t.ver \in Nat
  BY <1>2 DEF StoredEntity, StoredAccount, StoredTransaction
<1> QED
  BY <1>1, <1>3, <1>4

LEMMA SliceHas ==
  ASSUME Typing, NEW k \in kinds
  PROVE  /\ k \in Kinds /\ slices[k] \in Slice(k)
         /\ Known(slices[k].saved) \subseteq Int /\ Known(slices[k].wip) \subseteq Int
         /\ \A id \in Known(slices[k].saved) :
              slices[k].saved.byId[id] \in Entity(k) /\ slices[k].saved.byId[id].ver \in Nat
         /\ \A id \in Known(slices[k].wip) : slices[k].wip.byId[id] \in Entity(k)
         /\ slices[k].nextId \in Int
         /\ DOMAIN server[k] = 1..Len(server[k]) /\ Len(server[k]) \in Nat
<1>1. PICK s : s = slices[k]
  OBVIOUS
<1>2. k \in Kinds /\ s \in Slice(k)
  BY <1>1 DEF Typing
<1>3. s.saved \in Collection(Entity(k)) /\ s.wip \in Collection(Entity(k)) /\ s.nextId \in Int
  BY ONLY <1>2, SliceParts
<1>4. /\ Known(s.saved) \subseteq Int /\ Known(s.wip) \subseteq Int
      /\ (\A id \in Known(s.saved) : s.saved.byId[id] \in Entity(k))
      /\ (\A id \in Known(s.wip) : s.wip.byId[id] \in Entity(k))
  BY ONLY <1>3, CollectionIs DEF Known
<1>5. \A id \in Known(s.saved) : s.saved.byId[id].ver \in Nat
  BY <1>2, <1>4, Entities1
<1>6. DOMAIN server[k] = 1..Len(server[k]) /\ Len(server[k]) \in Nat
  BY LenProperties DEF Typing
<1> QED
  BY <1>1, <1>2, <1>3, <1>4, <1>5, <1>6

LEMMA TypedIs ==
  ASSUME NEW k, NEW id, NEW view
  PROVE  /\ DOMAIN Typed(k, id, view) = DOMAIN typed \cup {<<k, id>>}
         /\ Typed(k, id, view)[<<k, id>>] = view
         /\ \A i \in DOMAIN typed \ {<<k, id>>} : Typed(k, id, view)[i] = typed[i]
         /\ Typed(k, id, view) = [i \in DOMAIN Typed(k, id, view) |-> Typed(k, id, view)[i]]
BY DEF Typed

LEMMA UntypedIs ==
  ASSUME NEW k, NEW id, NEW t, t = Untyped(k, id)
  PROVE  /\ DOMAIN t = DOMAIN typed \ {<<k, id>>}
         /\ \A i \in DOMAIN t : t[i] = typed[i]
         /\ t = [i \in DOMAIN t |-> t[i]]
BY DEF Untyped

LEMMA RacedHas ==
  ASSUME NEW k, NEW id
  PROVE  /\ raced \subseteq Raced(k, id)
         /\ \A i \in Raced(k, id) : i \in raced \/ (i = <<k, id>> /\ Due(k, id))
         /\ Due(k, id) => <<k, id>> \in Raced(k, id)
BY DEF Raced

LEMMA DraftStepWip ==
  ASSUME Typing, NEW k, NEW id, DraftStep(k, id)
  PROVE  /\ Known(slices[k].wip) \cup {id} = Known(slices'[k].wip) \cup {id}
         /\ \A i \in Known(slices[k].wip) \ {id} :
              slices'[k].wip.byId[i] = slices[k].wip.byId[i]
         /\ \A i : i # id /\ Once(slices[k].wip, i) => Once(slices'[k].wip, i)
         /\ id \in Known(slices'[k].wip) =>
              /\ slices'[k].wip.byId[id].is_wip
              /\ k = "transaction" => Room(slices'[k], slices'[k].wip.byId[id])
              /\ Once(slices[k].wip, id) \/ id \notin Known(slices[k].wip) => Once(slices'[k].wip, id)
              /\ id \notin Known(slices[k].wip) => id > 0 \/ id = slices[k].nextId
         /\ typed' = [i \in DOMAIN typed' |-> typed'[i]]
         /\ \A i : i # <<k, id>> =>
              /\ i \in DOMAIN typed' <=> i \in DOMAIN typed
              /\ i \in DOMAIN typed => typed'[i] = typed[i]
         /\ <<k, id>> \in DOMAIN typed' <=> id \in Known(slices'[k].wip)
         /\ id \in Known(slices'[k].wip) /\ <<k, id>> \notin raced' =>
              typed'[<<k, id>>] = View(k, slices'[k].wip.byId[id])
<1>1. CASE DraftKept(k, id)
  <2>1. PICK e, view :
          /\ Changed(slices[k].wip, slices'[k].wip, id, e)
          /\ id \notin Known(slices[k].wip) =>
               Once(slices'[k].wip, id) /\ (id > 0 \/ id = slices[k].nextId)
          /\ e.is_wip /\ (k = "transaction" => Room(slices'[k], e))
          /\ typed' = Typed(k, id, view) /\ (<<k, id>> \notin raced' => view = View(k, e))
    BY <1>1 DEF DraftKept
  <2>2. PICK c, d, t, i0 : c = slices[k].wip /\ d = slices'[k].wip /\ t = typed' /\ i0 = <<k, id>>
    OBVIOUS
  <2>3. /\ Known(d) = Known(c) \cup {id} /\ d.byId[id] = e
        /\ (\A i \in Known(c) \ {id} : d.byId[i] = c.byId[i])
        /\ \A x : Once(c, x) /\ (x = id => id \in Known(c)) => Once(d, x)
    BY <2>1, <2>2 DEF Changed
  <2>4. /\ DOMAIN t = DOMAIN typed \cup {i0} /\ t[i0] = view
        /\ (\A i \in DOMAIN typed \ {i0} : t[i] = typed[i])
        /\ t = [i \in DOMAIN t |-> t[i]]
    BY <2>1, <2>2, TypedIs
  <2> QED  BY ONLY <2>1, <2>2, <2>3, <2>4
<1>2. CASE DraftGone(k, id)
  <2>1. PICK c, d, t, i0 : c = slices[k].wip /\ d = slices'[k].wip /\ t = typed' /\ i0 = <<k, id>>
    OBVIOUS
  <2>2. /\ Known(d) = Known(c) \ {id}
        /\ (\A i \in Known(d) : d.byId[i] = c.byId[i])
        /\ \A x : Once(c, x) /\ x # id => Once(d, x)
    BY <1>2, <2>1 DEF DraftGone, Gone
  <2>3. /\ DOMAIN t = DOMAIN typed \ {i0}
        /\ (\A i \in DOMAIN t : t[i] = typed[i])
        /\ t = [i \in DOMAIN t |-> t[i]]
    <3>1. t = Untyped(k, id)
      BY <1>2, <2>1 DEF DraftGone
    <3>2. i0 = <<k, id>>
      BY <2>1
    <3> QED  BY ONLY <3>1, <3>2 DEF Untyped
  <2> QED  BY ONLY <2>1, <2>2, <2>3
<1> QED
  BY <1>1, <1>2 DEF DraftStep

LEMMA DraftStepKeeps ==
  ASSUME Inv, NEW k, NEW id, DraftStep(k, id)
  PROVE  Inv'
<1> USE DEF nav
<1>0. /\ k \in kinds /\ id \in Int /\ slices[k].status # "absent" /\ OthersSame(k)
      /\ slices'[k] \in Slice(k) /\ Lower(k, slices[k], slices'[k])
      /\ slices'[k].saved = slices[k].saved /\ slices'[k].status = slices[k].status
      /\ slices'[k].nextId \in {slices[k].nextId, slices[k].nextId - 1}
      /\ id # 0 /\ slices'[k].nextId < id /\ id <= Len(server[k])
      /\ raced' = Raced(k, id) /\ edits' \in Nat /\ items' \in Nat
      /\ server' = server /\ reqs' = reqs /\ kinds' = kinds /\ inGroup' = inGroup
      /\ mounted' = mounted /\ joined' = joined
  BY DEF DraftStep
<1>1. /\ Known(slices[k].wip) \cup {id} = Known(slices'[k].wip) \cup {id}
      /\ (\A i \in Known(slices[k].wip) \ {id} :
            slices'[k].wip.byId[i] = slices[k].wip.byId[i])
      /\ (\A i : i # id /\ Once(slices[k].wip, i) => Once(slices'[k].wip, i))
      /\ id \in Known(slices'[k].wip) =>
           /\ slices'[k].wip.byId[id].is_wip
           /\ k = "transaction" => Room(slices'[k], slices'[k].wip.byId[id])
           /\ Once(slices[k].wip, id) \/ id \notin Known(slices[k].wip) => Once(slices'[k].wip, id)
           /\ id \notin Known(slices[k].wip) => id > 0 \/ id = slices[k].nextId
      /\ typed' = [i \in DOMAIN typed' |-> typed'[i]]
      /\ (\A i : i # <<k, id>> =>
            /\ i \in DOMAIN typed' <=> i \in DOMAIN typed
            /\ i \in DOMAIN typed => typed'[i] = typed[i])
      /\ (<<k, id>> \in DOMAIN typed' <=> id \in Known(slices'[k].wip))
      /\ (id \in Known(slices'[k].wip) /\ <<k, id>> \notin raced' =>
            typed'[<<k, id>>] = View(k, slices'[k].wip.byId[id]))
  BY DraftStepWip DEF Inv
<1>2. /\ raced \subseteq raced'
      /\ \A i \in raced' : i \in raced \/ (i = <<k, id>> /\ Due(k, id))
      /\ Due(k, id) => <<k, id>> \in raced'
  BY <1>0, RacedHas
<1>3. /\ DOMAIN slices' = kinds /\ \A j \in kinds \ {k} : slices'[j] = slices[j]
  BY <1>0 DEF OthersSame
<1>4. \A j \in kinds : slices'[j].saved = slices[j].saved /\ slices'[j].status = slices[j].status
  BY <1>0, <1>3
<1>5. /\ slices[k].nextId \in Int /\ slices'[k].nextId \in Int
      /\ slices'[k].nextId <= slices[k].nextId
      /\ \A j \in kinds : slices[j].nextId \in Int
  <2>1. kinds \subseteq Kinds /\ \A j \in kinds : slices[j] \in Slice(j)
    BY DEF Inv, Typing
  <2> QED  BY <1>0, <2>1, SliceParts
<1>6. Typing'
  BY <1>0, <1>1, <1>3 DEF Inv, Typing
<1>7. Places'
  <2>1. \A j \in kinds : Len(server[j]) \in Nat
    BY LenProperties DEF Inv, Typing
  <2>2. ASSUME NEW j \in kinds, j # k PROVE PlacesIn(j)'
    BY ZenonT(60), <1>0, <1>3, <2>2 DEF Inv, Places, PlacesIn, IdOf
  <2>3. PlacesIn(k)
    BY <1>0 DEF Inv, Places
  <2>4. PICK s, u : s = slices[k] /\ u = slices'[k]
    OBVIOUS
  <2>5. \A i \in Known(u.wip) : i \in Known(s.wip) \/ i = id
    BY <1>1, <2>4
  <2>6. ASSUME NEW i \in Known(u.wip)
        PROVE  i # 0 /\ u.nextId < i /\ i <= Len(server[k]) /\ u.wip.byId[i].is_wip
    <3>1. CASE i = id
      BY <1>0, <1>1, <2>4, <2>6, <3>1
    <3>2. CASE i # id
      <4>1. i \in Known(s.wip) /\ u.wip.byId[i] = s.wip.byId[i]
        BY <1>1, <2>4, <2>5, <2>6, <3>2
      <4>2. i # 0 /\ s.nextId < i /\ i <= Len(server[k]) /\ s.wip.byId[i].is_wip
        BY <2>3, <2>4, <4>1 DEF PlacesIn, IdOf
      <4>3. i \in Int
        <5>1. s.wip \in Collection(Entity(k))
          BY <1>0, <2>4, SliceParts DEF Inv, Typing
        <5> QED  BY <4>1, <5>1, CollectionIs DEF Known
      <4> QED  BY <1>5, <2>4, <4>1, <4>2, <4>3
    <3> QED  BY <3>1, <3>2
  <2>7. ASSUME NEW i \in DOMAIN server[k]
        PROVE  u.nextId < server[k][i].origin /\ server[k][i].origin <= 0
    <3>1. s.nextId < server[k][i].origin /\ server[k][i].origin <= 0
      BY <2>3, <2>4 DEF PlacesIn
    <3>2. server[k][i].origin \in Int
      BY <1>0, StoredHas DEF Inv
    <3> QED  BY <1>5, <2>4, <3>1, <3>2
  <2>8. u.nextId < 0 /\ u.saved = s.saved /\ u.status # "absent"
    BY <1>0, <1>5, <2>3, <2>4 DEF PlacesIn
  <2>9. PlacesIn(k)'
    BY <1>0, <2>3, <2>4, <2>6, <2>7, <2>8 DEF PlacesIn, IdOf
  <2> QED  BY <1>0, <2>2, <2>9 DEF Places
<1>8. Visit'
  BY <1>0, <1>4 DEF Inv, Visit
<1>9. LoadingIsAnswered'
  BY <1>0, <1>4 DEF Inv, LoadingIsAnswered, T!HasGroup
<1>10. Roomy'
  <2>1. CASE k # "transaction"
    BY <1>0, <1>3, <2>1 DEF Inv, Roomy
  <2>2. CASE k = "transaction"
    <3>1. /\ slices[k].nextPosition \in Int /\ slices'[k].nextPosition \in Int
          /\ slices[k].nextFile \in Int /\ slices'[k].nextFile \in Int
          /\ slices'[k].nextPosition <= slices[k].nextPosition
          /\ slices'[k].nextFile <= slices[k].nextFile
      BY <1>0, <2>2 DEF Inv, Typing, Slice, TransactionState, Lower
    <3>2. PICK s, u : s = slices[k] /\ u = slices'[k]
      OBVIOUS
    <3>3. ASSUME NEW t \in TransactionDraft, Room(s, t) PROVE Room(u, t)
      <4>1. Known(t.positions) \subseteq Int /\ Known(t.files) \subseteq Int
        BY CollectionIs DEF TransactionDraft, Known
      <4> QED  BY <3>1, <3>2, <3>3, <4>1 DEF Room
    <3>4. /\ s.nextPosition < 0 /\ s.nextFile < 0
          /\ \A i \in Known(s.wip) : Room(s, s.wip.byId[i])
          /\ \A i \in Known(s.saved) : Room(s, s.saved.byId[i])
          /\ \A n \in DOMAIN reqs : reqs[n].kind = "rates" => Room(s, reqs[n].body)
      BY <1>0, <2>2, <3>2 DEF Inv, Roomy
    <3>5. /\ \A i \in Known(s.wip) : s.wip.byId[i] \in TransactionDraft
          /\ \A i \in Known(s.saved) : s.saved.byId[i] \in TransactionDraft
      <4>1. s \in TransactionState
        BY <1>0, <2>2, <3>2 DEF Inv, Typing, Slice
      <4> QED  BY <4>1, CollectionIs DEF TransactionState, Known
    <3>6. \A n \in DOMAIN reqs : reqs[n].kind = "rates" => reqs[n].body \in TransactionDraft
      BY DEF Inv, Typing, Fits, Entity
    <3>7. \A i \in Known(u.wip) : Room(u, u.wip.byId[i])
      BY <1>1, <2>2, <3>2, <3>3, <3>4, <3>5
    <3>8. \A i \in Known(u.saved) : Room(u, u.saved.byId[i])
      BY <1>0, <3>2, <3>3, <3>4, <3>5
    <3>9. \A n \in DOMAIN reqs : reqs[n].kind = "rates" => Room(u, reqs[n].body)
      BY <3>3, <3>4, <3>6
    <3>10. u.nextPosition < 0 /\ u.nextFile < 0
      BY <3>1, <3>2, <3>4
    <3> QED  BY <1>0, <2>2, <3>2, <3>7, <3>8, <3>9, <3>10 DEF Roomy
  <2> QED  BY <2>1, <2>2
<1>11. Listed'
  <2>1. ASSUME NEW j \in kinds, j # k PROVE ListedIn(j)'
    BY <1>2, <1>3, <2>1 DEF Inv, Listed, ListedIn
  <2>2. \A i \in Known(slices[k].wip) : <<k, i>> \notin raced' => Once(slices[k].wip, i)
    BY <1>0, <1>2 DEF Inv, Listed, ListedIn
  <2>3. ASSUME NEW i \in Known(slices'[k].wip), <<k, i>> \notin raced' PROVE Once(slices'[k].wip, i)
    BY <1>1, <2>2, <2>3
  <2>4. \A i \in Known(slices'[k].saved) : Once(slices'[k].saved, i)
    BY <1>0 DEF Inv, Listed, ListedIn
  <2>5. ListedIn(k)'
    BY <2>3, <2>4 DEF ListedIn
  <2> QED  BY <1>0, <2>1, <2>5 DEF Listed
<1>12. Asked'
  <2>1. ASSUME NEW n \in DOMAIN reqs PROVE AskedBy(n)'
    <3>1. PICK r : r = reqs[n]
      OBVIOUS
    <3>2. AskedBy(n) /\ r.id \in Int /\ (r.kind # "leave" => r.of \in kinds)
      BY <3>1 DEF Inv, Asked, Typing, RequestType
    <3>3. r.of \in kinds => slices'[r.of].nextId <= slices[r.of].nextId
                              /\ slices'[r.of].nextId \in Int /\ slices[r.of].nextId \in Int
      BY <1>3, <1>5
    <3>4. r.kind \in {"save", "rates"} => IdOf(r.of, r.id)'
      BY <1>0, <3>1, <3>2, <3>3 DEF AskedBy, IdOf
    <3> QED  BY <1>0, <3>1, <3>2, <3>4 DEF AskedBy
  <2> QED  BY <1>0, <2>1 DEF Asked
<1>13. Newer'
  <2>1. ASSUME NEW n \in DOMAIN reqs PROVE NewerIs(n)'
    BY <1>0, <1>4 DEF Inv, Newer, NewerIs, Typing
  <2> QED  BY <1>0, <2>1 DEF Newer
<1>14. OneDue'
  <2>1. ASSUME NEW n \in DOMAIN reqs PROVE OneDueFor(n)'
    <3>1. PICK r : r = reqs[n]
      OBVIOUS
    <3>2. OneDueFor(n) /\ (r.kind # "leave" => r.of \in kinds)
      BY <3>1 DEF Inv, OneDue, Typing
    <3>3. SUFFICES ASSUME r.kind \in {"save", "rates", "delete"}, <<r.of, r.id>> \notin raced'
                   PROVE  /\ \A m \in DOMAIN reqs : IsDue(m, r.of, r.id) => m = n
                          /\ r.kind \in {"save", "rates"} =>
                               /\ r.heard
                               /\ \/ ~joined
                                  \/ /\ r.id \in Known(slices'[r.of].wip)
                                     /\ slices'[r.of].wip.byId[r.id] = r.body
      BY <1>0, <3>1 DEF OneDueFor, IsDue
    <3>4. r.of # k \/ r.id # id
      BY <1>2, <3>1, <3>3 DEF Due
    <3>5. <<r.of, r.id>> \notin raced
      BY <1>2, <3>3
    <3>6. /\ \A m \in DOMAIN reqs : IsDue(m, r.of, r.id) => m = n
          /\ r.kind \in {"save", "rates"} =>
               /\ r.heard
               /\ \/ ~joined
                  \/ /\ r.id \in Known(slices[r.of].wip)
                     /\ slices[r.of].wip.byId[r.id] = r.body
      BY <3>1, <3>2, <3>3, <3>5 DEF OneDueFor
    <3>7. CASE r.of # k
      BY <1>3, <3>2, <3>3, <3>6, <3>7
    <3>8. CASE r.of = k /\ r.id # id
      BY <1>0, <1>1, <3>6, <3>8
    <3> QED  BY <3>4, <3>7, <3>8
  <2> QED  BY <1>0, <2>1 DEF OneDue
<1>15. DraftsStay'
  BY <1>0, <1>1, <1>2, <1>3 DEF Inv, DraftsStay, EditsStayIn, Mine
<1>16. Origins'
  <2>1. ASSUME NEW j \in kinds, NEW i \in DOMAIN server[j] PROVE OriginIs(j, i)'
    <3>1. PICK d : d = server[j][i].origin
      OBVIOUS
    <3>2. OriginIs(j, i) /\ d <= 0 /\ slices[j].nextId < d /\ d \in Int
      BY <3>1, StoredHas DEF Inv, Origins, Places, PlacesIn
    <3>3. SUFFICES ASSUME <<j, d>> \notin raced', d \in Known(slices'[j].wip)
                   PROVE  d \in Known(slices[j].wip)
      BY <1>0, <1>2, <3>1, <3>2 DEF OriginIs
    <3>4. CASE j # k
      BY <1>3, <3>3, <3>4
    <3>5. CASE j = k
      BY <1>1, <1>5, <3>2, <3>3, <3>5
    <3> QED  BY <3>4, <3>5
  <2> QED  BY <1>0, <2>1 DEF Origins
<1> QED
  BY <1>6, <1>7, <1>8, <1>9, <1>10, <1>11, <1>12, <1>13, <1>14, <1>15, <1>16 DEF Inv

-----------------------------------------------------------------------------
(* A request that is started.                                               *)
Asks(kind, k, id, body) ==
  \/ /\ kind \in {"save", "rates"} /\ k \in kinds /\ (kind = "rates" => k = "transaction")
     /\ id \in Known(slices[k].wip) /\ body = slices[k].wip.byId[id]
  \/ kind = "delete" /\ k \in kinds /\ id \in DOMAIN server[k] /\ body = NoBody
  \/ kind = "leave" /\ k = "none" /\ id = 0 /\ body = NoBody

RequestStep(n, kind, k, id, body) ==
  /\ n \in Slots \ DOMAIN reqs
  /\ reqs' = With(reqs, n, Request(kind, k, id, body))
  /\ Asks(kind, k, id, body)
  /\ raced' = IF kind = "leave" THEN raced ELSE Raced(k, id)
  /\ edits' \in Nat /\ items' \in Nat
  /\ UNCHANGED <<slices, server, nav, typed>>

LEMMA RequestStepKeeps ==
  ASSUME Inv, NEW n, NEW kind, NEW k, NEW id, NEW body, RequestStep(n, kind, k, id, body)
  PROVE  Inv'
<1>0. /\ n \in Slots \ DOMAIN reqs /\ Asks(kind, k, id, body)
      /\ raced' = (IF kind = "leave" THEN raced ELSE Raced(k, id))
      /\ edits' \in Nat /\ items' \in Nat
      /\ slices' = slices /\ server' = server /\ kinds' = kinds /\ inGroup' = inGroup
      /\ mounted' = mounted /\ joined' = joined /\ typed' = typed
  BY DEF RequestStep, nav
<1>1. PICK r : r = Request(kind, k, id, body)
  OBVIOUS
<1>2. /\ DOMAIN reqs' = DOMAIN reqs \cup {n} /\ reqs'[n] = r
      /\ (\A m \in DOMAIN reqs : reqs'[m] = reqs[m])
      /\ reqs' = [m \in DOMAIN reqs' |-> reqs'[m]]
  <2>1. reqs' = With(reqs, n, r)
    BY <1>1 DEF RequestStep
  <2>2. /\ DOMAIN reqs' = DOMAIN reqs \cup {n} /\ reqs'[n] = r
        /\ (\A m \in DOMAIN reqs \ {n} : reqs'[m] = reqs[m])
        /\ reqs' = [m \in DOMAIN reqs' |-> reqs'[m]]
    BY ONLY <2>1 DEF With
  <2> QED  BY <1>0, <2>2
<1>3. /\ raced \subseteq raced'
      /\ \A i \in raced' : i \in raced \/ (i = <<k, id>> /\ Due(k, id))
      /\ kind # "leave" /\ Due(k, id) => <<k, id>> \in raced'
  BY <1>0, RacedHas
<1>4. /\ r.kind = kind /\ r.of = k /\ r.id = id /\ r.body = body /\ r.stage = "sent"
      /\ r.heard = TRUE /\ r.overtaken = FALSE
      /\ kind \in {"load", "save", "rates", "delete", "leave"}
      /\ k \in kinds \cup {"none"} /\ id \in Int /\ body \in Body
      /\ kind = "leave" <=> k = "none"
      /\ r \in RequestType
  <2>1. /\ k \in kinds => k \in Kinds /\ k # "none"
        /\ NoBody \in Body
    BY DEF Inv, Typing, Kinds, Body
  <2>2. k \in kinds => /\ Known(slices[k].wip) \subseteq Int
                       /\ (\A i \in Known(slices[k].wip) : slices[k].wip.byId[i] \in Entity(k))
                       /\ DOMAIN server[k] \subseteq Int
    BY SliceHas DEF Inv
  <2>3. k \in kinds => Entity(k) \subseteq Body
    BY <2>1 DEF Entity, Body
  <2>4. /\ kind \in {"load", "save", "rates", "delete", "leave"}
        /\ k \in kinds \cup {"none"} /\ id \in Int /\ body \in Body
        /\ kind = "leave" <=> k = "none"
    BY <1>0, <2>1, <2>2, <2>3 DEF Asks
  <2>5. k \in Kinds \cup {"none"}
    BY <2>1, <2>4
  <2>6. Stamp \in Int /\ NoBody \in Content
    BY DEF Inv, Typing, Stamp, Content
  <2>7. /\ r.kind = kind /\ r.of = k /\ r.id = id /\ r.body = body /\ r.stage = "sent"
        /\ r.heard = TRUE /\ r.overtaken = FALSE
    BY ONLY <1>1 DEF Request
  <2>8. r \in RequestType
    BY ONLY <1>1, <2>4, <2>5, <2>6 DEF Request, RequestType
  <2> QED  BY <2>4, <2>7, <2>8
<1>5. Typing'
  <2>1. Fits(r)
    <3>1. k \in kinds => \A i \in Known(slices[k].wip) :
            slices[k].wip.byId[i] \in Entity(k) /\ slices[k].wip.byId[i].is_wip
      BY SliceHas DEF Inv, Places, PlacesIn
    <3> QED  BY <1>0, <1>4, <3>1 DEF Fits, Asks
  <2>2. ASSUME NEW m \in DOMAIN reqs'
        PROVE  reqs'[m] \in RequestType /\ Fits(reqs'[m]) /\ (reqs'[m].kind # "leave" => reqs'[m].of \in kinds)
    BY <1>2, <1>4, <2>1 DEF Inv, Typing
  <2>3. DOMAIN reqs' \subseteq Slots
    BY <1>0, <1>2 DEF Inv, Typing
  <2> QED  BY <1>0, <1>2, <2>2, <2>3 DEF Inv, Typing
<1>6. Places'
  BY <1>0 DEF Inv, Places, PlacesIn, IdOf
<1>7. Visit'
  BY <1>0 DEF Inv, Visit
<1>8. LoadingIsAnswered'
  BY <1>0, <1>2 DEF Inv, LoadingIsAnswered, T!HasGroup
<1>9. Roomy'
  <2>1. kind = "rates" => Room(slices["transaction"], r.body)
    BY <1>0, <1>4 DEF Inv, Roomy, Asks
  <2> QED  BY <1>0, <1>2, <1>4, <2>1 DEF Inv, Roomy
<1>10. Listed'
  BY <1>0, <1>3 DEF Inv, Listed, ListedIn
<1>11. Asked'
  <2>1. AskedBy(n)'
    <3>1. kind \in {"save", "rates"} => IdOf(k, id)
      BY <1>0 DEF Inv, Places, PlacesIn, Asks
    <3> QED  BY <1>0, <1>2, <1>4, <3>1 DEF AskedBy, IdOf, Asks
  <2>2. ASSUME NEW m \in DOMAIN reqs PROVE AskedBy(m)'
    BY <1>0, <1>2 DEF Inv, Asked, AskedBy, IdOf
  <2> QED  BY <1>2, <2>1, <2>2 DEF Asked
<1>12. Newer'
  BY SMTT(60), <1>0, <1>2, <1>4 DEF Inv, Newer, NewerIs
<1>13. OneDue'
  <2>1. OneDueFor(n)'
    <3> SUFFICES ASSUME kind \in {"save", "rates", "delete"}, <<k, id>> \notin raced'
                 PROVE  /\ \A m \in DOMAIN reqs' : IsDue(m, k, id)' => m = n
                        /\ kind \in {"save", "rates"} =>
                              id \in Known(slices[k].wip) /\ slices[k].wip.byId[id] = body
      BY <1>0, <1>2, <1>4 DEF OneDueFor
    <3>1. ~Due(k, id)
      BY <1>3
    <3>2. \A m \in DOMAIN reqs : ~IsDue(m, k, id)'
      BY <1>2, <3>1 DEF Due, IsDue
    <3> QED  BY <1>0, <1>2, <3>2 DEF Asks
  <2>2. ASSUME NEW m \in DOMAIN reqs PROVE OneDueFor(m)'
    <3>1. PICK q : q = reqs[m]
      OBVIOUS
    <3> SUFFICES ASSUME q.kind \in {"save", "rates", "delete"}, <<q.of, q.id>> \notin raced'
                 PROVE  /\ \A l \in DOMAIN reqs' : IsDue(l, q.of, q.id)' => l = m
                        /\ q.kind \in {"save", "rates"} =>
                             /\ q.heard
                             /\ \/ ~joined
                                \/ /\ q.id \in Known(slices[q.of].wip)
                                   /\ slices[q.of].wip.byId[q.id] = q.body
      BY <1>0, <1>2, <3>1 DEF OneDueFor
    <3>2. <<q.of, q.id>> \notin raced /\ OneDueFor(m)
      BY <1>3 DEF Inv, OneDue
    <3>3. ~(q.of = k /\ q.id = id) \/ kind = "leave"
      BY <1>3, <3>1 DEF Due
    <3>4. ~IsDue(n, q.of, q.id)'
      BY <1>2, <1>4, <3>3 DEF IsDue
    <3>5. \A l \in DOMAIN reqs : IsDue(l, q.of, q.id)' <=> IsDue(l, q.of, q.id)
      BY <1>2 DEF IsDue
    <3> QED  BY <1>2, <3>1, <3>2, <3>4, <3>5 DEF OneDueFor
  <2> QED  BY <1>2, <2>1, <2>2 DEF OneDue
<1>14. DraftsStay'
  BY <1>0, <1>3 DEF Inv, DraftsStay, EditsStayIn, Mine
<1>15. Origins'
  <2>1. ASSUME NEW j \in kinds, NEW i \in DOMAIN server[j] PROVE OriginIs(j, i)'
    <3>1. PICK d : d = server[j][i].origin
      OBVIOUS
    <3>2. SUFFICES ASSUME <<j, d>> \notin raced'
                   PROVE  /\ \A l \in DOMAIN server[j] : server[j][l].origin = d => i = l
                          /\ \A m \in DOMAIN reqs' :
                               reqs'[m].kind = "save" /\ reqs'[m].of = j /\ reqs'[m].id = d =>
                                 reqs'[m].stage = "done"
                          /\ d \in Known(slices[j].wip) =>
                               \E m \in DOMAIN reqs' :
                                 reqs'[m].kind = "save" /\ reqs'[m].of = j /\ reqs'[m].id = d
      BY <1>0, <3>1 DEF OriginIs
    <3>3. OriginIs(j, i) /\ <<j, d>> \notin raced
      BY <1>3, <3>2 DEF Inv, Origins
    <3>4. ~(kind = "save" /\ k = j /\ id = d)
      <4>1. SUFFICES ASSUME kind = "save", k = j, id = d PROVE FALSE
        OBVIOUS
      <4>2. d \in Known(slices[j].wip)
        BY <1>0, <4>1 DEF Asks
      <4>3. Due(j, d)
        BY <3>1, <3>3, <4>2 DEF OriginIs, Due
      <4> QED  BY <1>3, <3>2, <4>1, <4>3
    <3> QED  BY <1>2, <1>4, <3>1, <3>3, <3>4 DEF OriginIs
  <2> QED  BY <1>0, <2>1 DEF Origins
<1> QED
  BY <1>5, <1>6, <1>7, <1>8, <1>9, <1>10, <1>11, <1>12, <1>13, <1>14, <1>15 DEF Inv

-----------------------------------------------------------------------------
(* A request that ends, and what its answer does.                           *)
SameRequest(q, r) ==
  /\ r \in RequestType
  /\ r.kind = q.kind /\ r.of = q.of /\ r.id = q.id /\ r.body = q.body /\ r.stage = q.stage
  /\ r.answer = q.answer /\ r.content = q.content /\ r.heard = q.heard
  /\ q.overtaken => r.overtaken
RequestEnds(n) ==
  /\ n \in DOMAIN reqs
  /\ DOMAIN reqs' = DOMAIN reqs \ {n} /\ reqs' = [m \in DOMAIN reqs' |-> reqs'[m]]
  /\ \A m \in DOMAIN reqs' : SameRequest(reqs[m], reqs'[m])

\* What is saved is known of the server.
SavedFits(k) == \A id \in Known(slices'[k].saved) :
  /\ id \in DOMAIN server[k] /\ ~slices'[k].saved.byId[id].is_wip
  /\ slices'[k].saved.byId[id].ver <= server[k][id].ver
  /\ Once(slices'[k].saved, id)
  /\ k = "transaction" => Room(slices'[k], slices'[k].saved.byId[id])

\* The draft of the answer, if there is one after it.
DraftFits(n, k, id) ==
  /\ Known(slices'[k].wip) \ {id} = Known(slices[k].wip) \ {id}
  /\ \A i \in Known(slices[k].wip) \ {id} :
       /\ slices'[k].wip.byId[i] = slices[k].wip.byId[i]
       /\ Once(slices[k].wip, i) => Once(slices'[k].wip, i)
  /\ id \in Known(slices'[k].wip) =>
       /\ IdOf(k, id) /\ slices'[k].wip.byId[id].is_wip
       /\ k = "transaction" => Room(slices'[k], slices'[k].wip.byId[id])
       /\ <<k, id>> \notin raced' =>
            /\ Once(slices'[k].wip, id) /\ id \in Known(slices[k].wip)
            /\ reqs[n].kind = "save" => reqs[n].stage = "sent"
  /\ <<k, id>> \notin raced' => EditsStayIn(k, id)'
  /\ reqs[n].kind \in {"save", "rates", "delete"} \/ slices'[k].wip = slices[k].wip

AnswerStep(n, k, id) ==
  /\ RequestEnds(n) /\ k = reqs[n].of /\ id = reqs[n].id
  /\ OthersSame(k)
  /\ k \in kinds =>
       /\ slices'[k] \in Slice(k) /\ Lower(k, slices[k], slices'[k])
       /\ slices'[k].nextId = slices[k].nextId
       /\ slices'[k].status = "absent" <=> slices[k].status = "absent"
       /\ slices'[k].status = "absent" => Known(slices'[k].wip) = {} /\ Known(slices'[k].saved) = {}
       /\ slices'[k].status = "loading" => slices[k].status = "loading" /\ reqs[n].kind # "load"
       /\ SavedFits(k) /\ DraftFits(n, k, id)
       /\ \/ slices'[k].saved = slices[k].saved
          \/ \A m \in DOMAIN reqs' : reqs'[m].of = k => reqs'[m].overtaken
  /\ typed' = [i \in DOMAIN typed' |-> typed'[i]]
  /\ \A i : i # <<k, id>> => /\ i \in DOMAIN typed' <=> i \in DOMAIN typed
                             /\ i \in DOMAIN typed => typed'[i] = typed[i]
  /\ raced \subseteq raced'
  /\ UNCHANGED <<server, nav, counters>>

LEMMA AnswerStepKeeps ==
  ASSUME Inv, NEW n, NEW k, NEW id, AnswerStep(n, k, id)
  PROVE  Inv'
<1>0. /\ RequestEnds(n) /\ k = reqs[n].of /\ id = reqs[n].id
      /\ DOMAIN slices' = kinds /\ (\A j \in kinds \ {k} : slices'[j] = slices[j])
      /\ typed' = [i \in DOMAIN typed' |-> typed'[i]]
      /\ (\A i : i # <<k, id>> => /\ i \in DOMAIN typed' <=> i \in DOMAIN typed
                                  /\ i \in DOMAIN typed => typed'[i] = typed[i])
      /\ raced \subseteq raced'
      /\ server' = server /\ kinds' = kinds /\ inGroup' = inGroup
      /\ mounted' = mounted /\ joined' = joined /\ edits' = edits /\ items' = items
  BY DEF AnswerStep, OthersSame, nav, counters
<1>1. k \in kinds =>
       /\ slices'[k] \in Slice(k) /\ Lower(k, slices[k], slices'[k])
       /\ slices'[k].nextId = slices[k].nextId
       /\ slices'[k].status = "absent" <=> slices[k].status = "absent"
       /\ slices'[k].status = "absent" => Known(slices'[k].wip) = {} /\ Known(slices'[k].saved) = {}
       /\ slices'[k].status = "loading" => slices[k].status = "loading" /\ reqs[n].kind # "load"
       /\ SavedFits(k) /\ DraftFits(n, k, id)
       /\ \/ slices'[k].saved = slices[k].saved
          \/ \A m \in DOMAIN reqs' : reqs'[m].of = k => reqs'[m].overtaken
  BY DEF AnswerStep
<1>2. /\ n \in DOMAIN reqs
      /\ DOMAIN reqs' = DOMAIN reqs \ {n} /\ reqs' = [m \in DOMAIN reqs' |-> reqs'[m]]
      /\ \A m \in DOMAIN reqs \ {n} :
           /\ reqs'[m] \in RequestType
           /\ reqs'[m].kind = reqs[m].kind /\ reqs'[m].of = reqs[m].of /\ reqs'[m].id = reqs[m].id
           /\ reqs'[m].body = reqs[m].body /\ reqs'[m].stage = reqs[m].stage
           /\ reqs'[m].answer = reqs[m].answer /\ reqs'[m].content = reqs[m].content
           /\ reqs'[m].heard = reqs[m].heard /\ (reqs[m].overtaken => reqs'[m].overtaken)
  BY <1>0 DEF RequestEnds, SameRequest
<1>3. /\ \A j \in kinds : slices'[j].nextId = slices[j].nextId
      /\ \A j \in kinds : slices'[j].status = "absent" <=> slices[j].status = "absent"
  BY <1>0, <1>1
<1>4. Typing'
  <2>1. ASSUME NEW m \in DOMAIN reqs'
        PROVE  reqs'[m] \in RequestType /\ Fits(reqs'[m]) /\ (reqs'[m].kind # "leave" => reqs'[m].of \in kinds)
    BY <1>2, <2>1 DEF Inv, Typing, Fits
  <2>2. \A j \in kinds : slices'[j] \in Slice(j)
    BY <1>0, <1>1 DEF Inv, Typing
  <2> QED  BY <1>0, <1>2, <2>1, <2>2 DEF Inv, Typing
<1>5. Places'
  <2>1. ASSUME NEW j \in kinds, j # k PROVE PlacesIn(j)'
    BY ZenonT(60), <1>0, <2>1 DEF Inv, Places, PlacesIn, IdOf
  <2>2. ASSUME k \in kinds PROVE PlacesIn(k)'
    <3>1. PlacesIn(k) /\ slices'[k].nextId = slices[k].nextId
      BY <1>1, <2>2 DEF Inv, Places
    <3>2. ASSUME NEW i \in Known(slices'[k].wip)
          PROVE  IdOf(k, i)' /\ slices'[k].wip.byId[i].is_wip
      <4>1. CASE i = id
        BY <1>0, <1>1, <2>2, <3>2, <4>1 DEF DraftFits, IdOf
      <4>2. CASE i # id
        <5>1. i \in Known(slices[k].wip) /\ slices'[k].wip.byId[i] = slices[k].wip.byId[i]
          BY <1>1, <2>2, <3>2, <4>2 DEF DraftFits
        <5> QED  BY ZenonT(60), <1>0, <3>1, <5>1 DEF PlacesIn, IdOf
      <4> QED  BY SMTT(60), <4>1, <4>2
    <3> QED  BY ZenonT(60), <1>0, <1>1, <2>2, <3>1, <3>2 DEF PlacesIn, SavedFits
  <2> QED  BY <1>0, <2>1, <2>2 DEF Places
<1>6. Visit'
  BY <1>0, <1>3 DEF Inv, Visit
<1>7. LoadingIsAnswered'
  <2>1. ASSUME mounted, NEW j \in kinds, slices'[j].status = "loading"
        PROVE  \E m \in DOMAIN reqs' : reqs'[m].kind = "load" /\ reqs'[m].of = j /\ reqs'[m].heard
    <3>1. slices[j].status = "loading" /\ (j = k => reqs[n].kind # "load")
      BY <1>0, <1>1, <2>1
    <3>2. PICK m \in DOMAIN reqs : reqs[m].kind = "load" /\ reqs[m].of = j /\ reqs[m].heard
      BY <2>1, <3>1 DEF Inv, LoadingIsAnswered
    <3>3. m # n
      BY <1>0, <3>1, <3>2
    <3> QED  BY <1>2, <3>2, <3>3
  <2> QED  BY <1>0, <1>3, <2>1 DEF Inv, LoadingIsAnswered, T!HasGroup
<1>8. Roomy'
  <2>1. CASE k # "transaction"
    BY SMTT(60), <1>0, <1>2, <2>1 DEF Inv, Roomy
  <2>2. CASE k = "transaction" /\ k \in kinds
    <3>1. PICK s, u : s = slices[k] /\ u = slices'[k]
      OBVIOUS
    <3>2. /\ s \in TransactionState /\ u \in TransactionState
          /\ s.nextPosition \in Int /\ u.nextPosition \in Int /\ s.nextFile \in Int /\ u.nextFile \in Int
          /\ u.nextPosition <= s.nextPosition /\ u.nextFile <= s.nextFile
      BY <1>1, <2>2, <3>1 DEF Inv, Typing, Slice, TransactionState, Lower
    <3>3. ASSUME NEW t \in TransactionDraft, Room(s, t) PROVE Room(u, t)
      <4>1. Known(t.positions) \subseteq Int /\ Known(t.files) \subseteq Int
        BY CollectionIs DEF TransactionDraft, Known
      <4> QED  BY <3>2, <3>3, <4>1 DEF Room
    <3>4. /\ s.nextPosition < 0 /\ s.nextFile < 0
          /\ \A i \in Known(s.wip) : Room(s, s.wip.byId[i])
          /\ \A m \in DOMAIN reqs : reqs[m].kind = "rates" => Room(s, reqs[m].body)
      BY <2>2, <3>1 DEF Inv, Roomy
    <3>5. \A i \in Known(s.wip) : s.wip.byId[i] \in TransactionDraft
      BY <3>2, CollectionIs DEF TransactionState, Known
    <3>6. \A m \in DOMAIN reqs : reqs[m].kind = "rates" => reqs[m].body \in TransactionDraft
      BY DEF Inv, Typing, Fits, Entity
    <3>7. ASSUME NEW i \in Known(u.wip) PROVE Room(u, u.wip.byId[i])
      <4>1. CASE i = id
        BY <1>1, <2>2, <3>1, <3>7, <4>1 DEF DraftFits
      <4>2. CASE i # id
        <5>1. i \in Known(s.wip) /\ u.wip.byId[i] = s.wip.byId[i]
          BY <1>1, <2>2, <3>1, <3>7, <4>2 DEF DraftFits
        <5> QED  BY <3>3, <3>4, <3>5, <5>1
      <4> QED  BY <4>1, <4>2
    <3>8. \A i \in Known(u.saved) : Room(u, u.saved.byId[i])
      BY <1>1, <2>2, <3>1 DEF SavedFits
    <3>9. \A m \in DOMAIN reqs' : reqs'[m].kind = "rates" => Room(u, reqs'[m].body)
      BY <1>2, <3>3, <3>4, <3>6
    <3>10. u.nextPosition < 0 /\ u.nextFile < 0
      BY <3>2, <3>4
    <3> QED  BY <2>2, <3>1, <3>7, <3>8, <3>9, <3>10 DEF Roomy
  <2>3. CASE "transaction" \notin kinds
    BY <1>0, <2>3 DEF Roomy
  <2> QED  BY <2>1, <2>2, <2>3
<1>9. Listed'
  <2>1. ASSUME NEW j \in kinds, j # k PROVE ListedIn(j)'
    BY <1>0, <2>1 DEF Inv, Listed, ListedIn
  <2>2. ASSUME k \in kinds PROVE ListedIn(k)'
    <3>1. ASSUME NEW i \in Known(slices'[k].wip), <<k, i>> \notin raced' PROVE Once(slices'[k].wip, i)
      <4>1. CASE i = id
        BY <1>1, <2>2, <3>1, <4>1 DEF DraftFits
      <4>2. CASE i # id
        <5>1. i \in Known(slices[k].wip) \ {id} /\ <<k, i>> \notin raced
          BY <1>0, <1>1, <2>2, <3>1, <4>2 DEF DraftFits
        <5>2. Once(slices[k].wip, i)
          BY <2>2, <5>1 DEF Inv, Listed, ListedIn
        <5> QED  BY SMTT(60), <1>1, <2>2, <5>1, <5>2 DEF DraftFits
      <4> QED  BY <4>1, <4>2
    <3> QED  BY <1>1, <2>2, <3>1 DEF ListedIn, SavedFits
  <2> QED  BY <1>0, <2>1, <2>2 DEF Listed
<1>10. Asked'
  <2>1. ASSUME NEW m \in DOMAIN reqs \ {n} PROVE AskedBy(m)'
    <3>1. AskedBy(m) /\ (reqs[m].kind # "leave" => reqs[m].of \in kinds)
      BY DEF Inv, Asked, Typing
    <3>2. reqs[m].kind \in {"save", "rates"} => IdOf(reqs[m].of, reqs[m].id)'
      BY <1>0, <1>2, <1>3, <3>1 DEF AskedBy, IdOf
    <3> QED  BY <1>0, <1>2, <3>1, <3>2 DEF AskedBy
  <2> QED  BY <1>2, <2>1 DEF Asked
<1>11. Newer'
  <2>1. ASSUME NEW m \in DOMAIN reqs \ {n} PROVE NewerIs(m)'
    <3>1. NewerIs(m) /\ (reqs[m].kind # "leave" => reqs[m].of \in kinds)
      BY DEF Inv, Newer, Typing
    <3>2. CASE reqs'[m].overtaken
      BY <3>2 DEF NewerIs
    <3>3. CASE ~reqs'[m].overtaken
      <4>1. reqs[m].kind # "leave" => slices'[reqs[m].of].saved = slices[reqs[m].of].saved
        BY <1>0, <1>1, <1>2, <3>1, <3>3
      <4> QED  BY <1>2, <3>1, <4>1 DEF NewerIs
    <3> QED  BY <3>2, <3>3
  <2> QED  BY <1>2, <2>1 DEF Newer
<1>12. OneDue'
  <2>1. ASSUME NEW m \in DOMAIN reqs \ {n} PROVE OneDueFor(m)'
    <3>1. PICK q : q = reqs[m]
      OBVIOUS
    <3> SUFFICES ASSUME q.kind \in {"save", "rates", "delete"}, <<q.of, q.id>> \notin raced'
                 PROVE  /\ \A l \in DOMAIN reqs' : IsDue(l, q.of, q.id)' => l = m
                        /\ q.kind \in {"save", "rates"} =>
                             /\ q.heard
                             /\ \/ ~joined
                                \/ /\ q.id \in Known(slices'[q.of].wip)
                                   /\ slices'[q.of].wip.byId[q.id] = q.body
      BY <1>0, <1>2, <3>1 DEF OneDueFor
    <3>2. OneDueFor(m) /\ q.of \in kinds /\ <<q.of, q.id>> \notin raced
      BY <1>0, <3>1 DEF Inv, OneDue, Typing
    <3>3. /\ \A l \in DOMAIN reqs : IsDue(l, q.of, q.id) => l = m
          /\ q.kind \in {"save", "rates"} =>
               /\ q.heard
               /\ \/ ~joined
                  \/ /\ q.id \in Known(slices[q.of].wip)
                     /\ slices[q.of].wip.byId[q.id] = q.body
      BY <3>1, <3>2 DEF OneDueFor
    <3>4. \A l \in DOMAIN reqs' : IsDue(l, q.of, q.id)' => l = m
      BY <1>2, <3>3 DEF IsDue
    <3>5. CASE q.of # k
      BY <1>0, <3>2, <3>3, <3>4, <3>5
    <3>6. CASE q.of = k /\ q.id # id
      <4>1. q.id \in Known(slices[k].wip) =>
              q.id \in Known(slices'[k].wip) /\ slices'[k].wip.byId[q.id] = slices[k].wip.byId[q.id]
        BY <1>1, <3>2, <3>6 DEF DraftFits
      <4> QED  BY <1>3, <3>2, <3>3, <3>4, <3>6, <4>1
    <3>7. CASE q.of = k /\ q.id = id
      <4>1. ~IsDue(n, q.of, q.id)
        BY SMTT(60), <1>2, <2>1, <3>3
      <4>2. slices'[k].wip = slices[k].wip
        BY <1>0, <1>1, <3>2, <3>7, <4>1 DEF DraftFits, IsDue
      <4> QED  BY <1>3, <3>2, <3>3, <3>4, <3>7, <4>2
    <3> QED  BY <3>5, <3>6, <3>7
  <2> QED  BY <1>2, <2>1 DEF OneDue
<1>13. DraftsStay'
  <2>1. ASSUME NEW j \in kinds, NEW i \in Int, <<j, i>> \notin raced' PROVE EditsStayIn(j, i)'
    <3>1. EditsStayIn(j, i)
      BY <1>0, <2>1 DEF Inv, DraftsStay
    <3>2. CASE j = k /\ i = id
      BY <1>1, <2>1, <3>2 DEF DraftFits
    <3>3. CASE j # k
      <4>1. <<j, i>> # <<k, id>> /\ slices'[j] = slices[j]
        BY <1>0, <2>1, <3>3
      <4> QED  BY <1>0, <3>1, <4>1 DEF EditsStayIn, Mine
    <3>4. CASE j = k /\ i # id
      <4>1. /\ <<j, i>> # <<k, id>>
            /\ i \in Known(slices'[j].wip) <=> i \in Known(slices[j].wip)
            /\ i \in Known(slices[j].wip) => slices'[j].wip.byId[i] = slices[j].wip.byId[i]
        BY <1>1, <2>1, <3>4 DEF DraftFits
      <4> QED  BY <1>0, <3>1, <4>1 DEF EditsStayIn, Mine
    <3> QED  BY <3>2, <3>3, <3>4
  <2> QED  BY <1>0, <2>1 DEF DraftsStay
<1>14. Origins'
  <2>1. ASSUME NEW j \in kinds, NEW i \in DOMAIN server[j] PROVE OriginIs(j, i)'
    <3>1. PICK d : d = server[j][i].origin
      OBVIOUS
    <3>2. SUFFICES ASSUME <<j, d>> \notin raced'
                   PROVE  /\ \A l \in DOMAIN server[j] : server[j][l].origin = d => i = l
                          /\ \A m \in DOMAIN reqs' :
                               reqs'[m].kind = "save" /\ reqs'[m].of = j /\ reqs'[m].id = d =>
                                 reqs'[m].stage = "done"
                          /\ d \in Known(slices'[j].wip) =>
                               \E m \in DOMAIN reqs' :
                                 reqs'[m].kind = "save" /\ reqs'[m].of = j /\ reqs'[m].id = d
      BY <1>0, <3>1 DEF OriginIs
    <3>3. OriginIs(j, i) /\ <<j, d>> \notin raced
      BY <1>0, <3>2 DEF Inv, Origins
    <3>4. ASSUME d \in Known(slices'[j].wip)
          PROVE  d \in Known(slices[j].wip)
                   /\ ~(reqs[n].kind = "save" /\ reqs[n].of = j /\ reqs[n].id = d)
      <4>1. CASE j # k
        BY SMTT(60), <1>0, <3>4, <4>1
      <4>2. CASE j = k /\ d # id
        BY <1>0, <1>1, <3>4, <4>2 DEF DraftFits
      <4>3. CASE j = k /\ d = id
        <5>1. /\ d \in Known(slices[j].wip)
              /\ reqs[n].kind = "save" => reqs[n].stage = "sent"
          BY <1>1, <3>2, <3>4, <4>3 DEF DraftFits
        <5>2. reqs[n].kind = "save" => reqs[n].stage = "done"
          BY <1>0, <1>2, <3>1, <3>3, <4>3 DEF OriginIs
        <5> QED  BY <5>1, <5>2
      <4> QED  BY <4>1, <4>2, <4>3
    <3> QED  BY <1>2, <3>1, <3>3, <3>4 DEF OriginIs
  <2> QED  BY <1>0, <2>1 DEF Origins
<1> QED
  BY <1>4, <1>5, <1>6, <1>7, <1>8, <1>9, <1>10, <1>11, <1>12, <1>13, <1>14 DEF Inv

-----------------------------------------------------------------------------
(* The server carries out request n, or another member writes, for an n     *)
(* that is no request.                                                      *)
Grown(k) ==
  /\ server'[k] \in Seq(StoredEntity(k))
  /\ \A i \in DOMAIN server[k] :
       /\ i \in DOMAIN server'[k] /\ server'[k][i].origin = server[k][i].origin
       /\ server[k][i].ver <= server'[k][i].ver

\* What is new is what the request asked for.
NewComesFrom(n, k) == \A i \in DOMAIN server'[k] \ DOMAIN server[k] :
  /\ n \in DOMAIN reqs /\ reqs[n].kind = "save" /\ reqs[n].of = k
  /\ server'[k][i].origin = reqs[n].id /\ reqs[n].id < 0
  /\ \A j \in DOMAIN server'[k] \ DOMAIN server[k] : i = j

AnswerFits(q, r) ==
  /\ r \in RequestType
  /\ r.kind = q.kind /\ r.of = q.of /\ r.id = q.id /\ r.body = q.body /\ r.stage = "done"
  /\ r.overtaken = q.overtaken /\ r.heard
  /\ r.kind = "load" => r.content = server[r.of]
  /\ r.kind \in {"save", "delete"} =>
       r.answer \in DOMAIN server'[r.of] /\ r.content = server'[r.of][r.answer]
  /\ r.kind = "delete" => r.answer = r.id

ServerStep(n) ==
  /\ DOMAIN server' = kinds /\ \A k \in kinds : Grown(k) /\ NewComesFrom(n, k)
  /\ DOMAIN reqs' \subseteq DOMAIN reqs /\ reqs' = [m \in DOMAIN reqs' |-> reqs'[m]]
  /\ \A m \in DOMAIN reqs \ {n} : m \in DOMAIN reqs' /\ reqs'[m] = reqs[m]
  /\ n \in DOMAIN reqs =>
       /\ reqs[n].stage = "sent" /\ reqs[n].kind # "rates"
       /\ IF n \in DOMAIN reqs' THEN AnswerFits(reqs[n], reqs'[n]) ELSE ~reqs[n].heard
  /\ edits' \in Nat /\ items' \in Nat
  /\ UNCHANGED <<slices, nav, history>>

LEMMA ServerStepKeeps ==
  ASSUME Inv, NEW n, ServerStep(n)
  PROVE  Inv'
<1>0. /\ DOMAIN server' = kinds /\ (\A k \in kinds : Grown(k) /\ NewComesFrom(n, k))
      /\ DOMAIN reqs' \subseteq DOMAIN reqs /\ reqs' = [m \in DOMAIN reqs' |-> reqs'[m]]
      /\ (\A m \in DOMAIN reqs \ {n} : m \in DOMAIN reqs' /\ reqs'[m] = reqs[m])
      /\ (n \in DOMAIN reqs =>
            /\ reqs[n].stage = "sent" /\ reqs[n].kind # "rates"
            /\ IF n \in DOMAIN reqs' THEN AnswerFits(reqs[n], reqs'[n]) ELSE ~reqs[n].heard)
      /\ edits' \in Nat /\ items' \in Nat
      /\ slices' = slices /\ kinds' = kinds /\ inGroup' = inGroup
      /\ mounted' = mounted /\ joined' = joined /\ typed' = typed /\ raced' = raced
  BY DEF ServerStep, nav, history
<1>1. \A k \in kinds :
        /\ Len(server[k]) \in Nat /\ Len(server'[k]) \in Nat /\ Len(server[k]) <= Len(server'[k])
        /\ DOMAIN server[k] = 1..Len(server[k]) /\ DOMAIN server'[k] = 1..Len(server'[k])
        /\ server'[k] \in Seq(StoredEntity(k))
        /\ \A i \in DOMAIN server'[k] : server'[k][i].ver \in Nat
  <2>1. ASSUME NEW k \in kinds
        PROVE  /\ Len(server[k]) \in Nat /\ Len(server'[k]) \in Nat /\ Len(server[k]) <= Len(server'[k])
               /\ DOMAIN server[k] = 1..Len(server[k]) /\ DOMAIN server'[k] = 1..Len(server'[k])
               /\ server'[k] \in Seq(StoredEntity(k))
               /\ \A i \in DOMAIN server'[k] : server'[k][i].ver \in Nat
    <3>1. PICK a, b : a = server[k] /\ b = server'[k]
      OBVIOUS
    <3>2. a \in Seq(StoredEntity(k)) /\ b \in Seq(StoredEntity(k)) /\ k \in Kinds
      BY <1>0, <3>1 DEF Inv, Typing, Grown
    <3>3. /\ Len(a) \in Nat /\ DOMAIN a = 1..Len(a) /\ Len(b) \in Nat /\ DOMAIN b = 1..Len(b)
          /\ \A i \in DOMAIN b : b[i] \in StoredEntity(k)
      BY ONLY <3>2, LenProperties, ElementOfSeq
    <3>4. \A i \in 1..Len(a) : i \in 1..Len(b)
      BY <1>0, <3>1, <3>3 DEF Grown
    <3>5. Len(a) <= Len(b)
      <4>1. CASE Len(a) = 0
        BY <3>3, <4>1
      <4>2. CASE Len(a) # 0
        <5>1. Len(a) \in 1..Len(a)
          BY <3>3, <4>2
        <5> QED  BY <3>3, <3>4, <5>1
      <4> QED  BY <4>1, <4>2
    <3>6. \A t \in StoredEntity(k) : t.ver \in Nat
      BY <3>2 DEF StoredEntity, StoredAccount, StoredTransaction
    <3> QED  BY <3>1, <3>2, <3>3, <3>5, <3>6
  <2> QED  BY <2>1
<1>2. \A m \in DOMAIN reqs' :
        /\ m \in DOMAIN reqs
        /\ reqs'[m].kind = reqs[m].kind /\ reqs'[m].of = reqs[m].of /\ reqs'[m].id = reqs[m].id
        /\ reqs'[m].body = reqs[m].body /\ reqs'[m] \in RequestType
        /\ reqs'[m].heard <=> reqs[m].heard \/ m = n
        /\ reqs[m].stage = "done" => m # n
        /\ m # n => reqs'[m] = reqs[m]
        /\ m = n => AnswerFits(reqs[n], reqs'[n])
  BY <1>0 DEF AnswerFits, Inv, Typing
<1>3. Typing'
  <2>1. ASSUME NEW m \in DOMAIN reqs'
        PROVE  reqs'[m] \in RequestType /\ Fits(reqs'[m]) /\ (reqs'[m].kind # "leave" => reqs'[m].of \in kinds)
    <3>1. CASE m # n
      BY <1>2, <3>1 DEF Inv, Typing
    <3>2. CASE m = n
      <4>1. AnswerFits(reqs[n], reqs'[n]) /\ Fits(reqs[n]) /\ reqs[n].kind # "rates"
            /\ (reqs[n].kind # "leave" => reqs[n].of \in kinds)
        BY <1>0, <1>2, <3>2 DEF Inv, Typing
      <4>2. reqs'[n].kind \in {"save", "delete"} => reqs'[n].content \in StoredEntity(reqs[n].of)
        <5>1. SUFFICES ASSUME reqs'[n].kind \in {"save", "delete"}
                       PROVE  reqs'[n].content \in StoredEntity(reqs[n].of)
          OBVIOUS
        <5>2. PICK k, list, i : k = reqs[n].of /\ list = server'[k] /\ i = reqs'[n].answer
          OBVIOUS
        <5>3. k \in kinds /\ i \in DOMAIN list /\ reqs'[n].content = list[i]
          BY <4>1, <5>1, <5>2 DEF AnswerFits
        <5>4. list \in Seq(StoredEntity(k))
          BY <1>1, <5>2, <5>3
        <5>5. list[i] \in StoredEntity(k)
          BY ONLY <5>3, <5>4, LenProperties, ElementOfSeq
        <5> QED  BY <5>2, <5>3, <5>5
      <4>3. reqs'[n].kind = "load" => reqs'[n].content \in Seq(StoredEntity(reqs[n].of))
        BY <4>1 DEF AnswerFits, Inv, Typing
      <4> QED  BY <1>2, <3>2, <4>1, <4>2, <4>3 DEF AnswerFits, Fits
    <3> QED  BY <3>1, <3>2
  <2>2. DOMAIN reqs' \subseteq Slots
    BY <1>0 DEF Inv, Typing
  <2>3. \A k \in kinds : server'[k] \in Seq(StoredEntity(k))
    BY <1>1
  <2> QED  BY <1>0, <2>1, <2>2, <2>3 DEF Inv, Typing
<1>4. \A k \in kinds, id \in Int : IdOf(k, id) => IdOf(k, id)'
  BY <1>0, <1>1 DEF IdOf
<1>5. Places'
  <2>1. ASSUME NEW k \in kinds PROVE PlacesIn(k)'
    <3>1. PlacesIn(k) /\ Known(slices[k].wip) \subseteq Int
      BY SliceHas DEF Inv, Places
    <3>2. \A id \in Known(slices[k].wip) : IdOf(k, id)' /\ slices[k].wip.byId[id].is_wip
      BY <1>4, <3>1 DEF PlacesIn
    <3>3. ASSUME NEW id \in Known(slices[k].saved)
          PROVE  id \in DOMAIN server'[k] /\ slices[k].saved.byId[id].ver <= server'[k][id].ver
      <4>1. id \in DOMAIN server[k] /\ slices[k].saved.byId[id].ver <= server[k][id].ver
        BY <3>1 DEF PlacesIn
      <4>2. id \in DOMAIN server'[k] /\ server[k][id].ver <= server'[k][id].ver
        BY <1>0, <4>1 DEF Grown
      <4>3. slices[k].saved.byId[id].ver \in Nat /\ server[k][id].ver \in Nat /\ server'[k][id].ver \in Nat
        BY <1>1, <4>1, <4>2, SliceHas, StoredHas DEF Inv
      <4> QED  BY <4>1, <4>2, <4>3
    <3>4. ASSUME NEW i \in DOMAIN server'[k]
          PROVE  slices[k].nextId < server'[k][i].origin /\ server'[k][i].origin <= 0
      <4>1. CASE i \in DOMAIN server[k]
        BY <1>0, <3>1, <4>1 DEF Grown, PlacesIn
      <4>2. CASE i \notin DOMAIN server[k]
        <5>1. /\ n \in DOMAIN reqs /\ reqs[n].kind = "save" /\ reqs[n].of = k
              /\ server'[k][i].origin = reqs[n].id /\ reqs[n].id < 0
          BY <1>0, <3>4, <4>2 DEF NewComesFrom
        <5>2. IdOf(k, reqs[n].id) /\ reqs[n].id \in Int
          BY <5>1 DEF Inv, Asked, AskedBy, Typing, RequestType
        <5> QED  BY <5>1, <5>2 DEF IdOf
      <4> QED  BY <4>1, <4>2
    <3> QED  BY <1>0, <3>1, <3>2, <3>3, <3>4 DEF PlacesIn
  <2> QED  BY <1>0, <2>1 DEF Places
<1>6. Visit'
  BY <1>0 DEF Inv, Visit
<1>7. LoadingIsAnswered'
  <2>1. ASSUME NEW m \in DOMAIN reqs, reqs[m].heard, reqs[m].kind = "load"
        PROVE  m \in DOMAIN reqs' /\ reqs'[m].heard /\ reqs'[m].kind = "load" /\ reqs'[m].of = reqs[m].of
    BY <1>0, <1>2, <2>1
  <2> QED  BY <1>0, <2>1 DEF Inv, LoadingIsAnswered, T!HasGroup
<1>8. Roomy'
  BY <1>0, <1>2 DEF Inv, Roomy
<1>9. Listed'
  BY <1>0 DEF Inv, Listed, ListedIn
<1>10. Asked'
  <2>1. ASSUME NEW m \in DOMAIN reqs', m # n PROVE AskedBy(m)'
    <3>1. PICK r : r = reqs[m]
      OBVIOUS
    <3>2. /\ AskedBy(m) /\ Fits(r) /\ (r.kind # "leave" => r.of \in kinds) /\ reqs'[m] = r /\ r.id \in Int
      BY <1>2, <2>1, <3>1 DEF Inv, Asked, Typing, RequestType
    <3>3. r.kind \in {"save", "rates"} => IdOf(r.of, r.id)'
      BY <1>4, <3>1, <3>2 DEF AskedBy
    <3>4. r.kind = "delete" => r.id \in DOMAIN server'[r.of]
      BY <1>0, <3>1, <3>2 DEF AskedBy, Grown
    <3>5. ASSUME r.stage = "done", r.kind = "load"
          PROVE  /\ Len(r.content) <= Len(server'[r.of])
                 /\ \A i \in DOMAIN r.content : r.content[i].ver <= server'[r.of][i].ver
      <4>1. PICK k, list : k = r.of /\ list = r.content
        OBVIOUS
      <4>2. k \in kinds /\ k \in Kinds /\ list \in Seq(StoredEntity(k)) /\ Len(list) <= Len(server[k])
            /\ \A i \in DOMAIN list : list[i].ver <= server[k][i].ver
        BY <3>1, <3>2, <3>5, <4>1 DEF AskedBy, Fits, Inv, Typing
      <4>3. /\ Len(list) \in Nat /\ DOMAIN list = 1..Len(list)
            /\ \A i \in DOMAIN list : list[i] \in StoredEntity(k)
        BY ONLY <4>2, LenProperties, ElementOfSeq
      <4>4. \A t \in StoredEntity(k) : t.ver \in Nat
        BY <4>2 DEF StoredEntity, StoredAccount, StoredTransaction
      <4>5. ASSUME NEW i \in DOMAIN list PROVE list[i].ver <= server'[k][i].ver
        <5>1. i \in DOMAIN server[k]
          BY <1>1, <4>2, <4>3
        <5>2. i \in DOMAIN server'[k] /\ server[k][i].ver <= server'[k][i].ver /\ server[k][i].ver \in Nat
          BY <1>0, <4>2, <5>1, StoredHas DEF Grown, Inv
        <5>3. list[i].ver \in Nat /\ server'[k][i].ver \in Nat
          BY <1>1, <4>2, <4>3, <4>4, <5>2
        <5> QED  BY <4>2, <5>2, <5>3
      <4> QED  BY <1>1, <4>1, <4>2, <4>3, <4>5
    <3>6. ASSUME r.stage = "done", r.kind \in {"save", "delete"}
          PROVE  /\ r.answer \in DOMAIN server'[r.of] /\ r.content.ver <= server'[r.of][r.answer].ver
                 /\ r.kind = "delete" => r.answer = r.id
      <4>1. PICK k, i, t : k = r.of /\ i = r.answer /\ t = r.content
        OBVIOUS
      <4>2. k \in kinds /\ k \in Kinds /\ t \in StoredEntity(k) /\ i \in DOMAIN server[k]
            /\ t.ver <= server[k][i].ver /\ (r.kind = "delete" => i = r.id)
        BY <3>1, <3>2, <3>6, <4>1 DEF AskedBy, Fits, Inv, Typing
      <4>3. i \in DOMAIN server'[k] /\ server[k][i].ver <= server'[k][i].ver /\ server[k][i].ver \in Nat
        BY <1>0, <4>2, StoredHas DEF Grown, Inv
      <4>4. t.ver \in Nat /\ server'[k][i].ver \in Nat
        BY <1>1, <4>2, <4>3 DEF StoredEntity, StoredAccount, StoredTransaction
      <4> QED  BY <4>1, <4>2, <4>3, <4>4
    <3> QED  BY <3>2, <3>3, <3>4, <3>5, <3>6 DEF AskedBy
  <2>2. ASSUME n \in DOMAIN reqs' PROVE AskedBy(n)'
    <3>1. PICK q, r : q = reqs[n] /\ r = reqs'[n]
      OBVIOUS
    <3>2. /\ AskedBy(n) /\ AnswerFits(q, r) /\ (q.kind # "leave" => q.of \in kinds) /\ q.id \in Int
          /\ r.kind = q.kind /\ r.of = q.of /\ r.id = q.id
      BY <1>2, <2>2, <3>1 DEF Inv, Asked, Typing, RequestType
    <3>3. r.kind \in {"save", "rates"} => IdOf(r.of, r.id)'
      BY <1>4, <3>1, <3>2 DEF AskedBy
    <3>4. r.kind = "delete" => r.id \in DOMAIN server'[r.of]
      BY <1>0, <3>1, <3>2 DEF AskedBy, Grown
    <3>5. r.kind = "load" =>
            /\ Len(r.content) <= Len(server'[r.of])
            /\ \A i \in DOMAIN r.content : r.content[i].ver <= server'[r.of][i].ver
      BY <1>0, <1>1, <3>2 DEF AnswerFits, Grown
    <3>6. r.kind \in {"save", "delete"} =>
            /\ r.answer \in DOMAIN server'[r.of] /\ r.content.ver <= server'[r.of][r.answer].ver
            /\ r.kind = "delete" => r.answer = r.id
      BY <1>1, <3>2 DEF AnswerFits
    <3> QED  BY <3>1, <3>3, <3>4, <3>5, <3>6 DEF AskedBy
  <2> QED  BY <2>1, <2>2 DEF Asked
<1>11. Newer'
  <2>1. ASSUME NEW m \in DOMAIN reqs', m # n PROVE NewerIs(m)'
    BY <1>0, <1>2, <2>1 DEF Inv, Newer, NewerIs
  <2>2. ASSUME n \in DOMAIN reqs' PROVE NewerIs(n)'
    <3>1. PICK r, k : r = reqs'[n] /\ k = r.of
      OBVIOUS
    <3>2. /\ AnswerFits(reqs[n], r) /\ (r.kind # "leave" => k \in kinds)
      BY <1>2, <2>2, <3>1 DEF Inv, Typing
    <3>3. r.kind = "load" => \A id \in Known(slices[k].saved) :
            id \in DOMAIN r.content /\ slices[k].saved.byId[id].ver <= r.content[id].ver
      BY <3>1, <3>2 DEF AnswerFits, Inv, Places, PlacesIn
    <3>4. r.kind \in {"save", "delete"} /\ r.answer \in Known(slices[k].saved) =>
            slices[k].saved.byId[r.answer].ver <= r.content.ver
      BY <1>0, <1>5, <3>1, <3>2 DEF AnswerFits, Places, PlacesIn
    <3> QED  BY <1>0, <3>1, <3>3, <3>4 DEF NewerIs
  <2> QED  BY <2>1, <2>2 DEF Newer
<1>12. OneDue'
  <2>1. ASSUME NEW m \in DOMAIN reqs' PROVE OneDueFor(m)'
    <3>1. OneDueFor(m) /\ m \in DOMAIN reqs
      BY <1>2 DEF Inv, OneDue
    <3>2. \A l \in DOMAIN reqs' : \A k, id : IsDue(l, k, id)' => l \in DOMAIN reqs /\ IsDue(l, k, id)
      BY <1>2 DEF IsDue
    <3> QED  BY <1>0, <1>2, <3>1, <3>2 DEF OneDueFor
  <2> QED  BY <2>1 DEF OneDue
<1>13. DraftsStay'
  BY <1>0 DEF Inv, DraftsStay, EditsStayIn, Mine
<1>14. Origins'
  <2>1. ASSUME NEW k \in kinds, NEW i \in DOMAIN server'[k] PROVE OriginIs(k, i)'
    <3>1. PICK d : d = server'[k][i].origin
      OBVIOUS
    <3>2. SUFFICES ASSUME <<k, d>> \notin raced
                   PROVE  /\ \A l \in DOMAIN server'[k] : server'[k][l].origin = d => i = l
                          /\ \A m \in DOMAIN reqs' :
                               reqs'[m].kind = "save" /\ reqs'[m].of = k /\ reqs'[m].id = d =>
                                 reqs'[m].stage = "done"
                          /\ d \in Known(slices[k].wip) =>
                               \E m \in DOMAIN reqs' :
                                 reqs'[m].kind = "save" /\ reqs'[m].of = k /\ reqs'[m].id = d
      BY <1>0, <3>1 DEF OriginIs
    <3>3. \A l \in DOMAIN server[k] : server'[k][l].origin = server[k][l].origin
      BY <1>0 DEF Grown
    <3>4. \A l \in DOMAIN server'[k] : l \notin DOMAIN server[k] =>
            /\ n \in DOMAIN reqs /\ reqs[n].kind = "save" /\ reqs[n].of = k
            /\ server'[k][l].origin = reqs[n].id
            /\ \A j \in DOMAIN server'[k] \ DOMAIN server[k] : l = j
      BY <1>0 DEF NewComesFrom
    <3>5. ASSUME NEW l \in DOMAIN server[k], server[k][l].origin = d
          PROVE  /\ \A j \in DOMAIN server[k] : server[k][j].origin = d => l = j
                 /\ \A m \in DOMAIN reqs : reqs[m].kind = "save" /\ reqs[m].of = k /\ reqs[m].id = d =>
                      reqs[m].stage = "done"
                 /\ d \in Known(slices[k].wip) =>
                      \E m \in DOMAIN reqs : reqs[m].kind = "save" /\ reqs[m].of = k /\ reqs[m].id = d
      BY <3>2, <3>5 DEF Inv, Origins, OriginIs
    <3>6. CASE i \in DOMAIN server[k]
      <4>1. server[k][i].origin = d
        BY <3>1, <3>3, <3>6
      <4>2. /\ \A j \in DOMAIN server[k] : server[k][j].origin = d => i = j
            /\ \A m \in DOMAIN reqs : reqs[m].kind = "save" /\ reqs[m].of = k /\ reqs[m].id = d =>
                 reqs[m].stage = "done"
            /\ d \in Known(slices[k].wip) =>
                 \E m \in DOMAIN reqs : reqs[m].kind = "save" /\ reqs[m].of = k /\ reqs[m].id = d
        BY <3>5, <3>6, <4>1
      <4>3. ~(n \in DOMAIN reqs /\ reqs[n].kind = "save" /\ reqs[n].of = k /\ reqs[n].id = d)
        BY <1>0, <4>2
      <4> QED  BY <1>0, <1>2, <3>3, <3>4, <4>2, <4>3
    <3>7. CASE i \notin DOMAIN server[k]
      <4>1. /\ n \in DOMAIN reqs /\ reqs[n].kind = "save" /\ reqs[n].of = k /\ d = reqs[n].id
            /\ reqs[n].stage = "sent"
            /\ \A j \in DOMAIN server'[k] \ DOMAIN server[k] : i = j
        BY <1>0, <3>1, <3>4, <3>7
      <4>2. \A l \in DOMAIN server[k] : server[k][l].origin # d
        BY <3>5, <4>1
      <4>3. reqs[n].heard /\ \A m \in DOMAIN reqs : IsDue(m, k, d) => m = n
        BY <3>2, <4>1 DEF Inv, OneDue, OneDueFor
      <4>4. n \in DOMAIN reqs' /\ reqs'[n].stage = "done"
        BY <1>0, <4>1, <4>3 DEF AnswerFits
      <4>5. \A m \in DOMAIN reqs' : reqs'[m].kind = "save" /\ reqs'[m].of = k /\ reqs'[m].id = d => m = n
        BY <1>2, <4>3 DEF IsDue
      <4> QED  BY <1>2, <3>3, <4>1, <4>2, <4>4, <4>5
    <3> QED  BY <3>6, <3>7
  <2> QED  BY <1>0, <2>1 DEF Origins
<1> QED
  BY <1>3, <1>5, <1>6, <1>7, <1>8, <1>9, <1>10, <1>11, <1>12, <1>13, <1>14 DEF Inv

-----------------------------------------------------------------------------
(* The page of the group: the lists that are asked for, the visits, a       *)
(* reload, and the end of a membership.                                     *)

\* Requests that ask for lists come on top of those that are under way.
Mounted ==
  /\ inGroup /\ joined /\ mounted' = TRUE
  /\ DOMAIN slices' = kinds /\ \A k \in kinds : slices'[k] = Pending(k, slices[k])
  /\ reqs' = [n \in DOMAIN reqs' |-> reqs'[n]] /\ DOMAIN reqs' \subseteq Slots
  /\ \A n \in DOMAIN reqs : n \in DOMAIN reqs' /\ reqs'[n] = reqs[n]
  /\ \A n \in DOMAIN reqs' \ DOMAIN reqs :
       \E k \in kinds : reqs'[n] = Request("load", k, 0, NoBody)
  /\ \A k \in kinds : \E n \in DOMAIN reqs' : reqs'[n] = Request("load", k, 0, NoBody)
  /\ UNCHANGED <<kinds, server, inGroup, joined, counters, history>>

LEMMA LoadRequest ==
  ASSUME Typing, NEW k \in kinds, NEW r, r = Request("load", k, 0, NoBody)
  PROVE  /\ r \in RequestType /\ Fits(r) /\ r.kind = "load" /\ r.of = k /\ r.heard /\ r.stage = "sent"
<1>1. k \in Kinds /\ k # "none" /\ Stamp \in Int
  BY DEF Typing, Kinds, Stamp
<1>2. NoBody \in Body /\ NoBody \in Content
  BY DEF Body, Content
<1>3. r \in RequestType
  BY ONLY <1>1, <1>2, r = Request("load", k, 0, NoBody) DEF Request, RequestType
<1> QED
  BY <1>1, <1>3 DEF Request, Fits

LEMMA MountedKeeps ==
  ASSUME Inv, Mounted
  PROVE  Inv'
<1>0. /\ inGroup /\ joined /\ mounted' = TRUE
      /\ DOMAIN slices' = kinds /\ (\A k \in kinds : slices'[k] = Pending(k, slices[k]))
      /\ reqs' = [n \in DOMAIN reqs' |-> reqs'[n]] /\ DOMAIN reqs' \subseteq Slots
      /\ (\A n \in DOMAIN reqs : n \in DOMAIN reqs' /\ reqs'[n] = reqs[n])
      /\ kinds' = kinds /\ server' = server /\ inGroup' = inGroup /\ joined' = joined
      /\ edits' = edits /\ items' = items /\ typed' = typed /\ raced' = raced
  BY DEF Mounted, counters, history
<1>1. ASSUME NEW n \in DOMAIN reqs', n \notin DOMAIN reqs
      PROVE  /\ reqs'[n] \in RequestType /\ Fits(reqs'[n]) /\ reqs'[n].kind = "load"
             /\ reqs'[n].of \in kinds /\ reqs'[n].stage = "sent"
  <2>1. PICK k \in kinds : reqs'[n] = Request("load", k, 0, NoBody)
    BY <1>1 DEF Mounted
  <2> QED  BY <2>1, LoadRequest DEF Inv
<1>2. \A k \in kinds : \E n \in DOMAIN reqs' :
        reqs'[n].kind = "load" /\ reqs'[n].of = k /\ reqs'[n].heard
  <2>1. ASSUME NEW k \in kinds
        PROVE  \E n \in DOMAIN reqs' : reqs'[n].kind = "load" /\ reqs'[n].of = k /\ reqs'[n].heard
    <3>1. PICK n \in DOMAIN reqs' : reqs'[n] = Request("load", k, 0, NoBody)
      BY DEF Mounted
    <3> QED  BY <3>1, LoadRequest DEF Inv
  <2> QED  BY <2>1
<1>3. \A k \in kinds :
        /\ k \in Kinds /\ slices'[k] \in Slice(k) /\ slices'[k].saved = slices[k].saved
        /\ slices'[k].wip = slices[k].wip /\ slices'[k].nextId = slices[k].nextId
        /\ Lower(k, slices[k], slices'[k]) /\ slices'[k].status = "loading"
  BY <1>0, PendingIs DEF Inv, Typing
<1>4. Typing'
  <2>1. ASSUME NEW m \in DOMAIN reqs'
        PROVE  reqs'[m] \in RequestType /\ Fits(reqs'[m]) /\ (reqs'[m].kind # "leave" => reqs'[m].of \in kinds)
    BY <1>0, <1>1 DEF Inv, Typing
  <2> QED  BY <1>0, <1>3, <2>1 DEF Inv, Typing
<1>5. Places'
  <2>1. ASSUME NEW k \in kinds PROVE PlacesIn(k)'
    BY <1>0, <1>3 DEF Inv, Places, PlacesIn, IdOf
  <2> QED  BY <1>0, <2>1 DEF Places
<1>6. Visit'
  BY <1>0, <1>3 DEF Inv, Visit
<1>7. LoadingIsAnswered'
  BY <1>0, <1>2, <1>3 DEF LoadingIsAnswered, T!HasGroup
<1>8. Roomy'
  <2> SUFFICES ASSUME "transaction" \in kinds PROVE Roomy'
    BY <1>0 DEF Roomy
  <2>1. PICK s, u : s = slices["transaction"] /\ u = slices'["transaction"]
    OBVIOUS
  <2>2. u.nextPosition = s.nextPosition /\ u.nextFile = s.nextFile
    <3>1. s \in Slice("transaction") /\ u = Pending("transaction", s)
      BY <1>0, <2>1 DEF Inv, Typing
    <3> QED  BY ONLY <3>1 DEF Pending, T!fetchPending, T!setStatus, T!initializeGroupState,
                             Slice, TransactionState
  <2> QED  BY <1>0, <1>1, <1>3, <2>1, <2>2 DEF Inv, Roomy, Room
<1>9. Listed'
  BY <1>0, <1>3 DEF Inv, Listed, ListedIn
<1>10. Asked'
  <2>1. ASSUME NEW m \in DOMAIN reqs' PROVE AskedBy(m)'
    <3>1. CASE m \in DOMAIN reqs
      <4>1. AskedBy(m) /\ reqs'[m] = reqs[m] /\ (reqs[m].kind # "leave" => reqs[m].of \in kinds)
        BY <1>0, <3>1 DEF Inv, Asked, Typing
      <4>2. reqs[m].kind # "leave" => slices'[reqs[m].of].nextId = slices[reqs[m].of].nextId
        BY <1>3, <4>1
      <4> QED  BY <1>0, <4>1, <4>2 DEF AskedBy, IdOf
    <3>2. CASE m \notin DOMAIN reqs
      BY <1>1, <3>2 DEF AskedBy
    <3> QED  BY <3>1, <3>2
  <2> QED  BY <2>1 DEF Asked
<1>11. Newer'
  <2>1. ASSUME NEW m \in DOMAIN reqs' PROVE NewerIs(m)'
    <3>1. CASE m \in DOMAIN reqs
      BY <1>0, <1>3, <3>1 DEF Inv, Newer, NewerIs, Typing
    <3>2. CASE m \notin DOMAIN reqs
      BY <1>1, <3>2 DEF NewerIs
    <3> QED  BY <3>1, <3>2
  <2> QED  BY <2>1 DEF Newer
<1>12. OneDue'
  <2>1. ASSUME NEW m \in DOMAIN reqs' PROVE OneDueFor(m)'
    <3>1. CASE m \in DOMAIN reqs
      <4>1. OneDueFor(m) /\ reqs'[m] = reqs[m] /\ (reqs[m].kind # "leave" => reqs[m].of \in kinds)
        BY <1>0, <3>1 DEF Inv, OneDue, Typing
      <4>2. \A l \in DOMAIN reqs' : \A k, id : IsDue(l, k, id)' => l \in DOMAIN reqs /\ IsDue(l, k, id)
        BY <1>0, <1>1 DEF IsDue
      <4>3. CASE reqs[m].kind \in {"save", "rates", "delete"}
        <5>1. reqs[m].of \in kinds /\ slices'[reqs[m].of].wip = slices[reqs[m].of].wip
          BY <1>3, <4>1, <4>3
        <5> QED  BY <1>0, <4>1, <4>2, <5>1 DEF OneDueFor
      <4>4. CASE reqs[m].kind \notin {"save", "rates", "delete"}
        BY <4>1, <4>4 DEF OneDueFor
      <4> QED  BY <4>3, <4>4
    <3>2. CASE m \notin DOMAIN reqs
      BY <1>1, <3>2 DEF OneDueFor
    <3> QED  BY <3>1, <3>2
  <2> QED  BY <2>1 DEF OneDue
<1>13. DraftsStay'
  BY <1>0, <1>3 DEF Inv, DraftsStay, EditsStayIn, Mine
<1>14. Origins'
  <2>1. ASSUME NEW j \in kinds, NEW i \in DOMAIN server[j] PROVE OriginIs(j, i)'
    <3>1. OriginIs(j, i) /\ slices'[j].wip = slices[j].wip
      BY <1>3 DEF Inv, Origins
    <3>2. \A n \in DOMAIN reqs' : reqs'[n].kind = "save" => n \in DOMAIN reqs /\ reqs'[n] = reqs[n]
      BY <1>0, <1>1
    <3> QED  BY <1>0, <3>1, <3>2 DEF OriginIs
  <2> QED  BY <1>0, <2>1 DEF Origins
<1> QED
  BY <1>4, <1>5, <1>6, <1>7, <1>8, <1>9, <1>10, <1>11, <1>12, <1>13, <1>14 DEF Inv

LEMMA NextFreeIs ==
  ASSUME NEW rs, Slots \ DOMAIN rs # {}
  PROVE  NextFree(rs) \in Slots \ DOMAIN rs
<1>1. Slots \ DOMAIN rs \in SUBSET Nat
  BY Bounds
<1>2. \E n \in Slots \ DOMAIN rs : \A m \in Slots \ DOMAIN rs : n <= m
  BY <1>1, LeastNatural
<1> QED
  BY <1>2 DEF NextFree

Fcn(f) == f = [x \in DOMAIN f |-> f[x]]
LoadOf(k) == Request("load", k, 0, NoBody)
AskLoad(rs, k) == IF k \notin kinds THEN rs ELSE With(rs, NextFree(rs), LoadOf(k))

\* What one list that is asked for adds to the requests.
Adds(rs, k, u) ==
  /\ Fcn(u) /\ DOMAIN u \subseteq Slots
  /\ \A n \in DOMAIN rs : n \in DOMAIN u /\ u[n] = rs[n]
  /\ \A n \in DOMAIN u \ DOMAIN rs : k \in kinds /\ u[n] = LoadOf(k)
  /\ k \in kinds => \E n \in Slots \ DOMAIN rs : DOMAIN u = DOMAIN rs \cup {n} /\ u[n] = LoadOf(k)
  /\ k \notin kinds => u = rs

LEMMA AskLoadAdds ==
  ASSUME NEW rs, Fcn(rs), DOMAIN rs \subseteq Slots, NEW k, k \in kinds => Slots \ DOMAIN rs # {}
  PROVE  Adds(rs, k, AskLoad(rs, k))
<1> DEFINE u == AskLoad(rs, k)
<1>1. CASE k \notin kinds
  BY <1>1 DEF AskLoad, Adds
<1>2. CASE k \in kinds
  <2>1. PICK n, r : n = NextFree(rs) /\ r = LoadOf(k)
    OBVIOUS
  <2>2. n \in Slots \ DOMAIN rs
    BY <1>2, <2>1, NextFreeIs
  <2>3. u = With(rs, n, r)
    BY <1>2, <2>1 DEF AskLoad
  <2>4. /\ DOMAIN u = DOMAIN rs \cup {n} /\ u[n] = r
        /\ (\A m \in DOMAIN rs : u[m] = rs[m])
        /\ Fcn(u)
    BY ONLY <2>2, <2>3 DEF With, Fcn
  <2> HIDE DEF u
  <2>5. Adds(rs, k, u)
    BY <1>2, <2>1, <2>2, <2>4 DEF Adds
  <2> QED  BY <2>5 DEF u
<1> QED
  BY <1>1, <1>2

LEMMA MountIsMounted ==
  ASSUME Inv, MountGroup
  PROVE  Mounted
<1>0. /\ inGroup /\ joined /\ mounted' = TRUE /\ Cardinality(Free) >= Cardinality(kinds)
      /\ slices' = [k \in kinds |->
                  IF k = "account" THEN A!fetchPending(A!setStatus(slices[k], "loading"))
                  ELSE T!fetchPending(T!setStatus(slices[k], "loading"))]
      /\ reqs' = AskLoad(AskLoad(reqs, "account"), "transaction")
      /\ UNCHANGED <<kinds, server, inGroup, joined, counters, history>>
  BY DEF MountGroup, AskLoad, LoadOf
<1>1. DOMAIN slices' = kinds /\ \A k \in kinds : slices'[k] = Pending(k, slices[k])
  BY ONLY <1>0 DEF Pending
<1>2. IsFiniteSet(Free) /\ Fcn(reqs) /\ DOMAIN reqs \subseteq Slots
  BY Bounds, FS_Difference DEF Free, Inv, Typing, Fcn
<1>3. kinds \subseteq Kinds /\ IsFiniteSet(kinds)
  <2>1. IsFiniteSet(Kinds)
    <3>1. IsFiniteSet({"transaction"}) /\ Kinds = {"transaction"} \cup {"account"}
      BY FS_Singleton DEF Kinds
    <3> QED  BY <3>1, FS_AddElement
  <2> QED  BY <2>1, FS_Subset DEF Inv, Typing
<1>4. \A k \in kinds : Free # {}
  <2> SUFFICES ASSUME NEW k \in kinds, Free = {} PROVE FALSE
    OBVIOUS
  <2>1. Cardinality(Free) = 0 /\ Cardinality(kinds) # 0
    BY <1>3, FS_EmptySet
  <2>2. Cardinality(kinds) \in Nat
    BY <1>3, FS_CardinalityType
  <2> QED  BY <1>0, <2>1, <2>2
<1>5. PICK rq, rs, us : rq = reqs /\ rs = AskLoad(rq, "account") /\ us = AskLoad(rs, "transaction")
  OBVIOUS
<1>6. "account" \in kinds => Slots \ DOMAIN rq # {}
  BY <1>4, <1>5 DEF Free
<1>7. /\ Fcn(rs) /\ DOMAIN rs \subseteq Slots
      /\ (\A n \in DOMAIN rq : n \in DOMAIN rs /\ rs[n] = rq[n])
      /\ (\A n \in DOMAIN rs \ DOMAIN rq : "account" \in kinds /\ rs[n] = LoadOf("account"))
      /\ ("account" \in kinds => \E n \in Slots \ DOMAIN rq :
                                   DOMAIN rs = DOMAIN rq \cup {n} /\ rs[n] = LoadOf("account"))
      /\ ("account" \notin kinds => rs = rq)
  <2>1. Fcn(rq) /\ DOMAIN rq \subseteq Slots
    BY <1>2, <1>5
  <2>2. Adds(rq, "account", rs)
    BY ONLY <2>1, <1>5, <1>6, AskLoadAdds
  <2> QED  BY <2>2 DEF Adds
<1>8. "transaction" \in kinds => Slots \ DOMAIN rs # {}
  <2> SUFFICES ASSUME "transaction" \in kinds PROVE Slots \ DOMAIN rs # {}
    OBVIOUS
  <2>1. CASE "account" \notin kinds
    BY <1>4, <1>5, <1>7, <2>1 DEF Free
  <2>2. CASE "account" \in kinds
    <3>1. PICK n \in Free : DOMAIN rs = DOMAIN reqs \cup {n}
      BY <1>5, <1>7, <2>2 DEF Free
    <3>2. Slots \ DOMAIN rs = Free \ {n}
      BY <3>1 DEF Free
    <3>3. Cardinality(kinds) = 2
      <4>1. kinds = {"account"} \cup {"transaction"}
        BY <1>3, <2>2 DEF Kinds
      <4>2. Cardinality({"account"}) = 1 /\ IsFiniteSet({"account"})
        BY FS_Singleton
      <4>3. "transaction" \notin {"account"}
        OBVIOUS
      <4> QED  BY <4>1, <4>2, <4>3, FS_AddElement
    <3>4. Cardinality(Free) \in Nat /\ Cardinality(Free \ {n}) = Cardinality(Free) - 1
      BY <1>2, FS_CardinalityType, FS_RemoveElement
    <3>5. Free \ {n} # {}
      BY <1>0, <3>3, <3>4, FS_EmptySet
    <3> QED  BY <3>2, <3>5
  <2> QED  BY <2>1, <2>2
<1>9. /\ Fcn(us) /\ DOMAIN us \subseteq Slots
      /\ (\A n \in DOMAIN rs : n \in DOMAIN us /\ us[n] = rs[n])
      /\ (\A n \in DOMAIN us \ DOMAIN rs : "transaction" \in kinds /\ us[n] = LoadOf("transaction"))
      /\ ("transaction" \in kinds => \E n \in Slots \ DOMAIN rs :
                                   DOMAIN us = DOMAIN rs \cup {n} /\ us[n] = LoadOf("transaction"))
  <2>1. Fcn(rs) /\ DOMAIN rs \subseteq Slots
    BY <1>7
  <2>2. Adds(rs, "transaction", us)
    BY ONLY <1>5, <1>8, <2>1, AskLoadAdds
  <2> QED  BY <2>2 DEF Adds
<1>10. reqs' = us
  BY <1>0, <1>5
<1>11. \A n \in DOMAIN us \ DOMAIN reqs : \E k \in kinds : us[n] = LoadOf(k)
  BY <1>5, <1>7, <1>9
<1>12. \A k \in kinds : \E n \in DOMAIN us : us[n] = LoadOf(k)
  <2>1. \A k \in kinds : k = "account" \/ k = "transaction"
    BY <1>3 DEF Kinds
  <2>2. "account" \in kinds => \E n \in DOMAIN us : us[n] = LoadOf("account")
    BY <1>7, <1>9
  <2>3. "transaction" \in kinds => \E n \in DOMAIN us : us[n] = LoadOf("transaction")
    BY <1>9
  <2> QED  BY <2>1, <2>2, <2>3
<1>13. \A n \in DOMAIN reqs : n \in DOMAIN us /\ us[n] = reqs[n]
  BY <1>5, <1>7, <1>9
<1> QED
  BY <1>0, <1>1, <1>9, <1>10, <1>11, <1>12, <1>13 DEF Mounted, LoadOf, Fcn

-----------------------------------------------------------------------------
OvertakenBy(r, late) == [r EXCEPT !.overtaken = @ \/ late]

LEMMA OvertakenIs ==
  ASSUME NEW r \in RequestType, NEW late \in BOOLEAN, NEW q, q = OvertakenBy(r, late)
  PROVE  SameRequest(r, q) /\ (late => q.overtaken)
<1>1. q \in RequestType
  BY DEF OvertakenBy, RequestType
<1>2. /\ q.kind = r.kind /\ q.of = r.of /\ q.id = r.id /\ q.body = r.body /\ q.stage = r.stage
      /\ q.answer = r.answer /\ q.content = r.content /\ q.heard = r.heard
      /\ q.overtaken = (r.overtaken \/ late)
  BY ONLY r \in RequestType, q = OvertakenBy(r, late) DEF OvertakenBy, RequestType
<1> QED
  BY <1>1, <1>2 DEF SameRequest

\* What a delivery does to the other requests.
LEMMA DeliveredEnds ==
  ASSUME Typing, NEW n \in DOMAIN reqs, Delivered(n)
  PROVE  /\ RequestEnds(n)
         /\ reqs[n].kind # "rates" =>
              \A m \in DOMAIN reqs' : reqs'[m].of = reqs[n].of => reqs'[m].overtaken
<1> DEFINE late(m) == reqs[m].of = reqs[n].of /\ reqs[n].kind # "rates"
<1>1. reqs' = [m \in DOMAIN reqs \ {n} |-> OvertakenBy(reqs[m], late(m))]
  BY DEF Delivered, OvertakenBy
<1>2. /\ DOMAIN reqs' = DOMAIN reqs \ {n} /\ reqs' = [m \in DOMAIN reqs' |-> reqs'[m]]
      /\ \A m \in DOMAIN reqs' : reqs'[m] = OvertakenBy(reqs[m], late(m))
  BY ONLY <1>1
<1>3. ASSUME NEW m \in DOMAIN reqs'
      PROVE  SameRequest(reqs[m], reqs'[m]) /\ (late(m) => reqs'[m].overtaken)
  <2>1. reqs[m] \in RequestType /\ late(m) \in BOOLEAN /\ reqs'[m] = OvertakenBy(reqs[m], late(m))
    BY <1>2 DEF Typing
  <2> HIDE DEF late
  <2> QED  BY ONLY <2>1, OvertakenIs
<1> QED
  BY <1>2, <1>3 DEF RequestEnds, SameRequest

LEMMA LeaveKeeps ==
  ASSUME Inv, NEW n \in DOMAIN reqs, LeaveAnswered(n)
  PROVE  Inv'
<1>0. /\ reqs[n].kind = "leave" /\ Delivered(n)
      /\ slices' = [k \in kinds |-> IF k = "account" THEN A!leaveGroupFulfilled(slices[k])
                                   ELSE T!leaveGroupFulfilled(slices[k])]
      /\ joined' = FALSE /\ inGroup' = FALSE /\ mounted' = FALSE /\ typed' = <<>>
      /\ kinds' = kinds /\ server' = server /\ edits' = edits /\ items' = items /\ raced' = raced
  BY DEF LeaveAnswered, counters
<1>1. DOMAIN slices' = kinds /\ \A k \in kinds : slices'[k] = Left(k, slices[k])
  BY ONLY <1>0 DEF Left
<1>2. \A k \in kinds :
        /\ slices'[k] \in Slice(k) /\ Known(slices'[k].saved) = {} /\ Known(slices'[k].wip) = {}
        /\ slices'[k].nextId = slices[k].nextId /\ slices'[k].status = "absent"
        /\ Lower(k, slices[k], slices'[k])
  <2>1. \A k \in kinds : k \in Kinds /\ slices[k] \in Slice(k)
    BY DEF Inv, Typing
  <2> QED  BY ONLY <1>1, <2>1, LeftIs
<1>3. /\ DOMAIN reqs' = DOMAIN reqs \ {n} /\ reqs' = [m \in DOMAIN reqs' |-> reqs'[m]]
      /\ \A m \in DOMAIN reqs' : SameRequest(reqs[m], reqs'[m])
  BY <1>0, DeliveredEnds DEF Inv, RequestEnds
<1>4. Typing'
  <2>1. ASSUME NEW m \in DOMAIN reqs'
        PROVE  reqs'[m] \in RequestType /\ Fits(reqs'[m]) /\ (reqs'[m].kind # "leave" => reqs'[m].of \in kinds)
    BY <1>3, <2>1 DEF Inv, Typing, Fits, SameRequest
  <2>2. typed' = [i \in DOMAIN typed' |-> typed'[i]]
    BY <1>0
  <2> QED  BY <1>0, <1>1, <1>2, <1>3, <2>1, <2>2 DEF Inv, Typing
<1>5. Places'
  BY <1>0, <1>2 DEF Inv, Places, PlacesIn
<1>6. Visit'
  BY <1>0, <1>2 DEF Visit
<1>7. LoadingIsAnswered'
  BY <1>0 DEF LoadingIsAnswered
<1>8. Roomy'
  <2> SUFFICES ASSUME "transaction" \in kinds PROVE Roomy'
    BY <1>0 DEF Roomy
  <2>1. PICK s, u : s = slices["transaction"] /\ u = slices'["transaction"]
    OBVIOUS
  <2>2. u.nextPosition = s.nextPosition /\ u.nextFile = s.nextFile
    <3>1. s \in Slice("transaction") /\ u = Left("transaction", s)
      BY <1>1, <2>1 DEF Inv, Typing
    <3> QED  BY ONLY <3>1 DEF Left, T!leaveGroupFulfilled, T!initialState
  <2>3. /\ s.nextPosition < 0 /\ s.nextFile < 0
        /\ \A m \in DOMAIN reqs : reqs[m].kind = "rates" => Room(s, reqs[m].body)
    BY <2>1 DEF Inv, Roomy
  <2>4. \A m \in DOMAIN reqs' : reqs'[m].kind = "rates" => Room(u, reqs'[m].body)
    BY <1>3, <2>2, <2>3 DEF Room, SameRequest
  <2>5. Known(u.wip) = {} /\ Known(u.saved) = {}
    BY <1>2, <2>1
  <2> QED  BY <1>0, <2>1, <2>2, <2>3, <2>4, <2>5 DEF Roomy
<1>9. Listed'
  BY <1>0, <1>2 DEF Listed, ListedIn
<1>10. Asked'
  <2>1. ASSUME NEW m \in DOMAIN reqs' PROVE AskedBy(m)'
    <3>1. AskedBy(m) /\ SameRequest(reqs[m], reqs'[m]) /\ (reqs[m].kind # "leave" => reqs[m].of \in kinds)
      BY <1>3 DEF Inv, Asked, Typing
    <3>2. reqs[m].kind # "leave" => slices'[reqs[m].of].nextId = slices[reqs[m].of].nextId
      BY <1>2, <3>1
    <3> QED  BY <1>0, <3>1, <3>2 DEF AskedBy, IdOf, SameRequest
  <2> QED  BY <2>1 DEF Asked
<1>11. Newer'
  <2>1. ASSUME NEW m \in DOMAIN reqs' PROVE NewerIs(m)'
    <3>1. SameRequest(reqs[m], reqs'[m]) /\ (reqs[m].kind # "leave" => reqs[m].of \in kinds)
      BY <1>3 DEF Inv, Typing
    <3>2. reqs[m].kind # "leave" => Known(slices'[reqs[m].of].saved) = {}
      BY <1>2, <3>1
    <3> QED  BY <3>1, <3>2 DEF NewerIs, SameRequest
  <2> QED  BY <2>1 DEF Newer
<1>12. OneDue'
  <2>1. ASSUME NEW m \in DOMAIN reqs' PROVE OneDueFor(m)'
    <3>1. OneDueFor(m)
      BY <1>3 DEF Inv, OneDue
    <3>2. \A l \in DOMAIN reqs' :
            /\ l \in DOMAIN reqs /\ reqs'[l].kind = reqs[l].kind /\ reqs'[l].of = reqs[l].of
            /\ reqs'[l].id = reqs[l].id /\ reqs'[l].heard = reqs[l].heard
      BY <1>3 DEF SameRequest
    <3> QED  BY <1>0, <3>1, <3>2 DEF OneDueFor, IsDue
  <2> QED  BY <2>1 DEF OneDue
<1>13. DraftsStay'
  BY <1>0, <1>2 DEF DraftsStay, EditsStayIn
<1>14. Origins'
  <2>1. ASSUME NEW j \in kinds, NEW i \in DOMAIN server[j] PROVE OriginIs(j, i)'
    <3>1. OriginIs(j, i) /\ Known(slices'[j].wip) = {}
      BY <1>2 DEF Inv, Origins
    <3> QED  BY <1>0, <1>3, <3>1 DEF OriginIs, SameRequest
  <2> QED  BY <1>0, <2>1 DEF Origins
<1> QED
  BY <1>4, <1>5, <1>6, <1>7, <1>8, <1>9, <1>10, <1>11, <1>12, <1>13, <1>14 DEF Inv

Unheard(r) == [r EXCEPT !.heard = FALSE]

LEMMA UnheardIs ==
  ASSUME NEW r \in RequestType, NEW q, q = Unheard(r)
  PROVE  /\ q \in RequestType /\ q.kind = r.kind /\ q.of = r.of /\ q.id = r.id
         /\ q.body = r.body /\ q.stage = r.stage
BY DEF Unheard, RequestType

LEMMA ReloadKeeps ==
  ASSUME Inv, Reload
  PROVE  Inv'
<1> DEFINE kept == {n \in DOMAIN reqs : reqs[n].kind \in {"save", "delete", "leave"}
                                          /\ reqs[n].stage = "sent"}
<1>0. /\ mounted' = FALSE
      /\ reqs' = [n \in kept |-> [reqs[n] EXCEPT !.heard = FALSE]]
      /\ raced' = raced \cup {<<reqs[n].of, reqs[n].id>> :
                               n \in {m \in DOMAIN reqs : reqs[m].kind = "save"}}
      /\ kinds' = kinds /\ slices' = slices /\ server' = server /\ inGroup' = inGroup
      /\ joined' = joined /\ edits' = edits /\ items' = items /\ typed' = typed
  BY DEF Reload
<1>1. /\ raced \subseteq raced'
      /\ \A n \in DOMAIN reqs : reqs[n].kind = "save" => <<reqs[n].of, reqs[n].id>> \in raced'
  BY <1>0
<1>2. /\ DOMAIN reqs' \subseteq DOMAIN reqs /\ reqs' = [m \in DOMAIN reqs' |-> reqs'[m]]
      /\ \A m \in DOMAIN reqs' :
           /\ reqs'[m] \in RequestType
           /\ reqs'[m].kind = reqs[m].kind /\ reqs'[m].of = reqs[m].of /\ reqs'[m].id = reqs[m].id
           /\ reqs'[m].body = reqs[m].body /\ reqs'[m].stage = "sent"
           /\ reqs'[m].kind \in {"save", "delete", "leave"}
  <2>1. reqs' = [n \in kept |-> Unheard(reqs[n])]
    BY <1>0 DEF Unheard
  <2>2. /\ DOMAIN reqs' = kept /\ reqs' = [m \in DOMAIN reqs' |-> reqs'[m]]
        /\ \A m \in kept : reqs'[m] = Unheard(reqs[m])
    BY ONLY <2>1
  <2>3. ASSUME NEW m \in kept
        PROVE  /\ reqs'[m] \in RequestType
               /\ reqs'[m].kind = reqs[m].kind /\ reqs'[m].of = reqs[m].of /\ reqs'[m].id = reqs[m].id
               /\ reqs'[m].body = reqs[m].body /\ reqs'[m].stage = reqs[m].stage
    <3>1. reqs[m] \in RequestType /\ reqs'[m] = Unheard(reqs[m])
      BY <2>2, <2>3 DEF Inv, Typing
    <3> QED  BY ONLY <3>1, UnheardIs
  <2> QED  BY <2>2, <2>3
<1> HIDE DEF kept
<1>4. Typing'
  <2>1. ASSUME NEW m \in DOMAIN reqs'
        PROVE  reqs'[m] \in RequestType /\ Fits(reqs'[m]) /\ (reqs'[m].kind # "leave" => reqs'[m].of \in kinds)
    BY <1>2, <2>1 DEF Inv, Typing, Fits
  <2>2. DOMAIN reqs' \subseteq Slots
    BY <1>2 DEF Inv, Typing
  <2>3. typed' = [i \in DOMAIN typed' |-> typed'[i]]
    BY <1>0 DEF Inv, Typing
  <2>4. /\ mounted' = FALSE /\ kinds' = kinds /\ slices' = slices /\ server' = server
        /\ inGroup' = inGroup /\ joined' = joined /\ edits' = edits /\ items' = items
    BY <1>0
  <2>5. reqs' = [m \in DOMAIN reqs' |-> reqs'[m]]
    BY <1>2
  <2>6. Typing
    BY DEF Inv
  <2> QED  BY ONLY <2>1, <2>2, <2>3, <2>4, <2>5, <2>6 DEF Typing
<1>5. Places'
  BY <1>0 DEF Inv, Places, PlacesIn, IdOf
<1>6. Visit'
  BY <1>0 DEF Inv, Visit
<1>7. LoadingIsAnswered'
  BY <1>0 DEF LoadingIsAnswered
<1>8. Roomy'
  BY <1>0, <1>2 DEF Inv, Roomy
<1>9. Listed'
  BY <1>0, <1>1 DEF Inv, Listed, ListedIn
<1>10. Asked'
  <2>1. ASSUME NEW m \in DOMAIN reqs' PROVE AskedBy(m)'
    BY <1>0, <1>2 DEF Inv, Asked, AskedBy, IdOf
  <2> QED  BY <2>1 DEF Asked
<1>11. Newer'
  BY <1>2 DEF Newer, NewerIs
<1>12. OneDue'
  <2>1. ASSUME NEW m \in DOMAIN reqs' PROVE OneDueFor(m)'
    <3>1. OneDueFor(m) /\ m \in DOMAIN reqs
      BY <1>2 DEF Inv, OneDue
    <3>2. \A l \in DOMAIN reqs' : \A k, id : IsDue(l, k, id)' => l \in DOMAIN reqs /\ IsDue(l, k, id)
      BY <1>2 DEF IsDue
    <3>3. reqs'[m].kind # "rates"
            /\ (reqs'[m].kind = "save" => <<reqs'[m].of, reqs'[m].id>> \in raced')
      BY <1>1, <1>2, <3>1
    <3> QED  BY <1>0, <1>1, <1>2, <3>1, <3>2, <3>3 DEF OneDueFor
  <2> QED  BY <2>1 DEF OneDue
<1>13. DraftsStay'
  BY <1>0, <1>1 DEF Inv, DraftsStay, EditsStayIn, Mine
<1>14. Origins'
  <2>1. ASSUME NEW j \in kinds, NEW i \in DOMAIN server[j] PROVE OriginIs(j, i)'
    <3>1. OriginIs(j, i)
      BY DEF Inv, Origins
    <3> QED  BY <1>0, <1>1, <1>2, <3>1 DEF OriginIs
  <2> QED  BY <1>0, <2>1 DEF Origins
<1> QED
  BY <1>4, <1>5, <1>6, <1>7, <1>8, <1>9, <1>10, <1>11, <1>12, <1>13, <1>14 DEF Inv

\* What changes of the invariant's variables only the visit, or nothing.
LEMMA VisitKeeps ==
  ASSUME Inv, mounted' \in BOOLEAN, inGroup' \in BOOLEAN,
         mounted' => mounted /\ inGroup',
         UNCHANGED <<kinds, slices, server, reqs, joined, edits, items, history>>
  PROVE  Inv'
<1>0. /\ kinds' = kinds /\ slices' = slices /\ server' = server /\ reqs' = reqs
      /\ joined' = joined /\ edits' = edits /\ items' = items /\ typed' = typed /\ raced' = raced
  BY DEF history
<1>1. Typing' /\ Places'
  BY <1>0 DEF Inv, Typing, Places, PlacesIn, IdOf
<1>2. Visit' /\ LoadingIsAnswered'
  BY <1>0 DEF Inv, Visit, LoadingIsAnswered
<1>3. Roomy' /\ Listed'
  BY <1>0 DEF Inv, Roomy, Listed, ListedIn
<1>4. Asked' /\ Newer'
  BY <1>0 DEF Inv, Asked, AskedBy, IdOf, Newer, NewerIs
<1>5. OneDue'
  BY <1>0 DEF Inv, OneDue, OneDueFor, IsDue
<1>6. DraftsStay' /\ Origins'
  BY <1>0 DEF Inv, DraftsStay, EditsStayIn, Mine, Origins, OriginIs
<1> QED
  BY <1>1, <1>2, <1>3, <1>4, <1>5, <1>6 DEF Inv

LEMMA Stored1Type ==
  ASSUME NEW k \in Kinds, NEW t, t = Stored1(k)
  PROVE  t \in StoredEntity(k) /\ t.ver = 0 /\ t.origin = 0
<1>1. CASE k = "account"
  BY <1>1 DEF Stored1, StoredEntity, StoredAccount, FieldsOf
<1>2. CASE k = "transaction"
  <2>1. PICK ps, fs : /\ ps = <<[what |-> -1, deleted |-> FALSE]>>
                      /\ fs = <<[what |-> -2, deleted |-> FALSE]>>
    OBVIOUS
  <2>2. ps \in Seq(StoredItem) /\ fs \in Seq(StoredItem)
    BY <2>1 DEF StoredItem
  <2>3. t = [fields |-> [text |-> 0, currency |-> 0], deleted |-> FALSE, ver |-> 0, origin |-> 0,
             positions |-> ps, files |-> fs]
    BY <1>2, <2>1 DEF Stored1
  <2>4. [text |-> 0, currency |-> 0] \in FieldsOf("transaction")
    BY DEF FieldsOf
  <2> QED  BY ONLY <1>2, <2>2, <2>3, <2>4 DEF StoredEntity, StoredTransaction
<1> QED
  BY <1>1, <1>2 DEF Kinds

LEMMA InitInv == Init => Inv
<1> SUFFICES ASSUME Init PROVE Inv
  OBVIOUS
<1>1. kinds \subseteq Kinds
  BY Bounds DEF Init, Kinds
<1>2. /\ DOMAIN slices = kinds
      /\ \A k \in kinds :
           /\ slices[k] \in Slice(k) /\ Known(slices[k].saved) = {} /\ Known(slices[k].wip) = {}
           /\ slices[k].nextId = -1 /\ slices[k].status = "absent"
           /\ k = "transaction" => slices[k].nextPosition = -1 /\ slices[k].nextFile = -1
  <2>1. DOMAIN slices = kinds /\ \A k \in kinds : slices[k] = InitialSlice(k)
    BY DEF Init, InitialSlice
  <2> QED  BY <1>1, <2>1, InitialIs
<1>3. /\ DOMAIN server = kinds
      /\ \A k \in kinds :
           /\ server[k] \in Seq(StoredEntity(k)) /\ Len(server[k]) = 1
           /\ DOMAIN server[k] = {1} /\ server[k][1].ver = 0 /\ server[k][1].origin = 0
  <2>1. DOMAIN server = kinds
    BY DEF Init
  <2>2. ASSUME NEW k \in kinds
        PROVE  /\ server[k] \in Seq(StoredEntity(k)) /\ Len(server[k]) = 1
               /\ DOMAIN server[k] = {1} /\ server[k][1].ver = 0 /\ server[k][1].origin = 0
    <3>1. PICK t : t = Stored1(k)
      OBVIOUS
    <3>2. server[k] = <<t>>
      BY <3>1 DEF Init
    <3>3. t \in StoredEntity(k) /\ t.ver = 0 /\ t.origin = 0
      BY <1>1, <3>1, Stored1Type
    <3> QED  BY <3>2, <3>3
  <2> QED  BY <2>1, <2>2
<1>4. reqs = <<>> /\ DOMAIN reqs = {} /\ typed = <<>> /\ DOMAIN typed = {} /\ raced = {}
      /\ inGroup = TRUE /\ mounted = FALSE /\ joined = TRUE /\ edits = 0 /\ items = 0
  BY DEF Init
<1>5. Typing
  <2>1. reqs = [n \in DOMAIN reqs |-> reqs[n]] /\ typed = [i \in DOMAIN typed |-> typed[i]]
    BY <1>4
  <2> QED  BY <1>1, <1>2, <1>3, <1>4, <2>1 DEF Typing
<1>6. Places
  <2>1. ASSUME NEW k \in kinds PROVE PlacesIn(k)
    <3>1. /\ Known(slices[k].saved) = {} /\ Known(slices[k].wip) = {} /\ slices[k].nextId = -1
          /\ DOMAIN server[k] = {1} /\ server[k][1].origin = 0
      BY <1>2, <1>3
    <3>2. -1 < 0 /\ 0 <= 0
      OBVIOUS
    <3>3. \A i \in DOMAIN server[k] : slices[k].nextId < server[k][i].origin /\ server[k][i].origin <= 0
      BY <3>1, <3>2
    <3> QED  BY ONLY <3>1, <3>2, <3>3 DEF PlacesIn
  <2> QED  BY <2>1 DEF Places
<1>7. Visit /\ LoadingIsAnswered
  BY <1>4 DEF Visit, LoadingIsAnswered
<1>8. Roomy
  <2> SUFFICES ASSUME "transaction" \in kinds PROVE Roomy
    BY DEF Roomy
  <2>1. PICK s : s = slices["transaction"]
    OBVIOUS
  <2>2. s.nextPosition = -1 /\ s.nextFile = -1 /\ Known(s.wip) = {} /\ Known(s.saved) = {}
    BY <1>2, <2>1
  <2> QED  BY <1>4, <2>1, <2>2 DEF Roomy
<1>9. Listed
  BY <1>2 DEF Listed, ListedIn
<1>10. Asked /\ Newer /\ OneDue
  BY <1>4 DEF Asked, Newer, OneDue
<1>11. DraftsStay
  BY <1>2, <1>4 DEF DraftsStay, EditsStayIn
<1>12. Origins
  BY ZenonT(60), <1>2, <1>3, <1>4 DEF Origins, OriginIs
<1> QED
  BY <1>5, <1>6, <1>7, <1>8, <1>9, <1>10, <1>11, <1>12 DEF Inv

-----------------------------------------------------------------------------
(* What the user does is a step of one draft, or a request.                 *)
LEMMA OnHas ==
  ASSUME Inv, NEW k \in kinds, NEW id, On(k, id)
  PROVE  /\ k \in Kinds /\ slices[k] \in Slice(k) /\ slices[k].status # "absent"
         /\ id \in Int /\ IdOf(k, id) /\ id \in Known(slices[k].wip) \cup Known(slices[k].saved)
         /\ Selected(k, id) = IF id \in Known(slices[k].wip) THEN slices[k].wip.byId[id]
                                                              ELSE slices[k].saved.byId[id]
         /\ Selected(k, id) \in Entity(k)
         /\ Selected(k, id).is_wip <=> id \in Known(slices[k].wip)
<1>1. /\ mounted /\ id \in Known(slices[k].wip) \cup Known(slices[k].saved)
  BY DEF On, Shown, Kept
<1>2. slices[k].status # "absent"
  BY <1>1 DEF Inv, Visit
<1>3. /\ k \in Kinds /\ slices[k] \in Slice(k)
      /\ Known(slices[k].saved) \subseteq Int /\ Known(slices[k].wip) \subseteq Int
      /\ (\A i \in Known(slices[k].saved) : slices[k].saved.byId[i] \in Entity(k))
      /\ (\A i \in Known(slices[k].wip) : slices[k].wip.byId[i] \in Entity(k))
      /\ slices[k].nextId \in Int
      /\ DOMAIN server[k] = 1..Len(server[k]) /\ Len(server[k]) \in Nat
  BY SliceHas DEF Inv
<1>4. PlacesIn(k)
  BY DEF Inv, Places
<1>5. IdOf(k, id)
  <2>1. CASE id \in Known(slices[k].wip)
    BY <1>4, <2>1 DEF PlacesIn
  <2>2. CASE id \in Known(slices[k].saved)
    <3>1. id \in 1..Len(server[k]) /\ slices[k].nextId < 0
      BY <1>3, <1>4, <2>2 DEF PlacesIn
    <3> QED  BY <1>3, <3>1 DEF IdOf
  <2> QED  BY <1>1, <2>1, <2>2
<1>6. Selected(k, id) = IF id \in Known(slices[k].wip) THEN slices[k].wip.byId[id]
                                                       ELSE slices[k].saved.byId[id]
  BY DEF Selected, A!selectAccountById, T!selectTransactionById, A!Over, T!Over, A!Known, T!Known, Known
<1>7. Selected(k, id).is_wip <=> id \in Known(slices[k].wip)
  BY <1>1, <1>4, <1>6 DEF PlacesIn
<1> QED
  BY <1>1, <1>2, <1>3, <1>5, <1>6, <1>7

LEMMA SliceSet ==
  ASSUME Typing, NEW k \in kinds, NEW u, SliceOf(k, u)
  PROVE  OthersSame(k) /\ slices'[k] = u
BY DEF Typing, SliceOf, OthersSame

LEMMA Counted ==
  ASSUME Typing, CountEdit \/ CountItem \/ UNCHANGED <<edits, items>>
  PROVE  edits' \in Nat /\ items' \in Nat
BY DEF Typing, CountEdit, CountItem, Count

LEMMA RoomLower ==
  ASSUME NEW s \in TransactionState, NEW u \in TransactionState, Lower("transaction", s, u),
         NEW t \in TransactionDraft, Room(s, t)
  PROVE  Room(u, t)
<1>1. Known(t.positions) \subseteq Int /\ Known(t.files) \subseteq Int
  BY CollectionIs DEF TransactionDraft, Known
<1>2. /\ s.nextPosition \in Int /\ u.nextPosition \in Int /\ s.nextFile \in Int /\ u.nextFile \in Int
      /\ u.nextPosition <= s.nextPosition /\ u.nextFile <= s.nextFile
  BY DEF TransactionState, Lower
<1> QED
  BY <1>1, <1>2 DEF Room

LEMMA StepOf ==
  ASSUME Inv, NEW k \in kinds, NEW id \in Int, NEW u, SliceOf(k, u), slices[k].status # "absent",
         u \in Slice(k), u.saved = slices[k].saved, u.status = slices[k].status,
         Lower(k, slices[k], u), u.nextId \in {slices[k].nextId, slices[k].nextId - 1},
         id # 0, u.nextId < id, id <= Len(server[k]),
         raced' = Raced(k, id), DraftKept(k, id) \/ DraftGone(k, id),
         edits' \in Nat, items' \in Nat, UNCHANGED <<server, reqs, nav>>
  PROVE  DraftStep(k, id)
<1>1. OthersSame(k) /\ slices'[k] = u
  BY SliceSet DEF Inv
<1> QED
  BY <1>1 DEF DraftStep

\* A local id that was not given yet.
LEMMA FreshId ==
  ASSUME Inv, NEW k \in kinds, NEW id, id = slices[k].nextId
  PROVE  /\ id \in Int /\ id < 0 /\ id # 0 /\ id - 1 < id /\ id <= Len(server[k])
         /\ id \notin Known(slices[k].wip) /\ raced = Raced(k, id)
<1>1. id \in Int /\ id < 0 /\ DOMAIN server[k] = 1..Len(server[k]) /\ Len(server[k]) \in Nat
  BY SliceHas DEF Inv, Places, PlacesIn
<1>2. id \notin Known(slices[k].wip)
  <2>1. id \in Known(slices[k].wip) => id < id
    BY DEF Inv, Places, PlacesIn, IdOf
  <2> QED  BY <1>1, <2>1
<1>3. ASSUME NEW n \in DOMAIN reqs, IsDue(n, k, id) PROVE FALSE
  <2>1. reqs[n].kind \in {"save", "rates"} => id < id
    BY <1>3 DEF Inv, Asked, AskedBy, IdOf, IsDue
  <2>2. reqs[n].kind = "delete" => id \in 1..Len(server[k])
    BY <1>1, <1>3 DEF Inv, Asked, AskedBy, IsDue
  <2> QED  BY <1>1, <1>3, <2>1, <2>2 DEF IsDue
<1>4. ~Due(k, id)
  BY <1>3 DEF Due, IsDue
<1> QED
  BY <1>1, <1>2, <1>4 DEF Raced

LEMMA NamesType ==
  ASSUME Typing, NEW k \in Kinds
  PROVE  Names(k, Stamp) \in FieldsOf(k)
<1>1. Stamp \in Int
  BY DEF Typing, Stamp
<1>2. CASE k = "account"
  BY <1>1, <1>2 DEF Names, FieldsOf
<1>3. CASE k = "transaction"
  BY <1>1, <1>3 DEF Names, FieldsOf
<1> QED
  BY <1>2, <1>3 DEF Kinds

LEMMA CreateStep ==
  ASSUME Inv, NEW k \in kinds, Create(k)
  PROVE  DraftStep(k, slices[k].nextId)
<1>1. PICK s, id, fields, u :
        /\ s = slices[k] /\ id = s.nextId /\ fields = Names(k, Stamp)
        /\ u = IF k = "account" THEN A!createFulfilled(s, fields) ELSE T!createFulfilled(s, fields)
  OBVIOUS
<1>2. /\ mounted /\ CountEdit /\ SliceOf(k, u)
      /\ typed' = Typed(k, id, [fields |-> fields, items |-> {}])
      /\ UNCHANGED <<server, reqs, nav, raced>>
  BY <1>1 DEF Create, Shown
<1>3. k \in Kinds /\ s \in Slice(k) /\ s.status # "absent" /\ fields \in FieldsOf(k)
  BY <1>1, <1>2, NamesType DEF Inv, Typing, Visit
<1>4. /\ u \in Slice(k) /\ u.status = s.status /\ u.nextId = s.nextId - 1 /\ u.saved = s.saved
      /\ Lower(k, s, u) /\ u.wip = T!addEntity(s.wip, s.nextId, NewDraft(k, fields))
  BY ONLY <1>1, <1>3, Created
<1>5. PICK e : e = NewDraft(k, fields)
  OBVIOUS
<1>6. e \in Entity(k) /\ e.is_wip /\ View(k, e) = [fields |-> fields, items |-> {}]
  BY <1>3, <1>5, NewDraftType
<1>7. /\ id \in Int /\ id < 0 /\ id # 0 /\ id - 1 < id /\ id <= Len(server[k])
      /\ id \notin Known(s.wip) /\ raced = Raced(k, id)
  BY <1>1, FreshId
<1>8. Changed(s.wip, u.wip, id, e) /\ Once(u.wip, id)
  <2>1. s.wip \in Collection(Entity(k)) /\ u.wip = T!addEntity(s.wip, id, e)
    BY <1>1, <1>3, <1>4, <1>5, SliceParts
  <2> QED  BY ONLY <1>6, <1>7, <2>1, AddChanges
<1>9. k = "transaction" => Room(u, e)
  BY <1>5 DEF Room, NewDraft, T!NewTransaction, T!NoEntities, Known
<1>10. slices'[k] = u
  BY <1>2, SliceSet DEF Inv
<1>11. DraftKept(k, id)
  BY <1>1, <1>2, <1>6, <1>8, <1>9, <1>10 DEF DraftKept
<1>12. edits' \in Nat /\ items' \in Nat
  BY <1>2, Counted DEF Inv
<1> QED
  BY <1>1, <1>2, <1>3, <1>4, <1>7, <1>11, <1>12, StepOf

LEMMA CopyStep ==
  ASSUME Inv, "account" \in kinds, NEW from \in Kept("account"), CopyAccount(from)
  PROVE  DraftStep("account", slices["account"].nextId)
<1>1. PICK k, s, id, fields, u :
        /\ k = "account" /\ s = slices[k] /\ id = s.nextId /\ fields = Names(k, Stamp)
        /\ u = A!copyAccount(s, from, fields)
  OBVIOUS
<1>2. /\ mounted /\ CountEdit /\ SliceOf(k, u)
      /\ typed' = Typed(k, id, [fields |-> fields, items |-> {}])
      /\ UNCHANGED <<server, reqs, nav, raced>>
  BY <1>1 DEF CopyAccount, Shown
<1>3. k \in kinds /\ k \in Kinds /\ s \in Slice(k) /\ s.status # "absent" /\ fields \in FieldsOf(k)
  BY <1>1, <1>2, NamesType DEF Inv, Typing, Visit
<1>4. from \in Known(s.wip) \cup Known(s.saved)
  BY <1>1 DEF Kept
<1>5. /\ u \in Slice(k) /\ u.status = s.status /\ u.nextId = s.nextId - 1 /\ u.saved = s.saved
      /\ Lower(k, s, u)
      /\ \E e \in Entity(k) : /\ e.is_wip /\ View(k, e) = [fields |-> fields, items |-> {}]
                              /\ u.wip = T!addEntity(s.wip, s.nextId, e)
  BY ONLY <1>1, <1>3, <1>4, Copied
<1>6. PICK e \in Entity(k) : /\ e.is_wip /\ View(k, e) = [fields |-> fields, items |-> {}]
                             /\ u.wip = T!addEntity(s.wip, id, e)
  BY <1>1, <1>5
<1>7. /\ id \in Int /\ id < 0 /\ id # 0 /\ id - 1 < id /\ id <= Len(server[k])
      /\ id \notin Known(s.wip) /\ raced = Raced(k, id)
  BY <1>1, <1>3, FreshId
<1>8. Changed(s.wip, u.wip, id, e) /\ Once(u.wip, id)
  <2>1. s.wip \in Collection(Entity(k))
    BY <1>3, SliceParts
  <2> QED  BY ONLY <1>6, <1>7, <2>1, AddChanges
<1>10. slices'[k] = u
  BY <1>2, <1>3, SliceSet DEF Inv
<1>11. DraftKept(k, id)
  BY <1>1, <1>2, <1>6, <1>8, <1>10 DEF DraftKept
<1>12. edits' \in Nat /\ items' \in Nat
  BY <1>2, Counted DEF Inv
<1> QED
  BY <1>1, <1>2, <1>3, <1>5, <1>7, <1>11, <1>12, StepOf

LEMMA StartEditStep ==
  ASSUME Inv, NEW k \in kinds, NEW id, StartEdit(k, id)
  PROVE  DraftStep(k, id)
<1>1. PICK s, u :
        /\ s = slices[k]
        /\ u = IF k = "account" THEN A!editStarted(s, id) ELSE T!editStarted(s, id)
  OBVIOUS
<1>2. /\ On(k, id) /\ ~Selected(k, id).is_wip /\ SliceOf(k, u)
      /\ typed' = Typed(k, id, View(k, s.saved.byId[id])) /\ raced' = Raced(k, id)
      /\ UNCHANGED <<server, reqs, nav, edits, items>>
  BY <1>1 DEF StartEdit, counters
<1>3. /\ k \in Kinds /\ s \in Slice(k) /\ s.status # "absent" /\ id \in Int /\ IdOf(k, id)
      /\ id \in Known(s.saved) /\ id \notin Known(s.wip)
  BY <1>1, <1>2, OnHas
<1>4. /\ u \in Slice(k) /\ u.status = s.status /\ u.nextId = s.nextId /\ u.saved = s.saved
      /\ Lower(k, s, u) /\ u.wip = T!addEntity(s.wip, id, Marked(s.saved.byId[id]))
  BY ONLY <1>1, <1>3, EditStarted
<1>5. PICK t, e : t = s.saved.byId[id] /\ e = Marked(t)
  OBVIOUS
<1>6. t \in Entity(k)
  BY <1>1, <1>3, <1>5, SliceHas DEF Inv
<1>7. /\ e \in Entity(k) /\ e.is_wip /\ View(k, e) = View(k, t)
      /\ k = "transaction" => e.positions = t.positions /\ e.files = t.files
  BY ONLY <1>3, <1>5, <1>6, MarkedType
<1>8. Changed(s.wip, u.wip, id, e) /\ Once(u.wip, id)
  <2>1. s.wip \in Collection(Entity(k)) /\ u.wip = T!addEntity(s.wip, id, e)
    BY <1>3, <1>4, <1>5, SliceParts
  <2> QED  BY ONLY <1>3, <1>7, <2>1, AddChanges
<1>9. k = "transaction" => Room(u, e)
  <2> SUFFICES ASSUME k = "transaction" PROVE Room(u, e)
    OBVIOUS
  <2>1. Room(s, t)
    BY <1>1, <1>3, <1>5 DEF Inv, Roomy
  <2>2. s \in TransactionState /\ u \in TransactionState /\ t \in TransactionDraft
    BY <1>3, <1>4, <1>6 DEF Slice, Entity
  <2>3. Room(u, t)
    BY ONLY <1>4, <2>1, <2>2, k = "transaction", RoomLower
  <2> QED  BY <1>7, <2>3 DEF Room
<1>10. slices'[k] = u
  BY <1>2, SliceSet DEF Inv
<1>11. id > 0
  <2>1. id \in DOMAIN server[k]
    BY <1>1, <1>3 DEF Inv, Places, PlacesIn
  <2> QED  BY <2>1, SliceHas DEF Inv
<1>12. DraftKept(k, id)
  BY <1>1, <1>2, <1>5, <1>7, <1>8, <1>9, <1>10, <1>11 DEF DraftKept
<1>13. edits' \in Nat /\ items' \in Nat
  BY <1>2 DEF Inv, Typing
<1> QED
  BY <1>1, <1>2, <1>3, <1>4, <1>12, <1>13, StepOf DEF IdOf

\* A draft that is changed, its user meaning what is then seen of it.
LEMMA EditIsStep ==
  ASSUME Inv, NEW k \in kinds, NEW id, NEW u, NEW view, Edit(k, id, u, view),
         edits' \in Nat, items' \in Nat, OnlyWip(k, slices[k], u),
         NEW e, Changed(slices[k].wip, u.wip, id, e), e.is_wip,
         k = "transaction" => Room(u, e),
         <<k, id>> \notin raced => view = View(k, e)
  PROVE  DraftStep(k, id)
<1>1. /\ On(k, id) /\ Selected(k, id).is_wip /\ SliceOf(k, u) /\ typed' = Typed(k, id, view)
      /\ raced' = Raced(k, id) /\ UNCHANGED <<server, reqs, nav>>
  BY DEF Edit, Editing
<1>2. /\ slices[k].status # "absent" /\ id \in Int /\ IdOf(k, id) /\ id \in Known(slices[k].wip)
  BY <1>1, OnHas
<1>3. slices'[k] = u /\ raced \subseteq raced'
  BY <1>1, SliceSet, RacedHas DEF Inv
<1>4. DraftKept(k, id)
  BY <1>1, <1>2, <1>3 DEF DraftKept
<1> QED
  BY <1>1, <1>2, <1>4, StepOf DEF OnlyWip, IdOf

LEMMA MeantIs ==
  ASSUME Inv, NEW k \in kinds, NEW id, On(k, id), Selected(k, id).is_wip, <<k, id>> \notin raced
  PROVE  Meant(k, id) = View(k, slices[k].wip.byId[id])
<1>1. id \in Int /\ id \in Known(slices[k].wip)
  BY OnHas
<1>2. EditsStayIn(k, id)
  BY <1>1 DEF Inv, DraftsStay
<1> QED
  BY <1>1, <1>2 DEF EditsStayIn, Meant

Retexted(t, x) == [t EXCEPT !.fields.text = x]

LEMMA RetextedView ==
  ASSUME NEW f, NEW S, NEW x
  PROVE  Retexted([fields |-> f, items |-> S], x) = [fields |-> [f EXCEPT !.text = x], items |-> S]
BY DEF Retexted

LEMMA RetextedIs ==
  ASSUME NEW k \in Kinds, NEW t \in Entity(k), NEW x \in Int, NEW e, e = Retexted(t, x)
  PROVE  /\ e \in Entity(k) /\ e.is_wip = t.is_wip /\ View(k, e) = Retexted(View(k, t), x)
         /\ k = "transaction" => e.positions = t.positions /\ e.files = t.files
<1>1. CASE k = "account"
  <2>1. e \in Entity(k) /\ e.is_wip = t.is_wip /\ e.fields = [t.fields EXCEPT !.text = x]
    BY <1>1 DEF Retexted, Entity, AccountDraft, FieldsOf
  <2>2. View(k, e) = [fields |-> e.fields, items |-> {}] /\ View(k, t) = [fields |-> t.fields, items |-> {}]
    BY <1>1 DEF View
  <2>3. View(k, e) = Retexted(View(k, t), x)
    BY ONLY <2>1, <2>2, RetextedView
  <2> QED  BY ONLY <1>1, <2>1, <2>3
<1>2. CASE k = "transaction"
  <2>1. /\ e \in Entity(k) /\ e.is_wip = t.is_wip /\ e.fields = [t.fields EXCEPT !.text = x]
        /\ e.positions = t.positions /\ e.files = t.files
    BY <1>2 DEF Retexted, Entity, TransactionDraft, FieldsOf
  <2>2. PICK S : S = Seen(t.positions) \cup Seen(t.files)
    OBVIOUS
  <2>3. View(k, e) = [fields |-> e.fields, items |-> S] /\ View(k, t) = [fields |-> t.fields, items |-> S]
    BY <1>2, <2>1, <2>2, ViewIs
  <2>4. View(k, e) = Retexted(View(k, t), x)
    BY ONLY <2>1, <2>3, RetextedView
  <2> QED  BY ONLY <2>1, <2>4
<1> QED
  BY <1>1, <1>2 DEF Kinds

LEMMA EditFieldStep ==
  ASSUME Inv, NEW k \in kinds, NEW id, EditField(k, id)
  PROVE  DraftStep(k, id)
<1>1. PICK s, t, u, x, view :
        /\ s = slices[k] /\ x = Stamp /\ t = Retexted(Selected(k, id), x)
        /\ u = IF k = "account" THEN A!wipUpdated(s, id, t) ELSE T!wipUpdated(s, id, t)
        /\ view = Retexted(Meant(k, id), x)
  OBVIOUS
<1>2. CountEdit /\ Edit(k, id, u, view)
  BY <1>1 DEF EditField, Retexted
<1>3. On(k, id) /\ Selected(k, id).is_wip
  BY <1>2 DEF Edit, Editing
<1>4. /\ k \in Kinds /\ s \in Slice(k) /\ s.status # "absent" /\ id \in Int /\ IdOf(k, id)
      /\ id \in Known(s.wip) /\ Selected(k, id) = s.wip.byId[id] /\ Selected(k, id) \in Entity(k)
  BY <1>1, <1>3, OnHas
<1>5. PICK d : d = s.wip.byId[id]
  OBVIOUS
<1>6. x \in Int /\ d \in Entity(k) /\ d.is_wip /\ t = Retexted(d, x)
  BY <1>1, <1>3, <1>4, <1>5 DEF Inv, Typing, Stamp
<1>7. /\ t \in Entity(k) /\ t.is_wip = d.is_wip /\ View(k, t) = Retexted(View(k, d), x)
      /\ k = "transaction" => t.positions = d.positions /\ t.files = d.files
  <2>1. k \in Kinds
    BY <1>4
  <2> QED  BY ONLY ZenonT(60), <1>6, <2>1, RetextedIs
<1>8. t.is_wip
  BY <1>6, <1>7
<1>9. /\ OnlyWip(k, s, u) /\ Changed(s.wip, u.wip, id, t)
      /\ k = "transaction" => u.nextPosition = s.nextPosition /\ u.nextFile = s.nextFile
  <2>1. u = IF k = "account" THEN A!wipUpdated(s, id, t) ELSE T!wipUpdated(s, id, t)
    BY <1>1
  <2> QED  BY ONLY <1>4, <1>7, <1>8, <2>1, WipUpdated
<1>10. k = "transaction" => Room(u, t)
  BY ZenonT(60), <1>1, <1>4, <1>5, <1>7, <1>9 DEF Inv, Roomy, Room
<1>11. <<k, id>> \notin raced => view = View(k, t)
  BY <1>1, <1>3, <1>5, <1>7, MeantIs
<1>12. edits' \in Nat /\ items' \in Nat
  BY <1>2, Counted DEF Inv
<1> QED
  BY <1>1, <1>2, <1>8, <1>9, <1>10, <1>11, <1>12, EditIsStep

-----------------------------------------------------------------------------
LEMMA ItemsStep ==
  ASSUME Inv, "transaction" \in kinds, NEW id, NEW u, NEW gone, NEW come,
         EditItems(id, u, gone, come), ItemStep(Tx, u, id, gone, come)
  PROVE  DraftStep("transaction", id)
<1>1. PICK k, view : k = "transaction" /\ view = WithItems(Meant(k, id), gone, come)
  OBVIOUS
<1>2. CountItem /\ Edit(k, id, u, view)
  BY <1>1 DEF EditItems, WithItems
<1>3. On(k, id) /\ Selected(k, id).is_wip
  BY <1>2 DEF Edit, Editing
<1>4. PICK e \in TransactionDraft :
        /\ OnlyWip(k, slices[k], u) /\ Changed(slices[k].wip, u.wip, id, e)
        /\ e.is_wip /\ Room(u, e)
        /\ View(k, e) = WithItems(View(k, slices[k].wip.byId[id]), gone, come)
  BY <1>1 DEF ItemStep, Tx
<1>5. <<k, id>> \notin raced => view = View(k, e)
  BY <1>1, <1>3, <1>4, MeantIs
<1>6. edits' \in Nat /\ items' \in Nat
  BY SMTT(60), <1>2, Counted DEF Inv
<1> QED
  BY <1>1, <1>2, <1>4, <1>5, <1>6, EditIsStep

\* The transaction whose rows are edited is a draft.
LEMMA DraftOf ==
  ASSUME Inv, "transaction" \in kinds, NEW id, Editing("transaction", id),
         NEW d, d = Tx.wip.byId[id]
  PROVE  /\ Drafted(Tx, id) /\ d.positions \in Collection(Row) /\ d.files \in Collection(File)
         /\ Selected("transaction", id) = d
         /\ Rows(id) = {p \in Known(d.positions) : ~d.positions.byId[p].deleted}
         /\ Files(id) = {f \in Known(d.files) : ~d.files.byId[f].deleted}
         /\ Tx.nextPosition \in Int
         /\ \A p \in Rows(id) : p # Tx.nextPosition
<1>1. PICK k : k = "transaction"
  OBVIOUS
<1>2. k \in kinds /\ On(k, id) /\ Selected(k, id).is_wip
  BY <1>1 DEF Editing
<1>3. /\ Tx \in TransactionState /\ id \in Known(Tx.wip) /\ Selected(k, id) = d
  BY <1>1, <1>2, OnHas DEF Tx, Slice
<1>4. d.is_wip /\ Room(Tx, d)
  BY <1>1, <1>2, <1>3 DEF Inv, Roomy, Tx
<1>5. Drafted(Tx, id)
  BY <1>3, <1>4 DEF Drafted
<1>6. d \in TransactionDraft /\ d.positions \in Collection(Row) /\ d.files \in Collection(File)
        /\ Tx.nextPosition \in Int
  BY <1>5, DraftedHas
<1>7. /\ Rows(id) = {p \in Known(d.positions) : ~d.positions.byId[p].deleted}
      /\ Files(id) = {f \in Known(d.files) : ~d.files.byId[f].deleted}
  BY <1>1, <1>3 DEF Rows, Files, T!selectPositions, T!selectFiles, T!Known, Known
<1>8. \A p \in Rows(id) : p # Tx.nextPosition
  <2>1. \A p \in Known(d.positions) : Tx.nextPosition < p /\ p \in Int
    BY <1>4, <1>6, CollectionIs DEF Room, Known
  <2> QED  BY <1>6, <1>7, <2>1
<1> QED
  BY SMTT(60), <1>1, <1>3, <1>5, <1>6, <1>7, <1>8

LEMMA ItemTypes ==
  ASSUME Inv, "transaction" \in kinds, NEW id, Editing("transaction", id)
  PROVE  /\ \A p \in Rows(id) : RowIs(id, p) \in Int
         /\ Stamp \in Int /\ Stamp # T!Blank /\ Blank \in Int /\ Blank = T!Blank
<1>1. PICK d : d = Tx.wip.byId[id]
  OBVIOUS
<1>2. /\ d.positions \in Collection(Row) /\ Selected("transaction", id) = d
      /\ Rows(id) = {p \in Known(d.positions) : ~d.positions.byId[p].deleted}
  BY <1>1, DraftOf
<1>3. \A p \in Known(d.positions) : d.positions.byId[p] \in Row
  BY <1>2, CollectionIs DEF Known
<1>4. \A p \in Rows(id) : RowIs(id, p) \in Int
  BY <1>2, <1>3 DEF RowIs, Row
<1> QED
  BY <1>4 DEF Inv, Typing, Stamp, Blank, T!Blank

LEMMA EditRowStep ==
  ASSUME Inv, "transaction" \in kinds, NEW id, Editing("transaction", id),
         NEW p \in Rows(id) \cup {Tx.nextPosition}, EditRow(id, p)
  PROVE  DraftStep("transaction", id)
<1>1. PICK d, x, u : d = Tx.wip.byId[id] /\ x = Stamp /\ u = T!wipPositionUpdated(Tx, id, p, x)
  OBVIOUS
<1>2. /\ Drafted(Tx, id) /\ Selected("transaction", id) = d
      /\ Rows(id) = {q \in Known(d.positions) : ~d.positions.byId[q].deleted}
      /\ Files(id) = {f \in Known(d.files) : ~d.files.byId[f].deleted}
  BY <1>1, DraftOf
<1>3. x \in Int /\ x # T!Blank
  BY <1>1, ItemTypes
<1>4. CASE p \in Rows(id)
  <2>1. PICK ps, rest : ps = d.positions /\ rest = SeenBut(ps, p) \cup Seen(d.files)
    OBVIOUS
  <2>2. WithoutRow(id, p) = rest /\ RowIs(id, p) = ps.byId[p].what
    BY <1>2, <2>1 DEF WithoutRow, RowIs, FileIs, SeenBut, Seen
  <2>3. EditItems(id, u, {ps.byId[p].what} \ rest, {x})
    BY <1>1, <1>4, <2>2 DEF EditRow
  <2>4. p \in Known(ps) /\ ~ps.byId[p].deleted
    BY SMTT(60), <1>2, <1>4, <2>1
  <2>5. ItemStep(Tx, u, id, {ps.byId[p].what} \ rest, {x})
    <3>1. ps = Tx.wip.byId[id].positions /\ rest = SeenBut(ps, p) \cup Seen(Tx.wip.byId[id].files)
      BY <1>1, <2>1
    <3>2. u = T!wipPositionUpdated(Tx, id, p, x)
      BY <1>1
    <3> QED  BY ONLY <1>2, <1>3, <2>4, <3>1, <3>2, RowChanged
  <2> QED  BY <2>3, <2>5, ItemsStep
<1>5. CASE p \notin Rows(id)
  <2>1. EditItems(id, u, {}, {x})
    BY <1>1, <1>5 DEF EditRow
  <2>2. p = Tx.nextPosition /\ u = T!wipPositionUpdated(Tx, id, p, x)
    BY <1>1, <1>5
  <2>3. ItemStep(Tx, u, id, {}, {x})
    BY ONLY <1>2, <1>3, <2>2, RowAdded
  <2> QED  BY <2>1, <2>3, ItemsStep
<1> QED
  BY <1>4, <1>5

LEMMA AddRowStep ==
  ASSUME Inv, "transaction" \in kinds, NEW id, Editing("transaction", id),
         NEW what \in Int, AddRow(id, what)
  PROVE  DraftStep("transaction", id)
<1>1. PICK u : u = T!wipPositionAdded(Tx, id, what)
  OBVIOUS
<1>2. EditItems(id, u, {}, {what}) /\ Drafted(Tx, id)
  BY <1>1, DraftOf DEF AddRow
<1>3. ItemStep(Tx, u, id, {}, {what})
  BY ONLY <1>1, <1>2, what \in Int, RowAdded
<1> QED
  BY <1>2, <1>3, ItemsStep

LEMMA DeleteRowStep ==
  ASSUME Inv, "transaction" \in kinds, NEW id, Editing("transaction", id),
         NEW p \in Rows(id), DeleteRow(id, p)
  PROVE  DraftStep("transaction", id)
<1>1. PICK d, ps, rest, u :
        /\ d = Tx.wip.byId[id] /\ ps = d.positions /\ rest = SeenBut(ps, p) \cup Seen(d.files)
        /\ u = T!positionDeleted(Tx, id, p)
  OBVIOUS
<1>2. /\ Drafted(Tx, id) /\ Selected("transaction", id) = d
      /\ Rows(id) = {q \in Known(d.positions) : ~d.positions.byId[q].deleted}
      /\ Files(id) = {f \in Known(d.files) : ~d.files.byId[f].deleted}
  BY <1>1, DraftOf
<1>3. WithoutRow(id, p) = rest /\ RowIs(id, p) = ps.byId[p].what
  BY ZenonT(60), <1>1, <1>2 DEF WithoutRow, RowIs, FileIs, SeenBut, Seen
<1>4. EditItems(id, u, {ps.byId[p].what} \ rest, {})
  BY <1>1, <1>3 DEF DeleteRow
<1>5. p \in Known(ps) /\ ~ps.byId[p].deleted
  BY SMTT(60), <1>1, <1>2
<1>6. ItemStep(Tx, u, id, {ps.byId[p].what} \ rest, {})
  <2>1. ps = Tx.wip.byId[id].positions /\ rest = SeenBut(ps, p) \cup Seen(Tx.wip.byId[id].files)
    BY <1>1
  <2>2. u = T!positionDeleted(Tx, id, p) /\ 0 \in Int
    BY <1>1
  <2> QED  BY ONLY <1>2, <1>5, <2>1, <2>2, RowChanged
<1> QED
  BY <1>4, <1>6, ItemsStep

LEMMA UploadStep ==
  ASSUME Inv, "transaction" \in kinds, NEW id, Editing("transaction", id), Upload(id)
  PROVE  DraftStep("transaction", id)
<1>1. PICK x, u : x = Stamp /\ u = T!wipFileAdded(Tx, id, x)
  OBVIOUS
<1>2. EditItems(id, u, {}, {x}) /\ Drafted(Tx, id) /\ x \in Int
  BY <1>1, DraftOf, ItemTypes DEF Upload
<1>3. ItemStep(Tx, u, id, {}, {x})
  BY ONLY <1>1, <1>2, FileAdded
<1> QED
  BY <1>2, <1>3, ItemsStep

LEMMA DeleteFileStep ==
  ASSUME Inv, "transaction" \in kinds, NEW id, Editing("transaction", id),
         NEW f \in Files(id), DeleteFile(id, f)
  PROVE  DraftStep("transaction", id)
<1>1. PICK d, fs, rest, u :
        /\ d = Tx.wip.byId[id] /\ fs = d.files /\ rest = Seen(d.positions) \cup SeenBut(fs, f)
        /\ u = T!wipFileDeleted(Tx, id, f)
  OBVIOUS
<1>2. /\ Drafted(Tx, id) /\ Selected("transaction", id) = d
      /\ Rows(id) = {q \in Known(d.positions) : ~d.positions.byId[q].deleted}
      /\ Files(id) = {g \in Known(d.files) : ~d.files.byId[g].deleted}
  BY SMTT(60), <1>1, DraftOf
<1>3. WithoutFile(id, f) = rest /\ FileIs(id, f) = fs.byId[f].what
  BY ZenonT(60), <1>1, <1>2 DEF WithoutFile, RowIs, FileIs, SeenBut, Seen
<1>4. EditItems(id, u, {fs.byId[f].what} \ rest, {})
  BY SMTT(60), <1>1, <1>3 DEF DeleteFile
<1>5. f \in Known(fs) /\ ~fs.byId[f].deleted
  BY SMTT(60), <1>1, <1>2
<1>6. ItemStep(Tx, u, id, {fs.byId[f].what} \ rest, {})
  <2>1. fs = Tx.wip.byId[id].files /\ rest = Seen(Tx.wip.byId[id].positions) \cup SeenBut(fs, f)
    BY <1>1
  <2> QED  BY ONLY <1>1, <1>2, <1>5, <2>1, FileDropped
<1> QED
  BY <1>4, <1>6, ItemsStep

\* A draft that is given up.
LEMMA DroppedStep ==
  ASSUME Inv, NEW k \in kinds, NEW id, On(k, id),
         Discard(k, id) \/ (Delete(k, id) /\ id \notin Known(slices[k].saved))
  PROVE  DraftStep(k, id)
<1>1. PICK s : s = slices[k]
  OBVIOUS
<1>2. PICK u :
        /\ \/ u = IF k = "account" THEN A!discardChange(s, id) ELSE T!discardChange(s, id)
           \/ u = IF k = "account" THEN A!deleteLocal(s, id) ELSE T!deleteLocal(s, id)
        /\ SliceOf(k, u) /\ typed' = Untyped(k, id) /\ raced' = Raced(k, id)
        /\ UNCHANGED <<server, reqs, nav, edits, items>>
  BY <1>1 DEF Discard, Delete, counters
<1>3. k \in Kinds /\ s \in Slice(k) /\ s.status # "absent" /\ id \in Int /\ IdOf(k, id)
  BY <1>1, OnHas
<1>4. /\ u \in Slice(k) /\ u.status = s.status /\ u.nextId = s.nextId /\ u.saved = s.saved
      /\ Lower(k, s, u) /\ u.wip = T!removeEntity(s.wip, id)
  <2>1. \/ u = IF k = "account" THEN A!discardChange(s, id) ELSE T!discardChange(s, id)
        \/ u = IF k = "account" THEN A!deleteLocal(s, id) ELSE T!deleteLocal(s, id)
    BY <1>2
  <2> QED  BY ONLY <1>3, <2>1, Dropped
<1>5. Gone(s.wip, u.wip, id)
  <2>1. s.wip \in Collection(Entity(k))
    BY <1>3, SliceParts
  <2> QED  BY ONLY <1>4, <2>1, RemoveIsGone
<1>6. slices'[k] = u
  BY <1>2, SliceSet DEF Inv
<1>7. DraftGone(k, id)
  BY <1>1, <1>2, <1>5, <1>6 DEF DraftGone
<1>8. edits' \in Nat /\ items' \in Nat
  BY <1>2 DEF Inv, Typing
<1> QED
  BY <1>1, <1>2, <1>3, <1>4, <1>7, <1>8, StepOf DEF IdOf

-----------------------------------------------------------------------------
(* Requests that are started.                                               *)
LEMMA StartIs ==
  ASSUME NEW kind, NEW k, NEW id, NEW body, Start(Request(kind, k, id, body)),
         Asks(kind, k, id, body), raced' = IF kind = "leave" THEN raced ELSE Raced(k, id),
         edits' \in Nat, items' \in Nat, UNCHANGED <<slices, server, nav, typed>>
  PROVE  RequestStep(NextFree(reqs), kind, k, id, body)
<1>1. Free # {} /\ reqs' = With(reqs, NextFree(reqs), Request(kind, k, id, body))
  BY DEF Start
<1>2. NextFree(reqs) \in Slots \ DOMAIN reqs
  BY <1>1, NextFreeIs DEF Free
<1> QED
  BY <1>1, <1>2 DEF RequestStep

LEMMA AskRateKeeps ==
  ASSUME Inv, "transaction" \in kinds, NEW id, AskRate(id)
  PROVE  Inv'
<1>1. PICK k, body : k = "transaction" /\ body = Selected(k, id)
  OBVIOUS
<1>2. /\ Editing(k, id) /\ CountEdit /\ Start(Request("rates", k, id, body)) /\ raced' = Raced(k, id)
      /\ UNCHANGED <<slices, server, nav, typed>>
  BY <1>1 DEF AskRate
<1>3. id \in Known(slices[k].wip) /\ body = slices[k].wip.byId[id]
  BY <1>1, <1>2, OnHas DEF Editing
<1>4. Asks("rates", k, id, body)
  BY <1>1, <1>3 DEF Asks
<1>5. edits' \in Nat /\ items' \in Nat
  BY <1>2, Counted DEF Inv
<1>6. RequestStep(NextFree(reqs), "rates", k, id, body)
  BY <1>2, <1>4, <1>5, StartIs
<1> QED
  BY <1>6, RequestStepKeeps

LEMMA SaveKeeps ==
  ASSUME Inv, NEW k \in kinds, NEW id, Save(k, id)
  PROVE  Inv'
<1>1. PICK body : body = slices[k].wip.byId[id]
  OBVIOUS
<1>2. /\ Editing(k, id) /\ Start(Request("save", k, id, body)) /\ raced' = Raced(k, id)
      /\ UNCHANGED <<slices, server, nav, typed, edits, items>>
  BY <1>1 DEF Save
<1>3. id \in Known(slices[k].wip)
  BY <1>2, OnHas DEF Editing
<1>4. Asks("save", k, id, body)
  BY <1>1, <1>3 DEF Asks
<1>5. edits' \in Nat /\ items' \in Nat
  BY <1>2 DEF Inv, Typing
<1>6. RequestStep(NextFree(reqs), "save", k, id, body)
  BY <1>2, <1>4, <1>5, StartIs
<1> QED
  BY <1>6, RequestStepKeeps

LEMMA DeleteKeeps ==
  ASSUME Inv, NEW k \in kinds, NEW id, Delete(k, id)
  PROVE  Inv'
<1>1. On(k, id) /\ raced' = Raced(k, id)
  BY DEF Delete
<1>2. CASE id \in Known(slices[k].saved)
  <2>1. /\ Start(Request("delete", k, id, NoBody))
        /\ UNCHANGED <<slices, server, nav, typed, edits, items>>
    BY <1>2 DEF Delete
  <2>2. Asks("delete", k, id, NoBody)
    BY <1>2 DEF Asks, Inv, Places, PlacesIn
  <2>3. edits' \in Nat /\ items' \in Nat
    BY <2>1 DEF Inv, Typing
  <2>4. RequestStep(NextFree(reqs), "delete", k, id, NoBody)
    BY <1>1, <2>1, <2>2, <2>3, StartIs
  <2> QED  BY <2>4, RequestStepKeeps
<1>3. CASE id \notin Known(slices[k].saved)
  BY <1>1, <1>3, DroppedStep, DraftStepKeeps
<1> QED
  BY <1>2, <1>3

LEMMA AskToLeaveKeeps ==
  ASSUME Inv, Leave
  PROVE  Inv'
<1>1. /\ Start(Request("leave", "none", 0, NoBody))
      /\ UNCHANGED <<slices, server, nav, edits, items>> /\ typed' = typed /\ raced' = raced
  BY DEF Leave, history
<1>2. Asks("leave", "none", 0, NoBody)
  BY DEF Asks
<1>3. edits' \in Nat /\ items' \in Nat
  BY <1>1 DEF Inv, Typing
<1>4. RequestStep(NextFree(reqs), "leave", "none", 0, NoBody)
  BY <1>1, <1>2, <1>3, StartIs
<1> QED
  BY <1>4, RequestStepKeeps

-----------------------------------------------------------------------------
(* What the server does to what it stores.                                  *)
LEMMA GrownSame ==
  ASSUME Typing, NEW j \in kinds, server'[j] = server[j]
  PROVE  Grown(j) /\ DOMAIN server'[j] = DOMAIN server[j]
BY StoredHas DEF Typing, Grown

LEMMA GrownAppend ==
  ASSUME Typing, NEW k \in kinds, NEW t \in StoredEntity(k),
         server' = [server EXCEPT ![k] = Append(server[k], t)]
  PROVE  /\ DOMAIN server' = kinds /\ \A j \in kinds : Grown(j)
         /\ \A j \in kinds \ {k} : DOMAIN server'[j] = DOMAIN server[j]
         /\ Len(server[k]) + 1 \in DOMAIN server'[k] /\ server'[k][Len(server[k]) + 1] = t
         /\ \A i \in DOMAIN server'[k] \ DOMAIN server[k] : i = Len(server[k]) + 1
<1>1. PICK a, b : a = server[k] /\ b = Append(a, t)
  OBVIOUS
<1>2. DOMAIN server' = kinds /\ server'[k] = b /\ \A j \in kinds \ {k} : server'[j] = server[j]
  BY <1>1 DEF Typing
<1>3. a \in Seq(StoredEntity(k))
  BY <1>1 DEF Typing
<1>4. /\ b \in Seq(StoredEntity(k)) /\ Len(b) = Len(a) + 1 /\ b[Len(a) + 1] = t
      /\ \A i \in 1..Len(a) : b[i] = a[i]
  BY ONLY <1>1, <1>3, t \in StoredEntity(k), AppendProperties
<1>5. DOMAIN a = 1..Len(a) /\ Len(a) \in Nat /\ DOMAIN b = 1..(Len(a) + 1)
  BY ONLY <1>3, <1>4, LenProperties
<1>6. \A i \in DOMAIN a : a[i].ver \in Nat
  BY <1>1, StoredHas
<1>7. Grown(k)
  BY <1>1, <1>2, <1>4, <1>5, <1>6 DEF Grown
<1>8. \A j \in kinds \ {k} : Grown(j) /\ DOMAIN server'[j] = DOMAIN server[j]
  BY <1>2, GrownSame
<1> QED
  BY <1>1, <1>2, <1>4, <1>5, <1>7, <1>8

LEMMA GrownSet ==
  ASSUME Typing, NEW k \in kinds, NEW i \in DOMAIN server[k], NEW t \in StoredEntity(k),
         t.origin = server[k][i].origin, server[k][i].ver <= t.ver,
         server' = [server EXCEPT ![k] = [server[k] EXCEPT ![i] = t]]
  PROVE  /\ DOMAIN server' = kinds /\ \A j \in kinds : Grown(j)
         /\ \A j \in kinds : DOMAIN server'[j] = DOMAIN server[j]
         /\ server'[k][i] = t
<1>1. PICK a, b : a = server[k] /\ b = [a EXCEPT ![i] = t]
  OBVIOUS
<1>2. DOMAIN server' = kinds /\ server'[k] = b /\ \A j \in kinds \ {k} : server'[j] = server[j]
  BY <1>1 DEF Typing
<1>3. a \in Seq(StoredEntity(k)) /\ i \in DOMAIN a
  BY <1>1 DEF Typing
<1>4. b \in Seq(StoredEntity(k)) /\ Len(b) = Len(a)
  BY ONLY <1>1, <1>3, t \in StoredEntity(k), ExceptSeq
<1>5. /\ DOMAIN b = DOMAIN a /\ b[i] = t
      /\ \A l \in DOMAIN a \ {i} : b[l] = a[l]
  BY ONLY <1>1, <1>3
<1>6. \A l \in DOMAIN a : a[l].ver \in Nat
  BY <1>1, StoredHas
<1>7. Grown(k)
  BY <1>1, <1>2, <1>4, <1>5, <1>6 DEF Grown
<1>8. \A j \in kinds \ {k} : Grown(j) /\ DOMAIN server'[j] = DOMAIN server[j]
  BY <1>2, GrownSame
<1> QED
  BY <1>1, <1>2, <1>5, <1>7, <1>8

-----------------------------------------------------------------------------
AnsweredWith(r, a, c) == [r EXCEPT !.stage = "done", !.answer = a, !.content = c]

LEMMA AnsweredWithIs ==
  ASSUME NEW r \in RequestType, NEW a \in Int, NEW c \in Content, NEW q, q = AnsweredWith(r, a, c)
  PROVE  /\ q \in RequestType /\ q.kind = r.kind /\ q.of = r.of /\ q.id = r.id /\ q.body = r.body
         /\ q.stage = "done" /\ q.overtaken = r.overtaken /\ q.heard = r.heard
         /\ q.answer = a /\ q.content = c
BY DEF AnsweredWith, RequestType

\* The requests after one was carried out, whose answer is a, with content c.
CarriedOut(n, r, a, c) ==
  IF ~r.heard THEN Without(reqs, n)
  ELSE [reqs EXCEPT ![n].stage = "done", ![n].answer = a, ![n].content = c]
Carried(n) ==
  /\ DOMAIN reqs' \subseteq DOMAIN reqs /\ reqs' = [m \in DOMAIN reqs' |-> reqs'[m]]
  /\ \A m \in DOMAIN reqs \ {n} : m \in DOMAIN reqs' /\ reqs'[m] = reqs[m]
  /\ IF n \in DOMAIN reqs' THEN AnswerFits(reqs[n], reqs'[n]) ELSE ~reqs[n].heard

LEMMA DoneIs ==
  ASSUME Typing, NEW n \in DOMAIN reqs, NEW r, r = reqs[n], NEW a \in Int, NEW c \in Content,
         reqs' = CarriedOut(n, r, a, c),
         r.kind = "load" => c = server[r.of],
         r.kind \in {"save", "delete"} => a \in DOMAIN server'[r.of] /\ c = server'[r.of][a],
         r.kind = "delete" => a = r.id
  PROVE  Carried(n)
<1>1. r \in RequestType /\ reqs = [m \in DOMAIN reqs |-> reqs[m]]
  BY DEF Typing
<1>2. CASE ~r.heard
  <2>1. reqs' = Without(reqs, n)
    BY <1>2 DEF CarriedOut
  <2>2. /\ DOMAIN reqs' = DOMAIN reqs \ {n} /\ reqs' = [m \in DOMAIN reqs' |-> reqs'[m]]
        /\ \A m \in DOMAIN reqs \ {n} : reqs'[m] = reqs[m]
    BY ONLY <2>1 DEF Without
  <2> QED  BY <1>2, <2>2 DEF Carried
<1>3. CASE r.heard
  <2>1. PICK q : q = AnsweredWith(r, a, c)
    OBVIOUS
  <2>2. reqs' = [reqs EXCEPT ![n].stage = "done", ![n].answer = a, ![n].content = c]
    BY <1>3 DEF CarriedOut
  <2>3. /\ DOMAIN reqs' = DOMAIN reqs /\ reqs' = [m \in DOMAIN reqs' |-> reqs'[m]]
        /\ (\A m \in DOMAIN reqs \ {n} : reqs'[m] = reqs[m])
        /\ reqs'[n] = q
    BY ONLY <1>1, <2>1, <2>2, r = reqs[n], n \in DOMAIN reqs DEF AnsweredWith
  <2>4. /\ q \in RequestType /\ q.kind = r.kind /\ q.of = r.of /\ q.id = r.id /\ q.body = r.body
        /\ q.stage = "done" /\ q.overtaken = r.overtaken /\ q.heard = r.heard
        /\ q.answer = a /\ q.content = c
    BY ONLY <1>1, <2>1, a \in Int, c \in Content, AnsweredWithIs
  <2>5. AnswerFits(r, q)
    BY <1>3, <2>4 DEF AnswerFits
  <2> QED  BY <2>3, <2>5 DEF Carried
<1>4. r.heard \in BOOLEAN
  BY <1>1 DEF RequestType
<1> QED
  BY <1>2, <1>3, <1>4

Erased(t) == [t EXCEPT !.deleted = TRUE, !.ver = @ + 1]
Rewritten(t, x) == [t EXCEPT !.fields.text = x, !.ver = @ + 1]
Revised(t, f, d, v) == [t EXCEPT !.fields = f, !.deleted = d, !.ver = v]

LEMMA RevisedType ==
  ASSUME NEW k \in Kinds, NEW t \in StoredEntity(k), NEW f \in FieldsOf(k), NEW d \in BOOLEAN,
         NEW e, e = Revised(t, f, d, t.ver + 1)
  PROVE  e \in StoredEntity(k) /\ e.origin = t.origin /\ t.ver <= e.ver
<1>1. PICK v : v = t.ver + 1
  OBVIOUS
<1>2. t.ver \in Nat
  BY DEF StoredEntity, StoredAccount, StoredTransaction
<1>3. v \in Nat /\ t.ver <= v
  BY <1>1, <1>2
<1>4. e = Revised(t, f, d, v)
  BY <1>1
<1>5. CASE k = "account"
  BY ONLY <1>3, <1>4, <1>5, t \in StoredEntity(k), f \in FieldsOf(k), d \in BOOLEAN
     DEF Revised, StoredEntity, StoredAccount
<1>6. CASE k = "transaction"
  BY ONLY <1>3, <1>4, <1>6, t \in StoredEntity(k), f \in FieldsOf(k), d \in BOOLEAN
     DEF Revised, StoredEntity, StoredTransaction
<1> QED
  BY <1>5, <1>6 DEF Kinds

LEMMA StoredFields ==
  ASSUME NEW k \in Kinds, NEW t \in StoredEntity(k)
  PROVE  /\ t.fields \in FieldsOf(k) /\ t.deleted \in BOOLEAN
         /\ t = [t EXCEPT !.fields = t.fields] /\ t = [t EXCEPT !.deleted = t.deleted]
<1>1. CASE k = "account"
  BY <1>1 DEF StoredEntity, StoredAccount
<1>2. CASE k = "transaction"
  BY <1>2 DEF StoredEntity, StoredTransaction
<1> QED
  BY <1>1, <1>2 DEF Kinds

LEMMA ErasedType ==
  ASSUME NEW k \in Kinds, NEW t \in StoredEntity(k), NEW e, e = Erased(t)
  PROVE  e \in StoredEntity(k) /\ e.origin = t.origin /\ t.ver <= e.ver
<1>1. PICK f, v : f = t.fields /\ v = t.ver + 1
  OBVIOUS
<1>2. f \in FieldsOf(k) /\ t = [t EXCEPT !.fields = f]
  BY <1>1, StoredFields
<1>3. e = [t EXCEPT !.deleted = TRUE, !.ver = v]
  BY <1>1 DEF Erased
<1>4. e = Revised(t, f, TRUE, v)
  BY ONLY <1>2, <1>3 DEF Revised
<1> QED
  BY ZenonT(60), <1>1, <1>2, <1>4, RevisedType

LEMMA RewrittenType ==
  ASSUME NEW k \in Kinds, NEW t \in StoredEntity(k), NEW x \in Int, NEW e, e = Rewritten(t, x)
  PROVE  e \in StoredEntity(k) /\ e.origin = t.origin /\ t.ver <= e.ver
<1>1. PICK f, d, v : f = [t.fields EXCEPT !.text = x] /\ d = t.deleted /\ v = t.ver + 1
  OBVIOUS
<1>2. d \in BOOLEAN /\ t = [t EXCEPT !.deleted = d]
  BY <1>1, StoredFields
<1>3. t.fields \in FieldsOf(k)
  BY StoredFields
<1>4. f \in FieldsOf(k)
  <2>1. CASE k = "account"
    BY <1>1, <1>3, <2>1 DEF FieldsOf
  <2>2. CASE k = "transaction"
    BY <1>1, <1>3, <2>2 DEF FieldsOf
  <2> QED  BY <2>1, <2>2 DEF Kinds
<1>5. e = [t EXCEPT !.fields = f, !.ver = v]
  BY <1>1 DEF Rewritten
<1>6. e = Revised(t, f, d, v)
  BY ONLY <1>2, <1>5 DEF Revised
<1> QED
  BY <1>1, <1>2, <1>4, <1>6, RevisedType

LEMMA OtherWritesKeeps ==
  ASSUME Inv, NEW k \in kinds, NEW id \in DOMAIN server[k], OtherWrites(k, id)
  PROVE  Inv'
<1>1. PICK t, e, x : t = server[k][id] /\ x = Stamp /\ e = Rewritten(t, x)
  OBVIOUS
<1>2. /\ CountEdit /\ Stored(k, [server[k] EXCEPT ![id].fields.text = x, ![id].ver = @ + 1])
      /\ UNCHANGED <<slices, reqs, nav, history>>
  BY <1>1 DEF OtherWrites
<1>3. t \in StoredEntity(k) /\ k \in Kinds /\ x \in Int
  BY <1>1, StoredHas DEF Inv, Typing, Stamp
<1>4. e \in StoredEntity(k) /\ e.origin = t.origin /\ t.ver <= e.ver
  BY ONLY <1>1, <1>3, RewrittenType
<1>5. [server[k] EXCEPT ![id].fields.text = x, ![id].ver = @ + 1] = [server[k] EXCEPT ![id] = e]
  BY ONLY <1>1, id \in DOMAIN server[k] DEF Rewritten
<1>6. server' = [server EXCEPT ![k] = [server[k] EXCEPT ![id] = e]]
  BY ONLY <1>2, <1>5 DEF Stored
<1>7. /\ DOMAIN server' = kinds /\ \A j \in kinds : Grown(j)
      /\ \A j \in kinds : DOMAIN server'[j] = DOMAIN server[j]
  BY <1>1, <1>4, <1>6, GrownSet DEF Inv
<1>8. 0 \notin DOMAIN reqs
  BY Bounds DEF Inv, Typing
<1>9. edits' \in Nat /\ items' \in Nat
  BY <1>2, Counted DEF Inv
<1>10. \A j \in kinds : NewComesFrom(0, j)
  BY <1>7 DEF NewComesFrom
<1>11. reqs = [m \in DOMAIN reqs |-> reqs[m]] /\ reqs' = reqs
  BY <1>2 DEF Inv, Typing
<1>12. ServerStep(0)
  BY <1>2, <1>7, <1>8, <1>9, <1>10, <1>11 DEF ServerStep
<1> QED
  BY <1>12, ServerStepKeeps

LEMMA ExecuteKeeps ==
  ASSUME Inv, NEW n \in DOMAIN reqs, Execute(n)
  PROVE  Inv'
<1>1. PICK r, k : r = reqs[n] /\ k = r.of
  OBVIOUS
<1>2. PICK list : list = IF k \in kinds THEN server[k] ELSE <<>>
  BY SMTT(60)
<1> DEFINE done(id) == reqs' = IF ~r.heard THEN Without(reqs, n)
                               ELSE [reqs EXCEPT ![n].stage = "done", ![n].answer = id,
                                       ![n].content = IF id = 0 THEN list ELSE server'[k][id]]
<1>3. /\ r.stage = "sent" /\ r.kind # "rates"
      /\ \/ /\ r.kind = "save" /\ r.id < 0
            /\ Stored(k, Append(list, Apply(k, Fresh(k, r.id), r.body)))
            /\ done(Len(list) + 1)
         \/ /\ r.kind = "save" /\ r.id > 0 /\ ~list[r.id].deleted
            /\ Stored(k, [list EXCEPT ![r.id] = Apply(k, @, r.body)])
            /\ done(r.id)
         \/ /\ r.kind = "delete" /\ ~list[r.id].deleted
            /\ Stored(k, [list EXCEPT ![r.id].deleted = TRUE, ![r.id].ver = @ + 1])
            /\ done(r.id)
         \/ /\ r.kind \in {"load", "leave"} /\ UNCHANGED server
            /\ done(0)
      /\ slices' = slices /\ UNCHANGED nav /\ edits' = edits /\ items' = items
      /\ UNCHANGED history
  BY <1>1, <1>2 DEF Execute, counters
<1>4. /\ r \in RequestType /\ Fits(r) /\ (r.kind # "leave" => k \in kinds) /\ kinds \subseteq Kinds
      /\ r.id \in Int /\ Typing /\ AskedBy(n)
  BY <1>1 DEF Inv, Typing, RequestType, Asked
<1>5. k \in kinds => /\ k \in Kinds /\ list \in Seq(StoredEntity(k)) /\ list = server[k]
                     /\ DOMAIN list = 1..Len(list) /\ Len(list) \in Nat
  BY <1>2, <1>4, LenProperties DEF Typing
<1>6. \A j \in Kinds : StoredEntity(j) \subseteq Content /\ Seq(StoredEntity(j)) \subseteq Content
  BY DEF Content, StoredEntity
<1> DEFINE Server == DOMAIN server' = kinds /\ \A j \in kinds : Grown(j) /\ NewComesFrom(n, j)
<1>7. ASSUME NEW a \in Int, NEW c \in Content, c = (IF a = 0 THEN list ELSE server'[k][a]), done(a),
             r.kind = "load" => c = server[k],
             r.kind \in {"save", "delete"} => a \in DOMAIN server'[k] /\ c = server'[k][a],
             r.kind = "delete" => a = r.id
      PROVE  Carried(n)
  <2>1. reqs' = CarriedOut(n, r, a, c)
    BY <1>7 DEF CarriedOut
  <2>2. /\ r.kind = "load" => c = server[r.of]
        /\ r.kind \in {"save", "delete"} => a \in DOMAIN server'[r.of] /\ c = server'[r.of][a]
        /\ r.kind = "delete" => a = r.id
    BY <1>1, <1>7
  <2>3. Typing /\ n \in DOMAIN reqs /\ r = reqs[n] /\ a \in Int /\ c \in Content
    BY <1>1, <1>4
  <2> QED  BY ONLY <2>1, <2>2, <2>3, DoneIs
<1> HIDE DEF done
<1>8. Carried(n) /\ Server
  <2>1. CASE /\ r.kind = "save" /\ r.id < 0
             /\ Stored(k, Append(list, Apply(k, Fresh(k, r.id), r.body))) /\ done(Len(list) + 1)
    <3>1. PICK t, a : t = Apply(k, Fresh(k, r.id), r.body) /\ a = Len(list) + 1
      OBVIOUS
    <3>2. k \in kinds /\ k \in Kinds /\ r.body \in Entity(k)
      BY <1>1, <1>4, <1>5, <2>1 DEF Fits
    <3>3. t \in StoredEntity(k) /\ t.origin = r.id
      BY ONLY <1>4, <3>1, <3>2, FreshType
    <3>4. server' = [server EXCEPT ![k] = Append(server[k], t)]
      BY <1>5, <2>1, <3>1, <3>2 DEF Stored
    <3>5. /\ DOMAIN server' = kinds /\ \A j \in kinds : Grown(j)
          /\ \A j \in kinds \ {k} : DOMAIN server'[j] = DOMAIN server[j]
          /\ a \in DOMAIN server'[k] /\ server'[k][a] = t
          /\ \A i \in DOMAIN server'[k] \ DOMAIN server[k] : i = a
      <4>1. Len(list) = Len(server[k])
        BY <1>5, <3>2
      <4> QED  BY ZenonT(60), <1>4, <3>1, <3>2, <3>3, <3>4, <4>1, GrownAppend
    <3>6. Server
      BY <1>1, <2>1, <3>3, <3>5 DEF NewComesFrom
    <3>7. a \in Int /\ a # 0 /\ t \in Content
      BY <1>5, <1>6, <3>1, <3>2, <3>3
    <3>8. Carried(n)
      BY <1>7, <2>1, <3>1, <3>5, <3>7
    <3> QED  BY <3>6, <3>8
  <2>2. ASSUME NEW t \in StoredEntity(k), k \in kinds, r.id \in DOMAIN list,
               t.origin = list[r.id].origin, list[r.id].ver <= t.ver,
               r.kind \in {"save", "delete"}, done(r.id),
               server' = [server EXCEPT ![k] = [server[k] EXCEPT ![r.id] = t]]
        PROVE  Carried(n) /\ Server
    <3>1. r.id \in DOMAIN server[k] /\ t.origin = server[k][r.id].origin /\ server[k][r.id].ver <= t.ver
      BY <1>5, <2>2
    <3>2. /\ DOMAIN server' = kinds /\ \A j \in kinds : Grown(j)
          /\ \A j \in kinds : DOMAIN server'[j] = DOMAIN server[j]
          /\ server'[k][r.id] = t
      BY <1>4, <2>2, <3>1, GrownSet
    <3>3. Server
      BY <3>2 DEF NewComesFrom
    <3>4. r.id # 0 /\ t \in Content
      BY <1>5, <1>6, <2>2
    <3>5. Carried(n)
      BY <1>4, <1>7, <2>2, <3>1, <3>2, <3>4
    <3> QED  BY <3>3, <3>5
  <2>3. CASE /\ r.kind = "save" /\ r.id > 0 /\ ~list[r.id].deleted
             /\ Stored(k, [list EXCEPT ![r.id] = Apply(k, @, r.body)]) /\ done(r.id)
    <3>1. k \in kinds /\ k \in Kinds /\ r.body \in Entity(k) /\ r.id \in DOMAIN list
      BY <1>1, <1>4, <1>5, <2>3 DEF Fits, AskedBy, IdOf
    <3>2. PICK old, t : old = list[r.id] /\ t = Apply(k, old, r.body)
      OBVIOUS
    <3>3. old \in StoredEntity(k) /\ old.ver \in Nat
      BY <1>4, <1>5, <3>1, <3>2, StoredHas
    <3>4. t \in StoredEntity(k) /\ t.ver = old.ver + 1 /\ t.origin = old.origin
      BY ONLY <3>1, <3>2, <3>3, ApplyType
    <3>5. server' = [server EXCEPT ![k] = [server[k] EXCEPT ![r.id] = t]]
      BY <1>5, <2>3, <3>1, <3>2 DEF Stored
    <3>6. list[r.id].ver <= t.ver
      BY <3>2, <3>3, <3>4
    <3> QED  BY <2>2, <2>3, <3>1, <3>2, <3>4, <3>5, <3>6
  <2>4. CASE /\ r.kind = "delete" /\ ~list[r.id].deleted
             /\ Stored(k, [list EXCEPT ![r.id].deleted = TRUE, ![r.id].ver = @ + 1]) /\ done(r.id)
    <3>1. k \in kinds /\ k \in Kinds /\ r.id \in DOMAIN list
      BY <1>1, <1>4, <1>5, <2>4 DEF AskedBy
    <3>2. PICK old, t : old = list[r.id] /\ t = Erased(old)
      OBVIOUS
    <3>3. old \in StoredEntity(k)
      BY <1>4, <1>5, <3>1, <3>2, StoredHas
    <3>4. t \in StoredEntity(k) /\ t.origin = old.origin /\ old.ver <= t.ver
      BY ONLY <3>1, <3>2, <3>3, ErasedType
    <3>5. [list EXCEPT ![r.id].deleted = TRUE, ![r.id].ver = @ + 1] = [list EXCEPT ![r.id] = t]
      BY ONLY <3>1, <3>2 DEF Erased
    <3>6. server' = [server EXCEPT ![k] = [server[k] EXCEPT ![r.id] = t]]
      BY <1>5, <2>4, <3>1, <3>5 DEF Stored
    <3> QED  BY <2>2, <2>4, <3>1, <3>2, <3>4, <3>6
  <2>5. CASE r.kind \in {"load", "leave"} /\ server' = server /\ done(0)
    <3>1. \A j \in kinds : Grown(j) /\ DOMAIN server'[j] = DOMAIN server[j]
      BY <1>4, <2>5, GrownSame
    <3>2. Server
      BY <1>4, <2>5, <3>1 DEF NewComesFrom, Typing
    <3>3. list \in Content
      <4>1. <<>> \in Seq(StoredTransaction)
        OBVIOUS
      <4> QED  BY <1>2, <1>5, <1>6, <4>1 DEF Content
    <3>4. r.kind = "load" => list = server[k]
      BY <1>4, <1>5
    <3>5. Carried(n)
      BY <1>7, <2>5, <3>3, <3>4
    <3> QED  BY <3>2, <3>5
  <2> QED  BY <1>3, <2>1, <2>3, <2>4, <2>5
<1>9. edits' \in Nat /\ items' \in Nat
  BY <1>3, <1>4 DEF Typing
<1>10. ServerStep(n)
  BY <1>1, <1>3, <1>8, <1>9 DEF ServerStep, Carried
<1> QED
  BY <1>10, ServerStepKeeps

-----------------------------------------------------------------------------
(* Answers.                                                                 *)
LEMMA SavedSame ==
  ASSUME Inv, NEW k \in kinds, slices'[k] \in Slice(k), Lower(k, slices[k], slices'[k]),
         slices'[k].saved = slices[k].saved
  PROVE  SavedFits(k)
<1>1. k = "transaction" => \A id \in Known(slices[k].saved) : Room(slices'[k], slices[k].saved.byId[id])
  <2> SUFFICES ASSUME k = "transaction", NEW id \in Known(slices[k].saved)
               PROVE  Room(slices'[k], slices[k].saved.byId[id])
    OBVIOUS
  <2>1. PICK s, u, t : s = slices[k] /\ u = slices'[k] /\ t = slices[k].saved.byId[id]
    OBVIOUS
  <2>2. s \in TransactionState /\ u \in TransactionState /\ t \in TransactionDraft
    BY <2>1, SliceHas DEF Inv, Slice, Entity
  <2>3. Room(s, t)
    BY <2>1 DEF Inv, Roomy
  <2>4. Lower("transaction", s, u)
    BY <2>1
  <2>5. Room(u, t)
    BY ONLY <2>2, <2>3, <2>4, RoomLower
  <2> QED  BY <2>1, <2>5
<1> QED
  BY <1>1 DEF SavedFits, Inv, Places, PlacesIn, Listed, ListedIn

LEMMA WipSame ==
  ASSUME Inv, NEW k \in kinds, slices'[k] \in Slice(k), Lower(k, slices[k], slices'[k]),
         slices'[k].wip = slices[k].wip, typed' = typed, raced \subseteq raced',
         NEW n, NEW id \in Int,
         <<k, id>> \notin raced' => (reqs[n].kind = "save" => reqs[n].stage = "sent")
  PROVE  DraftFits(n, k, id)
<1>1. id \in Known(slices[k].wip) => IdOf(k, id) /\ slices[k].wip.byId[id].is_wip
  BY DEF Inv, Places, PlacesIn
<1>2. id \in Known(slices[k].wip) /\ k = "transaction" => Room(slices'[k], slices[k].wip.byId[id])
  <2> SUFFICES ASSUME k = "transaction", id \in Known(slices[k].wip)
               PROVE  Room(slices'[k], slices[k].wip.byId[id])
    OBVIOUS
  <2>1. PICK s, u, t : s = slices[k] /\ u = slices'[k] /\ t = slices[k].wip.byId[id]
    OBVIOUS
  <2>2. s \in TransactionState /\ u \in TransactionState /\ t \in TransactionDraft
    BY <2>1, SliceHas DEF Inv, Slice, Entity
  <2>3. Room(s, t)
    BY <2>1 DEF Inv, Roomy
  <2>4. Lower("transaction", s, u)
    BY <2>1
  <2>5. Room(u, t)
    BY ONLY <2>2, <2>3, <2>4, RoomLower
  <2> QED  BY <2>1, <2>5
<1>3. <<k, id>> \notin raced' =>
        /\ id \in Known(slices[k].wip) => Once(slices[k].wip, id)
        /\ EditsStayIn(k, id)
  BY DEF Inv, Listed, ListedIn, DraftsStay
<1>4. <<k, id>> \notin raced' => EditsStayIn(k, id)'
  BY <1>3 DEF EditsStayIn, Mine
<1> QED
  BY <1>1, <1>2, <1>3, <1>4 DEF DraftFits

\* A slice of a group that was left has nothing to keep.
LEMMA AbsentHas ==
  ASSUME Inv, NEW k \in kinds
  PROVE  /\ slices[k].status = "absent" => Known(slices[k].wip) = {} /\ Known(slices[k].saved) = {}
         /\ ~joined => slices[k].status = "absent"
         /\ typed = [i \in DOMAIN typed |-> typed[i]]
         /\ k \in Kinds /\ slices[k] \in Slice(k)
BY DEF Inv, Places, PlacesIn, Visit, Typing

LEMMA LoadAnsweredKeeps ==
  ASSUME Inv, NEW n \in DOMAIN reqs, LoadAnswered(n)
  PROVE  Inv'
<1>1. PICK r, k, id, list, s, u :
        /\ r = reqs[n] /\ k = r.of /\ id = r.id /\ list = r.content /\ s = slices[k]
        /\ u = IF k = "account" THEN A!fetchFulfilled(s, list) ELSE T!fetchFulfilled(s, list)
  OBVIOUS
<1>2. /\ r.kind = "load" /\ r.stage = "done" /\ Delivered(n) /\ SliceOf(k, u)
      /\ UNCHANGED <<server, nav, counters>> /\ typed' = typed /\ raced' = raced
  BY <1>1 DEF LoadAnswered, history
<1>3. /\ k \in kinds /\ k \in Kinds /\ s \in Slice(k) /\ list \in Seq(StoredEntity(k)) /\ id \in Int
      /\ Len(list) <= Len(server[k]) /\ \A i \in DOMAIN list : list[i].ver <= server[k][i].ver
  BY <1>1, <1>2 DEF Inv, Typing, Fits, Asked, AskedBy, RequestType
<1>4. /\ u \in Slice(k) /\ u.wip = s.wip /\ u.nextId = s.nextId /\ Lower(k, s, u)
      /\ s.status = "absent" => u = s
      /\ s.status # "absent" =>
           /\ u.status = "initialized" /\ Known(u.saved) = DOMAIN list
           /\ \A i \in DOMAIN list :
                /\ ~u.saved.byId[i].is_wip /\ u.saved.byId[i].ver = list[i].ver
                /\ Numbered(k, u.saved.byId[i]) /\ Once(u.saved, i)
  <2>1. u = IF k = "account" THEN A!fetchFulfilled(s, list) ELSE T!fetchFulfilled(s, list)
    BY <1>1
  <2> QED  BY ONLY <1>3, <2>1, Fetched
<1>5. OthersSame(k) /\ slices'[k] = u
  BY <1>2, <1>3, SliceSet DEF Inv
<1>6. /\ RequestEnds(n)
      /\ \A m \in DOMAIN reqs' : reqs'[m].of = k => reqs'[m].overtaken
  BY <1>1, <1>2, DeliveredEnds DEF Inv
<1>7. SavedFits(k)
  <2>1. CASE s.status = "absent"
    BY <1>1, <1>3, <1>4, <1>5, <2>1, SavedSame
  <2>2. CASE s.status # "absent"
    <3>1. DOMAIN list = 1..Len(list) /\ Len(list) \in Nat
      BY <1>3, LenProperties
    <3>2. DOMAIN server[k] = 1..Len(server[k]) /\ Len(server[k]) \in Nat
      BY <1>3, SliceHas DEF Inv
    <3>3. \A i \in DOMAIN list : i \in DOMAIN server[k]
      BY <1>3, <3>1, <3>2
    <3>4. k = "transaction" => /\ u.nextPosition \in Int /\ u.nextFile \in Int
                               /\ u.nextPosition < 0 /\ u.nextFile < 0
      BY <1>1, <1>3, <1>4 DEF Inv, Roomy, Lower, Slice, TransactionState
    <3>5. ASSUME NEW i \in DOMAIN list, k = "transaction" PROVE Room(u, u.saved.byId[i])
      <4>1. PICK t : t = u.saved.byId[i]
        OBVIOUS
      <4>2. Numbered(k, t) /\ t \in TransactionDraft
        <5>1. u.saved \in Collection(TransactionDraft)
          BY <1>3, <1>4, <3>5, SliceParts DEF Entity
        <5> QED  BY <1>4, <2>2, <4>1, <5>1, CollectionIs DEF Known
      <4>3. Known(t.positions) \subseteq Int /\ Known(t.files) \subseteq Int
        BY <4>2, CollectionIs DEF TransactionDraft, Known
      <4> QED  BY <3>4, <3>5, <4>1, <4>2, <4>3 DEF Room, Numbered
    <3> QED  BY <1>3, <1>4, <1>5, <2>2, <3>3, <3>5 DEF SavedFits
  <2> QED  BY <2>1, <2>2
<1>8. DraftFits(n, k, id)
  BY ZenonT(60), <1>1, <1>2, <1>3, <1>4, <1>5, WipSame
<1>9. u.status = "absent" <=> s.status = "absent"
  BY <1>4
<1>10. AnswerStep(n, k, id)
  <2>1. u.status = "loading" => s.status = "loading" /\ r.kind # "load"
    <3>1. s.status = "absent" => u.status # "loading"
      BY SMTT(60), <1>4
    <3> QED  BY <1>4, <3>1
  <2>2. u.status = "absent" => Known(u.wip) = {} /\ Known(u.saved) = {}
    BY <1>1, <1>3, <1>4, AbsentHas
  <2> QED  BY ZenonT(60), <1>1, <1>2, <1>3, <1>4, <1>5, <1>6, <1>7, <1>8, <1>9, <2>1, <2>2, AbsentHas DEF AnswerStep
<1> QED
  BY <1>10, AnswerStepKeeps

\* What an answer to a save or a deletion does.
LEMMA SavedAnswered ==
  ASSUME Inv, NEW n \in DOMAIN reqs, reqs[n].kind \in {"save", "delete"}, reqs[n].stage = "done",
         NEW k, NEW id, NEW s, NEW u, k = reqs[n].of, id = reqs[n].id, s = slices[k],
         u = (IF k = "account" THEN A!saveFulfilled(s, id, reqs[n].answer, reqs[n].content)
              ELSE T!saveFulfilled(s, id, reqs[n].answer, reqs[n].content)),
         Delivered(n), SliceOf(k, u), raced' = raced, UNCHANGED <<server, nav, counters>>,
         typed' \in {typed, Untyped(k, id)},
         <<k, id>> \notin raced /\ <<k, id>> \in DOMAIN typed => typed' = Untyped(k, id)
  PROVE  Inv'
<1>1. PICK t, a : t = reqs[n].content /\ a = reqs[n].answer
  OBVIOUS
<1>2. /\ k \in kinds /\ k \in Kinds /\ s \in Slice(k) /\ t \in StoredEntity(k) /\ id \in Int /\ a \in Int
      /\ a \in DOMAIN server[k] /\ t.ver <= server[k][a].ver
  BY <1>1 DEF Inv, Typing, Fits, Asked, AskedBy, RequestType
<1>3. /\ u \in Slice(k) /\ u.status = s.status /\ u.nextId = s.nextId /\ Lower(k, s, u)
      /\ s.status = "absent" => u = s
      /\ s.status # "absent" => u.saved = T!addEntity(s.saved, a, FromServer(k, t))
                                  /\ u.wip = T!removeEntity(s.wip, id)
  <2>1. u = IF k = "account" THEN A!saveFulfilled(s, id, a, t) ELSE T!saveFulfilled(s, id, a, t)
    BY <1>1
  <2> QED  BY ONLY <1>2, <2>1, Answered1
<1>4. OthersSame(k) /\ slices'[k] = u
  BY <1>2, SliceSet DEF Inv
<1>5. /\ RequestEnds(n)
      /\ \A m \in DOMAIN reqs' : reqs'[m].of = k => reqs'[m].overtaken
  BY DeliveredEnds DEF Inv
<1>6. PICK e : e = FromServer(k, t)
  OBVIOUS
<1>7. e \in Entity(k) /\ e.ver = t.ver /\ ~e.is_wip /\ Numbered(k, e)
  BY ONLY <1>2, <1>6, FromServerType
<1>8. s.saved \in Collection(Entity(k)) /\ s.wip \in Collection(Entity(k))
  BY <1>2, SliceParts
<1>9. SavedFits(k)
  <2>1. CASE s.status = "absent"
    BY <1>2, <1>3, <1>4, <2>1, SavedSame
  <2>2. CASE s.status # "absent"
    <3>1. Changed(s.saved, u.saved, a, e) /\ (a \notin Known(s.saved) => Once(u.saved, a))
      <4>1. u.saved = T!addEntity(s.saved, a, e)
        BY <1>3, <1>6, <2>2
      <4> QED  BY ONLY <1>2, <1>7, <1>8, <4>1, AddChanges
    <3>2. k = "transaction" => /\ u.nextPosition \in Int /\ u.nextFile \in Int
                               /\ u.nextPosition < 0 /\ u.nextFile < 0
      BY <1>2, <1>3 DEF Inv, Roomy, Lower, Slice, TransactionState
    <3>3. k = "transaction" => Room(u, e)
      <4> SUFFICES ASSUME k = "transaction" PROVE Room(u, e)
        OBVIOUS
      <4>1. Known(e.positions) \subseteq Int /\ Known(e.files) \subseteq Int
        BY <1>7, CollectionIs DEF Entity, TransactionDraft, Known
      <4> QED  BY <1>7, <3>2, <4>1 DEF Room, Numbered
    <3>4. ASSUME NEW i \in Known(s.saved)
          PROVE  /\ i \in DOMAIN server[k] /\ ~s.saved.byId[i].is_wip
                 /\ s.saved.byId[i].ver <= server[k][i].ver /\ Once(s.saved, i)
                 /\ k = "transaction" => Room(u, s.saved.byId[i])
      <4>1. /\ i \in DOMAIN server[k] /\ ~s.saved.byId[i].is_wip
            /\ s.saved.byId[i].ver <= server[k][i].ver /\ Once(s.saved, i)
        BY <1>2 DEF Inv, Places, PlacesIn, Listed, ListedIn
      <4>2. ASSUME k = "transaction" PROVE Room(u, s.saved.byId[i])
        <5>1. PICK d : d = s.saved.byId[i]
          OBVIOUS
        <5>2. /\ s \in TransactionState /\ u \in TransactionState /\ d \in TransactionDraft
              /\ Lower("transaction", s, u)
          BY <1>2, <1>3, <1>8, <4>2, <5>1, CollectionIs DEF Slice, Entity, Known
        <5>3. Room(s, d)
          BY <1>2, <4>2, <5>1 DEF Inv, Roomy
        <5>4. Room(u, d)
          BY ONLY <5>2, <5>3, RoomLower
        <5> QED  BY <5>1, <5>4
      <4> QED  BY <4>1, <4>2
    <3>5. ASSUME NEW i \in Known(u.saved)
          PROVE  /\ i \in DOMAIN server[k] /\ ~u.saved.byId[i].is_wip
                 /\ u.saved.byId[i].ver <= server[k][i].ver /\ Once(u.saved, i)
                 /\ k = "transaction" => Room(u, u.saved.byId[i])
      <4>1. CASE i = a
        <5>1. u.saved.byId[i] = e /\ Once(u.saved, i)
          BY <3>1, <3>4, <4>1 DEF Changed
        <5> QED  BY SMTT(60), <1>2, <1>7, <3>3, <4>1, <5>1
      <4>2. CASE i # a
        <5>1. i \in Known(s.saved) /\ u.saved.byId[i] = s.saved.byId[i]
          BY <3>1, <3>5, <4>2 DEF Changed
        <5>2. Once(u.saved, i)
          BY ZenonT(60), <3>1, <3>4, <4>2, <5>1 DEF Changed
        <5> QED  BY ZenonT(60), <3>4, <5>1, <5>2
      <4> QED  BY ZenonT(60), <4>1, <4>2
    <3> QED  BY ZenonT(60), <1>4, <3>5 DEF SavedFits
  <2> QED  BY <2>1, <2>2
<1>10. Gone(s.wip, u.wip, id)
  <2>1. CASE s.status = "absent"
    BY ZenonT(60), <1>2, <1>3, <2>1, AbsentHas DEF Gone
  <2>2. CASE s.status # "absent"
    BY <1>3, <1>8, <2>2, RemoveIsGone
  <2> QED  BY SMTT(60), <2>1, <2>2
<1>11. /\ typed' = [i \in DOMAIN typed' |-> typed'[i]]
       /\ \A i : i # <<k, id>> => /\ i \in DOMAIN typed' <=> i \in DOMAIN typed
                                  /\ i \in DOMAIN typed => typed'[i] = typed[i]
       /\ <<k, id>> \notin raced => <<k, id>> \notin DOMAIN typed'
  <2> DEFINE gone == [i \in DOMAIN typed \ {<<k, id>>} |-> typed[i]]
  <2>0. typed' \in {typed, gone} /\ (<<k, id>> \notin raced /\ <<k, id>> \in DOMAIN typed => typed' = gone)
    BY DEF Untyped
  <2>1. typed = [i \in DOMAIN typed |-> typed[i]]
    BY <1>2, AbsentHas
  <2>2. PICK old, new : old = typed /\ new = typed'
    OBVIOUS
  <2>3. CASE new = old
    BY <2>0, <2>1, <2>2, <2>3
  <2>4. CASE new = [i \in DOMAIN old \ {<<k, id>>} |-> old[i]]
    BY <2>2, <2>4
  <2> QED  BY <2>0, <2>2, <2>3, <2>4
<1>12. DraftFits(n, k, id)
  BY ZenonT(60), <1>4, <1>10, <1>11 DEF DraftFits, Gone, EditsStayIn
<1>13. AnswerStep(n, k, id)
  <2>1. u.status = "absent" => Known(u.wip) = {} /\ Known(u.saved) = {}
    BY <1>2, <1>3, AbsentHas
  <2> QED  BY <1>2, <1>3, <1>4, <1>5, <1>9, <1>11, <1>12, <2>1 DEF AnswerStep
<1> QED
  BY <1>13, AnswerStepKeeps

LEMMA SaveAnsweredKeeps ==
  ASSUME Inv, NEW n \in DOMAIN reqs, SaveAnswered(n)
  PROVE  Inv'
<1>1. PICK r, k, id, s, u :
        /\ r = reqs[n] /\ k = r.of /\ id = r.id /\ s = slices[k]
        /\ u = IF k = "account" THEN A!saveFulfilled(s, id, r.answer, r.content)
               ELSE T!saveFulfilled(s, id, r.answer, r.content)
  OBVIOUS
<1>2. /\ r.kind = "save" /\ r.stage = "done" /\ Delivered(n) /\ SliceOf(k, u)
      /\ typed' = (IF <<k, id>> \in DOMAIN typed /\ Mine(k, id) = View(k, r.body)
                   THEN Untyped(k, id) ELSE typed)
      /\ UNCHANGED <<server, nav, counters>> /\ raced' = raced
  BY <1>1 DEF SaveAnswered
<1>3. k \in kinds /\ id \in Int
  BY <1>1, <1>2 DEF Inv, Typing, RequestType
<1>4. ASSUME <<k, id>> \notin raced, <<k, id>> \in DOMAIN typed PROVE Mine(k, id) = View(k, r.body)
  <2>1. EditsStayIn(k, id)
    BY <1>3, <1>4 DEF Inv, DraftsStay
  <2>2. id \in Known(s.wip) /\ View(k, s.wip.byId[id]) = Mine(k, id)
    BY <1>1, <1>4, <2>1 DEF EditsStayIn
  <2>3. joined
    BY <1>1, <1>3, <2>2, AbsentHas
  <2>4. s.wip.byId[id] = r.body
    BY <1>1, <1>2, <1>4, <2>3 DEF Inv, OneDue, OneDueFor
  <2> QED  BY <2>2, <2>4
<1> QED
  BY <1>1, <1>2, <1>4, SavedAnswered

LEMMA DeleteAnsweredKeeps ==
  ASSUME Inv, NEW n \in DOMAIN reqs, DeleteAnswered(n)
  PROVE  Inv'
<1>1. PICK r, k, id, s, t :
        /\ r = reqs[n] /\ k = r.of /\ id = r.id /\ s = slices[k] /\ t = r.content
  OBVIOUS
<1>2. PICK u : u = IF k = "account" THEN A!deleteFulfilled(s, id, t) ELSE T!deleteFulfilled(s, id, t)
  OBVIOUS
<1>3. /\ r.kind = "delete" /\ r.stage = "done" /\ Delivered(n) /\ SliceOf(k, u)
      /\ typed' = Untyped(k, id)
      /\ UNCHANGED <<server, nav, counters>> /\ raced' = raced
  BY <1>1, <1>2 DEF DeleteAnswered
<1>4. r.answer = id
  BY <1>1, <1>3 DEF Inv, Asked, AskedBy
<1>5. u = IF k = "account" THEN A!saveFulfilled(s, id, r.answer, t)
          ELSE T!saveFulfilled(s, id, r.answer, t)
  BY <1>2, <1>4, DeletedIsAnswered
<1> QED
  BY <1>1, <1>3, <1>5, SavedAnswered

Recurrencied(t, x) == [t EXCEPT !.fields.currency = x]

LEMMA RecurrenciedView ==
  ASSUME NEW f, NEW S, NEW x
  PROVE  Recurrencied([fields |-> f, items |-> S], x)
           = [fields |-> [f EXCEPT !.currency = x], items |-> S]
BY DEF Recurrencied

LEMMA RecurrenciedIs ==
  ASSUME NEW t \in TransactionDraft, NEW x \in Int, NEW e, e = Recurrencied(t, x)
  PROVE  /\ e \in TransactionDraft /\ e.is_wip = t.is_wip
         /\ View("transaction", e) = Recurrencied(View("transaction", t), x)
         /\ e.positions = t.positions /\ e.files = t.files
<1>1. /\ e \in TransactionDraft /\ e.is_wip = t.is_wip /\ e.fields = [t.fields EXCEPT !.currency = x]
      /\ e.positions = t.positions /\ e.files = t.files
  BY DEF Recurrencied, TransactionDraft, FieldsOf
<1>2. PICK S : S = Seen(t.positions) \cup Seen(t.files)
  OBVIOUS
<1>3. /\ View("transaction", e) = [fields |-> e.fields, items |-> S]
      /\ View("transaction", t) = [fields |-> t.fields, items |-> S]
  BY <1>1, <1>2, ViewIs
<1>4. View("transaction", e) = Recurrencied(View("transaction", t), x)
  BY ONLY <1>1, <1>3, RecurrenciedView
<1> QED
  BY ONLY <1>1, <1>4

\* The history after the push of a currency.
Repriced(f, item, x) ==
  IF item \in DOMAIN f THEN [f EXCEPT ![item].fields.currency = x] ELSE f

LEMMA RepricedIs ==
  ASSUME NEW f, f = [i \in DOMAIN f |-> f[i]], NEW item, NEW x, NEW g, g = Repriced(f, item, x)
  PROVE  /\ DOMAIN g = DOMAIN f /\ g = [i \in DOMAIN g |-> g[i]]
         /\ \A i \in DOMAIN f : i # item => g[i] = f[i]
         /\ item \in DOMAIN f => g[item] = Recurrencied(f[item], x)
<1>1. CASE item \in DOMAIN f
  <2>1. g = [f EXCEPT ![item] = Recurrencied(f[item], x)]
    BY <1>1 DEF Repriced, Recurrencied
  <2> HIDE DEF Recurrencied
  <2> QED  BY <1>1, <2>1
<1>2. CASE item \notin DOMAIN f
  BY <1>2 DEF Repriced
<1> QED
  BY <1>1, <1>2

LEMMA RateAnsweredKeeps ==
  ASSUME Inv, NEW n \in DOMAIN reqs, RateAnswered(n)
  PROVE  Inv'
<1>1. PICK r, id, s, t, u, x, g :
        /\ r = reqs[n] /\ id = r.id /\ s = slices["transaction"] /\ x = r.stamp
        /\ t = Recurrencied(r.body, x) /\ u = T!wipUpdated(s, id, t)
        /\ g = Repriced(typed, <<"transaction", id>>, x)
  OBVIOUS
<1> DEFINE k == "transaction"
           item == <<k, id>>
<1>2. /\ r.kind = "rates" /\ Delivered(n) /\ SliceOf(r.of, T!wipUpdated(slices[r.of], id, t))
      /\ typed' = Repriced(typed, <<r.of, id>>, x)
      /\ UNCHANGED <<server, nav, counters>> /\ raced' = raced
  BY <1>1 DEF RateAnswered, Recurrencied, Repriced
<1>3. /\ r.of = k /\ k \in kinds /\ k \in Kinds /\ s \in Slice(k) /\ id \in Int /\ x \in Int
      /\ r.body \in Entity(k) /\ r.body.is_wip /\ IdOf(k, id)
      /\ r.body \in TransactionDraft /\ s \in TransactionState
  BY <1>1, <1>2 DEF Inv, Typing, Fits, RequestType, Asked, AskedBy, Kinds, Slice, Entity
<1>4. SliceOf(k, u) /\ typed' = g
  BY <1>1, <1>2, <1>3
<1>5. OthersSame(k) /\ slices'[k] = u
  BY <1>3, <1>4, SliceSet DEF Inv
<1>6. /\ RequestEnds(n)
      /\ \A m \in DOMAIN reqs' : reqs'[m].of = k /\ r.kind # "rates" => reqs'[m].overtaken
  BY <1>1, <1>2, <1>3, DeliveredEnds DEF Inv
<1>7. /\ t \in TransactionDraft /\ t.is_wip
      /\ View(k, t) = Recurrencied(View(k, r.body), x)
      /\ t.positions = r.body.positions /\ t.files = r.body.files
  <2>1. r.body \in TransactionDraft /\ x \in Int /\ t = Recurrencied(r.body, x) /\ r.body.is_wip
    BY <1>1, <1>3
  <2>2. PICK b : b = r.body
    OBVIOUS
  <2> QED  BY ONLY <2>1, <2>2, RecurrenciedIs
<1>8. /\ DOMAIN g = DOMAIN typed /\ g = [i \in DOMAIN g |-> g[i]]
      /\ \A i \in DOMAIN typed : i # item => g[i] = typed[i]
      /\ item \in DOMAIN typed => g[item] = Recurrencied(typed[item], x)
  <2>1. typed = [i \in DOMAIN typed |-> typed[i]]
    BY <1>3, AbsentHas
  <2> QED  BY <1>1, <2>1, RepricedIs
<1>9. s.status = "absent" => u = s
  BY <1>1 DEF T!wipUpdated, T!HasGroup
<1>10. s.status # "absent" =>
         /\ OnlyWip(k, s, u) /\ Changed(s.wip, u.wip, id, t)
         /\ u.nextPosition = s.nextPosition /\ u.nextFile = s.nextFile
  <2>1. t \in Entity(k) /\ u = IF k = "account" THEN A!wipUpdated(s, id, t) ELSE T!wipUpdated(s, id, t)
    BY <1>1, <1>7 DEF Entity
  <2> QED  BY <1>3, <1>7, <2>1, WipUpdated
<1>11. /\ u \in Slice(k) /\ Lower(k, s, u) /\ u.saved = s.saved /\ u.nextId = s.nextId
       /\ u.status = s.status
  <2>1. CASE s.status = "absent"
    BY <1>3, <1>9, <2>1, LowerSame
  <2>2. CASE s.status # "absent"
    BY <1>10, <2>2 DEF OnlyWip
  <2> QED  BY <2>1, <2>2
<1>12. SavedFits(k)
  BY <1>1, <1>3, <1>5, <1>11, SavedSame
<1>13. DraftFits(n, k, id)
  <2>1. CASE s.status = "absent"
    <3>1. Known(slices[k].wip) = {} /\ slices'[k] = slices[k]
      BY <1>1, <1>3, <1>5, <1>9, <2>1, AbsentHas
    <3>2. item \notin raced => EditsStayIn(k, id)
      BY <1>3 DEF Inv, DraftsStay
    <3>3. item \notin raced' => EditsStayIn(k, id)'
      <4> SUFFICES ASSUME item \notin raced PROVE EditsStayIn(k, id)'
        BY <1>2
      <4>1. item \notin DOMAIN typed
        BY <3>1, <3>2 DEF EditsStayIn
      <4>2. item \notin DOMAIN typed'
        BY SMTT(60), <1>4, <1>8, <4>1
      <4> QED  BY <3>1, <4>2 DEF EditsStayIn
    <3> QED  BY <1>1, <1>2, <3>1, <3>3 DEF DraftFits
  <2>2. CASE s.status # "absent"
    <3>1. Changed(s.wip, u.wip, id, t) /\ u.nextPosition = s.nextPosition /\ u.nextFile = s.nextFile
      BY <1>10, <2>2
    <3>2. /\ Known(u.wip) = Known(s.wip) \cup {id} /\ u.wip.byId[id] = t
          /\ \A i \in Known(s.wip) \ {id} : u.wip.byId[i] = s.wip.byId[i]
          /\ \A y : Once(s.wip, y) /\ (y = id => id \in Known(s.wip)) => Once(u.wip, y)
      BY <3>1 DEF Changed
    <3>3. Room(u, t)
      <4>1. Room(s, r.body)
        BY <1>1, <1>2, <1>3 DEF Inv, Roomy
      <4> QED  BY <1>7, <3>1, <4>1 DEF Room
    <3>4. ASSUME item \notin raced
          PROVE  /\ id \in Known(s.wip) /\ s.wip.byId[id] = r.body /\ Once(s.wip, id)
                 /\ EditsStayIn(k, id)
      <4>1. joined
        <5>1. ~joined => s.status = "absent"
          BY <1>1, <1>3, AbsentHas
        <5> QED  BY <2>2, <5>1
      <4>2. id \in Known(s.wip) /\ s.wip.byId[id] = r.body
        BY <1>1, <1>2, <1>3, <3>4, <4>1 DEF Inv, OneDue, OneDueFor
      <4> QED  BY <1>1, <1>3, <3>4, <4>2 DEF Inv, Listed, ListedIn, DraftsStay
    <3>5. item \notin raced' => EditsStayIn(k, id)'
      <4> SUFFICES ASSUME item \notin raced PROVE EditsStayIn(k, id)'
        BY <1>2
      <4>1. id \in Known(s.wip) /\ s.wip.byId[id] = r.body /\ EditsStayIn(k, id)
        BY <3>4
      <4>2. item \in DOMAIN typed /\ View(k, r.body) = typed[item]
        BY <1>1, <4>1 DEF EditsStayIn, Mine
      <4>3. item \in DOMAIN typed' /\ typed'[item] = View(k, t)
        BY <1>4, <1>7, <1>8, <4>2
      <4>4. id \in Known(slices'[k].wip) /\ View(k, slices'[k].wip.byId[id]) = View(k, t)
        BY <1>5, <3>2
      <4> QED  BY <4>3, <4>4 DEF EditsStayIn, Mine
    <3> QED  BY <1>1, <1>2, <1>3, <1>5, <1>7, <3>2, <3>3, <3>4, <3>5 DEF DraftFits
  <2> QED  BY <2>1, <2>2
<1>14. AnswerStep(n, k, id)
  <2>1. u.status = "absent" => Known(u.wip) = {} /\ Known(u.saved) = {}
    BY <1>1, <1>3, <1>9, <1>11, AbsentHas
  <2>2. \A i : i # item => /\ i \in DOMAIN typed' <=> i \in DOMAIN typed
                           /\ i \in DOMAIN typed => typed'[i] = typed[i]
    BY <1>4, <1>8
  <2> QED  BY <1>1, <1>2, <1>3, <1>4, <1>5, <1>6, <1>8, <1>11, <1>12, <1>13, <2>1, <2>2 DEF AnswerStep
<1> QED
  BY <1>14, AnswerStepKeeps

LEMMA FailedIs ==
  ASSUME NEW k \in Kinds, NEW s \in Slice(k),
         NEW u, u = IF k = "account" THEN A!fetchRejected(s) ELSE T!fetchRejected(s)
  PROVE  /\ u \in Slice(k) /\ u.saved = s.saved /\ u.wip = s.wip /\ u.nextId = s.nextId
         /\ Lower(k, s, u)
         /\ u.status = IF s.status = "absent" THEN "absent" ELSE "failed"
BY RejectedIs DEF Rejected

LEMMA WithoutEnds ==
  ASSUME Typing, NEW n \in DOMAIN reqs, reqs' = Without(reqs, n)
  PROVE  RequestEnds(n)
<1>1. \A m \in DOMAIN reqs : reqs[m] \in RequestType
  BY DEF Typing
<1>2. \A r \in RequestType : SameRequest(r, r)
  BY DEF SameRequest
<1>3. PICK old, new : old = reqs /\ new = reqs'
  OBVIOUS
<1>4. new = [m \in DOMAIN old \ {n} |-> old[m]]
  BY <1>3 DEF Without
<1>5. /\ DOMAIN new = DOMAIN old \ {n} /\ new = [m \in DOMAIN new |-> new[m]]
      /\ \A m \in DOMAIN new : new[m] = old[m]
  BY ONLY <1>4
<1> QED
  BY <1>1, <1>2, <1>3, <1>5 DEF RequestEnds

LEMMA FailsKeeps ==
  ASSUME Inv, NEW n \in DOMAIN reqs, Fails(n)
  PROVE  Inv'
<1>1. PICK r, k, id : r = reqs[n] /\ k = r.of /\ id = r.id
  OBVIOUS
<1>2. /\ r.kind # "rates" /\ (r.kind = "load" => r.stage = "sent") /\ reqs' = Without(reqs, n)
      /\ r.kind # "load" => slices' = slices
      /\ raced \subseteq raced'
      /\ r.kind = "save" /\ r.stage = "done" => <<k, id>> \in raced'
      /\ UNCHANGED <<server, nav, counters>> /\ typed' = typed
  BY <1>1 DEF Fails
<1>3. /\ id \in Int /\ (k \in kinds \/ r.kind = "leave") /\ (r.kind = "leave" <=> k = "none")
      /\ r.stage \in {"sent", "done"} /\ "none" \notin kinds /\ DOMAIN slices = kinds
      /\ typed = [i \in DOMAIN typed |-> typed[i]]
  BY <1>1 DEF Inv, Typing, Fits, RequestType, Kinds
<1>4. RequestEnds(n)
  BY <1>2, WithoutEnds DEF Inv
<1>5. /\ OthersSame(k)
      /\ k \in kinds =>
           /\ slices'[k] \in Slice(k) /\ Lower(k, slices[k], slices'[k])
           /\ slices'[k].saved = slices[k].saved /\ slices'[k].wip = slices[k].wip
           /\ slices'[k].nextId = slices[k].nextId
           /\ slices'[k].status = "absent" <=> slices[k].status = "absent"
           /\ slices'[k].status = "loading" => slices[k].status = "loading" /\ r.kind # "load"
  <2>1. CASE r.kind = "load"
    <3>1. k \in kinds /\ k \in Kinds /\ slices[k] \in Slice(k)
      BY <1>3, <2>1, AbsentHas
    <3>2. PICK s, u : s = slices[k] /\ u = IF k = "account" THEN A!fetchRejected(s)
                                             ELSE T!fetchRejected(s)
      OBVIOUS
    <3>3. SliceOf(k, u)
      BY <1>1, <2>1, <3>2 DEF Fails
    <3>4. OthersSame(k) /\ slices'[k] = u
      BY <3>1, <3>3, SliceSet DEF Inv
    <3>5. /\ u \in Slice(k) /\ u.saved = s.saved /\ u.wip = s.wip /\ u.nextId = s.nextId
          /\ Lower(k, s, u)
          /\ u.status = IF s.status = "absent" THEN "absent" ELSE "failed"
      BY <3>1, <3>2, FailedIs
    <3> QED  BY <3>2, <3>4, <3>5
  <2>2. CASE r.kind # "load"
    <3>1. OthersSame(k)
      BY <1>2, <1>3, <2>2 DEF OthersSame
    <3>2. k \in kinds => slices[k] \in Slice(k) /\ k \in Kinds /\ Lower(k, slices[k], slices[k])
      BY AbsentHas, LowerSame
    <3> QED  BY <1>2, <2>2, <3>1, <3>2
  <2> QED  BY <2>1, <2>2
<1>6. k \in kinds => SavedFits(k) /\ DraftFits(n, k, id)
  <2> SUFFICES ASSUME k \in kinds PROVE SavedFits(k) /\ DraftFits(n, k, id)
    OBVIOUS
  <2>1. SavedFits(k)
    BY <1>5, SavedSame
  <2>2. DraftFits(n, k, id)
    BY <1>1, <1>2, <1>3, <1>5, WipSame
  <2> QED  BY <2>1, <2>2
<1>7. AnswerStep(n, k, id)
  <2>1. k \in kinds /\ slices'[k].status = "absent" =>
          Known(slices'[k].wip) = {} /\ Known(slices'[k].saved) = {}
    BY <1>5, AbsentHas
  <2> QED  BY <1>1, <1>2, <1>3, <1>4, <1>5, <1>6, <2>1 DEF AnswerStep
<1> QED
  BY <1>7, AnswerStepKeeps

-----------------------------------------------------------------------------
(* The next state, and what happens to what is saved.                       *)
SavedStays == \A k \in kinds : slices'[k].saved = slices[k].saved

LEMMA DraftStepBoth ==
  ASSUME Inv, NEW k, NEW id, DraftStep(k, id)
  PROVE  Inv' /\ SavedStays
<1>1. Inv'
  BY DraftStepKeeps
<1>2. SavedStays
  BY DEF DraftStep, OthersSame, SavedStays
<1> QED
  BY <1>1, <1>2

LEMMA VisitBoth ==
  ASSUME Inv, Depart \/ Return \/ Reload \/ Leave
  PROVE  Inv' /\ SavedStays
<1>1. CASE Depart
  BY <1>1, VisitKeeps DEF Depart, SavedStays
<1>2. CASE Return
  BY <1>2, VisitKeeps DEF Return, SavedStays, Inv, Typing, Visit, counters
<1>3. CASE Reload
  BY <1>3, ReloadKeeps DEF Reload, SavedStays
<1>4. CASE Leave
  BY <1>4, AskToLeaveKeeps DEF Leave, SavedStays
<1> QED
  BY <1>1, <1>2, <1>3, <1>4

LEMMA EditTransactionBoth ==
  ASSUME Inv, "transaction" \in kinds, NEW id, EditTransaction(id)
  PROVE  Inv' /\ SavedStays
<1>1. CASE AskRate(id)
  BY <1>1, AskRateKeeps DEF AskRate, SavedStays
<1>2. CASE ~AskRate(id)
  <2>1. Editing("transaction", id)
    BY <1>2 DEF EditTransaction
  <2>2. DraftStep("transaction", id)
    <3>1. ASSUME NEW p \in Rows(id) \cup {Tx.nextPosition}, EditRow(id, p)
          PROVE  DraftStep("transaction", id)
      BY <2>1, <3>1, EditRowStep
    <3>2. ASSUME NEW p \in Rows(id), AddRow(id, RowIs(id, p)) PROVE DraftStep("transaction", id)
      <4>1. RowIs(id, p) \in Int
        BY <2>1, ItemTypes
      <4>2. PICK what : what = RowIs(id, p)
        OBVIOUS
      <4> QED  BY <2>1, <3>2, <4>1, <4>2, AddRowStep
    <3>3. ASSUME NEW p \in Rows(id), DeleteRow(id, p) PROVE DraftStep("transaction", id)
      BY <2>1, <3>3, DeleteRowStep
    <3>4. ASSUME AddRow(id, Blank) PROVE DraftStep("transaction", id)
      <4>1. Blank \in Int
        BY <2>1, ItemTypes
      <4>2. PICK what : what = Blank
        OBVIOUS
      <4> QED  BY <2>1, <3>4, <4>1, <4>2, AddRowStep
    <3>5. ASSUME Upload(id) PROVE DraftStep("transaction", id)
      BY <2>1, <3>5, UploadStep
    <3>6. ASSUME NEW f \in Files(id), DeleteFile(id, f) PROVE DraftStep("transaction", id)
      BY <2>1, <3>6, DeleteFileStep
    <3> QED  BY <1>2, <3>1, <3>2, <3>3, <3>4, <3>5, <3>6 DEF EditTransaction
  <2> QED  BY <2>2, DraftStepBoth
<1> QED
  BY <1>1, <1>2

LEMMA UserBoth ==
  ASSUME Inv, User
  PROVE  Inv' /\ SavedStays
<1>1. CASE Depart \/ Return \/ Reload \/ Leave
  BY <1>1, VisitBoth
<1>2. ASSUME NEW k \in kinds, Create(k) PROVE Inv' /\ SavedStays
  BY <1>2, CreateStep, DraftStepBoth
<1>3. ASSUME "account" \in kinds, NEW id \in Kept("account"), CopyAccount(id)
      PROVE  Inv' /\ SavedStays
  BY <1>3, CopyStep, DraftStepBoth
<1>4. ASSUME "transaction" \in kinds, NEW id \in Kept("transaction"), EditTransaction(id)
      PROVE  Inv' /\ SavedStays
  BY <1>4, EditTransactionBoth
<1>5. ASSUME NEW k \in kinds, NEW id \in Kept(k), On(k, id),
             StartEdit(k, id) \/ EditField(k, id) \/ Save(k, id) \/ Discard(k, id) \/ Delete(k, id)
      PROVE  Inv' /\ SavedStays
  <2>1. CASE StartEdit(k, id)
    BY <2>1, StartEditStep, DraftStepBoth
  <2>2. CASE EditField(k, id)
    BY <2>2, EditFieldStep, DraftStepBoth
  <2>3. CASE Save(k, id)
    BY <2>3, SaveKeeps DEF Save, SavedStays
  <2>4. CASE Discard(k, id)
    BY <1>5, <2>4, DroppedStep, DraftStepBoth
  <2>5. CASE Delete(k, id) /\ id \in Known(slices[k].saved)
    BY <2>5, DeleteKeeps DEF Delete, SavedStays
  <2>6. CASE Delete(k, id) /\ id \notin Known(slices[k].saved)
    BY <1>5, <2>6, DroppedStep, DraftStepBoth
  <2> QED  BY <1>5, <2>1, <2>2, <2>3, <2>4, <2>5, <2>6
<1> QED
  BY <1>1, <1>2, <1>3, <1>4, <1>5 DEF User

LEMMA MountBoth ==
  ASSUME Inv, MountGroup
  PROVE  Inv' /\ SavedStays
<1>1. Mounted
  BY MountIsMounted
<1>2. ASSUME NEW k \in kinds PROVE slices'[k].saved = slices[k].saved
  <2>1. PICK s, u : s = slices[k] /\ u = Pending(k, s)
    OBVIOUS
  <2>2. u.saved = s.saved
    BY <2>1, PendingIs, AbsentHas
  <2> QED  BY <1>1, <2>1, <2>2 DEF Mounted
<1> QED
  BY <1>1, <1>2, MountedKeeps DEF SavedStays

LEMMA NextInv ==
  ASSUME Inv, [Next]_vars
  PROVE  Inv'
<1>1. CASE UNCHANGED vars
  BY <1>1, VisitKeeps DEF vars, nav, counters, Inv, Typing, Visit
<1>2. CASE User \/ MountGroup
  BY <1>2, UserBoth, MountBoth
<1>3. ASSUME NEW k \in kinds, NEW id \in DOMAIN server[k], OtherWrites(k, id) PROVE Inv'
  BY <1>3, OtherWritesKeeps
<1>4. ASSUME NEW n \in Slots, Executed(n) PROVE Inv'
  BY <1>4, ExecuteKeeps DEF Executed
<1>5. ASSUME NEW n \in Slots, Answered(n) PROVE Inv'
  BY <1>5, LoadAnsweredKeeps, SaveAnsweredKeeps, DeleteAnsweredKeeps, RateAnsweredKeeps,
     LeaveKeeps, FailsKeeps DEF Answered
<1> QED
  BY <1>1, <1>2, <1>3, <1>4, <1>5 DEF Next

\* The answer to a save or a deletion puts what is stored in the place of what
\* was saved.
LEMMA SavedAnswer ==
  ASSUME Inv, NEW n \in DOMAIN reqs, reqs[n].kind \in {"save", "delete"}, reqs[n].stage = "done",
         NEW k, NEW s, NEW u, k = reqs[n].of, s = slices[k],
         u = (IF k = "account" THEN A!saveFulfilled(s, reqs[n].id, reqs[n].answer, reqs[n].content)
              ELSE T!saveFulfilled(s, reqs[n].id, reqs[n].answer, reqs[n].content)),
         ~reqs[n].overtaken, NEW id \in Known(s.saved)
  PROVE  id \in Known(u.saved) /\ u.saved.byId[id].ver >= s.saved.byId[id].ver
<1>1. PICK t, a, old : t = reqs[n].content /\ a = reqs[n].answer /\ old = reqs[n].id
  OBVIOUS
<1>2. /\ k \in kinds /\ k \in Kinds /\ s \in Slice(k) /\ t \in StoredEntity(k) /\ old \in Int
      /\ a \in Int
  BY <1>1 DEF Inv, Typing, Fits, RequestType
<1>3. s.status # "absent"
  BY <1>2, AbsentHas
<1>4. PICK e : e = FromServer(k, t)
  OBVIOUS
<1>5. u.saved = T!addEntity(s.saved, a, e)
  <2>1. u = IF k = "account" THEN A!saveFulfilled(s, old, a, t) ELSE T!saveFulfilled(s, old, a, t)
    BY <1>1
  <2> QED  BY ONLY <1>2, <1>3, <1>4, <2>1, Answered1
<1>6. e \in Entity(k) /\ e.ver = t.ver
  BY ONLY <1>2, <1>4, FromServerType
<1>7. s.saved \in Collection(Entity(k))
  BY <1>2, SliceParts
<1>8. /\ Known(u.saved) = Known(s.saved) \cup {a} /\ u.saved.byId[a] = e
      /\ \A i \in Known(s.saved) \ {a} : u.saved.byId[i] = s.saved.byId[i]
  <2>1. PICK c, d, E : c = s.saved /\ d = u.saved /\ E = Entity(k)
    OBVIOUS
  <2>2. c \in Collection(E) /\ a \in Int /\ e \in E /\ d = T!addEntity(c, a, e)
    BY <1>2, <1>5, <1>6, <1>7, <2>1
  <2>3. /\ Known(d) = Known(c) \cup {a} /\ d.byId[a] = e
        /\ \A i \in Known(c) \ {a} : d.byId[i] = c.byId[i]
    BY ONLY <2>2, AddKeeps
  <2> QED  BY <2>1, <2>3
<1>9. s.saved.byId[id].ver \in Nat /\ t.ver \in Nat
  <2>1. s.saved.byId[id] \in Entity(k)
    BY SMTT(60), <1>7, CollectionIs DEF Known
  <2> QED  BY <1>2, <1>6, <2>1, Entities1
<1>10. CASE id = a
  <2>1. s.saved.byId[id].ver <= t.ver
    BY SMTT(60), <1>1, <1>10 DEF Inv, Newer, NewerIs
  <2> QED  BY <1>6, <1>8, <1>9, <1>10, <2>1
<1>11. CASE id # a
  BY SMTT(60), <1>8, <1>9, <1>11
<1> QED
  BY <1>10, <1>11

LEMMA LoadAnswer ==
  ASSUME Inv, NEW n \in DOMAIN reqs, reqs[n].kind = "load", reqs[n].stage = "done",
         NEW k, NEW s, NEW u, k = reqs[n].of, s = slices[k],
         u = (IF k = "account" THEN A!fetchFulfilled(s, reqs[n].content)
              ELSE T!fetchFulfilled(s, reqs[n].content)),
         ~reqs[n].overtaken, NEW id \in Known(s.saved)
  PROVE  id \in Known(u.saved) /\ u.saved.byId[id].ver >= s.saved.byId[id].ver
<1>1. PICK list : list = reqs[n].content
  OBVIOUS
<1>2. k \in kinds /\ k \in Kinds /\ s \in Slice(k) /\ list \in Seq(StoredEntity(k))
  BY <1>1 DEF Inv, Typing, Fits
<1>3. s.status # "absent"
  BY <1>2, AbsentHas
<1>4. /\ Known(u.saved) = DOMAIN list
      /\ \A i \in DOMAIN list : u.saved.byId[i].ver = list[i].ver
  <2>1. u = IF k = "account" THEN A!fetchFulfilled(s, list) ELSE T!fetchFulfilled(s, list)
    BY <1>1
  <2> QED  BY ONLY <1>2, <1>3, <2>1, Fetched
<1>5. id \in DOMAIN list /\ s.saved.byId[id].ver <= list[id].ver
  BY <1>1 DEF Inv, Newer, NewerIs
<1>6. s.saved.byId[id].ver \in Nat
  <2>1. s.saved \in Collection(Entity(k))
    BY <1>2, SliceParts
  <2>2. s.saved.byId[id] \in Entity(k)
    BY <2>1, CollectionIs DEF Known
  <2> QED  BY <1>2, <2>2, Entities1
<1>7. list[id].ver \in Nat
  <2>1. DOMAIN list = 1..Len(list) /\ Len(list) \in Nat /\ list[id] \in StoredEntity(k)
    BY ONLY <1>2, <1>5, LenProperties, ElementOfSeq
  <2>2. \A t \in StoredEntity(k) : t.ver \in Nat
    BY <1>2 DEF StoredEntity, StoredAccount, StoredTransaction
  <2> QED  BY <2>1, <2>2
<1> QED
  BY <1>4, <1>5, <1>6, <1>7

LEMMA DeliveredLess ==
  ASSUME NEW n \in DOMAIN reqs, Delivered(n)
  PROVE  n \in DOMAIN reqs \ DOMAIN reqs'
BY DEF Delivered

\* What is saved of kind k is not older after the step, or is, by an answer that
\* was overtaken, or with the group.
SavedOnlyOn(k) == \A id \in Known(slices[k].saved) :
  \/ id \in Known(slices'[k].saved) /\ slices'[k].saved.byId[id].ver >= slices[k].saved.byId[id].ver
  \/ joined /\ ~joined'
  \/ \E n \in DOMAIN reqs \ DOMAIN reqs' : reqs[n].of = k /\ reqs[n].overtaken

LEMMA SameIsOn ==
  ASSUME Inv, NEW k \in kinds, slices'[k].saved = slices[k].saved
  PROVE  SavedOnlyOn(k)
<1>1. k \in Kinds /\ slices[k].saved \in Collection(Entity(k))
  BY AbsentHas, SliceParts
<1>2. ASSUME NEW id \in Known(slices[k].saved) PROVE slices[k].saved.byId[id].ver \in Nat
  <2>1. slices[k].saved.byId[id] \in Entity(k)
    BY <1>1, CollectionIs DEF Known
  <2> QED  BY <1>1, <2>1, Entities1
<1> QED
  BY <1>2 DEF SavedOnlyOn

LEMMA AnsweredIsOn ==
  ASSUME Inv, NEW n \in DOMAIN reqs, LoadAnswered(n) \/ SaveAnswered(n) \/ DeleteAnswered(n),
         NEW j \in kinds
  PROVE  SavedOnlyOn(j)
<1>1. PICK k, s, u :
        /\ k = reqs[n].of /\ s = slices[k]
        /\ u = IF reqs[n].kind = "load"
               THEN IF k = "account" THEN A!fetchFulfilled(s, reqs[n].content)
                    ELSE T!fetchFulfilled(s, reqs[n].content)
               ELSE IF k = "account" THEN A!saveFulfilled(s, reqs[n].id, reqs[n].answer, reqs[n].content)
                    ELSE T!saveFulfilled(s, reqs[n].id, reqs[n].answer, reqs[n].content)
  OBVIOUS
<1>2. /\ reqs[n].kind \in {"load", "save", "delete"} /\ reqs[n].stage = "done" /\ Delivered(n)
      /\ SliceOf(k, u)
  <2>1. CASE LoadAnswered(n)
    BY <1>1, <2>1 DEF LoadAnswered
  <2>2. CASE SaveAnswered(n)
    BY <1>1, <2>2 DEF SaveAnswered
  <2>3. CASE DeleteAnswered(n)
    <3>1. reqs[n].kind = "delete" /\ reqs[n].stage = "done" /\ Delivered(n)
      BY <2>3 DEF DeleteAnswered
    <3>2. reqs[n].answer = reqs[n].id
      BY <3>1 DEF Inv, Asked, AskedBy
    <3>3. u = IF k = "account" THEN A!deleteFulfilled(s, reqs[n].id, reqs[n].content)
              ELSE T!deleteFulfilled(s, reqs[n].id, reqs[n].content)
      BY <1>1, <3>1, <3>2, DeletedIsAnswered
    <3>4. SliceOf(k, u)
      BY <1>1, <2>3, <3>3 DEF DeleteAnswered
    <3> QED  BY <3>1, <3>4
  <2> QED  BY <2>1, <2>2, <2>3
<1>3. k \in kinds
  BY <1>1, <1>2 DEF Inv, Typing
<1>4. OthersSame(k) /\ slices'[k] = u
  BY <1>2, <1>3, SliceSet DEF Inv
<1>5. CASE j # k
  BY <1>4, <1>5, SameIsOn DEF OthersSame
<1>6. CASE j = k
  <2>1. CASE reqs[n].overtaken
    BY <1>1, <1>2, <1>6, <2>1, DeliveredLess DEF SavedOnlyOn
  <2>2. CASE ~reqs[n].overtaken
    <3> SUFFICES ASSUME NEW id \in Known(s.saved)
                 PROVE  id \in Known(u.saved) /\ u.saved.byId[id].ver >= s.saved.byId[id].ver
      BY <1>1, <1>4, <1>6 DEF SavedOnlyOn
    <3>1. CASE reqs[n].kind = "load"
      BY SMTT(60), <1>1, <1>2, <2>2, <3>1, LoadAnswer
    <3>2. CASE reqs[n].kind \in {"save", "delete"}
      BY <1>1, <1>2, <2>2, <3>2, SavedAnswer
    <3> QED  BY SMTT(60), <1>2, <3>1, <3>2
  <2> QED  BY <2>1, <2>2
<1> QED
  BY <1>5, <1>6

LEMMA OtherAnswersAreOn ==
  ASSUME Inv, NEW n \in DOMAIN reqs, RateAnswered(n) \/ LeaveAnswered(n) \/ Fails(n),
         NEW j \in kinds
  PROVE  SavedOnlyOn(j)
<1>1. PICK k, s : k = reqs[n].of /\ s = slices[k]
  OBVIOUS
<1>2. k \in kinds => k \in Kinds /\ s \in Slice(k)
  BY <1>1, AbsentHas
<1>3. j \in Kinds /\ slices[j] \in Slice(j) /\ (~joined => Known(slices[j].saved) = {})
  BY AbsentHas
<1>4. CASE RateAnswered(n)
  <2>1. PICK t, u : /\ t = [reqs[n].body EXCEPT !.fields.currency = reqs[n].stamp]
                    /\ u = T!wipUpdated(s, reqs[n].id, t)
    OBVIOUS
  <2>2. SliceOf(k, u) /\ k \in kinds /\ k = "transaction"
    BY <1>1, <1>4, <2>1 DEF RateAnswered, Inv, Typing, Fits
  <2>3. OthersSame(k) /\ slices'[k] = u
    BY <2>2, SliceSet DEF Inv
  <2>4. u.saved = s.saved
    BY <1>2, <2>1, <2>2 DEF T!wipUpdated, Slice, TransactionState
  <2> QED  BY <1>1, <2>3, <2>4, SameIsOn DEF OthersSame
<1>5. CASE LeaveAnswered(n)
  BY <1>3, <1>5 DEF LeaveAnswered, SavedOnlyOn
<1>6. CASE Fails(n)
  <2>1. CASE reqs[n].kind = "load"
    <3>1. PICK u : u = IF k = "account" THEN A!fetchRejected(s) ELSE T!fetchRejected(s)
      OBVIOUS
    <3>2. SliceOf(k, u) /\ k \in kinds
      BY <1>1, <1>6, <2>1, <3>1 DEF Fails, Inv, Typing
    <3>3. OthersSame(k) /\ slices'[k] = u
      BY <3>2, SliceSet DEF Inv
    <3>4. u.saved = s.saved
      BY <1>2, <3>1, <3>2, FailedIs
    <3> QED  BY <1>1, <3>3, <3>4, SameIsOn DEF OthersSame
  <2>2. CASE reqs[n].kind # "load"
    BY <1>6, <2>2, SameIsOn DEF Fails
  <2> QED  BY <2>1, <2>2
<1> QED
  BY <1>4, <1>5, <1>6

LEMMA NextIsOn ==
  ASSUME Inv, [Next]_vars, NEW k \in kinds
  PROVE  SavedOnlyOn(k)
<1>1. CASE UNCHANGED vars
  BY <1>1, SameIsOn DEF vars
<1>2. CASE User \/ MountGroup
  BY <1>2, UserBoth, MountBoth, SameIsOn DEF SavedStays
<1>3. ASSUME NEW j \in kinds, NEW id \in DOMAIN server[j], OtherWrites(j, id) PROVE SavedOnlyOn(k)
  BY SMTT(60), <1>3, SameIsOn DEF OtherWrites
<1>4. ASSUME NEW n \in Slots, Executed(n) PROVE SavedOnlyOn(k)
  BY <1>4, SameIsOn DEF Executed, Execute
<1>5. ASSUME NEW n \in Slots, Answered(n) PROVE SavedOnlyOn(k)
  BY <1>5, AnsweredIsOn, OtherAnswersAreOn DEF Answered
<1> QED
  BY <1>1, <1>2, <1>3, <1>4, <1>5 DEF Next

-----------------------------------------------------------------------------
(* The properties.                                                          *)
LEMMA OnceIsOne ==
  ASSUME NEW c, NEW id, Once(c, id)
  PROVE  Cardinality({i \in DOMAIN c.ids : c.ids[i] = id}) = 1
<1>1. PICK i \in DOMAIN c.ids : c.ids[i] = id /\ \A j \in DOMAIN c.ids : c.ids[j] = id => i = j
  BY DEF Once
<1>2. {j \in DOMAIN c.ids : c.ids[j] = id} = {i}
  BY <1>1
<1> QED
  BY <1>2, FS_Singleton

LEMMA ListedIs ==
  ASSUME Inv
  PROVE  SlicesListed
<1> SUFFICES ASSUME NEW k \in kinds
             PROVE  /\ T!ListedOnce(slices[k].saved)
                    /\ \A id \in Known(slices[k].wip) : <<k, id>> \notin raced =>
                         Cardinality({i \in DOMAIN slices[k].wip.ids : slices[k].wip.ids[i] = id}) = 1
                    /\ \A i \in DOMAIN slices[k].wip.ids : slices[k].wip.ids[i] \in Known(slices[k].wip)
  BY DEF SlicesListed
<1>1. PICK c, w : c = slices[k].saved /\ w = slices[k].wip
  OBVIOUS
<1>2. c \in Collection(Entity(k)) /\ w \in Collection(Entity(k))
  BY <1>1, AbsentHas, SliceParts
<1>3. \A i \in DOMAIN c.ids : c.ids[i] \in Known(c)
  BY <1>2 DEF Collection, Known
<1>4. \A i \in DOMAIN w.ids : w.ids[i] \in Known(w)
  BY <1>2 DEF Collection, Known
<1>5. \A id \in Known(c) : Once(c, id)
  BY <1>1 DEF Inv, Listed, ListedIn
<1>6. \A id \in Known(w) : <<k, id>> \notin raced => Once(w, id)
  BY <1>1 DEF Inv, Listed, ListedIn
<1>7. T!ListedOnce(c)
  BY <1>3, <1>5 DEF T!ListedOnce, T!Known, Known, Once
<1>8. \A id \in Known(w) : <<k, id>> \notin raced =>
        Cardinality({i \in DOMAIN w.ids : w.ids[i] = id}) = 1
  BY <1>6, OnceIsOne
<1> QED
  BY <1>1, <1>4, <1>7, <1>8

LEMMA OnceStored ==
  ASSUME Inv
  PROVE  OneOfEach
<1> SUFFICES ASSUME NEW k \in kinds, NEW i \in DOMAIN server[k],
                    <<k, server[k][i].origin>> \notin raced
             PROVE  /\ \A j \in DOMAIN server[k] : server[k][i].origin = server[k][j].origin => i = j
                    /\ server[k][i].origin \in Known(slices[k].wip) => Due(k, server[k][i].origin)
  BY DEF OneOfEach
<1>1. OriginIs(k, i)
  BY DEF Inv, Origins
<1> QED
  BY <1>1 DEF OriginIs, Due

(***************************************************************************)
(* The invariant the properties below rest on holds in every state: the    *)
(* types of slices, requests and server, what may be under which id, what  *)
(* the requests and answers under way say of what is stored and shown, and *)
(* what each draft in no race has to do with them.                         *)
(***************************************************************************)
THEOREM Inductive == Spec => []Inv
<1>1. Init => Inv
  BY InitInv
<1>2. Inv /\ [Next]_vars => Inv'
  BY NextInv
<1> QED
  BY <1>1, <1>2, PTL DEF Spec

(***************************************************************************)
(* The page of the group never shows that it loads with no answer under    *)
(* way that ends this: its effect asks for both lists whatever is there,   *)
(* and a reload runs it again (Group.tsx).                                 *)
(***************************************************************************)
THEOREM NeverLoadsForNothing == Spec => []LoadingIsAnswered
<1>1. Inv => LoadingIsAnswered
  BY DEF Inv
<1> QED
  BY <1>1, Inductive, PTL

(***************************************************************************)
(* What a slice holds is listed, and once: the list of ids and the objects *)
(* by id agree under addEntity, removeEntity and the three reducers that   *)
(* push ids themselves, but for drafts that were raced.                    *)
(***************************************************************************)
THEOREM ListsMatch == Spec => []SlicesListed
<1>1. Inv => SlicesListed
  BY ListedIs
<1> QED
  BY <1>1, Inductive, PTL

(***************************************************************************)
(* A draft holds what its user left in it until it is saved, discarded or  *)
(* deleted: only an answer that was due when the user went on with it, or  *)
(* one that was lost, has it otherwise.                                    *)
(***************************************************************************)
THEOREM DraftsAreKept == Spec => []EditsLostOnlyByRace
<1>1. Inv => EditsLostOnlyByRace
  BY DEF Inv, DraftsStay, EditsLostOnlyByRace, Ids
<1> QED
  BY <1>1, Inductive, PTL

(***************************************************************************)
(* A draft is stored once, and gone from the drafts when the answer has    *)
(* come, unless it was saved a second time before the first answer.        *)
(***************************************************************************)
THEOREM StoredOnce == Spec => []OneOfEach
<1>1. Inv => OneOfEach
  BY OnceStored
<1> QED
  BY <1>1, Inductive, PTL

(***************************************************************************)
(* What the store holds as saved goes back to an older version, or goes,   *)
(* only by an answer that was due when a later one came, or with the       *)
(* group: answers are put in the store in the order in which they come.    *)
(***************************************************************************)
THEOREM OnlyOvertakenGoesBack == Spec => BackOnlyByOvertaking
<1> DEFINE On1 == \A k \in kinds : \A id \in Known(slices[k].saved) :
      \/ id \in Known(slices'[k].saved) /\ slices'[k].saved.byId[id].ver >= slices[k].saved.byId[id].ver
      \/ joined /\ ~joined'
      \/ \E n \in DOMAIN reqs \ DOMAIN reqs' : reqs[n].of = k /\ reqs[n].overtaken
<1>1. Inv /\ [Next]_vars => [On1]_vars
  BY NextIsOn DEF SavedOnlyOn
<1> HIDE DEF On1
<1>2. Spec => [][On1]_vars
  BY <1>1, Inductive, PTL DEF Spec
<1> QED
  BY <1>2 DEF BackOnlyByOvertaking, On1
=============================================================================
