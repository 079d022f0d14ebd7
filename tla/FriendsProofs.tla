--------------------------- MODULE FriendsProofs ----------------------------
(***************************************************************************)
(* What is proved of Friends, for every number of calls at a time and of   *)
(* rows over time: the two safety properties the run friends checks.       *)
(***************************************************************************)
EXTENDS Friends, FiniteSetTheorems, TLAPS

Ops == {"send", "accept", "dismiss", "remove", "quick", "read", "done"}
Steps == {"called", "found", "done", "friends", "incoming", "outgoing", "read"}
Waiters == {"adding", "busy", "quick", "store", "left", "nobody"}
Ids == Nat \cup {None}
Row == [id : Nat, from : Users, accepted : BOOLEAN]
Overviews == [friend : BOOLEAN, incoming : Ids, outgoing : Ids]
Record == [by : Users, op : Ops, id : Ids, for : Waiters, ok : BOOLEAN, read : Overviews,
           step : Steps]

Typed ==
  /\ row \in Row \cup {None} /\ serial \in Nat
  /\ agreed \subseteq Users /\ hollow \subseteq Users
  /\ calls \in [Calls -> Record \cup {None}]
  /\ shown \in Overviews \cup {None}

\* A request that was found is no newer than the last row, and not from the one
\* who answers it.
Found(q) == q.step = "found" /\ q.id # None =>
              q.id <= serial /\ (row # None /\ row.id = q.id => row.from # q.by)
FoundInv ==
  /\ row # None => row.id <= serial
  /\ \A c \in Calls : calls[c] # None => Found(calls[c])

\* Who has asked, and did not answer a request that was gone, is the one whose
\* request lies there.
AskedInv ==
  /\ row = None => agreed \subseteq hollow
  /\ Open => agreed \subseteq hollow \cup {row.from}

Inv == Typed /\ FoundInv /\ AskedInv

\* A step that leaves the pair alone, and finds nothing.
Quiet ==
  /\ UNCHANGED pairVars
  /\ calls' \in [Calls -> Record \cup {None}]
  /\ shown' \in Overviews \cup {None}
  /\ \A c \in Calls : calls'[c] # None /\ calls'[c].step = "found" =>
       /\ calls[c] # None /\ calls[c].step = "found"
       /\ calls'[c].by = calls[c].by /\ calls'[c].id = calls[c].id

-----------------------------------------------------------------------------
(* Calls. *)

LEMMA NothingTyped == Nothing \in Overviews
  BY DEF Nothing, Overviews, Ids

LEMMA CallTyped ==
  ASSUME NEW u \in Users, NEW op \in Ops, NEW id \in Ids, NEW w \in Waiters
  PROVE  /\ Call(u, op, id, w) \in Record
         /\ Call(u, op, id, w).step # "found"
         /\ Call(u, op, id, w).step \in {"called", "friends"}
  BY NothingTyped DEF Call, Record, Steps

LEMMA StepField ==
  ASSUME NEW q \in Record, NEW s \in Steps
  PROVE  LET a == [q EXCEPT !.step = s]
         IN  a \in Record /\ a.step = s /\ a.by = q.by /\ a.id = q.id /\ a.for = q.for
  BY DEF Record

LEMMA ForField ==
  ASSUME NEW q \in Record, NEW w \in Waiters
  PROVE  LET a == [q EXCEPT !.for = w]
         IN  a \in Record /\ a.step = q.step /\ a.by = q.by /\ a.id = q.id
  BY DEF Record

LEMMA IdField ==
  ASSUME NEW q \in Record, NEW id \in Ids
  PROVE  LET a == [q EXCEPT !.id = id]
         IN  a \in Record /\ a.step = q.step /\ a.by = q.by /\ a.id = id
  BY DEF Record

LEMMA OkField ==
  ASSUME NEW q \in Record, NEW b \in BOOLEAN
  PROVE  LET a == [q EXCEPT !.ok = b]
         IN  a \in Record /\ a.step = q.step /\ a.by = q.by /\ a.id = q.id
  BY DEF Record

\* A finished call is gone, or waits to be answered.
LEMMA Finished ==
  ASSUME Typed, NEW c \in Calls, calls[c] # None, NEW ok \in BOOLEAN, Finish(c, ok)
  PROVE  /\ calls' \in [Calls -> Record \cup {None}]
         /\ calls'[c] # None => calls'[c].step = "done"
         /\ \A d \in Calls : d # c => calls'[d] = calls[d]
<1> DEFINE q == calls[c]
<1>1. q \in Record
  BY DEF Typed
<1>2. q.by \in Users /\ q.for \in Waiters
  BY <1>1 DEF Record
<1> DEFINE r == Call(q.by, "done", None, q.for)
<1>3. r \in Record
  BY <1>2, CallTyped DEF Ops, Ids
<1> HIDE DEF r
<1> DEFINE s == [r EXCEPT !.step = "done"]
<1>4. s \in Record /\ s.step = "done"
  BY <1>3, StepField DEF Steps
<1>5. [r EXCEPT !.step = "done", !.ok = ok] = [s EXCEPT !.ok = ok]
  BY <1>3 DEF Record
<1> HIDE DEF s
<1> DEFINE t == [s EXCEPT !.ok = ok]
<1>6. t \in Record /\ t.step = "done"
  BY <1>4, OkField
<1>7. calls' = [calls EXCEPT ![c] = IF q.for = "nobody" THEN None ELSE t]
  BY <1>5 DEF Finish, r, Typed
<1> HIDE DEF t, q
<1> QED
  BY <1>6, <1>7 DEF Typed

LEMMA QuietKeeps ==
  ASSUME Inv, Quiet
  PROVE  Inv'
<1>1. Typed'
  BY DEF Inv, Typed, Quiet, pairVars
<1>2. FoundInv'
  BY DEF Inv, FoundInv, Found, Quiet, pairVars
<1>3. AskedInv'
  BY DEF Inv, AskedInv, Open, Quiet, pairVars
<1> QED
  BY <1>1, <1>2, <1>3 DEF Inv

\* A refusal changes nothing, and finds nothing.
LEMMA RefusalQuiet ==
  ASSUME Inv, NEW c \in Calls, calls[c] # None, Refuse(c), UNCHANGED shown
  PROVE  Quiet
BY Finished DEF Refuse, Quiet, Inv, Typed

-----------------------------------------------------------------------------
(* The service. *)

LEMMA NoneIsNoRow == None \notin Row
  BY FriendshipAssumption DEF Row

LEMMA FindRequestKeeps ==
  ASSUME Inv, NEW c \in Calls, FindRequest(c), UNCHANGED shown
  PROVE  Inv'
<1>1. CASE Accepted \/ (Open /\ row.from = calls[c].by)
  BY <1>1, RefusalQuiet, QuietKeeps DEF FindRequest, At
<1>2. CASE ~(Accepted \/ (Open /\ row.from = calls[c].by))
  <2> DEFINE q == calls[c]
             id == IF row = None THEN None ELSE row.id
             s == [q EXCEPT !.step = "found"]
             t == [s EXCEPT !.id = id]
  <2>1. q \in Record /\ q # None
    BY DEF FindRequest, At, Inv, Typed
  <2>2. id \in Ids
    BY DEF Inv, Typed, Row, Ids
  <2>3. s \in Record /\ s.step = "found" /\ s.by = q.by
    BY <2>1, StepField DEF Steps
  <2>4. [q EXCEPT !.step = "found", !.id = id] = t
    BY <2>1 DEF Record
  <2> HIDE DEF s
  <2>5. t \in Record /\ t.step = "found" /\ t.by = q.by /\ t.id = id
    BY <2>2, <2>3, IdField
  <2>6. calls' = [calls EXCEPT ![c] = t] /\ UNCHANGED pairVars
    BY <1>2, <2>4 DEF FindRequest, Inv, Typed
  <2> HIDE DEF t
  <2>7. Typed'
    BY <2>5, <2>6 DEF Inv, Typed, pairVars
  <2>8. Found(t)
    BY <1>2, <2>5 DEF Found, Inv, FoundInv, Typed, Row, Accepted, Open
  <2>9. FoundInv'
    BY <2>6, <2>8 DEF Inv, Typed, FoundInv, Found, pairVars
  <2>10. AskedInv'
    BY <2>6 DEF Inv, AskedInv, Open, pairVars
  <2> QED
    BY <2>7, <2>9, <2>10 DEF Inv
<1> QED
  BY <1>1, <1>2

LEMMA InsertKeeps ==
  ASSUME Inv, NEW c \in Calls, Insert(c), UNCHANGED shown
  PROVE  Inv'
<1>1. CASE row # None
  BY <1>1, RefusalQuiet, QuietKeeps DEF Insert, At
<1>2. CASE row = None
  <2> DEFINE u == calls[c].by
             new == [id |-> serial + 1, from |-> u, accepted |-> FALSE]
  <2>1. u \in Users /\ serial \in Nat /\ calls[c] # None
    BY DEF Insert, At, Inv, Typed, Record
  <2>2. new \in Row /\ new # None
    <3>1. new \in Row
      BY <2>1 DEF Row
    <3> QED
      BY <3>1, NoneIsNoRow
  <2>3. /\ row' = new /\ serial' = serial + 1
        /\ Finish(c, TRUE) /\ agreed' = agreed \cup {u} /\ hollow' = hollow
    BY <1>2 DEF Insert, Grant
  <2>4. /\ calls' \in [Calls -> Record \cup {None}]
        /\ calls'[c] # None => calls'[c].step = "done"
        /\ \A d \in Calls : d # c => calls'[d] = calls[d]
    BY <2>1, <2>3, Finished DEF Inv
  <2>5. new.id = serial + 1 /\ new.from = u
    OBVIOUS
  <2> HIDE DEF new
  <2>6. Typed'
    BY <2>1, <2>2, <2>3, <2>4 DEF Inv, Typed
  <2>7. ASSUME NEW d \in Calls, calls'[d] # None
        PROVE  \/ Found(calls[d]) /\ calls[d] # None /\ calls'[d] = calls[d]
              \/ calls'[d].step = "done"
    BY <2>4, <2>7 DEF Inv, FoundInv
  <2>8. ASSUME NEW d \in Calls, calls'[d] # None
        PROVE  Found(calls[d])'
    <3>1. CASE calls'[d].step = "done"
      BY <3>1 DEF Found
    <3>2. CASE calls'[d] = calls[d] /\ Found(calls[d]) /\ calls[d] # None
      <4>1. calls[d].id # None => calls[d].id \in Nat
        BY <3>2 DEF Inv, Typed, Record, Ids
      <4> QED
        BY <1>2, <2>1, <2>3, <2>5, <3>2, <4>1 DEF Found
    <3> QED
      BY <2>7, <2>8, <3>1, <3>2
  <2>9. FoundInv'
    BY <2>1, <2>3, <2>5, <2>8 DEF FoundInv
  <2>10. AskedInv'
    BY <1>2, <2>2, <2>3, <2>5 DEF Inv, AskedInv, Open
  <2> QED
    BY <2>6, <2>9, <2>10 DEF Inv
<1> QED
  BY <1>1, <1>2

\* The row is accepted, and a call finished.
LEMMA AcceptingKeeps ==
  ASSUME Inv, NEW c \in Calls, calls[c] # None, row # None,
         row' = [row EXCEPT !.accepted = TRUE],
         Grant(c), UNCHANGED <<serial, hollow, shown>>
  PROVE  Inv' /\ Accepted'
<1>1. row \in Row
  BY DEF Inv, Typed
<1>2. /\ row' \in Row /\ row'.id = row.id /\ row'.from = row.from /\ row'.accepted
      /\ row' # None
  BY <1>1, FriendshipAssumption DEF Row
<1>3. calls[c].by \in Users
  BY DEF Inv, Typed, Record
<1>4. /\ calls' \in [Calls -> Record \cup {None}]
      /\ calls'[c] # None => calls'[c].step = "done"
      /\ \A d \in Calls : d # c => calls'[d] = calls[d]
  BY Finished DEF Inv, Grant
<1>5. Typed'
  BY <1>2, <1>3, <1>4 DEF Inv, Typed, Grant
<1>6. FoundInv'
  BY <1>2, <1>4 DEF Inv, FoundInv, Found
<1>7. AskedInv' /\ Accepted'
  BY <1>2 DEF AskedInv, Open, Accepted
<1> QED
  BY <1>5, <1>6, <1>7 DEF Inv

LEMMA AnswerFoundKeeps ==
  ASSUME Inv, NEW c \in Calls, AnswerFound(c), UNCHANGED shown
  PROVE  Inv'
<1>1. calls[c] # None
  BY DEF AnswerFound, At
<1>2. CASE row # None /\ row.id = calls[c].id
  BY <1>1, <1>2, AcceptingKeeps DEF AnswerFound
<1>3. CASE ~(row # None /\ row.id = calls[c].id)
  <2> DEFINE u == calls[c].by
  <2>1. /\ row' = row /\ serial' = serial /\ hollow' = hollow \cup {u}
        /\ agreed' = agreed \cup {u} /\ Finish(c, TRUE)
    BY <1>3 DEF AnswerFound, Grant
  <2>2. u \in Users
    BY <1>1 DEF Inv, Typed, Record
  <2>3. /\ calls' \in [Calls -> Record \cup {None}]
        /\ calls'[c] # None => calls'[c].step = "done"
        /\ \A d \in Calls : d # c => calls'[d] = calls[d]
    BY <1>1, <2>1, Finished DEF Inv
  <2>4. Typed'
    BY <2>1, <2>2, <2>3 DEF Inv, Typed
  <2>5. FoundInv'
    BY <2>1, <2>3 DEF Inv, FoundInv, Found
  <2>6. AskedInv'
    BY <2>1 DEF Inv, AskedInv, Open
  <2> QED
    BY <2>4, <2>5, <2>6 DEF Inv
<1> QED
  BY <1>2, <1>3

LEMMA AcceptKeeps ==
  ASSUME Inv, NEW c \in Calls, Accept(c), UNCHANGED shown
  PROVE  Inv'
<1>1. CASE Open /\ row.id = calls[c].id /\ row.from # calls[c].by
  BY <1>1, AcceptingKeeps DEF Accept, At, Open
<1>2. CASE ~(Open /\ row.id = calls[c].id /\ row.from # calls[c].by)
  BY <1>2, RefusalQuiet, QuietKeeps DEF Accept, At
<1> QED
  BY <1>1, <1>2

LEMMA DeletedKeeps ==
  ASSUME Inv, NEW c \in Calls, calls[c] # None, Deleted(c), UNCHANGED shown
  PROVE  Inv'
<1>1. /\ calls' \in [Calls -> Record \cup {None}]
      /\ calls'[c] # None => calls'[c].step = "done"
      /\ \A d \in Calls : d # c => calls'[d] = calls[d]
  BY Finished DEF Inv, Deleted
<1>2. Typed'
  BY <1>1 DEF Inv, Typed, Deleted
<1>3. FoundInv'
  BY <1>1 DEF Inv, FoundInv, Found, Deleted
<1>4. AskedInv'
  BY DEF AskedInv, Open, Deleted
<1> QED
  BY <1>2, <1>3, <1>4 DEF Inv

LEMMA EndKeeps ==
  ASSUME Inv, NEW c \in Calls, Dismiss(c) \/ Remove(c), UNCHANGED shown
  PROVE  Inv'
<1>1. CASE Deleted(c)
  BY <1>1, DeletedKeeps DEF Dismiss, Remove, At
<1>2. CASE Refuse(c)
  BY <1>2, RefusalQuiet, QuietKeeps DEF Dismiss, Remove, At
<1> QED
  BY <1>1, <1>2 DEF Dismiss, Remove

LEMMA QuickKeeps ==
  ASSUME Inv, NEW c \in Calls, Quick(c), UNCHANGED shown
  PROVE  Inv'
<1>1. CASE row # None
  BY <1>1, AcceptingKeeps DEF Quick, At
<1>2. CASE row = None
  <2> DEFINE u == calls[c].by
             new == [id |-> serial + 1, from |-> u, accepted |-> TRUE]
  <2>1. u \in Users /\ serial \in Nat /\ calls[c] # None
    BY DEF Quick, At, Inv, Typed, Record
  <2>2. new \in Row /\ new # None /\ new.id = serial + 1 /\ new.accepted
    <3>1. new \in Row /\ new.id = serial + 1 /\ new.accepted
      BY <2>1 DEF Row
    <3> QED
      BY <3>1, NoneIsNoRow
  <2>3. /\ row' = new /\ serial' = serial + 1
        /\ Finish(c, TRUE) /\ agreed' = agreed \cup {u} /\ hollow' = hollow
    BY <1>2 DEF Quick, Grant
  <2>4. /\ calls' \in [Calls -> Record \cup {None}]
        /\ calls'[c] # None => calls'[c].step = "done"
        /\ \A d \in Calls : d # c => calls'[d] = calls[d]
    BY <2>1, <2>3, Finished DEF Inv
  <2> HIDE DEF new
  <2>5. Typed'
    BY <2>1, <2>2, <2>3, <2>4 DEF Inv, Typed
  <2>6. ASSUME NEW d \in Calls, calls'[d] # None
        PROVE  Found(calls[d])'
    <3>1. CASE calls'[d].step = "done"
      BY <3>1 DEF Found
    <3>2. CASE calls'[d] = calls[d] /\ d # c
      <4>1. Found(calls[d]) /\ (calls[d].id # None => calls[d].id \in Nat)
        BY <2>6, <3>2 DEF Inv, FoundInv, Typed, Record, Ids
      <4> QED
        BY <1>2, <2>1, <2>2, <2>3, <3>2, <4>1 DEF Found
    <3> QED
      BY <2>4, <2>6, <3>1, <3>2
  <2>7. FoundInv'
    BY <2>1, <2>2, <2>3, <2>6 DEF FoundInv
  <2>8. AskedInv'
    BY <2>2, <2>3 DEF AskedInv, Open
  <2> QED
    BY <2>5, <2>7, <2>8 DEF Inv
<1> QED
  BY <1>1, <1>2

LEMMA OverviewQuiet ==
  ASSUME Inv, NEW c \in Calls, Overview(c), UNCHANGED shown
  PROVE  Quiet
<1> DEFINE q == calls[c]
           Answer(o) == [q EXCEPT !.read = o]
<1>1. q \in Record /\ q # None /\ q.read \in Overviews
  BY DEF Overview, At, Inv, Typed, Record
<1>2. ASSUME NEW o \in Overviews, NEW s \in Steps \ {"found"}, 
             calls' = [calls EXCEPT ![c] = [[q EXCEPT !.step = s] EXCEPT !.read = o]]
      PROVE  Quiet
  <2> DEFINE t == [q EXCEPT !.step = s]
             r == [t EXCEPT !.read = o]
  <2>1. t \in Record /\ t.step = s
    BY <1>1, <1>2, StepField
  <2> HIDE DEF t
  <2>2. r \in Record /\ r.step = s
    BY <1>2, <2>1 DEF Record
  <2>3. calls' = [calls EXCEPT ![c] = r]
    BY <1>2 DEF t
  <2> HIDE DEF r
  <2> QED
    BY <1>2, <2>2, <2>3 DEF Quiet, Overview, Inv, Typed
<1>3. PICK s \in Steps \ {"found"}, o \in Overviews :
        calls' = [calls EXCEPT ![c] = [[q EXCEPT !.step = s] EXCEPT !.read = o]]
  <2> DEFINE a == IF Open /\ row.from # q.by THEN row.id ELSE None
             b == IF Open /\ row.from = q.by THEN row.id ELSE None
  <2>1. a \in Ids /\ b \in Ids /\ Accepted \in BOOLEAN
    BY DEF Inv, Typed, Row, Ids, Open, Accepted
  <2>2. /\ [q.read EXCEPT !.friend = Accepted] \in Overviews
        /\ [q.read EXCEPT !.incoming = a] \in Overviews
        /\ [q.read EXCEPT !.outgoing = b] \in Overviews
    BY <1>1, <2>1 DEF Overviews
  <2>3. CASE calls' = [calls EXCEPT ![c].step = "incoming", ![c].read.friend = Accepted]
    <3>1. calls' = [calls EXCEPT ![c] = [[q EXCEPT !.step = "incoming"]
                                           EXCEPT !.read = [q.read EXCEPT !.friend = Accepted]]]
      BY <1>1, <2>3 DEF Inv, Typed, Record
    <3> QED
      BY <2>2, <3>1 DEF Steps
  <2>4. CASE calls' = [calls EXCEPT ![c].step = "outgoing", ![c].read.incoming = a]
    <3>1. calls' = [calls EXCEPT ![c] = [[q EXCEPT !.step = "outgoing"]
                                           EXCEPT !.read = [q.read EXCEPT !.incoming = a]]]
      BY <1>1, <2>4 DEF Inv, Typed, Record
    <3> QED
      BY <2>2, <3>1 DEF Steps
  <2>5. CASE calls' = [calls EXCEPT ![c].step = "read", ![c].read.outgoing = b]
    <3>1. calls' = [calls EXCEPT ![c] = [[q EXCEPT !.step = "read"]
                                           EXCEPT !.read = [q.read EXCEPT !.outgoing = b]]]
      BY <1>1, <2>5 DEF Inv, Typed, Record
    <3> QED
      BY <2>2, <3>1 DEF Steps
  <2> QED
    BY <2>3, <2>4, <2>5 DEF Overview
<1> QED
  BY <1>2, <1>3

LEMMA ServeKeeps ==
  ASSUME Inv, NEW c \in Calls, Serve(c) \/ Fails(c), UNCHANGED shown
  PROVE  Inv'
<1>1. CASE Overview(c)
  BY <1>1, OverviewQuiet, QuietKeeps
<1>2. CASE Fails(c)
  BY <1>2, RefusalQuiet, QuietKeeps DEF Fails, At
<1> QED
  BY <1>1, <1>2, FindRequestKeeps, InsertKeeps, AnswerFoundKeeps, AcceptKeeps, EndKeeps,
     QuickKeeps DEF Serve

-----------------------------------------------------------------------------
(* The pages. *)

LEMMA SendsQuiet ==
  ASSUME Inv, NEW c \in Calls, NEW u \in Users, NEW op \in Ops, NEW id \in Ids,
         NEW w \in Waiters, Sends(c, u, op, id, w), UNCHANGED shown
  PROVE  Quiet
<1> DEFINE q == Call(u, op, id, w)
<1>1. q \in Record /\ q.step # "found"
  BY CallTyped
<1>2. calls' = [calls EXCEPT ![c] = q]
  BY DEF Sends
<1> HIDE DEF q
<1> QED
  BY <1>1, <1>2 DEF Quiet, Sends, Inv, Typed

\* Only who waits changes.
Alike(r, q) == r # None /\ r.step = "found" =>
                 q # None /\ q.step = "found" /\ r.by = q.by /\ r.id = q.id

LEMMA OrphanedAlike ==
  ASSUME Typed
  PROVE  /\ Orphaned \in [Calls -> Record \cup {None}]
         /\ \A c \in Calls : Alike(Orphaned[c], calls[c])
<1>1. ASSUME NEW c \in Calls
      PROVE  Orphaned[c] \in Record \cup {None} /\ Alike(Orphaned[c], calls[c])
  <2> DEFINE r == Orphaned[c]
             q == calls[c]
  <2>1. q \in Record \cup {None}
    BY DEF Typed
  <2>2. \/ r = q
        \/ q # None /\ \E w \in {"store", "left"} : r = [q EXCEPT !.for = w]
    BY DEF Orphaned, Waits
  <2> HIDE DEF r, q
  <2>3. ASSUME NEW w \in {"store", "left"}, q # None, r = [q EXCEPT !.for = w]
        PROVE  r \in Record /\ r.step = q.step /\ r.by = q.by /\ r.id = q.id
    BY <2>1, <2>3, ForField DEF Waiters
  <2>4. r \in Record \cup {None} /\ Alike(r, q)
    BY <2>1, <2>2, <2>3 DEF Alike
  <2> QED
    BY <2>4 DEF r, q
<1> QED
  BY <1>1 DEF Orphaned

LEMMA ReadTyped ==
  /\ Call(Me, "read", None, "store") \in Record
  /\ Call(Me, "read", None, "store").step # "found"
  BY CallTyped, FriendsAssumption DEF Ops, Ids, Waiters

\* The calls of a page that goes, with another in the place of one of them.
LEMMA LeavingQuiet ==
  ASSUME Inv, NEW c \in Calls, NEW q \in {Call(Me, "read", None, "store"), None},
         calls' = Orphaned \/ calls' = [Orphaned EXCEPT ![c] = q],
         UNCHANGED pairVars, shown' \in Overviews \cup {None}
  PROVE  Quiet
<1> DEFINE o == Orphaned
<1>1. o \in [Calls -> Record \cup {None}] /\ \A d \in Calls : Alike(o[d], calls[d])
  BY OrphanedAlike DEF Inv
<1>2. q \in Record \cup {None} /\ (q # None => q.step # "found")
  BY ReadTyped
<1>3. calls' = o \/ calls' = [o EXCEPT ![c] = q]
  OBVIOUS
<1> HIDE DEF o
<1> QED
  BY <1>1, <1>2, <1>3 DEF Quiet, Alike

LEMMA HomewardsQuiet ==
  ASSUME Inv, NEW c \in Calls, Homewards(c), UNCHANGED pairVars, shown' \in Overviews \cup {None}
  PROVE  Quiet
<1>1. CASE page = "friends"
  BY <1>1 DEF Homewards, Gets, Quiet, Inv, Typed
<1>2. CASE page # "friends"
  <2> DEFINE q == IF page = "add" THEN Call(Me, "read", None, "store") ELSE None
  <2>1. q \in {Call(Me, "read", None, "store"), None} /\ calls' = [Orphaned EXCEPT ![c] = q]
    BY <1>2 DEF Homewards
  <2> HIDE DEF q
  <2> QED
    BY <2>1, LeavingQuiet
<1> QED
  BY <1>1, <1>2

LEMMA GetsQuiet ==
  ASSUME Inv, NEW c \in Calls, Gets(c), UNCHANGED pairVars, shown' \in Overviews \cup {None}
  PROVE  Quiet
BY DEF Gets, Quiet, Inv, Typed

LEMMA AnsweredQuiet ==
  ASSUME Inv, NEW c \in Calls, Answered(c)
  PROVE  Quiet
<1>1. shown \in Overviews \cup {None}
  BY DEF Inv, Typed
<1>2. CASE Refused(c)
  BY <1>1, <1>2, GetsQuiet DEF Refused
<1>3. CASE Done(c)
  <2> DEFINE q == Call(Me, "read", None, calls[c].for)
  <2>1. calls[c].for \in Waiters
    BY <1>3 DEF Done, At, Inv, Typed, Record
  <2>2. q \in Record /\ q.step # "found"
    BY <2>1, CallTyped, FriendsAssumption DEF Ops, Ids
  <2>3. calls' = [calls EXCEPT ![c] = q] /\ UNCHANGED pairVars /\ UNCHANGED shown
    BY <1>3 DEF Done, pageVars
  <2> HIDE DEF q
  <2> QED
    BY <2>2, <2>3 DEF Quiet, Inv, Typed
<1>4. CASE Shows(c)
  <2>1. calls[c].read \in Overviews
    BY <1>4 DEF Shows, At, Inv, Typed, Record
  <2> QED
    BY <1>4, <2>1, HomewardsQuiet, GetsQuiet DEF Shows
<1>5. CASE ReadFails(c)
  BY <1>1, <1>5, HomewardsQuiet, GetsQuiet DEF ReadFails
<1> QED
  BY <1>2, <1>3, <1>4, <1>5 DEF Answered

LEMMA LostQuiet ==
  ASSUME Inv, NEW c \in Calls, Lost(c)
  PROVE  Quiet
<1> DEFINE q == calls[c]
           r == [q EXCEPT !.for = "nobody"]
<1>1. q \in Record /\ q # None
  BY DEF Lost, Inv, Typed
<1>2. r \in Record /\ r.step = q.step /\ r.by = q.by /\ r.id = q.id
  BY <1>1, ForField DEF Waiters
<1>3. calls' = [calls EXCEPT ![c] = None] \/ calls' = [calls EXCEPT ![c] = r]
  BY DEF Lost
<1>4. UNCHANGED pairVars /\ UNCHANGED shown
  BY DEF Lost
<1> HIDE DEF r
<1> QED
  BY <1>1, <1>2, <1>3, <1>4 DEF Quiet, Inv, Typed

LEMMA BootQuiet ==
  ASSUME Inv, NEW c \in Calls, NEW p, Boot(c, p)
  PROVE  Quiet
<1> DEFINE new == Call(Me, "read", None, "store")
<1>1. new \in Record /\ new.step # "found"
  BY ReadTyped
<1>2. ASSUME NEW d \in Calls
      PROVE  calls'[d] \in Record \cup {None} /\ Alike(calls'[d], calls[d])
  <2> DEFINE q == calls[d]
             r == calls'[d]
  <2>1. q \in Record \cup {None}
    BY DEF Inv, Typed
  <2>2. r = new \/ r = None \/ (q # None /\ r = [q EXCEPT !.for = "nobody"])
    BY DEF Boot, At
  <2>3. ASSUME q # None, r = [q EXCEPT !.for = "nobody"]
        PROVE  r \in Record /\ r.step = q.step /\ r.by = q.by /\ r.id = q.id
    BY <2>1, <2>3, ForField DEF Waiters
  <2> HIDE DEF q, r, new
  <2>4. r \in Record \cup {None} /\ Alike(r, q)
    BY <1>1, <2>1, <2>2, <2>3 DEF Alike
  <2> QED
    BY <2>4 DEF q, r
<1>3. calls' = [d \in Calls |-> calls'[d]]
  BY DEF Boot
<1>4. calls' \in [Calls -> Record \cup {None}]
  BY <1>2, <1>3
<1> QED
  BY <1>2, <1>4 DEF Boot, Quiet, Alike

LEMMA TapsQuiet ==
  ASSUME Inv, NEW c \in Calls,
         AddByName(c) \/ Write(c) \/ FollowLink(c) \/ Load(c) \/ Elsewhere(c)
  PROVE  Quiet
<1>1. Me \in Users /\ None \in Ids
  BY FriendsAssumption DEF Ids
<1>2. CASE AddByName(c)
  BY <1>1, <1>2, SendsQuiet DEF AddByName, Ops, Waiters
<1>3. CASE Write(c)
  <2>1. shown.incoming \in Ids /\ shown.outgoing \in Ids
    BY <1>3 DEF Write, Inv, Typed, Overviews
  <2> QED
    BY <1>1, <1>3, <2>1, SendsQuiet DEF Write, Ops, Waiters
<1>4. CASE FollowLink(c)
  BY <1>1, <1>4, SendsQuiet DEF FollowLink, Ops, Waiters
<1>5. CASE Load(c)
  BY <1>1, <1>5, SendsQuiet DEF Load, Ops, Waiters, pageVars
<1>6. CASE Elsewhere(c)
  <2>1. PICK u \in Users, op \in {"send", "accept", "dismiss", "remove", "quick"},
             id \in Ids : Sends(c, u, op, id, "nobody")
    <3>1. 1..serial \subseteq Ids
      BY DEF Inv, Typed, Ids
    <3> QED
      BY <1>1, <1>6, <3>1 DEF Elsewhere
  <2> QED
    BY <1>6, <2>1, SendsQuiet DEF Elsewhere, Ops, Waiters, pageVars
<1> QED
  BY <1>2, <1>3, <1>4, <1>5, <1>6

\* All but the service.
LEMMA PagesQuiet ==
  ASSUME Inv, NEW c \in Calls,
         \/ AddByName(c) \/ Write(c) \/ FollowLink(c) \/ Load(c) \/ Elsewhere(c)
         \/ Answered(c) \/ Lost(c)
         \/ \E p \in {"friends", "away", "add"} : Go(c, p) \/ Boot(c, p)
         \/ Previewed
  PROVE  Quiet
<1>1. ASSUME NEW p \in {"friends", "away", "add"}, Go(c, p)
      PROVE  Quiet
  <2> DEFINE q == Call(Me, "read", None, "store")
  <2>1. q \in {q, None} /\ (calls' = Orphaned \/ calls' = [Orphaned EXCEPT ![c] = q])
    BY <1>1 DEF Go
  <2>2. UNCHANGED pairVars /\ shown' \in Overviews \cup {None}
    BY <1>1 DEF Go, Inv, Typed
  <2> QED
    BY <2>1, <2>2, LeavingQuiet
<1>2. CASE Previewed
  BY <1>2 DEF Previewed, Quiet, pairVars, friendshipVars, Inv, Typed
<1> QED
  BY <1>1, <1>2, TapsQuiet, AnsweredQuiet, LostQuiet, BootQuiet

-----------------------------------------------------------------------------
LEMMA InitInv == Init => Inv
BY DEF Init, FriendshipInit, Inv, Typed, FoundInv, AskedInv, Open

LEMMA NextInv == Inv /\ [Next]_vars => Inv'
<1> SUFFICES ASSUME Inv, [Next]_vars
             PROVE  Inv'
  OBVIOUS
<1>1. ASSUME NEW c \in Calls, Carry(c)
      PROVE  Inv'
  BY <1>1, ServeKeeps DEF Carry, pageVars
<1>2. CASE UNCHANGED vars
  BY <1>2, QuietKeeps DEF vars, friendshipVars, pageVars, pairVars, Quiet, Inv, Typed
<1>3. CASE Previewed
  BY <1>3, QuietKeeps DEF Previewed, Quiet, pairVars, friendshipVars, Inv, Typed
<1> QED
  BY <1>1, <1>2, <1>3, PagesQuiet, QuietKeeps DEF Next

\* Where both have asked or accepted with success, and no row was deleted
\* since, they are friends, but for the answer to a request that was withdrawn.
THEOREM BothAskedAreFriends == Spec => []BothAskedMeansFriends
<1>1. Inv => BothAskedMeansFriends
  <2> SUFFICES ASSUME Inv, agreed = Users, hollow = {}, ~Accepted
               PROVE  FALSE
    BY DEF BothAskedMeansFriends
  <2>1. Cardinality(Users) = 2
    BY FriendshipAssumption
  <2>2. CASE row = None
    <3>1. Users = {}
      BY <2>2 DEF Inv, AskedInv
    <3> QED
      BY <2>1, <3>1, FS_EmptySet
  <2>3. CASE Open
    <3>1. Users = {row.from}
      BY <2>3 DEF Inv, AskedInv, Typed, Row, Open
    <3>2. Cardinality({row.from}) = 1
      BY FS_Singleton, Zenon
    <3>3. Cardinality(Users) = 1
      BY <3>1, <3>2, Zenon
    <3> QED
      BY <2>1, <3>3
  <2> QED
    BY <2>2, <2>3 DEF Open, Accepted
<1> QED
  BY <1>1, InitInv, NextInv, PTL DEF Spec

\* Nobody becomes a friend by the doing of one user alone: the one who did not
\* ask accepts, or somebody follows a link they were given.
THEOREM NobodyIsFriendedAlone == Spec => NobodyFriendsAlone
<1> DEFINE Together == 
      ~Accepted /\ Accepted' =>
        \E c \in Calls : /\ calls[c] # None /\ calls'[c] # calls[c]
                         /\ calls[c].op = "quick" \/ calls[c].by # row'.from
<1>1. Inv /\ [Next]_vars => Together
  <2> SUFFICES ASSUME Inv, [Next]_vars, ~Accepted, Accepted'
               PROVE  \E c \in Calls : /\ calls[c] # None /\ calls'[c] # calls[c]
                                       /\ calls[c].op = "quick" \/ calls[c].by # row'.from
    OBVIOUS
  <2>1. row' # row
    BY DEF Accepted
  <2>2. ~Quiet
    BY <2>1 DEF Quiet, pairVars
  <2>3. PICK c \in Calls : Carry(c)
    BY <2>1, <2>2, PagesQuiet DEF Next, vars, friendshipVars, Previewed
  <2>4. calls[c] # None /\ calls[c].step \in {"called", "found"}
        /\ (calls[c].op = "quick" \/ calls[c].by # row'.from) /\ Finish(c, TRUE)
    <3>1. CASE AnswerFound(c)
      <4>1. row # None /\ row.id = calls[c].id /\ row' = [row EXCEPT !.accepted = TRUE]
        BY <2>1, <3>1 DEF AnswerFound
      <4>2. row.from # calls[c].by /\ row'.from = row.from
        BY <3>1, <4>1 DEF AnswerFound, At, Inv, FoundInv, Found, Typed, Row
      <4> QED
        BY <3>1, <4>2 DEF AnswerFound, At, Grant
    <3>2. CASE Accept(c)
      <4>1. row \in Row /\ row' = [row EXCEPT !.accepted = TRUE] /\ row.from # calls[c].by
        BY <2>1, <3>2 DEF Accept, Open, Inv, Typed, Refuse, pairVars
      <4> QED
        BY <2>1, <3>2, <4>1 DEF Accept, At, Grant, Row, Refuse, pairVars
    <3>3. CASE Quick(c)
      BY <3>3 DEF Quick, At, Grant
    <3>4. CASE Insert(c)
      <4>1. CASE row # None
        BY <2>1, <3>4, <4>1 DEF Insert, Refuse, pairVars
      <4>2. CASE row = None
        BY <3>4, <4>2 DEF Insert, Accepted
      <4> QED
        BY <4>1, <4>2
    <3>5. CASE Dismiss(c) \/ Remove(c)
      BY <2>1, <3>5 DEF Dismiss, Remove, Deleted, Refuse, pairVars, Accepted
    <3>6. CASE FindRequest(c) \/ Overview(c) \/ Fails(c)
      BY <2>1, <3>6 DEF FindRequest, Overview, Fails, Refuse, pairVars
    <3> QED
      BY <2>3, <3>1, <3>2, <3>3, <3>4, <3>5, <3>6 DEF Carry, Serve
  <2>5. calls'[c] # None => calls'[c].step = "done"
    BY <2>4, Finished DEF Inv
  <2>6. calls'[c] # calls[c]
    BY <2>4, <2>5
  <2> QED
    BY <2>4, <2>6
<1>2. Inv /\ [Next]_vars => [Together]_vars
  BY <1>1
<1> QED
  BY <1>2, InitInv, NextInv, PTL DEF Spec, NobodyFriendsAlone
=============================================================================
