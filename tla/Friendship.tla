----------------------------- MODULE Friendship -----------------------------
(***************************************************************************)
(* The row of friend_request of two users, and the calls of FriendService  *)
(* that read and write it.  A statement sees what is committed when it     *)
(* runs (read committed), so what two statements of a call see may differ. *)
(* Both users stay; what they are called, and since when they have been    *)
(* friends, is left out.                                                   *)
(***************************************************************************)
EXTENDS Naturals, FiniteSets

CONSTANTS
  Users,      \* the two
  None,       \* no row, no id, no call
  Calls       \* bound: places for calls at a time

ASSUME FriendshipAssumption ==
  /\ Cardinality(Users) = 2
  /\ None \notin [id : Nat, from : Users, accepted : BOOLEAN]
  /\ Calls \subseteq Nat

VARIABLES
  row,        \* the row of the pair: [id, from, accepted], or None
  serial,     \* ids used so far
  calls,      \* what is under way, a write or a read of the overview each, or None
  agreed,     \* history: who asked or agreed with success since a row was last deleted
  hollow      \* history: those of them who answered a request that was gone

friendshipVars == <<row, serial, calls, agreed, hollow>>
pairVars == <<row, serial, agreed, hollow>>

FriendshipInit ==
  /\ row = None /\ serial = 0
  /\ calls = [c \in Calls |-> None]
  /\ agreed = {} /\ hollow = {}

Accepted == row # None /\ row.accepted
Open == row # None /\ ~row.accepted

\* What the overview says of the other one.
Nothing == [friend |-> FALSE, incoming |-> None, outgoing |-> None]
\* A call of this user that concerns the request with this id, answered to w.
Call(u, op, id, w) ==
  [by |-> u, op |-> op, id |-> id, for |-> w, ok |-> TRUE, read |-> Nothing,
   step |-> IF op = "read" THEN "friends" ELSE "called"]
At(c, step) == calls[c] # None /\ calls[c].step = step
\* The call is over, and its answer on the way, if anybody waits for one.
Finish(c, ok) ==
  calls' = [calls EXCEPT ![c] = IF @.for = "nobody" THEN None
                                ELSE [Call(@.by, "done", None, @.for) EXCEPT !.step = "done", !.ok = ok]]
Refuse(c) == Finish(c, FALSE) /\ UNCHANGED pairVars
Grant(c) == Finish(c, TRUE) /\ agreed' = agreed \cup {calls[c].by}
Deleted(c) ==
  /\ row' = None /\ agreed' = {} /\ hollow' = {}
  /\ Finish(c, TRUE)
  /\ UNCHANGED serial

\* send_request: what there is between the two is looked at first.
FindRequest(c) ==
  /\ At(c, "called") /\ calls[c].op = "send"
  /\ IF Accepted \/ (Open /\ row.from = calls[c].by)
       THEN Refuse(c)
       ELSE /\ calls' = [calls EXCEPT ![c].step = "found", ![c].id = IF row = None THEN None ELSE row.id]
            /\ UNCHANGED pairVars
\* ... and then written: a request of one's own, which waits for one inserted
\* meanwhile and fails,
Insert(c) ==
  /\ At(c, "found") /\ calls[c].id = None
  /\ IF row # None THEN Refuse(c)
     ELSE /\ row' = [id |-> serial + 1, from |-> calls[c].by, accepted |-> FALSE]
          /\ serial' = serial + 1
          /\ Grant(c) /\ UNCHANGED hollow
\* ... or the answer to the one found, which may be gone.
\* Slip: the request back is as good as the first one.
SlipBack(c) ==
  /\ At(c, "found") /\ calls[c].id # None
  /\ row' = row
  /\ Grant(c) /\ UNCHANGED <<hollow, serial>>
\* Slip: whatever there is between the two by now is answered.
SlipPair(c) ==
  /\ At(c, "found") /\ calls[c].id # None
  /\ row' = IF row # None THEN [row EXCEPT !.accepted = TRUE] ELSE row
  /\ hollow' = IF row # None THEN hollow ELSE hollow \cup {calls[c].by}
  /\ Grant(c) /\ UNCHANGED serial
AnswerFound(c) ==
  /\ At(c, "found") /\ calls[c].id # None
  /\ LET there == row # None /\ row.id = calls[c].id
     IN  /\ row' = IF there THEN [row EXCEPT !.accepted = TRUE] ELSE row
         /\ hollow' = IF there THEN hollow ELSE hollow \cup {calls[c].by}
  /\ Grant(c) /\ UNCHANGED serial

\* accept_request
Accept(c) ==
  /\ At(c, "called") /\ calls[c].op = "accept"
  /\ IF Open /\ row.id = calls[c].id /\ row.from # calls[c].by
       THEN /\ row' = [row EXCEPT !.accepted = TRUE]
            /\ Grant(c) /\ UNCHANGED <<serial, hollow>>
       ELSE Refuse(c)
\* delete_request
Dismiss(c) ==
  /\ At(c, "called") /\ calls[c].op = "dismiss"
  /\ IF Open /\ row.id = calls[c].id THEN Deleted(c) ELSE Refuse(c)
\* remove_friend
Remove(c) ==
  /\ At(c, "called") /\ calls[c].op = "remove"
  /\ IF Accepted THEN Deleted(c) ELSE Refuse(c)
\* add_quick: insert, or accept what there is.
Quick(c) ==
  /\ At(c, "called") /\ calls[c].op = "quick"
  /\ IF row = None
       THEN /\ row' = [id |-> serial + 1, from |-> calls[c].by, accepted |-> TRUE]
            /\ serial' = serial + 1
       ELSE row' = [row EXCEPT !.accepted = TRUE] /\ UNCHANGED serial
  /\ Grant(c) /\ UNCHANGED hollow

\* get_overview: three queries, one after the other.
Overview(c) ==
  LET mine == Open /\ row.from = calls[c].by
      theirs == Open /\ row.from # calls[c].by
  IN  /\ \/ /\ At(c, "friends")
            /\ calls' = [calls EXCEPT ![c].step = "incoming", ![c].read.friend = Accepted]
         \/ /\ At(c, "incoming")
            /\ calls' = [calls EXCEPT ![c].step = "outgoing",
                                      ![c].read.incoming = IF theirs THEN row.id ELSE None]
         \/ /\ At(c, "outgoing")
            /\ calls' = [calls EXCEPT ![c].step = "read",
                                      ![c].read.outgoing = IF mine THEN row.id ELSE None]
      /\ UNCHANGED pairVars

\* The call does not get there, or fails for another reason.
Fails(c) == At(c, "called") /\ Refuse(c)

Serve(c) ==
  \/ FindRequest(c) \/ Insert(c) \/ AnswerFound(c)
  \/ Accept(c) \/ Dismiss(c) \/ Remove(c) \/ Quick(c)
  \/ Overview(c)
=============================================================================
