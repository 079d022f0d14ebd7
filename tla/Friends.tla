------------------------------ MODULE Friends -------------------------------
(***************************************************************************)
(* The pages about friends of the Angular frontend, in one tab of one user *)
(* (Me), over Friendship: the list inside the shell (/friends), the        *)
(* landing page of somebody's quick link outside of it                     *)
(* (/friends/add/:token), and the store, which both read.  Everything else *)
(* that calls the service is the other user, on any number of devices, who *)
(* sends any call that a button was ever there for.                        *)
(* A write is followed by a read of the overview, and only its answer      *)
(* gives the buttons back.  Nobody cancels a request: the answer comes     *)
(* also when its page is gone, unless the app was loaded anew.             *)
(***************************************************************************)
EXTENDS Friendship

CONSTANTS
  Me,         \* the user of the tab
  MaxRows     \* bound: rows of the pair over time

ASSUME FriendsAssumption == Me \in Users /\ MaxRows \in Nat

VARIABLES
  page,       \* "friends", "add", or "away": another page inside the shell
  shown,      \* store.friends: the overview, or None before the first answer
  adding,     \* the button that sends a request, or follows the link, is disabled
  busy,       \* the buttons of the lists are
  offer,      \* landing page: "checking", "made" (owner), or "dead" (error)
  stranded    \* history: the flags of this visit whose read failed

pageVars == <<page, shown, adding, busy, offer, stranded>>
vars == <<friendshipVars, pageVars>>

Init ==
  /\ FriendshipInit
  /\ page = "away" /\ shown = None
  /\ adding = FALSE /\ busy = FALSE
  /\ offer = "dead" /\ stranded = {}

\* The first place for another call.
Free(c) == calls[c] = None /\ \A d \in Calls : d < c => calls[d] # None
\* Whoever waits for an answer: a flag of the page that is open ("adding",
\* "busy"), the landing page ("quick"), the store alone ("store"), or nobody
\* here ("nobody").  A landing page that was left ("left") still navigates.
Waits(c, w) == calls[c] # None /\ calls[c].for = w

\* Calls that may insert a row.
Inserting(c) == calls[c] # None /\ calls[c].op \in {"send", "quick"} /\ calls[c].id = None
Room == serial + Cardinality({c \in Calls : Inserting(c)}) < MaxRows

Sends(c, u, op, id, w) ==
  /\ Free(c)
  /\ op \in {"send", "quick"} => Room
  /\ calls' = [calls EXCEPT ![c] = Call(u, op, id, w)]
  /\ UNCHANGED pairVars

(***************************************************************************)
(* What the user taps.                                                     *)
(***************************************************************************)
\* add() of the list
AddByName(c) ==
  /\ page = "friends" /\ ~adding
  /\ Sends(c, Me, "send", None, "adding")
  /\ adding' = TRUE
  /\ UNCHANGED <<page, shown, busy, offer, stranded>>

\* accept(), dismiss(), remove(): one at a time.
Write(c) ==
  /\ page = "friends" /\ ~busy /\ shown # None
  /\ \/ shown.incoming # None /\ Sends(c, Me, "accept", shown.incoming, "busy")
     \/ \E id \in {shown.incoming, shown.outgoing} \ {None} : Sends(c, Me, "dismiss", id, "busy")
     \/ shown.friend /\ Sends(c, Me, "remove", None, "busy")
  /\ busy' = TRUE
  /\ UNCHANGED <<page, shown, adding, offer, stranded>>

\* add() of the landing page, unless they are friends already.
FollowLink(c) ==
  /\ page = "add" /\ offer = "made" /\ ~adding
  /\ shown # None => ~shown.friend
  /\ Sends(c, Me, "quick", None, "quick")
  /\ adding' = TRUE
  /\ UNCHANGED <<page, shown, busy, offer, stranded>>

\* previewFriendQuick is answered.
Previewed ==
  /\ page = "add" /\ offer = "checking"
  /\ offer' \in {"made", "dead"}
  /\ UNCHANGED <<friendshipVars, page, shown, adding, busy, stranded>>

(***************************************************************************)
(* From page to page.                                                      *)
(***************************************************************************)
NewPage(p) ==
  /\ page' = p
  /\ adding' = FALSE /\ busy' = FALSE /\ stranded' = {}
  /\ offer' = IF p = "add" THEN "checking" ELSE "dead"
\* The calls of the page that goes work for the store from then on.
Orphaned ==
  [c \in Calls |->
     CASE Waits(c, "adding") \/ Waits(c, "busy") -> [calls[c] EXCEPT !.for = "store"]
       [] Waits(c, "quick")                      -> [calls[c] EXCEPT !.for = "left"]
       [] OTHER                                  -> calls[c]]

\* Inside the shell nothing is loaded again.  Coming from the landing page the
\* shell is built, and its load reads the overview; the landing page (by the
\* browser's history) reads it when there is none.
Go(c, p) ==
  /\ p # page
  /\ IF page = "add" \/ (p = "add" /\ shown = None)
       THEN Free(c) /\ calls' = [Orphaned EXCEPT ![c] = Call(Me, "read", None, "store")]
       ELSE calls' = Orphaned
  /\ NewPage(p)
  /\ UNCHANGED <<pairVars, shown>>

\* Other pages load everything after some of their writes.
Load(c) ==
  /\ page = "away"
  /\ Sends(c, Me, "read", None, "store")
  /\ UNCHANGED pageVars

\* The app is loaded anew, at any page: no answer reaches it, and the shell or
\* the landing page reads the overview.
Boot(c, p) ==
  /\ Free(c)
  /\ calls' = [d \in Calls |->
                 CASE d = c                                  -> Call(Me, "read", None, "store")
                   [] At(d, "called") \/ At(d, "found")      -> [calls[d] EXCEPT !.for = "nobody"]
                   [] OTHER                                  -> None]
  /\ shown' = None
  /\ NewPage(p)
  /\ UNCHANGED pairVars

(***************************************************************************)
(* Answers.                                                                *)
(***************************************************************************)
Lower(w) == /\ adding' = IF w \in {"adding", "quick"} THEN FALSE ELSE adding
            /\ busy' = IF w = "busy" THEN FALSE ELSE busy
Gets(c) == calls' = [calls EXCEPT ![c] = None]

\* A write was refused or failed: a notice, and the buttons are back.  The
\* landing page takes the link for dead.  (Slip: the buttons are not.)
Denied(w) == offer' = IF w = "quick" THEN "dead" ELSE offer
SlipKept(c) ==
  /\ At(c, "done") /\ ~calls[c].ok
  /\ Gets(c)
  /\ Denied(calls[c].for)
  /\ UNCHANGED <<pairVars, page, shown, adding, busy, stranded>>
Refused(c) ==
  /\ At(c, "done") /\ ~calls[c].ok
  /\ Gets(c)
  /\ Lower(calls[c].for) /\ Denied(calls[c].for)
  /\ UNCHANGED <<pairVars, page, shown, stranded>>

\* The connection is lost, which looks the same here: the call may have been
\* carried out, or still be.
Lost(c) ==
  /\ calls[c] # None /\ calls[c].op # "read" /\ calls[c].for # "nobody"
  /\ calls' = [calls EXCEPT ![c] = IF At(c, "done") THEN None ELSE [@ EXCEPT !.for = "nobody"]]
  /\ Lower(calls[c].for) /\ Denied(calls[c].for)
  /\ UNCHANGED <<pairVars, page, shown, stranded>>

\* It succeeded: the overview is read, also for a page that is gone.
Done(c) ==
  /\ At(c, "done") /\ calls[c].ok
  /\ calls' = [calls EXCEPT ![c] = Call(Me, "read", None, @.for)]
  /\ UNCHANGED <<pairVars, pageVars>>

\* The landing page is done, however the read ended: to the list, wherever the
\* user is by then.
Homewards(c) ==
  IF page = "friends" THEN Gets(c) /\ UNCHANGED <<page, adding, busy, offer, stranded>>
  ELSE /\ calls' = [Orphaned EXCEPT ![c] = IF page = "add" THEN Call(Me, "read", None, "store")
                                           ELSE None]
       /\ NewPage("friends")

Shows(c) ==
  /\ At(c, "read")
  /\ shown' = calls[c].read
  /\ IF Waits(c, "quick") \/ Waits(c, "left")
       THEN Homewards(c)
       ELSE Gets(c) /\ Lower(calls[c].for) /\ UNCHANGED <<page, offer, stranded>>
  /\ UNCHANGED pairVars

\* The read fails: nobody gives the buttons of the list back.
ReadFails(c) ==
  /\ At(c, "friends")
  /\ IF Waits(c, "quick") \/ Waits(c, "left")
       THEN Homewards(c)
       ELSE /\ Gets(c)
            /\ stranded' = stranded \cup ({calls[c].for} \cap {"adding", "busy"})
            /\ UNCHANGED <<page, adding, busy, offer>>
  /\ UNCHANGED <<pairVars, shown>>

\* The other user, with a page that may be old.
Elsewhere(c) ==
  /\ \E u \in Users \ {Me}, op \in {"send", "accept", "dismiss", "remove", "quick"} :
       \E id \in IF op \in {"accept", "dismiss"} THEN 1..serial ELSE {None} :
         Sends(c, u, op, id, "nobody")
  /\ UNCHANGED pageVars

Carry(c) == (Serve(c) \/ Fails(c)) /\ UNCHANGED pageVars
Answered(c) == Refused(c) \/ Done(c) \/ Shows(c) \/ ReadFails(c)
Next ==
  \/ \E c \in Calls :
       \/ AddByName(c) \/ Write(c) \/ FollowLink(c) \/ Load(c) \/ Elsewhere(c)
       \/ Carry(c) \/ Answered(c) \/ Lost(c)
       \/ \E p \in {"friends", "away", "add"} : Go(c, p) \/ Boot(c, p)
  \/ Previewed

\* A request is carried out, answered, or fails at last; users may stop.
Fairness == \A c \in Calls : WF_vars(Carry(c) \/ Answered(c))
Spec == Init /\ [][Next]_vars /\ Fairness

-----------------------------------------------------------------------------
(***************************************************************************)
(* Nobody becomes a friend by the doing of one user alone: a request is    *)
(* answered by the one who did not send it, also when two calls of         *)
(* send_request, a withdrawal and a new request cross each other; the only *)
(* other way is a quick link, which its owner gave away.                   *)
(***************************************************************************)
NobodyFriendsAlone ==
  [][~Accepted /\ Accepted' =>
       \E c \in Calls : /\ calls[c] # None /\ calls'[c] # calls[c]
                        /\ calls[c].op = "quick" \/ calls[c].by # row'.from]_vars

(***************************************************************************)
(* Where both were told that they have asked or accepted, and nothing was  *)
(* deleted since, they are friends: requests that cross do not lie there   *)
(* side by side.  The one exception the code has: send_request answers a   *)
(* request that was withdrawn after it was found, and reports success.     *)
(***************************************************************************)
BothAskedMeansFriends == agreed = Users /\ hollow = {} => Accepted

(***************************************************************************)
(* A button that was tapped can be tapped again at last, or its page is    *)
(* left, or the read after the write has failed: that error nobody handles *)
(* (friends.ts:78 and 109), and the buttons stay disabled.                *)
(***************************************************************************)
ButtonsComeBack ==
  /\ busy ~> ~busy \/ "busy" \in stranded
  /\ adding ~> ~adding \/ "adding" \in stranded
=============================================================================
