------------------------------- MODULE SignIn -------------------------------
(***************************************************************************)
(* The Angular frontend, the service and the identity provider together:   *)
(* keys that are changed, tokens that expire, addresses that change,       *)
(* answers in any order, lost or for a page that is gone.                  *)
(***************************************************************************)
EXTENDS Session

CONSTANT MaxMoves    \* bound: what the user, the provider, other people and time do
ASSUME MaxMovesAssumption == MaxMoves \in Nat

VARIABLE moves
allVars == <<vars, moves>>

Move ==
  \/ (ProviderNext \/ (\E e \in Emails : OtherSignsIn(e)) \/ KeysAge) /\ UNCHANGED <<storage, tab, history>>
  \/ \E to \in Pages \cup {"login"} : OpenApp(to)
  \/ \E to \in Pages : Navigate(to)
  \/ signIn \/ signOut
  \/ Renew \/ RenewFails

\* What follows by itself.
Turn ==
  \/ ServiceNext /\ UNCHANGED <<storage, tab, history>>
  \/ Arrive \/ Authorize \/ Unreachable
  \/ \E done \in BOOLEAN : Callback(done)
  \/ \E r \in Requests : Send(r) \/ Hear(r)

Next ==
  \/ Move /\ moves < MaxMoves /\ moves' = moves + 1
  \/ Turn /\ UNCHANGED moves
Init == SessionInit /\ moves = 0
Spec == Init /\ [][Next]_allVars

-----------------------------------------------------------------------------
\* A token is refused because it has expired, is meant for somebody else, is
\* signed with a key the provider has withdrawn, or names no address or another
\* person's; or because the row of the user was made by a request that ran at
\* the same time.  A change of the provider's keys refuses nobody, and nor does
\* an outage.  (validate, _resolve_user, _provision_user)
Culpable(t) ==
  \/ t.serial \in expired \/ ~ours \/ t.key \notin keys
  \/ t.email \in taken \cup {NoEmail}
RefusedForCause ==
  \A r \in Requests :
    At(r, "answered") /\ requests[r].status = 401 /\ requests[r].token # None
      => Culpable(requests[r].token) \/ requests[r].raced

\* Between two things the user does the app starts at most one sign-in by
\* itself: a token that is refused again and again never makes it go to the
\* provider and back in a circle.  (the guard, the interceptor, the login page)
NoSignInLoop == autos <= 1

\* Wherever the guard or a refusal has sent the user meanwhile, the page they
\* get to, or come back to signed in, is the one they went to last, unless the
\* refusal of another page's request, or a sign-in that had begun on the login
\* page, broke off the way there.  (rememberReturnUrl, takeReturnUrl, signIn)
WhereHeaded ==
  [][url' # url /\ signedIn' /\ (url' \in Pages \/ url = "away") /\ headed' \in Pages /\ ~diverted'
       => url' = headed']_allVars
=============================================================================
