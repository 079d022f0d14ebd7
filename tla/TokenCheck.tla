----------------------------- MODULE TokenCheck -----------------------------
(***************************************************************************)
(* How the service answers a request: the check of its access token        *)
(* against the cached keys of the identity provider, and the row of its    *)
(* user, made on first sight.  One person with one account at the provider *)
(* sends requests, several at a time; other people have rows of their own. *)
(*                                                                         *)
(* Of a token there is left who signed it, whether audience and issuer are *)
(* ours, whether it has expired, and the email claim.  Usernames are left  *)
(* out: a clash is worked around.                                          *)
(***************************************************************************)
EXTENDS Integers

CONSTANTS
  Requests,   \* bound: requests at a time
  Emails,
  NoEmail,    \* no email claim, or an empty one
  None,
  MaxKey,     \* bound: keys the provider makes
  MaxToken    \* bound: tokens it issues
ASSUME TokenCheckAssumption ==
  MaxKey \in Nat \ {0} /\ MaxToken \in Nat /\ NoEmail \notin Emails /\ None \notin Emails

VARIABLES
  keys,       \* of the provider: those it publishes; it signs with the newest
  newest,
  issued,     \* tokens issued so far
  expired,    \* those that have expired
  email,      \* the address of the account
  ours,       \* audience and issuer of the tokens are those of the service
  jwks,       \* _jwks of the validator; None, too, when jwks_cache_seconds have passed
  account,    \* email of this person's row of usr, or None
  taken,      \* emails of other people's rows
  requests

provider == <<keys, newest, issued, expired, email, ours>>
service == <<jwks, account, taken>>
checkVars == <<provider, service, requests>>

Idle == [step |-> "idle", status |-> 0, token |-> None, force |-> FALSE, keys |-> {},
         raced |-> FALSE, heard |-> FALSE]
CheckInit ==
  /\ keys = {1} /\ newest = 1
  /\ issued = 0 /\ expired = {}
  /\ email \in Emails \cup {NoEmail} /\ ours \in BOOLEAN
  /\ jwks = None
  /\ account = None /\ taken = {}
  /\ requests = [r \in Requests |-> Idle]

-----------------------------------------------------------------------------
(* The provider. *)
Rotate ==
  /\ newest < MaxKey
  /\ newest' = newest + 1 /\ keys' = keys \cup {newest + 1}
  /\ UNCHANGED <<issued, expired, email, ours, service, requests>>
Withdraw(k) ==
  /\ k \in keys /\ k # newest
  /\ keys' = keys \ {k}
  /\ UNCHANGED <<newest, issued, expired, email, ours, service, requests>>
Expire(n) ==
  /\ n \in 1..issued \ expired
  /\ expired' = expired \cup {n}
  /\ UNCHANGED <<keys, newest, issued, email, ours, service, requests>>
ChangeEmail(e) ==
  /\ e # email
  /\ email' = e
  /\ UNCHANGED <<keys, newest, issued, expired, ours, service, requests>>
Token == [serial |-> issued + 1, key |-> newest, email |-> email]

OtherSignsIn(e) ==
  /\ e \notin taken /\ e # account
  /\ taken' = taken \cup {e}
  /\ UNCHANGED <<provider, jwks, account, requests>>

-----------------------------------------------------------------------------
(* _resolve_user for the request r. *)
At(r, step) == requests[r].step = step
Becomes(r, q) == requests' = [requests EXCEPT ![r] = q]
\* An answer to a page that is gone by then is forgotten.
Answered(q, status) ==
  IF q.heard THEN [q EXCEPT !.step = "answered", !.status = status, !.keys = {}] ELSE Idle

\* A request with the token it carries; one without a token is refused.
Sent(token) ==
  IF token = None THEN [Idle EXCEPT !.step = "answered", !.status = 401, !.heard = TRUE]
  ELSE [Idle EXCEPT !.step = "check", !.token = token, !.heard = TRUE]

Current(t, known) == t.key \in known /\ t.serial \notin expired
\* Slip: one look at the cached keys is all there is.
SlipDecoded(q, known) ==
  IF Current(q.token, known) /\ ours THEN [q EXCEPT !.step = "claims", !.keys = {}] ELSE Answered(q, 401)
\* jwt.decode with a key set: the claims are looked at when the signature is
\* right and the token current; anything but a wrong claim is tried again with
\* keys fetched anew.
Decoded(q, known) ==
  CASE Current(q.token, known) /\ ours -> [q EXCEPT !.step = "claims", !.keys = {}]
    [] ~Current(q.token, known) /\ ~q.force -> [q EXCEPT !.step = "check", !.force = TRUE, !.keys = {}]
    [] OTHER -> Answered(q, 401)

GetKeys(r) ==
  /\ At(r, "check")
  /\ Becomes(r, IF jwks = None \/ requests[r].force
                  THEN [requests[r] EXCEPT !.step = "fetch"]
                  ELSE Decoded(requests[r], jwks))
  /\ UNCHANGED <<provider, service>>
\* The provider answers with what it publishes then; the answer takes its time.
KeysRead(r) ==
  /\ At(r, "fetch")
  /\ Becomes(r, [requests[r] EXCEPT !.step = "fetched", !.keys = keys])
  /\ UNCHANGED <<provider, service>>
KeysFetched(r) ==
  /\ At(r, "fetched")
  /\ jwks' = requests[r].keys
  /\ Becomes(r, Decoded(requests[r], requests[r].keys))
  /\ UNCHANGED <<provider, account, taken>>
\* No answer, or none in time: OIDCUnavailable.
KeysMissing(r) ==
  /\ At(r, "fetch")
  /\ Becomes(r, Answered(requests[r], 503))
  /\ UNCHANGED <<provider, service>>
KeysAge ==
  /\ jwks # None
  /\ jwks' = None
  /\ UNCHANGED <<provider, account, taken, requests>>

\* get_or_provision_user: the row is looked for before it is written.
LookUp(r) ==
  /\ At(r, "claims")
  /\ Becomes(r, IF requests[r].token.email = NoEmail THEN Answered(requests[r], 401)
                ELSE [requests[r] EXCEPT !.step = IF account = None THEN "insert" ELSE "update"])
  /\ UNCHANGED <<provider, service>>
UpdateUser(r) ==
  /\ At(r, "update")
  /\ \/ /\ requests[r].token.email \in taken
        /\ Becomes(r, Answered(requests[r], 500))
        /\ UNCHANGED account
     \/ /\ requests[r].token.email \notin taken
        /\ Becomes(r, Answered(requests[r], 200))
        /\ account' = requests[r].token.email
  /\ UNCHANGED <<provider, jwks, taken>>
\* _provision_user.  A second insert waits for the first and then finds the
\* email taken, or the subject if the email is another by now.
ProvisionUser(r) ==
  /\ At(r, "insert")
  /\ \/ /\ requests[r].token.email \in taken
        /\ Becomes(r, Answered(requests[r], 401))
        /\ UNCHANGED account
     \/ /\ requests[r].token.email = account
        /\ Becomes(r, Answered([requests[r] EXCEPT !.raced = TRUE], 401))
        /\ UNCHANGED account
     \/ /\ requests[r].token.email \notin taken /\ account \notin {None, requests[r].token.email}
        /\ Becomes(r, Answered(requests[r], 500))
        /\ UNCHANGED account
     \/ /\ requests[r].token.email \notin taken /\ account = None
        /\ Becomes(r, Answered(requests[r], 200))
        /\ account' = requests[r].token.email
  /\ UNCHANGED <<provider, jwks, taken>>

ProviderNext ==
  \/ Rotate
  \/ \E k \in keys : Withdraw(k)
  \/ \E n \in 1..issued : Expire(n)
  \/ \E e \in Emails \cup {NoEmail} : ChangeEmail(e)
ServiceNext == \E r \in Requests :
  \/ GetKeys(r) \/ KeysRead(r) \/ KeysFetched(r) \/ KeysMissing(r)
  \/ LookUp(r) \/ UpdateUser(r) \/ ProvisionUser(r)
=============================================================================
