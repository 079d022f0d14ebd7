---------------------------- MODULE SignInProofs ----------------------------
(***************************************************************************)
(* What is proved of SignIn, for every number of requests, keys, tokens,   *)
(* addresses and pages: the three properties the run signin checks.        *)
(***************************************************************************)
EXTENDS SignIn, TLAPS

(* Requests. *)
Steps == {"idle", "check", "fetch", "fetched", "claims", "insert", "update", "answered"}
Tokens == [serial : Nat, key : 1..newest, email : Emails \cup {NoEmail}]
Statuses == {0, 200, 401, 500, 503}
KeySets == SUBSET (1..newest)
Request == [step : Steps, status : Statuses, token : Tokens \cup {None},
            force : BOOLEAN, keys : KeySets, raced : BOOLEAN, heard : BOOLEAN]
RequestsOK ==
  /\ newest \in Nat /\ issued \in Nat
  /\ keys \subseteq 1..newest /\ newest \in 1..newest
  /\ email \in Emails \cup {NoEmail}
  /\ token \in Tokens \cup {None}
  /\ requests \in [Requests -> Request]

\* A token that is under way, and not known to the keys read for it, is of a
\* key withdrawn by then, for no key comes back.
Blameless(q) ==
  /\ q.step = "answered" => q.heard
  /\ q.step \notin {"idle", "answered"} => q.token # None
  /\ q.step = "fetched" /\ q.token.key \notin q.keys => q.token.key \notin keys
  /\ q.step = "answered" /\ q.status = 401 /\ q.token # None => Culpable(q.token) \/ q.raced
RequestsInv ==
  /\ RequestsOK
  /\ \A r \in Requests : Blameless(requests[r])
  /\ url \in {"closed", "away"} => \A r \in Requests : ~requests[r].heard

(* The way. *)
\* What the navigations are, and how many sign-ins the app has begun.
HeadingOK == heading = None \/ heading = AutoLogin \/ \E to \in Pages \cup {"login"} : heading = Path(to)
AutosInv == autos \in {0, 1} /\ (heading = AutoLogin => autos = 0)
AtRest == url \in {"closed", "away"} => heading = None /\ ~preloading
OnTheWay ==
  /\ url \in Pages /\ heading \in {None, Path("login")} => url = headed
  /\ \A to \in Pages : heading = Path(to) => to = headed
  /\ heading \in {AutoLogin, Path("login")} => returnUrl = headed
  /\ url \in {"login", "away"} /\ heading = None => returnUrl = headed
WayInv ==
  /\ url \in Pages \cup {"login", "away", "closed"}
  /\ returnUrl \in Pages \cup {None}
  /\ HeadingOK /\ AtRest
  /\ headed \in Pages /\ ~diverted => OnTheWay

AutoInv == HeadingOK /\ AutosInv

-----------------------------------------------------------------------------
(* The requests. *)

LEMMA HeardField ==
  ASSUME NEW q \in Request, NEW h \in BOOLEAN
  PROVE  LET a == [q EXCEPT !.heard = h]
         IN  /\ a \in Request
             /\ a.step = q.step /\ a.status = q.status /\ a.token = q.token /\ a.force = q.force
             /\ a.keys = q.keys /\ a.raced = q.raced /\ a.heard = h
BY DEF Request
LEMMA RacedField ==
  ASSUME NEW q \in Request, NEW d \in BOOLEAN
  PROVE  LET a == [q EXCEPT !.raced = d]
         IN  /\ a \in Request
             /\ a.step = q.step /\ a.status = q.status /\ a.token = q.token /\ a.force = q.force
             /\ a.keys = q.keys /\ a.raced = d /\ a.heard = q.heard
BY DEF Request
LEMMA TokenField ==
  ASSUME NEW q \in Request, NEW t \in Tokens \cup {None}
  PROVE  LET a == [q EXCEPT !.token = t]
         IN  /\ a \in Request
             /\ a.step = q.step /\ a.status = q.status /\ a.token = t /\ a.force = q.force
             /\ a.keys = q.keys /\ a.raced = q.raced /\ a.heard = q.heard
BY DEF Request
LEMMA NoKeys == {} \in KeySets
BY DEF KeySets

\* One field at a time: what an EXCEPT leaves of a request.
LEMMA StepField ==
  ASSUME NEW q \in Request, NEW s \in Steps
  PROVE  LET a == [q EXCEPT !.step = s]
         IN  /\ a \in Request
             /\ a.step = s /\ a.status = q.status /\ a.token = q.token /\ a.force = q.force
             /\ a.keys = q.keys /\ a.raced = q.raced /\ a.heard = q.heard
BY DEF Request
LEMMA KeysField ==
  ASSUME NEW q \in Request, NEW k \in KeySets
  PROVE  LET a == [q EXCEPT !.keys = k]
         IN  /\ a \in Request
             /\ a.step = q.step /\ a.status = q.status /\ a.token = q.token /\ a.force = q.force
             /\ a.keys = k /\ a.raced = q.raced /\ a.heard = q.heard
BY DEF Request
LEMMA StatusField ==
  ASSUME NEW q \in Request, NEW n \in Statuses
  PROVE  LET a == [q EXCEPT !.status = n]
         IN  /\ a \in Request
             /\ a.step = q.step /\ a.status = n /\ a.token = q.token /\ a.force = q.force
             /\ a.keys = q.keys /\ a.raced = q.raced /\ a.heard = q.heard
BY DEF Request
LEMMA ForceField ==
  ASSUME NEW q \in Request, NEW f \in BOOLEAN
  PROVE  LET a == [q EXCEPT !.force = f]
         IN  /\ a \in Request
             /\ a.step = q.step /\ a.status = q.status /\ a.token = q.token /\ a.force = f
             /\ a.keys = q.keys /\ a.raced = q.raced /\ a.heard = q.heard
BY DEF Request

\* The answer to a request, or nothing when nobody waits for it.
LEMMA AnsweredOK ==
  ASSUME NEW q \in Request, NEW n \in Statuses,
         n = 401 /\ q.heard /\ q.token # None => Culpable(q.token) \/ q.raced
  PROVE  /\ Answered(q, n) \in Request /\ Blameless(Answered(q, n))
         /\ Answered(q, n).heard => q.heard
<1>1. Idle \in Request /\ Blameless(Idle) /\ ~Idle.heard
  BY NoKeys DEF Idle, Request, Statuses, Steps, Blameless
<1>2. CASE ~q.heard
  BY <1>1, <1>2 DEF Answered
<1>3. CASE q.heard
  <2> DEFINE a == [q EXCEPT !.step = "answered", !.status = n, !.keys = {}]
  <2>1. Answered(q, n) = a
    BY <1>3 DEF Answered
  <2> DEFINE b == [q EXCEPT !.step = "answered"]
             c == [b EXCEPT !.status = n]
  <2>2. a = [c EXCEPT !.keys = {}]
    OBVIOUS
  <2>3. /\ b \in Request /\ b.step = "answered"
        /\ b.token = q.token /\ b.raced = q.raced /\ b.heard = q.heard
    BY StepField DEF Steps
  <2>4. /\ c \in Request /\ c.step = "answered" /\ c.status = n
        /\ c.token = q.token /\ c.raced = q.raced /\ c.heard = q.heard
    <3> HIDE DEF b
    <3> QED  BY <2>3, StatusField
  <2>5. /\ a \in Request /\ a.step = "answered" /\ a.status = n
        /\ a.token = q.token /\ a.raced = q.raced /\ a.heard = q.heard
    <3> HIDE DEF a, c
    <3> QED  BY <2>2, <2>4, KeysField, NoKeys
  <2>6. Blameless(a)
    BY <1>3, <2>5 DEF Blameless
  <2>7. QED
    BY <1>3, <2>1, <2>5, <2>6
<1>4. QED
  BY <1>2, <1>3

\* A look at the token with a set of keys.
LEMMA DecodedOK ==
  ASSUME NEW q \in Request, q.token # None, NEW known,
         q.force /\ q.token.key \notin known => q.token.key \notin keys
  PROVE  /\ Decoded(q, known) \in Request /\ Blameless(Decoded(q, known))
         /\ Decoded(q, known).heard => q.heard
<1>1. CASE Current(q.token, known) /\ ours
  <2> DEFINE a == [q EXCEPT !.step = "claims", !.keys = {}]
  <2>1. Decoded(q, known) = a
    BY <1>1 DEF Decoded
  <2> DEFINE b == [q EXCEPT !.step = "claims"]
  <2>2. a = [b EXCEPT !.keys = {}]
    OBVIOUS
  <2>3. b \in Request /\ b.step = "claims" /\ b.token = q.token /\ b.heard = q.heard
    BY StepField DEF Steps
  <2>4. a \in Request /\ a.step = "claims" /\ a.token = q.token /\ a.heard = q.heard
    <3> HIDE DEF a, b
    <3> QED  BY <2>2, <2>3, KeysField, NoKeys
  <2>5. QED
    BY <2>1, <2>4 DEF Blameless
<1>2. CASE ~Current(q.token, known) /\ ~q.force
  <2> DEFINE a == [q EXCEPT !.step = "check", !.force = TRUE, !.keys = {}]
  <2>1. Decoded(q, known) = a
    BY <1>2 DEF Decoded
  <2> DEFINE b == [q EXCEPT !.step = "check"]
             c == [b EXCEPT !.force = TRUE]
  <2>2. a = [c EXCEPT !.keys = {}]
    OBVIOUS
  <2>3. b \in Request /\ b.step = "check" /\ b.token = q.token /\ b.heard = q.heard
    BY StepField DEF Steps
  <2>4. c \in Request /\ c.step = "check" /\ c.token = q.token /\ c.heard = q.heard
    <3> HIDE DEF b
    <3> QED  BY <2>3, ForceField
  <2>5. a \in Request /\ a.step = "check" /\ a.token = q.token /\ a.heard = q.heard
    <3> HIDE DEF a, c
    <3> QED  BY <2>2, <2>4, KeysField, NoKeys
  <2>6. QED
    BY <2>1, <2>5 DEF Blameless
<1>3. CASE ~(Current(q.token, known) /\ ours) /\ ~(~Current(q.token, known) /\ ~q.force)
  <2>1. Decoded(q, known) = Answered(q, 401)
    BY <1>3 DEF Decoded
  <2>2. Culpable(q.token)
    BY <1>3 DEF Culpable, Current
  <2> DEFINE n == 401
  <2>3. n \in Statuses
    BY DEF Statuses
  <2> HIDE DEF n
  <2>4. /\ Answered(q, n) \in Request /\ Blameless(Answered(q, n))
        /\ Answered(q, n).heard => q.heard
    BY <2>2, <2>3, AnsweredOK
  <2>5. QED
    BY <2>1, <2>4 DEF n
<1>4. QED
  BY <1>1, <1>2, <1>3

\* One request takes a step.
LEMMA OneRequest ==
  ASSUME RequestsInv, NEW r \in Requests, NEW q \in Request, Blameless(q),
         requests' = [requests EXCEPT ![r] = q],
         q.heard => requests[r].heard \/ url \notin {"closed", "away"},
         UNCHANGED <<provider, taken, token, url>>
  PROVE  RequestsInv'
<1>1. Tokens' = Tokens /\ Request' = Request
  BY DEF Tokens, KeySets, Request, provider
<1>2. RequestsOK'
  BY <1>1 DEF RequestsInv, RequestsOK, provider
<1>3. ASSUME NEW s \in Requests PROVE Blameless(requests[s])'
  <2>1. requests'[s] = q \/ requests'[s] = requests[s]
    BY DEF RequestsInv, RequestsOK
  <2>2. QED
    BY <2>1 DEF RequestsInv, Blameless, Culpable, provider
<1>4. ASSUME url' \in {"closed", "away"}, NEW s \in Requests PROVE ~requests'[s].heard
  BY <1>4 DEF RequestsInv, RequestsOK
<1>5. QED
  BY <1>2, <1>3, <1>4 DEF RequestsInv

LEMMA IdleOK == Idle \in Request /\ Blameless(Idle) /\ ~Idle.heard
BY NoKeys DEF Idle, Request, Statuses, Steps, Blameless

\* One request is answered.
LEMMA OneAnswer ==
  ASSUME RequestsInv, NEW r \in Requests, NEW q \in Request, NEW n \in Statuses,
         n = 401 /\ q.heard /\ q.token # None => Culpable(q.token) \/ q.raced,
         Becomes(r, Answered(q, n)), q.heard => requests[r].heard,
         UNCHANGED <<provider, taken, token, url>>
  PROVE  RequestsInv'
<1> DEFINE a == Answered(q, n)
<1>1. a \in Request /\ Blameless(a) /\ (a.heard => q.heard)
  BY AnsweredOK
<1>2. requests' = [requests EXCEPT ![r] = a]
  BY DEF Becomes
<1> HIDE DEF a
<1>3. QED
  BY <1>1, <1>2, OneRequest

LEMMA SentOK ==
  ASSUME NEW t \in Tokens \cup {None}
  PROVE  Sent(t) \in Request /\ Blameless(Sent(t))
<1>0. Idle \in Request /\ Idle.token = None
  BY IdleOK DEF Idle
<1>1. CASE t = None
  <2> DEFINE a == [Idle EXCEPT !.step = "answered"]
             n == 401
             b == [a EXCEPT !.status = n]
             c == [b EXCEPT !.heard = TRUE]
  <2> HIDE DEF n
  <2>1. Sent(t) = c
    BY <1>1, Zenon DEF Sent, n
  <2>2. a \in Request /\ a.step = "answered" /\ a.token = None
    BY <1>0, StepField DEF Steps
  <2>3. n \in Statuses
    BY DEF n, Statuses
  <2>4. b \in Request /\ b.step = "answered" /\ b.token = None
    <3> HIDE DEF a
    <3> QED  BY <2>2, <2>3, StatusField
  <2>5. c \in Request /\ c.step = "answered" /\ c.token = None /\ c.heard
    <3> HIDE DEF b
    <3> QED  BY <2>4, HeardField
  <2> HIDE DEF c
  <2>6. QED
    BY <2>1, <2>5 DEF Blameless
<1>2. CASE t # None
  <2> DEFINE a == [Idle EXCEPT !.step = "check"]
             b == [a EXCEPT !.token = t]
             c == [b EXCEPT !.heard = TRUE]
  <2>1. Sent(t) = c
    BY <1>2, Zenon DEF Sent
  <2>2. a \in Request /\ a.step = "check"
    BY <1>0, StepField DEF Steps
  <2>3. b \in Request /\ b.step = "check" /\ b.token = t
    <3> HIDE DEF a
    <3> QED  BY <2>2, TokenField
  <2>4. c \in Request /\ c.step = "check" /\ c.token = t
    <3> HIDE DEF b
    <3> QED  BY <2>3, HeardField
  <2> HIDE DEF c
  <2>5. QED
    BY <1>2, <2>1, <2>4 DEF Blameless
<1>3. QED
  BY <1>1, <1>2

\* None takes a step, and what a token is refused for stays.
LEMMA NoRequest ==
  ASSUME RequestsInv, UNCHANGED <<requests, keys, newest, expired, ours, email, taken>>,
         token' \in Tokens \cup {None}, issued' \in Nat,
         url' \in {"closed", "away"} => url \in {"closed", "away"}
  PROVE  RequestsInv'
<1>1. Tokens' = Tokens /\ Request' = Request
  BY DEF Tokens, KeySets, Request
<1>2. RequestsOK'
  BY <1>1 DEF RequestsInv, RequestsOK
<1>3. ASSUME NEW r \in Requests PROVE Blameless(requests[r])'
  BY DEF RequestsInv, Blameless, Culpable
<1>4. QED
  BY <1>2, <1>3 DEF RequestsInv

\* The page is left.
LEMMA PageLeft ==
  ASSUME RequestsInv, Unheard, UNCHANGED <<keys, newest, expired, ours, email, taken>>,
         token' \in Tokens \cup {None}, issued' \in Nat
  PROVE  RequestsInv'
<1>1. Tokens' = Tokens /\ Request' = Request
  BY DEF Tokens, KeySets, Request
<1>2. ASSUME NEW r \in Requests
      PROVE  requests'[r] \in Request /\ Blameless(requests'[r]) /\ ~requests'[r].heard
  <2> DEFINE q == requests[r]
             a == [q EXCEPT !.heard = FALSE]
  <2>1. q \in Request /\ Blameless(q)
    BY DEF RequestsInv, RequestsOK
  <2>2. CASE q.step \in {"idle", "answered"}
    BY <2>2, IdleOK DEF Unheard, At
  <2>3. CASE q.step \notin {"idle", "answered"}
    <3>1. requests'[r] = a
      BY <2>3 DEF Unheard, At
    <3>2. /\ a \in Request /\ a.step = q.step /\ a.token = q.token
          /\ a.keys = q.keys /\ a.heard = FALSE
      <4> HIDE DEF q
      <4> QED  BY <2>1, HeardField
    <3>3. Blameless(a)
      <4> HIDE DEF q, a
      <4> QED  BY <2>1, <2>3, <3>2 DEF Blameless
    <3>4. QED
      BY <3>1, <3>2, <3>3
  <2>4. QED
    BY <2>2, <2>3
<1>3. RequestsOK'
  BY <1>1, <1>2 DEF RequestsInv, RequestsOK, Unheard
<1>4. ASSUME NEW r \in Requests PROVE Blameless(requests[r])'
  <2>1. Blameless(requests'[r])
    BY <1>2
  <2>2. QED
    BY <2>1 DEF Blameless, Culpable
<1>5. QED
  BY <1>2, <1>3, <1>4 DEF RequestsInv

-----------------------------------------------------------------------------
(* Each step keeps the invariant of the requests. *)

LEMMA RotateOK == ASSUME RequestsInv, Rotate, UNCHANGED <<storage, tab>> PROVE RequestsInv'
<1> USE DEF RequestsInv
<1>1. newest' = newest + 1 /\ newest \in Nat /\ 1..newest \subseteq 1..newest'
  BY DEF RequestsOK, Rotate
<1>2. Tokens \subseteq Tokens'
  BY <1>1 DEF Tokens
<1>3. KeySets \subseteq KeySets'
  BY <1>1 DEF KeySets
<1>4. Request \subseteq Request'
  BY <1>2, <1>3 DEF Request
<1>5. RequestsOK'
  <2>1. keys' \subseteq 1..newest' /\ newest' \in 1..newest' /\ newest' \in Nat
    BY <1>1 DEF RequestsOK, Rotate
  <2>2. token' \in Tokens' \cup {None}
    BY <1>2 DEF RequestsOK, Rotate, storage
  <2>3. requests' \in [Requests -> Request']
    BY <1>4 DEF RequestsOK, Rotate
  <2>4. QED
    BY <2>1, <2>2, <2>3 DEF RequestsOK, Rotate
<1>6. ASSUME NEW r \in Requests PROVE Blameless(requests[r])'
  <2> DEFINE q == requests[r]
  <2>1. Blameless(q) /\ q \in Request
    BY DEF RequestsOK
  <2>2. q.token # None => q.token.key # newest'
    <3>1. q.token \in Tokens \cup {None}
      <4> HIDE DEF q
      <4> QED  BY <2>1 DEF Request
    <3>2. ASSUME NEW t \in Tokens PROVE t.key # newest'
      BY <1>1 DEF Tokens
    <3>3. QED
      BY <3>1, <3>2
  <2>3. q' = q /\ keys' = keys \cup {newest'}
    BY DEF Rotate
  <2> HIDE DEF q
  <2>4. Blameless(q)'
    BY <2>1, <2>2, <2>3 DEF Blameless, Culpable, Rotate, service
  <2>5. QED
    BY <2>4 DEF q
<1>7. QED
  BY <1>5, <1>6 DEF Rotate, tab

\* A withdrawal, an expiry, somebody's row: there is only more to be refused for.
LEMMA WorseOK ==
  ASSUME RequestsInv, UNCHANGED <<requests, newest, issued, ours, token, url>>,
         keys' \subseteq keys, expired \subseteq expired', taken \subseteq taken',
         newest \in keys => newest \in keys', email' \in Emails \cup {NoEmail}
  PROVE  RequestsInv'
<1>1. Tokens' = Tokens /\ Request' = Request
  BY DEF Tokens, KeySets, Request
<1>2. RequestsOK'
  BY <1>1 DEF RequestsInv, RequestsOK
<1>3. ASSUME NEW r \in Requests PROVE Blameless(requests[r])'
  BY DEF RequestsInv, Blameless, Culpable
<1>4. QED
  BY <1>2, <1>3 DEF RequestsInv

LEMMA ServiceOK ==
  ASSUME RequestsInv, NEW r \in Requests, UNCHANGED <<storage, tab>>,
         GetKeys(r) \/ KeysRead(r) \/ KeysFetched(r) \/ KeysMissing(r)
           \/ LookUp(r) \/ UpdateUser(r) \/ ProvisionUser(r)
  PROVE  RequestsInv'
<1> DEFINE q == requests[r]
<1>0. q \in Request /\ Blameless(q) /\ UNCHANGED <<token, url>>
  BY DEF RequestsInv, RequestsOK, storage, tab
<1>1. ASSUME GetKeys(r) PROVE RequestsInv'
  <2>1. CASE jwks = None \/ q.force
    <3> DEFINE a == [q EXCEPT !.step = "fetch"]
    <3>1. a \in Request /\ a.step = "fetch" /\ a.token = q.token /\ a.heard = q.heard
      <4> HIDE DEF q
      <4> QED  BY <1>0, StepField DEF Steps
    <3>2. Blameless(a)
      <4> HIDE DEF a
      <4> QED  BY <1>0, <1>1, <3>1 DEF Blameless, GetKeys, At
    <3>3. QED
      BY <1>0, <1>1, <2>1, <3>1, <3>2, OneRequest DEF GetKeys, Becomes, service, provider
  <2>2. CASE ~(jwks = None \/ q.force)
    <3> DEFINE a == Decoded(q, jwks)
    <3>1. a \in Request /\ Blameless(a) /\ (a.heard => q.heard)
      <4>1. q.token # None
        BY <1>0, <1>1 DEF Blameless, GetKeys, At
      <4> HIDE DEF q
      <4> QED  BY <1>0, <2>2, <4>1, DecodedOK
    <3>2. requests' = [requests EXCEPT ![r] = a]
      BY <1>1, <2>2 DEF GetKeys, Becomes
    <3> HIDE DEF a
    <3>3. QED
      BY <1>0, <1>1, <3>1, <3>2, OneRequest DEF GetKeys, service, provider
  <2>3. QED
    BY <2>1, <2>2
<1>2. ASSUME KeysRead(r) PROVE RequestsInv'
  <2> DEFINE b == [q EXCEPT !.step = "fetched"]
             a == [q EXCEPT !.step = "fetched", !.keys = keys]
  <2>1. b \in Request /\ b.step = "fetched" /\ b.token = q.token /\ b.heard = q.heard
    <3> HIDE DEF q
    <3> QED  BY <1>0, StepField DEF Steps
  <2>2. a = [b EXCEPT !.keys = keys] /\ keys \in KeySets
    BY DEF RequestsInv, RequestsOK, KeySets
  <2>3. a \in Request /\ a.step = "fetched" /\ a.token = q.token /\ a.keys = keys /\ a.heard = q.heard
    <3> HIDE DEF a, b
    <3> QED  BY <2>1, <2>2, KeysField
  <2>4. Blameless(a)
    <3> HIDE DEF a
    <3> QED  BY <1>0, <1>2, <2>3 DEF Blameless, KeysRead, At
  <2>5. requests' = [requests EXCEPT ![r] = a]
    BY <1>2 DEF KeysRead, Becomes
  <2> HIDE DEF a
  <2>6. QED
    BY <1>0, <1>2, <2>3, <2>4, <2>5, OneRequest DEF KeysRead, service, provider
<1>3. ASSUME KeysFetched(r) PROVE RequestsInv'
  <2> DEFINE a == Decoded(q, q.keys)
  <2>1. a \in Request /\ Blameless(a) /\ (a.heard => q.heard)
    <3>1. q.token # None /\ (q.token.key \notin q.keys => q.token.key \notin keys)
      BY <1>0, <1>3 DEF Blameless, KeysFetched, At
    <3> HIDE DEF q
    <3> QED  BY <1>0, <3>1, DecodedOK
  <2>2. requests' = [requests EXCEPT ![r] = a]
    BY <1>3 DEF KeysFetched, Becomes
  <2> HIDE DEF a
  <2>3. QED
    BY <1>0, <1>3, <2>1, <2>2, OneRequest DEF KeysFetched, provider
<1>4. ASSUME KeysMissing(r) PROVE RequestsInv'
  <2> DEFINE n == 503
  <2>1. n \in Statuses /\ n # 401
    BY DEF Statuses
  <2>2. Becomes(r, Answered(q, n)) /\ UNCHANGED <<provider, taken>>
    BY <1>4 DEF KeysMissing, service, provider
  <2> HIDE DEF n
  <2>3. QED
    BY <1>0, <2>1, <2>2, OneAnswer
<1>5. ASSUME LookUp(r) PROVE RequestsInv'
  <2>1. q.token # None /\ UNCHANGED <<provider, taken>>
    BY <1>0, <1>5 DEF Blameless, LookUp, At, provider, service
  <2>2. CASE q.token.email = NoEmail
    <3> DEFINE n == 401
    <3>1. n \in Statuses /\ Culpable(q.token)
      BY <2>2 DEF Statuses, Culpable
    <3>2. Becomes(r, Answered(q, n))
      BY <1>5, <2>2 DEF LookUp
    <3> HIDE DEF n
    <3>3. QED
      BY <1>0, <2>1, <3>1, <3>2, OneAnswer
  <2>3. CASE q.token.email # NoEmail
    <3> DEFINE s == IF account = None THEN "insert" ELSE "update"
               a == [q EXCEPT !.step = s]
    <3>1. s \in Steps \ {"fetched", "answered"}
      BY DEF Steps
    <3>2. a \in Request /\ a.step = s /\ a.token = q.token /\ a.heard = q.heard
      <4> HIDE DEF q, s
      <4> QED  BY <1>0, <3>1, StepField
    <3>3. Blameless(a)
      <4> HIDE DEF a, s
      <4> QED  BY <2>1, <3>1, <3>2 DEF Blameless
    <3>4. requests' = [requests EXCEPT ![r] = a]
      BY <1>5, <2>3 DEF LookUp, Becomes
    <3> HIDE DEF a
    <3>5. QED
      BY <1>0, <2>1, <3>2, <3>3, <3>4, OneRequest
  <2>4. QED
    BY <2>2, <2>3
<1>6. ASSUME UpdateUser(r) PROVE RequestsInv'
  <2>1. PICK n \in {500, 200} : Becomes(r, Answered(q, n))
    BY <1>6 DEF UpdateUser
  <2>2. n \in Statuses /\ n # 401 /\ UNCHANGED <<provider, taken>>
    BY <1>6 DEF Statuses, UpdateUser, provider
  <2>3. QED
    BY <1>0, <2>1, <2>2, OneAnswer
<1>7. ASSUME ProvisionUser(r) PROVE RequestsInv'
  <2>0. UNCHANGED <<provider, taken>>
    BY <1>7 DEF ProvisionUser, provider
  <2>1. CASE q.token.email \in taken /\ Becomes(r, Answered(q, 401))
    <3> DEFINE n == 401
    <3>1. n \in Statuses /\ Culpable(q.token) /\ Becomes(r, Answered(q, n))
      BY <2>1 DEF Statuses, Culpable
    <3> HIDE DEF n
    <3>2. QED
      BY <1>0, <2>0, <3>1, OneAnswer
  <2>2. CASE Becomes(r, Answered([q EXCEPT !.raced = TRUE], 401))
    <3> DEFINE n == 401
               b == [q EXCEPT !.raced = TRUE]
    <3>1. n \in Statuses /\ Becomes(r, Answered(b, n))
      BY <2>2 DEF Statuses
    <3>2. b \in Request /\ b.raced /\ b.heard = q.heard
      <4> HIDE DEF q
      <4> QED  BY <1>0, RacedField
    <3> HIDE DEF n, b
    <3>3. QED
      BY <1>0, <2>0, <3>1, <3>2, OneAnswer
  <2>3. CASE \E n \in {500, 200} : Becomes(r, Answered(q, n))
    <3>1. PICK n \in {500, 200} : Becomes(r, Answered(q, n))
      BY <2>3
    <3>2. n \in Statuses /\ n # 401
      BY DEF Statuses
    <3>3. QED
      BY <1>0, <2>0, <3>1, <3>2, OneAnswer
  <2>4. QED
    BY <1>7, <2>1, <2>2, <2>3 DEF ProvisionUser
<1>8. QED
  BY <1>1, <1>2, <1>3, <1>4, <1>5, <1>6, <1>7

-----------------------------------------------------------------------------
(* Sign-ins the app starts. *)

LEMMA Headings == None # AutoLogin /\ (\A to \in Pages \cup {"login"} : Path(to) \notin {None, AutoLogin})
<1>1. AutoLogin \in [to : Pages \cup {"login"}, auto : BOOLEAN]
  BY DEF AutoLogin
<1>2. ASSUME NEW to \in Pages \cup {"login"}
      PROVE  Path(to) \in [to : Pages \cup {"login"}, auto : BOOLEAN] /\ Path(to).auto # AutoLogin.auto
  BY DEF AutoLogin, Path
<1>3. QED
  BY <1>1, <1>2, SessionAssumption

LEMMA AutoStep == AutoInv /\ [Next]_allVars => AutoInv'
<1> SUFFICES ASSUME AutoInv, [Next]_allVars PROVE AutoInv'
  OBVIOUS
<1> USE DEF AutoInv, AutosInv
<1>1. CASE UNCHANGED <<heading, autos>>
  BY <1>1 DEF HeadingOK
<1>2. CASE heading' = None /\ autos' \in {0, 1}
  BY <1>2, Headings DEF HeadingOK
<1>3. ASSUME NEW to \in Pages, Navigate(to) PROVE AutoInv'
  BY <1>3, Headings DEF HeadingOK, Navigate, UserGoes
<1>4. ASSUME Arrive PROVE AutoInv'
  <2>1. heading.auto => heading = AutoLogin
    BY <1>4 DEF HeadingOK, Path, AutoLogin, Arrive
  <2>2. autos' \in {0, 1} /\ heading' = None
    BY <1>4, <2>1 DEF Arrive
  <2>3. QED
    BY <2>2, <1>2
<1>5. ASSUME NEW r \in Requests, Hear(r) PROVE AutoInv'
  BY <1>5, Headings DEF HeadingOK, Hear, Refused
<1>6. ASSUME Move PROVE AutoInv'
  <2>1. CASE \E to \in Pages \cup {"login"} : OpenApp(to)
    BY <2>1, <1>2 DEF OpenApp, Load
  <2>2. CASE signIn
    BY <2>2, Headings DEF signIn, HeadingOK
  <2>3. CASE signOut
    BY <2>3, <1>2 DEF signOut, Load
  <2>4. CASE Renew \/ RenewFails
    BY <2>4, <1>1 DEF Renew, RenewFails, tab, history
  <2>5. QED
    BY <1>6, <1>1, <1>3, <2>1, <2>2, <2>3, <2>4 DEF Move, tab, history
<1>7. ASSUME Turn PROVE AutoInv'
  <2>1. CASE Authorize
    BY <2>1, <1>2 DEF Authorize, Load
  <2>2. CASE Unreachable
    BY <2>2, <1>1 DEF Unreachable, history
  <2>3. CASE \E done \in BOOLEAN : Callback(done)
    BY <2>3, <1>2 DEF Callback, Load, history
  <2>4. CASE \E r \in Requests : Send(r)
    BY <2>4, <1>1 DEF Send, tab, history
  <2>5. QED
    BY <1>7, <1>1, <1>4, <1>5, <2>1, <2>2, <2>3, <2>4 DEF Turn, tab, history
<1>8. QED
  BY <1>1, <1>6, <1>7 DEF Next, allVars, vars, tab, history

\* However the answers, the provider and the user take turns, the app starts at
\* most one sign-in by itself between two things the user does.
THEOREM AtMostOneSignIn == Spec => []NoSignInLoop
<1>1. Init => AutoInv
  BY Headings DEF Init, SessionInit, AutoInv, AutosInv, HeadingOK
<1>2. AutoInv => NoSignInLoop
  BY DEF AutoInv, AutosInv, NoSignInLoop
<1>3. QED
  BY <1>1, <1>2, AutoStep, PTL DEF Spec

-----------------------------------------------------------------------------
(* Refusals. *)

LEMMA RequestsStep == RequestsInv /\ HeadingOK /\ [Next]_allVars => RequestsInv'
<1> SUFFICES ASSUME RequestsInv, HeadingOK, [Next]_allVars PROVE RequestsInv'
  OBVIOUS
<1>1. Token \in Tokens /\ issued + 1 \in Nat
  BY DEF RequestsInv, RequestsOK, Token, Tokens
<1>2. token \in Tokens \cup {None} /\ issued \in Nat
  BY DEF RequestsInv, RequestsOK
<1>3. ASSUME Move PROVE RequestsInv'
  <2>1. CASE ProviderNext /\ UNCHANGED <<storage, tab, history>>
    <3>1. CASE Rotate
      BY <2>1, <3>1, RotateOK
    <3>2. CASE \E k \in keys : Withdraw(k)
      BY <2>1, <3>2, WorseOK DEF Withdraw, service, storage, tab, RequestsInv, RequestsOK
    <3>3. CASE \E n \in 1..issued : Expire(n)
      BY <2>1, <3>3, WorseOK DEF Expire, service, storage, tab, RequestsInv, RequestsOK
    <3>4. CASE \E e \in Emails \cup {NoEmail} : ChangeEmail(e)
      BY <2>1, <3>4, WorseOK DEF ChangeEmail, service, storage, tab
    <3>5. QED
      BY <2>1, <3>1, <3>2, <3>3, <3>4 DEF ProviderNext
  <2>2. CASE (\E e \in Emails : OtherSignsIn(e)) /\ UNCHANGED <<storage, tab, history>>
    BY <2>2, WorseOK DEF OtherSignsIn, provider, storage, tab, RequestsInv, RequestsOK
  <2>3. CASE KeysAge /\ UNCHANGED <<storage, tab, history>>
    BY <1>2, <2>3, NoRequest DEF KeysAge, provider, storage, tab
  <2>4. CASE \E to \in Pages \cup {"login"} : OpenApp(to)
    BY <1>2, <2>4, PageLeft DEF OpenApp, Load, provider, service
  <2>5. CASE \E to \in Pages : Navigate(to)
    BY <1>2, <2>5, NoRequest DEF Navigate, checkVars, provider, service
  <2>6. CASE signIn
    BY <1>2, <2>6, NoRequest DEF signIn, checkVars, provider, service, storage
  <2>7. CASE signOut
    BY <1>2, <2>7, PageLeft DEF signOut, Load, provider, service
  <2>8. CASE Renew
    BY <1>1, <2>8, NoRequest DEF Renew, service, tab
  <2>9. CASE RenewFails
    BY <1>2, <2>9, NoRequest DEF RenewFails, checkVars, provider, service
  <2>10. QED
    BY <1>3, <2>1, <2>2, <2>3, <2>4, <2>5, <2>6, <2>7, <2>8, <2>9 DEF Move
<1>4. ASSUME Turn PROVE RequestsInv'
  <2>1. CASE ServiceNext /\ UNCHANGED <<storage, tab, history>>
    BY <2>1, ServiceOK DEF ServiceNext
  <2>2. CASE Arrive
    <3>1. url' \in Pages \cup {"login"}
      BY <2>2, Headings DEF Arrive, HeadingOK, Path, AutoLogin
    <3>2. url' \notin {"closed", "away"}
      BY <3>1, SessionAssumption
    <3>3. QED
      BY <1>2, <2>2, <3>2, NoRequest DEF Arrive, checkVars, provider, service, storage
  <2>3. CASE Authorize
    BY <1>2, <2>3, PageLeft DEF Authorize, Load, provider, service, storage
  <2>4. CASE Unreachable
    BY <1>2, <2>4, NoRequest DEF Unreachable, checkVars, provider, service, storage
  <2>5. CASE \E done \in BOOLEAN : Callback(done)
    BY <1>1, <1>2, <2>5, PageLeft DEF Callback, Load, service
  <2>6. ASSUME NEW r \in Requests, Send(r) PROVE RequestsInv'
    <3> DEFINE q == Sent(token)
    <3>1. q \in Request /\ Blameless(q)
      BY <1>2, SentOK
    <3>2. url \notin {"closed", "away"}
      BY <2>6, SessionAssumption DEF Send
    <3>3. requests' = [requests EXCEPT ![r] = q] /\ UNCHANGED <<provider, taken, token, url>>
      BY <2>6 DEF Send, service, storage, tab
    <3> HIDE DEF q
    <3>4. QED
      BY <3>1, <3>2, <3>3, OneRequest
  <2>7. ASSUME NEW r \in Requests, Hear(r) PROVE RequestsInv'
    BY <2>7, IdleOK, OneRequest DEF Hear, service
  <2>8. QED
    BY <1>4, <2>1, <2>2, <2>3, <2>4, <2>5, <2>6, <2>7 DEF Turn
<1>5. CASE UNCHANGED allVars
  BY <1>2, <1>5, NoRequest DEF allVars, vars, checkVars, provider, service, storage, tab
<1>6. QED
  BY <1>3, <1>4, <1>5 DEF Next

LEMMA SignInInit == Init => RequestsInv /\ AutoInv /\ WayInv
<1> SUFFICES ASSUME Init PROVE RequestsInv /\ AutoInv /\ WayInv
  OBVIOUS
<1>1. AutoInv
  BY Headings DEF Init, SessionInit, AutoInv, AutosInv, HeadingOK
<1>2. RequestsInv
  <2>1. RequestsOK
    BY IdleOK DEF Init, SessionInit, CheckInit, RequestsOK
  <2>2. \A r \in Requests : requests[r] = Idle
    BY DEF Init, SessionInit, CheckInit
  <2>3. QED
    BY <2>1, <2>2, IdleOK DEF RequestsInv
<1>3. WayInv
  BY SessionAssumption, Headings DEF Init, SessionInit, WayInv, HeadingOK, AtRest, OnTheWay
<1>4. QED
  BY <1>1, <1>2, <1>3

\* A token that is refused deserves it, whatever happens to the keys of the
\* provider meanwhile, unless two requests made the row of the user at once.
THEOREM RefusalsHaveCause == Spec => []RefusedForCause
<1>1. Init => RequestsInv /\ AutoInv
  BY SignInInit
<1>2. RequestsInv /\ AutoInv /\ [Next]_allVars => RequestsInv' /\ AutoInv'
  BY RequestsStep, AutoStep DEF AutoInv
<1>3. RequestsInv => RefusedForCause
  BY DEF RequestsInv, RefusedForCause, Blameless, At
<1>4. QED
  BY <1>1, <1>2, <1>3, PTL DEF Spec

-----------------------------------------------------------------------------
(* The way of the user. *)

\* Nobody hears an answer who is not on a page or the login page.
LEMMA HeardOnAPage ==
  ASSUME RequestsInv, NEW r \in Requests, Hear(r)
  PROVE  url \notin {"closed", "away"}
BY DEF RequestsInv, Blameless, Hear, At

LEMMA WayStep == WayInv /\ RequestsInv /\ [Next]_allVars => WayInv'
<1> SUFFICES ASSUME WayInv, RequestsInv, [Next]_allVars PROVE WayInv'
  OBVIOUS
<1> USE SessionAssumption, Headings DEF WayInv
<1>1. CASE UNCHANGED <<url, heading, returnUrl, preloading, headed, diverted>>
  BY <1>1 DEF HeadingOK, AtRest, OnTheWay
<1>2. ASSUME NEW to \in Pages \cup {"login"}, OpenApp(to) PROVE WayInv'
  BY <1>2 DEF OpenApp, Load, FirstRoute, rememberReturnUrl, HeadingOK, AtRest, OnTheWay
<1>3. ASSUME NEW to \in Pages, Navigate(to) PROVE WayInv'
  BY <1>3 DEF Navigate, UserGoes, rememberReturnUrl, HeadingOK, AtRest, OnTheWay, Path
<1>4. ASSUME signIn PROVE WayInv'
  BY <1>4 DEF signIn, storage, HeadingOK, AtRest, OnTheWay
<1>5. ASSUME signOut PROVE WayInv'
  BY <1>5 DEF signOut, Load, FirstRoute, rememberReturnUrl, HeadingOK, AtRest, OnTheWay
<1>6. ASSUME Arrive PROVE WayInv'
  BY <1>6 DEF Arrive, storage, HeadingOK, AtRest, OnTheWay, Path, AutoLogin
<1>7. ASSUME Authorize PROVE WayInv'
  <2>1. /\ url' = "away" /\ heading' = None /\ ~preloading'
        /\ headed' = headed /\ returnUrl' = returnUrl
        /\ ~diverted' => ~diverted /\ url \notin Pages /\ (heading = None \/ heading.to \notin Pages)
    BY <1>7 DEF Authorize, Load, storage
  <2>2. url # "closed" /\ url # "away"
    BY <1>7 DEF Authorize, AtRest
  <2>3. ASSUME headed \in Pages, ~diverted' PROVE returnUrl = headed
    <3>1. CASE heading = None \/ heading = AutoLogin \/ heading = Path("login")
      BY <2>1, <2>2, <2>3, <3>1 DEF OnTheWay
    <3>2. ASSUME NEW to \in Pages, heading = Path(to) PROVE FALSE
      BY <2>1, <2>3, <3>2 DEF Path
    <3>3. QED
      BY <3>1, <3>2 DEF HeadingOK
  <2>4. QED
    BY <2>1, <2>3 DEF HeadingOK, AtRest, OnTheWay
<1>8. ASSUME Unreachable PROVE WayInv'
  BY <1>8 DEF Unreachable, storage, history, HeadingOK, AtRest, OnTheWay
<1>9. ASSUME NEW done \in BOOLEAN, Callback(done) PROVE WayInv'
  <2>1. /\ url = "away" /\ heading = None /\ heading' = None /\ ~preloading'
        /\ UNCHANGED <<headed, diverted>>
    BY <1>9 DEF Callback, Load, history, AtRest
  <2>2. CASE done
    <3>1. url' = Taken
      BY <1>9, <2>2 DEF Callback
    <3>2. Taken = IF returnUrl = None THEN Root ELSE returnUrl
      BY DEF Taken
    <3>3. returnUrl' = None
      BY <1>9, <2>2 DEF Callback
    <3>4. QED
      BY <2>1, <3>1, <3>2, <3>3 DEF HeadingOK, AtRest, OnTheWay
  <2>3. CASE ~done
    <3>1. url' = "login" /\ returnUrl' = returnUrl
      BY <1>9, <2>3 DEF Callback
    <3>2. QED
      BY <2>1, <3>1 DEF HeadingOK, AtRest, OnTheWay
  <2>4. QED
    BY <2>2, <2>3
<1>10. ASSUME NEW r \in Requests, Hear(r) PROVE WayInv'
  <2>1. url \in Pages \cup {"login"} /\ UNCHANGED <<url, headed>>
    BY <1>10, HeardOnAPage DEF Hear
  <2>2. CASE UNCHANGED <<heading, returnUrl, diverted, preloading>>
    BY <1>1, <2>1, <2>2
  <2>3. CASE /\ url # "login" /\ returnUrl' = url /\ heading' = Path("login") /\ UNCHANGED preloading
             /\ diverted' = (diverted \/ heading \notin {None, Path("login")})
    BY <2>1, <2>3 DEF HeadingOK, AtRest, OnTheWay, Path, AutoLogin
  <2>4. QED
    BY <1>10, <2>2, <2>3 DEF Hear, Refused, rememberReturnUrl
<1>11. ASSUME Move PROVE WayInv'
  <2>1. CASE Renew \/ RenewFails
    BY <1>1, <2>1 DEF Renew, RenewFails, tab, history
  <2>2. QED
    BY <1>11, <1>1, <1>2, <1>3, <1>4, <1>5, <2>1 DEF Move, storage, tab, history
<1>12. ASSUME Turn PROVE WayInv'
  <2>1. CASE \E r \in Requests : Send(r)
    BY <1>1, <2>1 DEF Send, storage, tab, history
  <2>2. QED
    BY <1>12, <1>1, <1>6, <1>7, <1>8, <1>9, <1>10, <2>1 DEF Turn, storage, tab, history
<1>13. QED
  BY <1>1, <1>11, <1>12 DEF Next, allVars, vars, storage, tab, history

\* Where the router is changes only by an arrival, a page load or the way to the
\* provider.
LEMMA UrlChanges ==
  ASSUME WayInv, WayInv', [Next]_allVars, url' # url, signedIn', url' \in Pages \/ url = "away"
  PROVE  heading' = None /\ (url' \in Pages \/ headed' \notin Pages)
<1> USE SessionAssumption
<1>1. ASSUME NEW to \in Pages \cup {"login"}, OpenApp(to)
      PROVE  heading' = None /\ (url' \in Pages \/ headed' \notin Pages)
  BY <1>1 DEF OpenApp, Load, FirstRoute
<1>2. ASSUME Arrive PROVE heading' = None /\ url' \in Pages
  BY <1>2 DEF Arrive, WayInv, AtRest
<1>3. ASSUME Authorize PROVE FALSE
  BY <1>3 DEF Authorize, WayInv, AtRest
<1>4. ASSUME NEW done \in BOOLEAN, Callback(done) PROVE heading' = None /\ url' \in Pages
  BY <1>4 DEF Callback, Load, Taken, WayInv
<1>5. ASSUME signOut PROVE FALSE
  BY <1>5 DEF signOut
<1>6. ASSUME Move PROVE heading' = None /\ (url' \in Pages \/ headed' \notin Pages)
  BY <1>6, <1>1, <1>5 DEF Move, Navigate, signIn, Renew, RenewFails, tab
<1>7. ASSUME Turn PROVE heading' = None /\ url' \in Pages
  BY <1>7, <1>2, <1>3, <1>4 DEF Turn, Unreachable, Send, Hear, tab
<1>8. QED
  BY <1>6, <1>7 DEF Next, allVars, vars, tab

\* The page the user gets to, or comes back to signed in, is the one they went
\* to last, unless the way there was broken off.
THEOREM BackWhereHeaded == Spec => WhereHeaded
<1>1. Init => RequestsInv /\ AutoInv /\ WayInv
  BY SignInInit
<1>2. RequestsInv /\ AutoInv /\ WayInv /\ [Next]_allVars => (RequestsInv /\ AutoInv /\ WayInv)'
  BY RequestsStep, AutoStep, WayStep DEF AutoInv
<1>3. WayInv /\ WayInv' /\ [Next]_allVars
        => [url' # url /\ signedIn' /\ (url' \in Pages \/ url = "away") /\ headed' \in Pages /\ ~diverted'
              => url' = headed']_allVars
  BY UrlChanges DEF WayInv, OnTheWay
<1>4. QED
  BY <1>1, <1>2, <1>3, PTL DEF Spec, WhereHeaded
=============================================================================
