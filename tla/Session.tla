------------------------------- MODULE Session -------------------------------
(***************************************************************************)
(* Being signed in, in one tab of the Angular frontend: the guard of the   *)
(* routes, the interceptor of the requests, the login page, the way to the *)
(* identity provider and back, the remembered address and the banner that  *)
(* a token was rejected.  The requests and their answers are those of      *)
(* TokenCheck.                                                             *)
(*                                                                         *)
(* The OIDC library is external: it keeps the token, renews it, fetches    *)
(* the provider's document, and exchanges the code for a token when the    *)
(* browser comes back; any of it may fail.  The provider signs in again by *)
(* itself whom it knows.                                                   *)
(***************************************************************************)
EXTENDS TokenCheck

CONSTANTS
  Pages,      \* routes behind the guard
  Root        \* the one of them at "/"
ASSUME SessionAssumption ==
  /\ Root \in Pages /\ Pages \cap {"login", "away", "closed"} = {}
  /\ None \notin Pages /\ None \notin [to : Pages \cup {"login"}, auto : BOOLEAN]

VARIABLES
  url,        \* where the router is: a page, "login", "away" at the provider, or "closed"
  heading,    \* the navigation under way: [to, auto], or None
  token,      \* what the library stores, or None
  signedIn,   \* isAuthenticated$
  returnUrl,  \* in the sessionStorage, or None
  rejected,   \* of ProviderStatusService
  preloading, \* signIn waits for the provider's document
  autos,      \* history: sign-ins started by the app since the user did anything
  headed,     \* history: where the user went last
  diverted    \* history: a refusal, or a sign-in begun before, broke off the way there

storage == <<token, returnUrl>>
tab == <<url, heading, signedIn, rejected, preloading>>
history == <<autos, headed, diverted>>
vars == <<checkVars, storage, tab, history>>
Path(to) == [to |-> to, auto |-> FALSE]
AutoLogin == [to |-> "login", auto |-> TRUE]

SessionInit ==
  /\ CheckInit
  /\ url = "closed" /\ heading = None /\ token = None /\ signedIn = FALSE
  /\ returnUrl = None /\ rejected = FALSE
  /\ preloading = FALSE
  /\ autos = 0 /\ headed = Root /\ diverted = FALSE

UserGoes(to) == autos' = 0 /\ headed' = to /\ diverted' = FALSE

\* Everything in memory is new, and answers under way are for nobody.
Unheard == requests' = [r \in Requests |-> IF At(r, "idle") \/ At(r, "answered") THEN Idle
                                           ELSE [requests[r] EXCEPT !.heard = FALSE]]
Load ==
  /\ Unheard
  /\ rejected' = FALSE /\ heading' = None

\* rememberReturnUrl and takeReturnUrl.
rememberReturnUrl(to) == returnUrl' = to
Taken == IF returnUrl = None THEN Root ELSE returnUrl

\* The first route after loading; the login page the guard sends to starts the
\* sign-in by itself.
FirstRoute(to, known) ==
  IF to \in Pages /\ ~known
    THEN /\ rememberReturnUrl(to)
         /\ url' = "login" /\ preloading' = TRUE
    ELSE /\ url' = to /\ preloading' = FALSE
         /\ UNCHANGED returnUrl

\* An address is typed, a link opened or the page reloaded; checkAuth may find
\* the stored session, or fail or take too long.
OpenApp(to) ==
  /\ Load
  /\ \E known \in {FALSE, token # None} : signedIn' = known /\ FirstRoute(to, known)
  /\ headed' = to /\ diverted' = FALSE
  /\ autos' = IF preloading' THEN 1 ELSE 0
  /\ UNCHANGED <<provider, service, token>>

\* A navigation within the app.  The guard decides at its start.
Navigate(to) ==
  /\ url \in Pages \cup {"login"} /\ url # to
  /\ UserGoes(to)
  /\ IF signedIn THEN heading' = Path(to) /\ UNCHANGED returnUrl
     ELSE heading' = AutoLogin /\ rememberReturnUrl(to)
  /\ UNCHANGED <<checkVars, token, url, signedIn, rejected, preloading>>
\* The component has been fetched; ngOnInit of the login page may start the
\* sign-in.  From the login page to itself there is no new component.
Arrive ==
  /\ heading # None
  /\ url' = heading.to /\ heading' = None
  /\ LET auto == heading.auto /\ ~rejected /\ url # "login"
     IN  /\ preloading' = (preloading \/ auto)
         /\ autos' = IF auto THEN autos + 1 ELSE autos
  /\ UNCHANGED <<checkVars, storage, signedIn, rejected, headed, diverted>>

\* The button of the login page.
signIn ==
  /\ url = "login"
  /\ rejected' = FALSE /\ preloading' = TRUE
  /\ autos' = 0
  /\ UNCHANGED <<checkVars, storage, url, heading, signedIn, headed, diverted>>
\* authorize leaves the page, wherever it is by then.
Authorize ==
  /\ preloading
  /\ Load
  /\ url' = "away" /\ preloading' = FALSE /\ signedIn' = FALSE
  /\ diverted' = (diverted \/ url \in Pages \/ (heading # None /\ heading.to \in Pages))
  /\ UNCHANGED <<provider, service, storage, autos, headed>>
Unreachable ==
  /\ preloading
  /\ preloading' = FALSE
  /\ UNCHANGED <<checkVars, storage, url, heading, signedIn, rejected, history>>

\* Back at the callback route, with a token or without.
Callback(done) ==
  /\ url = "away"
  /\ Load
  /\ preloading' = FALSE /\ signedIn' = done
  /\ IF done
       THEN /\ issued < MaxToken /\ token' = Token /\ issued' = issued + 1
            /\ url' = Taken /\ returnUrl' = None
       ELSE /\ url' = "login"
            /\ UNCHANGED <<issued, token, returnUrl>>
  /\ UNCHANGED <<keys, newest, expired, email, ours, service, history>>

\* Silent renewal, by the library.
Renew ==
  /\ signedIn /\ issued < MaxToken
  /\ token' = Token /\ issued' = issued + 1
  /\ UNCHANGED <<keys, newest, expired, email, ours, service, requests, returnUrl, tab, history>>
RenewFails ==
  /\ signedIn
  /\ token' = None /\ signedIn' = FALSE
  /\ UNCHANGED <<checkVars, returnUrl, url, heading, rejected, preloading, history>>

\* signOut ends at "/".
signOut ==
  /\ url \in Pages
  /\ Load
  /\ token' = None /\ signedIn' = FALSE
  /\ FirstRoute(Root, FALSE)
  /\ headed' = Root /\ diverted' = FALSE /\ autos' = 1
  /\ UNCHANGED <<provider, service>>

-----------------------------------------------------------------------------
\* authInterceptor: a page sends a request, with the token if there is one.
Send(r) ==
  /\ url \in Pages /\ requests[r] = Idle
  /\ requests' = [requests EXCEPT ![r] = Sent(token)]
  /\ UNCHANGED <<provider, service, storage, tab, history>>

\* Slip: a refused token starts the sign-in at once.
SlipRefused ==
  /\ rejected' = TRUE
  /\ preloading' = TRUE /\ autos' = autos + 1
  /\ IF url = "login" THEN UNCHANGED <<returnUrl, heading, diverted>>
     ELSE /\ rememberReturnUrl(url)
          /\ heading' = Path("login")
          /\ diverted' = (diverted \/ heading \notin {None, Path("login")})
\* Slip: the login page is remembered like any other.
SlipRemembered ==
  /\ rejected' = TRUE
  /\ rememberReturnUrl(url)
  /\ heading' = Path("login")
  /\ diverted' = (diverted \/ heading \notin {None, Path("login")})
  /\ UNCHANGED <<preloading, autos>>
Refused ==
  /\ rejected' = TRUE
  /\ IF url = "login" THEN UNCHANGED <<returnUrl, heading, diverted>>
     ELSE /\ rememberReturnUrl(url)
          /\ heading' = Path("login")
          /\ diverted' = (diverted \/ heading \notin {None, Path("login")})
  /\ UNCHANGED <<preloading, autos>>
\* An answer comes, or only the failure of the request.
Hear(r) ==
  /\ At(r, "answered")
  /\ requests' = [requests EXCEPT ![r] = Idle]
  /\ \/ requests[r].status = 401 /\ Refused
     \/ UNCHANGED <<returnUrl, heading, diverted, rejected, preloading, autos>>
  /\ UNCHANGED <<provider, service, token, url, signedIn, headed>>
=============================================================================
