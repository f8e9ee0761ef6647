---------------------------- MODULE AuthSession ----------------------------
(***************************************************************************)
(* The session of the single-page application: web/src/auth/               *)
(* AuthProvider.tsx, the interceptors of api/client.ts, and the routing of *)
(* App.tsx, pages/Login.tsx and pages/Callback.tsx, over the events of the *)
(* OIDC library, which renews tokens in the background.                    *)
(*                                                                         *)
(* handleUser sets the token at once and the user only when /auth/me has   *)
(* answered; meanwhile other events, other calls of handleUser and other   *)
(* answers happen.  A token stands for the OIDC user it came with.  An     *)
(* answer 401 outside the auth routes loads the document again, which      *)
(* ends everything in flight; sessionStorage survives.                     *)
(***************************************************************************)
EXTENDS Integers

CONSTANTS
    None,      \* no token, no user
    NoCall,    \* no request of the page is in flight
    MaxToken,  \* tokens are 1..MaxToken, in the order of their issue
    Slots,     \* slots for calls of handleUser that await /auth/me
    Refusing,  \* the gateway refuses every token, expired or not
    MaxEvents  \* bound on what the user, the provider and the network do

Tokens == 1..MaxToken

ASSUME SessionAssumption ==
    /\ None \notin Tokens
    /\ NoCall \notin Tokens \cup {None}
    /\ MaxToken \in Nat
    /\ Refusing \in BOOLEAN
    /\ MaxEvents \in Nat

VARIABLES
    path,     \* window.location.pathname, or "away" at the provider
    code,     \* the callback URL's code: "none", "fresh" or "used"
    stored,   \* sessionStorage: the library's user
    opening,  \* the promise of the mount effect: "none", "getUser", "signin"
    ref,      \* tokenRef.current
    user,     \* the user, by the token whose /auth/me or profile it is
    loading,  \* isLoading
    me,       \* the calls of handleUser that await: their token, or None
    shell,    \* the protected page is mounted
    call,     \* the page's request: NoCall, or the bearer it was sent with
    leaving,  \* logout awaits its endpoint
    issued,   \* provider: the last token issued
    expired,  \* the tokens that have expired
    events,   \* bound: what the environment did so far
    overtaken, \* history: the calls that awaited when the session was signed out
    late       \* history: the user shown was set by one of those

react == <<opening, ref, user, loading, me, shell, call, leaving>>
session == <<issued, expired, stored>>
history == <<overtaken, late>>
vars == <<path, code, session, react, events, history>>

AuthRoutes == {"login", "callback"}
Paths == AuthRoutes \cup {"buckets", "away"}

TypeOK ==
    /\ path \in Paths
    /\ code \in {"none", "fresh", "used"}
    /\ stored \in Tokens \cup {None}
    /\ opening \in {"none", "getUser", "signin"}
    /\ ref \in Tokens \cup {None}
    /\ user \in Tokens \cup {None}
    /\ loading \in BOOLEAN
    /\ me \in [Slots -> Tokens \cup {None}]
    /\ shell \in BOOLEAN
    /\ call \in Tokens \cup {None, NoCall}
    /\ leaving \in BOOLEAN
    /\ issued \in 0..MaxToken
    /\ expired \subseteq Tokens
    /\ events \in 0..MaxEvents
    /\ overtaken \subseteq Slots
    /\ late \in BOOLEAN

(* The document is left, and loaded at p: the provider mounts with its    *)
(* initial state, and its effect asks the library for the user.           *)
Load(p) ==
    /\ path' = p
    /\ opening' = CASE p = "callback" -> "signin"
                    [] p = "away" -> "none"
                    [] OTHER -> "getUser"
    /\ ref' = None
    /\ user' = None
    /\ loading' = TRUE
    /\ me' = [h \in Slots |-> None]
    /\ shell' = FALSE
    /\ call' = NoCall
    /\ leaving' = FALSE
    /\ overtaken' = {}
    /\ late' = FALSE

Init ==
    /\ path = "buckets"
    /\ code = "none"
    /\ stored = None
    /\ opening = "getUser"
    /\ ref = None
    /\ user = None
    /\ loading = TRUE
    /\ me = [h \in Slots |-> None]
    /\ shell = FALSE
    /\ call = NoCall
    /\ leaving = FALSE
    /\ issued = 0
    /\ expired = {}
    /\ events = 0
    /\ overtaken = {}
    /\ late = FALSE

(* One more thing the environment does.                                   *)
Event ==
    /\ events < MaxEvents
    /\ events' = events + 1

UsableMutUnchecked(u) == u # None

(* oidcUser && !oidcUser.expired                                          *)
Usable(u) == u # None /\ u \notin expired

SetTokenMutFirst(u) == ref' = IF ref = None THEN u ELSE ref

SetTokenMutLater(u) == ref' = ref

(* The token is set before the await.                                     *)
SetToken(u) == ref' = u

(* handleUser without a usable user.  It overtakes the calls that await.  *)
SignOut ==
    /\ ref' = None
    /\ user' = None
    /\ loading' = FALSE
    /\ overtaken' = {h \in Slots : me[h] # None}
    /\ late' = FALSE
    /\ UNCHANGED me

(* handleUser(u) up to its await, or to its end when there is no usable   *)
(* user.  W are the slots its calls wait in: two when the library's event *)
(* and its promise both deliver the same user.                            *)
HandleUser(u, W) ==
    \/ /\ Usable(u)
       /\ \A h \in W : me[h] = None
       /\ SetToken(u)
       /\ me' = [h \in Slots |-> IF h \in W THEN u ELSE me[h]]
       /\ UNCHANGED <<user, loading, history>>
    \/ /\ ~Usable(u)
       /\ SignOut

(* getUser resolves with the stored user, without an event ...            *)
GetUser ==
    /\ opening = "getUser"
    /\ opening' = "none"
    /\ \E h \in Slots : HandleUser(stored, {h})
    /\ UNCHANGED <<path, code, session, shell, call, leaving, events>>

OpenFailsMutSilent ==
    /\ opening # "none"
    /\ \/ Event
       \/ opening = "signin" /\ code # "fresh" /\ UNCHANGED events
    /\ opening' = "none"
    /\ code' = IF code = "fresh" THEN "used" ELSE code
    /\ UNCHANGED <<path, session, ref, user, loading, me, shell, call, leaving, history>>

(* ... or it, or the redemption of the code, is rejected: the provider    *)
(* refuses, the network fails, storage is not readable.                   *)
OpenFails ==
    /\ opening # "none"
    /\ \/ Event
       \/ opening = "signin" /\ code # "fresh" /\ UNCHANGED events
    /\ opening' = "none"
    /\ loading' = FALSE
    /\ code' = IF code = "fresh" THEN "used" ELSE code
    /\ UNCHANGED <<path, session, ref, user, me, shell, call, leaving, history>>

(* A new token is issued and stored; userLoaded is raised.                *)
NewUser(W) ==
    /\ issued < MaxToken
    /\ issued' = issued + 1
    /\ stored' = issued + 1
    /\ HandleUser(issued + 1, W)

(* signinRedirectCallback redeems the code: the event and the promise     *)
(* both call handleUser.                                                  *)
SigninCallback ==
    /\ opening = "signin" /\ code = "fresh"
    /\ opening' = "none"
    /\ code' = "used"
    /\ \E g, h \in Slots : g # h /\ NewUser({g, h})
    /\ UNCHANGED <<path, expired, shell, call, leaving, events>>

(* Silent renewal: userLoaded with a new token, or silentRenewError.      *)
Renews == stored # None /\ opening = "none" /\ path # "away"

RenewSucceeds ==
    /\ Renews /\ Event
    /\ \E h \in Slots : NewUser({h})
    /\ UNCHANGED <<path, code, expired, opening, shell, call, leaving>>

RenewFails ==
    /\ Renews /\ Event
    /\ SignOut
    /\ UNCHANGED <<path, code, session, opening, shell, call, leaving>>

----------------------------------------------------------------------------

(* What the gateway answers to a request with bearer b (external).        *)
Accepts(b) == b \in Tokens /\ b \notin expired /\ ~Refusing

(* The response interceptor's guard.                                      *)
Redirects == path \notin AuthRoutes

(* handleUser goes on with a name to show, whatever happened meanwhile.   *)
ShowUser(h) ==
    /\ user' = me[h]
    /\ loading' = FALSE
    /\ me' = [me EXCEPT ![h] = None]
    /\ late' = (h \in overtaken)
    /\ overtaken' = overtaken \ {h}
    /\ UNCHANGED <<path, code, session, opening, ref, shell, call, leaving>>

MeSucceeds(h) ==
    /\ Accepts(me[h])
    /\ ShowUser(h)
    /\ UNCHANGED events

(* A failure other than 401: the name of the profile is shown.            *)
MeFails(h) ==
    /\ me[h] # None
    /\ Event
    /\ ShowUser(h)

(* 401: the interceptor leaves the page, or the profile's name is shown.  *)
MeRefused(h) ==
    /\ me[h] # None /\ ~Accepts(me[h])
    /\ \/ Redirects /\ Load("login") /\ UNCHANGED <<code, session>>
       \/ ~Redirects /\ ShowUser(h)
    /\ UNCHANGED events

(* The effects of a render: Callback and Login move on, ProtectedRoute    *)
(* turns an unknown user away or mounts the page, which asks for the      *)
(* buckets with the token of now.                                         *)
LeaveCallback ==
    /\ path = "callback" /\ ~loading
    /\ path' = IF user # None THEN "buckets" ELSE "login"
    /\ code' = "none"
    /\ UNCHANGED <<session, react, events, history>>

LeaveLogin ==
    /\ path = "login" /\ user # None
    /\ path' = "buckets"
    /\ UNCHANGED <<code, session, react, events, history>>

TurnAway ==
    /\ path = "buckets" /\ ~loading /\ user = None
    /\ path' = "login"
    /\ shell' = FALSE
    /\ UNCHANGED <<code, session, opening, ref, user, loading, me, call, leaving, events, history>>

Ask ==
    /\ call = NoCall
    /\ call' = ref
    /\ UNCHANGED <<path, code, session, opening, ref, user, loading, me, leaving, history>>

MountShell ==
    /\ path = "buckets" /\ ~loading /\ user # None /\ ~shell
    /\ shell' = TRUE
    /\ Ask
    /\ UNCHANGED events

Browse ==
    /\ shell /\ Event
    /\ Ask
    /\ UNCHANGED shell

(* A request of a page is answered, or fails for another reason than 401; *)
(* an answer 401 is judged by the path of now.                            *)
CallAnswered ==
    /\ call # NoCall
    /\ Accepts(call) \/ ~Redirects
    /\ call' = NoCall
    /\ UNCHANGED <<path, code, session, opening, ref, user, loading, me, shell, leaving, events, history>>

CallFails ==
    /\ call # NoCall /\ Event
    /\ call' = NoCall
    /\ UNCHANGED <<path, code, session, opening, ref, user, loading, me, shell, leaving, history>>

CallRefused ==
    /\ call # NoCall /\ ~Accepts(call)
    /\ Redirects
    /\ Load("login")
    /\ UNCHANGED <<code, session, events>>

----------------------------------------------------------------------------

(* login, and the provider's redirect back while tokens are left to issue.*)
Login ==
    /\ path = "login" /\ ~loading /\ Event
    /\ Load("away")
    /\ UNCHANGED <<code, session>>

ProviderReturns ==
    /\ path = "away" /\ issued < MaxToken /\ Event
    /\ Load("callback")
    /\ code' = "fresh"
    /\ UNCHANGED session

(* The user reloads the page, or opens the application again.             *)
Reload ==
    /\ Event
    /\ Load(IF path = "away" THEN "buckets" ELSE path)
    /\ code' = IF path = "away" THEN "none" ELSE code
    /\ UNCHANGED session

(* logout: the gateway's endpoint, whatever it answers, then              *)
(* signoutRedirect, which removes the stored user, raises userUnloaded    *)
(* and leaves for the provider unless that fails.                         *)
Logout ==
    /\ shell /\ ~leaving /\ Event
    /\ leaving' = TRUE
    /\ UNCHANGED <<path, code, session, opening, ref, user, loading, me, shell, call, history>>

SignoutRedirect ==
    /\ leaving
    /\ stored' = None
    /\ \/ Load("away")
       \/ SignOut /\ leaving' = FALSE /\ UNCHANGED <<path, opening, shell, call>>
    /\ UNCHANGED <<code, issued, expired, events>>

Expire ==
    /\ Event
    /\ \E t \in (1..issued) \ expired : expired' = expired \cup {t}
    /\ UNCHANGED <<path, code, issued, stored, react, history>>

(* Steps the page and its requests take by themselves.                    *)
Proceed ==
    \/ GetUser \/ OpenFails \/ SigninCallback
    \/ \E h \in Slots : MeSucceeds(h) \/ MeRefused(h)
    \/ LeaveCallback \/ LeaveLogin \/ TurnAway \/ MountShell
    \/ CallAnswered \/ CallRefused \/ SignoutRedirect

Next ==
    \/ Proceed
    \/ \E h \in Slots : MeFails(h)
    \/ RenewSucceeds \/ RenewFails \/ Browse \/ CallFails
    \/ Login \/ ProviderReturns \/ Reload \/ Logout \/ Expire

(* The browser runs effects and promises, and requests are answered.      *)
Fairness ==
    /\ WF_vars(GetUser) /\ WF_vars(OpenFails \/ SigninCallback)
    /\ \A h \in Slots : WF_vars(MeSucceeds(h) \/ MeRefused(h))
    /\ WF_vars(LeaveCallback \/ LeaveLogin \/ TurnAway \/ MountShell)
    /\ WF_vars(CallAnswered \/ CallRefused)
    /\ WF_vars(SignoutRedirect)

Spec == Init /\ [][Next]_vars
FairSpec == Spec /\ Fairness

----------------------------------------------------------------------------

(* Requests never carry an older token than the session's: handleUser     *)
(* sets the token before it awaits (AuthProvider.tsx:76), so however      *)
(* renewals and answers overlap the bearer is the library's user or none. *)
BearerNewest == ref # None => ref = stored

(* Sign-out takes the name off the screen and keeps it off: a user is     *)
(* shown without a token only when it was set by a call of handleUser     *)
(* that was awaiting /auth/me at the sign-out; no call begun after it     *)
(* shows one unless it also sets a token (AuthProvider.tsx:75-91).        *)
SignedOutUnlessLate == user # None /\ ref = None => late

(* No page spins for ever: every way a document opens ends isLoading      *)
(* (AuthProvider.tsx:92, 105, 110), or the user leaves.                   *)
SpinnerEnds == loading ~> (~loading \/ path = "away")

(* What the interceptor's comment is about (client.ts:32, "to avoid       *)
(* loops"): once the environment is quiet, the documents an answer 401    *)
(* loads come to an end.                                                  *)
RedirectsEnd ==
    <>[][~(events' = events /\ opening = "none" /\ opening' # "none")]_vars

============================================================================
