----------------------------- MODULE OidcLogin -----------------------------
(***************************************************************************)
(* The server-side login (internal/webui/oidc_handlers.go, auth.go and     *)
(* internal/auth/oidc.go): /login, the identity provider, /callback and    *)
(* /logout.  The gateway keeps no state of its own; a login lives in the   *)
(* two transient cookies of a browser, which several tabs share, and in    *)
(* the callback URL, which may be reloaded or opened in another browser.   *)
(*                                                                         *)
(* A login l stands for what HandleLogin drew at random for it: its state, *)
(* its PKCE verifier and, at the provider, the code issued against the     *)
(* challenge of that verifier.  A visit is one request to the callback.    *)
(***************************************************************************)
EXTENDS Integers

CONSTANTS
    Browsers,  \* cookie jars
    Logins,    \* logins that may be started; their number is the bound
    OwnerOf,   \* OwnerOf[l]: the browser that starts l
    Visits,    \* slots for requests to the callback; their number is the bound
    None

ASSUME LoginAssumption ==
    /\ None \notin Logins
    /\ OwnerOf \in [Logins -> Browsers]

VARIABLES
    jar,       \* the cookies of each browser
    stage,     \* how far each login is
    redeemed,  \* provider: the codes already exchanged
    visits,    \* the requests to the callback
    disturbed  \* history: logins whose cookies were replaced, used up or expired

vars == <<jar, stage, redeemed, visits, disturbed>>

(* state: oauth_state, verifier: pkce_verifier, access: access_token (and *)
(* refresh_token), each by the login it was drawn or issued for.          *)
NoCookies == [state |-> None, verifier |-> None, access |-> None]

Idle == [at |-> "idle", browser |-> None, login |-> None, cookies |-> NoCookies]

Init ==
    /\ jar = [b \in Browsers |-> NoCookies]
    /\ stage = [l \in Logins |-> "new"]
    /\ redeemed = {}
    /\ visits = [v \in Visits |-> Idle]
    /\ disturbed = {}

(* The login whose transient cookies a browser holds, for a step that     *)
(* takes them away.                                                       *)
Holder(b) == {jar[b].state} \ {None}

----------------------------------------------------------------------------

(* HandleLogin: both values are drawn, both cookies and the redirect are  *)
(* on their way to the browser.                                           *)
HandleLogin(l) ==
    /\ stage[l] = "new"
    /\ stage' = [stage EXCEPT ![l] = "redirecting"]
    /\ UNCHANGED <<jar, redeemed, visits, disturbed>>

(* The two setTransientCookie calls: what was there is replaced.          *)
TransientCookies(cookies, l) == [cookies EXCEPT !.state = l, !.verifier = l]

(* The browser takes the cookies and follows the redirect.                *)
Redirected(l) ==
    /\ stage[l] = "redirecting"
    /\ stage' = [stage EXCEPT ![l] = "provider"]
    /\ jar' = [jar EXCEPT ![OwnerOf[l]] = TransientCookies(@, l)]
    /\ disturbed' = disturbed \cup Holder(OwnerOf[l])
    /\ UNCHANGED <<redeemed, visits>>

(* The user signs in and is sent back with a code ...                     *)
ProviderReturns(l) ==
    /\ stage[l] = "provider"
    /\ stage' = [stage EXCEPT ![l] = "returned"]
    /\ UNCHANGED <<jar, redeemed, visits, disturbed>>

(* ... or with an error, which HandleCallback passes on and nothing else. *)
ProviderDenies(l) ==
    /\ stage[l] = "provider"
    /\ stage' = [stage EXCEPT ![l] = "denied"]
    /\ UNCHANGED <<jar, redeemed, visits, disturbed>>

(* The callback URL is opened or reloaded, with the cookies of the moment.*)
OpenCallback(v, b, l) ==
    /\ visits[v] = Idle
    /\ stage[l] \in {"returned", "done"}
    /\ visits' = [visits EXCEPT ![v] =
                    [at |-> "callback", browser |-> b, login |-> l, cookies |-> jar[b]]]
    /\ UNCHANGED <<jar, stage, redeemed, disturbed>>

AcceptedMutNoState(visit) == visit.cookies.verifier # None

(* HandleCallback up to the exchange: the state cookie is there and       *)
(* equals the state of the URL, and there is a verifier.                  *)
Accepted(visit) ==
    /\ visit.cookies.state = visit.login
    /\ visit.cookies.verifier # None

CheckState(v) ==
    /\ visits[v].at = "callback"
    /\ visits' = [visits EXCEPT ![v].at =
                    IF Accepted(visits[v]) THEN "exchange" ELSE "refused"]
    /\ UNCHANGED <<jar, stage, redeemed, disturbed>>

(* ExchangeCode reaches the provider (external), which takes a code once  *)
(* and only with the verifier of its challenge; the answer may be lost.   *)
Exchange(v) ==
    /\ visits[v].at = "exchange"
    /\ LET l == visits[v].login
           good == l \notin redeemed /\ visits[v].cookies.verifier = l
       IN /\ redeemed' = IF good THEN redeemed \cup {l} ELSE redeemed
          /\ \E answer \in IF good THEN {"tokens", "failed"} ELSE {"failed"} :
                visits' = [visits EXCEPT ![v].at = answer]
    /\ UNCHANGED <<jar, stage, disturbed>>

(* ExchangeCode does not reach the provider: timeout or refused.          *)
ExchangeLost(v) ==
    /\ visits[v].at = "exchange"
    /\ visits' = [visits EXCEPT ![v].at = "failed"]
    /\ UNCHANGED <<jar, stage, redeemed, disturbed>>

SignedInMutKept(cookies, l) == [cookies EXCEPT !.access = l]

(* The cookies after a login: transient ones cleared, tokens set.         *)
SignedIn(cookies, l) == [state |-> None, verifier |-> None, access |-> l]

(* The answer of a successful callback reaches the browser, whatever      *)
(* happened in its other tabs meanwhile.                                  *)
SignIn(v) ==
    /\ visits[v].at = "tokens"
    /\ LET b == visits[v].browser
           l == visits[v].login
       IN /\ jar' = [jar EXCEPT ![b] = SignedIn(@, l)]
          /\ stage' = [stage EXCEPT ![l] = "done"]
          /\ disturbed' = disturbed \cup Holder(b)
    /\ visits' = [visits EXCEPT ![v] = Idle]
    /\ UNCHANGED redeemed

FailedCookiesMutCleared(cookies) == [cookies EXCEPT !.state = None, !.verifier = None]

(* An error answer of the callback sets no cookie.                        *)
FailedCookies(cookies) == cookies

(* 400 on a mismatch, 502 on a failed exchange.                           *)
SignInFails(v) ==
    /\ visits[v].at \in {"refused", "failed"}
    /\ jar' = [jar EXCEPT ![visits[v].browser] = FailedCookies(@)]
    /\ visits' = [visits EXCEPT ![v] = Idle]
    /\ UNCHANGED <<stage, redeemed, disturbed>>

(* HandleLogout: both token cookies are cleared, the transient ones stay. *)
HandleLogout(b) ==
    /\ jar[b].access # None
    /\ jar' = [jar EXCEPT ![b].access = None]
    /\ UNCHANGED <<stage, redeemed, visits, disturbed>>

(* MaxAge of the transient cookies: set together, they expire together.   *)
TransientsExpire(b) ==
    /\ jar[b].state # None
    /\ jar' = [jar EXCEPT ![b].state = None, ![b].verifier = None]
    /\ disturbed' = disturbed \cup Holder(b)
    /\ UNCHANGED <<stage, redeemed, visits>>

Next ==
    \/ \E l \in Logins :
        HandleLogin(l) \/ Redirected(l) \/ ProviderReturns(l) \/ ProviderDenies(l)
    \/ \E v \in Visits :
        \/ \E b \in Browsers, l \in Logins : OpenCallback(v, b, l)
        \/ CheckState(v) \/ Exchange(v) \/ ExchangeLost(v) \/ SignIn(v) \/ SignInFails(v)
    \/ \E b \in Browsers : HandleLogout(b) \/ TransientsExpire(b)
    \/ /\ \A l \in Logins : stage[l] = "denied"
       /\ UNCHANGED vars

Spec == Init /\ [][Next]_vars

----------------------------------------------------------------------------

(* Whatever tabs and browsers do, a code is only ever sent to the token   *)
(* endpoint by the browser that started its login, with the verifier      *)
(* drawn for it: a matching state implies a matching verifier             *)
(* (oidc_handlers.go:92-107).                                             *)
VerifierMatchesCode ==
    \A v \in Visits :
        visits[v].at \in {"exchange", "tokens"} =>
            /\ visits[v].cookies.verifier = visits[v].login
            /\ OwnerOf[visits[v].login] = visits[v].browser

(* The transient cookies are one-time (oidc_handlers.go:116-118): none is *)
(* left in a browser for a login that has signed it in, even when several *)
(* callbacks of several tabs were answered out of order.                  *)
TransientsOneTime ==
    \A b \in Browsers : jar[b].state # None => stage[jar[b].state] # "done"

(* A login that comes back is never refused without cause: as long as no  *)
(* later login of the browser replaced its two cookies, no completed one  *)
(* cleared them and the five minutes did not run out, a failed callback   *)
(* can be tried again by reloading it (oidc_handlers.go:92-114).          *)
RetryPossible ==
    \A v \in Visits :
        visits[v].at = "refused" /\ OwnerOf[visits[v].login] = visits[v].browser =>
            visits[v].login \in disturbed

============================================================================
