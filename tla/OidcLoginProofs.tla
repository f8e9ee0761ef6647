-------------------------- MODULE OidcLoginProofs --------------------------
(***************************************************************************)
(* Proofs about OidcLogin, for any number of browsers, of logins and of    *)
(* requests to the callback at a time.                                     *)
(***************************************************************************)
EXTENDS OidcLogin, TLAPS

----------------------------------------------------------------------------
(* The inductive invariant.                                                *)

MaybeLogin == Logins \cup {None}
Cookies == [state : MaybeLogin, verifier : MaybeLogin, access : MaybeLogin]
Stages == {"new", "redirecting", "provider", "returned", "denied", "done"}
Ats == {"idle", "callback", "exchange", "refused", "tokens", "failed"}
Visit == [at : Ats, browser : Browsers \cup {None}, login : MaybeLogin, cookies : Cookies]

Types ==
  /\ jar \in [Browsers -> Cookies]
  /\ stage \in [Logins -> Stages]
  /\ visits \in [Visits -> Visit]
  /\ disturbed \subseteq Logins

\* The two transient cookies belong to one login, of this browser.
Paired(cookies, b) ==
  /\ cookies.verifier = cookies.state
  /\ cookies.state # None => OwnerOf[cookies.state] = b

Jars == \A b \in Browsers : Paired(jar[b], b)

\* The cookies of a login that was redirected are in its browser, unless
\* something took them.
Held == \A l \in Logins :
  stage[l] \notin {"new", "redirecting"} => jar[OwnerOf[l]].state = l \/ l \in disturbed

\* What a request to the callback carries, and what follows from how far it is.
Sound(visit) ==
  /\ visit.login \in Logins /\ visit.browser \in Browsers
  /\ Paired(visit.cookies, visit.browser)
  /\ visit.at \in {"exchange", "tokens"} => visit.cookies.state = visit.login

\* A request of the login's own browser came with the login's cookies, unless
\* something had taken them.
Caused(visit) ==
  OwnerOf[visit.login] = visit.browser =>
    \/ visit.cookies.state = visit.login /\ visit.at # "refused"
    \/ visit.login \in disturbed

Flights == \A v \in Visits :
  visits[v].at # "idle" =>
    /\ Sound(visits[v])
    /\ Caused(visits[v])
    /\ stage[visits[v].login] \in {"returned", "done"}

LInv == Types /\ Jars /\ Held /\ Flights /\ TransientsOneTime

USE LoginAssumption

\* What the invariant says of the properties.
LEMMA LInvImplies ==
  ASSUME LInv
  PROVE  VerifierMatchesCode /\ TransientsOneTime /\ RetryPossible
<1>1. VerifierMatchesCode
  <2> SUFFICES ASSUME NEW v \in Visits, visits[v].at \in {"exchange", "tokens"}
               PROVE  /\ visits[v].cookies.verifier = visits[v].login
                      /\ OwnerOf[visits[v].login] = visits[v].browser
    BY DEF VerifierMatchesCode
  <2>1. Sound(visits[v])
    BY DEF LInv, Flights
  <2> QED BY <2>1 DEF Sound, Paired
<1>2. RetryPossible
  <2> SUFFICES ASSUME NEW v \in Visits, visits[v].at = "refused",
                      OwnerOf[visits[v].login] = visits[v].browser
               PROVE  visits[v].login \in disturbed
    BY DEF RetryPossible
  <2>1. Caused(visits[v])
    BY DEF LInv, Flights
  <2> QED BY <2>1 DEF Caused
<1> QED BY <1>1, <1>2 DEF LInv

\* A step that takes a browser's transient cookies away disturbs every login
\* that held them.
LEMMA HolderDisturbed ==
  ASSUME LInv, NEW b \in Browsers
  PROVE  /\ Holder(b) \subseteq Logins
         /\ \A m \in Logins : /\ stage[m] \notin {"new", "redirecting"}
                               /\ OwnerOf[m] = b
               => m \in disturbed \cup Holder(b)
<1>1. jar[b] \in Cookies
  BY DEF LInv, Types
<1>2. jar[b].state \in Logins \cup {None}
  BY <1>1 DEF Cookies, MaybeLogin
<1> QED BY <1>2 DEF LInv, Held, Holder

----------------------------------------------------------------------------
(* Parts that steps have in common.                                        *)

\* Visits that do not change stay sound while stages only go on to their end
\* and disturbed logins stay disturbed.
LEMMA FlightsKeep ==
  ASSUME LInv, UNCHANGED visits, disturbed \subseteq disturbed',
         \A l \in Logins : stage[l] \in {"returned", "done"} => stage'[l] \in {"returned", "done"}
  PROVE  Flights'
BY DEF LInv, Flights, Sound, Caused

\* A visit moves on without a change of the rest.
LEMMA VisitMoves ==
  ASSUME LInv, NEW v \in Visits, visits[v].at # "idle", NEW a \in Ats \ {"idle"},
         visits' = [visits EXCEPT ![v].at = a], UNCHANGED <<stage, jar, disturbed>>,
         a \in {"exchange", "tokens"} => visits[v].cookies.state = visits[v].login,
         a = "refused" => visits[v].cookies.state # visits[v].login
  PROVE  LInv'
<1>1. Types /\ Flights
  BY DEF LInv
<1>2. visits'[v] = [visits[v] EXCEPT !.at = a]
  BY <1>1 DEF Types
<1>3. \A w \in Visits \ {v} : visits'[w] = visits[w]
  BY <1>1 DEF Types
<1>4. /\ visits[v] \in Visit
      /\ Sound(visits[v]) /\ Caused(visits[v]) /\ stage[visits[v].login] \in {"returned", "done"}
  BY <1>1 DEF Types, Flights
<1>5. /\ visits'[v].login = visits[v].login /\ visits'[v].browser = visits[v].browser
      /\ visits'[v].cookies = visits[v].cookies /\ visits'[v].at = a
  BY <1>2, <1>4 DEF Visit
<1>6. Sound(visits'[v])
  BY <1>4, <1>5 DEF Sound
<1>7. Caused(visits[v])'
  BY <1>4, <1>5 DEF Caused
<1>8. Types'
  <2>1. visits'[v] \in Visit
    BY <1>2, <1>4 DEF Visit
  <2> QED BY <1>1, <2>1 DEF Types
<1>9. Flights'
  <2> SUFFICES ASSUME NEW w \in Visits, visits'[w].at # "idle"
               PROVE  /\ Sound(visits'[w]) /\ Caused(visits[w])'
                      /\ stage'[visits'[w].login] \in {"returned", "done"}
    BY DEF Flights, Sound
  <2>1. CASE w = v
    BY <1>4, <1>5, <1>6, <1>7, <2>1
  <2>2. CASE w # v
    BY <1>1, <1>3, <2>2 DEF Flights, Caused
  <2> QED BY <2>1, <2>2
<1>10. Jars' /\ Held' /\ TransientsOneTime'
  BY DEF LInv, Jars, Held, TransientsOneTime
<1> QED BY <1>8, <1>9, <1>10 DEF LInv

\* A visit ends: the others stay as they are.
LEMMA VisitEnds ==
  ASSUME LInv, NEW v \in Visits, visits' = [visits EXCEPT ![v] = Idle],
         disturbed \subseteq disturbed',
         \A l \in Logins : stage[l] \in {"returned", "done"} => stage'[l] \in {"returned", "done"}
  PROVE  /\ visits' \in [Visits -> Visit]
         /\ Flights'
<1>1. Types /\ Flights
  BY DEF LInv
<1>2. Idle \in Visit /\ Idle.at = "idle"
  BY DEF Idle, Visit, Ats, Cookies, NoCookies, MaybeLogin
<1>3. visits' \in [Visits -> Visit]
  BY <1>1, <1>2 DEF Types
<1>4. visits'[v].at = "idle" /\ \A w \in Visits \ {v} : visits'[w] = visits[w]
  BY <1>1, <1>2 DEF Types
<1>5. Flights'
  <2> SUFFICES ASSUME NEW w \in Visits, visits'[w].at # "idle"
               PROVE  /\ Sound(visits'[w]) /\ Caused(visits[w])'
                      /\ stage'[visits'[w].login] \in {"returned", "done"}
    BY DEF Flights, Sound
  <2>1. w # v /\ visits'[w] = visits[w]
    BY <1>4
  <2>2. Sound(visits[w]) /\ Caused(visits[w]) /\ stage[visits[w].login] \in {"returned", "done"}
    BY <1>1, <2>1 DEF Flights
  <2> QED BY <2>1, <2>2 DEF Sound, Caused
<1> QED BY <1>3, <1>5

\* A stage moves to one that no property forbids, and nothing else changes.
LEMMA StageMoves ==
  ASSUME LInv, NEW l \in Logins, NEW s \in {"redirecting", "returned", "denied"},
         stage' = [stage EXCEPT ![l] = s], UNCHANGED <<jar, visits, disturbed>>,
         stage[l] \notin {"returned", "done"},
         s # "redirecting" => stage[l] = "provider"
  PROVE  LInv'
<1>1. Types'
  BY DEF LInv, Types, Stages
<1>2. stage'[l] = s /\ \A m \in Logins \ {l} : stage'[m] = stage[m]
  BY DEF LInv, Types
<1>3. Flights'
  <2>1. \A m \in Logins : stage[m] \in {"returned", "done"} => stage'[m] \in {"returned", "done"}
    BY <1>2
  <2> QED BY <2>1, FlightsKeep
<1>4. Jars'
  BY DEF LInv, Jars, Paired
<1>5. Held'
  BY <1>2 DEF LInv, Held
<1>6. TransientsOneTime'
  <2>1. ASSUME NEW b \in Browsers, jar[b].state # None
        PROVE  jar[b].state \in Logins
    BY <2>1 DEF LInv, Types, Cookies, MaybeLogin
  <2> QED BY <1>2, <2>1 DEF LInv, TransientsOneTime
<1> QED BY <1>1, <1>3, <1>4, <1>5, <1>6 DEF LInv

----------------------------------------------------------------------------
(* Every step keeps the invariant.                                         *)

LEMMA RedirectedStep ==
  ASSUME LInv, NEW l \in Logins, Redirected(l)
  PROVE  LInv'
<1> DEFINE o == OwnerOf[l]
<1>1. o \in Browsers /\ Types
  BY DEF LInv
<1>2. /\ jar'[o] = [jar[o] EXCEPT !.state = l, !.verifier = l]
      /\ \A b \in Browsers \ {o} : jar'[b] = jar[b]
  BY <1>1 DEF Redirected, TransientCookies, Types
<1>3. jar[o] \in Cookies
  BY <1>1 DEF Types
<1>4. jar'[o] \in Cookies /\ jar'[o].state = l /\ jar'[o].verifier = l
  BY <1>2, <1>3 DEF Cookies, MaybeLogin
<1>5. /\ stage[l] = "redirecting" /\ stage'[l] = "provider"
      /\ \A m \in Logins \ {l} : stage'[m] = stage[m]
      /\ UNCHANGED visits /\ disturbed' = disturbed \cup Holder(o)
  BY <1>1 DEF Redirected, Types
<1>6. Types'
  <2>1. jar' \in [Browsers -> Cookies]
    BY <1>1, <1>4 DEF Redirected, Types
  <2>2. stage' \in [Logins -> Stages]
    BY <1>1 DEF Redirected, Types, Stages
  <2>3. disturbed' \subseteq Logins
    BY <1>1, <1>5, HolderDisturbed DEF Types
  <2> QED BY <1>1, <1>5, <2>1, <2>2, <2>3 DEF Types
<1> HIDE DEF o
<1>7. Jars'
  <2> SUFFICES ASSUME NEW b \in Browsers
               PROVE  Paired(jar'[b], b)
    BY DEF Jars, Paired
  <2>1. CASE b = o
    BY <1>4, <2>1 DEF Paired, o
  <2>2. CASE b # o
    BY <1>2, <2>2 DEF LInv, Jars
  <2> QED BY <2>1, <2>2
<1>8. Held'
  <2> SUFFICES ASSUME NEW m \in Logins, stage'[m] \notin {"new", "redirecting"}
               PROVE  jar'[OwnerOf[m]].state = m \/ m \in disturbed'
    BY DEF Held
  <2>1. CASE m = l
    BY <1>4, <2>1 DEF o
  <2>2. CASE m # l /\ OwnerOf[m] = o
    BY <1>1, <1>5, <2>2, HolderDisturbed
  <2>3. CASE m # l /\ OwnerOf[m] # o
    <3>1. OwnerOf[m] \in Browsers \ {o}
      BY <2>3
    <3>2. jar'[OwnerOf[m]] = jar[OwnerOf[m]] /\ stage'[m] = stage[m]
      BY <1>2, <1>5, <2>3, <3>1
    <3> QED BY <1>5, <3>2 DEF LInv, Held
  <2> QED BY <2>1, <2>2, <2>3
<1>9. Flights'
  BY <1>5, FlightsKeep
<1>10. TransientsOneTime'
  <2> SUFFICES ASSUME NEW b \in Browsers, jar'[b].state # None
               PROVE  stage'[jar'[b].state] # "done"
    BY DEF TransientsOneTime
  <2>1. CASE b = o
    BY <1>4, <1>5, <2>1
  <2>2. CASE b # o
    <3>1. jar'[b] = jar[b] /\ jar[b].state \in Logins
      BY <1>1, <1>2, <2>2 DEF Types, Cookies, MaybeLogin
    <3>2. stage[jar[b].state] # "done"
      BY <3>1 DEF LInv, TransientsOneTime
    <3> QED BY <1>5, <3>1, <3>2
  <2> QED BY <2>1, <2>2
<1> QED BY <1>6, <1>7, <1>8, <1>9, <1>10 DEF LInv

LEMMA OpenCallbackStep ==
  ASSUME LInv, NEW v \in Visits, NEW b \in Browsers, NEW l \in Logins, OpenCallback(v, b, l)
  PROVE  LInv'
<1> DEFINE new == [at |-> "callback", browser |-> b, login |-> l, cookies |-> jar[b]]
<1>1. Types /\ jar[b] \in Cookies
  BY DEF LInv, Types
<1>2. new \in Visit
  BY <1>1 DEF Visit, Ats, MaybeLogin
<1>3. visits' = [visits EXCEPT ![v] = new] /\ UNCHANGED <<jar, stage, disturbed>>
  BY DEF OpenCallback
<1>4. stage[l] \in {"returned", "done"}
  BY DEF OpenCallback
<1>5. Sound(new)
  BY DEF Sound, LInv, Jars
<1>6. Caused(new)
  BY <1>4 DEF Caused, LInv, Held
<1>7. new.login = l
  OBVIOUS
<1> HIDE DEF new
<1>8. visits'[v] = new /\ \A w \in Visits \ {v} : visits'[w] = visits[w]
  BY <1>1, <1>3 DEF Types
<1>9. Types'
  BY <1>1, <1>2, <1>3 DEF Types
<1>10. Flights'
  <2> SUFFICES ASSUME NEW w \in Visits, visits'[w].at # "idle"
               PROVE  /\ Sound(visits'[w]) /\ Caused(visits[w])'
                      /\ stage'[visits'[w].login] \in {"returned", "done"}
    BY DEF Flights, Sound
  <2>1. CASE w = v
    BY <1>3, <1>4, <1>5, <1>6, <1>7, <1>8, <2>1 DEF Caused
  <2>2. CASE w # v
    BY <1>3, <1>8, <2>2 DEF LInv, Flights, Caused
  <2> QED BY <2>1, <2>2
<1>11. Jars' /\ Held' /\ TransientsOneTime'
  BY <1>3 DEF LInv, Jars, Held, TransientsOneTime
<1> QED BY <1>9, <1>10, <1>11 DEF LInv

LEMMA SignInStep ==
  ASSUME LInv, NEW v \in Visits, SignIn(v)
  PROVE  LInv'
<1> DEFINE b == visits[v].browser
           l == visits[v].login
           new == SignedIn(jar[b], l)
<1>1. Types /\ Sound(visits[v]) /\ visits[v].at = "tokens"
  BY DEF SignIn, LInv, Flights
<1>2. b \in Browsers /\ l \in Logins /\ OwnerOf[l] = b
  BY <1>1 DEF Sound, Paired
<1>12. stage[l] \in {"returned", "done"}
  BY DEF SignIn, LInv, Flights
<1>3. new \in Cookies /\ new.state = None /\ new.verifier = None
  BY <1>2 DEF SignedIn, Cookies, MaybeLogin
<1>4. /\ jar' = [jar EXCEPT ![b] = new] /\ stage' = [stage EXCEPT ![l] = "done"]
      /\ disturbed' = disturbed \cup Holder(b)
      /\ visits' = [visits EXCEPT ![v] = Idle]
  BY DEF SignIn
<1> HIDE DEF b, l, new
<1>5. jar'[b] = new /\ \A c \in Browsers \ {b} : jar'[c] = jar[c]
  BY <1>1, <1>2, <1>4 DEF Types
<1>6. stage'[l] = "done" /\ \A m \in Logins \ {l} : stage'[m] = stage[m]
  BY <1>1, <1>2, <1>4 DEF Types
<1>7. Flights' /\ visits' \in [Visits -> Visit]
  <2>1. \A m \in Logins : stage[m] \in {"returned", "done"} => stage'[m] \in {"returned", "done"}
    BY <1>6
  <2>2. disturbed \subseteq disturbed'
    BY <1>4
  <2> QED BY <1>4, <2>1, <2>2, VisitEnds
<1>8. Types'
  <2>1. jar' \in [Browsers -> Cookies]
    BY <1>1, <1>3, <1>4 DEF Types
  <2>2. stage' \in [Logins -> Stages]
    BY <1>1, <1>4 DEF Types, Stages
  <2>3. disturbed' \subseteq Logins
    BY <1>1, <1>2, <1>4, HolderDisturbed DEF Types
  <2> QED BY <1>7, <2>1, <2>2, <2>3 DEF Types
<1>9. Jars'
  <2> SUFFICES ASSUME NEW c \in Browsers
               PROVE  Paired(jar'[c], c)
    BY DEF Jars, Paired
  <2>1. CASE c = b
    BY <1>3, <1>5, <2>1 DEF Paired
  <2>2. CASE c # b
    BY <1>5, <2>2 DEF LInv, Jars
  <2> QED BY <2>1, <2>2
<1>10. Held'
  <2> SUFFICES ASSUME NEW m \in Logins, stage'[m] \notin {"new", "redirecting"}
               PROVE  jar'[OwnerOf[m]].state = m \/ m \in disturbed'
    BY DEF Held
  <2>1. CASE OwnerOf[m] = b
    <3>1. stage[m] \notin {"new", "redirecting"}
      BY <1>6, <1>12
    <3> QED BY <1>2, <1>4, <2>1, <3>1, HolderDisturbed
  <2>2. CASE OwnerOf[m] # b
    <3>1. OwnerOf[m] \in Browsers \ {b} /\ m # l
      BY <1>2, <2>2
    <3>2. jar'[OwnerOf[m]] = jar[OwnerOf[m]] /\ stage'[m] = stage[m]
      BY <1>5, <1>6, <3>1
    <3> QED BY <1>4, <3>2 DEF LInv, Held
  <2> QED BY <2>1, <2>2
<1>11. TransientsOneTime'
  <2> SUFFICES ASSUME NEW c \in Browsers, jar'[c].state # None
               PROVE  stage'[jar'[c].state] # "done"
    BY DEF TransientsOneTime
  <2>1. c # b
    BY <1>3, <1>5
  <2>2. jar'[c] = jar[c] /\ jar[c].state \in Logins
    BY <1>1, <1>5, <2>1 DEF Types, Cookies, MaybeLogin
  <2>3. OwnerOf[jar[c].state] = c /\ stage[jar[c].state] # "done"
    BY <2>2 DEF LInv, Jars, Paired, TransientsOneTime
  <2>4. jar[c].state # l
    BY <1>2, <2>1, <2>3
  <2> QED BY <1>6, <2>2, <2>3, <2>4
<1> QED BY <1>7, <1>8, <1>9, <1>10, <1>11 DEF LInv

\* The transient cookies of one browser are left or lost together.
LEMMA JarStep ==
  ASSUME LInv, NEW b \in Browsers, NEW new \in Cookies,
         jar' = [jar EXCEPT ![b] = new], UNCHANGED stage,
         \/ new.state = jar[b].state /\ new.verifier = jar[b].verifier /\ UNCHANGED disturbed
         \/ /\ new.state = None /\ new.verifier = None
            /\ disturbed' = disturbed \cup Holder(b)
  PROVE  /\ jar' \in [Browsers -> Cookies] /\ disturbed' \subseteq Logins
         /\ disturbed \subseteq disturbed'
         /\ Jars' /\ Held' /\ TransientsOneTime'
<1>1. Types
  BY DEF LInv
<1>2. jar'[b] = new /\ \A c \in Browsers \ {b} : jar'[c] = jar[c]
  BY <1>1 DEF Types
<1>3. Jars'
  <2> SUFFICES ASSUME NEW c \in Browsers
               PROVE  Paired(jar'[c], c)
    BY DEF Jars, Paired
  <2>1. Paired(jar[c], c)
    BY DEF LInv, Jars
  <2> QED BY <1>2, <2>1 DEF Paired
<1>4. Held'
  <2> SUFFICES ASSUME NEW m \in Logins, stage[m] \notin {"new", "redirecting"}
               PROVE  jar'[OwnerOf[m]].state = m \/ m \in disturbed'
    BY DEF Held
  <2>1. jar[OwnerOf[m]].state = m \/ m \in disturbed
    BY DEF LInv, Held
  <2>2. OwnerOf[m] \in Browsers
    OBVIOUS
  <2>3. OwnerOf[m] = b => m \in disturbed \cup Holder(b)
    BY HolderDisturbed
  <2> QED BY <1>2, <2>1, <2>2, <2>3
<1>5. TransientsOneTime'
  BY <1>2 DEF LInv, TransientsOneTime
<1>6. jar' \in [Browsers -> Cookies] /\ disturbed' \subseteq Logins
  BY <1>1, HolderDisturbed DEF Types
<1> QED BY <1>3, <1>4, <1>5, <1>6

LEMMA LInvStep ==
  ASSUME LInv, [Next]_vars
  PROVE  LInv'
<1>1. ASSUME NEW l \in Logins, HandleLogin(l)
      PROVE  LInv'
  BY <1>1, StageMoves DEF HandleLogin
<1>2. ASSUME NEW l \in Logins, ProviderReturns(l) \/ ProviderDenies(l)
      PROVE  LInv'
  BY <1>2, StageMoves DEF ProviderReturns, ProviderDenies
<1>3. ASSUME NEW v \in Visits, CheckState(v)
      PROVE  LInv'
  <2>1. visits[v].at = "callback" /\ UNCHANGED <<stage, jar, disturbed>>
    BY <1>3 DEF CheckState
  <2>2. Sound(visits[v])
    BY <2>1 DEF LInv, Flights
  <2>3. Accepted(visits[v]) <=> visits[v].cookies.state = visits[v].login
    BY <2>2 DEF Accepted, Sound, Paired
  <2>4. PICK a \in {"exchange", "refused"} :
          /\ visits' = [visits EXCEPT ![v].at = a]
          /\ a = "exchange" <=> Accepted(visits[v])
    BY <1>3 DEF CheckState
  <2> QED BY <2>1, <2>3, <2>4, VisitMoves DEF Ats
<1>4. ASSUME NEW v \in Visits, Exchange(v) \/ ExchangeLost(v)
      PROVE  LInv'
  <2>1. visits[v].at = "exchange" /\ UNCHANGED <<stage, jar, disturbed>>
    BY <1>4 DEF Exchange, ExchangeLost
  <2>2. visits[v].cookies.state = visits[v].login
    BY <2>1 DEF LInv, Flights, Sound
  <2>3. PICK a \in {"tokens", "failed"} : visits' = [visits EXCEPT ![v].at = a]
    BY <1>4 DEF Exchange, ExchangeLost
  <2> QED BY <2>1, <2>2, <2>3, VisitMoves DEF Ats
<1>5. ASSUME NEW v \in Visits, SignInFails(v)
      PROVE  LInv'
  <2> DEFINE b == visits[v].browser
  <2>1. b \in Browsers
    BY <1>5 DEF SignInFails, LInv, Flights, Sound
  <2>2. jar' = [jar EXCEPT ![b] = jar[b]] /\ jar[b] \in Cookies
    BY <1>5, <2>1 DEF SignInFails, FailedCookies, LInv, Types
  <2>3. UNCHANGED <<stage, disturbed>> /\ visits' = [visits EXCEPT ![v] = Idle]
    BY <1>5 DEF SignInFails
  <2> HIDE DEF b
  <2>4. jar' \in [Browsers -> Cookies] /\ Jars' /\ Held' /\ TransientsOneTime'
    BY <2>1, <2>2, <2>3, JarStep
  <2>5. Flights' /\ visits' \in [Visits -> Visit]
    BY <2>3, VisitEnds
  <2> QED BY <2>3, <2>4, <2>5 DEF LInv, Types
<1>6. ASSUME NEW b \in Browsers, HandleLogout(b) \/ TransientsExpire(b)
      PROVE  LInv'
  <2>1. Types /\ jar[b] \in Cookies /\ UNCHANGED <<stage, visits>>
    BY <1>6 DEF HandleLogout, TransientsExpire, LInv, Types
  <2>2. PICK new \in Cookies :
          /\ jar' = [jar EXCEPT ![b] = new]
          /\ \/ new.state = jar[b].state /\ new.verifier = jar[b].verifier /\ UNCHANGED disturbed
             \/ /\ new.state = None /\ new.verifier = None
                /\ disturbed' = disturbed \cup Holder(b)
    <3>1. CASE HandleLogout(b)
      <4>1. [jar[b] EXCEPT !.access = None] \in Cookies
        BY <2>1 DEF Cookies, MaybeLogin
      <4>2. jar' = [jar EXCEPT ![b] = [jar[b] EXCEPT !.access = None]]
        BY <2>1, <3>1 DEF HandleLogout, Types
      <4>3. UNCHANGED disturbed
        BY <3>1 DEF HandleLogout
      <4> QED BY <2>1, <4>1, <4>2, <4>3 DEF Cookies
    <3>2. CASE TransientsExpire(b)
      <4> DEFINE n == [jar[b] EXCEPT !.state = None, !.verifier = None]
      <4>1. n \in Cookies /\ n.state = None /\ n.verifier = None
        BY <2>1 DEF Cookies, MaybeLogin
      <4>2. jar' = [jar EXCEPT ![b] = n]
        BY <2>1, <3>2 DEF TransientsExpire, Types
      <4>3. disturbed' = disturbed \cup Holder(b)
        BY <3>2 DEF TransientsExpire
      <4> HIDE DEF n
      <4> QED BY <4>1, <4>2, <4>3
    <3> QED BY <1>6, <3>1, <3>2
  <2>3. /\ jar' \in [Browsers -> Cookies] /\ disturbed' \subseteq Logins
        /\ disturbed \subseteq disturbed' /\ Jars' /\ Held' /\ TransientsOneTime'
    BY <2>1, <2>2, JarStep
  <2>4. Flights'
    BY <2>1, <2>3, FlightsKeep
  <2> QED BY <2>1, <2>3, <2>4 DEF LInv, Types
<1>7. CASE UNCHANGED vars
  <2>1. UNCHANGED <<jar, stage, visits, disturbed>>
    BY <1>7 DEF vars
  <2>2. Flights'
    BY <2>1, FlightsKeep
  <2> QED BY <2>1, <2>2 DEF LInv, Types, Jars, Held, TransientsOneTime
<1> QED
  BY <1>1, <1>2, <1>3, <1>4, <1>5, <1>6, <1>7, RedirectedStep, OpenCallbackStep, SignInStep
  DEF Next

LEMMA LInvAlways == Spec => []LInv
<1>1. ASSUME Init PROVE LInv
  <2>1. NoCookies \in Cookies /\ NoCookies.state = None /\ NoCookies.verifier = None
    BY DEF NoCookies, Cookies, MaybeLogin
  <2>2. Idle \in Visit /\ Idle.at = "idle"
    BY <2>1 DEF Idle, Visit, Ats, MaybeLogin
  <2>3. Types
    BY <1>1, <2>1, <2>2 DEF Init, Types, Stages
  <2>4. Jars /\ TransientsOneTime
    BY <1>1, <2>1 DEF Init, Jars, Paired, TransientsOneTime
  <2>5. Held /\ Flights
    BY <1>1, <2>2 DEF Init, Held, Flights
  <2> QED BY <2>3, <2>4, <2>5 DEF LInv
<1> QED BY <1>1, LInvStep, PTL DEF Spec

\* A code is only ever sent to the token endpoint by the browser that started
\* its login, with the verifier drawn for it (oidc_handlers.go:92-107).
THEOREM VerifierMatchesCodeAlways == Spec => []VerifierMatchesCode
BY LInvAlways, LInvImplies, PTL

\* No transient cookie is left for a login that has signed its browser in
\* (oidc_handlers.go:116-118).
THEOREM TransientsOneTimeAlways == Spec => []TransientsOneTime
BY LInvAlways, LInvImplies, PTL

\* A login is refused only when something took its cookies
\* (oidc_handlers.go:92-114).
THEOREM RetryPossibleAlways == Spec => []RetryPossible
BY LInvAlways, LInvImplies, PTL

============================================================================
