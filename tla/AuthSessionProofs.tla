------------------------- MODULE AuthSessionProofs -------------------------
(***************************************************************************)
(* Proofs about AuthSession, for any number of tokens, of calls that await *)
(* /auth/me, and of events, and whether or not the gateway refuses tokens. *)
(***************************************************************************)
EXTENDS AuthSession, TLAPS

----------------------------------------------------------------------------
(* Type correctness.                                                       *)

\* The variables of the document, which Load sets all at once.
LEMMA LoadTypes ==
  ASSUME TypeOK, NEW p \in Paths, Load(p), UNCHANGED session, UNCHANGED issued,
         code' \in {"none", "fresh", "used"}, events' \in 0..MaxEvents
  PROVE  TypeOK'
BY DEF TypeOK, Load, session

LEMMA HandleUserTypes ==
  ASSUME TypeOK, NEW u \in Tokens \cup {None}, NEW W, HandleUser(u, W)
  PROVE  /\ ref' \in Tokens \cup {None} /\ user' \in Tokens \cup {None}
         /\ loading' \in BOOLEAN /\ overtaken' \subseteq Slots /\ late' \in BOOLEAN
         /\ me' \in [Slots -> Tokens \cup {None}]
<1>1. CASE Usable(u) /\ SetToken(u)
  BY <1>1 DEF HandleUser, Usable, SetToken, SignOut, history, TypeOK
<1>2. CASE SignOut
  BY <1>2 DEF SignOut, TypeOK
<1> QED BY <1>1, <1>2 DEF HandleUser

LEMMA NewUserTypes ==
  ASSUME TypeOK, NEW W, NewUser(W)
  PROVE  /\ ref' \in Tokens \cup {None} /\ user' \in Tokens \cup {None}
         /\ loading' \in BOOLEAN /\ overtaken' \subseteq Slots /\ late' \in BOOLEAN
         /\ me' \in [Slots -> Tokens \cup {None}]
         /\ issued' \in 0..MaxToken /\ stored' \in Tokens \cup {None}
<1>1. issued + 1 \in Tokens /\ issued' \in 0..MaxToken /\ stored' = issued + 1
  BY SessionAssumption DEF NewUser, TypeOK, Tokens
<1>2. HandleUser(issued + 1, W)
  BY DEF NewUser
<1> QED BY <1>1, <1>2, HandleUserTypes

LEMMA EventTypes ==
  ASSUME TypeOK, Event
  PROVE  events' \in 0..MaxEvents
BY SessionAssumption DEF TypeOK, Event

LEMMA ShowUserTypes ==
  ASSUME TypeOK, NEW h \in Slots, ShowUser(h), events' \in 0..MaxEvents
  PROVE  TypeOK'
<1>1. late' \in BOOLEAN
  <2>1. late' = (h \in overtaken)
    BY DEF ShowUser
  <2>2. (h \in overtaken) \in BOOLEAN
    OBVIOUS
  <2> QED BY <2>1, <2>2, Zenon
<1>2. overtaken' \subseteq Slots /\ me' \in [Slots -> Tokens \cup {None}]
  BY DEF TypeOK, ShowUser
<1> QED BY <1>1, <1>2 DEF TypeOK, ShowUser, session

LEMMA TypeStep ==
  ASSUME TypeOK, [Next]_vars
  PROVE  TypeOK'
<1> USE DEF session, react, history
<1>1. CASE GetUser
  <2>1. PICK h \in Slots : HandleUser(stored, {h})
    BY <1>1 DEF GetUser
  <2>2. stored \in Tokens \cup {None}
    BY DEF TypeOK
  <2> QED BY <1>1, <2>1, <2>2, HandleUserTypes DEF GetUser, TypeOK
<1>2. CASE SigninCallback
  <2>1. PICK g, h \in Slots : NewUser({g, h})
    BY <1>2 DEF SigninCallback
  <2> QED BY <1>2, <2>1, NewUserTypes DEF SigninCallback, TypeOK
<1>3. CASE RenewSucceeds
  <2>1. PICK h \in Slots : NewUser({h})
    BY <1>3 DEF RenewSucceeds
  <2> QED BY <1>3, <2>1, NewUserTypes, EventTypes DEF RenewSucceeds, TypeOK
<1>4. CASE RenewFails
  BY <1>4, EventTypes DEF RenewFails, SignOut, TypeOK
<1>5. ASSUME NEW h \in Slots, MeSucceeds(h) \/ MeFails(h)
      PROVE  TypeOK'
  <2>1. events' \in 0..MaxEvents
    BY <1>5, EventTypes DEF MeSucceeds, MeFails, TypeOK
  <2> QED BY <1>5, <2>1, ShowUserTypes DEF MeSucceeds, MeFails
<1>6. ASSUME NEW h \in Slots, MeRefused(h)
      PROVE  TypeOK'
  <2>1. events' \in 0..MaxEvents
    BY <1>6 DEF MeRefused, TypeOK
  <2>2. CASE ShowUser(h)
    BY <2>1, <2>2, ShowUserTypes
  <2>3. CASE Load("login") /\ UNCHANGED <<code, session>>
    BY <2>1, <2>3, LoadTypes DEF Paths, AuthRoutes, TypeOK
  <2> QED BY <1>6, <2>2, <2>3 DEF MeRefused
<1>7. CASE CallRefused
  BY <1>7, LoadTypes DEF CallRefused, Paths, AuthRoutes, TypeOK
<1>8. CASE Login
  BY <1>8, LoadTypes, EventTypes DEF Login, Paths, TypeOK
<1>9. CASE ProviderReturns
  BY <1>9, LoadTypes, EventTypes DEF ProviderReturns, Paths, AuthRoutes
<1>10. CASE Reload
  <2>1. PICK p \in Paths : Load(p)
    BY <1>10 DEF Reload, Paths, TypeOK
  <2>2. code' \in {"none", "fresh", "used"}
    BY <1>10 DEF Reload, TypeOK
  <2> QED BY <1>10, <2>1, <2>2, LoadTypes, EventTypes DEF Reload
<1>11. CASE SignoutRedirect
  <2>1. CASE Load("away")
    BY <1>11, <2>1 DEF SignoutRedirect, Load, Paths, TypeOK
  <2>2. CASE SignOut /\ leaving' = FALSE /\ UNCHANGED <<path, opening, shell, call>>
    BY <1>11, <2>2 DEF SignoutRedirect, SignOut, TypeOK
  <2> QED BY <1>11, <2>1, <2>2 DEF SignoutRedirect
<1>12. CASE OpenFails
  <2>1. events' \in 0..MaxEvents
    BY <1>12, EventTypes DEF OpenFails, TypeOK
  <2> QED BY <1>12, <2>1 DEF OpenFails, TypeOK
<1>13. CASE LeaveCallback \/ LeaveLogin \/ TurnAway
  BY <1>13 DEF LeaveCallback, LeaveLogin, TurnAway, TypeOK, Paths, AuthRoutes
<1>14. CASE MountShell \/ Browse
  <2>1. events' \in 0..MaxEvents /\ shell' \in BOOLEAN
    BY <1>14, EventTypes DEF MountShell, Browse, TypeOK
  <2> QED BY <1>14, <2>1 DEF MountShell, Browse, Ask, TypeOK
<1>15. CASE CallAnswered \/ CallFails
  <2>1. events' \in 0..MaxEvents
    BY <1>15, EventTypes DEF CallAnswered, CallFails, TypeOK
  <2> QED BY <1>15, <2>1 DEF CallAnswered, CallFails, TypeOK
<1>16. CASE Logout
  BY <1>16, EventTypes DEF Logout, TypeOK
<1>17. CASE Expire
  <2>1. PICK t \in 1..issued : expired' = expired \cup {t}
    BY <1>17 DEF Expire
  <2>2. expired' \subseteq Tokens
    BY <2>1, SessionAssumption DEF TypeOK, Tokens
  <2> QED BY <1>17, <2>2, EventTypes DEF Expire, TypeOK
<1>18. CASE UNCHANGED vars
  BY <1>18 DEF vars, TypeOK
<1> QED
  BY <1>1, <1>2, <1>3, <1>4, <1>5, <1>6, <1>7, <1>8, <1>9, <1>10, <1>11, <1>12, <1>13,
     <1>14, <1>15, <1>16, <1>17, <1>18 DEF Next, Proceed

\* The variables of the session keep their types: in particular every token
\* held, shown or sent is one the provider may have issued.
THEOREM TypeCorrect == Spec => []TypeOK
<1>1. ASSUME Init PROVE TypeOK
  <2>1. issued \in 0..MaxToken /\ events \in 0..MaxEvents
    BY <1>1, SessionAssumption DEF Init
  <2>2. me \in [Slots -> Tokens \cup {None}]
    BY <1>1 DEF Init
  <2> QED BY <1>1, <2>1, <2>2 DEF Init, TypeOK, Paths, AuthRoutes
<1> QED BY <1>1, TypeStep, PTL DEF Spec

----------------------------------------------------------------------------
(* What the parts that actions share do to the session.                    *)

\* Once the session is signed out, every call that still awaits is one the
\* sign-out overtook: a call begun later has set a token.
Overtaken == ref = None => \A h \in Slots : me[h] # None => h \in overtaken

\* What the invariants relate, in the state a step leads to.
Good ==
  /\ BearerNewest
  /\ SignedOutUnlessLate
  /\ Overtaken

\* A document that is loaded has neither a token nor a user.
LEMMA LoadGood ==
  ASSUME NEW p \in Paths, Load(p)
  PROVE  Good'
BY DEF Load, Good, BearerNewest, SignedOutUnlessLate, Overtaken

\* A sign-out takes both away.
LEMMA SignOutGood ==
  ASSUME SignOut
  PROVE  Good'
BY DEF SignOut, Good, BearerNewest, SignedOutUnlessLate, Overtaken

\* handleUser sets the token to the user it is called with, before its
\* await; called with what the library then has stored, it keeps both
\* invariants, whatever calls still await.
LEMMA HandleUserGood ==
  ASSUME NEW u, NEW W, Good, HandleUser(u, W), stored' = u
  PROVE  Good'
<1>1. CASE Usable(u)
  BY <1>1, SignOutGood DEF HandleUser, Usable, SetToken, Good, BearerNewest, SignedOutUnlessLate, Overtaken
<1>2. CASE ~Usable(u)
  BY <1>2, SignOutGood DEF HandleUser
<1> QED BY <1>1, <1>2

\* An answer of /auth/me that comes when there is no token is one of a call
\* that was overtaken, and is recorded as such.
LEMMA ShowUserGood ==
  ASSUME Good, TypeOK, NEW h \in Slots, ShowUser(h)
  PROVE  Good'
<1>1. ref = None /\ me[h] # None => h \in overtaken
  BY DEF Good, Overtaken
<1>2. user' = me[h] /\ ref' = ref /\ stored' = stored /\ late' = (h \in overtaken)
  BY DEF ShowUser, session
<1>3. BearerNewest' /\ SignedOutUnlessLate'
  BY <1>1, <1>2 DEF Good, BearerNewest, SignedOutUnlessLate
<1>4. Overtaken'
  BY DEF ShowUser, Good, Overtaken, TypeOK
<1> QED BY <1>3, <1>4 DEF Good

----------------------------------------------------------------------------
(* Every step keeps them.                                                  *)

LEMMA GoodStep ==
  ASSUME Good, TypeOK, [Next]_vars
  PROVE  Good'
<1> USE DEF session, react, history
<1>1. CASE GetUser
  <2>1. PICK h \in Slots : HandleUser(stored, {h})
    BY <1>1 DEF GetUser
  <2>2. stored' = stored
    BY <1>1 DEF GetUser
  <2> QED BY <2>1, <2>2, HandleUserGood
<1>2. CASE SigninCallback
  <2>1. PICK g, h \in Slots : NewUser({g, h})
    BY <1>2 DEF SigninCallback
  <2> QED BY <2>1, HandleUserGood DEF NewUser
<1>3. CASE RenewSucceeds
  <2>1. PICK h \in Slots : NewUser({h})
    BY <1>3 DEF RenewSucceeds
  <2> QED BY <2>1, HandleUserGood DEF NewUser
<1>4. CASE RenewFails
  BY <1>4, SignOutGood DEF RenewFails
<1>5. ASSUME NEW h \in Slots, MeSucceeds(h) \/ MeFails(h)
      PROVE  Good'
  BY <1>5, ShowUserGood DEF MeSucceeds, MeFails
<1>6. ASSUME NEW h \in Slots, MeRefused(h)
      PROVE  Good'
  <2>1. CASE Load("login")
    BY <2>1, LoadGood DEF Paths, AuthRoutes
  <2>2. CASE ShowUser(h)
    BY <2>2, ShowUserGood
  <2> QED BY <1>6, <2>1, <2>2 DEF MeRefused
<1>7. CASE CallRefused
  BY <1>7, LoadGood DEF CallRefused, Paths, AuthRoutes
<1>8. CASE Login
  BY <1>8, LoadGood DEF Login, Paths
<1>9. CASE ProviderReturns
  BY <1>9, LoadGood DEF ProviderReturns, Paths, AuthRoutes
<1>10. CASE Reload
  BY <1>10 DEF Reload, Load, Good, BearerNewest, SignedOutUnlessLate, Overtaken
<1>11. CASE SignoutRedirect
  <2>1. CASE Load("away")
    BY <2>1, LoadGood DEF Paths
  <2>2. CASE SignOut
    BY <2>2, SignOutGood
  <2> QED BY <1>11, <2>1, <2>2 DEF SignoutRedirect
<1>12. CASE OpenFails
  BY <1>12 DEF OpenFails, Good, BearerNewest, SignedOutUnlessLate, Overtaken
<1>13. CASE LeaveCallback \/ LeaveLogin \/ TurnAway
  BY <1>13 DEF LeaveCallback, LeaveLogin, TurnAway, Good, BearerNewest, SignedOutUnlessLate, Overtaken
<1>14. CASE MountShell \/ Browse
  BY <1>14 DEF MountShell, Browse, Ask, Good, BearerNewest, SignedOutUnlessLate, Overtaken
<1>15. CASE CallAnswered \/ CallFails
  BY <1>15 DEF CallAnswered, CallFails, Good, BearerNewest, SignedOutUnlessLate, Overtaken
<1>16. CASE Logout \/ Expire
  BY <1>16 DEF Logout, Expire, Good, BearerNewest, SignedOutUnlessLate, Overtaken
<1>17. CASE UNCHANGED vars
  BY <1>17 DEF vars, Good, BearerNewest, SignedOutUnlessLate, Overtaken
<1> QED
  BY <1>1, <1>2, <1>3, <1>4, <1>5, <1>6, <1>7, <1>8, <1>9, <1>10, <1>11, <1>12, <1>13,
     <1>14, <1>15, <1>16, <1>17 DEF Next, Proceed

LEMMA GoodAlways == Spec => []Good
<1>1. Init => Good
  BY DEF Init, Good, BearerNewest, SignedOutUnlessLate, Overtaken
<1> QED BY <1>1, GoodStep, TypeCorrect, PTL DEF Spec

\* Requests never carry an older token than the session's, however renewals
\* and answers overlap (AuthProvider.tsx:76).
THEOREM BearerNewestAlways == Spec => []BearerNewest
<1>1. Good => BearerNewest
  BY DEF Good
<1> QED BY <1>1, GoodAlways, PTL

\* A user is shown without a token only when it was set by a call that was
\* awaiting /auth/me at the sign-out (AuthProvider.tsx:75-91).
THEOREM SignedOutUnlessLateAlways == Spec => []SignedOutUnlessLate
<1>1. Good => SignedOutUnlessLate
  BY DEF Good
<1> QED BY <1>1, GoodAlways, PTL

============================================================================
