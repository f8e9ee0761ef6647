---------------------------- MODULE ServerProofs ----------------------------
(***************************************************************************)
(* Proofs about the gateway's process: RateLimiter, for any set of         *)
(* clients, any burst, cost and idle period that satisfy its assumptions,  *)
(* and Lifecycle, for every number of servers, every length of the key     *)
(* window, the pauses and the grace period, and every environment.         *)
(***************************************************************************)
EXTENDS RateLimiter, Lifecycle, TLAPS

----------------------------------------------------------------------------
(* The rate limiter.  What its buckets hold.                               *)

(* Every bucket that is held survived, or was made after, the last        *)
(* collection.                                                            *)
GcCovers ==
    \A k \in Keys : buckets[k].held => lastGC - buckets[k].last <= IdleFor

(* What was granted in the window and what is left is paid for by the     *)
(* burst and the refill of the window.                                    *)
WindowPaid ==
    /\ since <= now
    /\ spent + Level(watched) <= Cap + (now - since)

(* Since its last request the watched client has been refilled, up to the *)
(* burst.                                                                 *)
QuietRefills ==
    /\ asked <= now
    /\ Level(watched) >= Cap \/ Level(watched) >= now - asked

(* The inductive invariant.                                               *)
LInv ==
    /\ TypeOK
    /\ GcCovers
    /\ WindowPaid
    /\ QuietRefills

----------------------------------------------------------------------------

(* Whatever a client puts into X-Forwarded-For, behind the ingress its    *)
(* requests are counted under its own address.                            *)
LEMMA ClientKey ==
    ASSUME NEW p \in Peers
    PROVE  /\ \A own \in Forged : clientIP(Append(own, p), Ingress) = p
           /\ clientIP(<<>>, p) = p
<1>1. clientIP(<<>>, p) = p
  BY DEF clientIP
<1>2. ASSUME NEW own \in Forged PROVE clientIP(Append(own, p), Ingress) = p
  <2>1. own \in Seq(Keys) /\ p \in Keys
    BY LimiterAssumption DEF Keys
  <2>2. Append(own, p) # <<>> /\ Append(own, p)[Len(Append(own, p))] = p
    BY <2>1
  <2> QED
    BY <2>2 DEF clientIP
<1> QED
  BY <1>1, <1>2

(* Eviction takes only full buckets, so it changes no client's level.     *)
LEMMA EvictionKeepsLevels ==
    ASSUME TypeOK, NEW k \in Keys
    PROVE  /\ AfterGc \in [Keys -> Bucket]
           /\ AfterGc[k].tokens \in 0..Cap /\ AfterGc[k].last \in 0..now
           /\ LevelOf(AfterGc[k]) = LevelOf(buckets[k])
<1>1. Absent \in Bucket /\ ~Absent.held /\ Absent.tokens = 0 /\ Absent.last = 0
  BY DEF Absent, Bucket
<1>2. Evict(buckets[k]) => LevelOf(buckets[k]) = Cap
  BY LimiterAssumption, IdleForOutlastsRefill DEF TypeOK, Evict, LevelOf, Refill
<1>3. LevelOf(Absent) = Cap
  BY <1>1 DEF LevelOf
<1>4. AfterGc \in [Keys -> Bucket]
  BY <1>1 DEF AfterGc, TypeOK
<1>5. AfterGc[k] = buckets[k] \/ (AfterGc[k] = Absent /\ Evict(buckets[k]))
  BY DEF AfterGc, TypeOK
<1> QED
  BY <1>1, <1>2, <1>3, <1>4, <1>5, LimiterAssumption DEF TypeOK

(* The bucket allow works on holds exactly the client's level.            *)
LEMMA RefilledIsLevel ==
    ASSUME now \in Nat, NEW b \in Bucket, b.tokens \in 0..Cap, b.last \in 0..now
    PROVE  /\ Refilled(b) \in Bucket
           /\ Refilled(b).held
           /\ Refilled(b).tokens = LevelOf(b)
           /\ Refilled(b).last = now
           /\ LevelOf(b) \in 0..Cap
  BY LimiterAssumption DEF Refilled, LevelOf, Refill, Bucket

(* What a request of p does: its own bucket pays or stays, no other level *)
(* changes.                                                               *)
LEMMA RequestEffect ==
    ASSUME TypeOK, NEW p \in Peers, Request(p)
    PROVE  /\ now' = now /\ since' = since /\ watched' = watched
           /\ buckets' \in [Keys -> Bucket]
           /\ buckets'[p].held /\ buckets'[p].last = now
           /\ \A k \in Keys : k # p => buckets'[k] = AfterGc[k]
           /\ lastGC' = IF GcDue THEN now ELSE lastGC
           /\ asked' = IF p = watched THEN now ELSE asked
           /\ Level(p) \in 0..Cap
           /\ \/ /\ Level(p) >= Cost
                 /\ buckets'[p].tokens = Level(p) - Cost
                 /\ verdict' = [verdict EXCEPT ![p] = "allowed"]
                 /\ spent' = IF p = watched THEN spent + Cost ELSE spent
              \/ /\ Level(p) < Cost
                 /\ buckets'[p].tokens = Level(p)
                 /\ verdict' = [verdict EXCEPT ![p] = "limited"]
                 /\ spent' = spent
<1>1. /\ allow(p, p)
      /\ now' = now /\ since' = since /\ watched' = watched
  BY ClientKey DEF Request, RequestViaIngress, RequestDirect
<1>2. p \in Keys
  BY DEF Keys
<1> DEFINE b == Refilled(AfterGc[p])
           left == IF b.tokens >= Cost THEN b.tokens - Cost ELSE b.tokens
           new == [held |-> TRUE, tokens |-> left, last |-> b.last]
<1>3. /\ AfterGc \in [Keys -> Bucket]
      /\ b \in Bucket /\ b.last = now /\ b.tokens = Level(p)
      /\ Level(p) \in 0..Cap
  <2>1. /\ AfterGc \in [Keys -> Bucket]
        /\ AfterGc[p].tokens \in 0..Cap /\ AfterGc[p].last \in 0..now
        /\ LevelOf(AfterGc[p]) = Level(p)
    BY <1>2, EvictionKeepsLevels DEF Level
  <2>2. now \in Nat
    BY DEF TypeOK
  <2> QED
    BY <1>2, <2>1, <2>2, RefilledIsLevel
<1>4. buckets' = [AfterGc EXCEPT ![p] = new]
  BY <1>1 DEF allow
<1>5. new \in Bucket
  BY <1>3, LimiterAssumption DEF Bucket
<1> HIDE DEF b
<1>6. /\ buckets' \in [Keys -> Bucket]
      /\ buckets'[p] = new
      /\ \A k \in Keys : k # p => buckets'[k] = AfterGc[k]
  <2> HIDE DEF new
  <2> QED
    BY <1>2, <1>3, <1>4, <1>5
<1>7. /\ buckets'[p].held /\ buckets'[p].last = now /\ buckets'[p].tokens = left
  BY <1>3, <1>6
<1>8. /\ lastGC' = IF GcDue THEN now ELSE lastGC
      /\ asked' = IF p = watched THEN now ELSE asked
      /\ verdict' = [verdict EXCEPT ![p] = IF b.tokens >= Cost THEN "allowed" ELSE "limited"]
      /\ spent' = IF p = watched /\ b.tokens >= Cost THEN spent + Cost ELSE spent
  BY <1>1 DEF allow, b
<1>9. CASE Level(p) >= Cost
  BY <1>1, <1>3, <1>6, <1>7, <1>8, <1>9
<1>10. CASE ~(Level(p) >= Cost)
  BY <1>1, <1>3, <1>6, <1>7, <1>8, <1>10, LimiterAssumption
<1> QED
  BY <1>9, <1>10

(* A tick refills every client that is not full by one unit.              *)
LEMMA TickRefills ==
    ASSUME TypeOK, Tick, NEW p \in Peers
    PROVE  /\ Level(p) \in 0..Cap
           /\ Level(p)' = IF Level(p) < Cap THEN Level(p) + 1 ELSE Cap
<1>1. p \in Keys
  BY DEF Keys
<1> QED
  BY <1>1, LimiterAssumption DEF Tick, TypeOK, Level, LevelOf, Refill

(* The inductive invariant holds in every reachable state.                *)
THEOREM Inductive == Spec => []LInv
<1>1. Init => LInv
  <2> SUFFICES ASSUME Init PROVE LInv
    OBVIOUS
  <2>1. Absent \in Bucket /\ ~Absent.held /\ Absent.tokens = 0 /\ Absent.last = 0
    BY DEF Absent, Bucket
  <2>2. Level(watched) = Cap
    BY <2>1 DEF Init, Level, LevelOf, Keys
  <2> QED
    BY <2>1, <2>2, LimiterAssumption
       DEF Init, LInv, TypeOK, GcCovers, WindowPaid, QuietRefills
<1>2. LInv /\ [Next]_vars => LInv'
  <2> SUFFICES ASSUME LInv, [Next]_vars PROVE LInv'
    OBVIOUS
  <2> USE LimiterAssumption DEF LInv
  <2>1. ASSUME NEW p \in Peers, Request(p) PROVE LInv'
    <3>1. /\ now' = now /\ since' = since /\ watched' = watched
          /\ buckets' \in [Keys -> Bucket]
          /\ buckets'[p].held /\ buckets'[p].last = now
          /\ \A k \in Keys : k # p => buckets'[k] = AfterGc[k]
          /\ lastGC' = IF GcDue THEN now ELSE lastGC
          /\ asked' = IF p = watched THEN now ELSE asked
          /\ Level(p) \in 0..Cap
          /\ buckets'[p].tokens = Level(p) \/ buckets'[p].tokens = Level(p) - Cost
          /\ buckets'[p].tokens \in 0..Cap
          /\ verdict' \in [Peers -> {"none", "allowed", "limited"}]
          /\ spent' \in Nat
          /\ \/ p = watched /\ spent' + buckets'[p].tokens = spent + Level(p)
             \/ p # watched /\ spent' = spent
      <4>1. /\ Level(p) \in 0..Cap
            /\ \/ /\ Level(p) >= Cost
                  /\ buckets'[p].tokens = Level(p) - Cost
                  /\ verdict' = [verdict EXCEPT ![p] = "allowed"]
                  /\ spent' = IF p = watched THEN spent + Cost ELSE spent
               \/ /\ buckets'[p].tokens = Level(p)
                  /\ verdict' = [verdict EXCEPT ![p] = "limited"]
                  /\ spent' = spent
        BY <2>1, RequestEffect
      <4>2. spent \in Nat /\ verdict \in [Peers -> {"none", "allowed", "limited"}]
        BY DEF TypeOK
      <4>3. verdict' \in [Peers -> {"none", "allowed", "limited"}]
        BY <4>1, <4>2
      <4>4. /\ buckets'[p].tokens = Level(p) \/ buckets'[p].tokens = Level(p) - Cost
            /\ buckets'[p].tokens \in 0..Cap /\ spent' \in Nat
            /\ \/ p = watched /\ spent' + buckets'[p].tokens = spent + Level(p)
               \/ p # watched /\ spent' = spent
        BY <4>1, <4>2
      <4> QED
        BY <2>1, <4>1, <4>3, <4>4, RequestEffect
    <3>2. \A k \in Keys : /\ AfterGc[k].tokens \in 0..Cap /\ AfterGc[k].last \in 0..now
                          /\ LevelOf(AfterGc[k]) = LevelOf(buckets[k])
      BY EvictionKeepsLevels
    <3>3. TypeOK'
      <4>1. \A k \in Keys : buckets'[k].tokens \in 0..Cap /\ buckets'[k].last \in 0..now'
        <5>1. /\ buckets'[p].last \in 0..now' /\ buckets'[p].tokens \in 0..Cap
          BY <3>1 DEF TypeOK
        <5>2. ASSUME NEW k \in Keys, k # p
              PROVE  buckets'[k].tokens \in 0..Cap /\ buckets'[k].last \in 0..now'
          <6>1. buckets'[k] = AfterGc[k] /\ now' = now
            BY <3>1, <5>2
          <6> QED
            BY <3>2, <6>1
        <5> QED
          BY <5>1, <5>2
      <4>2. /\ lastGC' \in Int /\ lastGC' <= now' /\ now' \in Nat
            /\ asked' \in Nat /\ since' \in Nat /\ watched' \in Peers
        BY <3>1 DEF TypeOK
      <4> QED
        BY <3>1, <4>1, <4>2 DEF TypeOK
    <3>4. GcCovers'
      BY <3>1 DEF TypeOK, GcCovers, GcDue, AfterGc, Evict, Absent
    <3>5. p = watched => Level(watched)' = buckets'[p].tokens
      BY <3>1 DEF TypeOK, Level, LevelOf, Refill
    <3>6. p # watched => Level(watched)' = Level(watched)
      BY <3>1, <3>2 DEF TypeOK, Keys, Level, LevelOf, Refill
    <3>7. WindowPaid' /\ QuietRefills'
      BY <3>1, <3>5, <3>6 DEF TypeOK, WindowPaid, QuietRefills
    <3> QED
      BY <3>3, <3>4, <3>7
  <2>2. ASSUME NEW p \in Peers, OpenWindow(p) PROVE LInv'
    <3>1. Level(p) \in 0..Cap
      <4>1. p \in Keys
        BY DEF Keys
      <4> QED
        BY <4>1 DEF TypeOK, Level, LevelOf, Refill
    <3>2. Level(watched)' = Level(p)
      BY <2>2 DEF OpenWindow, Level, LevelOf
    <3> QED
      BY <2>2, <3>1, <3>2 DEF OpenWindow, TypeOK, GcCovers, WindowPaid, QuietRefills
  <2>3. CASE Tick
    <3>1. watched \in Peers
      BY DEF TypeOK
    <3>2. /\ Level(watched) \in 0..Cap /\ watched' = watched
          /\ Level(watched)' = IF Level(watched) < Cap THEN Level(watched) + 1 ELSE Cap
      <4>1. watched' = watched
        BY <2>3 DEF Tick, history
      <4>2. \A p \in Peers : /\ Level(p) \in 0..Cap
                             /\ Level(p)' = IF Level(p) < Cap THEN Level(p) + 1 ELSE Cap
        BY <2>3, TickRefills
      <4> QED
        BY <3>1, <4>1, <4>2 DEF Level
    <3> QED
      BY <2>3, <3>2 DEF Tick, history, TypeOK, GcCovers, WindowPaid, QuietRefills
  <2>4. CASE UNCHANGED vars
    BY <2>4 DEF vars, history, TypeOK, GcCovers, WindowPaid, QuietRefills, Level, LevelOf
  <2> QED
    BY <2>1, <2>2, <2>3, <2>4 DEF Next
<1> QED
  BY <1>1, <1>2, PTL DEF Spec

(* In every window a client is let through for at most one burst and the  *)
(* refill of the window.                                                  *)
THEOREM WindowBoundAlways == Spec => []WindowBound
<1>1. LInv => WindowBound
  <2> SUFFICES ASSUME LInv PROVE WindowBound
    OBVIOUS
  <2>1. watched \in Keys
    BY DEF LInv, TypeOK, Keys
  <2>2. Level(watched) \in 0..Cap
    BY <2>1, LimiterAssumption DEF LInv, TypeOK, Level, LevelOf, Refill
  <2> QED
    BY <2>2, LimiterAssumption DEF LInv, TypeOK, WindowPaid, WindowBound
<1> QED
  BY <1>1, Inductive, PTL

(* Type correctness; no bucket exceeds its burst or is overdrawn.         *)
THEOREM TypeCorrect == Spec => []TypeOK
<1>1. LInv => TypeOK
  BY DEF LInv
<1> QED
  BY <1>1, Inductive, PTL

(* Collection inside allow leaves no bucket idle for two idle periods.    *)
THEOREM EvictionKeepsUpAlways == Spec => EvictionKeepsUp
<1> DEFINE A == \A p \in Peers : Request(p) =>
                  \A k \in Keys : buckets'[k].held => now - buckets'[k].last < 2 * IdleFor
<1>1. LInv /\ LInv' /\ [Next]_vars => [A]_vars
  <2> SUFFICES ASSUME LInv, LInv', NEW p \in Peers, Request(p),
                      NEW k \in Keys, buckets'[k].held
               PROVE  now - buckets'[k].last < 2 * IdleFor
    OBVIOUS
  <2>1. now' = now /\ (lastGC' = IF GcDue THEN now ELSE lastGC)
    BY RequestEffect DEF LInv
  <2>2. now - lastGC' < IdleFor
    BY <2>1, LimiterAssumption, IdleForOutlastsRefill DEF LInv, TypeOK, GcDue
  <2>3. lastGC' - buckets'[k].last <= IdleFor
    BY DEF LInv, GcCovers
  <2>4. lastGC' \in Int /\ buckets'[k].last \in Int /\ now \in Int
    BY <2>1 DEF LInv, TypeOK, Bucket
  <2>5. IdleFor \in Int /\ 2 * IdleFor = IdleFor + IdleFor
    BY LimiterAssumption
  <2>6. \A x, g, n, d \in Int : n - g < d /\ g - x <= d => n - x < d + d
    OBVIOUS
  <2> QED
    BY <2>2, <2>3, <2>4, <2>5, <2>6
<1> QED
  BY <1>1, Inductive, PTL DEF Spec, EvictionKeepsUp

(* A client quiet for the time of one token is let through.               *)
THEOREM QuietClientAdmittedAlways == Spec => QuietClientAdmitted
<1> DEFINE A == Request(watched) /\ now - asked >= Cost => verdict'[watched] = "allowed"
<1>1. LInv /\ [Next]_vars => [A]_vars
  <2> SUFFICES ASSUME LInv, Request(watched), now - asked >= Cost
               PROVE  verdict'[watched] = "allowed"
    OBVIOUS
  <2>1. watched \in Peers
    BY DEF LInv, TypeOK
  <2>2. Level(watched) \in 0..Cap /\ Level(watched) >= Cost
    BY <2>1, RequestEffect, LimiterAssumption DEF LInv, TypeOK, QuietRefills
  <2>3. verdict' = [verdict EXCEPT ![watched] = "allowed"]
    BY <2>1, <2>2, RequestEffect, LimiterAssumption DEF LInv
  <2> QED
    BY <2>1, <2>3 DEF LInv, TypeOK
<1> QED
  BY <1>1, Inductive, PTL DEF Spec, QuietClientAdmitted

(* The limiter implements the ideal token bucket of each client: eviction *)
(* and lazy refill are invisible.                                         *)
THEOREM Refinement == Spec => RefinesTokenBucket
<1> DEFINE L == [p \in Peers |-> Level(p)]
<1>1. Init => Ideal!IdealInit
  <2> SUFFICES ASSUME Init PROVE Ideal!IdealInit
    OBVIOUS
  <2>1. \A p \in Peers : Level(p) = Cap
    BY DEF Init, Level, LevelOf, Keys, Absent
  <2> QED
    BY <2>1 DEF Init, Ideal!IdealInit
<1>2. LInv /\ LInv' /\ [Next]_vars => [Ideal!IdealNext]_(Ideal!idealVars)
  <2> SUFFICES ASSUME LInv, LInv', [Next]_vars
               PROVE  Ideal!IdealNext \/ (L' = L /\ verdict' = verdict)
    BY DEF Ideal!idealVars
  <2> USE LimiterAssumption DEF LInv
  <2>0. \A p \in Peers : Level(p) \in 0..Cap
    <3> SUFFICES ASSUME NEW p \in Peers PROVE Level(p) \in 0..Cap
      OBVIOUS
    <3>1. /\ buckets[p] \in Bucket /\ buckets[p].tokens \in 0..Cap
          /\ buckets[p].last \in 0..now /\ now \in Nat
      BY DEF TypeOK, Keys
    <3> QED
      BY <3>1, RefilledIsLevel DEF Level
  <2>1. ASSUME NEW p \in Peers, Request(p) PROVE Ideal!IdealNext
    <3>1. \A q \in Peers : q # p => Level(q)' = Level(q)
      <4> SUFFICES ASSUME NEW q \in Peers, q # p PROVE Level(q)' = Level(q)
        OBVIOUS
      <4>1. q \in Keys
        BY DEF Keys
      <4>2. now' = now /\ buckets'[q] = AfterGc[q]
        BY <2>1, <4>1, RequestEffect
      <4>3. LevelOf(AfterGc[q]) = LevelOf(buckets[q])
        BY <4>1, EvictionKeepsLevels
      <4> QED
        BY <4>2, <4>3 DEF Level, LevelOf
    <3>2. Level(p)' = buckets'[p].tokens
      <4>1. /\ now' = now /\ buckets'[p].held /\ buckets'[p].last = now
            /\ buckets'[p].tokens \in 0..Cap
        BY <2>1, RequestEffect DEF TypeOK
      <4> QED
        BY <4>1 DEF TypeOK, Level, LevelOf, Refill
    <3>3. CASE Level(p) >= Cost
      <4>1. Level(p)' = Level(p) - Cost /\ verdict' = [verdict EXCEPT ![p] = "allowed"]
        BY <2>0, <2>1, <3>2, <3>3, RequestEffect
      <4>2. L' = [L EXCEPT ![p] = L[p] - Cost]
        BY <3>1, <4>1
      <4> QED
        BY <3>3, <4>1, <4>2 DEF Ideal!IdealNext, Ideal!IdealAllow
    <3>4. CASE ~(Level(p) >= Cost)
      <4>1. Level(p)' = Level(p) /\ verdict' = [verdict EXCEPT ![p] = "limited"]
        BY <2>0, <2>1, <3>2, <3>4, RequestEffect
      <4>2. L' = L
        BY <3>1, <4>1
      <4>3. L[p] < Cost
        BY <2>0, <3>4
      <4> QED
        BY <4>1, <4>2, <4>3 DEF Ideal!IdealNext, Ideal!IdealLimit
    <3> QED
      BY <3>3, <3>4
  <2>2. ASSUME NEW p \in Peers, OpenWindow(p) PROVE L' = L /\ verdict' = verdict
    BY <2>2 DEF OpenWindow, Level, LevelOf
  <2>3. CASE Tick
    <3>1. \A p \in Peers : /\ Level(p) \in 0..Cap
                           /\ Level(p)' = IF Level(p) < Cap THEN Level(p) + 1 ELSE Cap
      BY <2>3, TickRefills
    <3>2. \A p \in Peers : Level(p)' = IF Cap < Level(p) + 1 THEN Cap ELSE Level(p) + 1
      BY <3>1
    <3> QED
      BY <2>3, <3>2 DEF Tick, Ideal!IdealNext, Ideal!IdealTick, Ideal!LeastOf
  <2>4. CASE UNCHANGED vars
    BY <2>4 DEF vars, Level, LevelOf
  <2> QED
    BY <2>1, <2>2, <2>3, <2>4 DEF Next
<1> QED
  BY <1>1, <1>2, Inductive, PTL DEF Spec, RefinesTokenBucket, Ideal!IdealSpec

----------------------------------------------------------------------------
(* The process, from its start to its end.                                 *)

USE DEF Alive, main, net

----------------------------------------------------------------------------
(* The inductive invariant. *)

\* Where main can stand, and how its process can have ended there.
Places ==
  /\ pc \in {"load", "fetch", "pause", "quotas", "started", "waiting", "draining"}
  /\ exit \in {"no", "config", "jwks", "quotas", "killed", "clean"}
  /\ exit = "config" => pc = "load"
  /\ exit = "jwks" => pc = "fetch"
  /\ exit = "quotas" => pc = "quotas"
  /\ exit = "clean" => pc = "draining"
  /\ exit = "killed" => pc \notin {"waiting", "draining"}

\* The clocks: a pause is bounded by the attempt before it, and an attempt by
\* the pause before it.
Clocks ==
  /\ elapsed \in 0..Horizon /\ age \in 0..Horizon /\ idpUpAt \in Nat
  /\ pc = "load" => elapsed = 0 /\ age = 0
  /\ pc \in {"fetch", "pause"} => age <= elapsed
  /\ pc = "pause" => age <= RetryDelay /\ elapsed <= MaxWait + age
  /\ pc = "fetch" => age <= FetchTimeout /\ elapsed <= MaxWait + RetryDelay + FetchTimeout
  /\ pc = "fetch" /\ exit = "no" => elapsed <= MaxWait + RetryDelay + age
  /\ pc \notin {"fetch", "pause", "draining"} => elapsed = 0 /\ age = 0
  /\ pc = "draining" => age = 0

\* The servers: started only after the whole configuration, shut down only
\* while draining, and done with a request open only after the grace period.
Drains ==
  /\ srv \in [Servers -> {"off", "starting", "up", "returned"}]
  /\ shut \in [Servers -> {"no", "waiting", "done"}]
  /\ inflight \in [Servers -> 0..MaxInFlight]
  /\ sig \in 0..1
  /\ \A s \in Servers :
       /\ srv[s] # "off" => pc \in {"started", "waiting", "draining"}
       /\ shut[s] # "no" => pc = "draining"
       /\ shut[s] = "done" => inflight[s] = 0 \/ elapsed >= Grace
       /\ exit = "clean" => shut[s] = "done"

\* A usable trust anchor URL for this environment.
Anchor(u) ==
  /\ u \in Url
  /\ u.host \in {"operator", "keycloak"}
  /\ u.scheme = "https" \/ (u.scheme = "http" /\ env.allowInsecure)

\* The trust anchor is known from the first key fetch on.
Anchored ==
  /\ env \in Envs /\ idpUpAt \in IdpTimes
  /\ settings \in [issuer : Url, jwks : Url, quotas : {settings.quotas}]
  /\ pc # "load" => Anchor(settings.issuer) /\ Anchor(settings.jwks)

PInv == Places /\ Clocks /\ Drains /\ Anchored /\ SlowProviderSurvived

----------------------------------------------------------------------------

\* Whatever the discovery endpoint answers, resolving a validated environment
\* yields URLs of that environment, or an error.
LEMMA ResolvedAnchors ==
  ASSUME env \in Envs, NEW doc, Validate(env), ResolveOIDC(env, doc).ok
  PROVE  /\ Anchor(ResolveOIDC(env, doc).final.issuer)
         /\ Anchor(ResolveOIDC(env, doc).final.jwks)
<1> DEFINE issuer == firstNonEmpty(env.oidcIssuer, deriveKeycloakIssuer(env.kcUrl))
           jwks == firstNonEmpty(env.oidcJwks, env.kcJwks)
<1>1. /\ issuer \in {env.oidcIssuer, env.kcUrl} /\ Set(issuer)
      /\ jwks \in {env.oidcJwks, env.kcJwks} /\ Set(jwks)
  BY DEF Validate, firstNonEmpty, deriveKeycloakIssuer
<1>2. issuer # Unset /\ jwks # Unset
  <2>1. ~Set(Unset)
    BY DEF Set, Unset
  <2> HIDE DEF issuer, jwks
  <2> QED
    BY <1>1, <2>1, Zenon
<1>3. /\ ResolveOIDC(env, doc).final.issuer = issuer
      /\ ResolveOIDC(env, doc).final.jwks = jwks
      /\ requireSecureURL(issuer, env.allowInsecure)
      /\ requireSecureURL(jwks, env.allowInsecure)
  BY <1>2 DEF ResolveOIDC
<1>4. \A u \in {issuer, jwks} : u \in Url /\ u.host \in {"operator", "keycloak"}
  BY <1>1, EnvsWritten
<1> QED
  BY <1>1, <1>3, <1>4 DEF requireSecureURL, Anchor

\* The invariant holds in every reachable state.
THEOREM ProcessInductive == ProcessSpec => []PInv
<1> USE LifecycleAssumption
<1>1. ProcessInit => PInv
  <2> SUFFICES ASSUME ProcessInit PROVE PInv
    OBVIOUS
  <2>1. Places
    BY DEF ProcessInit, Places
  <2>2. Clocks
    BY DEF ProcessInit, Clocks, Horizon, Never
  <2>3. Drains
    BY DEF ProcessInit, Drains
  <2>4. Anchored
    BY DEF ProcessInit, Anchored, NoSettings, Unset, Url, Schemes, Hosts
  <2>5. SlowProviderSurvived
    BY DEF ProcessInit, SlowProviderSurvived
  <2> QED
    BY <2>1, <2>2, <2>3, <2>4, <2>5 DEF PInv
<1>2. PInv /\ [ProcessNext]_processVars => PInv'
  <2> SUFFICES ASSUME PInv, [ProcessNext]_processVars PROVE PInv'
    OBVIOUS
  <2> USE DEF PInv
  <2>0. Horizon \in Nat
    BY DEF Horizon
  <2>1. CASE Configure
    <3>1. PICK doc \in Docs :
            LET r == ResolveOIDC(env, doc)
            IN IF Validate(env) /\ r.ok
               THEN /\ settings' = [settings EXCEPT !.issuer = r.final.issuer, !.jwks = r.final.jwks]
                    /\ pc' = "fetch" /\ UNCHANGED exit
               ELSE exit' = "config" /\ UNCHANGED <<settings, pc>>
      BY <2>1 DEF Configure
    <3>2. Places' /\ Clocks' /\ Drains' /\ SlowProviderSurvived'
      BY <2>0, <2>1, <3>1 DEF Configure, Places, Clocks, Drains, SlowProviderSurvived
    <3>3. Anchored'
      <4>1. CASE Validate(env) /\ ResolveOIDC(env, doc).ok
        <5> DEFINE f == ResolveOIDC(env, doc).final
        <5>1. Anchor(f.issuer) /\ Anchor(f.jwks)
          BY <4>1, ResolvedAnchors DEF Anchored
        <5> HIDE DEF f
        <5>2. settings' = [settings EXCEPT !.issuer = f.issuer, !.jwks = f.jwks] /\ env' = env /\ idpUpAt' = idpUpAt
          BY <2>1, <3>1, <4>1 DEF Configure, f
        <5> QED
          BY <5>1, <5>2 DEF Anchored, Anchor
      <4>2. CASE ~(Validate(env) /\ ResolveOIDC(env, doc).ok)
        <5>1. UNCHANGED <<settings, pc, env, idpUpAt>>
          BY <2>1, <3>1, <4>2 DEF Configure
        <5> QED
          BY <5>1 DEF Anchored, Anchor
      <4> QED
        BY <4>1, <4>2
    <3> QED
      BY <3>2, <3>3
  <2>2. CASE FetchSucceeds
    BY <2>0, <2>2 DEF FetchSucceeds, Places, Clocks, Drains, Anchored, Anchor, SlowProviderSurvived
  <2>3. CASE FetchFails
    <3>1. Places' /\ Drains' /\ Anchored'
      BY <2>3 DEF FetchFails, Places, Drains, Anchored, Anchor
    <3>2. Clocks'
      BY <2>0, <2>3 DEF FetchFails, Clocks
    <3>3. SlowProviderSurvived'
      BY <2>3 DEF FetchFails, Clocks, Horizon, SlowProviderSurvived
    <3> QED
      BY <3>1, <3>2, <3>3
  <2>4. CASE Retry
    BY <2>0, <2>4 DEF Retry, Places, Clocks, Drains, Anchored, Anchor, SlowProviderSurvived
  <2>5. CASE StartServers
    <3>1. Places' /\ Clocks' /\ Drains' /\ SlowProviderSurvived'
      BY <2>0, <2>5 DEF StartServers, Places, Clocks, Drains, SlowProviderSurvived
    <3>2. /\ settings' = [settings EXCEPT !.quotas = ParseBucketQuotas(env.quotas).quotas] \/ settings' = settings
          /\ env' = env /\ idpUpAt' = idpUpAt /\ pc # "load"
      BY <2>5 DEF StartServers
    <3>3. Anchored'
      BY <3>2 DEF Anchored, Anchor
    <3> QED
      BY <3>1, <3>3
  <2>6. CASE Notify
    BY <2>0, <2>6 DEF Notify, Places, Clocks, Drains, Anchored, Anchor, SlowProviderSurvived
  <2>7. ASSUME NEW s \in Servers, Bind(s) \/ BindFails(s) \/ ServeReturns(s)
        PROVE  PInv'
    BY <2>0, <2>7 DEF Bind, BindFails, ServeReturns, Places, Clocks, Drains, Anchored, Anchor, SlowProviderSurvived
  <2>8. ASSUME NEW s \in Servers, RequestBegins(s) \/ RequestEnds(s)
        PROVE  PInv'
    BY <2>0, <2>8 DEF RequestBegins, RequestEnds, Places, Clocks, Drains, Anchored, Anchor, SlowProviderSurvived
  <2>9. ASSUME NEW s \in Servers, ShutdownBegins(s) \/ ShutdownEnds(s)
        PROVE  PInv'
    BY <2>0, <2>9 DEF ShutdownBegins, ShutdownEnds, Places, Clocks, Drains, Anchored, Anchor, SlowProviderSurvived
  <2>10. CASE Signal
    BY <2>0, <2>10 DEF Signal, Places, Clocks, Drains, Anchored, Anchor, SlowProviderSurvived
  <2>11. CASE SignalReceived
    BY <2>0, <2>11 DEF SignalReceived, Places, Clocks, Drains, Anchored, Anchor, SlowProviderSurvived
  <2>12. CASE MainReturns
    BY <2>0, <2>12 DEF MainReturns, Places, Clocks, Drains, Anchored, Anchor, SlowProviderSurvived
  <2>13. CASE TimePasses
    BY <2>0, <2>13 DEF TimePasses, Places, Clocks, Drains, Anchored, Anchor, SlowProviderSurvived
  <2>14. CASE UNCHANGED processVars
    BY <2>14 DEF processVars, Places, Clocks, Drains, Anchored, Anchor, SlowProviderSurvived
  <2> QED
    BY <2>1, <2>2, <2>3, <2>4, <2>5, <2>6, <2>7, <2>8, <2>9, <2>10, <2>11, <2>12, <2>13, <2>14
       DEF ProcessNext, Startup, Server, Gone
<1> QED
  BY <1>1, <1>2, PTL DEF ProcessSpec

\* Every variable of the process keeps its range; the signal channel never
\* holds more than one signal (waitForShutdownSignal).
THEOREM ProcessTypeCorrect == ProcessSpec => []ProcessTypeOK
<1>1. PInv => ProcessTypeOK
  BY DEF PInv, Places, Clocks, Drains, Anchored, ProcessTypeOK
<1> QED
  BY <1>1, ProcessInductive, PTL

\* A listener is started only with an issuer and a key URL the operator wrote
\* (LoadAndValidate, ResolveOIDC), for every environment and every answer of
\* a discovery endpoint.
THEOREM TrustAnchorAlways == ProcessSpec => []TrustAnchorIsConfigured
<1>1. PInv => TrustAnchorIsConfigured
  BY DEF PInv, Drains, Anchored, Anchor, TrustAnchorIsConfigured, Serving
<1> QED
  BY <1>1, ProcessInductive, PTL

\* The initial key fetch overruns its window by at most one pause and one
\* attempt (NewJWKSVerifier).
THEOREM JwksWindowAlways == ProcessSpec => []JwksWindowBounded
<1>1. PInv => JwksWindowBounded
  BY LifecycleAssumption DEF PInv, Places, Clocks, JwksWindowBounded, Horizon
<1> QED
  BY <1>1, ProcessInductive, PTL

\* The process gives up only on a provider that came up too late
\* (NewJWKSVerifier).
THEOREM SlowProviderAlways == ProcessSpec => []SlowProviderSurvived
<1>1. PInv => SlowProviderSurvived
  BY DEF PInv
<1> QED
  BY <1>1, ProcessInductive, PTL

\* Once signals are handled, only an expired grace period cuts a request
\* (waitForShutdownSignal, gracefulShutdown).
THEOREM CutOnlyAfterGraceAlways == ProcessSpec => []CutOnlyAfterGrace
<1>1. PInv => CutOnlyAfterGrace
  BY DEF PInv, Places, Drains, CutOnlyAfterGrace
<1> QED
  BY <1>1, ProcessInductive, PTL

=============================================================================
