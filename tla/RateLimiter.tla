---------------------------- MODULE RateLimiter ----------------------------
(***************************************************************************)
(* The per-client throttle of the unauthenticated OIDC endpoints           *)
(* (internal/webui/ratelimit.go): token buckets refilled lazily when their *)
(* key is seen, created on demand and evicted by a collection that runs at *)
(* most once per idleFor, inside allow.  allow holds the mutex from its    *)
(* first line to its last, so a request is one action.                     *)
(*                                                                         *)
(* Requests come through the one trusted ingress, which appends the peer   *)
(* it sees to whatever X-Forwarded-For the client sent, or directly from   *)
(* inside the cluster with no such header.                                 *)
(***************************************************************************)
EXTENDS Integers, Sequences

CONSTANTS
    Peers,    \* client addresses
    Ingress,  \* the address of the trusted ingress
    Forged,   \* the X-Forwarded-For entries a client may send of its own
    Cap,      \* burst, in units of one tick's refill
    Cost,     \* one token, in the same units
    IdleFor,  \* idleFor, in ticks
    MaxNow    \* bound on the clock

Keys == Peers \cup {Ingress}

ASSUME LimiterAssumption ==
    /\ Ingress \notin Peers
    /\ Forged \subseteq Seq(Keys)
    /\ Cost \in Nat \ {0}
    /\ Cap \in Nat
    /\ Cost <= Cap
    /\ IdleFor \in Nat
    /\ MaxNow \in Nat

(* An idle bucket is full again before it may be evicted: burst / rate =  *)
(* 30 s against idleFor = 10 min in RegisterRoutes and newRateLimiter.    *)
ASSUME IdleForOutlastsRefill == Cap <= IdleFor

VARIABLES
    now,      \* the clock
    buckets,  \* rateLimiter.buckets; held = FALSE stands for "absent"
    lastGC,   \* rateLimiter.lastGC
    verdict,  \* what the last request of each peer was told
    watched,  \* history: the peer an observation window is open on
    since,    \* history: when the window was opened
    spent,    \* history: units granted to that peer since then
    asked     \* history: its last request, or the opening of the window

history == <<watched, since, spent, asked>>
vars == <<now, buckets, lastGC, verdict, history>>

Bucket == [held : BOOLEAN, tokens : Int, last : Int]

Absent == [held |-> FALSE, tokens |-> 0, last |-> 0]

----------------------------------------------------------------------------

(* lastGC starts as the zero time.Time, more than idleFor ago.            *)
Init ==
    /\ now = 0
    /\ buckets = [k \in Keys |-> Absent]
    /\ lastGC = -IdleFor - 1
    /\ verdict = [p \in Peers |-> "none"]
    /\ watched \in Peers
    /\ since = 0
    /\ spent = 0
    /\ asked = 0

ClientIPMutLeftmost(xff, remote) == IF xff = <<>> THEN remote ELSE Head(xff)

(* The key of a request: the right-most X-Forwarded-For entry, or the     *)
(* transport's remote address.                                            *)
clientIP(xff, remote) == IF xff = <<>> THEN remote ELSE xff[Len(xff)]

EvictMutAnyIdle(b) == b.held /\ now - b.last > 0

(* The buckets gcLocked deletes.                                          *)
Evict(b) == b.held /\ now - b.last > IdleFor

GcDueMutNever == FALSE

GcDue == now - lastGC >= IdleFor

AfterGc ==
    IF GcDue
    THEN [k \in Keys |-> IF Evict(buckets[k]) THEN Absent ELSE buckets[k]]
    ELSE buckets

(* elapsed * rate tokens are added, capped at burst.                      *)
Refill(t, elapsed) == IF t + elapsed > Cap THEN Cap ELSE t + elapsed

(* The bucket allow works on: a new, full one when the key is unknown,    *)
(* else the old one refilled for the time since it was last touched.      *)
Refilled(b) ==
    IF ~b.held THEN [held |-> TRUE, tokens |-> Cap, last |-> now]
    ELSE IF now - b.last > 0
         THEN [held |-> TRUE, tokens |-> Refill(b.tokens, now - b.last), last |-> now]
         ELSE b

(* allow(key) for a request of peer p: 429 when less than one token is    *)
(* left, else one token is taken and the handler runs.                    *)
allow(p, key) ==
    LET b == Refilled(AfterGc[key])
        ok == b.tokens >= Cost
        left == IF ok THEN b.tokens - Cost ELSE b.tokens
    IN /\ lastGC' = IF GcDue THEN now ELSE lastGC
       /\ buckets' = [AfterGc EXCEPT ![key] =
                        [held |-> TRUE, tokens |-> left, last |-> b.last]]
       /\ verdict' = [verdict EXCEPT ![p] = IF ok THEN "allowed" ELSE "limited"]
       /\ spent' = IF p = watched /\ ok THEN spent + Cost ELSE spent
       /\ asked' = IF p = watched THEN now ELSE asked

(* rateLimitMiddleware on a request that came through the ingress ...     *)
RequestViaIngress(p) ==
    /\ \E own \in Forged : allow(p, clientIP(Append(own, p), Ingress))
    /\ UNCHANGED <<now, watched, since>>

(* ... and on one from inside the cluster.                                *)
RequestDirect(p) ==
    /\ allow(p, clientIP(<<>>, p))
    /\ UNCHANGED <<now, watched, since>>

Tick ==
    /\ now < MaxNow
    /\ now' = now + 1
    /\ UNCHANGED <<buckets, lastGC, verdict, history>>

(* Observation only: a window may be opened on any peer at any moment.    *)
OpenWindow(p) ==
    /\ watched' = p
    /\ since' = now
    /\ spent' = 0
    /\ asked' = now
    /\ UNCHANGED <<now, buckets, lastGC, verdict>>

Request(p) == RequestViaIngress(p) \/ RequestDirect(p)

Next ==
    \/ \E p \in Peers : Request(p) \/ OpenWindow(p)
    \/ Tick

Spec == Init /\ [][Next]_vars

----------------------------------------------------------------------------

(* Every variable holds a value of its kind, and no bucket holds more     *)
(* than its burst or less than nothing.                                   *)
TypeOK ==
    /\ now \in Nat
    /\ buckets \in [Keys -> Bucket]
    /\ \A k \in Keys : buckets[k].tokens \in 0..Cap /\ buckets[k].last \in 0..now
    /\ lastGC \in Int /\ lastGC <= now
    /\ verdict \in [Peers -> {"none", "allowed", "limited"}]
    /\ watched \in Peers
    /\ since \in Nat
    /\ spent \in Nat
    /\ asked \in Nat

(* In any window of any client, whatever it puts into X-Forwarded-For and *)
(* whatever eviction does, the requests let through cost no more than one *)
(* full burst and the refill of the window (ratelimit.go:30-31).          *)
WindowBound == spent <= Cap + (now - since)

(* Eviction keeps up (gcLocked bounds memory): when a request has been    *)
(* handled, no bucket is left that was untouched for two idle periods.    *)
EvictionKeepsUp ==
    [][\A p \in Peers : Request(p) =>
        \A k \in Keys : buckets'[k].held => now - buckets'[k].last < 2 * IdleFor]_vars

(* A client that was told to wait and stays quiet for the time of one     *)
(* token is let through on its next request: being turned away does not   *)
(* push the next token further out.                                       *)
QuietClientAdmitted ==
    [][Request(watched) /\ now - asked >= Cost => verdict'[watched] = "allowed"]_vars

(* The level of the ideal bucket of p: an absent bucket counts as full,   *)
(* a stored one as what it would be after the refill it has not had yet.  *)
LevelOf(b) == IF b.held THEN Refill(b.tokens, now - b.last) ELSE Cap

Level(p) == LevelOf(buckets[p])

Ideal == INSTANCE TokenBucket WITH level <- [p \in Peers |-> Level(p)]

(* The lazily refilled, evicted buckets behave as the ideal ones: each    *)
(* client is told at each request what its ideal bucket would tell it.    *)
RefinesTokenBucket == Ideal!IdealSpec

============================================================================
