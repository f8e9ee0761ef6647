---------------------------- MODULE TokenBucket ----------------------------
(***************************************************************************)
(* What the throttle of the unauthenticated OIDC endpoints promises each   *)
(* client: an ideal bucket that is full at the start, gains one unit per   *)
(* clock tick up to its capacity, whoever else calls and whatever is       *)
(* evicted, and pays Cost units for each request let through.              *)
(*                                                                         *)
(* The unit makes one tick refill one unit: with 20 requests per minute a  *)
(* request costs three one-second ticks, and a burst of 10 is 30 units.    *)
(***************************************************************************)
EXTENDS Integers

CONSTANTS
    Peers,  \* client addresses
    Cap,    \* burst, in units
    Cost    \* one request, in units

VARIABLES
    level,   \* level[p]: the units p could spend now
    verdict  \* verdict[p]: what the last request of p was told

idealVars == <<level, verdict>>

LeastOf(x, y) == IF x < y THEN x ELSE y

Verdicts == {"none", "allowed", "limited"}

IdealInit ==
    /\ level = [p \in Peers |-> Cap]
    /\ verdict = [p \in Peers |-> "none"]

IdealTick ==
    /\ level' = [p \in Peers |-> LeastOf(Cap, level[p] + 1)]
    /\ UNCHANGED verdict

IdealAllow(p) ==
    /\ level[p] >= Cost
    /\ level' = [level EXCEPT ![p] = @ - Cost]
    /\ verdict' = [verdict EXCEPT ![p] = "allowed"]

IdealLimit(p) ==
    /\ level[p] < Cost
    /\ verdict' = [verdict EXCEPT ![p] = "limited"]
    /\ UNCHANGED level

IdealNext == IdealTick \/ \E p \in Peers : IdealAllow(p) \/ IdealLimit(p)

IdealSpec == IdealInit /\ [][IdealNext]_idealVars

============================================================================
