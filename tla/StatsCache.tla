---------------------------- MODULE StatsCache ----------------------------
(***************************************************************************)
(* The bucket statistics endpoint of the web UI, GET                       *)
(* /api/v1/buckets/{bucket}/stats (internal/webui/stats.go): a TTL cache   *)
(* behind a mutex, filled by a bounded walk of the bucket listing.  Each   *)
(* HTTP request is a process; each section the handler runs under          *)
(* stats.mu is one action, and so is each page of the walk, each wake-up   *)
(* of a waiting request and each disconnect of a client.                   *)
(*                                                                         *)
(* A channel (make(chan struct{})) is named by the request that made it:   *)
(* a request makes at most one.                                            *)
(***************************************************************************)
EXTENDS Integers, FiniteSets

CONSTANTS
    Requests,   \* the HTTP requests that may arrive
    Buckets,    \* the buckets they may ask for
    Readers,    \* the requests whose groups grant GET (acl.CheckAccess)
    NoChan,     \* "no channel": the zero value of a map lookup
    TTL,        \* statsCacheTTL, in clock ticks
    MaxPages,   \* statsMaxPages
    PageSize,   \* statsPageSize
    MaxObjects, \* bound on the number of objects of a bucket
    MaxNow      \* bound on the clock

ASSUME StatsAssumption ==
    /\ Readers \subseteq Requests
    /\ NoChan \notin Requests
    /\ TTL \in Nat \ {0}
    /\ MaxPages \in Nat \ {0}
    /\ PageSize \in Nat \ {0}
    /\ MaxObjects \in Nat
    /\ MaxNow \in Nat

VARIABLES
    now,      \* the clock
    backend,  \* a storage backend was configured at startup
    objects,  \* objects[b]: how many objects the backend holds in b
    entries,  \* statsCache.entries: computed = FALSE stands for "absent"
    pending,  \* statsCache.pending: the channel of the walk in flight
    closed,   \* the channels that have been closed
    pc,       \* where each request stands in the handler
    bkt,      \* the bucket each request asks for
    at,       \* when each request looked the cache up
    ch,       \* the channel a follower waits on
    gone,     \* requests whose context is cancelled (client disconnected)
    walk,     \* a leader's walk: the locals of computeBucketStats
    out       \* the answer written

cacheVars == <<entries, pending, closed>>
reqVars == <<pc, bkt, at, ch, gone, walk, out>>
vars == <<now, backend, objects, cacheVars, reqVars>>

Statuses == {0, 200, 403, 502, 503}

(* The part of BucketStatsResponse the properties tell apart.             *)
Resp == [bucket : Buckets, count : Nat, truncated : BOOLEAN]

(* statsEntry.  "began" is not in the code: when the walk that produced   *)
(* the entry looked the cache up, kept to compare walks.                  *)
Entry == [computed : BOOLEAN, resp : Resp, fetched : Nat, began : Nat]

Walk == [page : Nat, count : Nat, truncated : BOOLEAN, err : BOOLEAN]

Answer == [status : Statuses, resp : Resp, fetched : Nat]

ZeroResp(b) == [bucket |-> b, count |-> 0, truncated |-> FALSE]

NoEntry(b) ==
    [computed |-> FALSE, resp |-> ZeroResp(b), fetched |-> 0, began |-> 0]

NewWalk == [page |-> 0, count |-> 0, truncated |-> FALSE, err |-> FALSE]

(* writeError and the answer of a request that has not been answered.     *)
Failed(b, status) == [status |-> status, resp |-> ZeroResp(b), fetched |-> 0]

Served(e) == [status |-> 200, resp |-> e.resp, fetched |-> e.fetched]

----------------------------------------------------------------------------

Init ==
    /\ now = 0
    /\ backend \in BOOLEAN
    /\ objects \in [Buckets -> 0..MaxObjects]
    /\ entries = [b \in Buckets |-> NoEntry(b)]
    /\ pending = [b \in Buckets |-> NoChan]
    /\ closed = {}
    /\ pc = [r \in Requests |-> "idle"]
    /\ bkt \in [Requests -> Buckets]
    /\ at = [r \in Requests |-> 0]
    /\ ch = [r \in Requests |-> NoChan]
    /\ gone = {}
    /\ walk = [r \in Requests |-> NewWalk]
    /\ out = [r \in Requests |-> Failed(bkt[r], 0)]

Goto(r, l) == pc' = [pc EXCEPT ![r] = l]

Reply(r, a) ==
    /\ Goto(r, "done")
    /\ out' = [out EXCEPT ![r] = a]

(* The checks before the cache is touched: ACL, then backendReady.        *)
Arrive(r) ==
    /\ pc[r] = "idle"
    /\ \/ /\ r \notin Readers
          /\ Reply(r, Failed(bkt[r], 403))
       \/ /\ r \in Readers
          /\ ~backend
          /\ Reply(r, Failed(bkt[r], 503))
       \/ /\ r \in Readers
          /\ backend
          /\ Goto(r, "lookup")
          /\ UNCHANGED out
    /\ UNCHANGED <<now, backend, objects, cacheVars, bkt, at, ch, gone, walk>>

FreshMutBoundary(e) == e.computed /\ now - e.fetched <= TTL

Fresh(e) == e.computed /\ now - e.fetched < TTL

InFlightMutIgnored(b) == FALSE

InFlight(b) == pending[b] # NoChan

(* First locked section: answer from a fresh entry ...                    *)
LookupHit(r) ==
    /\ pc[r] = "lookup"
    /\ Fresh(entries[bkt[r]])
    /\ Reply(r, Served(entries[bkt[r]]))
    /\ at' = [at EXCEPT ![r] = now]
    /\ UNCHANGED <<now, backend, objects, cacheVars, bkt, ch, gone, walk>>

(* ... or wait for the walk in flight ...                                 *)
LookupJoin(r) ==
    /\ pc[r] = "lookup"
    /\ ~Fresh(entries[bkt[r]])
    /\ InFlight(bkt[r])
    /\ ch' = [ch EXCEPT ![r] = pending[bkt[r]]]
    /\ at' = [at EXCEPT ![r] = now]
    /\ Goto(r, "wait")
    /\ UNCHANGED <<now, backend, objects, cacheVars, bkt, gone, walk, out>>

(* ... or become the leader of a new one.                                 *)
LookupLead(r) ==
    /\ pc[r] = "lookup"
    /\ ~Fresh(entries[bkt[r]])
    /\ ~InFlight(bkt[r])
    /\ pending' = [pending EXCEPT ![bkt[r]] = r]
    /\ at' = [at EXCEPT ![r] = now]
    /\ walk' = [walk EXCEPT ![r] = NewWalk]
    /\ Goto(r, "walk")
    /\ UNCHANGED <<now, backend, objects, entries, closed, bkt, ch, gone, out>>

(* The select of a follower: the channel is closed ...                    *)
Wake(r) ==
    /\ pc[r] = "wait"
    /\ ch[r] \in closed
    /\ Goto(r, "woken")
    /\ UNCHANGED <<now, backend, objects, cacheVars, bkt, at, ch, gone, walk, out>>

(* ... or its own client is gone; when both are ready Go picks either.    *)
WaitCancelled(r) ==
    /\ pc[r] = "wait"
    /\ r \in gone
    /\ Reply(r, Failed(bkt[r], 503))
    /\ UNCHANGED <<now, backend, objects, cacheVars, bkt, at, ch, gone, walk>>

(* Second locked section of a follower: any computed entry, of any age.   *)
FollowerAnswer(r) ==
    /\ pc[r] = "woken"
    /\ LET e == entries[bkt[r]] IN
       Reply(r, IF e.computed THEN Served(e) ELSE Failed(bkt[r], 502))
    /\ UNCHANGED <<now, backend, objects, cacheVars, bkt, at, ch, gone, walk>>

(* How many objects the page after the first "seen" ones holds.           *)
OnPage(n, seen) == IF n - seen < PageSize THEN n - seen ELSE PageSize

AtCapMutOffByOne(page) == page = MaxPages

(* The loop of computeBucketStats has no page left after this one.        *)
AtCap(page) == page + 1 = MaxPages

(* One page of computeBucketStats.  The last page ends the walk; so does  *)
(* the cap, with Truncated set.                                           *)
ListPage(r) ==
    /\ pc[r] = "walk"
    /\ r \notin gone
    /\ LET w == walk[r]
           n == objects[bkt[r]]
           seen == w.count + OnPage(n, w.count)
           more == seen < n
           capped == AtCap(w.page)
       IN /\ walk' = [walk EXCEPT ![r] =
                [page |-> w.page + 1, count |-> seen,
                 truncated |-> more /\ capped, err |-> FALSE]]
          /\ Goto(r, IF more /\ ~capped THEN "walk" ELSE "publish")
    /\ UNCHANGED <<now, backend, objects, cacheVars, bkt, at, ch, gone, out>>

(* ListObjects fails: the backend answers with an error, or the leader's  *)
(* own context, which the walk runs under, is cancelled.                  *)
ListFail(r) ==
    /\ pc[r] = "walk"
    /\ walk' = [walk EXCEPT ![r].err = TRUE]
    /\ Goto(r, "publish")
    /\ UNCHANGED <<now, backend, objects, cacheVars, bkt, at, ch, gone, out>>

Result(r) ==
    [bucket |-> bkt[r], count |-> walk[r].count, truncated |-> walk[r].truncated]

ReleaseMutSilent(r) ==
    /\ pending' = [pending EXCEPT ![bkt[r]] = NoChan]
    /\ UNCHANGED closed

(* delete(pending, bucket); close(ch).                                    *)
Release(r) ==
    /\ pending' = [pending EXCEPT ![bkt[r]] = NoChan]
    /\ closed' = closed \cup {r}

StoreMutDropped(r, e) == UNCHANGED entries

Store(r, e) == entries' = [entries EXCEPT ![bkt[r]] = e]

(* The leader's last locked section, and its answer.                      *)
Publish(r) ==
    /\ pc[r] = "publish"
    /\ Release(r)
    /\ IF walk[r].err
       THEN /\ Reply(r, Failed(bkt[r], 502))
            /\ UNCHANGED entries
       ELSE LET e == [computed |-> TRUE, resp |-> Result(r),
                      fetched |-> now, began |-> at[r]]
            IN /\ Store(r, e)
               /\ Reply(r, Served(e))
    /\ UNCHANGED <<now, backend, objects, bkt, at, ch, gone, walk>>

(* A client disconnects: net/http cancels the request's context.          *)
Disconnect(r) ==
    /\ pc[r] \notin {"idle", "done"}
    /\ r \notin gone
    /\ gone' = gone \cup {r}
    /\ UNCHANGED <<now, backend, objects, cacheVars, pc, bkt, at, ch, walk, out>>

Tick ==
    /\ now < MaxNow
    /\ now' = now + 1
    /\ UNCHANGED <<backend, objects, cacheVars, reqVars>>

(* Every request has been answered and the clock is at its bound.         *)
Terminated ==
    /\ \A r \in Requests : pc[r] = "done"
    /\ UNCHANGED vars

(* The steps of the server on behalf of r once it has been accepted.      *)
Serve(r) ==
    \/ LookupHit(r) \/ LookupJoin(r) \/ LookupLead(r)
    \/ Wake(r) \/ WaitCancelled(r) \/ FollowerAnswer(r)
    \/ ListPage(r) \/ ListFail(r) \/ Publish(r)

Next ==
    \/ \E r \in Requests : Arrive(r) \/ Serve(r) \/ Disconnect(r)
    \/ Tick
    \/ Terminated

Spec == Init /\ [][Next]_vars

(* The server runs each goroutine, and the backend answers each page: by  *)
(* a listing or by an error.                                              *)
Fairness == \A r \in Requests : WF_vars(Serve(r))

FairSpec == Spec /\ Fairness

----------------------------------------------------------------------------

(* Every variable holds a value of its kind.                              *)
TypeOK ==
    /\ now \in Nat
    /\ backend \in BOOLEAN
    /\ objects \in [Buckets -> Nat]
    /\ entries \in [Buckets -> Entry]
    /\ pending \in [Buckets -> Requests \cup {NoChan}]
    /\ closed \subseteq Requests
    /\ pc \in [Requests -> {"idle", "lookup", "wait", "woken",
                            "walk", "publish", "done"}]
    /\ bkt \in [Requests -> Buckets]
    /\ at \in [Requests -> Nat]
    /\ ch \in [Requests -> Requests \cup {NoChan}]
    /\ gone \subseteq Requests
    /\ walk \in [Requests -> Walk]
    /\ out \in [Requests -> Answer]

Leading(r) == pc[r] \in {"walk", "publish"}

(* The in-flight map prevents duplicate walks (stats.go:49-50): at no     *)
(* time do two requests walk the same bucket.                             *)
SingleFlight ==
    \A r, s \in Requests :
        Leading(r) /\ Leading(s) /\ bkt[r] = bkt[s] => r = s

(* No lost wake-up: the channel a follower waits on is closed already, or *)
(* belongs to a walk of the same bucket that is still running and will    *)
(* close it (stats.go:99-116).                                            *)
NoLostWakeup ==
    \A r \in Requests :
        pc[r] = "wait" =>
            \/ ch[r] \in closed
            \/ ch[r] \in Requests /\ Leading(ch[r]) /\ bkt[ch[r]] = bkt[r]

Follower(r) == ch[r] # NoChan

(* A follower that was not cancelled shares its leader's fate: when the   *)
(* leader's walk succeeded the follower is answered with that walk or a   *)
(* later one, never with 502 and never with what was cached before        *)
(* (close(ch) precedes the store of the entry, stats.go:124-128, and only *)
(* the mutex orders the two for the follower).  This is what the code     *)
(* does; the comment at stats.go:50-52 says otherwise: that followers get *)
(* the cached previous value when one exists and only else wait.          *)
FollowerSeesLeader ==
    \A r \in Requests :
        /\ Follower(r)
        /\ pc[r] = "done"
        /\ out[r].status # 503
        /\ out[ch[r]].status = 200
        => /\ out[r].status = 200
           /\ out[r].fetched >= out[ch[r]].fetched

(* A result that was already older than statsCacheTTL when the request    *)
(* looked it up is served in one case only: to a follower whose leader's  *)
(* walk failed (stats.go:106-112).  By the comment at stats.go:50-52 it   *)
(* would also be served while the walk runs; the code never does that.    *)
StaleOnlyAfterFailedWalk ==
    \A r \in Requests :
        /\ out[r].status = 200
        /\ at[r] - out[r].fetched >= TTL
        => Follower(r) /\ out[ch[r]].status = 502

Cap == MaxPages * PageSize

(* What a walk reports (computeBucketStats): the exact number of objects  *)
(* up to the cap and including it, the cap with Truncated set above it.   *)
CountsExactUpToCap ==
    \A r \in Requests :
        out[r].status = 200 =>
            LET n == objects[bkt[r]] IN
            out[r].resp = [bucket |-> bkt[r],
                           count |-> IF n > Cap THEN Cap ELSE n,
                           truncated |-> n > Cap]

(* Results are published in the order of their walks: the cached result   *)
(* of a bucket is never replaced by that of a walk that began earlier,    *)
(* and never dropped.                                                     *)
EntriesAdvance ==
    [][\A b \in Buckets :
        entries[b].computed =>
            /\ entries'[b].computed
            /\ entries'[b].began >= entries[b].began
            /\ entries'[b].fetched >= entries[b].fetched]_vars

(* Every accepted request is answered, followers of a failed or cancelled *)
(* leader included.                                                       *)
EveryRequestAnswered ==
    \A r \in Requests : pc[r] = "lookup" ~> pc[r] = "done"

============================================================================
