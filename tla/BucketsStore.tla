---------------------------- MODULE BucketsStore ----------------------------
(***************************************************************************)
(* The bucket list of the single-page application and the statistics that  *)
(* decorate its cards: web/src/store/buckets.ts and the effects of         *)
(* pages/Buckets.tsx and pages/Browser.tsx.  fetchBucketStats runs a few   *)
(* workers over a queue; every merge of a result changes the list, which   *)
(* fires the page's effect again, while lists are reloaded and pages left  *)
(* with requests still in flight.                                          *)
(*                                                                         *)
(* The names of the specification carry a prefix, so that the two stores   *)
(* can be extended together.                                               *)
(***************************************************************************)
EXTENDS Integers, FiniteSets

CONSTANTS
    Names,             \* buckets
    MayRead,           \* those whose permissions let the user read
    StatsConcurrency,  \* STATS_CONCURRENCY
    Runs,              \* slots for calls of fetchBucketStats; their number is the bound
    MaxFetches         \* bound on calls of fetchBuckets in flight

ASSUME StoreAssumption ==
    /\ IsFiniteSet(Names)
    /\ MayRead \subseteq Names
    /\ StatsConcurrency \in Nat \ {0}
    /\ MaxFetches \in Nat

VARIABLES
    page,       \* "buckets", or "browser" for a bucket's page
    list,       \* store: buckets
    sized,      \* store: those of the list whose size is known
    requested,  \* statsRequested
    fetches,    \* calls of fetchBuckets in flight
    runs,       \* the calls of fetchBucketStats
    failed      \* history: names whose lookup failed since then

cardsVars == <<page, list, sized, requested, fetches, runs, failed>>

(* queue: names no worker has taken; flying: one request per worker; old: *)
(* history, a list has been loaded since the call.                        *)
Finished == [queue |-> {}, flying |-> {}, old |-> FALSE]

(* The names a call has still to look up.                                 *)
Pending(run) == run.queue \cup run.flying

CardsInit ==
    /\ page \in {"buckets", "browser"}
    /\ list = {}
    /\ sized = {}
    /\ requested = {}
    /\ fetches = 1
    /\ runs = [r \in Runs |-> Finished]
    /\ failed = {}

(* Names of a list that are readable and have no size.                    *)
Undecorated(names, known) == (names \cap MayRead) \ known

Smaller(m, n) == IF m < n THEN m ELSE n

QueueMutUnfiltered(names, req) == names

(* names.filter((n) => !statsRequested.has(n))                            *)
Queue(names, req) == names \ req

(* The effect of the Buckets page on a new value of the list: a call of   *)
(* fetchBucketStats, whose workers take their first names at once.        *)
(* rs, req: runs and requested as they are by then.                       *)
Effect(names, known, rs, req) ==
    LET queue == Queue(Undecorated(names, known), req)
        workers == Smaller(StatsConcurrency, Cardinality(queue))
    IN \/ /\ page' = "browser" \/ queue = {}
          /\ requested' = req /\ runs' = rs
       \/ /\ page' = "buckets" /\ queue # {}
          /\ requested' = req \cup queue
          /\ \E r \in Runs, first \in SUBSET queue :
              /\ rs[r] = Finished
              /\ Cardinality(first) = workers
              /\ runs' = [rs EXCEPT ![r] = [queue |-> queue \ first, flying |-> first,
                                         old |-> FALSE]]

----------------------------------------------------------------------------

(* The Buckets page is opened: fetchBuckets, and the effect on the list   *)
(* there is.                                                              *)
OpenBuckets ==
    /\ page = "browser"
    /\ fetches < MaxFetches
    /\ page' = "buckets"
    /\ fetches' = fetches + 1
    /\ Effect(list, sized, runs, requested)
    /\ UNCHANGED <<list, sized, failed>>

(* A bucket is opened: its page fetches the list only if there is none.   *)
OpenBrowser ==
    /\ page = "buckets"
    /\ page' = "browser"
    /\ \/ list # {} /\ UNCHANGED fetches
       \/ list = {} /\ fetches < MaxFetches /\ fetches' = fetches + 1
    /\ UNCHANGED <<list, sized, requested, runs, failed>>

ClearedMutKept(req) == req

(* statsRequested.clear()                                                 *)
Cleared(req) == {}

(* History: the calls in progress were made for an earlier list.          *)
Aged(rs) == [r \in Runs |-> IF rs[r] = Finished THEN Finished ELSE [rs[r] EXCEPT !.old = TRUE]]

(* fetchBuckets is answered: a new list, without any size.  A bucket's    *)
(* page fetches again when the list became empty.                         *)
ListLoaded(names) ==
    /\ fetches > 0
    /\ fetches' = IF page = "browser" /\ names = {} /\ list # {} THEN fetches ELSE fetches - 1
    /\ list' = names
    /\ sized' = {}
    /\ failed' = {}
    /\ UNCHANGED page
    /\ Effect(names, {}, Aged(runs), Cleared(requested))

ListFailed ==
    /\ fetches > 0
    /\ fetches' = fetches - 1
    /\ UNCHANGED <<page, list, sized, requested, runs, failed>>

(* What a worker does after a request for n: it takes the next name.      *)
Advance(r, n, next) ==
    LET run == [runs[r] EXCEPT !.queue = @ \ next, !.flying = (@ \ {n}) \cup next]
    IN [runs EXCEPT ![r] = IF Pending(run) = {} THEN Finished ELSE run]

(* The next name of the queue, if any.                                    *)
NextOf(r) == IF runs[r].queue = {} THEN {{}} ELSE {{n} : n \in runs[r].queue}

(* A lookup succeeds: merged by name into the list of now, which fires    *)
(* the effect; the worker goes on.                                        *)
StatsArrive(r, n) ==
    /\ n \in runs[r].flying
    /\ sized' = sized \cup ({n} \cap list)
    /\ UNCHANGED <<page, list, fetches, failed>>
    /\ \E next \in NextOf(r) :
        Effect(list, sized', Advance(r, n, next), requested)

(* A lookup fails, silently.                                              *)
StatsFail(r, n) ==
    /\ n \in runs[r].flying
    /\ failed' = failed \cup {n}
    /\ \E next \in NextOf(r) : runs' = Advance(r, n, next)
    /\ UNCHANGED <<page, list, sized, requested, fetches>>

CardsNext ==
    \/ OpenBuckets \/ OpenBrowser \/ ListFailed
    \/ \E names \in SUBSET Names : ListLoaded(names)
    \/ \E r \in Runs, n \in Names : StatsArrive(r, n) \/ StatsFail(r, n)

CardsSpec == CardsInit /\ [][CardsNext]_cardsVars

----------------------------------------------------------------------------

(* Nothing is looked up twice at the same time for the same list,         *)
(* although every merge fires the effect again while other lookups are    *)
(* queued or in flight (buckets.ts:40-43).                                *)
NoDoubleLookup ==
    \A r, s \in Runs :
        r # s /\ ~runs[r].old /\ ~runs[s].old => Pending(runs[r]) \cap Pending(runs[s]) = {}

(* No card is forgotten: on the Buckets page a readable bucket without a  *)
(* size is waiting in a queue some worker is draining, or in flight, or   *)
(* its lookup failed, also after reloads and pages left and entered.      *)
NoCardForgotten ==
    page = "buckets" =>
        \A n \in Undecorated(list, sized) :
            \/ n \in failed
            \/ \E r \in Runs : n \in runs[r].flying
            \/ \E r \in Runs : n \in runs[r].queue /\ runs[r].flying # {}

============================================================================
