------------------------- MODULE StatsCacheProofs -------------------------
(***************************************************************************)
(* Proofs about StatsCache for any set of requests and buckets, any TTL    *)
(* and any page cap.                                                       *)
(***************************************************************************)
EXTENDS StatsCache, TLAPS

(* pending names exactly the requests that walk, each under its bucket.   *)
PendingLeads ==
    \A b \in Buckets :
        pending[b] # NoChan => Leading(pending[b]) /\ bkt[pending[b]] = b

LeaderPending ==
    \A r \in Requests : Leading(r) => pending[bkt[r]] = r

(* A closed channel belongs to a leader that has been answered; a request *)
(* that has not been answered has no answer yet.                          *)
ClosedAnswered ==
    /\ \A c \in closed : pc[c] = "done" /\ out[c].status \in {200, 502}
    /\ \A r \in Requests : pc[r] # "done" => out[r].status = 0

(* Where a follower's channel comes from and when it is closed.           *)
FollowerChannel ==
    \A r \in Requests :
        /\ pc[r] \in {"wait", "woken"} => Follower(r)
        /\ Follower(r) =>
            /\ pc[r] \in {"wait", "woken", "done"}
            /\ ch[r] \in Requests
            /\ bkt[ch[r]] = bkt[r]
            /\ ch[r] \in closed \/ pending[bkt[r]] = ch[r]
            /\ pc[r] = "woken" => ch[r] \in closed
            /\ pc[r] = "done" /\ out[r].status # 503 => ch[r] \in closed

(* How the clock orders look-ups, walks and cached results.               *)
TimeOrder ==
    /\ \A r \in Requests :
        /\ at[r] <= now
        /\ Leading(r) => entries[bkt[r]].fetched <= at[r]
        /\ Follower(r) /\ ch[r] \in closed /\ out[ch[r]].status = 200
              => at[r] <= out[ch[r]].fetched
    /\ \A b \in Buckets :
        /\ entries[b].began <= entries[b].fetched
        /\ entries[b].fetched <= now

(* What a leader answered with is cached, or something newer is.          *)
LeaderCached ==
    \A c \in closed :
        out[c].status = 200 =>
            /\ entries[bkt[c]].computed
            /\ entries[bkt[c]].fetched >= out[c].fetched

(* The inductive invariant.                                               *)
IInv ==
    /\ PendingLeads
    /\ LeaderPending
    /\ ClosedAnswered
    /\ FollowerChannel
    /\ TimeOrder
    /\ LeaderCached
    /\ FollowerSeesLeader
    /\ StaleOnlyAfterFailedWalk

----------------------------------------------------------------------------

(* The types the records of a step belong to.                             *)
LEMMA RecordTypes ==
    /\ \A b \in Buckets : ZeroResp(b) \in Resp /\ NoEntry(b) \in Entry
    /\ \A b \in Buckets, st \in Statuses : Failed(b, st) \in Answer
    /\ \A e \in Entry : Served(e) \in Answer
    /\ NewWalk \in Walk
  BY DEF ZeroResp, NoEntry, Failed, Served, NewWalk, Resp, Entry, Answer, Walk, Statuses

(* A failed walk is a walk.                                               *)
LEMMA FailedWalk == \A w \in Walk : [w EXCEPT !.err = TRUE] \in Walk
  BY DEF Walk

(* Type correctness of every reachable state.                             *)
THEOREM TypeCorrect == Spec => []TypeOK
<1>1. Init => TypeOK
  BY StatsAssumption, RecordTypes DEF Init, TypeOK, Statuses
<1>2. TypeOK /\ [Next]_vars => TypeOK'
  <2> SUFFICES ASSUME TypeOK, [Next]_vars PROVE TypeOK'
    OBVIOUS
  <2> USE StatsAssumption, RecordTypes DEF TypeOK, Statuses, cacheVars, Goto, Reply
  <2>1. ASSUME NEW r \in Requests, Arrive(r) PROVE TypeOK'
    BY <2>1 DEF Arrive
  <2>2. ASSUME NEW r \in Requests, LookupHit(r) PROVE TypeOK'
    BY <2>2 DEF LookupHit
  <2>3. ASSUME NEW r \in Requests, LookupJoin(r) PROVE TypeOK'
    BY <2>3 DEF LookupJoin, InFlight
  <2>4. ASSUME NEW r \in Requests, LookupLead(r) PROVE TypeOK'
    BY <2>4 DEF LookupLead
  <2>5. ASSUME NEW r \in Requests, Wake(r) PROVE TypeOK'
    BY <2>5 DEF Wake
  <2>6. ASSUME NEW r \in Requests, WaitCancelled(r) PROVE TypeOK'
    BY <2>6 DEF WaitCancelled
  <2>7. ASSUME NEW r \in Requests, FollowerAnswer(r) PROVE TypeOK'
    BY <2>7 DEF FollowerAnswer
  <2>8. ASSUME NEW r \in Requests, ListPage(r) PROVE TypeOK'
    <3> DEFINE seen == walk[r].count + OnPage(objects[bkt[r]], walk[r].count)
    <3>1. /\ walk[r].page \in Nat /\ walk[r].count \in Nat
          /\ objects[bkt[r]] \in Nat
      BY DEF Walk
    <3>2. seen \in Nat
      BY <3>1 DEF OnPage
    <3>3. [page |-> walk[r].page + 1, count |-> seen,
           truncated |-> seen < objects[bkt[r]] /\ AtCap(walk[r].page),
           err |-> FALSE] \in Walk
      BY <3>1, <3>2 DEF Walk
    <3>4. walk' \in [Requests -> Walk]
      BY <2>8, <3>3, SMTT(30) DEF ListPage
    <3>5. pc'[r] \in {"walk", "publish"} /\ pc' = [pc EXCEPT ![r] = pc'[r]]
      BY <2>8 DEF ListPage
    <3> QED
      BY <2>8, <3>4, <3>5 DEF ListPage
  <2>9. ASSUME NEW r \in Requests, ListFail(r) PROVE TypeOK'
    <3>1. [walk[r] EXCEPT !.err = TRUE] \in Walk
      BY FailedWalk
    <3>2. walk' \in [Requests -> Walk]
      BY <2>9, <3>1 DEF ListFail
    <3>3. pc' = [pc EXCEPT ![r] = "publish"]
      BY <2>9 DEF ListFail
    <3>4. pc' \in [Requests -> {"idle", "lookup", "wait", "woken", "walk", "publish", "done"}]
      BY <3>3
    <3>5. UNCHANGED <<now, backend, objects, cacheVars, bkt, at, ch, gone, out>>
      BY <2>9 DEF ListFail
    <3> HIDE <2>9
    <3> QED
      BY <3>2, <3>4, <3>5
  <2>10. ASSUME NEW r \in Requests, Publish(r) PROVE TypeOK'
    <3> DEFINE e == [computed |-> TRUE, resp |-> Result(r),
                     fetched |-> now, began |-> at[r]]
    <3>1. Result(r) \in Resp
      BY DEF Result, Resp, Walk
    <3>2. e \in Entry
      BY <3>1 DEF Entry
    <3>3. Served(e) \in Answer /\ Failed(bkt[r], 502) \in Answer
      BY <3>2
    <3>4. entries' \in [Buckets -> Entry] /\ out' \in [Requests -> Answer]
      <4>1. CASE walk[r].err
        BY <2>10, <3>3, <4>1 DEF Publish
      <4>2. CASE ~walk[r].err
        <5>1. Store(r, e) /\ Reply(r, Served(e))
          BY <2>10, <4>2 DEF Publish
        <5> HIDE DEF e
        <5> QED
          BY <3>2, <3>3, <5>1 DEF Store
      <4> QED
        BY <4>1, <4>2
    <3>5. pc' = [pc EXCEPT ![r] = "done"]
      BY <2>10 DEF Publish
    <3>6. Release(r)
      BY <2>10 DEF Publish
    <3>7. pc' \in [Requests -> {"idle", "lookup", "wait", "woken", "walk", "publish", "done"}]
      BY <3>5
    <3>8. pending' \in [Buckets -> Requests \cup {NoChan}] /\ closed' \subseteq Requests
      BY <3>6 DEF Release
    <3>9. UNCHANGED <<now, backend, objects, bkt, at, ch, gone, walk>>
      BY <2>10 DEF Publish
    <3> HIDE <2>10
    <3> QED
      BY <3>4, <3>7, <3>8, <3>9
  <2>11. ASSUME NEW r \in Requests, Disconnect(r) PROVE TypeOK'
    BY <2>11 DEF Disconnect
  <2>12. CASE Tick
    BY <2>12 DEF Tick, cacheVars, reqVars
  <2>13. CASE UNCHANGED vars
    BY <2>13 DEF vars, cacheVars, reqVars
  <2> QED
    BY <2>1, <2>2, <2>3, <2>4, <2>5, <2>6, <2>7, <2>8, <2>9, <2>10, <2>11, <2>12, <2>13 DEF Next, Serve, Terminated
<1> QED
  BY <1>1, <1>2, PTL DEF Spec

(* What the answers of a step say, without their other fields.             *)
LEMMA AnswerFields ==
    /\ \A b \in Buckets, st \in Statuses : Failed(b, st).status = st
    /\ \A e \in Entry : Served(e).status = 200 /\ Served(e).fetched = e.fetched
  BY DEF Failed, Served

(* No channel is made by, and no follower waits for, a request that has   *)
(* not led a walk.                                                        *)
LEMMA NotFollowed ==
    ASSUME TypeOK, IInv, NEW r \in Requests,
           pc[r] \in {"idle", "lookup", "wait", "woken"}
    PROVE  r \notin closed /\ \A s \in Requests : ch[s] # r
<1>1. r \notin closed
  BY DEF IInv, ClosedAnswered
<1>2. \A b \in Buckets : pending[b] # r
  BY StatsAssumption DEF IInv, PendingLeads, Leading
<1> QED
  BY <1>1, <1>2, StatsAssumption DEF TypeOK, IInv, FollowerChannel, Follower

(* What the leader's last locked section does to the cache and its answer.*)
LEMMA PublishEffect ==
    ASSUME TypeOK, NEW r \in Requests, Publish(r)
    PROVE  /\ \A s \in Requests : s # r => out'[s] = out[s] /\ pc'[s] = pc[s]
           /\ pc'[r] = "done"
           /\ \A b \in Buckets : b # bkt[r] => entries'[b] = entries[b]
           /\ \/ /\ out'[r].status = 502
                 /\ entries' = entries
              \/ /\ out'[r].status = 200 /\ out'[r].fetched = now
                 /\ entries'[bkt[r]].computed
                 /\ entries'[bkt[r]].fetched = now /\ entries'[bkt[r]].began = at[r]
<1> DEFINE e == [computed |-> TRUE, resp |-> Result(r),
                 fetched |-> now, began |-> at[r]]
<1>1. CASE walk[r].err
  BY <1>1 DEF Publish, Reply, Goto, Failed, TypeOK
<1>2. CASE ~walk[r].err
  <2>1. Store(r, e) /\ Reply(r, Served(e))
    BY <1>2 DEF Publish
  <2>2. Served(e).status = 200 /\ Served(e).fetched = now
    BY DEF Served
  <2> QED
    BY <2>1, <2>2 DEF Store, Reply, Goto, TypeOK
<1> QED
  BY <1>1, <1>2

(* The inductive invariant holds in every reachable state.                *)
THEOREM Inductive == Spec => []IInv
<1>1. Init => IInv
  <2> SUFFICES ASSUME Init PROVE IInv
    OBVIOUS
  <2>1. \A r \in Requests : out[r].status = 0
    BY DEF Init, Failed
  <2>2. \A b \in Buckets : entries[b].fetched = 0 /\ entries[b].began = 0
    BY DEF Init, NoEntry
  <2> QED
    BY <2>1, <2>2, StatsAssumption DEF Init, IInv, PendingLeads, LeaderPending,
       ClosedAnswered, FollowerChannel, TimeOrder, LeaderCached,
       FollowerSeesLeader, StaleOnlyAfterFailedWalk, Leading, Follower
<1>2. TypeOK /\ TypeOK' /\ IInv /\ [Next]_vars => IInv'
  <2> SUFFICES ASSUME TypeOK, TypeOK', IInv, [Next]_vars PROVE IInv'
    OBVIOUS
  <2> USE StatsAssumption DEF IInv, Leading, Follower
  <2>0. /\ pc \in [Requests -> {"idle", "lookup", "wait", "woken",
                               "walk", "publish", "done"}]
        /\ bkt \in [Requests -> Buckets]
        /\ ch \in [Requests -> Requests \cup {NoChan}]
        /\ at \in [Requests -> Nat]
        /\ pending \in [Buckets -> Requests \cup {NoChan}]
        /\ closed \subseteq Requests
        /\ now \in Nat
        /\ DOMAIN out = Requests
        /\ \A r \in Requests : out[r].fetched \in Nat
        /\ DOMAIN entries = Buckets
        /\ \A b \in Buckets : entries[b].fetched \in Nat /\ entries[b].began \in Nat
    BY DEF TypeOK, Entry, Answer
  <2>1. ASSUME NEW r \in Requests, Arrive(r) PROVE IInv'
    <3>0. /\ \A s \in Requests : s # r => out'[s] = out[s] /\ pc'[s] = pc[s]
          /\ out'[r].status \in {0, 403, 503}
          /\ r \notin closed /\ \A s \in Requests : ch[s] # r
          /\ ~Follower(r)
          /\ pc'[r] \in {"done", "lookup"}
          /\ DOMAIN out' = Requests
      BY <2>0, <2>1, NotFollowed, AnswerFields DEF Arrive, Goto, Reply, Statuses, ClosedAnswered, FollowerChannel
    <3>1. PendingLeads'
      BY <2>0, <2>1, <3>0 DEF Arrive, Goto, Reply, cacheVars, PendingLeads
    <3>2. LeaderPending'
      BY <2>0, <2>1, <3>0 DEF Arrive, Goto, Reply, cacheVars, LeaderPending
    <3>3. ClosedAnswered'
      BY <2>0, <2>1, <3>0 DEF Arrive, Goto, Reply, cacheVars, ClosedAnswered
    <3>4. FollowerChannel'
      BY <2>0, <2>1, <3>0 DEF Arrive, Goto, Reply, cacheVars, FollowerChannel
    <3>5. TimeOrder'
      BY <2>0, <2>1, <3>0 DEF Arrive, Goto, Reply, cacheVars, TimeOrder
    <3>6. LeaderCached'
      BY <2>0, <2>1, <3>0 DEF Arrive, Goto, Reply, cacheVars, LeaderCached
    <3>7. FollowerSeesLeader'
      BY <2>0, <2>1, <3>0 DEF Arrive, Goto, Reply, cacheVars, FollowerSeesLeader
    <3>8. StaleOnlyAfterFailedWalk'
      BY <2>0, <2>1, <3>0 DEF Arrive, Goto, Reply, cacheVars, StaleOnlyAfterFailedWalk
    <3> QED
      BY <3>1, <3>2, <3>3, <3>4, <3>5, <3>6, <3>7, <3>8
  <2>2. ASSUME NEW r \in Requests, LookupHit(r) PROVE IInv'
    <3>0. /\ \A s \in Requests : s # r => out'[s] = out[s] /\ pc'[s] = pc[s] /\ at'[s] = at[s]
          /\ out'[r].status = 200 /\ out'[r].fetched = entries[bkt[r]].fetched
          /\ at'[r] = now /\ now - out'[r].fetched < TTL
          /\ r \notin closed /\ \A s \in Requests : ch[s] # r
          /\ ~Follower(r)
          /\ pc'[r] = "done"
      <4>1. /\ \A s \in Requests : s # r => out'[s] = out[s] /\ pc'[s] = pc[s] /\ at'[s] = at[s]
            /\ pc'[r] = "done" /\ at'[r] = now
        BY <2>2 DEF LookupHit, Goto, Reply, TypeOK
      <4>2. out'[r] = Served(entries[bkt[r]]) /\ entries[bkt[r]] \in Entry
        BY <2>2 DEF LookupHit, Reply, TypeOK
      <4>3. now - entries[bkt[r]].fetched < TTL
        BY <2>2 DEF LookupHit, Fresh
      <4>4. pc[r] = "lookup"
        BY <2>2 DEF LookupHit
      <4>5. r \notin closed /\ \A s \in Requests : ch[s] # r
        BY <2>0, <4>4, NotFollowed
      <4>6. ~Follower(r)
        BY <2>0, <4>4 DEF FollowerChannel
      <4> QED
        BY <4>1, <4>2, <4>3, <4>5, <4>6, AnswerFields
    <3>1. PendingLeads'
      BY <2>0, <2>2, <3>0 DEF LookupHit, Fresh, Goto, Reply, cacheVars, PendingLeads
    <3>2. LeaderPending'
      BY <2>0, <2>2, <3>0 DEF LookupHit, Fresh, Goto, Reply, cacheVars, LeaderPending
    <3>3. ClosedAnswered'
      BY <2>0, <2>2, <3>0 DEF LookupHit, Fresh, Goto, Reply, cacheVars, ClosedAnswered
    <3>4. FollowerChannel'
      BY <2>0, <2>2, <3>0 DEF LookupHit, Fresh, Goto, Reply, cacheVars, FollowerChannel
    <3>5. TimeOrder'
      BY <2>0, <2>2, <3>0 DEF LookupHit, Fresh, Goto, Reply, cacheVars, TimeOrder
    <3>6. LeaderCached'
      BY <2>0, <2>2, <3>0 DEF LookupHit, Fresh, Goto, Reply, cacheVars, LeaderCached
    <3>7. FollowerSeesLeader'
      BY <2>0, <2>2, <3>0 DEF LookupHit, Fresh, Goto, Reply, cacheVars, FollowerSeesLeader
    <3>8. StaleOnlyAfterFailedWalk'
      BY <2>0, <2>2, <3>0 DEF LookupHit, Fresh, Goto, Reply, cacheVars, StaleOnlyAfterFailedWalk, ClosedAnswered
    <3> QED
      BY <3>1, <3>2, <3>3, <3>4, <3>5, <3>6, <3>7, <3>8
  <2>3. ASSUME NEW r \in Requests, LookupJoin(r) PROVE IInv'
    <3>0. /\ \A s \in Requests : s # r => /\ pc'[s] = pc[s] /\ at'[s] = at[s]
                                       /\ ch'[s] = ch[s]
          /\ at'[r] = now
          /\ r \notin closed /\ \A s \in Requests : ch[s] # r
          /\ ch'[r] = pending[bkt[r]] /\ ch'[r] \in Requests
          /\ Leading(ch'[r]) /\ bkt[ch'[r]] = bkt[r] /\ ch'[r] \notin closed
          /\ out[r].status = 0
          /\ pc'[r] = "wait"
      BY <2>0, <2>3, NotFollowed DEF LookupJoin, InFlight, Goto, PendingLeads, ClosedAnswered
    <3>1. PendingLeads'
      BY <2>0, <2>3, <3>0 DEF LookupJoin, InFlight, Goto, Reply, cacheVars, PendingLeads
    <3>2. LeaderPending'
      BY <2>0, <2>3, <3>0 DEF LookupJoin, InFlight, Goto, Reply, cacheVars, LeaderPending
    <3>3. ClosedAnswered'
      BY <2>0, <2>3, <3>0 DEF LookupJoin, InFlight, Goto, Reply, cacheVars, ClosedAnswered
    <3>4. FollowerChannel'
      BY <2>0, <2>3, <3>0 DEF LookupJoin, InFlight, Goto, Reply, cacheVars, FollowerChannel
    <3>5. TimeOrder'
      BY <2>0, <2>3, <3>0 DEF LookupJoin, InFlight, Goto, Reply, cacheVars, TimeOrder
    <3>6. LeaderCached'
      BY <2>0, <2>3, <3>0 DEF LookupJoin, InFlight, Goto, Reply, cacheVars, LeaderCached
    <3>7. FollowerSeesLeader'
      BY <2>0, <2>3, <3>0 DEF LookupJoin, InFlight, Goto, Reply, cacheVars, FollowerSeesLeader
    <3>8. StaleOnlyAfterFailedWalk'
      BY <2>0, <2>3, <3>0 DEF LookupJoin, InFlight, Goto, Reply, cacheVars, StaleOnlyAfterFailedWalk
    <3> QED
      BY <3>1, <3>2, <3>3, <3>4, <3>5, <3>6, <3>7, <3>8
  <2>4. ASSUME NEW r \in Requests, LookupLead(r) PROVE IInv'
    <3>0. /\ \A s \in Requests : s # r => /\ pc'[s] = pc[s] /\ at'[s] = at[s]
          /\ at'[r] = now
          /\ out[r].status = 0
          /\ ~Follower(r)
          /\ pc'[r] = "walk"
      BY <2>0, <2>4 DEF LookupLead, Goto, FollowerChannel, ClosedAnswered
    <3>1. PendingLeads'
      BY <2>0, <2>4, <3>0 DEF LookupLead, InFlight, Goto, Reply, cacheVars, PendingLeads
    <3>2. LeaderPending'
      BY <2>0, <2>4, <3>0 DEF LookupLead, InFlight, Goto, Reply, cacheVars, LeaderPending
    <3>3. ClosedAnswered'
      BY <2>0, <2>4, <3>0 DEF LookupLead, InFlight, Goto, Reply, cacheVars, ClosedAnswered
    <3>4. FollowerChannel'
      BY <2>0, <2>4, <3>0 DEF LookupLead, InFlight, Goto, Reply, cacheVars, FollowerChannel
    <3>5. TimeOrder'
      BY <2>0, <2>4, <3>0 DEF LookupLead, InFlight, Goto, Reply, cacheVars, TimeOrder
    <3>6. LeaderCached'
      BY <2>0, <2>4, <3>0 DEF LookupLead, InFlight, Goto, Reply, cacheVars, LeaderCached
    <3>7. FollowerSeesLeader'
      BY <2>0, <2>4, <3>0 DEF LookupLead, InFlight, Goto, Reply, cacheVars, FollowerSeesLeader
    <3>8. StaleOnlyAfterFailedWalk'
      BY <2>0, <2>4, <3>0 DEF LookupLead, InFlight, Goto, Reply, cacheVars, StaleOnlyAfterFailedWalk
    <3> QED
      BY <3>1, <3>2, <3>3, <3>4, <3>5, <3>6, <3>7, <3>8
  <2>5. ASSUME NEW r \in Requests, Wake(r) PROVE IInv'
    <3>1. PendingLeads'
      BY <2>0, <2>5 DEF Wake, Goto, Reply, cacheVars, PendingLeads
    <3>2. LeaderPending'
      BY <2>0, <2>5 DEF Wake, Goto, Reply, cacheVars, LeaderPending
    <3>3. ClosedAnswered'
      BY <2>0, <2>5 DEF Wake, Goto, Reply, cacheVars, ClosedAnswered
    <3>4. FollowerChannel'
      BY <2>0, <2>5 DEF Wake, Goto, Reply, cacheVars, FollowerChannel
    <3>5. TimeOrder'
      BY <2>0, <2>5 DEF Wake, Goto, Reply, cacheVars, TimeOrder
    <3>6. LeaderCached'
      BY <2>0, <2>5 DEF Wake, Goto, Reply, cacheVars, LeaderCached
    <3>7. FollowerSeesLeader'
      BY <2>0, <2>5 DEF Wake, Goto, Reply, cacheVars, FollowerSeesLeader
    <3>8. StaleOnlyAfterFailedWalk'
      BY <2>0, <2>5 DEF Wake, Goto, Reply, cacheVars, StaleOnlyAfterFailedWalk
    <3> QED
      BY <3>1, <3>2, <3>3, <3>4, <3>5, <3>6, <3>7, <3>8
  <2>6. ASSUME NEW r \in Requests, WaitCancelled(r) PROVE IInv'
    <3>0. /\ \A s \in Requests : s # r => out'[s] = out[s] /\ pc'[s] = pc[s]
          /\ out'[r].status = 503
          /\ r \notin closed /\ \A s \in Requests : ch[s] # r
          /\ pc'[r] = "done"
      BY <2>0, <2>6, NotFollowed, AnswerFields DEF WaitCancelled, Goto, Reply, Statuses
    <3>1. PendingLeads'
      BY <2>0, <2>6, <3>0 DEF WaitCancelled, Goto, Reply, cacheVars, PendingLeads
    <3>2. LeaderPending'
      BY <2>0, <2>6, <3>0 DEF WaitCancelled, Goto, Reply, cacheVars, LeaderPending
    <3>3. ClosedAnswered'
      BY <2>0, <2>6, <3>0 DEF WaitCancelled, Goto, Reply, cacheVars, ClosedAnswered
    <3>4. FollowerChannel'
      BY <2>0, <2>6, <3>0 DEF WaitCancelled, Goto, Reply, cacheVars, FollowerChannel
    <3>5. TimeOrder'
      BY <2>0, <2>6, <3>0 DEF WaitCancelled, Goto, Reply, cacheVars, TimeOrder
    <3>6. LeaderCached'
      BY <2>0, <2>6, <3>0 DEF WaitCancelled, Goto, Reply, cacheVars, LeaderCached
    <3>7. FollowerSeesLeader'
      BY <2>0, <2>6, <3>0 DEF WaitCancelled, Goto, Reply, cacheVars, FollowerSeesLeader
    <3>8. StaleOnlyAfterFailedWalk'
      BY <2>0, <2>6, <3>0 DEF WaitCancelled, Goto, Reply, cacheVars, StaleOnlyAfterFailedWalk
    <3> QED
      BY <3>1, <3>2, <3>3, <3>4, <3>5, <3>6, <3>7, <3>8
  <2>7. ASSUME NEW r \in Requests, FollowerAnswer(r) PROVE IInv'
    <3>0. /\ \A s \in Requests : s # r => out'[s] = out[s] /\ pc'[s] = pc[s]
          /\ IF entries[bkt[r]].computed
             THEN out'[r].status = 200 /\ out'[r].fetched = entries[bkt[r]].fetched
             ELSE out'[r].status = 502
          /\ r \notin closed /\ \A s \in Requests : ch[s] # r
          /\ Follower(r) /\ ch[r] \in closed /\ ch[r] \in Requests /\ bkt[ch[r]] = bkt[r]
          /\ pc'[r] = "done"
      BY <2>0, <2>7, NotFollowed, AnswerFields DEF FollowerAnswer, Goto, Reply, TypeOK, Statuses, FollowerChannel
    <3>1. PendingLeads'
      BY <2>0, <2>7, <3>0 DEF FollowerAnswer, Goto, Reply, cacheVars, PendingLeads
    <3>2. LeaderPending'
      BY <2>0, <2>7, <3>0 DEF FollowerAnswer, Goto, Reply, cacheVars, LeaderPending
    <3>3. ClosedAnswered'
      BY <2>0, <2>7, <3>0 DEF FollowerAnswer, Goto, Reply, cacheVars, ClosedAnswered
    <3>4. FollowerChannel'
      BY <2>0, <2>7, <3>0 DEF FollowerAnswer, Goto, Reply, cacheVars, FollowerChannel
    <3>5. TimeOrder'
      BY <2>0, <2>7, <3>0 DEF FollowerAnswer, Goto, Reply, cacheVars, TimeOrder
    <3>6. LeaderCached'
      BY <2>0, <2>7, <3>0 DEF FollowerAnswer, Goto, Reply, cacheVars, LeaderCached
    <3>7. FollowerSeesLeader'
      BY <2>0, <2>7, <3>0 DEF FollowerAnswer, Goto, Reply, cacheVars, FollowerSeesLeader, LeaderCached
    <3>8. StaleOnlyAfterFailedWalk'
      BY <2>0, <2>7, <3>0 DEF FollowerAnswer, Goto, Reply, cacheVars, StaleOnlyAfterFailedWalk, LeaderCached, TimeOrder, ClosedAnswered
    <3> QED
      BY <3>1, <3>2, <3>3, <3>4, <3>5, <3>6, <3>7, <3>8
  <2>8. ASSUME NEW r \in Requests, ListPage(r) PROVE IInv'
    <3>1. PendingLeads'
      BY <2>0, <2>8 DEF ListPage, Goto, Reply, cacheVars, PendingLeads
    <3>2. LeaderPending'
      BY <2>0, <2>8 DEF ListPage, Goto, Reply, cacheVars, LeaderPending
    <3>3. ClosedAnswered'
      BY <2>0, <2>8 DEF ListPage, Goto, Reply, cacheVars, ClosedAnswered
    <3>4. FollowerChannel'
      BY <2>0, <2>8 DEF ListPage, Goto, Reply, cacheVars, FollowerChannel
    <3>5. TimeOrder'
      BY <2>0, <2>8 DEF ListPage, Goto, Reply, cacheVars, TimeOrder
    <3>6. LeaderCached'
      BY <2>0, <2>8 DEF ListPage, Goto, Reply, cacheVars, LeaderCached
    <3>7. FollowerSeesLeader'
      BY <2>0, <2>8 DEF ListPage, Goto, Reply, cacheVars, FollowerSeesLeader
    <3>8. StaleOnlyAfterFailedWalk'
      BY <2>0, <2>8 DEF ListPage, Goto, Reply, cacheVars, StaleOnlyAfterFailedWalk
    <3> QED
      BY <3>1, <3>2, <3>3, <3>4, <3>5, <3>6, <3>7, <3>8
  <2>9. ASSUME NEW r \in Requests, ListFail(r) PROVE IInv'
    <3>1. PendingLeads'
      BY <2>0, <2>9 DEF ListFail, Goto, Reply, cacheVars, PendingLeads
    <3>2. LeaderPending'
      BY <2>0, <2>9 DEF ListFail, Goto, Reply, cacheVars, LeaderPending
    <3>3. ClosedAnswered'
      BY <2>0, <2>9 DEF ListFail, Goto, Reply, cacheVars, ClosedAnswered
    <3>4. FollowerChannel'
      BY <2>0, <2>9 DEF ListFail, Goto, Reply, cacheVars, FollowerChannel
    <3>5. TimeOrder'
      BY <2>0, <2>9 DEF ListFail, Goto, Reply, cacheVars, TimeOrder
    <3>6. LeaderCached'
      BY <2>0, <2>9 DEF ListFail, Goto, Reply, cacheVars, LeaderCached
    <3>7. FollowerSeesLeader'
      BY <2>0, <2>9 DEF ListFail, Goto, Reply, cacheVars, FollowerSeesLeader
    <3>8. StaleOnlyAfterFailedWalk'
      BY <2>0, <2>9 DEF ListFail, Goto, Reply, cacheVars, StaleOnlyAfterFailedWalk
    <3> QED
      BY <3>1, <3>2, <3>3, <3>4, <3>5, <3>6, <3>7, <3>8
  <2>10. ASSUME NEW r \in Requests, Publish(r) PROVE IInv'
    <3>0. /\ \A s \in Requests : s # r => out'[s] = out[s] /\ pc'[s] = pc[s]
          /\ \A b \in Buckets : b # bkt[r] => entries'[b] = entries[b]
          /\ \/ /\ out'[r].status = 502
                /\ entries' = entries
             \/ /\ out'[r].status = 200 /\ out'[r].fetched = now
                /\ entries'[bkt[r]].computed
                /\ entries'[bkt[r]].fetched = now /\ entries'[bkt[r]].began = at[r]
          /\ r \notin closed /\ ~Follower(r)
          /\ pc'[r] = "done"
      <4>1. r \notin closed /\ ~Follower(r)
        BY <2>10 DEF Publish, ClosedAnswered, FollowerChannel
      <4> QED
        BY <2>10, <4>1, PublishEffect
    <3>1. PendingLeads'
      BY <2>0, <2>10, <3>0 DEF Publish, Release, Store, Goto, Reply, cacheVars, PendingLeads
    <3>2. LeaderPending'
      BY <2>0, <2>10, <3>0 DEF Publish, Release, Store, Goto, Reply, cacheVars, LeaderPending
    <3>3. ClosedAnswered'
      BY <2>0, <2>10, <3>0 DEF Publish, Release, Store, Goto, Reply, cacheVars, ClosedAnswered
    <3>4. FollowerChannel'
      BY <2>0, <2>10, <3>0 DEF Publish, Release, Store, Goto, Reply, cacheVars, FollowerChannel, LeaderPending, PendingLeads
    <3>5. TimeOrder'
      BY <2>0, <2>10, <3>0 DEF Publish, Release, Store, Goto, Reply, cacheVars, TimeOrder, FollowerChannel, LeaderPending
    <3>6. LeaderCached'
      BY <2>0, <2>10, <3>0 DEF Publish, Release, Store, Goto, Reply, cacheVars, LeaderCached, TimeOrder, ClosedAnswered
    <3>7. FollowerSeesLeader'
      BY <2>0, <2>10, <3>0 DEF Publish, Release, Store, Goto, Reply, cacheVars, FollowerSeesLeader, FollowerChannel, ClosedAnswered
    <3>8. StaleOnlyAfterFailedWalk'
      BY <2>0, <2>10, <3>0 DEF Publish, Release, Store, Goto, Reply, cacheVars, StaleOnlyAfterFailedWalk, TimeOrder, FollowerChannel, ClosedAnswered
    <3> QED
      BY <3>1, <3>2, <3>3, <3>4, <3>5, <3>6, <3>7, <3>8
  <2>11. ASSUME NEW r \in Requests, Disconnect(r) PROVE IInv'
    <3>1. PendingLeads'
      BY <2>0, <2>11 DEF Disconnect, Goto, Reply, cacheVars, PendingLeads
    <3>2. LeaderPending'
      BY <2>0, <2>11 DEF Disconnect, Goto, Reply, cacheVars, LeaderPending
    <3>3. ClosedAnswered'
      BY <2>0, <2>11 DEF Disconnect, Goto, Reply, cacheVars, ClosedAnswered
    <3>4. FollowerChannel'
      BY <2>0, <2>11 DEF Disconnect, Goto, Reply, cacheVars, FollowerChannel
    <3>5. TimeOrder'
      BY <2>0, <2>11 DEF Disconnect, Goto, Reply, cacheVars, TimeOrder
    <3>6. LeaderCached'
      BY <2>0, <2>11 DEF Disconnect, Goto, Reply, cacheVars, LeaderCached
    <3>7. FollowerSeesLeader'
      BY <2>0, <2>11 DEF Disconnect, Goto, Reply, cacheVars, FollowerSeesLeader
    <3>8. StaleOnlyAfterFailedWalk'
      BY <2>0, <2>11 DEF Disconnect, Goto, Reply, cacheVars, StaleOnlyAfterFailedWalk
    <3> QED
      BY <3>1, <3>2, <3>3, <3>4, <3>5, <3>6, <3>7, <3>8
  <2>12. CASE Tick
    BY <2>0, <2>12 DEF Tick, cacheVars, reqVars, PendingLeads, LeaderPending, ClosedAnswered, FollowerChannel, TimeOrder, LeaderCached, FollowerSeesLeader, StaleOnlyAfterFailedWalk
  <2>13. CASE UNCHANGED vars
    BY <2>13 DEF vars, cacheVars, reqVars, PendingLeads, LeaderPending, ClosedAnswered, FollowerChannel, TimeOrder, LeaderCached, FollowerSeesLeader, StaleOnlyAfterFailedWalk
  <2> QED
    BY <2>1, <2>2, <2>3, <2>4, <2>5, <2>6, <2>7, <2>8, <2>9, <2>10, <2>11, <2>12, <2>13 DEF Next, Serve, Terminated
<1> QED
  BY <1>1, <1>2, TypeCorrect, PTL DEF Spec

(* Duplicate walks never happen: the in-flight map of HandleBucketStats   *)
(* admits one leader per bucket.                                          *)
THEOREM SingleFlightAlways == Spec => []SingleFlight
<1>1. IInv => SingleFlight
  BY DEF IInv, LeaderPending, SingleFlight
<1> QED
  BY <1>1, Inductive, PTL

(* A follower never waits on a channel nobody will close.                 *)
THEOREM NoLostWakeupAlways == Spec => []NoLostWakeup
<1>1. TypeOK /\ IInv => NoLostWakeup
  BY StatsAssumption DEF TypeOK, IInv, FollowerChannel, LeaderPending, PendingLeads,
     NoLostWakeup, Follower
<1> QED
  BY <1>1, TypeCorrect, Inductive, PTL

(* A follower is answered with its leader's walk or a later one.          *)
THEOREM FollowerSeesLeaderAlways == Spec => []FollowerSeesLeader
<1>1. IInv => FollowerSeesLeader
  BY DEF IInv
<1> QED
  BY <1>1, Inductive, PTL

(* An expired result is served only to a follower whose leader failed.    *)
THEOREM StaleOnlyAfterFailedWalkAlways == Spec => []StaleOnlyAfterFailedWalk
<1>1. IInv => StaleOnlyAfterFailedWalk
  BY DEF IInv
<1> QED
  BY <1>1, Inductive, PTL

(* Walks of a bucket are published in the order in which they began.      *)
THEOREM EntriesAdvanceAlways == Spec => EntriesAdvance
<1> DEFINE A == \A b \in Buckets :
                  entries[b].computed =>
                    /\ entries'[b].computed
                    /\ entries'[b].began >= entries[b].began
                    /\ entries'[b].fetched >= entries[b].fetched
<1>1. TypeOK /\ IInv /\ [Next]_vars => [A]_vars
  <2> SUFFICES ASSUME TypeOK, IInv, Next PROVE A
    OBVIOUS
  <2>0. \A b \in Buckets : entries[b].fetched \in Nat /\ entries[b].began \in Nat
    BY DEF TypeOK, Entry
  <2>1. ASSUME NEW r \in Requests, Publish(r) PROVE A
    <3>1. /\ bkt[r] \in Buckets /\ at[r] \in Nat /\ now \in Nat
          /\ entries[bkt[r]].fetched <= at[r] /\ at[r] <= now
          /\ entries[bkt[r]].began <= entries[bkt[r]].fetched
      BY <2>1 DEF TypeOK, IInv, TimeOrder, Publish, Leading
    <3>2. /\ \A b \in Buckets : b # bkt[r] => entries'[b] = entries[b]
          /\ \/ entries' = entries
             \/ /\ entries'[bkt[r]].computed
                /\ entries'[bkt[r]].fetched = now /\ entries'[bkt[r]].began = at[r]
      BY <2>1, PublishEffect
    <3> QED
      BY <2>0, <3>1, <3>2
  <2>2. CASE entries' = entries
    BY <2>0, <2>2
  <2> QED
    BY <2>1, <2>2 DEF Next, Serve, Arrive, LookupHit, LookupJoin, LookupLead, Wake,
       WaitCancelled, FollowerAnswer, ListPage, ListFail, Disconnect, Tick, Terminated,
       vars, cacheVars
<1> QED
  BY <1>1, TypeCorrect, Inductive, PTL DEF Spec, EntriesAdvance

----------------------------------------------------------------------------

(* What computeBucketStats has to answer for a bucket.                    *)
Exact(b) ==
    [bucket |-> b,
     count |-> IF objects[b] > Cap THEN Cap ELSE objects[b],
     truncated |-> objects[b] > Cap]

(* A walk that goes on has read nothing but full pages, has a page left   *)
(* to read and has not read past the end of the bucket.                   *)
FullPages ==
    \A r \in Requests :
        pc[r] = "walk" =>
            /\ walk[r].page < MaxPages
            /\ walk[r].count = walk[r].page * PageSize
            /\ walk[r].count <= objects[bkt[r]]

(* A walk about to be published, and every cached result, is exact.       *)
WalksExact ==
    \A r \in Requests :
        pc[r] = "publish" /\ ~walk[r].err => Result(r) = Exact(bkt[r])

EntriesExact ==
    \A b \in Buckets : entries[b].computed => entries[b].resp = Exact(b)

AnswersExact ==
    \A r \in Requests : out[r].status = 200 => out[r].resp = Exact(bkt[r])

(* The inductive invariant of the counts.                                 *)
CInv == FullPages /\ WalksExact /\ EntriesExact /\ AnswersExact

(* One page more, and at most as many as the cap allows.                  *)
LEMMA PageArithmetic ==
    ASSUME NEW p \in Nat, p < MaxPages
    PROVE  /\ (p + 1) * PageSize = p * PageSize + PageSize
           /\ (p + 1) * PageSize <= Cap
           /\ Cap \in Nat
<1>1. MaxPages \in Nat /\ PageSize \in Nat
  BY StatsAssumption
<1>2. PICK d \in Nat : MaxPages = (p + 1) + d
  <2>1. MaxPages - (p + 1) \in Nat /\ MaxPages = (p + 1) + (MaxPages - (p + 1))
    BY <1>1
  <2> QED
    BY <2>1
<1>3. MaxPages * PageSize = (p + 1) * PageSize + d * PageSize
  BY <1>1, <1>2
<1>4. /\ d * PageSize \in Nat
      /\ (p + 1) * PageSize \in Nat
      /\ (p + 1) * PageSize = p * PageSize + PageSize
  BY <1>1
<1> QED
  BY <1>3, <1>4 DEF Cap

(* What one page does to a walk: it goes on with one more full page, or   *)
(* it is exact.                                                           *)
LEMMA PageRead ==
    ASSUME TypeOK, FullPages, NEW r \in Requests, ListPage(r)
    PROVE  \/ /\ pc' = [pc EXCEPT ![r] = "walk"]
              /\ walk'[r].page < MaxPages
              /\ walk'[r].count = walk'[r].page * PageSize
              /\ walk'[r].count <= objects[bkt[r]]
           \/ /\ pc' = [pc EXCEPT ![r] = "publish"]
              /\ Result(r)' = Exact(bkt[r])
<1> DEFINE p == walk[r].page
           c == walk[r].count
           n == objects[bkt[r]]
           seen == c + OnPage(n, c)
           more == seen < n
           capped == AtCap(p)
<1>1. /\ p \in Nat /\ c \in Nat /\ n \in Nat
      /\ p < MaxPages /\ c = p * PageSize /\ c <= n
      /\ PageSize \in Nat \ {0} /\ MaxPages \in Nat
  BY StatsAssumption DEF ListPage, TypeOK, Walk, FullPages
<1>2. /\ (p + 1) * PageSize = c + PageSize
      /\ (p + 1) * PageSize <= Cap
      /\ Cap \in Nat
  BY <1>1, PageArithmetic
<1>3. /\ walk'[r] = [page |-> p + 1, count |-> seen,
                     truncated |-> more /\ capped, err |-> FALSE]
      /\ pc' = [pc EXCEPT ![r] = IF more /\ ~capped THEN "walk" ELSE "publish"]
      /\ bkt' = bkt
  BY DEF ListPage, Goto, TypeOK
<1>4. seen \in Nat /\ seen <= n /\ seen <= Cap
  BY <1>1, <1>2 DEF OnPage
<1>5. ~more => seen = n
  BY <1>1, <1>4
<1>6. more => seen = (p + 1) * PageSize
  BY <1>1, <1>2 DEF OnPage
<1>7. capped => (p + 1) * PageSize = Cap
  BY DEF AtCap, Cap
<1>8. (capped <=> p + 1 = MaxPages) /\ capped \in BOOLEAN /\ more \in BOOLEAN
  BY DEF AtCap
<1> HIDE DEF p, c, n, seen, more, capped
<1>9. CASE more /\ ~capped
  <2>1. p + 1 < MaxPages
    BY <1>1, <1>8, <1>9
  <2>2. seen <= n
    BY <1>4
  <2>3. walk'[r].page = p + 1 /\ walk'[r].count = seen
    BY <1>3
  <2> QED
    BY <1>3, <1>6, <1>9, <2>1, <2>2, <2>3 DEF n
<1>10. CASE more /\ capped
  <2>1. seen = Cap /\ seen < n
    BY <1>6, <1>7, <1>10 DEF more
  <2>2. Result(r)' = [bucket |-> bkt[r], count |-> Cap, truncated |-> TRUE]
    <3>1. walk'[r].count = Cap /\ bkt' = bkt
      BY <1>3, <2>1
    <3>2. walk'[r].truncated = TRUE
      <4>1. (more /\ capped) = TRUE
        BY <1>10
      <4>2. walk'[r].truncated = (more /\ capped)
        BY <1>3
      <4> QED
        BY <4>1, <4>2
    <3> QED
      BY <3>1, <3>2 DEF Result
  <2>3. n > Cap
    BY <1>1, <1>2, <2>1
  <2>4. Exact(bkt[r]) = [bucket |-> bkt[r], count |-> Cap, truncated |-> TRUE]
    BY <2>3 DEF Exact, n
  <2> QED
    BY <1>3, <1>10, <2>2, <2>4
<1>11. CASE ~more
  <2>1. seen = n /\ ~(n > Cap)
    BY <1>1, <1>2, <1>4, <1>5, <1>11
  <2>2. Result(r)' = [bucket |-> bkt[r], count |-> n, truncated |-> FALSE]
    <3>1. walk'[r].count = n /\ bkt' = bkt
      BY <1>3, <2>1
    <3>2. walk'[r].truncated = FALSE
      BY <1>3, <1>8, <1>11
    <3> QED
      BY <3>1, <3>2 DEF Result
  <2>3. Exact(bkt[r]) = [bucket |-> bkt[r], count |-> n, truncated |-> FALSE]
    <3>1. (objects[bkt[r]] > Cap) = FALSE
      BY <2>1 DEF n
    <3> QED
      BY <3>1 DEF Exact, n
  <2> QED
    BY <1>3, <1>11, <2>2, <2>3
<1> QED
  BY <1>9, <1>10, <1>11

(* What the counts of a leader's answer and of its entry are.             *)
LEMMA PublishCounts ==
    ASSUME TypeOK, NEW r \in Requests, Publish(r)
    PROVE  \/ walk[r].err /\ out'[r].status = 502 /\ entries' = entries
           \/ /\ ~walk[r].err
              /\ out'[r].resp = Result(r)
              /\ entries'[bkt[r]].resp = Result(r)
<1> DEFINE e == [computed |-> TRUE, resp |-> Result(r),
                 fetched |-> now, began |-> at[r]]
<1>1. CASE walk[r].err
  BY <1>1 DEF Publish, Reply, Failed, TypeOK
<1>2. CASE ~walk[r].err
  <2>1. Store(r, e) /\ Reply(r, Served(e))
    BY <1>2 DEF Publish
  <2>2. Served(e).resp = Result(r)
    BY DEF Served
  <2> QED
    BY <1>2, <2>1, <2>2 DEF Store, Reply, TypeOK
<1> QED
  BY <1>1, <1>2

(* The counts invariant holds in every reachable state.                   *)
THEOREM CountsInductive == Spec => []CInv
<1>1. Init => CInv
  <2> SUFFICES ASSUME Init PROVE CInv
    OBVIOUS
  <2>1. \A r \in Requests : pc[r] = "idle" /\ out[r].status = 0
    BY DEF Init, Failed
  <2>2. \A b \in Buckets : ~entries[b].computed
    BY DEF Init, NoEntry
  <2> QED
    BY <2>1, <2>2 DEF CInv, FullPages, WalksExact, EntriesExact, AnswersExact
<1>2. TypeOK /\ IInv /\ CInv /\ [Next]_vars => CInv'
  <2> SUFFICES ASSUME TypeOK, IInv, CInv, [Next]_vars PROVE CInv'
    OBVIOUS
  <2>0. /\ DOMAIN pc = Requests /\ DOMAIN out = Requests /\ DOMAIN walk = Requests
        /\ bkt \in [Requests -> Buckets] /\ DOMAIN entries = Buckets
    BY DEF TypeOK
  <2>1. bkt' = bkt /\ objects' = objects /\ \A b \in Buckets : Exact(b)' = Exact(b)
    <3>1. bkt' = bkt /\ objects' = objects
      BY DEF Next, Serve, Arrive, LookupHit, LookupJoin, LookupLead, Wake, WaitCancelled,
         FollowerAnswer, ListPage, ListFail, Publish, Disconnect, Tick, Terminated,
         vars, reqVars
    <3> QED
      BY <3>1 DEF Exact
  <2>2. ASSUME NEW r \in Requests, Arrive(r) PROVE CInv'
    <3>1. /\ \A s \in Requests : s # r => pc'[s] = pc[s] /\ out'[s] = out[s]
          /\ pc'[r] \in {"done", "lookup"}
          /\ out'[r].status # 200
          /\ walk' = walk /\ entries' = entries
      BY <2>0, <2>2, AnswerFields DEF Arrive, Goto, Reply, cacheVars, Statuses, IInv, ClosedAnswered
    <3> QED
      BY <2>0, <2>1, <3>1 DEF CInv, FullPages, WalksExact, EntriesExact, AnswersExact, Result
  <2>3. ASSUME NEW r \in Requests, LookupHit(r) PROVE CInv'
    <3>1. /\ \A s \in Requests : s # r => pc'[s] = pc[s] /\ out'[s] = out[s]
          /\ pc'[r] = "done"
          /\ out'[r].resp = Exact(bkt[r])
          /\ walk' = walk /\ entries' = entries
      BY <2>0, <2>3 DEF LookupHit, Goto, Reply, cacheVars, Served, Fresh, CInv, EntriesExact
    <3> QED
      BY <2>0, <2>1, <3>1 DEF CInv, FullPages, WalksExact, EntriesExact, AnswersExact, Result
  <2>4. ASSUME NEW r \in Requests, LookupLead(r) PROVE CInv'
    <3>1. /\ \A s \in Requests : s # r => pc'[s] = pc[s] /\ walk'[s] = walk[s]
          /\ pc'[r] = "walk"
          /\ walk'[r].page = 0 /\ walk'[r].count = 0
          /\ out' = out /\ entries' = entries
      BY <2>0, <2>4 DEF LookupLead, Goto, NewWalk
    <3>2. 0 < MaxPages /\ 0 * PageSize = 0 /\ 0 <= objects[bkt[r]]
      BY <2>0, StatsAssumption DEF TypeOK
    <3> QED
      BY <2>0, <2>1, <3>1, <3>2 DEF CInv, FullPages, WalksExact, EntriesExact, AnswersExact, Result
  <2>5. ASSUME NEW r \in Requests, WaitCancelled(r) PROVE CInv'
    <3>1. /\ \A s \in Requests : s # r => pc'[s] = pc[s] /\ out'[s] = out[s]
          /\ pc'[r] = "done"
          /\ out'[r].status # 200
          /\ walk' = walk /\ entries' = entries
      BY <2>0, <2>5 DEF WaitCancelled, Goto, Reply, cacheVars, Failed
    <3> QED
      BY <2>0, <2>1, <3>1 DEF CInv, FullPages, WalksExact, EntriesExact, AnswersExact, Result
  <2>6. ASSUME NEW r \in Requests, FollowerAnswer(r) PROVE CInv'
    <3>1. /\ \A s \in Requests : s # r => pc'[s] = pc[s] /\ out'[s] = out[s]
          /\ pc'[r] = "done"
          /\ out'[r].status # 200 \/ out'[r].resp = Exact(bkt[r])
          /\ walk' = walk /\ entries' = entries
      BY <2>0, <2>6 DEF FollowerAnswer, Goto, Reply, cacheVars, Failed, Served, CInv, EntriesExact
    <3> QED
      BY <2>0, <2>1, <3>1 DEF CInv, FullPages, WalksExact, EntriesExact, AnswersExact, Result
  <2>7. ASSUME NEW r \in Requests, ListPage(r) PROVE CInv'
    <3>1. /\ \A s \in Requests : s # r => walk'[s] = walk[s]
          /\ out' = out /\ entries' = entries
      BY <2>0, <2>7 DEF ListPage, cacheVars
    <3>2. \/ /\ pc' = [pc EXCEPT ![r] = "walk"]
             /\ walk'[r].page < MaxPages
             /\ walk'[r].count = walk'[r].page * PageSize
             /\ walk'[r].count <= objects[bkt[r]]
          \/ /\ pc' = [pc EXCEPT ![r] = "publish"]
             /\ Result(r)' = Exact(bkt[r])
      BY <2>7, PageRead DEF CInv
    <3>3. FullPages'
      BY <2>0, <2>1, <3>1, <3>2 DEF CInv, FullPages
    <3>4. WalksExact'
      BY <2>0, <2>1, <3>1, <3>2 DEF CInv, WalksExact, Result
    <3>5. EntriesExact' /\ AnswersExact'
      BY <2>0, <2>1, <3>1 DEF CInv, EntriesExact, AnswersExact
    <3> QED
      BY <3>3, <3>4, <3>5 DEF CInv
  <2>8. ASSUME NEW r \in Requests, ListFail(r) PROVE CInv'
    <3>1. /\ \A s \in Requests : s # r => pc'[s] = pc[s] /\ walk'[s] = walk[s]
          /\ pc'[r] = "publish" /\ walk'[r].err
          /\ out' = out /\ entries' = entries
      BY <2>0, <2>8 DEF ListFail, Goto, cacheVars, TypeOK, Walk
    <3> QED
      BY <2>0, <2>1, <3>1 DEF CInv, FullPages, WalksExact, EntriesExact, AnswersExact, Result
  <2>9. ASSUME NEW r \in Requests, Publish(r) PROVE CInv'
    <3>1. /\ \A s \in Requests : s # r => pc'[s] = pc[s] /\ out'[s] = out[s]
          /\ pc'[r] = "done" /\ walk' = walk
          /\ \A b \in Buckets : b # bkt[r] => entries'[b] = entries[b]
      BY <2>9, PublishEffect DEF Publish
    <3>2. pc[r] = "publish"
      BY <2>9 DEF Publish
    <3>3. \/ out'[r].status = 502 /\ entries' = entries
          \/ /\ out'[r].resp = Exact(bkt[r])
             /\ entries'[bkt[r]].resp = Exact(bkt[r])
      BY <2>9, <3>2, PublishCounts DEF CInv, WalksExact
    <3>4. FullPages' /\ WalksExact'
      BY <2>0, <2>1, <3>1 DEF CInv, FullPages, WalksExact, Result
    <3>5. EntriesExact'
      BY <2>0, <2>1, <3>1, <3>3 DEF CInv, EntriesExact
    <3>6. AnswersExact'
      BY <2>0, <2>1, <3>1, <3>3 DEF CInv, AnswersExact
    <3> QED
      BY <3>4, <3>5, <3>6 DEF CInv
  <2>10. ASSUME NEW r \in Requests, LookupJoin(r) \/ Wake(r) PROVE CInv'
    <3>1. /\ \A s \in Requests : s # r => pc'[s] = pc[s]
          /\ pc'[r] \in {"wait", "woken"}
          /\ walk' = walk /\ out' = out /\ entries' = entries
      BY <2>0, <2>10 DEF LookupJoin, Wake, Goto, cacheVars
    <3> QED
      BY <2>0, <2>1, <3>1 DEF CInv, FullPages, WalksExact, EntriesExact, AnswersExact, Result
  <2>11. ASSUME UNCHANGED <<pc, walk, out, entries>> PROVE CInv'
    BY <2>0, <2>1, <2>11 DEF CInv, FullPages, WalksExact, EntriesExact, AnswersExact, Result
  <2>12. ASSUME NEW r \in Requests, Disconnect(r) PROVE CInv'
    BY <2>11, <2>12 DEF Disconnect, cacheVars
  <2>13. CASE Tick \/ UNCHANGED vars
    BY <2>11, <2>13 DEF Tick, vars, cacheVars, reqVars
  <2> QED
    BY <2>2, <2>3, <2>4, <2>5, <2>6, <2>7, <2>8, <2>9, <2>10, <2>12, <2>13
       DEF Next, Serve, Terminated
<1> QED
  BY <1>1, <1>2, TypeCorrect, Inductive, PTL DEF Spec

(* A count answered by the stats endpoint is exact up to statsMaxPages    *)
(* full pages and the cap, marked Truncated, above it.                    *)
THEOREM CountsExactAlways == Spec => []CountsExactUpToCap
<1>1. CInv => CountsExactUpToCap
  BY DEF CInv, AnswersExact, Exact, CountsExactUpToCap
<1> QED
  BY <1>1, CountsInductive, PTL

============================================================================
