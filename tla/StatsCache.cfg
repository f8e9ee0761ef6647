SPECIFICATION FairSpec
CONSTANTS
    Requests = {r1, r2, r3, r4}
    Readers = {r1, r2, r3}
    r1 = r1
    r2 = r2
    r3 = r3
    r4 = r4
    Buckets = {b1}
    b1 = b1
    NoChan = NoChan
    TTL = 1
    MaxPages = 2
    PageSize = 1
    MaxObjects = 3
    MaxNow = 1
INVARIANTS SingleFlight NoLostWakeup FollowerSeesLeader StaleOnlyAfterFailedWalk CountsExactUpToCap
PROPERTIES EntriesAdvance EveryRequestAnswered
