\* Both sync loops, a client that retries, every fault, under fairness; a process may die
\* before its tick comes, and stay down.
CONSTANTS
    v1 = v1
    v2 = v2
    v3 = v3
    v4 = v4
    n1 = n1
    n2 = n2
    u1 = u1
    u2 = u2
    feedapi = feedapi
    pusher = pusher
    Views = {v1}
    News = {n1}
    ApiKeys = {u1}
    NewsOf <- SoloNewsOf
    ApiKeyOf <- SoloApiKeyOf
    Syncers = {feedapi, pusher}
    Server = feedapi
    Period <- SlowPeriod
    MaxAttempts = 2
    MaxTime = 1
SPECIFICATION FairSpec
PROPERTIES CountsEachAccessOnce PassRunsOut EveryCountIsCollected
