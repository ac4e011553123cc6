\* Both sync loops, three counters of two users, one of them incremented twice, every fault.
CONSTANTS
    v1 = v1
    v2 = v2
    v3 = v3
    v4 = v4
    n1 = n1
    n2 = n2
    u1 = u1
    u2 = u2
    feedapi = feedapi
    pusher = pusher
    Views <- AllViews
    News = {n1, n2}
    ApiKeys = {u1, u2}
    NewsOf <- AllNewsOf
    ApiKeyOf <- AllApiKeyOf
    Syncers = {feedapi, pusher}
    Server = feedapi
    Period <- EqualPeriod
    MaxAttempts = 1
    MaxTime = 1
SPECIFICATION Spec
INVARIANTS TypeOK Attribution NoDoubleReport NothingLostWithoutFault
