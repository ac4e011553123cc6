\* One API key, a request in each service, under fairness; an entry lives two units of
\* time and a request takes up to one unit from the read to the Set.
CONSTANTS
    ApiKeys = {k1}
    FeedApiRequests = {r1}
    ActionsRequests = {r2}
    TTL = 2
    MaxDelay = 1
SPECIFICATION FairSpec
INVARIANTS TypeOK EntriesAge
PROPERTIES AnswersAsRegister EventuallyConsistent
