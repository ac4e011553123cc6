\* The four programs, over a MinIO without buckets.  The system may stop: when all programs
\* are up and the stores are reached, no step is left.
CONSTANTS
    Programs = {"feedApi", "pusher", "actions", "curator"}
SPECIFICATION FairSpec
INVARIANTS TypeOK ReadyWhenUp
PROPERTIES StartedAloneStays EndsRunOut AllComeUp
CHECK_DEADLOCK FALSE
