------------------------------ MODULE AccessLog ------------------------------
(***************************************************************************)
(* The access log of the news details.                                     *)
(*                                                                         *)
(* feed-api answers /detail/<news-id> and then, in a goroutine of its own, *)
(* increments the counter of <news-id, API key> in the log Redis.  Two     *)
(* programs run the same loop over that Redis, SyncLogRedisToMinIO in      *)
(* feed-api and in log-redis-pusher: on each tick they list the counters,  *)
(* GETDEL them one by one, group what they took by API key and upload one  *)
(* JSON object per API key, named by the API key and the second of the     *)
(* upload.                                                                 *)
(*                                                                         *)
(* The value of a counter is represented by the set of INCR executions it  *)
(* stands for: its number is the cardinality of that set.  An execution is *)
(* a pair <<view, attempt>>; the Redis client repeats a command whose      *)
(* reply did not arrive, so one view may execute INCR more than once.      *)
(***************************************************************************)
EXTENDS Naturals, Sequences

CONSTANTS
    Views,        \* the requests to /detail/ that are sent
    News, ApiKeys,
    NewsOf,       \* the news id in the path of a view
    ApiKeyOf,     \* the X-API-Key header of a view
    Syncers,      \* the processes that run SyncLogRedisToMinIO
    Server,       \* the one of them that serves the views: feed-api
    Period,       \* the period of the ticker of each sync loop, in seconds
    MaxAttempts,  \* how often the Redis client sends a command
    MaxTime       \* bound: the seconds from MaxTime on share one name

ASSUME DataAssumption ==
    /\ NewsOf \in [Views -> News]
    /\ ApiKeyOf \in [Views -> ApiKeys]
ASSUME ProcessAssumption ==
    /\ Server \in Syncers
    /\ Period \in [Syncers -> Nat \ {0}]
ASSUME BoundAssumption ==
    /\ MaxAttempts \in Nat \ {0}
    /\ MaxTime \in Nat

VARIABLES
    stage,        \* of a view: "new", "counting" (its goroutine runs), "done"
    attempts,     \* how often the goroutine of a view has sent INCR
    redisLog,     \* the counters in the log Redis
    pc,           \* where each process and its sync loop stand: "idle",
                  \* "collect", "upload", or "down" when the process is
    tick,         \* a tick waits in the channel of the ticker
    left,         \* seconds until the ticker fires again
    todo,         \* the listed keys a pass has not handled yet
    groupedLogs,  \* what a pass has taken and not uploaded, by what it read as API key
    bucket,       \* the objects of the bucket user-logs, by <<API key, second>>
    now,          \* the clock, in seconds
    executed,     \* history: the INCRs that Redis has executed
    hit           \* history: the accesses that a fault has hit

viewVars == <<stage, attempts>>
syncVars == <<pc, todo, groupedLogs>>
timeVars == <<tick, left, now>>
vars == <<viewVars, redisLog, syncVars, timeVars, bucket, executed, hit>>

Access == Views \X (1 .. MaxAttempts)
Texts == News \union ApiKeys     \* what stands behind a prefix of a key
Item == Texts \X Access          \* one access in the entry of a news id
Seconds == 0 .. MaxTime
ObjectName == Texts \X Seconds

(* The Redis key "endpoint:/detail/news:<news>/user:<API key>", as the     *)
(* parts that strings.Split(key, "/") makes of it: neither the id of an    *)
(* article (a hash in hex digits) nor an API key (the id of a Firestore    *)
(* document) has a slash.                                                  *)
DetailKey(news, apiKey) == <<"endpoint:", "detail", <<"news:", news>>, <<"user:", apiKey>>>>
KeyOf(v) == DetailKey(NewsOf[v], ApiKeyOf[v])
Keys == {DetailKey(n, u) : n \in News, u \in ApiKeys}

(* strings.TrimPrefix: a part without the prefix stays as it is.           *)
TrimPrefix(part, prefix) == IF part[1] = prefix THEN part[2] ELSE part

(* Mutant: the part of the news is taken for the one of the user.          *)
ApiKeyInThirdPart(k) == TrimPrefix(k[3], "news:")

(* What a pass reads out of a key.                                         *)
ValidKey(k) == Len(k) >= 4
NewsIDIn(k) == TrimPrefix(k[3], "news:")
ApiKeyIn(k) == TrimPrefix(k[4], "user:")

NoGroups == [u \in Texts |-> {}]

Init ==
    /\ stage = [v \in Views |-> "new"]
    /\ attempts = [v \in Views |-> 0]
    /\ redisLog = [k \in Keys |-> {}]
    /\ pc = [s \in Syncers |-> "idle"]
    /\ tick = [s \in Syncers |-> FALSE]
    /\ left = Period
    /\ todo = [s \in Syncers |-> {}]
    /\ groupedLogs = [s \in Syncers |-> NoGroups]
    /\ bucket = [o \in ObjectName |-> {}]
    /\ now = 0
    /\ executed = {}
    /\ hit = {}

-----------------------------------------------------------------------------
(* The views.                                                              *)

(* DetailHandler: a view of an article that is found is answered and       *)
(* starts its counting goroutine; any other answer ends without counting.  *)
ServeDetail(v) ==
    /\ stage[v] = "new"
    /\ pc[Server] # "down"
    /\ \E outcome \in {"counting", "done"} :
         stage' = [stage EXCEPT ![v] = outcome]
    /\ UNCHANGED <<attempts, redisLog, syncVars, timeVars, bucket, executed, hit>>

(* Mutant: the client retries without end.                                 *)
RetryForever(v, replied) ==
    /\ attempts' = [attempts EXCEPT ![v] = @ + 1]
    /\ stage' = [stage EXCEPT ![v] = IF replied THEN "done" ELSE "counting"]

(* After an attempt the goroutine ends when it has a reply or has used up  *)
(* its attempts (the error is only logged); otherwise the client retries.  *)
AfterAttempt(v, replied) ==
    /\ attempts' = [attempts EXCEPT ![v] = @ + 1]
    /\ stage' = [stage EXCEPT ![v] = IF replied \/ attempts[v] + 1 = MaxAttempts
                                     THEN "done" ELSE "counting"]

(* The goroutine's INCR reaches Redis; its reply may be lost.              *)
Increment(v) ==
    /\ stage[v] = "counting"
    /\ \E replied \in BOOLEAN : AfterAttempt(v, replied)
    /\ redisLog' = [redisLog EXCEPT ![KeyOf(v)] = @ \union {<<v, attempts[v] + 1>>}]
    /\ executed' = executed \union {<<v, attempts[v] + 1>>}
    /\ UNCHANGED <<syncVars, timeVars, bucket, hit>>

(* The goroutine's INCR does not reach Redis.                              *)
IncrementFails(v) ==
    /\ stage[v] = "counting"
    /\ AfterAttempt(v, FALSE)
    /\ UNCHANGED <<redisLog, syncVars, timeVars, bucket, executed, hit>>

-----------------------------------------------------------------------------
(* The sync loop.                                                          *)

(* A tick is taken from the channel.  Ping or Keys fails: the loop waits   *)
(* for the next tick.                                                      *)
SyncFails(s) ==
    /\ pc[s] = "idle"
    /\ tick[s]
    /\ tick' = [tick EXCEPT ![s] = FALSE]
    /\ UNCHANGED <<viewVars, redisLog, syncVars, left, now, bucket, executed, hit>>

(* A tick is taken, Ping answers, and Keys lists the counters there are;   *)
(* groupedLogs is made anew.                                               *)
ListKeys(s) ==
    /\ pc[s] = "idle"
    /\ tick[s]
    /\ tick' = [tick EXCEPT ![s] = FALSE]
    /\ LET listed == {k \in Keys : redisLog[k] # {}}
       IN  /\ todo' = [todo EXCEPT ![s] = listed]
           /\ pc' = [pc EXCEPT ![s] = IF listed = {} THEN "idle" ELSE "collect"]
    /\ groupedLogs' = [groupedLogs EXCEPT ![s] = NoGroups]
    /\ UNCHANGED <<viewVars, redisLog, left, now, bucket, executed, hit>>

(* The loop over the listed keys moves past k, and on to the uploads after *)
(* the last one, with the groups taken so far; a pass that took nothing    *)
(* has nothing to upload.                                                  *)
MovePast(s, k, groups) ==
    /\ todo' = [todo EXCEPT ![s] = @ \ {k}]
    /\ groupedLogs' = [groupedLogs EXCEPT ![s] = groups]
    /\ pc' = [pc EXCEPT ![s] = IF todo[s] # {k} THEN "collect"
                               ELSE IF groups = NoGroups THEN "idle" ELSE "upload"]

(* The groups of s with what was read from the counter of k in the entry   *)
(* of the news id, in the group of the API key, that k names.              *)
Grouped(s, k, accesses) ==
    [groupedLogs[s] EXCEPT ![ApiKeyIn(k)] = @ \union ({NewsIDIn(k)} \X accesses)]

(* Mutants: GET in place of GETDEL; GET and later DEL, which deletes what  *)
(* was counted in between unread.                                          *)
GetOnly(s, k) ==
    /\ pc[s] = "collect"
    /\ k \in todo[s] /\ ValidKey(k)
    /\ redisLog[k] # {}
    /\ MovePast(s, k, Grouped(s, k, redisLog[k]))
    /\ UNCHANGED <<viewVars, redisLog, timeVars, bucket, executed, hit>>

GetThenDel(s, k) ==
    /\ pc[s] = "collect"
    /\ k \in todo[s] /\ ValidKey(k)
    /\ \E read \in SUBSET redisLog[k] \ {{}} : MovePast(s, k, Grouped(s, k, read))
    /\ redisLog' = [redisLog EXCEPT ![k] = {}]
    /\ UNCHANGED <<viewVars, timeVars, bucket, executed, hit>>

(* GETDEL reads and removes the counter of a valid key in one step.        *)
TakeCount(s, k) ==
    /\ pc[s] = "collect"
    /\ k \in todo[s] /\ ValidKey(k)
    /\ redisLog[k] # {}
    /\ MovePast(s, k, Grouped(s, k, redisLog[k]))
    /\ redisLog' = [redisLog EXCEPT ![k] = {}]
    /\ UNCHANGED <<viewVars, timeVars, bucket, executed, hit>>

(* The key has too few parts, or GETDEL returns an error and has not       *)
(* touched the counter: the other loop took it in between (redis.Nil) or   *)
(* Redis was not reached.                                                  *)
SkipKey(s, k) ==
    /\ pc[s] = "collect"
    /\ k \in todo[s]
    /\ MovePast(s, k, groupedLogs[s])
    /\ UNCHANGED <<viewVars, redisLog, timeVars, bucket, executed, hit>>

(* GETDEL is executed and its reply lost: the count is gone.  The client   *)
(* repeats the command for k, and takes what was counted since, or skips.  *)
LoseCount(s, k) ==
    /\ pc[s] = "collect"
    /\ k \in todo[s] /\ ValidKey(k)
    /\ redisLog[k] # {}
    /\ redisLog' = [redisLog EXCEPT ![k] = {}]
    /\ hit' = hit \union redisLog[k]
    /\ UNCHANGED <<viewVars, syncVars, timeVars, bucket, executed>>

(* Mutants: the group stays; the pass does not end after its last group.   *)
GroupKept(s, u) ==
    /\ pc' = [pc EXCEPT ![s] = "idle"]
    /\ UNCHANGED groupedLogs

PassNeverEnds(s, u) ==
    /\ groupedLogs' = [groupedLogs EXCEPT ![s][u] = {}]
    /\ UNCHANGED pc

(* The loop over groupedLogs is done with the group of u.                  *)
GroupDone(s, u) ==
    LET groups == [groupedLogs[s] EXCEPT ![u] = {}]
    IN  /\ groupedLogs' = [groupedLogs EXCEPT ![s] = groups]
        /\ pc' = [pc EXCEPT ![s] = IF groups = NoGroups THEN "idle" ELSE "upload"]

AccessesOf(items) == {i[2] : i \in items}

(* PutObject stores the group of u under the name made of u and the        *)
(* present second; an object that has that name is replaced.               *)
Upload(s, u) ==
    /\ pc[s] = "upload"
    /\ groupedLogs[s][u] # {}
    /\ bucket' = [bucket EXCEPT ![<<u, now>>] = groupedLogs[s][u]]
    /\ hit' = hit \union AccessesOf(bucket[<<u, now>>])
    /\ GroupDone(s, u)
    /\ UNCHANGED <<viewVars, redisLog, todo, timeVars, executed>>

(* PutObject fails: the error is logged and the loop goes on with the next *)
(* group; this one is gone, its counters were deleted before.              *)
UploadFails(s, u) ==
    /\ pc[s] = "upload"
    /\ groupedLogs[s][u] # {}
    /\ hit' = hit \union AccessesOf(groupedLogs[s][u])
    /\ GroupDone(s, u)
    /\ UNCHANGED <<viewVars, redisLog, todo, timeVars, bucket, executed>>

(* One step of a sync loop after its tick.                                 *)
SyncStep(s) ==
    \/ ListKeys(s)
    \/ SyncFails(s)
    \/ \E k \in Keys : TakeCount(s, k) \/ SkipKey(s, k) \/ LoseCount(s, k)
    \/ \E u \in Texts : Upload(s, u) \/ UploadFails(s, u)

-----------------------------------------------------------------------------
(* The environment.                                                        *)

(* A second passes.  A ticker whose time has come puts a tick into its     *)
(* channel, which holds one: a tick that finds it full is dropped.  A      *)
(* process that is down has no ticker.                                     *)
ClockStep ==
    /\ now' = IF now < MaxTime THEN now + 1 ELSE now
    /\ left' = [s \in Syncers |-> IF pc[s] = "down" THEN left[s]
                                 ELSE IF left[s] = 1 THEN Period[s] ELSE left[s] - 1]
    /\ tick' = [s \in Syncers |-> pc[s] # "down" /\ (tick[s] \/ left[s] = 1)]
    /\ UNCHANGED <<viewVars, redisLog, syncVars, bucket, executed, hit>>

(* A process dies: what its sync loop had in memory and its ticker are     *)
(* gone, and feed-api takes the goroutines that were counting with it.     *)
Crash(s) ==
    /\ pc[s] # "down"
    /\ pc' = [pc EXCEPT ![s] = "down"]
    /\ todo' = [todo EXCEPT ![s] = {}]
    /\ groupedLogs' = [groupedLogs EXCEPT ![s] = NoGroups]
    /\ tick' = [tick EXCEPT ![s] = FALSE]
    /\ stage' = IF s = Server
                THEN [v \in Views |-> IF stage[v] = "counting" THEN "done" ELSE stage[v]]
                ELSE stage
    /\ hit' = hit \union AccessesOf(UNION {groupedLogs[s][u] : u \in Texts})
    /\ UNCHANGED <<attempts, redisLog, left, bucket, now, executed>>

(* The operator starts it again: the loop waits for the first tick of a    *)
(* new ticker.                                                             *)
Restart(s) ==
    /\ pc[s] = "down"
    /\ pc' = [pc EXCEPT ![s] = "idle"]
    /\ left' = [left EXCEPT ![s] = Period[s]]
    /\ UNCHANGED <<viewVars, redisLog, todo, groupedLogs, tick, now, bucket, executed, hit>>

ServeViews == \E v \in Views : ServeDetail(v) \/ Increment(v) \/ IncrementFails(v)

(* SyncLogRedisToMinIO of feed-api, and that of log-redis-pusher.          *)
FeedApiSync == SyncStep(Server)
PusherSync == \E s \in Syncers \ {Server} : SyncStep(s)

Next ==
    \/ ServeViews
    \/ FeedApiSync
    \/ PusherSync
    \/ ClockStep
    \/ \E s \in Syncers : Crash(s) \/ Restart(s)

Spec == Init /\ [][Next]_vars

(* The clock runs, no living process stands still forever, and Redis does  *)
(* not fail every time it is asked.  Nothing is assumed of MinIO, and      *)
(* either process may die any number of times and stay down.               *)
Fairness ==
    /\ WF_vars(ClockStep)
    /\ \A s \in Syncers :
         /\ SF_vars(ListKeys(s))
         /\ WF_vars(SyncStep(s))
         /\ \A k \in Keys : SF_vars(TakeCount(s, k))

FairSpec == Spec /\ Fairness

-----------------------------------------------------------------------------
(* Where an access is.                                                     *)

InRedis(a) == \E k \in Keys : a \in redisLog[k]
InMemory(a) == \E s \in Syncers, u \in Texts, n \in Texts : <<n, a>> \in groupedLogs[s][u]
InBucket(a) == \E o \in ObjectName, n \in Texts : <<n, a>> \in bucket[o]

TypeOK ==
    /\ stage \in [Views -> {"new", "counting", "done"}]
    /\ attempts \in [Views -> 0 .. MaxAttempts]
    /\ redisLog \in [Keys -> SUBSET Access]
    /\ pc \in [Syncers -> {"idle", "collect", "upload", "down"}]
    /\ tick \in [Syncers -> BOOLEAN]
    /\ left \in [Syncers -> Nat \ {0}]
    /\ todo \in [Syncers -> SUBSET Keys]
    /\ groupedLogs \in [Syncers -> [Texts -> SUBSET Item]]
    /\ bucket \in [ObjectName -> SUBSET Item]
    /\ now \in Seconds
    /\ executed \in SUBSET Access
    /\ hit \in SUBSET Access

(* A logged access stands under the news id and the API key of the view    *)
(* that made it, in Redis, in the groups of a pass and in the objects: the *)
(* way into the Redis key, and out of its parts again, keeps both.         *)
Attribution ==
    /\ \A k \in Keys : \A a \in redisLog[k] : KeyOf(a[1]) = k
    /\ \A s \in Syncers, u \in Texts : \A i \in groupedLogs[s][u] :
         NewsOf[i[2][1]] = i[1] /\ ApiKeyOf[i[2][1]] = u
    /\ \A o \in ObjectName : \A i \in bucket[o] :
         NewsOf[i[2][1]] = i[1] /\ ApiKeyOf[i[2][1]] = o[1]

(* No access is reported twice: whatever two sync loops do at the same     *)
(* time, and whichever of them dies, an access is in one counter, or in    *)
(* the memory of one pass, or in one object ("Get and reset the count      *)
(* atomically").                                                           *)
NoDoubleReport ==
    /\ \A a \in Access : InRedis(a) => ~InMemory(a) /\ ~InBucket(a)
    /\ \A a \in Access : InMemory(a) => ~InBucket(a)
    /\ \A s1, s2 \in Syncers, u \in Texts :
         s1 # s2 => groupedLogs[s1][u] \intersect groupedLogs[s2][u] = {}
    /\ \A o1, o2 \in ObjectName : o1 # o2 => bucket[o1] \intersect bucket[o2] = {}

(* What makes the invariants inductive: a view not done has attempts left, *)
(* an INCR is executed only after it was sent, whatever is held            *)
(* anywhere was executed, and a loop that waits or is down holds nothing.  *)
UnfinishedHasAttempts == \A v \in Views : stage[v] # "done" => attempts[v] < MaxAttempts
ExecutedWasSent == \A a \in executed : a[2] <= attempts[a[1]]
HeldWasExecuted == \A a \in Access : InRedis(a) \/ InMemory(a) \/ InBucket(a) => a \in executed
Busy(s) == pc[s] \in {"collect", "upload"}
IdleHoldsNothing == \A s \in Syncers : ~Busy(s) => groupedLogs[s] = NoGroups

(* A count disappears only through a fault that has hit it: its reply of   *)
(* GETDEL was lost, the upload of its group failed, the process died that  *)
(* held it, or its object was replaced in the same second.  Every other    *)
(* executed INCR is still in a counter, in a pass, or archived, whatever   *)
(* befell the rest.                                                        *)
NothingLostWithoutFault ==
    \A a \in executed \ hit : InRedis(a) \/ InMemory(a) \/ InBucket(a)

(* What a pass has still to do: the listed keys to take, and the groups it *)
(* has, or may get from those keys, to upload.                             *)
Ahead(s) ==
    ({"take"} \X todo[s])
    \union ({"upload"} \X {u \in Texts : \/ groupedLogs[s][u] # {}
                                        \/ \E k \in todo[s] : ApiKeyIn(k) = u})

(* A pass comes to its end, so that its ticks do not pile up: whatever is  *)
(* counted, and whatever the other loop does meanwhile, it is not given    *)
(* more to do, and each of its own steps, failed ones included, does some  *)
(* of it or empties the counter that GETDEL is repeated for.  As long as   *)
(* it runs there is something left to do.                                  *)
PassRunsOut ==
    [][\A s \in Syncers : Busy(s) =>
         /\ Ahead(s) # {}
         /\ Ahead(s)' \subseteq Ahead(s)
         /\ Ahead(s)' = Ahead(s) /\ SyncStep(s) => \E k \in todo[s] : redisLog[k] # {} /\ redisLog'[k] = {}]_vars

(* The inductive invariant of the proofs.                                  *)
IInv ==
    /\ TypeOK
    /\ UnfinishedHasAttempts
    /\ ExecutedWasSent
    /\ HeldWasExecuted
    /\ IdleHoldsNothing
    /\ Attribution
    /\ NoDoubleReport
    /\ NothingLostWithoutFault

(* Every count leaves Redis as long as one of the loops, whichever, lives  *)
(* to its tick again and again: it is collected in the end, even when the  *)
(* processes die and are started again in between, the other one stays     *)
(* down, and the uploads fail.                                             *)
EveryCountIsCollected ==
    (\E s \in Syncers : []<>tick[s]) =>
        \A v \in Views, n \in 1 .. MaxAttempts : InRedis(<<v, n>>) ~> ~InRedis(<<v, n>>)

(* The stage of an access in the life cycle that AccessCounting describes; *)
(* an access that stands in two places at once has no stage there.         *)
StageOf(a) ==
    CASE a \notin executed -> "none"
      [] InRedis(a) /\ ~InMemory(a) /\ ~InBucket(a) -> "counted"
      [] InMemory(a) /\ ~InRedis(a) /\ ~InBucket(a) -> "collected"
      [] InBucket(a) /\ ~InRedis(a) /\ ~InMemory(a) -> "archived"
      [] a \in executed /\ ~InRedis(a) /\ ~InMemory(a) /\ ~InBucket(a) -> "lost"
      [] OTHER -> "duplicated"

Counting == INSTANCE AccessCounting WITH status <- [a \in Access |-> StageOf(a)]

(* The access log implements AccessCounting.                               *)
CountsEachAccessOnce == Counting!Spec
=============================================================================
