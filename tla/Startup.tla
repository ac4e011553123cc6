------------------------------ MODULE Startup ------------------------------
(***************************************************************************)
(* How the four programs start beside each other.  Each connects to its    *)
(* Redis instances, then makes a Firestore client if it uses one, and then *)
(* sees to its buckets one after the other: BucketExists, and MakeBucket   *)
(* if the bucket was not found.  The programs share one MinIO, and two     *)
(* buckets belong to two programs each.                                    *)
(*                                                                         *)
(* A Redis that is not reached leaves a nil client, with which the program *)
(* goes on: net/http recovers from the panic of a handler, but a goroutine *)
(* or main that uses it ends the process.  Every other failure is          *)
(* log.Fatalf, or a panic.  A process that has ended stays down until the  *)
(* operator starts it again.                                               *)
(***************************************************************************)
EXTENDS Naturals, Sequences

CONSTANT Programs

AllPrograms == {"feedApi", "actions", "pusher", "curator"}

ASSUME StartupAssumption == Programs \subseteq AllPrograms

(* The clients that initRedisClients and InitRedis make.                   *)
RedisesOf ==
    [p \in AllPrograms |->
        CASE p = "feedApi" -> {"apiCache", "newsCache", "log"}
          [] p = "actions" -> {"apiCache", "sessionCache"}
          [] p = "pusher" -> {"log"}
          [] p = "curator" -> {"newsCache"}]

(* Those which a goroutine or main uses: the access log sync of feed-api   *)
(* and the pusher, and the publication of the curator.                     *)
BackgroundOf ==
    [p \in AllPrograms |->
        CASE p = "feedApi" -> {"log"}
          [] p = "actions" -> {}
          [] p = "pusher" -> {"log"}
          [] p = "curator" -> {"newsCache"}]

(* The stores of initMinIO.                                                *)
StoresOf ==
    [p \in AllPrograms |->
        CASE p = "feedApi" -> <<"userLogs", "feedApiAppLogs">>
          [] p = "actions" -> <<"actionsAppLogs">>
          [] p = "pusher" -> <<"userLogs", "actionsAppLogs">>
          [] p = "curator" -> <<"rawArchive", "summarizedArchive", "curatorAppLogs">>]

BucketsOf(p) == {StoresOf[p][i] : i \in DOMAIN StoresOf[p]}
Buckets == UNION {BucketsOf(p) : p \in AllPrograms}

VARIABLES
    phase,     \* "down", "exists", "make", "up"
    next,      \* the position of the bucket that is seen to
    clients,   \* of the Redis clients used in the background, those that are not nil
    made,      \* MinIO: the buckets
    healthy,   \* the stores are reached, and the configuration is right, from now on
    smooth     \* history: since its start no call of the program has failed, and no
               \* program that shares a bucket with it has been starting

vars == <<phase, next, clients, made, healthy, smooth>>

Starting(p) == phase[p] \in {"exists", "make"}
Bucket(p) == StoresOf[p][next[p]]
Sharing(p, q) == p # q /\ BucketsOf(p) \intersect BucketsOf(q) # {}

Init ==
    /\ phase = [p \in Programs |-> "down"]
    /\ next = [p \in Programs |-> 1]
    /\ clients = [p \in Programs |-> {}]
    /\ made = {}
    /\ healthy = FALSE
    /\ smooth = [p \in Programs |-> FALSE]

-----------------------------------------------------------------------------
(* The operator starts a program, and init connects it.  initRedisClients  *)
(* keeps each client that answers a ping; the others are nil, their errors *)
(* are logged.  initFirebase, in feed-api and actions, makes a client      *)
(* without calling Firestore.  None of this meets another program.         *)
Start(p) ==
    /\ phase[p] = "down"
    /\ phase' = [phase EXCEPT ![p] = "exists"]
    /\ \E reached \in SUBSET RedisesOf[p] :
         /\ ~healthy \/ reached = RedisesOf[p]
         /\ clients' = [clients EXCEPT ![p] = reached \intersect BackgroundOf[p]]
         /\ smooth' = [q \in Programs |->
              IF q = p
                THEN reached = RedisesOf[p] /\ \A r \in Programs : Sharing(r, p) => ~Starting(r)
                ELSE smooth[q] /\ ~(Sharing(q, p) /\ Starting(q))]
    /\ UNCHANGED <<next, made, healthy>>

(* The end of the process, by log.Fatalf or by a panic.                    *)
Die(p) ==
    /\ phase' = [phase EXCEPT ![p] = "down"]
    /\ next' = [next EXCEPT ![p] = 1]
    /\ clients' = [clients EXCEPT ![p] = {}]
    /\ smooth' = [smooth EXCEPT ![p] = FALSE]

(* A call of the program fails.                                            *)
Fault(p) == ~healthy /\ smooth' = [smooth EXCEPT ![p] = FALSE]

(* Mutant: the answer of BucketExists is not looked at.                    *)
NeverFound(p) == phase' = [phase EXCEPT ![p] = "make"] /\ UNCHANGED next

(* Mutant: one bucket more than there are.                                 *)
PastTheEnd(p) ==
    /\ next' = [next EXCEPT ![p] = @ + 1]
    /\ phase' = [phase EXCEPT ![p] = IF next[p] > Len(StoresOf[p]) THEN "up" ELSE "exists"]

(* On to the next bucket, or to main.                                      *)
NextBucket(p) ==
    /\ next' = [next EXCEPT ![p] = @ + 1]
    /\ phase' = [phase EXCEPT ![p] = IF next[p] = Len(StoresOf[p]) THEN "up" ELSE "exists"]

(* What MinIOInit does when BucketExists has answered yes.                 *)
BucketFound(p) == NextBucket(p)

(* MinIOInit: an error of BucketExists counts as an answer of no.          *)
BucketExists(p) ==
    /\ phase[p] = "exists"
    /\ \/ /\ Bucket(p) \in made
          /\ BucketFound(p)
          /\ UNCHANGED smooth
       \/ /\ Bucket(p) \notin made
          /\ phase' = [phase EXCEPT ![p] = "make"]
          /\ UNCHANGED <<next, smooth>>
       \/ /\ Fault(p)
          /\ phase' = [phase EXCEPT ![p] = "make"]
          /\ UNCHANGED next
    /\ UNCHANGED <<clients, made, healthy>>

(* Mutant: the error of MakeBucket is logged, as the line behind           *)
(* log.Fatalf would do.                                                    *)
LogAndGoOn(p) == NextBucket(p) /\ UNCHANGED <<clients, smooth>>

(* What MinIOInit does when MakeBucket has returned an error.              *)
NotMade(p) == Die(p)

MakeBucket(p) ==
    /\ phase[p] = "make"
    /\ Bucket(p) \notin made
    /\ made' = made \union {Bucket(p)}
    /\ NextBucket(p)
    /\ UNCHANGED <<clients, healthy, smooth>>

(* MakeBucket of a bucket that is there is an error; if BucketExists has   *)
(* not failed, another program has made it in between.                     *)
MadeBefore(p) ==
    /\ phase[p] = "make"
    /\ Bucket(p) \in made
    /\ NotMade(p)
    /\ UNCHANGED <<made, healthy>>

(* MakeBucket fails, executed or not.                                      *)
MakeFails(p) ==
    /\ phase[p] = "make"
    /\ ~healthy
    /\ made' \in {made, made \union {Bucket(p)}}
    /\ NotMade(p)
    /\ UNCHANGED healthy

(* The log file is not opened, the credentials are not read, the endpoint  *)
(* of MinIO is none (a nil client, which BucketExists is called with), or  *)
(* the process is killed.                                                  *)
InitFails(p) ==
    /\ Starting(p)
    /\ ~healthy
    /\ Die(p)
    /\ UNCHANGED <<made, healthy>>

(* The first tick of the access log sync, or the first publication, with a *)
(* nil client.                                                             *)
UseNil(p) ==
    /\ phase[p] = "up"
    /\ clients[p] # BackgroundOf[p]
    /\ Die(p)
    /\ UNCHANGED <<made, healthy>>

(* The stores are reached from now on.                                     *)
Recover ==
    /\ ~healthy
    /\ healthy' = TRUE
    /\ UNCHANGED <<phase, next, clients, made, smooth>>

(* init of a program, and what its main does with what init has left.      *)
Run(p) ==
    \/ BucketExists(p) \/ MakeBucket(p) \/ MadeBefore(p) \/ MakeFails(p)
    \/ UseNil(p)

FeedApi == "feedApi" \in Programs /\ Run("feedApi")
Actions == "actions" \in Programs /\ Run("actions")
Pusher == "pusher" \in Programs /\ Run("pusher")
Curator == "curator" \in Programs /\ Run("curator")

Next ==
    \/ FeedApi \/ Actions \/ Pusher \/ Curator
    \/ \E p \in Programs : Start(p) \/ InitFails(p)
    \/ Recover

Spec == Init /\ [][Next]_vars

(* A process runs, and its loops have their ticks.  Nothing is assumed of  *)
(* the operator and of the stores.                                         *)
FairSpec == Spec /\ \A p \in Programs : WF_vars(Run(p))

-----------------------------------------------------------------------------
TypeOK ==
    /\ phase \in [Programs -> {"down", "exists", "make", "up"}]
    /\ next \in [Programs -> Nat]
    /\ \A p \in Programs :
         IF phase[p] = "up" THEN next[p] = Len(StoresOf[p]) + 1
                            ELSE next[p] \in DOMAIN StoresOf[p]
    /\ clients \in [Programs -> SUBSET UNION {BackgroundOf[p] : p \in AllPrograms}]
    /\ made \subseteq Buckets
    /\ healthy \in BOOLEAN
    /\ smooth \in [Programs -> BOOLEAN]

(* A program that has come up has its buckets, whoever has made them, and  *)
(* all its clients if it was started smoothly.                             *)
ReadyWhenUp ==
    \A p \in Programs : phase[p] = "up" =>
        /\ BucketsOf(p) \subseteq made
        /\ smooth[p] => clients[p] = BackgroundOf[p]

(* A program that was started while no other that shares a bucket with it  *)
(* was starting, and none of whose calls has failed, does not end once the *)
(* stores are reached: it comes up and stays up.                           *)
StartedAloneStays ==
    [][healthy => \A p \in Programs :
          phase[p] # "down" /\ smooth[p] => phase'[p] # "down"]_vars

(* What a program may still end for once the stores are reached: a bucket  *)
(* of its own that is not there yet, which another may make first; one     *)
(* that was made after it had asked for it; a client it has not.           *)
Reasons ==
    (UNION {{<<p, b>> : b \in BucketsOf(p) \ made} : p \in Programs})
    \union {<<p, Bucket(p)>> : p \in {q \in Programs : phase[q] = "make"}}
    \union {<<p, "client">> : p \in {q \in Programs :
                phase[q] # "down" /\ clients[q] # BackgroundOf[q]}}

(* Once the stores are reached each end of a program uses up one of its    *)
(* reasons, and no step brings a new one: no program loses the race for    *)
(* the same bucket twice, or ends twice for a nil client, so that it need  *)
(* not be started again for ever.                                          *)
EndsRunOut ==
    [][healthy =>
         /\ Reasons' \subseteq Reasons
         /\ \A p \in Programs : phase[p] # "down" /\ phase'[p] = "down"
              => \E r \in Reasons \ Reasons' : r[1] = p]_vars

(* Once the stores are reached, all programs come up and stay up, in spite *)
(* of the races they lose and the nil clients they have from before, if    *)
(* the operator starts again what has ended.                               *)
AllComeUp ==
    (\A p \in Programs : WF_vars(Start(p)))
        => (<>healthy => <>[](\A p \in Programs : phase[p] = "up"))
=============================================================================
