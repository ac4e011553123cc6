--------------------------- MODULE UserStatusCache ---------------------------
(***************************************************************************)
(* Who may pass the middleware of feed-api and of actions.                 *)
(*                                                                         *)
(* Every request carries an API key.  ValidateUserAPIKey, which the two    *)
(* services hold a copy of each, asks the cache Redis for the status of    *)
(* the key; on a miss or an error it reads the user's document from        *)
(* Firestore and caches what it found for 24 hours.  Nothing invalidates   *)
(* an entry when the document changes: what the services answer is as old  *)
(* as the entry and the delay between the read and the Set allow.          *)
(*                                                                         *)
(* Time is relative: an entry has a time to live, a request knows how long *)
(* ago it read the document, and "age" says how long ago a status was last *)
(* true of a key.                                                          *)
(***************************************************************************)
EXTENDS Naturals

CONSTANTS
    ApiKeys,
    FeedApiRequests, ActionsRequests,  \* what each service handles at a time
    TTL,        \* APIKeyCacheExpiration
    MaxDelay    \* bound: a document is cached at most this long after its read

ASSUME CacheAssumption == TTL \in Nat \ {0} /\ MaxDelay \in Nat

VARIABLES
    doc,      \* the documents of the collection users
    cache,    \* the entries "apikey:<key>" of the cache Redis
    ttl,      \* their times to live
    pc,       \* of a request: "idle", "fetch", "store"
    key,      \* its API key
    found,    \* the status it read from Firestore
    held,     \* how long ago it did
    answer,   \* its last answer
    age       \* history: since when a status is no longer true of a key

reqVars == <<pc, key, found, held, answer>>
vars == <<doc, cache, ttl, reqVars, age>>

Requests == FeedApiRequests \union ActionsRequests
Docs == {"absent", "nofield", "free", "premium"}
Statuses == {"absent", "free", "premium"}
Entries == Statuses \union {"miss"}

(* The oldest status an answer may give, and the age at which counting     *)
(* stops.                                                                  *)
MaxAge == TTL + MaxDelay
Ages == 0 .. MaxAge + 1

(* Mutant: premium-status is taken as it is.                               *)
RawStatus(d) == d

(* models.UserStatus of a document: one without premium-status is that of  *)
(* a free user.                                                            *)
StatusOf(d) == IF d = "nofield" THEN "free" ELSE d

Init ==
    /\ doc \in [ApiKeys -> Docs]
    /\ cache = [k \in ApiKeys |-> "miss"]
    /\ ttl = [k \in ApiKeys |-> 0]
    /\ pc = [r \in Requests |-> "idle"]
    /\ key \in [Requests -> ApiKeys]
    /\ found = [r \in Requests |-> "absent"]
    /\ held = [r \in Requests |-> 0]
    /\ answer = [r \in Requests |-> "none"]
    /\ age = [k \in ApiKeys |-> [st \in Statuses |->
                 IF st = StatusOf(doc[k]) THEN 0 ELSE MaxAge + 1]]

-----------------------------------------------------------------------------
(* A request r passes the middleware.                                      *)

(* Mutant: a hit renews the entry.                                         *)
HitRenews(r, k) ==
    /\ pc[r] = "idle"
    /\ cache[k] # "miss"
    /\ key' = [key EXCEPT ![r] = k]
    /\ answer' = [answer EXCEPT ![r] = cache[k]]
    /\ ttl' = [ttl EXCEPT ![k] = TTL]
    /\ UNCHANGED <<doc, cache, pc, found, held, age>>

(* GetCachedUserStatus finds an entry: it is the answer.                   *)
Hit(r, k) ==
    /\ pc[r] = "idle"
    /\ cache[k] # "miss"
    /\ key' = [key EXCEPT ![r] = k]
    /\ answer' = [answer EXCEPT ![r] = cache[k]]
    /\ UNCHANGED <<doc, cache, ttl, pc, found, held, age>>

(* It finds none, or Redis is not reached, which is taken for the same.    *)
Miss(r, k) ==
    /\ pc[r] = "idle"
    /\ key' = [key EXCEPT ![r] = k]
    /\ pc' = [pc EXCEPT ![r] = "fetch"]
    /\ answer' = [answer EXCEPT ![r] = "none"]
    /\ UNCHANGED <<doc, cache, ttl, found, held, age>>

(* The document is read; that there is none is a status, too.              *)
Fetch(r) ==
    /\ pc[r] = "fetch"
    /\ found' = [found EXCEPT ![r] = StatusOf(doc[key[r]])]
    /\ held' = [held EXCEPT ![r] = 0]
    /\ pc' = [pc EXCEPT ![r] = "store"]
    /\ UNCHANGED <<doc, cache, ttl, key, answer, age>>

(* Mutant: a failed read is cached as a user who does not exist.           *)
FetchFailsCached(r) ==
    /\ pc[r] = "fetch"
    /\ found' = [found EXCEPT ![r] = "absent"]
    /\ held' = [held EXCEPT ![r] = 0]
    /\ pc' = [pc EXCEPT ![r] = "store"]
    /\ UNCHANGED <<doc, cache, ttl, key, answer, age>>

(* Firestore fails: the user is turned away, and nothing is cached.        *)
FetchFails(r) ==
    /\ pc[r] = "fetch"
    /\ answer' = [answer EXCEPT ![r] = "failed"]
    /\ pc' = [pc EXCEPT ![r] = "idle"]
    /\ UNCHANGED <<doc, cache, ttl, key, found, held, age>>

(* CacheUserStatus: Set is executed; if its reply is lost the client sends *)
(* it again.                                                               *)
Store(r) ==
    /\ pc[r] = "store"
    /\ cache' = [cache EXCEPT ![key[r]] = found[r]]
    /\ ttl' = [ttl EXCEPT ![key[r]] = TTL]
    /\ \/ /\ pc' = [pc EXCEPT ![r] = "idle"]
          /\ answer' = [answer EXCEPT ![r] = found[r]]
       \/ UNCHANGED <<pc, answer>>
    /\ UNCHANGED <<doc, key, found, held, age>>

(* Set fails: that is logged, and the answer is the same.                  *)
StoreFails(r) ==
    /\ pc[r] = "store"
    /\ pc' = [pc EXCEPT ![r] = "idle"]
    /\ answer' = [answer EXCEPT ![r] = found[r]]
    /\ UNCHANGED <<doc, cache, ttl, key, found, held, age>>

(* What r does after the cache has missed: it is all of ValidateUserAPIKey *)
(* that takes time.                                                        *)
Finish(r) == Fetch(r) \/ FetchFails(r) \/ Store(r) \/ StoreFails(r)

Validate(r) == Finish(r) \/ \E k \in ApiKeys : Hit(r, k) \/ Miss(r, k)

FeedApiValidate == \E r \in FeedApiRequests : Validate(r)
ActionsValidate == \E r \in ActionsRequests : Validate(r)

-----------------------------------------------------------------------------
(* The environment.                                                        *)

(* A document appears, changes or disappears: users register in another    *)
(* system, and bookmarks-add writes documents without premium-status.      *)
DocChanges(k) ==
    /\ \E d \in Docs : doc' = [doc EXCEPT ![k] = d]
    /\ age' = [age EXCEPT ![k][StatusOf(doc'[k])] = 0]
    /\ UNCHANGED <<cache, ttl, reqVars>>

(* Redis loses an entry: it was restarted, or it ran out of memory.        *)
Evict(k) ==
    /\ cache' = [cache EXCEPT ![k] = "miss"]
    /\ ttl' = [ttl EXCEPT ![k] = 0]
    /\ UNCHANGED <<doc, reqVars, age>>

(* A unit of time passes.  An entry whose time has come is gone.           *)
ClockStep ==
    /\ \A r \in Requests : pc[r] = "store" => held[r] < MaxDelay
    /\ held' = [r \in Requests |-> IF pc[r] = "store" THEN held[r] + 1 ELSE held[r]]
    /\ ttl' = [k \in ApiKeys |-> IF ttl[k] > 0 THEN ttl[k] - 1 ELSE 0]
    /\ cache' = [k \in ApiKeys |-> IF ttl[k] > 1 THEN cache[k] ELSE "miss"]
    /\ age' = [k \in ApiKeys |-> [st \in Statuses |->
                  IF st = StatusOf(doc[k]) THEN 0
                  ELSE IF age[k][st] <= MaxAge THEN age[k][st] + 1 ELSE age[k][st]]]
    /\ UNCHANGED <<doc, pc, key, found, answer>>

Next ==
    \/ FeedApiValidate
    \/ ActionsValidate
    \/ ClockStep
    \/ \E k \in ApiKeys : DocChanges(k) \/ Evict(k)

Spec == Init /\ [][Next]_vars

(* Time passes, and a request that has missed the cache goes on; nothing   *)
(* makes a request come, Firestore answer or Redis accept an entry.        *)
Fairness ==
    /\ WF_vars(ClockStep)
    /\ \A r \in Requests : WF_vars(Fetch(r) \/ FetchFails(r))
    /\ \A r \in Requests : WF_vars((Store(r) \/ StoreFails(r)) /\ pc'[r] = "idle")

FairSpec == Spec /\ Fairness

-----------------------------------------------------------------------------
TypeOK ==
    /\ doc \in [ApiKeys -> Docs]
    /\ cache \in [ApiKeys -> Entries]
    /\ ttl \in [ApiKeys -> 0 .. TTL]
    /\ pc \in [Requests -> {"idle", "fetch", "store"}]
    /\ key \in [Requests -> ApiKeys]
    /\ found \in [Requests -> Statuses]
    /\ held \in [Requests -> 0 .. MaxDelay]
    /\ answer \in [Requests -> Statuses \union {"none", "failed"}]
    /\ age \in [ApiKeys -> [Statuses -> Ages]]

(* Neither a lost reply, nor a slow request that stores what it read       *)
(* before the document changed, nor a failing Firestore makes the cache    *)
(* hold a status that was not true at some time in the last TTL plus the   *)
(* delay of a request: an entry is at most as old as it has been cached,   *)
(* plus that delay.                                                        *)
EntriesAge ==
    \A k \in ApiKeys : cache[k] # "miss" =>
        /\ ttl[k] > 0
        /\ age[k][cache[k]] + ttl[k] <= MaxAge

(* What makes it inductive: the status a request has read was true when it *)
(* read it.                                                                *)
FoundAge == \A r \in Requests : pc[r] = "store" => age[key[r]][found[r]] <= held[r]

(* The status true of a key has age 0.                                     *)
TrueNow == \A k \in ApiKeys : age[k][StatusOf(doc[k])] = 0

(* A request under way has no answer yet.                                  *)
Unanswered == \A r \in Requests : pc[r] # "idle" => answer[r] = "none"

IInv == TypeOK /\ EntriesAge /\ FoundAge /\ TrueNow /\ Unanswered

(* For those who ask, the two services, the cache and Firestore together   *)
(* are one register that answers each request once, with a status of its   *)
(* own key that is at most MaxAge old, or says that it failed.             *)
Register == INSTANCE StatusRegister WITH
    status <- [k \in ApiKeys |-> StatusOf(doc[k])],
    waiting <- {r \in Requests : pc[r] # "idle"}

AnswersAsRegister == Register!Spec

(* A document that stops changing is in the end what the cache says, for   *)
(* good: no request brings back what was true before.                      *)
EventuallyConsistent ==
    \A k \in ApiKeys, d \in Docs :
        <>[](doc[k] = d) => <>[](cache[k] \in {"miss", StatusOf(d)})
=============================================================================
