------------------------------ MODULE BlockList ------------------------------
(***************************************************************************)
(* feed-api's FallbackHandler: an address that asks for an endpoint that   *)
(* does not exist is stored in the Firestore collection "blocked", for     *)
(* good; later requests of this kind are refused.  Only this handler reads *)
(* the collection.  What it finds there is remembered in Redis for an      *)
(* hour, by a goroutine that the answer does not wait for.                 *)
(*                                                                         *)
(* Addresses do not interact: the model is about one of them.              *)
(***************************************************************************)
EXTENDS Naturals, AppLog

CONSTANTS
    Requests,   \* what the handler serves at a time
    TTL,        \* "time.Hour"
    MaxDelay,   \* bound: the goroutine writes at most this long after the query
    MaxDocs     \* bound: the documents of the address

ASSUME BlockAssumption ==
    /\ TTL \in Nat \ {0}
    /\ MaxDelay \in Nat
    /\ MaxDocs \in Nat \ {0}

VARIABLES
    docs,      \* Firestore: the documents of the address
    ttl,       \* Redis: of the entry of the address; 0 if there is none
    pc,        \* of a request: "idle", "query", "add", "cache"
    held,      \* how long ago its query was answered
    told,      \* history: the address was told that it is blocked, and
               \* has not been allowed since
    knows,     \* history: so it was when the request came, and no query failed
    excused,   \* history: a query failed, or overlapped with the Add of another
    free       \* history: for how long there has been no document

blockVars == <<docs, ttl, pc, held, told, knows, excused, free>>
vars == <<blockVars, logVars>>

(* The longest that an address is refused after it was allowed, at which   *)
(* counting stops.                                                         *)
MaxRefusal == TTL + MaxDelay

Init ==
    /\ docs \in {0, 1}
    /\ ttl = 0
    /\ pc = [r \in Requests |-> "idle"]
    /\ held = [r \in Requests |-> 0]
    /\ told = FALSE
    /\ knows = [r \in Requests |-> FALSE]
    /\ excused = FALSE
    /\ free = IF docs = 0 THEN MaxRefusal ELSE 0
    /\ LogInit

-----------------------------------------------------------------------------
(* A request r of the address.                                             *)

(* Mutant: a hit renews the entry.                                         *)
HitRenews(r) ==
    /\ running
    /\ pc[r] = "idle"
    /\ ttl > 0
    /\ ttl' = TTL
    /\ UNCHANGED <<docs, pc, held, told, knows, excused, free>>

(* IsBlocked finds the entry in Redis: 403.                                *)
Hit(r) ==
    /\ running
    /\ pc[r] = "idle"
    /\ ttl > 0
    /\ UNCHANGED blockVars

(* It finds none, or Redis is not reached: Val() is 0 then, too.           *)
Miss(r) ==
    /\ running
    /\ pc[r] = "idle"
    /\ pc' = [pc EXCEPT ![r] = "query"]
    /\ knows' = [knows EXCEPT ![r] = told]
    /\ UNCHANGED <<docs, ttl, held, told, excused, free>>

(* The query finds a document: 403, and the goroutine is started.          *)
Found(r) ==
    /\ pc[r] = "query"
    /\ docs > 0
    /\ pc' = [pc EXCEPT ![r] = "cache"]
    /\ held' = [held EXCEPT ![r] = 0]
    /\ UNCHANGED <<docs, ttl, told, knows, excused, free>>

(* The address counts as not blocked; SaveBlockedIPToFirebase logs that it *)
(* stores it.                                                              *)
NotBlocked(r) ==
    /\ pc[r] = "query"
    /\ LogMessage
    /\ pc' = [pc EXCEPT ![r] = "add"]
    /\ UNCHANGED <<docs, ttl, held, told, free>>

(* The query finds no document.                                            *)
NotFound(r) ==
    /\ docs = 0
    /\ NotBlocked(r)
    /\ excused' = (excused \/ \E q \in Requests : pc[q] = "add")
    /\ UNCHANGED knows

(* The query fails, which is taken for the same.                           *)
QueryFails(r) ==
    /\ NotBlocked(r)
    /\ knows' = [knows EXCEPT ![r] = FALSE]
    /\ excused' = TRUE

(* Mutant: a goroutine adds the document after the answer.                 *)
AnswerFirst(r) ==
    /\ pc[r] = "add"
    /\ told' = TRUE
    /\ \/ docs < MaxDocs /\ docs' = docs + 1 /\ free' = 0
          /\ pc' = [pc EXCEPT ![r] = "idle"]
       \/ UNCHANGED <<docs, free, pc>>
    /\ UNCHANGED <<ttl, held, knows, excused>>

(* Add makes a document of a new name: 404, "You are Blocked".             *)
Add(r) ==
    /\ pc[r] = "add"
    /\ docs < MaxDocs
    /\ docs' = docs + 1
    /\ told' = TRUE
    /\ free' = 0
    /\ pc' = [pc EXCEPT ![r] = "idle"]
    /\ UNCHANGED <<ttl, held, knows, excused>>

(* Mutant: Add is sent again, with a new name.                             *)
AddAgain(r) ==
    /\ pc[r] = "add"
    /\ docs < MaxDocs
    /\ docs' = docs + 1
    /\ free' = 0
    /\ UNCHANGED <<ttl, pc, held, told, knows, excused>>

(* Add fails, executed or not: 500.                                        *)
AddFails(r) ==
    /\ pc[r] = "add"
    /\ \/ docs < MaxDocs /\ docs' = docs + 1 /\ free' = 0
       \/ UNCHANGED <<docs, free>>
    /\ pc' = [pc EXCEPT ![r] = "idle"]
    /\ UNCHANGED <<ttl, held, told, knows, excused>>

(* Mutant: the hour is added to what is left.                              *)
SetAdds(r) ==
    /\ pc[r] = "cache"
    /\ ttl' = ttl + TTL
    /\ pc' \in {pc, [pc EXCEPT ![r] = "idle"]}
    /\ UNCHANGED <<docs, held, told, knows, excused, free>>

(* The goroutine sets the entry; if the reply is lost the client sends Set *)
(* again.                                                                  *)
SetEntry(r) ==
    /\ pc[r] = "cache"
    /\ ttl' = TTL
    /\ pc' \in {pc, [pc EXCEPT ![r] = "idle"]}
    /\ UNCHANGED <<docs, held, told, knows, excused, free>>

(* Set fails: that is logged.                                              *)
SetFails(r) ==
    /\ pc[r] = "cache"
    /\ pc' = [pc EXCEPT ![r] = "idle"]
    /\ UNCHANGED <<docs, ttl, held, told, knows, excused, free>>

FallbackHandler(r) ==
    \/ (Hit(r) \/ Miss(r) \/ Found(r)) /\ UNCHANGED logVars
    \/ NotFound(r) \/ QueryFails(r)
    \/ (Add(r) \/ AddFails(r) \/ SetEntry(r) \/ SetFails(r)) /\ UNCHANGED logVars

-----------------------------------------------------------------------------
(* The environment.                                                        *)

(* "We can allow them from backend": documents of the address are deleted. *)
Allow ==
    /\ docs > 0
    /\ docs' \in 0 .. docs - 1
    /\ told' = (told /\ docs' > 0)
    /\ knows' = [r \in Requests |-> knows[r] /\ docs' > 0]
    /\ UNCHANGED <<ttl, pc, held, excused, free, logVars>>

(* Redis loses the entry.                                                  *)
Evict == ttl' = 0 /\ UNCHANGED <<docs, pc, held, told, knows, excused, free, logVars>>

(* A unit of time passes.                                                  *)
ClockStep ==
    /\ \A r \in Requests : pc[r] = "cache" => held[r] < MaxDelay
    /\ held' = [r \in Requests |-> IF pc[r] = "cache" THEN held[r] + 1 ELSE 0]
    /\ ttl' = IF ttl > 0 THEN ttl - 1 ELSE 0
    /\ free' = IF docs = 0 /\ free < MaxRefusal THEN free + 1 ELSE free
    /\ UNCHANGED <<docs, pc, told, knows, excused, logVars>>

(* feed-api dies, with its requests and their goroutines.                  *)
Crash ==
    /\ Die
    /\ pc' = [r \in Requests |-> "idle"]
    /\ held' = [r \in Requests |-> 0]
    /\ UNCHANGED <<docs, ttl, told, knows, excused, free>>

(* It is started again, which nobody has to do.                            *)
Restart == Start /\ UNCHANGED blockVars

Next ==
    \/ \E r \in Requests : FallbackHandler(r)
    \/ PushAppLogToMinIO /\ UNCHANGED blockVars
    \/ Allow \/ Evict \/ ClockStep
    \/ Crash \/ Restart
    \/ RemoveContainer /\ UNCHANGED blockVars

Spec == Init /\ [][Next]_vars

(* Nothing is assumed of clients, Redis, Firestore and whoever starts      *)
(* feed-api again.                                                         *)
FairSpec == Spec /\ LogFairness

-----------------------------------------------------------------------------
TypeOK ==
    /\ LogTypeOK
    /\ docs \in 0 .. MaxDocs
    /\ ttl \in 0 .. TTL
    /\ pc \in [Requests -> {"idle", "query", "add", "cache"}]
    /\ held \in [Requests -> 0 .. MaxDelay]
    /\ told \in BOOLEAN
    /\ knows \in [Requests -> BOOLEAN]
    /\ excused \in BOOLEAN
    /\ free \in 0 .. MaxRefusal

(* An address that was told it is blocked stays so until it is allowed: a  *)
(* request that comes later is not taken for a first one, unless its own   *)
(* query fails, in spite of overlaps, deaths and entries that expire.      *)
ToldIsRefused == \A r \in Requests : pc[r] = "add" => ~knows[r]

(* An address has one document, unless a query failed or found nothing     *)
(* while another request was adding one.                                   *)
OneDocument == ~excused => docs <= 1

(* An address that the backend has allowed is refused out of Redis for no  *)
(* longer than the entry lives after the delay of the goroutine: neither   *)
(* hits nor repeated and late Sets prolong it.                             *)
AllowedInTime == ttl > 0 => free + ttl <= MaxRefusal
=============================================================================
