-------------------------- MODULE BlockList_proofs --------------------------
(***************************************************************************)
(* Proofs about BlockList and the AppLog it extends: for any number of     *)
(* requests at a time, any expiry and any bounds.                          *)
(***************************************************************************)
EXTENDS BlockList, TLAPS

(* What the address was told is in Firestore, and a request knows no more. *)
Documented ==
    /\ told => docs > 0
    /\ \A r \in Requests : knows[r] => told

(* As long as nothing is excused, a request that adds a document is the    *)
(* only one, and there is none yet.                                        *)
AddsAlone ==
    ~excused => \A r \in Requests : pc[r] = "add" =>
        docs = 0 /\ \A q \in Requests : pc[q] = "add" => q = r

(* An address with a document is not free, and when a goroutine stores     *)
(* that it is blocked, it is free since the query at most.                 *)
NotFreeBefore ==
    /\ docs > 0 => free = 0
    /\ \A r \in Requests : pc[r] = "cache" => free <= held[r]

BlockInv ==
    /\ TypeOK /\ ReadsAllArchived /\ NewestHasAll
    /\ Documented /\ ToldIsRefused
    /\ AddsAlone /\ OneDocument
    /\ NotFreeBefore /\ AllowedInTime

-----------------------------------------------------------------------------
(* The log file and its uploads.                                           *)

(* Nothing is in objects of a file that is empty.                          *)
LEMMA LogInitInv == LogInit => LogInv
BY AppLogAssumption DEF LogInit, LogInv, LogTypeOK, ReadsAllArchived, NewestHasAll

(* What a program and its environment do to the log.                       *)
LogStep ==
    \/ LogMessage \/ PushAppLogToMinIO
    \/ Die \/ Start \/ RemoveContainer
    \/ UNCHANGED logVars

(* Neither a line nor an upload, a failure, a death, a start or the loss   *)
(* of the file makes an upload read less than what is archived.            *)
LEMMA LogStepInv == ASSUME LogInv, LogStep PROVE LogInv'
<1> USE AppLogAssumption DEF LogInv, LogTypeOK, ReadsAllArchived, NewestHasAll
<1>1. CASE LogMessage
  <2>1. file' \in SUBSET Lines /\ file \subseteq file'
    BY <1>1 DEF LogMessage
  <2> QED
    BY <1>1, <2>1 DEF LogMessage
<1>2. CASE Stat
  BY <1>2 DEF Stat
<1>3. CASE PutObject
  BY <1>3 DEF PutObject
<1>4. CASE PutFails
  BY <1>4 DEF PutFails
<1>5. CASE Die
  BY <1>5 DEF Die
<1>6. CASE Start
  BY <1>6 DEF Start, OpenLog
<1>7. CASE RemoveContainer
  BY <1>7 DEF RemoveContainer
<1>8. CASE UNCHANGED logVars
  BY <1>8 DEF logVars
<1> QED
  BY <1>1, <1>2, <1>3, <1>4, <1>5, <1>6, <1>7, <1>8 DEF LogStep, PushAppLogToMinIO

(* Every step of BlockList is one of these for the log.                    *)
LEMMA NextIsLogStep == ASSUME [Next]_vars PROVE LogStep
<1>1. ASSUME NEW r \in Requests, FallbackHandler(r)
      PROVE  LogMessage \/ UNCHANGED logVars
  BY <1>1 DEF FallbackHandler, NotFound, QueryFails, NotBlocked
<1>2. CASE Allow \/ Evict \/ ClockStep
  BY <1>2 DEF Allow, Evict, ClockStep, LogStep
<1>3. CASE Crash \/ Restart
  BY <1>3 DEF Crash, Restart, LogStep
<1>4. CASE UNCHANGED vars
  BY <1>4 DEF vars, LogStep
<1> QED
  BY <1>1, <1>2, <1>3, <1>4 DEF Next, LogStep

-----------------------------------------------------------------------------
(* The address.                                                            *)

(* Firestore and Redis before the first request.                           *)
LEMMA InitInv == Init => BlockInv
<1> SUFFICES ASSUME Init PROVE BlockInv
  OBVIOUS
<1>1. LogInv
  BY LogInitInv DEF Init
<1>2. TypeOK /\ NotFreeBefore /\ AllowedInTime
  <2>1. /\ docs \in 0 .. MaxDocs /\ ttl \in 0 .. TTL /\ free \in 0 .. MaxRefusal
        /\ docs > 0 => free = 0
        /\ ttl = 0
    BY BlockAssumption DEF Init, MaxRefusal
  <2>2. /\ pc \in [Requests -> {"idle", "query", "add", "cache"}]
        /\ held \in [Requests -> 0 .. MaxDelay]
        /\ \A r \in Requests : pc[r] # "cache"
    BY BlockAssumption DEF Init
  <2>3. told \in BOOLEAN /\ knows \in [Requests -> BOOLEAN] /\ excused \in BOOLEAN
    BY Zenon DEF Init
  <2> QED
    BY <1>1, <2>1, <2>2, <2>3 DEF TypeOK, LogInv, NotFreeBefore, AllowedInTime
<1>3. Documented /\ ToldIsRefused /\ AddsAlone /\ OneDocument
  BY DEF Init, Documented, ToldIsRefused, AddsAlone, OneDocument
<1> QED
  BY <1>1, <1>2, <1>3 DEF BlockInv, LogInv

(* A step of a request.                                                    *)
LEMMA RequestInv ==
  ASSUME BlockInv, NEW r \in Requests, FallbackHandler(r), LogTypeOK'
  PROVE  /\ TypeOK' /\ Documented' /\ ToldIsRefused'
         /\ AddsAlone' /\ OneDocument' /\ NotFreeBefore' /\ AllowedInTime'
<1> USE BlockAssumption DEF MaxRefusal
<1>1. /\ TypeOK /\ Documented /\ ToldIsRefused
      /\ AddsAlone /\ OneDocument /\ NotFreeBefore /\ AllowedInTime
  BY DEF BlockInv
<1>2. CASE Hit(r)
  BY <1>1, <1>2 DEF Hit, blockVars, TypeOK, Documented, ToldIsRefused, AddsAlone,
     OneDocument, NotFreeBefore, AllowedInTime
<1>3. CASE Miss(r)
  <2>1. TypeOK'
    BY <1>1, <1>3 DEF Miss, TypeOK
  <2>2. Documented' /\ ToldIsRefused'
    BY <1>1, <1>3 DEF Miss, TypeOK, Documented, ToldIsRefused
  <2>3. AddsAlone' /\ OneDocument'
    BY <1>1, <1>3 DEF Miss, TypeOK, AddsAlone, OneDocument
  <2>4. NotFreeBefore' /\ AllowedInTime'
    BY <1>1, <1>3 DEF Miss, TypeOK, NotFreeBefore, AllowedInTime
  <2> QED
    BY <2>1, <2>2, <2>3, <2>4
<1>4. CASE Found(r)
  <2>1. TypeOK'
    BY <1>1, <1>4 DEF Found, TypeOK
  <2>2. Documented' /\ ToldIsRefused'
    BY <1>1, <1>4 DEF Found, TypeOK, Documented, ToldIsRefused
  <2>3. AddsAlone' /\ OneDocument'
    BY <1>1, <1>4 DEF Found, TypeOK, AddsAlone, OneDocument
  <2>4. NotFreeBefore' /\ AllowedInTime'
    BY <1>1, <1>4 DEF Found, TypeOK, NotFreeBefore, AllowedInTime
  <2> QED
    BY <2>1, <2>2, <2>3, <2>4
<1>5. CASE NotFound(r)
  <2>1. /\ docs = 0
        /\ pc' = [pc EXCEPT ![r] = "add"]
        /\ excused' = (excused \/ \E q \in Requests : pc[q] = "add")
        /\ UNCHANGED <<docs, ttl, held, told, knows, free>>
    BY <1>5 DEF NotFound, NotBlocked
  <2>2. TypeOK'
    BY <1>1, <2>1 DEF TypeOK
  <2>3. ~knows[r]
    BY <1>1, <2>1 DEF Documented, TypeOK
  <2>4. Documented' /\ ToldIsRefused'
    BY <1>1, <2>1, <2>3 DEF TypeOK, Documented, ToldIsRefused
  <2>5. AddsAlone' /\ OneDocument'
    BY <1>1, <2>1 DEF TypeOK, AddsAlone, OneDocument
  <2>6. NotFreeBefore' /\ AllowedInTime'
    BY <1>1, <2>1 DEF TypeOK, NotFreeBefore, AllowedInTime
  <2> QED
    BY <2>2, <2>4, <2>5, <2>6
<1>6. CASE QueryFails(r)
  <2>1. /\ pc' = [pc EXCEPT ![r] = "add"]
        /\ knows' = [knows EXCEPT ![r] = FALSE]
        /\ excused' = TRUE
        /\ UNCHANGED <<docs, ttl, held, told, free>>
    BY <1>6 DEF QueryFails, NotBlocked
  <2>2. TypeOK'
    BY <1>1, <2>1 DEF TypeOK
  <2>3. Documented' /\ ToldIsRefused'
    BY <1>1, <2>1 DEF TypeOK, Documented, ToldIsRefused
  <2>4. AddsAlone' /\ OneDocument'
    BY <2>1 DEF AddsAlone, OneDocument
  <2>5. NotFreeBefore' /\ AllowedInTime'
    BY <1>1, <2>1 DEF TypeOK, NotFreeBefore, AllowedInTime
  <2> QED
    BY <2>2, <2>3, <2>4, <2>5
<1>7. CASE Add(r) \/ AddFails(r)
  <2>1. /\ pc[r] = "add"
        /\ pc' = [pc EXCEPT ![r] = "idle"]
        /\ \/ docs < MaxDocs /\ docs' = docs + 1 /\ free' = 0
           \/ UNCHANGED <<docs, free>>
        /\ told' = told \/ (told' = TRUE /\ docs' = docs + 1)
        /\ UNCHANGED <<ttl, held, knows, excused>>
    BY <1>7 DEF Add, AddFails
  <2>2. TypeOK'
    <3>1. docs \in 0 .. MaxDocs /\ free \in 0 .. MaxRefusal
      BY <1>1 DEF TypeOK
    <3>2. docs' \in 0 .. MaxDocs /\ free' \in 0 .. MaxRefusal
      BY <2>1, <3>1
    <3>3. pc' \in [Requests -> {"idle", "query", "add", "cache"}]
      BY <1>1, <2>1 DEF TypeOK
    <3> QED
      BY <1>1, <2>1, <3>2, <3>3 DEF TypeOK
  <2>3. Documented' /\ ToldIsRefused'
    BY <1>1, <2>1 DEF TypeOK, Documented, ToldIsRefused
  <2>4. AddsAlone' /\ OneDocument'
    <3>1. \A q \in Requests : pc'[q] = "add" => pc[q] = "add" /\ q # r
      BY <1>1, <2>1 DEF TypeOK
    <3>2. ~excused' => \A q \in Requests : pc'[q] # "add"
      BY <1>1, <2>1, <3>1 DEF AddsAlone
    <3>3. ~excused' => docs' <= 1
      <4>1. ~excused => docs = 0
        BY <1>1, <2>1 DEF AddsAlone
      <4> QED
        BY <2>1, <4>1
    <3> QED
      BY <3>2, <3>3 DEF AddsAlone, OneDocument
  <2>5. NotFreeBefore' /\ AllowedInTime'
    BY <1>1, <2>1 DEF TypeOK, NotFreeBefore, AllowedInTime
  <2> QED
    BY <2>2, <2>3, <2>4, <2>5
<1>8. CASE SetEntry(r) \/ SetFails(r)
  <2>1. /\ pc[r] = "cache"
        /\ ttl' = ttl \/ ttl' = TTL
        /\ \A q \in Requests : pc'[q] = pc[q] \/ pc'[q] = "idle"
        /\ pc' \in [Requests -> {"idle", "query", "add", "cache"}]
        /\ UNCHANGED <<docs, held, told, knows, excused, free>>
    BY <1>1, <1>8 DEF SetEntry, SetFails, TypeOK
  <2>2. TypeOK'
    BY <1>1, <2>1 DEF TypeOK
  <2>3. Documented' /\ ToldIsRefused'
    BY <1>1, <2>1 DEF Documented, ToldIsRefused
  <2>4. AddsAlone' /\ OneDocument'
    BY <1>1, <2>1 DEF AddsAlone, OneDocument
  <2>5. NotFreeBefore'
    BY <1>1, <2>1 DEF TypeOK, NotFreeBefore
  <2>6. AllowedInTime'
    <3>1. free <= held[r] /\ held[r] <= MaxDelay
      BY <1>1, <2>1 DEF NotFreeBefore, TypeOK
    <3> QED
      BY <1>1, <2>1, <3>1 DEF TypeOK, AllowedInTime
  <2> QED
    BY <2>2, <2>3, <2>4, <2>5, <2>6
<1> QED
  BY <1>2, <1>3, <1>4, <1>5, <1>6, <1>7, <1>8 DEF FallbackHandler

(* A step of the environment: the backend, Redis, time, the death of the   *)
(* process.                                                                *)
LEMMA EnvironmentInv ==
  ASSUME BlockInv, Allow \/ Evict \/ ClockStep \/ Crash, LogTypeOK'
  PROVE  /\ TypeOK' /\ Documented' /\ ToldIsRefused'
         /\ AddsAlone' /\ OneDocument' /\ NotFreeBefore' /\ AllowedInTime'
<1> USE BlockAssumption DEF MaxRefusal
<1>1. /\ TypeOK /\ Documented /\ ToldIsRefused
      /\ AddsAlone /\ OneDocument /\ NotFreeBefore /\ AllowedInTime
  BY DEF BlockInv
<1>2. CASE Allow
  <2>1. /\ docs > 0 /\ docs' \in 0 .. docs - 1
        /\ told' = (told /\ docs' > 0)
        /\ knows' = [r \in Requests |-> knows[r] /\ docs' > 0]
        /\ UNCHANGED <<ttl, pc, held, excused, free>>
    BY <1>2 DEF Allow
  <2>2. told' \in BOOLEAN /\ knows' \in [Requests -> BOOLEAN]
    BY <2>1, Zenon
  <2>3. docs' \in 0 .. MaxDocs
    BY <1>1, <2>1 DEF TypeOK
  <2>4. TypeOK'
    BY <1>1, <2>1, <2>2, <2>3 DEF TypeOK
  <2>5. \A r \in Requests : knows'[r] = (knows[r] /\ docs' > 0)
    BY <2>1, Zenon
  <2>6. Documented' /\ ToldIsRefused'
    BY <1>1, <2>1, <2>5 DEF Documented, ToldIsRefused
  <2>7. AddsAlone' /\ OneDocument'
    BY <1>1, <2>1 DEF TypeOK, AddsAlone, OneDocument
  <2>8. NotFreeBefore' /\ AllowedInTime'
    BY <1>1, <2>1 DEF TypeOK, NotFreeBefore, AllowedInTime
  <2> QED
    BY <2>4, <2>6, <2>7, <2>8
<1>3. CASE Evict
  BY <1>1, <1>3 DEF Evict, TypeOK, Documented, ToldIsRefused, AddsAlone,
     OneDocument, NotFreeBefore, AllowedInTime
<1>4. CASE ClockStep
  <2>1. /\ \A r \in Requests : pc[r] = "cache" => held[r] < MaxDelay
        /\ held' = [r \in Requests |-> IF pc[r] = "cache" THEN held[r] + 1 ELSE 0]
        /\ ttl' = IF ttl > 0 THEN ttl - 1 ELSE 0
        /\ free' = IF docs = 0 /\ free < MaxRefusal THEN free + 1 ELSE free
        /\ UNCHANGED <<docs, pc, told, knows, excused>>
    BY <1>4 DEF ClockStep
  <2>2. free' \in 0 .. MaxRefusal /\ ttl' \in 0 .. TTL
    BY <1>1, <2>1 DEF TypeOK
  <2>3. held' \in [Requests -> 0 .. MaxDelay]
    BY <1>1, <2>1 DEF TypeOK
  <2>4. TypeOK'
    BY <1>1, <2>1, <2>2, <2>3 DEF TypeOK
  <2>5. Documented' /\ ToldIsRefused' /\ AddsAlone' /\ OneDocument'
    BY <1>1, <2>1 DEF Documented, ToldIsRefused, AddsAlone, OneDocument
  <2>6. docs' > 0 => free' = 0
    BY <1>1, <2>1 DEF TypeOK, NotFreeBefore
  <2>7. ASSUME NEW r \in Requests, pc'[r] = "cache"
        PROVE  free' <= held'[r]
    <3>1. free <= held[r] /\ held'[r] = held[r] + 1 /\ held[r] \in Nat
      BY <1>1, <2>1, <2>7 DEF TypeOK, NotFreeBefore
    <3> QED
      BY <1>1, <2>1, <3>1 DEF TypeOK
  <2>8. AllowedInTime'
    BY <1>1, <2>1 DEF TypeOK, AllowedInTime
  <2> QED
    BY <2>4, <2>5, <2>6, <2>7, <2>8 DEF NotFreeBefore
<1>5. CASE Crash
  <2>1. /\ pc' = [r \in Requests |-> "idle"]
        /\ held' = [r \in Requests |-> 0]
        /\ UNCHANGED <<docs, ttl, told, knows, excused, free>>
    BY <1>5 DEF Crash
  <2>2. TypeOK'
    BY <1>1, <2>1 DEF TypeOK
  <2>3. Documented' /\ ToldIsRefused' /\ AddsAlone' /\ OneDocument'
    BY <1>1, <2>1 DEF Documented, ToldIsRefused, AddsAlone, OneDocument
  <2>4. NotFreeBefore' /\ AllowedInTime'
    BY <1>1, <2>1 DEF NotFreeBefore, AllowedInTime
  <2> QED
    BY <2>2, <2>3, <2>4
<1> QED
  BY <1>2, <1>3, <1>4, <1>5

-----------------------------------------------------------------------------
(* Every step preserves the invariant.                                     *)
LEMMA NextInv == ASSUME BlockInv, [Next]_vars PROVE BlockInv'
<1>1. LogInv'
  <2>1. LogInv
    BY DEF BlockInv, TypeOK, LogInv
  <2> QED
    BY <2>1, NextIsLogStep, LogStepInv
<1>2. LogTypeOK' /\ ReadsAllArchived' /\ NewestHasAll'
  BY <1>1 DEF LogInv
<1> DEFINE Goal == /\ TypeOK' /\ Documented' /\ ToldIsRefused'
                   /\ AddsAlone' /\ OneDocument' /\ NotFreeBefore' /\ AllowedInTime'
<1>3. ASSUME NEW r \in Requests, FallbackHandler(r) PROVE Goal
  BY <1>2, <1>3, RequestInv
<1>4. ASSUME Allow \/ Evict \/ ClockStep \/ Crash PROVE Goal
  BY <1>2, <1>4, EnvironmentInv
<1>5. ASSUME UNCHANGED blockVars PROVE Goal
  BY <1>2, <1>5 DEF BlockInv, blockVars, TypeOK, Documented, ToldIsRefused, AddsAlone,
     OneDocument, NotFreeBefore, AllowedInTime
<1>6. Goal
  BY <1>3, <1>4, <1>5 DEF Next, Restart, vars
<1> QED
  BY <1>2, <1>6 DEF BlockInv

(* The inductive invariant of the blocked addresses and of the log holds.  *)
THEOREM Invariance == Spec => []BlockInv
<1>1. BlockInv /\ [Next]_vars => BlockInv'
  BY NextInv
<1> QED
  BY <1>1, InitInv, PTL DEF Spec

(* FallbackHandler, its goroutine and the log upload keep the types.       *)
THEOREM TypeCorrect == Spec => []TypeOK
<1>1. BlockInv => TypeOK
  BY DEF BlockInv
<1> QED
  BY <1>1, Invariance, PTL

(* However many requests of an address overlap: who was told to be blocked *)
(* is not taken for a first offender unless the query fails.               *)
THEOREM ToldIsRefusedHolds == Spec => []ToldIsRefused
<1>1. BlockInv => ToldIsRefused
  BY DEF BlockInv
<1> QED
  BY <1>1, Invariance, PTL

(* An address is stored twice only after a failed query or an overlap.     *)
THEOREM OneDocumentHolds == Spec => []OneDocument
<1>1. BlockInv => OneDocument
  BY DEF BlockInv
<1> QED
  BY <1>1, Invariance, PTL

(* The entry in Redis outlives the permission of the backend by its expiry *)
(* and the delay of the goroutine at most.                                 *)
THEOREM AllowedInTimeHolds == Spec => []AllowedInTime
<1>1. BlockInv => AllowedInTime
  BY DEF BlockInv
<1> QED
  BY <1>1, Invariance, PTL

(* UploadLogDataToMinIO never brings back an earlier state of the log, and *)
(* Initialize does not cut it off.                                         *)
THEOREM NewestHasAllHolds == Spec => []NewestHasAll
<1>1. BlockInv => NewestHasAll
  BY DEF BlockInv
<1> QED
  BY <1>1, Invariance, PTL
=============================================================================
