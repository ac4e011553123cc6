----------------------- MODULE UserStatusCache_proofs -----------------------
(***************************************************************************)
(* Proofs about UserStatusCache for any number of keys and requests, any   *)
(* time to live and any delay: how old a status the middleware acts on can *)
(* be, and that the two services with their cache are one register.        *)
(***************************************************************************)
EXTENDS UserStatusCache, TLAPS

(* The bounds are numbers.                                                 *)
LEMMA BoundsAreNat == TTL \in Nat \ {0} /\ MaxDelay \in Nat /\ MaxAge \in Nat /\ MaxAge >= TTL
  BY CacheAssumption DEF MaxAge

(* Every document has a status.                                            *)
LEMMA StatusOfType == \A d \in Docs : StatusOf(d) \in Statuses
  BY DEF Docs, Statuses, StatusOf

(* The invariant holds at the start.                                       *)
LEMMA InitIInv == Init => IInv
<1> SUFFICES ASSUME Init
             PROVE  IInv
  OBVIOUS
<1>1. age \in [ApiKeys -> [Statuses -> Ages]]
  <2>1. 0 \in Ages /\ MaxAge + 1 \in Ages
    BY BoundsAreNat DEF Ages
  <2> QED
    BY <2>1 DEF Init
<1>2. TypeOK
  BY <1>1, BoundsAreNat DEF Init, TypeOK, Entries, Statuses
<1>3. EntriesAge /\ FoundAge /\ Unanswered
  BY DEF Init, EntriesAge, FoundAge, Unanswered
<1>4. TrueNow
  BY StatusOfType DEF Init, TrueNow
<1> QED
  BY <1>2, <1>3, <1>4 DEF IInv

(* What a request does keeps the invariant: the Set stores what was read   *)
(* at most MaxDelay ago.                                                   *)
LEMMA ValidateStep ==
  ASSUME IInv, NEW r \in Requests, Validate(r)
  PROVE  IInv'
<1> USE DEF IInv, TypeOK, reqVars, Unanswered
<1>1. ASSUME NEW k \in ApiKeys, Hit(r, k)
      PROVE  IInv'
  <2>1. cache[k] \in Statuses
    BY <1>1 DEF Hit, Entries
  <2>2. TypeOK' /\ Unanswered' /\ TrueNow' /\ EntriesAge'
    BY <1>1, <2>1 DEF Hit, TrueNow, EntriesAge
  <2>3. FoundAge'
    BY <1>1 DEF Hit, FoundAge
  <2> QED
    BY <2>2, <2>3
<1>2. ASSUME NEW k \in ApiKeys, Miss(r, k)
      PROVE  IInv'
  BY <1>2 DEF Miss, TrueNow, EntriesAge, FoundAge
<1>3. CASE Fetch(r)
  <2>1. StatusOf(doc[key[r]]) \in Statuses /\ 0 \in 0 .. MaxDelay
    BY StatusOfType, BoundsAreNat
  <2>2. TypeOK' /\ Unanswered' /\ TrueNow' /\ EntriesAge'
    BY <1>3, <2>1 DEF Fetch, TrueNow, EntriesAge
  <2>3. FoundAge'
    BY <1>3, BoundsAreNat DEF Fetch, FoundAge, TrueNow
  <2> QED
    BY <2>2, <2>3
<1>4. CASE FetchFails(r)
  BY <1>4 DEF FetchFails, TrueNow, EntriesAge, FoundAge
<1>5. CASE Store(r)
  <2>1. TTL \in 0 .. TTL /\ key[r] \in ApiKeys /\ found[r] \in Statuses /\ found[r] \in Entries
    BY BoundsAreNat DEF Entries
  <2>2. TypeOK' /\ Unanswered' /\ TrueNow'
    BY <1>5, <2>1 DEF Store, TrueNow
  <2>3. FoundAge'
    BY <1>5 DEF Store, FoundAge
  <2>4. EntriesAge'
    <3>1. age[key[r]][found[r]] + TTL <= MaxAge
      <4>1. /\ age[key[r]][found[r]] \in Nat /\ held[r] \in 0 .. MaxDelay
            /\ age[key[r]][found[r]] <= held[r]
        BY <1>5, <2>1, BoundsAreNat DEF Store, FoundAge, Ages
      <4> QED
        BY <4>1, BoundsAreNat DEF MaxAge
    <3> QED
      BY <1>5, <2>1, <3>1, BoundsAreNat DEF Store, EntriesAge
  <2> QED
    BY <2>2, <2>3, <2>4
<1>6. CASE StoreFails(r)
  BY <1>6 DEF StoreFails, TrueNow, EntriesAge, FoundAge
<1> QED
  BY <1>1, <1>2, <1>3, <1>4, <1>5, <1>6 DEF Validate, Finish

(* A change of a document makes one status true, and no other older.       *)
LEMMA DocChangesStep ==
  ASSUME IInv, NEW k \in ApiKeys, DocChanges(k)
  PROVE  IInv'
<1> USE DEF IInv, TypeOK, Unanswered
<1>1. PICK d \in Docs : doc' = [doc EXCEPT ![k] = d]
  BY DEF DocChanges
<1>2. /\ StatusOf(d) \in Statuses /\ 0 \in Ages
      /\ age' = [age EXCEPT ![k][StatusOf(d)] = 0]
      /\ UNCHANGED <<cache, ttl, pc, key, found, held, answer>>
  BY <1>1, StatusOfType, BoundsAreNat DEF DocChanges, reqVars, Ages
<1>3. TypeOK' /\ Unanswered'
  BY <1>1, <1>2
<1>4. \A j \in ApiKeys, st \in Statuses :
        /\ age[j][st] \in Nat /\ age'[j][st] \in Nat
        /\ age'[j][st] <= age[j][st]
  BY <1>2, BoundsAreNat DEF Ages
<1>5. EntriesAge'
  <2> SUFFICES ASSUME NEW j \in ApiKeys, cache[j] # "miss"
               PROVE  ttl[j] > 0 /\ age'[j][cache[j]] + ttl[j] <= MaxAge
    BY <1>2 DEF EntriesAge
  <2>1. cache[j] \in Statuses /\ ttl[j] \in Nat
    BY BoundsAreNat DEF Entries
  <2>2. ttl[j] > 0 /\ age[j][cache[j]] + ttl[j] <= MaxAge
    BY DEF EntriesAge
  <2> QED
    BY <1>4, <2>1, <2>2, BoundsAreNat
<1>6. FoundAge'
  <2> SUFFICES ASSUME NEW r \in Requests, pc[r] = "store"
               PROVE  age'[key[r]][found[r]] <= held[r]
    BY <1>2 DEF FoundAge
  <2>1. age[key[r]][found[r]] <= held[r] /\ held[r] \in Nat
    BY BoundsAreNat DEF FoundAge
  <2> QED
    BY <1>4, <2>1
<1>7. TrueNow'
  BY <1>1, <1>2 DEF TrueNow
<1> QED
  BY <1>3, <1>5, <1>6, <1>7

(* When time passes, an entry loses one unit of its time to live for each  *)
(* unit its status ages.                                                   *)
LEMMA ClockKeeps ==
  ASSUME IInv, ClockStep
  PROVE  IInv'
<1> USE DEF IInv, TypeOK, Unanswered, ClockStep
<1>1. \A k \in ApiKeys, st \in Statuses :
        /\ age[k][st] \in Nat /\ age'[k][st] \in Ages
        /\ age'[k][st] \in Nat /\ age'[k][st] <= age[k][st] + 1
  BY BoundsAreNat DEF Ages
<1>2. TypeOK'
  <2>1. age' \in [ApiKeys -> [Statuses -> Ages]]
    BY <1>1
  <2>2. held' \in [Requests -> 0 .. MaxDelay]
    BY BoundsAreNat
  <2>3. ttl' \in [ApiKeys -> 0 .. TTL] /\ cache' \in [ApiKeys -> Entries]
    BY BoundsAreNat DEF Entries
  <2> QED
    BY <2>1, <2>2, <2>3
<1>3. EntriesAge'
  <2> SUFFICES ASSUME NEW k \in ApiKeys, cache'[k] # "miss"
               PROVE  ttl'[k] > 0 /\ age'[k][cache'[k]] + ttl'[k] <= MaxAge
    BY DEF EntriesAge
  <2>1. ttl[k] \in Nat /\ ttl[k] > 1 /\ cache'[k] = cache[k] /\ ttl'[k] = ttl[k] - 1
    BY BoundsAreNat
  <2>2. cache[k] \in Statuses /\ age[k][cache[k]] + ttl[k] <= MaxAge
    BY <2>1 DEF EntriesAge, Entries
  <2> QED
    BY <1>1, <2>1, <2>2, BoundsAreNat
<1>4. FoundAge'
  <2> SUFFICES ASSUME NEW r \in Requests, pc[r] = "store"
               PROVE  age'[key[r]][found[r]] <= held'[r]
    BY DEF FoundAge
  <2>1. age[key[r]][found[r]] <= held[r] /\ held[r] \in Nat /\ held'[r] = held[r] + 1
    BY BoundsAreNat DEF FoundAge
  <2> QED
    BY <1>1, <2>1
<1>5. TrueNow'
  BY StatusOfType DEF TrueNow
<1> QED
  BY <1>2, <1>3, <1>4, <1>5

(* Every step keeps the invariant.                                         *)
LEMMA NextIInv == IInv /\ [Next]_vars => IInv'
<1> SUFFICES ASSUME IInv, [Next]_vars
             PROVE  IInv'
  OBVIOUS
<1>1. CASE FeedApiValidate \/ ActionsValidate
  BY <1>1, ValidateStep DEF FeedApiValidate, ActionsValidate, Requests
<1>2. ASSUME NEW k \in ApiKeys, Evict(k)
      PROVE  IInv'
  BY <1>2, BoundsAreNat
     DEF Evict, IInv, TypeOK, EntriesAge, FoundAge, TrueNow, Unanswered, Entries, reqVars
<1>3. CASE UNCHANGED vars
  BY <1>3 DEF vars, reqVars, IInv, TypeOK, EntriesAge, FoundAge, TrueNow, Unanswered
<1> QED
  BY <1>1, <1>2, <1>3, DocChangesStep, ClockKeeps DEF Next

(* The inductive invariant holds in every reachable state.                 *)
THEOREM Invariance == Spec => []IInv
  BY InitIInv, NextIInv, PTL DEF Spec

(* Every variable has its type in every reachable state.                   *)
THEOREM TypeCorrect == Spec => []TypeOK
<1>1. IInv => TypeOK
  BY DEF IInv
<1> QED
  BY <1>1, Invariance, PTL

(* The cache never holds a status that is older than its time in the cache *)
(* and the delay of the request that stored it.                            *)
THEOREM EntriesAgeHolds == Spec => []EntriesAge
<1>1. IInv => EntriesAge
  BY DEF IInv
<1> QED
  BY <1>1, Invariance, PTL

-----------------------------------------------------------------------------
(* The requests that are under way.                                        *)
Waiting == {r \in Requests : pc[r] # "idle"}

(* The statuses of the users.                                              *)
Status == [k \in ApiKeys |-> StatusOf(doc[k])]

(* A request is under way from its miss to its answer.                     *)
LEMMA WaitingStep ==
  ASSUME NEW r \in Requests, \A q \in Requests \ {r} : pc'[q] = pc[q]
  PROVE  Waiting' = IF pc'[r] = "idle" THEN Waiting \ {r} ELSE Waiting \union {r}
BY DEF Waiting

(* What the cache holds, and what a request has read, may be answered.     *)
LEMMA AnswersRecent ==
  ASSUME IInv
  PROVE  /\ \A k \in ApiKeys : cache[k] # "miss" => cache[k] \in Register!Recent(k)
         /\ \A r \in Requests : pc[r] = "store" => found[r] \in Register!Recent(key[r])
<1> USE DEF IInv, TypeOK
<1>1. ASSUME NEW k \in ApiKeys, cache[k] # "miss"
      PROVE  cache[k] \in Register!Recent(k)
  <2>1. cache[k] \in Statuses /\ ttl[k] \in Nat
    BY <1>1, BoundsAreNat DEF Entries
  <2>2. age[k][cache[k]] \in Nat /\ age[k][cache[k]] + ttl[k] <= MaxAge
    BY <1>1, <2>1, BoundsAreNat DEF EntriesAge, Ages
  <2>3. age[k][cache[k]] <= MaxAge
    BY <2>1, <2>2, BoundsAreNat
  <2> QED
    BY <2>1, <2>3 DEF Register!Recent
<1>2. ASSUME NEW r \in Requests, pc[r] = "store"
      PROVE  found[r] \in Register!Recent(key[r])
  <2>1. key[r] \in ApiKeys /\ found[r] \in Statuses /\ held[r] \in 0 .. MaxDelay
    OBVIOUS
  <2>2. age[key[r]][found[r]] \in Nat /\ age[key[r]][found[r]] <= held[r]
    BY <1>2, <2>1, BoundsAreNat DEF FoundAge, Ages
  <2>3. age[key[r]][found[r]] <= MaxAge
    BY <2>1, <2>2, BoundsAreNat DEF MaxAge
  <2> QED
    BY <2>1, <2>3 DEF Register!Recent
<1> QED
  BY <1>1, <1>2

(* A step of a request is one of the register, or none: a miss asks, and   *)
(* whatever ends a request answers it.                                     *)
LEMMA RequestStep ==
  ASSUME IInv, NEW r \in Requests, Validate(r)
  PROVE  Register!Next \/ UNCHANGED <<Status, age, Waiting, key, answer>>
<1>1. TypeOK
  BY DEF IInv
<1>2. ASSUME doc' = doc
      PROVE  Status' = Status
  BY <1>2 DEF Status
<1>3. ASSUME NEW k \in ApiKeys, Hit(r, k)
      PROVE  Register!Next
  <2>1. /\ r \notin Waiting /\ Waiting' = Waiting
        /\ key' = [key EXCEPT ![r] = k] /\ answer' = [answer EXCEPT ![r] = cache[k]]
        /\ Status' = Status /\ age' = age
    BY <1>2, <1>3 DEF Hit, Waiting
  <2>2. cache[k] \in Register!Recent(k)
    BY <1>3, AnswersRecent DEF Hit
  <2>3. Register!Serve(r, k)
    BY <2>1, <2>2 DEF Register!Serve, Waiting, Status
  <2> QED
    BY <2>3 DEF Register!Next
<1>4. ASSUME NEW k \in ApiKeys, Miss(r, k)
      PROVE  Register!Next
  <2>1. /\ r \notin Waiting
        /\ key' = [key EXCEPT ![r] = k] /\ answer' = [answer EXCEPT ![r] = "none"]
        /\ Status' = Status /\ age' = age
    BY <1>2, <1>4 DEF Miss, Waiting
  <2>2. Waiting' = Waiting \union {r}
    BY <1>1, <1>4, WaitingStep DEF Miss, TypeOK
  <2>3. Register!Ask(r, k)
    BY <2>1, <2>2 DEF Register!Ask, Waiting, Status
  <2> QED
    BY <2>3 DEF Register!Next
<1>5. CASE Fetch(r)
  <2>1. r \in Waiting /\ Status' = Status /\ UNCHANGED <<age, key, answer>>
    BY <1>2, <1>5 DEF Fetch, Waiting
  <2>2. Waiting' = Waiting \union {r}
    BY <1>1, <1>5, WaitingStep DEF Fetch, TypeOK
  <2> QED
    BY <2>1, <2>2
<1>6. ASSUME NEW st \in Register!Recent(key[r]) \union {"failed"},
             pc[r] # "idle", pc' = [pc EXCEPT ![r] = "idle"],
             answer' = [answer EXCEPT ![r] = st], UNCHANGED <<doc, age, key>>
      PROVE  Register!Next
  <2>1. r \in Waiting /\ Waiting' = Waiting \ {r} /\ Status' = Status
    BY <1>1, <1>2, <1>6, WaitingStep DEF Waiting, TypeOK
  <2>2. Register!Answer(r)
    BY <1>6, <2>1 DEF Register!Answer, Waiting, Status
  <2> QED
    BY <2>2 DEF Register!Next
<1>7. CASE FetchFails(r)
  BY <1>6, <1>7 DEF FetchFails
<1>8. CASE Store(r) \/ StoreFails(r)
  <2>1. pc[r] = "store" /\ UNCHANGED <<doc, age, key>>
    BY <1>8 DEF Store, StoreFails
  <2>2. found[r] \in Register!Recent(key[r])
    BY <2>1, AnswersRecent
  <2>3. \/ pc' = [pc EXCEPT ![r] = "idle"] /\ answer' = [answer EXCEPT ![r] = found[r]]
        \/ UNCHANGED <<pc, answer>>
    BY <1>8 DEF Store, StoreFails
  <2>4. CASE UNCHANGED <<pc, answer>>
    BY <1>2, <2>1, <2>4 DEF Waiting
  <2> QED
    BY <1>6, <2>1, <2>2, <2>3, <2>4
<1> QED
  BY <1>3, <1>4, <1>5, <1>7, <1>8 DEF Validate, Finish

(* The middleware of the two services, their cache and Firestore implement *)
(* one register: each request is answered once, for its own key, and with  *)
(* nothing that is older than the expiry plus the delay of a request.      *)
THEOREM AnswersAsRegisterHolds == Spec => AnswersAsRegister
<1>1. Init => Register!Init
  <2> SUFFICES ASSUME Init PROVE Register!Init
    OBVIOUS
  <2>1. Status \in [ApiKeys -> Statuses]
    BY StatusOfType DEF Init, Status
  <2>2. Waiting = {}
    BY DEF Init, Waiting
  <2>3. age = [k \in ApiKeys |-> [st \in Statuses |->
                  IF st = Status[k] THEN 0 ELSE MaxAge + 1]]
    BY DEF Init, Status
  <2> QED
    BY <2>1, <2>2, <2>3 DEF Init, Register!Init, Status, Waiting
<1>2. IInv /\ [Next]_vars => [Register!Next]_(Register!registerVars)
  <2> SUFFICES ASSUME IInv, [Next]_vars
               PROVE  Register!Next \/ UNCHANGED <<Status, age, Waiting, key, answer>>
    BY DEF Register!registerVars, Status, Waiting
  <2>1. TypeOK
    BY DEF IInv
  <2>2. CASE FeedApiValidate \/ ActionsValidate
    BY <2>2, RequestStep DEF FeedApiValidate, ActionsValidate, Requests
  <2>3. ASSUME NEW k \in ApiKeys, DocChanges(k)
        PROVE  Register!Next
    <3>1. PICK d \in Docs : doc' = [doc EXCEPT ![k] = d]
      BY <2>3 DEF DocChanges
    <3>2. StatusOf(d) \in Statuses /\ doc'[k] = d
      BY <2>1, <3>1, StatusOfType DEF TypeOK
    <3>3. Status' = [Status EXCEPT ![k] = StatusOf(d)]
      BY <2>1, <3>1 DEF TypeOK, Status
    <3>4. age' = [age EXCEPT ![k][StatusOf(d)] = 0] /\ UNCHANGED <<Waiting, key, answer>>
      BY <2>3, <3>2 DEF DocChanges, reqVars, Waiting
    <3>5. Register!Change(k)
      BY <3>2, <3>3, <3>4 DEF Register!Change, Status, Waiting
    <3> QED
      BY <3>5 DEF Register!Next
  <2>4. ASSUME NEW k \in ApiKeys, Evict(k)
        PROVE  UNCHANGED <<Status, age, Waiting, key, answer>>
    BY <2>4 DEF Evict, reqVars, Status, Waiting
  <2>5. CASE ClockStep
    <3>1. UNCHANGED <<Status, Waiting, key, answer>>
      BY <2>5 DEF ClockStep, Status, Waiting
    <3>2. age' = [k \in ApiKeys |-> [st \in Statuses |->
                    IF st = Status[k] THEN 0
                    ELSE IF age[k][st] <= MaxAge THEN age[k][st] + 1 ELSE age[k][st]]]
      BY <2>5 DEF ClockStep, Status
    <3>3. Register!Tick
      BY <3>1, <3>2 DEF Register!Tick, Status, Waiting
    <3> QED
      BY <3>3 DEF Register!Next
  <2>6. CASE UNCHANGED vars
    BY <2>6 DEF vars, reqVars, Status, Waiting
  <2> QED
    BY <2>2, <2>3, <2>4, <2>5, <2>6 DEF Next
<1> QED
  BY <1>1, <1>2, Invariance, PTL DEF Spec, Register!Spec, AnswersAsRegister

-----------------------------------------------------------------------------
(* How the cache comes to agree with the documents: what is left of        *)
(* EventuallyConsistent without the fairness of the clock.                 *)

(* All statuses that are not true of k have been wrong for long enough.    *)
Settled(k) == \A st \in Statuses \ {StatusOf(doc[k])} : age[k][st] > MaxAge

(* Time makes no status young that is not true, and nothing else but a     *)
(* change of the document does.                                            *)
LEMMA SettledStep ==
  ASSUME IInv, [Next]_vars, NEW k \in ApiKeys, Settled(k),
         StatusOf(doc'[k]) = StatusOf(doc[k])
  PROVE  Settled(k)'
<1>1. TypeOK /\ TrueNow
  BY DEF IInv
<1>2. CASE age' = age
  BY <1>2 DEF Settled
<1>3. CASE ClockStep
  <2>1. ASSUME NEW st \in Statuses, st # StatusOf(doc[k])
        PROVE  age'[k][st] = age[k][st]
    <3>1. age[k][st] \in Nat /\ age[k][st] > MaxAge
      BY <1>1, <2>1, BoundsAreNat DEF Settled, TypeOK, Ages
    <3> QED
      BY <1>3, <2>1, <3>1, BoundsAreNat DEF ClockStep
  <2> QED
    BY <2>1 DEF Settled
<1>4. ASSUME NEW j \in ApiKeys, DocChanges(j)
      PROVE  Settled(k)'
  <2>1. CASE j = k
    BY <1>1, <1>4, <2>1 DEF DocChanges, Settled, TypeOK
  <2>2. CASE j # k
    BY <1>1, <1>4, <2>2 DEF DocChanges, Settled, TypeOK
  <2> QED
    BY <2>1, <2>2
<1>5. ASSUME NEW r \in Requests, Validate(r)
      PROVE  age' = age
  BY <1>5 DEF Validate, Finish, Fetch, FetchFails, Store, StoreFails, Hit, Miss
<1>6. ASSUME NEW j \in ApiKeys, Evict(j)
      PROVE  age' = age
  BY <1>6 DEF Evict
<1> QED
  BY <1>2, <1>3, <1>4, <1>5, <1>6 DEF Next, FeedApiValidate, ActionsValidate, Requests, vars

(* A document that has not changed for the expiry and the delay of a       *)
(* request is what the cache says, if it says anything, and stays so until *)
(* it changes: neither a slow request of either service nor a repeated Set *)
(* brings back what was true before.                                       *)
THEOREM SettledAgrees ==
  Spec => /\ [](\A k \in ApiKeys : Settled(k) => cache[k] \in {"miss", StatusOf(doc[k])})
          /\ [][\A k \in ApiKeys : Settled(k) /\ StatusOf(doc'[k]) = StatusOf(doc[k])
                                      => Settled(k)']_vars
<1>1. IInv => \A k \in ApiKeys : Settled(k) => cache[k] \in {"miss", StatusOf(doc[k])}
  <2> SUFFICES ASSUME IInv, NEW k \in ApiKeys, Settled(k), cache[k] # "miss"
               PROVE  cache[k] = StatusOf(doc[k])
    OBVIOUS
  <2>1. cache[k] \in Statuses /\ age[k][cache[k]] \in Nat /\ ttl[k] \in Nat
    BY BoundsAreNat DEF IInv, TypeOK, Entries, Ages
  <2>2. age[k][cache[k]] <= MaxAge
    BY <2>1, BoundsAreNat DEF IInv, EntriesAge
  <2> QED
    BY <2>1, <2>2, BoundsAreNat DEF Settled
<1>2. IInv /\ [Next]_vars =>
        [\A k \in ApiKeys : Settled(k) /\ StatusOf(doc'[k]) = StatusOf(doc[k]) => Settled(k)']_vars
  BY SettledStep
<1> QED
  BY <1>1, <1>2, Invariance, PTL DEF Spec
=============================================================================
