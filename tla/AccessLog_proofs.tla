-------------------------- MODULE AccessLog_proofs --------------------------
(***************************************************************************)
(* Proofs about AccessLog, for any sets of views, news, API keys and sync  *)
(* loops and any periods: the inductive invariant IInv, the safety         *)
(* properties it gives, and that AccessLog implements AccessCounting.      *)
(***************************************************************************)
EXTENDS AccessLog, TLAPS

-----------------------------------------------------------------------------
(* Types.                                                                  *)

(* What a pass reads out of a key is what DetailHandler wrote into it.     *)
LEMMA KeyParts ==
  ASSUME NEW n, NEW u
  PROVE  /\ ValidKey(DetailKey(n, u))
         /\ NewsIDIn(DetailKey(n, u)) = n
         /\ ApiKeyIn(DetailKey(n, u)) = u
  BY DEF ValidKey, DetailKey, NewsIDIn, ApiKeyIn, TrimPrefix

(* The Redis key of a view is a key, and names its news and API key.       *)
LEMMA KeyType ==
  ASSUME NEW v \in Views
  PROVE  /\ KeyOf(v) \in Keys
         /\ NewsIDIn(KeyOf(v)) = NewsOf[v]
         /\ ApiKeyIn(KeyOf(v)) = ApiKeyOf[v]
  BY KeyParts, DataAssumption DEF KeyOf, Keys

(* What is read out of a key is a text.                                    *)
LEMMA KeyTexts ==
  ASSUME NEW k \in Keys
  PROVE  NewsIDIn(k) \in Texts /\ ApiKeyIn(k) \in Texts
  BY KeyParts DEF Keys, Texts

(* The accesses of items are accesses.                                     *)
LEMMA AccessesType ==
  ASSUME NEW items \in SUBSET Item
  PROVE  AccessesOf(items) \in SUBSET Access
  BY DEF AccessesOf, Item

(* What GETDEL of a counter brings to the groups, with its news id.        *)
Taken(k) == {NewsIDIn(k)} \X redisLog[k]

(* The groups with what was read of a counter are groups.                  *)
LEMMA GroupedType ==
  ASSUME TypeOK, NEW s \in Syncers, NEW k \in Keys
  PROVE  /\ Grouped(s, k, redisLog[k]) \in [Texts -> SUBSET Item]
         /\ \A u \in Texts : Grouped(s, k, redisLog[k])[u] =
              IF u = ApiKeyIn(k) THEN groupedLogs[s][u] \union Taken(k) ELSE groupedLogs[s][u]
<1>1. NewsIDIn(k) \in Texts /\ ApiKeyIn(k) \in Texts
  BY KeyTexts
<1>2. Taken(k) \in SUBSET Item
  BY <1>1 DEF TypeOK, Item, Taken
<1>3. Grouped(s, k, redisLog[k]) = [groupedLogs[s] EXCEPT ![ApiKeyIn(k)] = @ \union Taken(k)]
  BY DEF Grouped, Taken
<1>4. groupedLogs[s] \in [Texts -> SUBSET Item]
  BY DEF TypeOK
<1> QED
  BY <1>1, <1>2, <1>3, <1>4

(* What a GETDEL does to the groups.                                       *)
LEMMA TakeCountEffect ==
  ASSUME TypeOK, NEW s \in Syncers, NEW k \in Keys, TakeCount(s, k)
  PROVE  \A s1 \in Syncers, u \in Texts :
           groupedLogs'[s1][u] = IF s1 = s /\ u = ApiKeyIn(k) THEN groupedLogs[s1][u] \union Taken(k)
                                 ELSE groupedLogs[s1][u]
<1>1. groupedLogs' = [groupedLogs EXCEPT ![s] = Grouped(s, k, redisLog[k])]
  BY DEF TakeCount, MovePast
<1>2. groupedLogs \in [Syncers -> [Texts -> SUBSET Item]]
  BY DEF TypeOK
<1>3. \A u \in Texts : Grouped(s, k, redisLog[k])[u] =
        IF u = ApiKeyIn(k) THEN groupedLogs[s][u] \union Taken(k) ELSE groupedLogs[s][u]
  BY GroupedType
<1>4. groupedLogs'[s] = Grouped(s, k, redisLog[k])
  BY <1>1, <1>2
<1>5. \A s1 \in Syncers \ {s} : groupedLogs'[s1] = groupedLogs[s1]
  BY <1>1, <1>2
<1> QED
  BY <1>3, <1>4, <1>5

(* No group is a function from texts to sets of items.                     *)
LEMMA NoGroupsType == NoGroups \in [Texts -> SUBSET Item]
  BY DEF NoGroups

(* The steps of a sync loop keep the types.                                *)
LEMMA SyncTypeStep ==
  ASSUME TypeOK, NEW s \in Syncers, SyncStep(s)
  PROVE  TypeOK'
<1> USE DEF TypeOK, viewVars, syncVars, timeVars
<1>1. CASE ListKeys(s)
  <2>1. {k \in Keys : redisLog[k] # {}} \in SUBSET Keys
    OBVIOUS
  <2> QED
    BY <1>1, <2>1, NoGroupsType DEF ListKeys
<1>2. CASE SyncFails(s)
  BY <1>2 DEF SyncFails
<1>3. ASSUME NEW k \in Keys, TakeCount(s, k)
      PROVE  TypeOK'
  BY <1>3, GroupedType DEF TakeCount, MovePast
<1>4. ASSUME NEW k \in Keys, SkipKey(s, k)
      PROVE  TypeOK'
  BY <1>4 DEF SkipKey, MovePast
<1>5. ASSUME NEW k \in Keys, LoseCount(s, k)
      PROVE  TypeOK'
  BY <1>5 DEF LoseCount
<1>6. ASSUME NEW u \in Texts, Upload(s, u)
      PROVE  TypeOK'
  <2>1. <<u, now>> \in ObjectName
    BY DEF ObjectName
  <2>2. groupedLogs[s][u] \in SUBSET Item
    OBVIOUS
  <2>3. bucket' \in [ObjectName -> SUBSET Item]
    BY <1>6, <2>1, <2>2 DEF Upload
  <2>4. /\ groupedLogs' \in [Syncers -> [Texts -> SUBSET Item]]
        /\ pc' \in [Syncers -> {"idle", "collect", "upload", "down"}]
    BY <1>6 DEF Upload, GroupDone
  <2>5. hit' \in SUBSET Access
    BY <1>6, <2>1, AccessesType DEF Upload
  <2> QED
    BY <1>6, <2>3, <2>4, <2>5 DEF Upload
<1>7. ASSUME NEW u \in Texts, UploadFails(s, u)
      PROVE  TypeOK'
  <2>1. /\ groupedLogs' \in [Syncers -> [Texts -> SUBSET Item]]
        /\ pc' \in [Syncers -> {"idle", "collect", "upload", "down"}]
    BY <1>7 DEF UploadFails, GroupDone
  <2>2. hit' \in SUBSET Access
    BY <1>7, AccessesType DEF UploadFails
  <2> QED
    BY <1>7, <2>1, <2>2 DEF UploadFails
<1> QED
  BY <1>1, <1>2, <1>3, <1>4, <1>5, <1>6, <1>7 DEF SyncStep

(* The attempt that is due when a goroutine counts is an attempt.          *)
LEMMA AttemptType ==
  ASSUME TypeOK, UnfinishedHasAttempts, NEW v \in Views, stage[v] = "counting"
  PROVE  /\ attempts[v] + 1 \in 1 .. MaxAttempts
         /\ <<v, attempts[v] + 1>> \in Access
  BY BoundAssumption DEF TypeOK, UnfinishedHasAttempts, Access

(* The steps of the views keep the types.                                  *)
LEMMA ViewTypeStep ==
  ASSUME TypeOK, UnfinishedHasAttempts, ServeViews
  PROVE  TypeOK'
<1> USE DEF TypeOK, viewVars, syncVars, timeVars
<1> PICK v \in Views : ServeDetail(v) \/ Increment(v) \/ IncrementFails(v)
  BY DEF ServeViews
<1>1. CASE ServeDetail(v)
  BY <1>1 DEF ServeDetail
<1>2. CASE Increment(v)
  <2>1. attempts[v] + 1 \in 0 .. MaxAttempts /\ <<v, attempts[v] + 1>> \in Access
    BY <1>2, AttemptType, BoundAssumption DEF Increment
  <2>2. /\ attempts' \in [Views -> 0 .. MaxAttempts]
        /\ stage' \in [Views -> {"new", "counting", "done"}]
    BY <1>2, <2>1 DEF Increment, AfterAttempt
  <2>3. redisLog' \in [Keys -> SUBSET Access]
    BY <1>2, <2>1 DEF Increment
  <2> QED
    BY <1>2, <2>1, <2>2, <2>3 DEF Increment
<1>3. CASE IncrementFails(v)
  <2>1. attempts[v] + 1 \in 0 .. MaxAttempts
    BY <1>3, BoundAssumption DEF IncrementFails, UnfinishedHasAttempts
  <2> QED
    BY <1>3, <2>1 DEF IncrementFails, AfterAttempt
<1> QED
  BY <1>1, <1>2, <1>3

(* Every step keeps the types.                                             *)
LEMMA TypeStep == TypeOK /\ UnfinishedHasAttempts /\ [Next]_vars => TypeOK'
<1> SUFFICES ASSUME TypeOK, UnfinishedHasAttempts, [Next]_vars
             PROVE  TypeOK'
  OBVIOUS
<1>1. CASE ServeViews
  BY <1>1, ViewTypeStep
<1>2. CASE FeedApiSync \/ PusherSync
  BY <1>2, SyncTypeStep, ProcessAssumption DEF FeedApiSync, PusherSync
<1>3. CASE ClockStep
  <2>1. now' \in Seconds
    BY <1>3, BoundAssumption DEF ClockStep, TypeOK, Seconds
  <2>2. ASSUME NEW s \in Syncers
        PROVE  (IF pc[s] = "down" THEN left[s]
                ELSE IF left[s] = 1 THEN Period[s] ELSE left[s] - 1) \in Nat \ {0}
    <3>1. left[s] \in Nat \ {0} /\ Period[s] \in Nat \ {0}
      BY ProcessAssumption DEF TypeOK
    <3> QED
      BY <3>1
  <2> QED
    BY <1>3, <2>1, <2>2 DEF ClockStep, TypeOK, viewVars, syncVars
<1>4. ASSUME NEW s \in Syncers, Crash(s)
      PROVE  TypeOK'
  <2>1. UNION {groupedLogs[s][u] : u \in Texts} \in SUBSET Item
    BY DEF TypeOK
  <2>2. hit' \in SUBSET Access
    BY <1>4, <2>1, AccessesType DEF Crash, TypeOK
  <2> QED
    BY <1>4, <2>2, NoGroupsType DEF Crash, TypeOK
<1>5. ASSUME NEW s \in Syncers, Restart(s)
      PROVE  TypeOK'
  BY <1>5, ProcessAssumption DEF Restart, TypeOK, viewVars
<1>6. CASE UNCHANGED vars
  BY <1>6 DEF vars, viewVars, syncVars, timeVars, TypeOK
<1> QED
  BY <1>1, <1>2, <1>3, <1>4, <1>5, <1>6 DEF Next

-----------------------------------------------------------------------------
(* What a step does to one access.                                         *)

(* The access stays where it is.                                           *)
Stays(a) ==
    /\ InRedis(a)' <=> InRedis(a)
    /\ InMemory(a)' <=> InMemory(a)
    /\ InBucket(a)' <=> InBucket(a)
    /\ a \in executed' <=> a \in executed

IsCounted(a) ==
    /\ a \notin executed /\ a \in executed'
    /\ InRedis(a)' /\ ~InMemory(a)' /\ ~InBucket(a)'

IsCollected(a) ==
    /\ InRedis(a) /\ a \in executed'
    /\ ~InRedis(a)' /\ InMemory(a)' /\ ~InBucket(a)'

IsArchived(a) ==
    /\ InMemory(a) /\ a \in executed'
    /\ ~InRedis(a)' /\ ~InMemory(a)' /\ InBucket(a)'

(* The access disappears, by a fault that hits it.                         *)
IsLost(a) ==
    /\ InRedis(a) \/ InMemory(a) \/ InBucket(a)
    /\ a \in executed'
    /\ ~InRedis(a)' /\ ~InMemory(a)' /\ ~InBucket(a)'
    /\ a \in hit'

Moves(a) == Stays(a) \/ IsCounted(a) \/ IsCollected(a) \/ IsArchived(a) \/ IsLost(a)

(* A step that leaves the three places alone leaves every access in place. *)
LEMMA QuietMoves ==
  ASSUME UNCHANGED <<redisLog, groupedLogs, bucket, executed>>, NEW a \in Access
  PROVE  Moves(a)
  BY DEF Moves, Stays, InRedis, InMemory, InBucket

(* An INCR puts a new access into one counter.                             *)
LEMMA IncrementMoves ==
  ASSUME IInv, NEW v \in Views, Increment(v), NEW a \in Access
  PROVE  Moves(a)
<1> DEFINE new == <<v, attempts[v] + 1>>
<1>1. stage[v] = "counting" /\ new \in Access /\ attempts[v] \in Nat
  BY AttemptType, BoundAssumption DEF Increment, IInv, TypeOK
<1>2. new \notin executed
  BY <1>1 DEF IInv, ExecutedWasSent
<1>3. /\ redisLog' = [redisLog EXCEPT ![KeyOf(v)] = @ \union {new}]
      /\ executed' = executed \union {new}
      /\ groupedLogs' = groupedLogs /\ bucket' = bucket
  BY DEF Increment, syncVars
<1>4. (InMemory(a)' <=> InMemory(a)) /\ (InBucket(a)' <=> InBucket(a))
  BY <1>3 DEF InMemory, InBucket
<1>5. KeyOf(v) \in Keys /\ redisLog \in [Keys -> SUBSET Access]
  BY KeyType DEF IInv, TypeOK
<1> HIDE DEF new
<1>6. InRedis(a)' <=> InRedis(a) \/ a = new
  BY <1>3, <1>5 DEF InRedis
<1>7. CASE a = new
  <2>1. ~InMemory(a) /\ ~InBucket(a)
    BY <1>1, <1>2, <1>7 DEF IInv, HeldWasExecuted
  <2> QED
    BY <1>2, <1>3, <1>4, <1>6, <1>7, <2>1 DEF Moves, IsCounted
<1>8. CASE a # new
  BY <1>3, <1>4, <1>6, <1>8 DEF Moves, Stays
<1> QED
  BY <1>7, <1>8

(* GETDEL moves the accesses of one counter into the memory of the pass.   *)
LEMMA TakeCountMoves ==
  ASSUME IInv, NEW s \in Syncers, NEW k \in Keys, TakeCount(s, k), NEW a \in Access
  PROVE  Moves(a)
<1>1. /\ redisLog' = [redisLog EXCEPT ![k] = {}]
      /\ groupedLogs' = [groupedLogs EXCEPT ![s] = Grouped(s, k, redisLog[k])]
      /\ bucket' = bucket /\ executed' = executed
  BY DEF TakeCount, MovePast
<1>2. /\ NewsIDIn(k) \in Texts /\ ApiKeyIn(k) \in Texts
      /\ redisLog \in [Keys -> SUBSET Access]
      /\ groupedLogs \in [Syncers -> [Texts -> SUBSET Item]]
  BY KeyTexts DEF IInv, TypeOK
<1>3. InBucket(a)' <=> InBucket(a)
  BY <1>1 DEF InBucket
<1>4. \A s1 \in Syncers, u \in Texts :
        groupedLogs'[s1][u] = IF s1 = s /\ u = ApiKeyIn(k) THEN groupedLogs[s1][u] \union Taken(k)
                              ELSE groupedLogs[s1][u]
  <2>1. TypeOK
    BY DEF IInv
  <2> QED
    BY <2>1, TakeCountEffect
<1>5. InMemory(a)' <=> InMemory(a) \/ a \in redisLog[k]
  <2>1. \A n \in Texts : <<n, a>> \in Taken(k) <=> n = NewsIDIn(k) /\ a \in redisLog[k]
    BY DEF Taken
  <2> QED
    BY <1>2, <1>4, <2>1 DEF InMemory
<1>6. CASE a \in redisLog[k]
  <2>1. InRedis(a) /\ a \in executed /\ ~InBucket(a)
    BY <1>6 DEF InRedis, IInv, HeldWasExecuted, NoDoubleReport
  <2>2. ~InRedis(a)'
    <3>1. \A k1 \in Keys : a \in redisLog[k1] => k1 = k
      BY <1>6 DEF IInv, Attribution
    <3> QED
      BY <1>1, <1>2, <3>1 DEF InRedis
  <2> QED
    BY <1>1, <1>3, <1>5, <1>6, <2>1, <2>2 DEF Moves, IsCollected
<1>7. CASE a \notin redisLog[k]
  <2>1. InRedis(a)' <=> InRedis(a)
    BY <1>1, <1>2, <1>7 DEF InRedis
  <2> QED
    BY <1>1, <1>3, <1>5, <1>7, <2>1 DEF Moves, Stays
<1> QED
  BY <1>6, <1>7

(* A lost reply of GETDEL loses the accesses of one counter.               *)
LEMMA LoseCountMoves ==
  ASSUME IInv, NEW s \in Syncers, NEW k \in Keys, LoseCount(s, k), NEW a \in Access
  PROVE  Moves(a)
<1>1. /\ redisLog' = [redisLog EXCEPT ![k] = {}]
      /\ groupedLogs' = groupedLogs /\ bucket' = bucket /\ executed' = executed
      /\ redisLog[k] \subseteq hit'
  BY DEF LoseCount, syncVars
<1>2. redisLog \in [Keys -> SUBSET Access]
  BY DEF IInv, TypeOK
<1>3. (InMemory(a)' <=> InMemory(a)) /\ (InBucket(a)' <=> InBucket(a))
  BY <1>1 DEF InMemory, InBucket
<1>4. CASE a \in redisLog[k]
  <2>1. InRedis(a) /\ a \in executed /\ ~InMemory(a) /\ ~InBucket(a)
    BY <1>4 DEF InRedis, IInv, HeldWasExecuted, NoDoubleReport
  <2>2. \A k1 \in Keys : a \in redisLog[k1] => k1 = k
    BY <1>4 DEF IInv, Attribution
  <2>3. ~InRedis(a)'
    BY <1>1, <1>2, <2>2 DEF InRedis
  <2> QED
    BY <1>1, <1>3, <1>4, <2>1, <2>3 DEF Moves, IsLost
<1>5. CASE a \notin redisLog[k]
  <2>1. InRedis(a)' <=> InRedis(a)
    BY <1>1, <1>2, <1>5 DEF InRedis
  <2> QED
    BY <1>1, <1>3, <2>1 DEF Moves, Stays
<1> QED
  BY <1>4, <1>5

(* An access stands in at most one group, in one entry.                    *)
LEMMA OneGroup ==
  ASSUME IInv, NEW a \in Access,
         NEW s1 \in Syncers, NEW u1 \in Texts, NEW m1 \in Texts,
         NEW s2 \in Syncers, NEW u2 \in Texts, NEW m2 \in Texts,
         <<m1, a>> \in groupedLogs[s1][u1], <<m2, a>> \in groupedLogs[s2][u2]
  PROVE  s1 = s2 /\ u1 = u2 /\ m1 = m2
<1>1. /\ NewsOf[a[1]] = m1 /\ ApiKeyOf[a[1]] = u1
      /\ NewsOf[a[1]] = m2 /\ ApiKeyOf[a[1]] = u2
  <2>1. \A s \in Syncers, u \in Texts, m \in Texts :
          <<m, a>> \in groupedLogs[s][u] =>
            NewsOf[<<m, a>>[2][1]] = <<m, a>>[1] /\ ApiKeyOf[<<m, a>>[2][1]] = u
    BY DEF IInv, Attribution
  <2>2. \A m \in Texts : <<m, a>>[2] = a /\ <<m, a>>[1] = m
    OBVIOUS
  <2> QED
    BY <2>1, <2>2
<1>2. u1 = u2 /\ m1 = m2
  BY <1>1
<1>3. s1 = s2
  BY <1>2 DEF IInv, NoDoubleReport
<1> QED
  BY <1>2, <1>3

(* An access stands in at most one object, in one entry.                   *)
LEMMA OneObject ==
  ASSUME IInv, NEW a \in Access,
         NEW o1 \in ObjectName, NEW m1 \in Texts, <<m1, a>> \in bucket[o1],
         NEW o2 \in ObjectName, NEW m2 \in Texts, <<m2, a>> \in bucket[o2]
  PROVE  o1 = o2 /\ m1 = m2
<1>1. NewsOf[a[1]] = m1 /\ NewsOf[a[1]] = m2
  <2>1. \A o \in ObjectName, m \in Texts :
          <<m, a>> \in bucket[o] => NewsOf[<<m, a>>[2][1]] = <<m, a>>[1]
    BY DEF IInv, Attribution
  <2>2. \A m \in Texts : <<m, a>>[2] = a /\ <<m, a>>[1] = m
    OBVIOUS
  <2> QED
    BY <2>1, <2>2
<1>2. m1 = m2
  BY <1>1
<1>3. o1 = o2
  BY <1>2 DEF IInv, NoDoubleReport
<1> QED
  BY <1>2, <1>3

(* When the group of u leaves the memory of s, its accesses leave memory,  *)
(* and no others do.                                                       *)
LEMMA GroupLeaves ==
  ASSUME IInv, NEW s \in Syncers, NEW u \in Texts, GroupDone(s, u), NEW a \in Access
  PROVE  InMemory(a)' <=> InMemory(a) /\ ~\E m \in Texts : <<m, a>> \in groupedLogs[s][u]
<1>1. groupedLogs \in [Syncers -> [Texts -> SUBSET Item]]
  BY DEF IInv, TypeOK
<1>2. \A s1 \in Syncers, u1 \in Texts :
        groupedLogs'[s1][u1] = IF s1 = s /\ u1 = u THEN {} ELSE groupedLogs[s1][u1]
  BY <1>1 DEF GroupDone
<1>3. CASE \E m \in Texts : <<m, a>> \in groupedLogs[s][u]
  <2>1. \A s1 \in Syncers, u1 \in Texts, m1 \in Texts :
          <<m1, a>> \in groupedLogs[s1][u1] => s1 = s /\ u1 = u
    BY <1>3, OneGroup
  <2> QED
    BY <1>2, <1>3, <2>1 DEF InMemory
<1>4. CASE ~\E m \in Texts : <<m, a>> \in groupedLogs[s][u]
  BY <1>2, <1>4 DEF InMemory
<1> QED
  BY <1>3, <1>4

(* PutObject moves the accesses of a group into an object; those of the    *)
(* object it replaces are lost.                                            *)
LEMMA UploadMoves ==
  ASSUME IInv, NEW s \in Syncers, NEW u \in Texts, Upload(s, u), NEW a \in Access
  PROVE  Moves(a)
<1> DEFINE name == <<u, now>>
           inGroup == \E m \in Texts : <<m, a>> \in groupedLogs[s][u]
           inOld == \E m \in Texts : <<m, a>> \in bucket[name]
<1>1. /\ bucket' = [bucket EXCEPT ![name] = groupedLogs[s][u]]
      /\ redisLog' = redisLog /\ executed' = executed
      /\ AccessesOf(bucket[name]) \subseteq hit'
      /\ GroupDone(s, u)
  BY DEF Upload
<1>2. name \in ObjectName /\ bucket \in [ObjectName -> SUBSET Item]
  BY DEF IInv, TypeOK, ObjectName
<1>3. InRedis(a)' <=> InRedis(a)
  BY <1>1 DEF InRedis
<1>4. InMemory(a)' <=> InMemory(a) /\ ~inGroup
  BY <1>1, GroupLeaves
<1>5. inGroup => InMemory(a)
  BY DEF InMemory
<1>6. inOld => InBucket(a)
  BY <1>2 DEF InBucket
<1>7. InBucket(a)' <=> inGroup \/ \E o \in ObjectName \ {name}, m \in Texts : <<m, a>> \in bucket[o]
  <2> HIDE DEF name
  <2>1. \A o \in ObjectName : bucket'[o] = IF o = name THEN groupedLogs[s][u] ELSE bucket[o]
    BY <1>1, <1>2
  <2> QED
    BY <1>2, <2>1 DEF InBucket
<1>8. inOld => ~\E o \in ObjectName \ {name}, m \in Texts : <<m, a>> \in bucket[o]
  BY <1>2, OneObject
<1>9. (\E o \in ObjectName \ {name}, m \in Texts : <<m, a>> \in bucket[o]) => InBucket(a)
  BY DEF InBucket
<1>10. InBucket(a) => inOld \/ \E o \in ObjectName \ {name}, m \in Texts : <<m, a>> \in bucket[o]
  BY DEF InBucket
<1>11. inOld => a \in hit'
  BY <1>1 DEF AccessesOf
<1>12. /\ InMemory(a) => a \in executed /\ ~InRedis(a) /\ ~InBucket(a)
       /\ InBucket(a) => a \in executed /\ ~InRedis(a) /\ ~InMemory(a)
  BY DEF IInv, HeldWasExecuted, NoDoubleReport
<1> HIDE DEF inGroup, inOld
<1>13. CASE inGroup
  BY <1>1, <1>3, <1>4, <1>5, <1>7, <1>12, <1>13 DEF Moves, IsArchived
<1>14. CASE inOld /\ ~inGroup
  BY <1>1, <1>3, <1>4, <1>6, <1>7, <1>8, <1>11, <1>12, <1>14 DEF Moves, IsLost
<1>15. CASE ~inGroup /\ ~inOld
  BY <1>1, <1>3, <1>4, <1>7, <1>9, <1>10, <1>15 DEF Moves, Stays
<1> QED
  BY <1>13, <1>14, <1>15

(* A failed PutObject loses the accesses of a group.                       *)
LEMMA UploadFailsMoves ==
  ASSUME IInv, NEW s \in Syncers, NEW u \in Texts, UploadFails(s, u), NEW a \in Access
  PROVE  Moves(a)
<1>1. /\ redisLog' = redisLog /\ executed' = executed /\ bucket' = bucket
      /\ AccessesOf(groupedLogs[s][u]) \subseteq hit'
      /\ GroupDone(s, u)
  BY DEF UploadFails
<1>2. (InRedis(a)' <=> InRedis(a)) /\ (InBucket(a)' <=> InBucket(a))
  BY <1>1 DEF InRedis, InBucket
<1>3. /\ InMemory(a)' => InMemory(a)
      /\ InMemory(a) /\ ~InMemory(a)' => a \in hit'
  <2>1. InMemory(a)' <=> InMemory(a) /\ ~\E m \in Texts : <<m, a>> \in groupedLogs[s][u]
    BY <1>1, GroupLeaves
  <2>2. \A m : <<m, a>> \in groupedLogs[s][u] => a \in hit'
    BY <1>1 DEF AccessesOf
  <2> QED
    BY <2>1, <2>2
<1>4. InMemory(a) => a \in executed /\ ~InRedis(a) /\ ~InBucket(a)
  BY DEF IInv, HeldWasExecuted, NoDoubleReport
<1> QED
  BY <1>1, <1>2, <1>3, <1>4 DEF Moves, Stays, IsLost

(* A crash loses what the process had in memory.                           *)
LEMMA CrashMoves ==
  ASSUME IInv, NEW s \in Syncers, Crash(s), NEW a \in Access
  PROVE  Moves(a)
<1>1. /\ redisLog' = redisLog /\ executed' = executed /\ bucket' = bucket
      /\ AccessesOf(UNION {groupedLogs[s][u] : u \in Texts}) \subseteq hit'
      /\ groupedLogs' = [groupedLogs EXCEPT ![s] = NoGroups]
  BY DEF Crash
<1>2. (InRedis(a)' <=> InRedis(a)) /\ (InBucket(a)' <=> InBucket(a))
  BY <1>1 DEF InRedis, InBucket
<1>3. /\ InMemory(a)' => InMemory(a)
      /\ InMemory(a) /\ ~InMemory(a)' => a \in hit'
  <2>1. \A s1 \in Syncers, u1 \in Texts :
          groupedLogs'[s1][u1] = IF s1 = s THEN {} ELSE groupedLogs[s1][u1]
    BY <1>1 DEF IInv, TypeOK, NoGroups
  <2>2. \A u1 \in Texts, n1 \in Texts : <<n1, a>> \in groupedLogs[s][u1] => a \in hit'
    BY <1>1 DEF AccessesOf
  <2> QED
    BY <2>1, <2>2 DEF InMemory
<1>4. InMemory(a) => a \in executed /\ ~InRedis(a) /\ ~InBucket(a)
  BY DEF IInv, HeldWasExecuted, NoDoubleReport
<1> QED
  BY <1>1, <1>2, <1>3, <1>4 DEF Moves, Stays, IsLost

(* The steps of a sync loop move every access along its life cycle.        *)
LEMMA SyncMoves ==
  ASSUME IInv, NEW s \in Syncers, SyncStep(s), NEW a \in Access
  PROVE  Moves(a)
<1>0. groupedLogs \in [Syncers -> [Texts -> SUBSET Item]]
  BY DEF IInv, TypeOK
<1>1. CASE ListKeys(s)
  <2>1. groupedLogs' = groupedLogs
    BY <1>0, <1>1 DEF ListKeys, IInv, IdleHoldsNothing, Busy
  <2> QED
    BY <1>1, <2>1, QuietMoves DEF ListKeys
<1>2. CASE SyncFails(s)
  BY <1>2, QuietMoves DEF SyncFails, syncVars
<1>3. ASSUME NEW k \in Keys, TakeCount(s, k) \/ SkipKey(s, k) \/ LoseCount(s, k)
      PROVE  Moves(a)
  <2>1. CASE SkipKey(s, k)
    <3>1. groupedLogs' = groupedLogs
      BY <1>0, <2>1 DEF SkipKey, MovePast
    <3> QED
      BY <2>1, <3>1, QuietMoves DEF SkipKey
  <2> QED
    BY <1>3, <2>1, TakeCountMoves, LoseCountMoves
<1>4. ASSUME NEW u \in Texts, Upload(s, u) \/ UploadFails(s, u)
      PROVE  Moves(a)
  BY <1>4, UploadMoves, UploadFailsMoves
<1> QED
  BY <1>1, <1>2, <1>3, <1>4 DEF SyncStep

(* Every step moves every access along its life cycle, or leaves it.       *)
LEMMA AccessStep ==
  ASSUME IInv, [Next]_vars, NEW a \in Access
  PROVE  Moves(a)
<1>1. CASE ServeViews
  <2>1. PICK v \in Views : ServeDetail(v) \/ Increment(v) \/ IncrementFails(v)
    BY <1>1 DEF ServeViews
  <2>2. CASE ServeDetail(v) \/ IncrementFails(v)
    BY <2>2, QuietMoves DEF ServeDetail, IncrementFails, syncVars
  <2> QED
    BY <2>1, <2>2, IncrementMoves
<1>2. CASE FeedApiSync \/ PusherSync
  BY <1>2, SyncMoves, ProcessAssumption DEF FeedApiSync, PusherSync
<1>3. CASE ClockStep
  BY <1>3, QuietMoves DEF ClockStep, syncVars
<1>4. ASSUME NEW s \in Syncers, Crash(s)
      PROVE  Moves(a)
  BY <1>4, CrashMoves
<1>5. ASSUME NEW s \in Syncers, Restart(s)
      PROVE  Moves(a)
  BY <1>5, QuietMoves DEF Restart
<1>6. CASE UNCHANGED vars
  BY <1>6, QuietMoves DEF vars, syncVars
<1> QED
  BY <1>1, <1>2, <1>3, <1>4, <1>5, <1>6 DEF Next

(* What a fault has hit stays so.                                          *)
LEMMA HitGrows == [Next]_vars => hit \subseteq hit'
<1> USE DEF vars, viewVars, syncVars, timeVars
<1>1. ASSUME NEW s \in Syncers, SyncStep(s)
      PROVE  hit \subseteq hit'
  BY <1>1 DEF SyncStep, ListKeys, SyncFails, TakeCount, SkipKey, LoseCount, Upload, UploadFails
<1>2. ServeViews => hit' = hit
  BY DEF ServeViews, ServeDetail, Increment, IncrementFails
<1>3. ASSUME NEW s \in Syncers, Crash(s) \/ Restart(s)
      PROVE  hit \subseteq hit'
  BY <1>3 DEF Crash, Restart
<1> QED
  BY <1>1, <1>2, <1>3, ProcessAssumption DEF Next, FeedApiSync, PusherSync, ClockStep

(* What is held was executed, no access is in two kinds of places, and     *)
(* none is missing without a fault: the three follow from the moves.       *)
LEMMA PlacesStep ==
  ASSUME IInv, [Next]_vars
  PROVE  /\ HeldWasExecuted'
         /\ NothingLostWithoutFault'
         /\ \A a \in Access : InRedis(a)' => ~InMemory(a)' /\ ~InBucket(a)'
         /\ \A a \in Access : InMemory(a)' => ~InBucket(a)'
<1>1. \A a \in Access : Moves(a)
  BY AccessStep
<1>2. HeldWasExecuted'
  BY <1>1 DEF IInv, HeldWasExecuted, Moves, Stays, IsCounted, IsCollected, IsArchived, IsLost
<1>3. /\ \A a \in Access : InRedis(a)' => ~InMemory(a)' /\ ~InBucket(a)'
      /\ \A a \in Access : InMemory(a)' => ~InBucket(a)'
  BY <1>1 DEF IInv, NoDoubleReport, Moves, Stays, IsCounted, IsCollected, IsArchived, IsLost
<1>4. NothingLostWithoutFault'
  <2> SUFFICES ASSUME NEW a \in executed' \ hit'
               PROVE  InRedis(a)' \/ InMemory(a)' \/ InBucket(a)'
    BY DEF NothingLostWithoutFault
  <2>1. a \notin hit
    BY HitGrows
  <2>2. a \in Access
    BY TypeStep DEF IInv, TypeOK
  <2> QED
    BY <1>1, <2>1, <2>2
       DEF IInv, NothingLostWithoutFault, Moves, Stays, IsCounted, IsCollected, IsArchived, IsLost
<1> QED
  BY <1>2, <1>3, <1>4

-----------------------------------------------------------------------------
(* The other parts of the inductive invariant.                             *)

(* Attempts are left as long as a view is not done, and an INCR in Redis   *)
(* is one of those that were sent.                                         *)
LEMMA AttemptsStep ==
  ASSUME IInv, [Next]_vars
  PROVE  UnfinishedHasAttempts' /\ ExecutedWasSent'
<1> USE DEF IInv, TypeOK, UnfinishedHasAttempts, ExecutedWasSent, Access
<1>1. CASE ServeViews
  <2>1. PICK v \in Views : ServeDetail(v) \/ Increment(v) \/ IncrementFails(v)
    BY <1>1 DEF ServeViews
  <2>2. CASE ServeDetail(v)
    BY <2>2 DEF ServeDetail
  <2>3. ASSUME NEW replied \in BOOLEAN, AfterAttempt(v, replied), stage[v] = "counting"
        PROVE  /\ UnfinishedHasAttempts'
               /\ attempts' = [attempts EXCEPT ![v] = @ + 1]
    <3>0. attempts[v] \in Nat /\ MaxAttempts \in Nat /\ attempts[v] < MaxAttempts
      BY <2>3, BoundAssumption
    <3>1. attempts[v] + 1 \in Nat /\ (attempts[v] + 1 # MaxAttempts => attempts[v] + 1 < MaxAttempts)
      BY <3>0
    <3> QED
      BY <2>3, <3>1 DEF AfterAttempt
  <2>4. CASE Increment(v)
    <3>1. UnfinishedHasAttempts' /\ attempts' = [attempts EXCEPT ![v] = @ + 1]
      BY <2>3, <2>4 DEF Increment
    <3>2. ASSUME NEW a \in executed'
          PROVE  a[2] <= attempts'[a[1]]
      <4>1. CASE a = <<v, attempts[v] + 1>>
        BY <3>1, <4>1, BoundAssumption
      <4>2. CASE a # <<v, attempts[v] + 1>>
        <5>1. a \in executed
          BY <2>4, <4>2 DEF Increment
        <5>2. a[1] \in Views /\ a[2] \in Nat /\ a[2] <= attempts[a[1]]
          BY <5>1
        <5> QED
          BY <3>1, <5>2, BoundAssumption
      <4> QED
        BY <4>1, <4>2
    <3> QED
      BY <3>1, <3>2
  <2>5. CASE IncrementFails(v)
    <3>1. UnfinishedHasAttempts' /\ attempts' = [attempts EXCEPT ![v] = @ + 1]
      BY <2>3, <2>5 DEF IncrementFails
    <3>2. ASSUME NEW a \in executed
          PROVE  a[2] <= attempts'[a[1]]
      <4>1. a[1] \in Views /\ a[2] \in Nat /\ a[2] <= attempts[a[1]]
        OBVIOUS
      <4> QED
        BY <3>1, <4>1, BoundAssumption
    <3> QED
      BY <2>5, <3>1, <3>2 DEF IncrementFails
  <2> QED
    BY <2>1, <2>2, <2>4, <2>5
<1>2. ASSUME NEW s \in Syncers, SyncStep(s)
      PROVE  UNCHANGED <<viewVars, executed>>
  BY <1>2 DEF SyncStep, ListKeys, SyncFails, TakeCount, SkipKey, LoseCount, Upload, UploadFails
<1>3. ASSUME NEW s \in Syncers, Crash(s) \/ Restart(s)
      PROVE  UnfinishedHasAttempts' /\ ExecutedWasSent'
  BY <1>3 DEF Crash, Restart, viewVars
<1>4. CASE UNCHANGED <<viewVars, executed>>
  BY <1>4 DEF viewVars
<1>5. ClockStep => UNCHANGED <<viewVars, executed>>
  BY DEF ClockStep
<1>6. UNCHANGED vars => UNCHANGED <<viewVars, executed>>
  BY DEF vars
<1> QED
  BY <1>1, <1>2, <1>3, <1>4, <1>5, <1>6, ProcessAssumption DEF Next, FeedApiSync, PusherSync

(* A sync loop that waits for its tick, or is down, holds nothing.         *)
LEMMA IdleStep ==
  ASSUME IInv, [Next]_vars
  PROVE  IdleHoldsNothing'
<1> USE DEF IInv, TypeOK, IdleHoldsNothing, Busy
<1>1. ASSUME NEW s \in Syncers, SyncStep(s)
      PROVE  IdleHoldsNothing'
  <2>1. CASE ListKeys(s)
    BY <2>1 DEF ListKeys
  <2>2. CASE SyncFails(s)
    BY <2>2 DEF SyncFails, syncVars
  <2>3. ASSUME NEW k \in Keys, NEW groups, MovePast(s, k, groups)
        PROVE  IdleHoldsNothing'
    BY <2>3 DEF MovePast
  <2>4. ASSUME NEW u \in Texts, GroupDone(s, u)
        PROVE  IdleHoldsNothing'
    BY <2>4 DEF GroupDone
  <2>5. ASSUME NEW k \in Keys, LoseCount(s, k)
        PROVE  IdleHoldsNothing'
    BY <2>5 DEF LoseCount, syncVars
  <2> QED
    BY <1>1, <2>1, <2>2, <2>3, <2>4, <2>5 DEF SyncStep, TakeCount, SkipKey, Upload, UploadFails
<1>2. ASSUME NEW s \in Syncers, Crash(s)
      PROVE  IdleHoldsNothing'
  BY <1>2 DEF Crash
<1>3. ASSUME NEW s \in Syncers, Restart(s)
      PROVE  IdleHoldsNothing'
  BY <1>3 DEF Restart
<1>4. CASE UNCHANGED syncVars
  BY <1>4 DEF syncVars
<1>5. ServeViews => UNCHANGED syncVars
  BY DEF ServeViews, ServeDetail, Increment, IncrementFails
<1> QED
  BY <1>1, <1>2, <1>3, <1>4, <1>5, ProcessAssumption DEF Next, FeedApiSync, PusherSync, ClockStep, vars

(* Every access stays under the news id and the API key of its view.       *)
LEMMA AttributionStep ==
  ASSUME IInv, [Next]_vars
  PROVE  Attribution'
<1> USE DEF IInv, TypeOK, Attribution
<1>1. CASE ServeViews
  <2>1. PICK v \in Views : ServeDetail(v) \/ Increment(v) \/ IncrementFails(v)
    BY <1>1 DEF ServeViews
  <2>2. CASE Increment(v)
    <3> DEFINE new == <<v, attempts[v] + 1>>
    <3>1. KeyOf(v) \in Keys /\ new[1] = v
      BY KeyType
    <3>2. redisLog' = [redisLog EXCEPT ![KeyOf(v)] = @ \union {new}]
      BY <2>2 DEF Increment
    <3> HIDE DEF new
    <3>3. \A k \in Keys : \A a \in redisLog'[k] : KeyOf(a[1]) = k
      BY <3>1, <3>2
    <3> QED
      BY <2>2, <3>3 DEF Increment, syncVars
  <2>3. CASE ServeDetail(v) \/ IncrementFails(v)
    <3>1. UNCHANGED <<redisLog, groupedLogs, bucket>>
      BY <2>3 DEF ServeDetail, IncrementFails, syncVars
    <3> QED
      BY <3>1
  <2> QED
    BY <2>1, <2>2, <2>3
<1>2. ASSUME NEW s \in Syncers, SyncStep(s)
      PROVE  Attribution'
  <2>1. CASE ListKeys(s)
    BY <2>1 DEF ListKeys, NoGroups
  <2>2. CASE SyncFails(s)
    BY <2>2 DEF SyncFails, syncVars
  <2>3. ASSUME NEW k \in Keys, TakeCount(s, k)
        PROVE  Attribution'
    <3>1. ASSUME NEW i \in Taken(k)
          PROVE  NewsOf[i[2][1]] = i[1] /\ ApiKeyOf[i[2][1]] = ApiKeyIn(k)
      <4>1. i[1] = NewsIDIn(k) /\ i[2] \in redisLog[k]
        BY DEF Taken
      <4>2. i[2][1] \in Views /\ KeyOf(i[2][1]) = k
        BY <4>1 DEF Access
      <4> QED
        BY <4>1, <4>2, KeyType
    <3>2. \A s1 \in Syncers, u \in Texts :
            groupedLogs'[s1][u] = IF s1 = s /\ u = ApiKeyIn(k) THEN groupedLogs[s1][u] \union Taken(k)
                                  ELSE groupedLogs[s1][u]
      <4>1. TypeOK
        OBVIOUS
      <4> HIDE DEF TypeOK
      <4> QED
        BY <2>3, <4>1, TakeCountEffect
    <3>3. \A s1 \in Syncers, u \in Texts : \A i \in groupedLogs[s1][u] :
            NewsOf[i[2][1]] = i[1] /\ ApiKeyOf[i[2][1]] = u
      OBVIOUS
    <3>4. \A s1 \in Syncers, u \in Texts : \A i \in groupedLogs'[s1][u] :
            NewsOf[i[2][1]] = i[1] /\ ApiKeyOf[i[2][1]] = u
      <4> SUFFICES ASSUME NEW s1 \in Syncers, NEW u \in Texts, NEW i \in groupedLogs'[s1][u]
                   PROVE  NewsOf[i[2][1]] = i[1] /\ ApiKeyOf[i[2][1]] = u
        OBVIOUS
      <4>1. i \in groupedLogs[s1][u] \/ (u = ApiKeyIn(k) /\ i \in Taken(k))
        BY <3>2
      <4> QED
        BY <3>1, <3>3, <4>1
    <3>5. \A k1 \in Keys : \A a \in redisLog'[k1] : KeyOf(a[1]) = k1
      BY <2>3 DEF TakeCount
    <3> QED
      BY <2>3, <3>4, <3>5 DEF TakeCount
  <2>4. ASSUME NEW k \in Keys, SkipKey(s, k)
        PROVE  Attribution'
    BY <2>4 DEF SkipKey, MovePast
  <2>5. ASSUME NEW k \in Keys, LoseCount(s, k)
        PROVE  Attribution'
    BY <2>5 DEF LoseCount, syncVars
  <2>6. ASSUME NEW u \in Texts, GroupDone(s, u)
        PROVE  \A s1 \in Syncers, u1 \in Texts : \A i \in groupedLogs'[s1][u1] :
                 NewsOf[i[2][1]] = i[1] /\ ApiKeyOf[i[2][1]] = u1
    BY <2>6 DEF GroupDone
  <2>7. ASSUME NEW u \in Texts, Upload(s, u)
        PROVE  Attribution'
    <3>1. <<u, now>> \in ObjectName /\ <<u, now>>[1] = u
      BY DEF ObjectName
    <3>2. \A o \in ObjectName : \A i \in bucket'[o] :
            NewsOf[i[2][1]] = i[1] /\ ApiKeyOf[i[2][1]] = o[1]
      BY <2>7, <3>1 DEF Upload
    <3> QED
      BY <2>6, <2>7, <3>2 DEF Upload
  <2>8. ASSUME NEW u \in Texts, UploadFails(s, u)
        PROVE  Attribution'
    BY <2>6, <2>8 DEF UploadFails
  <2> QED
    BY <1>2, <2>1, <2>2, <2>3, <2>4, <2>5, <2>7, <2>8 DEF SyncStep
<1>3. ASSUME NEW s \in Syncers, Crash(s)
      PROVE  Attribution'
  BY <1>3 DEF Crash, NoGroups
<1>4. ASSUME NEW s \in Syncers, Restart(s)
      PROVE  Attribution'
  BY <1>4 DEF Restart
<1>5. CASE ClockStep \/ UNCHANGED vars
  BY <1>5 DEF ClockStep, vars, syncVars
<1> QED
  BY <1>1, <1>2, <1>3, <1>4, <1>5, ProcessAssumption DEF Next, FeedApiSync, PusherSync

(* Two passes hold no access in common, and neither do two objects.        *)
Separate ==
    /\ \A s1, s2 \in Syncers, u \in Texts :
         s1 # s2 => groupedLogs[s1][u] \intersect groupedLogs[s2][u] = {}
    /\ \A o1, o2 \in ObjectName : o1 # o2 => bucket[o1] \intersect bucket[o2] = {}

(* An item of a group is an access in memory, one of an object is archived.*)
LEMMA ItemsHeld ==
  ASSUME IInv, NEW i
  PROVE  /\ \A s \in Syncers, u \in Texts : i \in groupedLogs[s][u] =>
              i[2] \in Access /\ i = <<i[1], i[2]>> /\ InMemory(i[2])
         /\ \A o \in ObjectName : i \in bucket[o] =>
              i[2] \in Access /\ i = <<i[1], i[2]>> /\ InBucket(i[2])
<1>1. ASSUME i \in Item
      PROVE  i[1] \in Texts /\ i[2] \in Access /\ i = <<i[1], i[2]>>
  BY <1>1 DEF Item
<1>2. ASSUME NEW s \in Syncers, NEW u \in Texts, i \in groupedLogs[s][u]
      PROVE  i[2] \in Access /\ i = <<i[1], i[2]>> /\ InMemory(i[2])
  <2>1. i \in Item
    BY <1>2 DEF IInv, TypeOK
  <2> QED
    BY <1>1, <1>2, <2>1 DEF InMemory
<1>3. ASSUME NEW o \in ObjectName, i \in bucket[o]
      PROVE  i[2] \in Access /\ i = <<i[1], i[2]>> /\ InBucket(i[2])
  <2>1. i \in Item
    BY <1>3 DEF IInv, TypeOK
  <2> QED
    BY <1>1, <1>3, <2>1 DEF InBucket
<1> QED
  BY <1>2, <1>3

(* Two passes and two objects stay separate: GETDEL takes a count from one *)
(* place only, and an object is made of what no other object has.          *)
LEMMA SeparateStep ==
  ASSUME IInv, [Next]_vars
  PROVE  Separate'
<1>0. Separate
  BY DEF IInv, NoDoubleReport, Separate
<1> USE <1>0 DEF IInv, TypeOK, Separate
<1>1. ASSUME NEW s \in Syncers, SyncStep(s)
      PROVE  Separate'
  <2>1. CASE ListKeys(s)
    BY <2>1 DEF ListKeys, NoGroups
  <2>2. CASE SyncFails(s)
    BY <2>2 DEF SyncFails, syncVars
  <2>3. ASSUME NEW k \in Keys, TakeCount(s, k)
        PROVE  Separate'
    <3>1. ASSUME NEW i \in Taken(k), NEW s1 \in Syncers, NEW u \in Texts
          PROVE  i \notin groupedLogs[s1][u]
      <4>1. i[2] \in redisLog[k]
        BY DEF Taken
      <4>2. i[2] \in Access /\ InRedis(i[2])
        BY <4>1 DEF InRedis
      <4> QED
        BY <4>2, ItemsHeld DEF NoDoubleReport
    <3>2. \A s1 \in Syncers, u \in Texts :
            groupedLogs'[s1][u] = IF s1 = s /\ u = ApiKeyIn(k) THEN groupedLogs[s1][u] \union Taken(k)
                                  ELSE groupedLogs[s1][u]
      <4>1. TypeOK
        OBVIOUS
      <4> HIDE DEF TypeOK
      <4> QED
        BY <2>3, <4>1, TakeCountEffect
    <3>3. \A s1 \in Syncers, u \in Texts :
            /\ groupedLogs'[s1][u] \subseteq groupedLogs[s1][u] \union Taken(k)
            /\ s1 # s => groupedLogs'[s1][u] = groupedLogs[s1][u]
      BY <3>2
    <3>4. \A s1, s2 \in Syncers, u \in Texts :
            s1 # s2 => groupedLogs'[s1][u] \intersect groupedLogs'[s2][u] = {}
      <4> SUFFICES ASSUME NEW s1 \in Syncers, NEW s2 \in Syncers, NEW u \in Texts, s1 # s2,
                          NEW i \in groupedLogs'[s1][u], i \in groupedLogs'[s2][u]
                   PROVE  FALSE
        OBVIOUS
      <4>1. groupedLogs[s1][u] \intersect groupedLogs[s2][u] = {}
        OBVIOUS
      <4>2. i \in groupedLogs[s1][u] \/ i \in groupedLogs[s2][u]
        BY <3>3
      <4>3. i \notin Taken(k)
        BY <3>1, <4>2
      <4> QED
        BY <3>3, <4>1, <4>3
    <3> QED
      BY <2>3, <3>4 DEF TakeCount
  <2>4. ASSUME NEW k \in Keys, SkipKey(s, k)
        PROVE  Separate'
    BY <2>4 DEF SkipKey, MovePast
  <2>5. ASSUME NEW k \in Keys, LoseCount(s, k)
        PROVE  Separate'
    BY <2>5 DEF LoseCount, syncVars
  <2>6. ASSUME NEW u \in Texts, GroupDone(s, u)
        PROVE  \A s1, s2 \in Syncers, u1 \in Texts :
                 s1 # s2 => groupedLogs'[s1][u1] \intersect groupedLogs'[s2][u1] = {}
    BY <2>6 DEF GroupDone
  <2>7. ASSUME NEW u \in Texts, Upload(s, u)
        PROVE  Separate'
    <3>1. \A i \in groupedLogs[s][u] : \A o \in ObjectName : i \notin bucket[o]
      BY ItemsHeld DEF NoDoubleReport
    <3>2. \A o1, o2 \in ObjectName : o1 # o2 => bucket'[o1] \intersect bucket'[o2] = {}
      BY <2>7, <3>1 DEF Upload
    <3> QED
      BY <2>6, <2>7, <3>2 DEF Upload
  <2>8. ASSUME NEW u \in Texts, UploadFails(s, u)
        PROVE  Separate'
    BY <2>6, <2>8 DEF UploadFails
  <2> QED
    BY <1>1, <2>1, <2>2, <2>3, <2>4, <2>5, <2>7, <2>8 DEF SyncStep
<1>2. ASSUME NEW s \in Syncers, Crash(s)
      PROVE  Separate'
  BY <1>2 DEF Crash, NoGroups
<1>3. CASE UNCHANGED <<groupedLogs, bucket>>
  BY <1>3
<1>4. ServeViews \/ ClockStep \/ UNCHANGED vars \/ (\E s \in Syncers : Restart(s)) =>
        UNCHANGED <<groupedLogs, bucket>>
  BY DEF Restart, ServeViews, ServeDetail, Increment, IncrementFails, ClockStep, vars, syncVars
<1> QED
  BY <1>1, <1>2, <1>3, <1>4, ProcessAssumption DEF Next, FeedApiSync, PusherSync

-----------------------------------------------------------------------------
(* The theorems.                                                           *)

(* The inductive invariant holds at the start.                             *)
LEMMA InitIInv == Init => IInv
<1> SUFFICES ASSUME Init
             PROVE  IInv
  OBVIOUS
<1>1. TypeOK
  BY NoGroupsType, ProcessAssumption, BoundAssumption DEF Init, TypeOK, Seconds
<1>2. \A a : ~InRedis(a) /\ ~InMemory(a) /\ ~InBucket(a)
  BY DEF Init, InRedis, InMemory, InBucket, NoGroups
<1>3. UnfinishedHasAttempts /\ ExecutedWasSent /\ HeldWasExecuted /\ IdleHoldsNothing
  BY <1>2, BoundAssumption
     DEF Init, UnfinishedHasAttempts, ExecutedWasSent, HeldWasExecuted, IdleHoldsNothing, Busy
<1>4. Attribution /\ NoDoubleReport /\ NothingLostWithoutFault
  BY <1>2 DEF Init, Attribution, NoDoubleReport, NothingLostWithoutFault, NoGroups
<1> QED
  BY <1>1, <1>3, <1>4 DEF IInv

(* Every step keeps the inductive invariant.                               *)
LEMMA NextIInv == IInv /\ [Next]_vars => IInv'
<1> SUFFICES ASSUME IInv, [Next]_vars
             PROVE  IInv'
  OBVIOUS
<1>1. TypeOK'
  BY TypeStep DEF IInv
<1>2. UnfinishedHasAttempts' /\ ExecutedWasSent'
  BY AttemptsStep
<1>3. HeldWasExecuted' /\ NothingLostWithoutFault'
  BY PlacesStep
<1>4. IdleHoldsNothing'
  BY IdleStep
<1>5. Attribution'
  BY AttributionStep
<1>6. NoDoubleReport'
  BY PlacesStep, SeparateStep DEF NoDoubleReport, Separate
<1> QED
  BY <1>1, <1>2, <1>3, <1>4, <1>5, <1>6 DEF IInv

(* The inductive invariant holds in every reachable state.                 *)
THEOREM Invariance == Spec => []IInv
  BY InitIInv, NextIInv, PTL DEF Spec

(* Every variable has its type in every reachable state.                   *)
THEOREM TypeCorrect == Spec => []TypeOK
<1>1. IInv => TypeOK
  BY DEF IInv
<1> QED
  BY <1>1, Invariance, PTL

(* The way of an access through the Redis key and the groups of a pass     *)
(* never puts it under a news or an API key other than its view's.         *)
THEOREM AttributionHolds == Spec => []Attribution
<1>1. IInv => Attribution
  BY DEF IInv
<1> QED
  BY <1>1, Invariance, PTL

(* Any number of sync loops over one Redis never report an access twice.   *)
THEOREM NoDoubleReportHolds == Spec => []NoDoubleReport
<1>1. IInv => NoDoubleReport
  BY DEF IInv
<1> QED
  BY <1>1, Invariance, PTL

(* An executed INCR disappears from counters, passes and objects only by   *)
(* its lost reply, failed upload, dead pass or replaced object.            *)
THEOREM NothingLostHolds == Spec => []NothingLostWithoutFault
<1>1. IInv => NothingLostWithoutFault
  BY DEF IInv
<1> QED
  BY <1>1, Invariance, PTL

(* The stages of the life cycle, said without CASE.                        *)
LEMMA StageValues ==
  ASSUME IInv, NEW a \in Access
  PROVE  /\ StageOf(a) \in Counting!Stages
         /\ a \notin executed => StageOf(a) = "none"
         /\ InRedis(a) => StageOf(a) = "counted"
         /\ InMemory(a) => StageOf(a) = "collected"
         /\ InBucket(a) => StageOf(a) = "archived"
         /\ a \in executed /\ ~InRedis(a) /\ ~InMemory(a) /\ ~InBucket(a) => StageOf(a) = "lost"
  BY DEF StageOf, Counting!Stages, IInv, HeldWasExecuted, NoDoubleReport

(* A step of the access log moves the stage of an access as AccessCounting *)
(* allows, or leaves it.                                                   *)
LEMMA StageStep ==
  ASSUME IInv, IInv', [Next]_vars, NEW a \in Access
  PROVE  \/ StageOf(a)' = StageOf(a)
         \/ <<StageOf(a), StageOf(a)'>> \in Counting!Moves
<1>1. Moves(a)
  BY AccessStep
<1>2. /\ a \notin executed => StageOf(a) = "none"
      /\ InRedis(a) => StageOf(a) = "counted"
      /\ InMemory(a) => StageOf(a) = "collected"
      /\ InBucket(a) => StageOf(a) = "archived"
      /\ a \in executed /\ ~InRedis(a) /\ ~InMemory(a) /\ ~InBucket(a) => StageOf(a) = "lost"
  BY StageValues
<1>3. /\ a \notin executed' => StageOf(a)' = "none"
      /\ InRedis(a)' => StageOf(a)' = "counted"
      /\ InMemory(a)' => StageOf(a)' = "collected"
      /\ InBucket(a)' => StageOf(a)' = "archived"
      /\ a \in executed' /\ ~InRedis(a)' /\ ~InMemory(a)' /\ ~InBucket(a)' => StageOf(a)' = "lost"
  BY DEF StageOf, IInv, HeldWasExecuted, NoDoubleReport
<1> QED
  BY <1>1, <1>2, <1>3
     DEF Moves, Stays, IsCounted, IsCollected, IsArchived, IsLost, Counting!Moves

(* The access log, its two sync loops, crashes, retries and lost replies   *)
(* implement AccessCounting: every access goes through its life cycle once.*)
THEOREM Refinement == Spec => CountsEachAccessOnce
<1> DEFINE status == [a \in Access |-> StageOf(a)]
<1>1. Init => Counting!Init
  <2>1. Init => \A a \in Access : a \notin executed
    BY DEF Init
  <2> QED
    BY <2>1, InitIInv, StageValues DEF Counting!Init
<1>2. IInv /\ IInv' /\ [Next]_vars => [Counting!Next]_status
  <2> SUFFICES ASSUME IInv, IInv', [Next]_vars
               PROVE  Counting!Next
    OBVIOUS
  <2>1. \A a \in Access : StageOf(a)' \in Counting!Stages
    BY <1>1 DEF StageOf, Counting!Stages, IInv, HeldWasExecuted, NoDoubleReport
  <2>2. \A a \in Access : \/ StageOf(a)' = StageOf(a)
                          \/ <<StageOf(a), StageOf(a)'>> \in Counting!Moves
    BY StageStep
  <2> QED
    BY <2>1, <2>2 DEF Counting!Next
<1> QED
  BY <1>1, <1>2, Invariance, PTL DEF Spec, Counting!Spec, CountsEachAccessOnce

-----------------------------------------------------------------------------
(* A pass comes to its end.                                                *)

(* A loop that is not waiting for its tick has listed keys to take, or     *)
(* groups to upload and no key left.                                       *)
BusyHasWork ==
    \A s \in Syncers :
        /\ pc[s] = "collect" => todo[s] # {}
        /\ pc[s] = "upload" => todo[s] = {} /\ groupedLogs[s] # NoGroups

(* A map with groups has one that is not empty.                            *)
LEMMA SomeGroup ==
  ASSUME NEW groups \in [Texts -> SUBSET Item], groups # NoGroups
  PROVE  \E u \in Texts : groups[u] # {}
<1>1. SUFFICES ASSUME \A u \in Texts : groups[u] = {}
               PROVE  FALSE
  OBVIOUS
<1> QED
  BY <1>1 DEF NoGroups

(* A loop with neither more keys nor more groups than before has no more   *)
(* ahead of it.                                                            *)
LEMMA AheadShrinks ==
  ASSUME NEW s, todo'[s] \subseteq todo[s],
         \A u \in Texts : groupedLogs'[s][u] # {} =>
             groupedLogs[s][u] # {} \/ \E k \in todo[s] : ApiKeyIn(k) = u
  PROVE  Ahead(s)' \subseteq Ahead(s)
  BY DEF Ahead

(* Moving past a key, with what was taken of it in the group of its user.  *)
LEMMA MovePastEffect ==
  ASSUME TypeOK, NEW s \in Syncers, pc[s] = "collect", NEW k \in todo[s],
         NEW groups \in [Texts -> SUBSET Item], MovePast(s, k, groups),
         \A u \in Texts \ {ApiKeyIn(k)} : groups[u] = groupedLogs[s][u]
  PROVE  /\ BusyHasWork => BusyHasWork'
         /\ Ahead(s)' \subseteq Ahead(s) /\ Ahead(s)' # Ahead(s)
         /\ \A r \in Syncers \ {s} : Ahead(r)' = Ahead(r)
<1>1. k \in Keys
  BY DEF TypeOK
<1>2. /\ todo'[s] = todo[s] \ {k} /\ groupedLogs'[s] = groups
      /\ pc'[s] = IF todo[s] # {k} THEN "collect"
                  ELSE IF groups = NoGroups THEN "idle" ELSE "upload"
      /\ \A r \in Syncers \ {s} : /\ todo'[r] = todo[r] /\ pc'[r] = pc[r]
                                  /\ groupedLogs'[r] = groupedLogs[r]
  BY DEF MovePast, TypeOK
<1>3. BusyHasWork => BusyHasWork'
  BY <1>2 DEF BusyHasWork
<1>4. Ahead(s)' \subseteq Ahead(s)
  <2>1. ASSUME NEW u \in Texts, groupedLogs'[s][u] # {}
        PROVE  groupedLogs[s][u] # {} \/ \E k1 \in todo[s] : ApiKeyIn(k1) = u
    <3>1. CASE u = ApiKeyIn(k)
      BY <3>1
    <3>2. CASE u # ApiKeyIn(k)
      BY <1>2, <2>1, <3>2
    <3> QED
      BY <3>1, <3>2
  <2> QED
    BY <1>2, <2>1, AheadShrinks
<1>5. <<"take", k>> \in Ahead(s)
  BY DEF Ahead
<1>6. <<"take", k>> \notin Ahead(s)'
  BY <1>2 DEF Ahead
<1>7. \A r \in Syncers \ {s} : Ahead(r)' = Ahead(r)
  BY <1>2 DEF Ahead
<1> QED
  BY <1>3, <1>4, <1>5, <1>6, <1>7

(* Being done with a group.                                                *)
LEMMA GroupDoneEffect ==
  ASSUME TypeOK, BusyHasWork, NEW s \in Syncers, pc[s] = "upload",
         NEW u \in Texts, groupedLogs[s][u] # {}, GroupDone(s, u), UNCHANGED todo
  PROVE  /\ BusyHasWork'
         /\ Ahead(s)' \subseteq Ahead(s) /\ Ahead(s)' # Ahead(s)
         /\ \A r \in Syncers \ {s} : Ahead(r)' = Ahead(r)
<1>1. todo[s] = {}
  BY DEF BusyHasWork
<1>2. /\ groupedLogs'[s] = [groupedLogs[s] EXCEPT ![u] = {}]
      /\ pc'[s] = IF groupedLogs'[s] = NoGroups THEN "idle" ELSE "upload"
      /\ \A r \in Syncers \ {s} : pc'[r] = pc[r] /\ groupedLogs'[r] = groupedLogs[r]
  BY DEF GroupDone, TypeOK
<1>3. \A w \in Texts : groupedLogs'[s][w] = IF w = u THEN {} ELSE groupedLogs[s][w]
  BY <1>2 DEF TypeOK
<1>4. BusyHasWork'
  BY <1>1, <1>2 DEF BusyHasWork
<1>5. Ahead(s)' \subseteq Ahead(s)
  BY <1>3, AheadShrinks
<1>6. <<"upload", u>> \in Ahead(s)
  BY DEF Ahead
<1>7. <<"upload", u>> \notin Ahead(s)'
  BY <1>1, <1>3 DEF Ahead
<1>8. \A r \in Syncers \ {s} : Ahead(r)' = Ahead(r)
  BY <1>2 DEF Ahead
<1> QED
  BY <1>4, <1>5, <1>6, <1>7, <1>8

(* What a step does to what is ahead of the loops: to that of s itself,    *)
(* and to that of the others.                                              *)
PassStep(s) ==
    Busy(s) =>
        /\ Ahead(s)' # Ahead(s) \/ \E k \in todo[s] : redisLog[k] # {} /\ redisLog'[k] = {}
        /\ Ahead(s)' \subseteq Ahead(s)

(* The steps of a sync loop: it takes a key or a group from what is ahead  *)
(* of it, or empties a counter; the other loops have ahead what they had.  *)
LEMMA SyncRunsOut ==
  ASSUME TypeOK, BusyHasWork, NEW s \in Syncers, SyncStep(s)
  PROVE  /\ BusyHasWork'
         /\ PassStep(s)
         /\ \A r \in Syncers \ {s} : Ahead(r)' = Ahead(r)
<1>1. CASE ListKeys(s)
  <2>1. ~Busy(s)
    BY <1>1 DEF ListKeys, Busy
  <2>2. /\ pc'[s] = (IF todo'[s] = {} THEN "idle" ELSE "collect")
        /\ \A r \in Syncers \ {s} : /\ todo'[r] = todo[r] /\ pc'[r] = pc[r]
                                    /\ groupedLogs'[r] = groupedLogs[r]
    BY <1>1 DEF ListKeys, TypeOK
  <2>3. \A r \in Syncers \ {s} : Ahead(r)' = Ahead(r)
    BY <2>2 DEF Ahead
  <2> QED
    BY <2>1, <2>2, <2>3 DEF PassStep, BusyHasWork
<1>2. CASE SyncFails(s)
  BY <1>2 DEF SyncFails, syncVars, PassStep, BusyHasWork, Ahead, Busy
<1>3. ASSUME NEW k \in Keys, TakeCount(s, k) \/ SkipKey(s, k)
      PROVE  /\ BusyHasWork'
             /\ PassStep(s)
             /\ \A r \in Syncers \ {s} : Ahead(r)' = Ahead(r)
  <2>1. pc[s] = "collect" /\ k \in todo[s]
    BY <1>3 DEF TakeCount, SkipKey
  <2>2. groupedLogs[s] \in [Texts -> SUBSET Item]
    BY DEF TypeOK
  <2>3. PICK groups \in [Texts -> SUBSET Item] :
          MovePast(s, k, groups) /\ \A u \in Texts \ {ApiKeyIn(k)} : groups[u] = groupedLogs[s][u]
    <3>1. CASE SkipKey(s, k)
      BY <2>2, <3>1 DEF SkipKey
    <3>2. CASE TakeCount(s, k)
      <4>1. /\ Grouped(s, k, redisLog[k]) \in [Texts -> SUBSET Item]
            /\ \A u \in Texts : Grouped(s, k, redisLog[k])[u] =
                 IF u = ApiKeyIn(k) THEN groupedLogs[s][u] \union Taken(k) ELSE groupedLogs[s][u]
        BY GroupedType
      <4>2. MovePast(s, k, Grouped(s, k, redisLog[k]))
        BY <3>2 DEF TakeCount
      <4> QED
        BY <4>1, <4>2
    <3> QED
      BY <1>3, <3>1, <3>2
  <2> QED
    BY <2>1, <2>3, MovePastEffect DEF PassStep
<1>4. ASSUME NEW k \in Keys, LoseCount(s, k)
      PROVE  /\ BusyHasWork'
             /\ PassStep(s)
             /\ \A r \in Syncers \ {s} : Ahead(r)' = Ahead(r)
  <2>1. k \in todo[s] /\ redisLog[k] # {} /\ redisLog'[k] = {} /\ UNCHANGED <<pc, todo, groupedLogs>>
    BY <1>4 DEF LoseCount, TypeOK, syncVars
  <2> QED
    BY <2>1 DEF PassStep, BusyHasWork, Ahead
<1>5. ASSUME NEW u \in Texts, Upload(s, u) \/ UploadFails(s, u)
      PROVE  /\ BusyHasWork'
             /\ PassStep(s)
             /\ \A r \in Syncers \ {s} : Ahead(r)' = Ahead(r)
  <2>1. pc[s] = "upload" /\ groupedLogs[s][u] # {} /\ GroupDone(s, u) /\ UNCHANGED todo
    BY <1>5 DEF Upload, UploadFails
  <2> QED
    BY <2>1, GroupDoneEffect DEF PassStep
<1> QED
  BY <1>1, <1>2, <1>3, <1>4, <1>5 DEF SyncStep

(* A step of the whole, by which a loop may also die and have nothing      *)
(* ahead of it any more.                                                   *)
LEMMA RunsOutStep ==
  ASSUME TypeOK, BusyHasWork, [Next]_vars
  PROVE  /\ BusyHasWork'
         /\ \A s \in Syncers : Busy(s) => Ahead(s)' \subseteq Ahead(s)
         /\ \A s \in Syncers : SyncStep(s) => PassStep(s)
<1>1. \A s \in Syncers : SyncStep(s) => PassStep(s)
  BY SyncRunsOut
<1>2. ASSUME NEW s \in Syncers, SyncStep(s)
      PROVE  BusyHasWork' /\ \A r \in Syncers : Busy(r) => Ahead(r)' \subseteq Ahead(r)
  BY <1>2, SyncRunsOut DEF PassStep
<1>3. CASE ServeViews \/ ClockStep \/ UNCHANGED vars
  <2>1. UNCHANGED <<pc, todo, groupedLogs>>
    BY <1>3 DEF ServeViews, ServeDetail, Increment, IncrementFails, ClockStep, vars, syncVars
  <2> QED
    BY <1>1, <2>1 DEF BusyHasWork, Ahead
<1>4. ASSUME NEW s \in Syncers, Crash(s)
      PROVE  BusyHasWork' /\ \A r \in Syncers : Ahead(r)' \subseteq Ahead(r)
  <2>1. /\ pc'[s] = "down" /\ todo'[s] = {} /\ groupedLogs'[s] = NoGroups
        /\ \A r \in Syncers \ {s} : /\ todo'[r] = todo[r] /\ pc'[r] = pc[r]
                                    /\ groupedLogs'[r] = groupedLogs[r]
    BY <1>4 DEF Crash, TypeOK
  <2>2. \A u \in Texts : groupedLogs'[s][u] = {}
    BY <2>1 DEF NoGroups
  <2>3. Ahead(s)' \subseteq Ahead(s)
    BY <2>1, <2>2, AheadShrinks
  <2>4. \A r \in Syncers \ {s} : Ahead(r)' = Ahead(r)
    BY <2>1 DEF Ahead
  <2> QED
    BY <2>1, <2>3, <2>4 DEF BusyHasWork
<1>5. ASSUME NEW s \in Syncers, Restart(s)
      PROVE  BusyHasWork' /\ \A r \in Syncers : Ahead(r)' \subseteq Ahead(r)
  BY <1>5 DEF Restart, TypeOK, BusyHasWork, Ahead
<1> QED
  BY <1>1, <1>2, <1>3, <1>4, <1>5, ProcessAssumption DEF Next, FeedApiSync, PusherSync

(* SyncLogRedisToMinIO: a pass comes to its end, however often Redis and   *)
(* MinIO fail it and whatever the other program and the views do.          *)
THEOREM PassRunsOutHolds == Spec => PassRunsOut
<1>1. Init => BusyHasWork
  BY DEF Init, BusyHasWork
<1>2. TypeOK /\ BusyHasWork /\ [Next]_vars => BusyHasWork'
  BY RunsOutStep
<1>3. TypeOK /\ BusyHasWork /\ [Next]_vars =>
        [\A s \in Syncers : Busy(s) =>
           /\ Ahead(s) # {}
           /\ Ahead(s)' \subseteq Ahead(s)
           /\ Ahead(s)' = Ahead(s) /\ SyncStep(s) => \E k \in todo[s] : redisLog[k] # {} /\ redisLog'[k] = {}]_vars
  <2> SUFFICES ASSUME TypeOK, BusyHasWork, [Next]_vars, NEW s \in Syncers, Busy(s)
               PROVE  /\ Ahead(s) # {}
                      /\ Ahead(s)' \subseteq Ahead(s)
                      /\ Ahead(s)' = Ahead(s) /\ SyncStep(s) => \E k \in todo[s] : redisLog[k] # {} /\ redisLog'[k] = {}
    OBVIOUS
  <2>1. Ahead(s) # {}
    <3>1. CASE pc[s] = "collect"
      <4>1. PICK k \in todo[s] : TRUE
        BY <3>1 DEF BusyHasWork
      <4>2. <<"take", k>> \in Ahead(s)
        BY <4>1 DEF Ahead
      <4> QED
        BY <4>2
    <3>2. CASE pc[s] = "upload"
      <4>1. groupedLogs[s] \in [Texts -> SUBSET Item] /\ groupedLogs[s] # NoGroups
        BY <3>2 DEF BusyHasWork, TypeOK
      <4>2. PICK u \in Texts : groupedLogs[s][u] # {}
        BY <4>1, SomeGroup
      <4>3. <<"upload", u>> \in Ahead(s)
        BY <4>2 DEF Ahead
      <4> QED
        BY <4>3
    <3>3. pc[s] \in {"collect", "upload"}
      BY DEF Busy
    <3> QED
      BY <3>1, <3>2, <3>3
  <2> QED
    BY <2>1, RunsOutStep DEF PassStep
<1> QED
  BY <1>1, <1>2, <1>3, TypeCorrect, PTL DEF Spec, PassRunsOut
=============================================================================
