--------------------------- MODULE Startup_proofs ---------------------------
(***************************************************************************)
(* Proofs about Startup: for any of the programs.                          *)
(***************************************************************************)
EXTENDS Startup, TLAPS

(* The buckets before the one that is seen to are there.                   *)
MadeSoFar ==
    \A p \in Programs : \A i \in DOMAIN StoresOf[p] :
        i < next[p] => StoresOf[p][i] \in made

(* A smooth start has left no client nil.                                  *)
ClientsKept ==
    \A p \in Programs : phase[p] # "down" /\ smooth[p] => clients[p] = BackgroundOf[p]

(* What starts smoothly starts alone.                                      *)
StartsAlone ==
    \A p, q \in Programs : smooth[p] /\ Starting(p) /\ Sharing(p, q) => ~Starting(q)

(* Hence nobody else makes the bucket it has not found.                    *)
FirstToMake ==
    \A p \in Programs : smooth[p] /\ phase[p] = "make" => Bucket(p) \notin made

StartupInv == TypeOK /\ MadeSoFar /\ ClientsKept /\ StartsAlone /\ FirstToMake

-----------------------------------------------------------------------------
(* Every program has a bucket at least.                                    *)
LEMMA StoresType ==
  ASSUME NEW p \in Programs
  PROVE  /\ Len(StoresOf[p]) \in Nat \ {0}
         /\ DOMAIN StoresOf[p] = 1 .. Len(StoresOf[p])
         /\ p \in AllPrograms
<1>1. p \in AllPrograms
  BY StartupAssumption
<1>2. CASE p = "feedApi"
  <2>1. StoresOf[p] = <<"userLogs", "feedApiAppLogs">>
    BY <1>1, <1>2 DEF StoresOf, AllPrograms
  <2> QED
    BY <1>1, <2>1
<1>3. CASE p = "actions"
  <2>1. StoresOf[p] = <<"actionsAppLogs">>
    BY <1>1, <1>3 DEF StoresOf, AllPrograms
  <2> QED
    BY <1>1, <2>1
<1>4. CASE p = "pusher"
  <2>1. StoresOf[p] = <<"userLogs", "actionsAppLogs">>
    BY <1>1, <1>4 DEF StoresOf, AllPrograms
  <2> QED
    BY <1>1, <2>1
<1>5. CASE p = "curator"
  <2>1. StoresOf[p] = <<"rawArchive", "summarizedArchive", "curatorAppLogs">>
    BY <1>1, <1>5 DEF StoresOf, AllPrograms
  <2> QED
    BY <1>1, <2>1
<1> QED
  BY <1>1, <1>2, <1>3, <1>4, <1>5 DEF AllPrograms

(* The goroutines use clients that init has made.                          *)
LEMMA BackgroundType ==
  ASSUME NEW p \in Programs
  PROVE  BackgroundOf[p] \subseteq RedisesOf[p]
BY StartupAssumption DEF BackgroundOf, RedisesOf, AllPrograms

(* A bucket that is seen to is one of the program.                         *)
LEMMA BucketType ==
  ASSUME TypeOK, NEW p \in Programs, phase[p] # "up"
  PROVE  Bucket(p) \in BucketsOf(p) /\ Bucket(p) \in Buckets
<1>1. next[p] \in DOMAIN StoresOf[p]
  BY DEF TypeOK
<1> QED
  BY <1>1, StoresType DEF Bucket, BucketsOf, Buckets

-----------------------------------------------------------------------------
(* A step of program p that is not its start: p is in phase ph, at bucket  *)
(* n, and has the clients c thereafter, smoothly as far as s says, and no  *)
(* bucket but the one it sees to is made.                                  *)
LEMMA StepInv ==
  ASSUME StartupInv, NEW p \in Programs, NEW ph, NEW n \in Nat, NEW c, NEW s \in BOOLEAN,
         ph \in {"down", "exists", "make", "up"},
         IF ph = "up" THEN n = Len(StoresOf[p]) + 1 ELSE n \in DOMAIN StoresOf[p],
         c \subseteq clients[p],
         s => smooth[p],
         ph \in {"exists", "make"} => Starting(p),
         ph # "down" /\ s => c = BackgroundOf[p],
         made \subseteq made',
         made' \subseteq made \union (IF Starting(p) THEN {Bucket(p)} ELSE {}),
         \A i \in DOMAIN StoresOf[p] : i < n => StoresOf[p][i] \in made',
         ph = "make" /\ s => StoresOf[p][n] \notin made',
         healthy' \in BOOLEAN,
         phase' = [phase EXCEPT ![p] = ph],
         next' = [next EXCEPT ![p] = n],
         clients' = [clients EXCEPT ![p] = c],
         smooth' = [smooth EXCEPT ![p] = s]
  PROVE  StartupInv'
<1>1. TypeOK /\ MadeSoFar /\ ClientsKept /\ StartsAlone /\ FirstToMake
  BY DEF StartupInv
<1>2. /\ phase' \in [Programs -> {"down", "exists", "make", "up"}]
      /\ next' \in [Programs -> Nat]
      /\ clients' \in [Programs -> SUBSET UNION {BackgroundOf[q] : q \in AllPrograms}]
      /\ smooth' \in [Programs -> BOOLEAN]
      /\ phase'[p] = ph /\ next'[p] = n /\ clients'[p] = c /\ smooth'[p] = s
  <2>1. phase' \in [Programs -> {"down", "exists", "make", "up"}] /\ phase'[p] = ph
    BY <1>1 DEF TypeOK
  <2>2. next' \in [Programs -> Nat] /\ next'[p] = n
    BY <1>1 DEF TypeOK
  <2>3. clients' \in [Programs -> SUBSET UNION {BackgroundOf[q] : q \in AllPrograms}]
        /\ clients'[p] = c
    BY <1>1 DEF TypeOK
  <2>4. smooth' \in [Programs -> BOOLEAN] /\ smooth'[p] = s
    BY <1>1, Zenon DEF TypeOK
  <2> QED
    BY <2>1, <2>2, <2>3, <2>4
<1>3. \A q \in Programs \ {p} : /\ phase'[q] = phase[q] /\ next'[q] = next[q]
                                /\ clients'[q] = clients[q] /\ smooth'[q] = smooth[q]
  BY <1>1 DEF TypeOK
<1>4. \A q \in Programs : /\ smooth'[q] => smooth[q]
                          /\ Starting(q)' => Starting(q)
  BY <1>2, <1>3 DEF Starting
<1>5. TypeOK'
  <2>1. \A q \in Programs : IF phase'[q] = "up" THEN next'[q] = Len(StoresOf[q]) + 1
                                               ELSE next'[q] \in DOMAIN StoresOf[q]
    BY <1>1, <1>2, <1>3 DEF TypeOK
  <2>2. made' \subseteq Buckets
    BY <1>1, BucketType DEF TypeOK, Starting
  <2> QED
    BY <1>2, <2>1, <2>2 DEF TypeOK
<1>6. MadeSoFar'
  BY <1>1, <1>2, <1>3 DEF MadeSoFar
<1>7. ClientsKept'
  BY <1>1, <1>2, <1>3 DEF ClientsKept
<1>8. StartsAlone'
  BY <1>1, <1>4 DEF StartsAlone, Sharing
<1>9. FirstToMake'
  <2>1. ASSUME NEW q \in Programs \ {p}, smooth'[q], phase'[q] = "make"
        PROVE  Bucket(q)' \notin made'
    <3>1. smooth[q] /\ phase[q] = "make" /\ Bucket(q)' = Bucket(q)
      BY <1>3, <2>1 DEF Bucket
    <3>2. Bucket(q) \notin made
      BY <1>1, <3>1 DEF FirstToMake
    <3>3. Starting(p) => Bucket(q) # Bucket(p)
      <4>1. Starting(p) => ~Sharing(q, p)
        BY <1>1, <3>1 DEF StartsAlone, Starting
      <4>2. Starting(p) => Bucket(p) \in BucketsOf(p)
        BY <1>1, BucketType DEF Starting
      <4>3. Bucket(q) \in BucketsOf(q)
        BY <1>1, <3>1, BucketType
      <4> QED
        BY <4>1, <4>2, <4>3 DEF Sharing
    <3> QED
      BY <3>1, <3>2, <3>3
  <2>2. smooth'[p] /\ phase'[p] = "make" => Bucket(p)' \notin made'
    BY <1>2 DEF Bucket
  <2> QED
    BY <2>1, <2>2 DEF FirstToMake
<1> QED
  BY <1>5, <1>6, <1>7, <1>8, <1>9 DEF StartupInv

(* The end of a process.                                                   *)
LEMMA DieInv ==
  ASSUME StartupInv, NEW p \in Programs, Die(p),
         made \subseteq made',
         made' \subseteq made \union (IF Starting(p) THEN {Bucket(p)} ELSE {}),
         healthy' = healthy
  PROVE  StartupInv'
<1>1. 1 \in DOMAIN StoresOf[p] /\ \A i \in DOMAIN StoresOf[p] : ~(i < 1)
  BY StoresType
<1>2. healthy' \in BOOLEAN
  BY DEF StartupInv, TypeOK
<1> DEFINE ph == "down"
           n == 1
           c == {}
           s == FALSE
<1>3. /\ phase' = [phase EXCEPT ![p] = ph]
      /\ next' = [next EXCEPT ![p] = n]
      /\ clients' = [clients EXCEPT ![p] = c]
      /\ smooth' = [smooth EXCEPT ![p] = s]
  BY DEF Die
<1>4. /\ ph \in {"down", "exists", "make", "up"} /\ ph \notin {"exists", "make", "up"}
      /\ n \in Nat /\ n \in DOMAIN StoresOf[p]
      /\ \A i \in DOMAIN StoresOf[p] : ~(i < n)
      /\ c \subseteq clients[p]
      /\ s \in BOOLEAN /\ ~s
  BY <1>1
<1> HIDE DEF ph, n, c, s
<1> QED
  BY <1>1, <1>2, <1>3, <1>4, StepInv

(* On to the next bucket, when the one before is there.                    *)
LEMMA NextBucketInv ==
  ASSUME StartupInv, NEW p \in Programs, Starting(p), NextBucket(p),
         made \subseteq made',
         made' \subseteq made \union {Bucket(p)},
         Bucket(p) \in made',
         UNCHANGED <<clients, healthy, smooth>>
  PROVE  StartupInv'
<1> DEFINE ph == IF next[p] = Len(StoresOf[p]) THEN "up" ELSE "exists"
           n == next[p] + 1
<1>1. TypeOK /\ MadeSoFar /\ ClientsKept
  BY DEF StartupInv
<1>2. /\ phase' = [phase EXCEPT ![p] = ph] /\ next' = [next EXCEPT ![p] = n]
      /\ clients' = [clients EXCEPT ![p] = clients[p]]
      /\ smooth' = [smooth EXCEPT ![p] = smooth[p]]
  BY <1>1 DEF NextBucket, TypeOK
<1>3. next[p] \in 1 .. Len(StoresOf[p]) /\ Len(StoresOf[p]) \in Nat
  BY <1>1, StoresType DEF TypeOK, Starting
<1>4. n \in Nat /\ IF ph = "up" THEN n = Len(StoresOf[p]) + 1 ELSE n \in DOMAIN StoresOf[p]
  BY <1>3, StoresType
<1>5. \A i \in DOMAIN StoresOf[p] : i < n => StoresOf[p][i] \in made'
  <2>1. ASSUME NEW i \in DOMAIN StoresOf[p], i < n
        PROVE  StoresOf[p][i] \in made'
    <3>1. i < next[p] \/ i = next[p]
      BY <1>3, <2>1, StoresType
    <3> QED
      BY <1>1, <3>1 DEF MadeSoFar, Bucket
  <2> QED
    BY <2>1
<1>6. smooth[p] => clients[p] = BackgroundOf[p]
  BY <1>1 DEF ClientsKept, Starting
<1>7. smooth[p] \in BOOLEAN /\ healthy' \in BOOLEAN
  BY <1>1 DEF TypeOK
<1>8. ph \in {"down", "exists", "make", "up"} /\ ph # "make"
  OBVIOUS
<1> HIDE DEF ph, n
<1> QED
  BY <1>2, <1>4, <1>5, <1>6, <1>7, <1>8, StepInv

(* BucketExists answers, or fails.                                         *)
LEMMA BucketExistsInv ==
  ASSUME StartupInv, NEW p \in Programs, BucketExists(p)
  PROVE  StartupInv'
<1>1. TypeOK /\ MadeSoFar /\ ClientsKept
  BY DEF StartupInv
<1>2. /\ phase[p] = "exists" /\ Starting(p)
      /\ UNCHANGED <<clients, made, healthy>>
  BY DEF BucketExists, Starting
<1>3. CASE Bucket(p) \in made /\ BucketFound(p) /\ UNCHANGED smooth
  BY <1>2, <1>3, NextBucketInv DEF BucketFound
<1>4. CASE /\ phase' = [phase EXCEPT ![p] = "make"] /\ next' = next
           /\ \/ Bucket(p) \notin made /\ smooth' = smooth
              \/ smooth' = [smooth EXCEPT ![p] = FALSE]
  <2>1. PICK s \in BOOLEAN : /\ smooth' = [smooth EXCEPT ![p] = s]
                             /\ s => smooth[p]
                             /\ s => Bucket(p) \notin made
    <3>1. smooth[p] \in BOOLEAN /\ smooth \in [Programs -> BOOLEAN]
      BY <1>1 DEF TypeOK
    <3>2. CASE Bucket(p) \notin made /\ smooth' = smooth
      <4>1. smooth' = [smooth EXCEPT ![p] = smooth[p]]
        BY <3>1, <3>2
      <4> QED
        BY <3>1, <3>2, <4>1
    <3>3. CASE smooth' = [smooth EXCEPT ![p] = FALSE]
      BY <3>3
    <3> QED
      BY <1>4, <3>2, <3>3
  <2>2. /\ next' = [next EXCEPT ![p] = next[p]]
        /\ clients' = [clients EXCEPT ![p] = clients[p]]
        /\ next[p] \in Nat /\ next[p] \in DOMAIN StoresOf[p]
    BY <1>1, <1>2, <1>4 DEF TypeOK
  <2>3. smooth[p] => clients[p] = BackgroundOf[p]
    BY <1>1, <1>2 DEF ClientsKept
  <2>4. \A i \in DOMAIN StoresOf[p] : i < next[p] => StoresOf[p][i] \in made'
    BY <1>1, <1>2 DEF MadeSoFar
  <2>5. healthy' \in BOOLEAN
    BY <1>1, <1>2 DEF TypeOK
  <2>6. s => StoresOf[p][next[p]] \notin made'
    BY <1>2, <2>1 DEF Bucket
  <2>7. "make" \in {"down", "exists", "make", "up"} /\ "make" # "up"
    OBVIOUS
  <2>8. made \subseteq made' /\ made' \subseteq made \union (IF Starting(p) THEN {Bucket(p)} ELSE {})
    BY <1>2
  <2> QED
    BY <1>2, <1>4, <2>1, <2>2, <2>3, <2>4, <2>5, <2>6, <2>7, <2>8, StepInv
<1> QED
  BY <1>3, <1>4 DEF BucketExists, Fault

(* What the process of a program does after its start.                     *)
LEMMA RunInv ==
  ASSUME StartupInv, NEW p \in Programs, Run(p)
  PROVE  StartupInv'
<1>1. CASE BucketExists(p)
  BY <1>1, BucketExistsInv
<1>2. CASE MakeBucket(p)
  <2>1. /\ Starting(p) /\ NextBucket(p) /\ made' = made \union {Bucket(p)}
        /\ UNCHANGED <<clients, healthy, smooth>>
    BY <1>2 DEF MakeBucket, Starting
  <2> QED
    BY <2>1, NextBucketInv
<1>3. CASE MadeBefore(p)
  <2>1. Die(p) /\ made' = made /\ healthy' = healthy
    BY <1>3 DEF MadeBefore, NotMade
  <2> QED
    BY <2>1, DieInv
<1>4. CASE MakeFails(p)
  <2>1. /\ Starting(p) /\ Die(p) /\ healthy' = healthy
        /\ made' = made \/ made' = made \union {Bucket(p)}
    BY <1>4 DEF MakeFails, NotMade, Starting
  <2> QED
    BY <2>1, DieInv
<1>5. CASE UseNil(p)
  <2>1. Die(p) /\ made' = made /\ healthy' = healthy
    BY <1>5 DEF UseNil
  <2> QED
    BY <2>1, DieInv
<1> QED
  BY <1>1, <1>2, <1>3, <1>4, <1>5 DEF Run

(* The start of a program ends the smoothness of those it meets.           *)
LEMMA StartInv ==
  ASSUME StartupInv, NEW p \in Programs, Start(p)
  PROVE  StartupInv'
<1>1. TypeOK /\ MadeSoFar /\ ClientsKept /\ StartsAlone /\ FirstToMake
  BY DEF StartupInv
<1>2. PICK reached \in SUBSET RedisesOf[p] :
         /\ clients' = [clients EXCEPT ![p] = reached \intersect BackgroundOf[p]]
         /\ smooth' = [q \in Programs |->
              IF q = p
                THEN reached = RedisesOf[p] /\ \A r \in Programs : Sharing(r, p) => ~Starting(r)
                ELSE smooth[q] /\ ~(Sharing(q, p) /\ Starting(q))]
  BY DEF Start
<1>3. /\ phase[p] = "down" /\ phase' = [phase EXCEPT ![p] = "exists"]
      /\ UNCHANGED <<next, made, healthy>>
  BY DEF Start
<1>4. phase'[p] = "exists" /\ \A q \in Programs \ {p} : phase'[q] = phase[q]
  BY <1>1, <1>3 DEF TypeOK
<1>5. /\ clients'[p] = reached \intersect BackgroundOf[p]
      /\ \A q \in Programs \ {p} : clients'[q] = clients[q]
  BY <1>1, <1>2 DEF TypeOK
<1>6. /\ smooth'[p] => reached = RedisesOf[p]
      /\ smooth'[p] => \A r \in Programs : Sharing(r, p) => ~Starting(r)
      /\ \A q \in Programs \ {p} : smooth'[q] => smooth[q] /\ ~(Sharing(q, p) /\ Starting(q))
  BY <1>2, Zenon
<1>7. TypeOK'
  <2>1. phase' \in [Programs -> {"down", "exists", "make", "up"}]
    BY <1>1, <1>3 DEF TypeOK
  <2>2. \A q \in Programs : IF phase'[q] = "up" THEN next'[q] = Len(StoresOf[q]) + 1
                                               ELSE next'[q] \in DOMAIN StoresOf[q]
    BY <1>1, <1>3, <1>4 DEF TypeOK
  <2>3. clients' \in [Programs -> SUBSET UNION {BackgroundOf[q] : q \in AllPrograms}]
    <3>1. reached \intersect BackgroundOf[p] \subseteq UNION {BackgroundOf[q] : q \in AllPrograms}
      BY StoresType
    <3> QED
      BY <1>1, <1>2, <3>1 DEF TypeOK
  <2>4. smooth' \in [Programs -> BOOLEAN]
    BY <1>1, <1>2, Zenon DEF TypeOK
  <2> QED
    BY <1>1, <1>3, <2>1, <2>2, <2>3, <2>4 DEF TypeOK
<1>8. MadeSoFar'
  BY <1>1, <1>3 DEF MadeSoFar
<1>9. ClientsKept'
  <2>1. smooth'[p] => clients'[p] = BackgroundOf[p]
    BY <1>5, <1>6, BackgroundType
  <2> QED
    BY <1>1, <1>4, <1>5, <1>6, <2>1 DEF ClientsKept
<1>10. StartsAlone'
  <2>1. \A q \in Programs \ {p} : Starting(q)' = Starting(q)
    BY <1>4 DEF Starting
  <2>2. ASSUME NEW q \in Programs, NEW r \in Programs,
               smooth'[q], Starting(q)', Sharing(q, r)
        PROVE  ~Starting(r)'
    <3>1. q # r /\ Sharing(r, q)
      BY <2>2 DEF Sharing
    <3>2. CASE q = p
      BY <1>6, <2>1, <2>2, <3>1, <3>2
    <3>3. CASE r = p
      BY <1>6, <2>1, <2>2, <3>1, <3>3
    <3>4. CASE q # p /\ r # p
      BY <1>1, <1>6, <2>1, <2>2, <3>4 DEF StartsAlone
    <3> QED
      BY <3>2, <3>3, <3>4
  <2> QED
    BY <2>2 DEF StartsAlone, Sharing
<1>11. FirstToMake'
  BY <1>1, <1>3, <1>4, <1>6 DEF FirstToMake, Bucket
<1> QED
  BY <1>7, <1>8, <1>9, <1>10, <1>11 DEF StartupInv

-----------------------------------------------------------------------------
(* Nothing is started, and nothing made.                                   *)
LEMMA InitInv == Init => StartupInv
<1> SUFFICES ASSUME Init PROVE StartupInv
  OBVIOUS
<1>1. /\ phase \in [Programs -> {"down", "exists", "make", "up"}]
      /\ next \in [Programs -> Nat]
      /\ \A p \in Programs : phase[p] = "down" /\ next[p] = 1
      /\ made = {} /\ healthy = FALSE
      /\ clients \in [Programs -> SUBSET UNION {BackgroundOf[p] : p \in AllPrograms}]
  BY DEF Init
<1>2. smooth \in [Programs -> BOOLEAN] /\ \A p \in Programs : ~smooth[p]
  BY Zenon DEF Init
<1>3. ASSUME NEW p \in Programs
      PROVE  1 \in DOMAIN StoresOf[p] /\ \A i \in DOMAIN StoresOf[p] : ~(i < 1)
  BY StoresType
<1> QED
  BY <1>1, <1>2, <1>3
  DEF StartupInv, TypeOK, MadeSoFar, ClientsKept, StartsAlone, FirstToMake

(* Every step preserves the invariant.                                     *)
LEMMA NextInv ==
  ASSUME StartupInv, [Next]_vars
  PROVE  StartupInv'
<1>1. ASSUME NEW p \in Programs, Run(p)
      PROVE  StartupInv'
  BY <1>1, RunInv
<1>2. ASSUME NEW p \in Programs, Start(p)
      PROVE  StartupInv'
  BY <1>2, StartInv
<1>3. ASSUME NEW p \in Programs, InitFails(p)
      PROVE  StartupInv'
  <2>1. Die(p) /\ made' = made /\ healthy' = healthy
    BY <1>3 DEF InitFails
  <2> QED
    BY <2>1, DieInv
<1>4. CASE Recover
  BY <1>4 DEF Recover, StartupInv, TypeOK, MadeSoFar, ClientsKept, StartsAlone,
     FirstToMake, Starting, Bucket, Sharing
<1>5. CASE UNCHANGED vars
  BY <1>5 DEF vars, StartupInv, TypeOK, MadeSoFar, ClientsKept, StartsAlone,
     FirstToMake, Starting, Bucket, Sharing
<1> QED
  BY <1>1, <1>2, <1>3, <1>4, <1>5 DEF Next, FeedApi, Actions, Pusher, Curator

(* The inductive invariant of the start holds.                             *)
THEOREM Invariance == Spec => []StartupInv
<1>1. StartupInv /\ [Next]_vars => StartupInv'
  BY NextInv
<1> QED
  BY <1>1, InitInv, PTL DEF Spec

(* init of the four programs keeps the types.                              *)
THEOREM TypeCorrect == Spec => []TypeOK
<1>1. StartupInv => TypeOK
  BY DEF StartupInv
<1> QED
  BY <1>1, Invariance, PTL

(* A program that is up has the buckets of initMinIO, and after a smooth   *)
(* start its Redis clients.                                                *)
THEOREM ReadyWhenUpHolds == Spec => []ReadyWhenUp
<1>1. ASSUME StartupInv, NEW p \in Programs, phase[p] = "up"
      PROVE  BucketsOf(p) \subseteq made /\ (smooth[p] => clients[p] = BackgroundOf[p])
  <2>1. next[p] = Len(StoresOf[p]) + 1
    BY <1>1 DEF StartupInv, TypeOK
  <2>2. \A i \in DOMAIN StoresOf[p] : i < next[p]
    BY <2>1, StoresType
  <2>3. BucketsOf(p) \subseteq made
    BY <1>1, <2>2 DEF StartupInv, MadeSoFar, BucketsOf
  <2> QED
    BY <1>1, <2>3 DEF StartupInv, ClientsKept
<1>2. StartupInv => ReadyWhenUp
  BY <1>1 DEF ReadyWhenUp
<1> QED
  BY <1>2, Invariance, PTL

(* MakeBucket does not meet a bucket that another program has made in      *)
(* between, and no client is nil, if the program was started alone and     *)
(* without a failure.                                                      *)
THEOREM StartedAloneStaysHolds == Spec => StartedAloneStays
<1>1. ASSUME StartupInv, Next, healthy, NEW p \in Programs, phase[p] # "down", smooth[p]
      PROVE  phase'[p] # "down"
  <2>1. TypeOK /\ ClientsKept /\ FirstToMake
    BY <1>1 DEF StartupInv
  <2>2. ASSUME NEW q \in Programs, BucketExists(q) \/ MakeBucket(q)
        PROVE  phase'[p] # "down"
    <3>1. PICK ph \in {"exists", "make", "up"} : phase' = [phase EXCEPT ![q] = ph]
      BY <2>2 DEF BucketExists, BucketFound, MakeBucket, NextBucket
    <3> QED
      BY <1>1, <2>1, <3>1 DEF TypeOK
  <2>3. ASSUME NEW q \in Programs, MadeBefore(q)
        PROVE  phase'[p] # "down"
    <3>1. phase[q] = "make" /\ Bucket(q) \in made /\ phase' = [phase EXCEPT ![q] = "down"]
      BY <2>3 DEF MadeBefore, NotMade, Die
    <3>2. q # p
      BY <1>1, <2>1, <3>1 DEF FirstToMake
    <3> QED
      BY <1>1, <2>1, <3>1, <3>2 DEF TypeOK
  <2>4. ASSUME NEW q \in Programs, MakeFails(q) \/ InitFails(q)
        PROVE  FALSE
    BY <1>1, <2>4 DEF MakeFails, InitFails
  <2>5. ASSUME NEW q \in Programs, UseNil(q)
        PROVE  phase'[p] # "down"
    <3>1. phase[q] = "up" /\ clients[q] # BackgroundOf[q] /\ phase' = [phase EXCEPT ![q] = "down"]
      BY <2>5 DEF UseNil, Die
    <3>2. q # p
      BY <1>1, <2>1, <3>1 DEF ClientsKept
    <3> QED
      BY <1>1, <2>1, <3>1, <3>2 DEF TypeOK
  <2>6. ASSUME NEW q \in Programs, Start(q)
        PROVE  phase'[p] # "down"
    BY <1>1, <2>1, <2>6 DEF Start, TypeOK
  <2>7. CASE Recover
    BY <1>1, <2>7 DEF Recover
  <2> QED
    BY <1>1, <2>2, <2>3, <2>4, <2>5, <2>6, <2>7
    DEF Next, FeedApi, Actions, Pusher, Curator, Run
<1>2. StartupInv /\ [Next]_vars =>
         [healthy => \A p \in Programs :
            phase[p] # "down" /\ smooth[p] => phase'[p] # "down"]_vars
  BY <1>1
<1> QED
  BY <1>2, Invariance, PTL DEF Spec, StartedAloneStays

-----------------------------------------------------------------------------
(* The three kinds of reasons, before a step and after it.                 *)
LEMMA ReasonsMembers ==
  /\ \A r : r \in Reasons <=> \E p \in Programs :
        \/ \E b \in BucketsOf(p) \ made : r = <<p, b>>
        \/ phase[p] = "make" /\ r = <<p, Bucket(p)>>
        \/ phase[p] # "down" /\ clients[p] # BackgroundOf[p] /\ r = <<p, "client">>
  /\ \A r : r \in Reasons' <=> \E p \in Programs :
        \/ \E b \in BucketsOf(p) \ made' : r = <<p, b>>
        \/ phase'[p] = "make" /\ r = <<p, Bucket(p)'>>
        \/ phase'[p] # "down" /\ clients'[p] # BackgroundOf[p] /\ r = <<p, "client">>
<1>1. \A r : r \in Reasons <=> \E p \in Programs :
        \/ \E b \in BucketsOf(p) \ made : r = <<p, b>>
        \/ phase[p] = "make" /\ r = <<p, Bucket(p)>>
        \/ phase[p] # "down" /\ clients[p] # BackgroundOf[p] /\ r = <<p, "client">>
  BY DEF Reasons
<1>2. \A r : r \in Reasons' <=> \E p \in Programs :
        \/ \E b \in BucketsOf(p) \ made' : r = <<p, b>>
        \/ phase'[p] = "make" /\ r = <<p, Bucket(p)'>>
        \/ phase'[p] # "down" /\ clients'[p] # BackgroundOf[p] /\ r = <<p, "client">>
  BY DEF Reasons
<1> QED
  BY <1>1, <1>2

(* A program that goes to make a bucket had not found it, and one that is  *)
(* started gets its clients: then no reason is new.                        *)
LEMMA NoNewReason ==
  ASSUME TypeOK, NEW p \in Programs, made \subseteq made',
         \A q \in Programs \ {p} :
            phase'[q] = phase[q] /\ next'[q] = next[q] /\ clients'[q] = clients[q],
         phase'[p] = "make" => /\ next'[p] = next[p]
                               /\ phase[p] = "exists" /\ Bucket(p) \notin made,
         phase'[p] # "down" =>
            clients'[p] = BackgroundOf[p] \/ (phase[p] # "down" /\ clients'[p] = clients[p])
  PROVE  Reasons' \subseteq Reasons
<1> SUFFICES ASSUME NEW r \in Reasons' PROVE r \in Reasons
  OBVIOUS
<1>1. PICK q \in Programs :
        \/ \E b \in BucketsOf(q) \ made' : r = <<q, b>>
        \/ phase'[q] = "make" /\ r = <<q, Bucket(q)'>>
        \/ phase'[q] # "down" /\ clients'[q] # BackgroundOf[q] /\ r = <<q, "client">>
  BY ReasonsMembers
<1>2. CASE \E b \in BucketsOf(q) \ made' : r = <<q, b>>
  BY <1>2, ReasonsMembers
<1>3. CASE phase'[q] = "make" /\ r = <<q, Bucket(q)'>>
  <2>1. Bucket(q)' = Bucket(q)
    BY <1>3 DEF Bucket
  <2>2. CASE q = p
    <3>1. Bucket(p) \in BucketsOf(p) \ made
      BY <1>3, <2>2, BucketType
    <3> QED
      BY <1>3, <2>1, <2>2, <3>1, ReasonsMembers
  <2>3. CASE q # p
    <3>1. phase[q] = "make"
      BY <1>3, <2>3
    <3> QED
      BY <1>3, <2>1, <3>1, ReasonsMembers
  <2> QED
    BY <2>2, <2>3
<1>4. CASE phase'[q] # "down" /\ clients'[q] # BackgroundOf[q] /\ r = <<q, "client">>
  <2>1. phase[q] # "down" /\ clients[q] # BackgroundOf[q]
    BY <1>4
  <2> QED
    BY <1>4, <2>1, ReasonsMembers
<1> QED
  BY <1>1, <1>2, <1>3, <1>4

(* The end of a process uses up the reason for it.                         *)
LEMMA ReasonUsed ==
  ASSUME StartupInv, NEW p \in Programs, Die(p), made' = made,
         \/ phase[p] = "make" /\ Bucket(p) \in made
         \/ phase[p] = "up" /\ clients[p] # BackgroundOf[p]
  PROVE  /\ Reasons' \subseteq Reasons
         /\ \E r \in Reasons \ Reasons' : r[1] = p
         /\ \A q \in Programs \ {p} : phase'[q] = phase[q]
<1>1. TypeOK /\ MadeSoFar
  BY DEF StartupInv
<1>2. /\ phase'[p] = "down"
      /\ \A q \in Programs \ {p} :
            phase'[q] = phase[q] /\ next'[q] = next[q] /\ clients'[q] = clients[q]
  BY <1>1 DEF Die, TypeOK
<1>3. Reasons' \subseteq Reasons
  BY <1>1, <1>2, NoNewReason
<1>4. ASSUME NEW x, <<p, x>> \in Reasons, x \notin BucketsOf(p) \ made
      PROVE  <<p, x>> \in Reasons \ Reasons' /\ <<p, x>>[1] = p
  <2>1. ASSUME NEW q \in Programs, NEW y, <<p, x>> = <<q, y>>
        PROVE  q = p /\ y = x
    BY <2>1
  <2> QED
    BY <1>2, <1>4, <2>1, ReasonsMembers
<1>5. CASE phase[p] = "make" /\ Bucket(p) \in made
  <2>1. <<p, Bucket(p)>> \in Reasons
    BY <1>5, ReasonsMembers
  <2> QED
    BY <1>2, <1>3, <1>4, <1>5, <2>1
<1>6. CASE phase[p] = "up" /\ clients[p] # BackgroundOf[p]
  <2>1. <<p, "client">> \in Reasons
    BY <1>6, ReasonsMembers
  <2>2. \A i \in DOMAIN StoresOf[p] : i < next[p]
    BY <1>1, <1>6, StoresType DEF TypeOK
  <2>3. BucketsOf(p) \subseteq made
    BY <1>1, <2>2 DEF MadeSoFar, BucketsOf
  <2> QED
    BY <1>2, <1>3, <1>4, <2>1, <2>3
<1> QED
  BY <1>5, <1>6

(* MinIOInit and the nil clients: once the stores are reached no program   *)
(* ends twice for the same bucket, nor twice for a client, whatever the    *)
(* others do.  It is the reason why the operator need not start programs   *)
(* for ever.                                                               *)
THEOREM EndsRunOutHolds == Spec => EndsRunOut
<1> DEFINE Used == /\ Reasons' \subseteq Reasons
                   /\ \A p \in Programs : phase[p] # "down" /\ phase'[p] = "down"
                        => \E r \in Reasons \ Reasons' : r[1] = p
<1>1. ASSUME StartupInv, Next, healthy
      PROVE  Used
  <2>1. TypeOK
    BY <1>1 DEF StartupInv
  <2>2. ASSUME NEW p \in Programs, BucketExists(p)
        PROVE  Used
    <3>1. phase[p] = "exists" /\ clients' = clients /\ made' = made
      BY <2>2 DEF BucketExists
    <3>2. CASE Bucket(p) \in made /\ BucketFound(p)
      <4>1. PICK ph \in {"exists", "up"} : phase' = [phase EXCEPT ![p] = ph]
        BY <3>2 DEF BucketFound, NextBucket
      <4>2. \A q \in Programs \ {p} : next'[q] = next[q]
        BY <2>1, <3>2 DEF BucketFound, NextBucket, TypeOK
      <4>3. phase'[p] = ph /\ \A q \in Programs \ {p} : phase'[q] = phase[q]
        BY <2>1, <4>1 DEF TypeOK
      <4>4. Reasons' \subseteq Reasons
        BY <2>1, <3>1, <4>1, <4>2, <4>3, NoNewReason
      <4> QED
        BY <4>1, <4>3, <4>4
    <3>3. CASE Bucket(p) \notin made /\ phase' = [phase EXCEPT ![p] = "make"] /\ next' = next
      <4>1. phase'[p] = "make" /\ \A q \in Programs \ {p} : phase'[q] = phase[q]
        BY <2>1, <3>3 DEF TypeOK
      <4>2. Reasons' \subseteq Reasons
        BY <2>1, <3>1, <3>3, <4>1, NoNewReason
      <4> QED
        BY <4>1, <4>2
    <3> QED
      BY <1>1, <2>2, <3>2, <3>3 DEF BucketExists, Fault
  <2>3. ASSUME NEW p \in Programs, MakeBucket(p)
        PROVE  Used
    <3>1. PICK ph \in {"exists", "up"} : phase' = [phase EXCEPT ![p] = ph]
      BY <2>3 DEF MakeBucket, NextBucket
    <3>2. /\ phase[p] = "make" /\ clients' = clients /\ made \subseteq made'
          /\ \A q \in Programs \ {p} : next'[q] = next[q]
      BY <2>1, <2>3 DEF MakeBucket, NextBucket, TypeOK
    <3>3. phase'[p] = ph /\ \A q \in Programs \ {p} : phase'[q] = phase[q]
      BY <2>1, <3>1 DEF TypeOK
    <3>4. Reasons' \subseteq Reasons
      BY <2>1, <3>1, <3>2, <3>3, NoNewReason
    <3> QED
      BY <3>1, <3>3, <3>4
  <2>4. ASSUME NEW p \in Programs, MadeBefore(p)
        PROVE  Used
    <3>1. phase[p] = "make" /\ Bucket(p) \in made /\ Die(p) /\ made' = made
      BY <2>4 DEF MadeBefore, NotMade
    <3> QED
      BY <1>1, <3>1, ReasonUsed
  <2>5. ASSUME NEW p \in Programs, UseNil(p)
        PROVE  Used
    <3>1. phase[p] = "up" /\ clients[p] # BackgroundOf[p] /\ Die(p) /\ made' = made
      BY <2>5 DEF UseNil
    <3> QED
      BY <1>1, <3>1, ReasonUsed
  <2>6. ASSUME NEW p \in Programs, Start(p)
        PROVE  Used
    <3>1. /\ phase' = [phase EXCEPT ![p] = "exists"] /\ next' = next /\ made' = made
          /\ clients' = [clients EXCEPT ![p] = RedisesOf[p] \intersect BackgroundOf[p]]
      BY <1>1, <2>6 DEF Start
    <3>2. /\ phase'[p] = "exists" /\ clients'[p] = BackgroundOf[p]
          /\ \A q \in Programs \ {p} : phase'[q] = phase[q] /\ clients'[q] = clients[q]
      BY <2>1, <3>1, BackgroundType DEF TypeOK
    <3>3. Reasons' \subseteq Reasons
      BY <2>1, <3>1, <3>2, NoNewReason
    <3> QED
      BY <3>2, <3>3
  <2>7. ASSUME NEW p \in Programs, MakeFails(p) \/ InitFails(p)
        PROVE  FALSE
    BY <1>1, <2>7 DEF MakeFails, InitFails
  <2>8. CASE Recover
    BY <1>1, <2>8 DEF Recover
  <2> QED
    BY <1>1, <2>2, <2>3, <2>4, <2>5, <2>6, <2>7, <2>8
    DEF Next, FeedApi, Actions, Pusher, Curator, Run
<1>2. StartupInv /\ [Next]_vars => [healthy => Used]_vars
  BY <1>1
<1> QED
  BY <1>2, Invariance, PTL DEF Spec, EndsRunOut
=============================================================================
