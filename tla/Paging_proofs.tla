--------------------------- MODULE Paging_proofs ---------------------------
(***************************************************************************)
(* Proofs about Paging: for any articles, any width of the integers and    *)
(* any lists no longer than half the largest of them.                      *)
(***************************************************************************)
EXTENDS Paging, SequenceTheorems, TLAPS

(* A client that has scrolled to a page is behind the end if the page is   *)
(* empty, and only then, so that the page that follows one with articles   *)
(* begins at an int.                                                       *)
NotBehind ==
    calm => /\ served # Panic
            /\ served # <<>> <=> (page - 1) * pageSize < Len(list)

PagingInv == TypeOK /\ NotBehind /\ ScrolledSoFar

-----------------------------------------------------------------------------
(* The arithmetic of a machine.                                            *)

(* An int is left alone, and what is too large becomes smaller.            *)
LEMMA WrapProperties ==
  ASSUME NEW n \in Int
  PROVE  /\ Wrap(n) \in -(MaxInt + 1) .. MaxInt
         /\ n \in -(MaxInt + 1) .. MaxInt => Wrap(n) = n
         /\ n >= -(MaxInt + 1) => Wrap(n) <= n
<1> DEFINE m == 2 * (MaxInt + 1)
           x == n + MaxInt + 1
<1>1. m \in Nat \ {0} /\ x \in Int /\ MaxInt \in Nat
  BY PagingAssumption
<1>2. Wrap(n) = (x % m) - (MaxInt + 1)
  BY DEF Wrap
<1>3. x % m \in 0 .. (m - 1)
  <2> HIDE DEF m, x
  <2> QED
    BY <1>1
<1>4. x \in 0 .. m - 1 => x % m = x
  <2> HIDE DEF m, x
  <2> QED
    BY <1>1
<1>5. x \in Nat => x % m <= x
  <2> HIDE DEF m, x
  <2> QED
    BY <1>1
<1> QED
  BY <1>1, <1>2, <1>3, <1>4, <1>5

(* The product of two positive numbers is no smaller than either.          *)
LEMMA ProductAtLeast ==
  ASSUME NEW m \in Nat \ {0}, NEW n \in Nat
  PROVE  n <= m * n /\ m * n \in Nat
OBVIOUS

(* The first index of a requestable page is an int.                        *)
LEMMA StartType ==
  ASSUME NEW p \in 1 .. MaxInt, NEW size \in 1 .. MaxInt
  PROVE  /\ StartIndex(p, size) = Wrap((p - 1) * size)
         /\ StartIndex(p, size) \in -(MaxInt + 1) .. MaxInt
         /\ (p - 1) * size \in Nat
<1>1. p - 1 \in Nat /\ size \in Nat /\ MaxInt \in Nat
  BY PagingAssumption
<1>2. (p - 1) * size \in Nat
  BY <1>1
<1>3. Wrap(p - 1) = p - 1
  BY <1>1, WrapProperties
<1> QED
  BY <1>2, <1>3, WrapProperties DEF StartIndex

-----------------------------------------------------------------------------
(* Pages.                                                                  *)

(* The lists of the news Redis are sequences.                              *)
LEMMA ListType ==
  ASSUME NEW l \in Lists
  PROVE  l \in Seq(Articles) /\ Len(l) \in Nat /\ Len(l) <= MaxLength
<1>1. PICK n \in 0 .. MaxLength : l \in [1 .. n -> Articles]
  BY DEF Lists
<1>2. MaxLength \in Nat
  BY PagingAssumption
<1> QED
  BY <1>1, <1>2

(* A page is Panic or a part of the list, no longer than a page; what      *)
(* precedes it is what StartIndex says, unless it is behind the end.       *)
LEMMA PageProperties ==
  ASSUME NEW l \in Lists, NEW p \in 1 .. MaxInt, NEW size \in 1 .. MaxInt,
         PaginateArticles(l, p, size) # Panic
  PROVE  /\ PaginateArticles(l, p, size) \in Seq(Articles)
         /\ \E low \in 0 .. Len(l), n \in 0 .. size :
               /\ low + n <= Len(l)
               /\ PaginateArticles(l, p, size) = SubSeq(l, low + 1, low + n)
<1> DEFINE start == StartIndex(p, size)
           end == EndIndex(start, size)
           high == Least(end, Len(l))
<1>1. l \in Seq(Articles) /\ Len(l) \in Nat /\ size \in Nat /\ MaxInt \in Nat
  BY ListType, PagingAssumption
<1>2. start \in -(MaxInt + 1) .. MaxInt
  BY StartType
<1>3. CASE start >= Len(l)
  <2>1. PaginateArticles(l, p, size) = <<>>
    BY <1>3 DEF PaginateArticles
  <2>2. SubSeq(l, 0 + 1, 0 + 0) = <<>>
    BY SubSeqEmpty
  <2> QED
    BY <1>1, <2>1, <2>2
<1>4. CASE ~(start >= Len(l))
  <2>1. PaginateArticles(l, p, size) = Slice(l, start, high)
    BY <1>4 DEF PaginateArticles
  <2>2. end \in Int /\ (0 <= start => end <= start + size)
    BY <1>1, <1>2, WrapProperties DEF EndIndex
  <2> HIDE DEF start, end
  <2>3. high \in Int /\ high <= Len(l) /\ (0 <= start => high <= start + size)
    BY <1>1, <1>2, <2>2 DEF Least
  <2> HIDE DEF high
  <2>4. 0 <= start /\ start <= high /\ Slice(l, start, high) = SubSeq(l, start + 1, high)
    BY <2>1 DEF Slice
  <2>5. start \in 0 .. Len(l) /\ high - start \in 0 .. size /\ start + (high - start) = high
    BY <1>1, <1>2, <2>3, <2>4
  <2>6. SubSeq(l, start + 1, high) \in Seq(Articles)
    <3>1. \A i \in start + 1 .. high : l[i] \in Articles
      BY <1>1, <2>3, <2>5
    <3> QED
      BY <2>3, <2>5, <3>1, SubSeqProperties
  <2> QED
    BY <2>1, <2>3, <2>4, <2>5, <2>6
<1> QED
  BY <1>3, <1>4

(* Where nothing overflows, page p has the articles behind the first p - 1 *)
(* pages.                                                                  *)
LEMMA ServedPage ==
  ASSUME NEW l \in Lists, NEW p \in 1 .. MaxInt, NEW size \in 1 .. MaxInt,
         NEW before \in Nat, before = (p - 1) * size, before <= MaxInt,
         before < Len(l) => before + size <= MaxInt
  PROVE  PaginateArticles(l, p, size) =
            IF before >= Len(l) THEN <<>>
            ELSE SubSeq(l, before + 1, Least(before + size, Len(l)))
<1>1. l \in Seq(Articles) /\ Len(l) \in Nat /\ size \in Nat /\ MaxInt \in Nat
  BY ListType, PagingAssumption
<1>2. StartIndex(p, size) = before
  <2>1. before \in -(MaxInt + 1) .. MaxInt
    BY <1>1
  <2> QED
    BY <2>1, StartType, WrapProperties
<1>3. CASE before >= Len(l)
  BY <1>2, <1>3 DEF PaginateArticles
<1>4. CASE before < Len(l)
  <2>1. EndIndex(before, size) = before + size
    <3>1. before + size \in -(MaxInt + 1) .. MaxInt
      BY <1>1, <1>4
    <3> QED
      BY <3>1, WrapProperties DEF EndIndex
  <2>2. before <= Least(before + size, Len(l))
    BY <1>1, <1>4 DEF Least
  <2> QED
    BY <1>1, <1>2, <1>4, <2>1, <2>2 DEF PaginateArticles, Slice
<1> QED
  BY <1>1, <1>3, <1>4

(* The page that follows one with articles begins at an int, and has all   *)
(* its indexes in the range if it has articles itself.                     *)
LEMMA FollowingInRange ==
  ASSUME NEW l \in Lists, NEW p \in 1 .. MaxInt, NEW size \in 1 .. MaxInt,
         (p - 1) * size < Len(l)
  PROVE  /\ p * size \in Nat /\ p * size <= MaxInt
         /\ p * size < Len(l) => p * size + size <= MaxInt
<1>1. /\ Len(l) \in Nat /\ Len(l) <= MaxLength /\ 2 * MaxLength <= MaxInt
      /\ size \in Nat /\ MaxInt \in Nat /\ MaxLength \in Nat /\ p \in Nat \ {0}
  BY ListType, PagingAssumption
<1>2. size <= p * size /\ p * size \in Nat
  BY <1>1, ProductAtLeast
<1>3. p * size = (p - 1) * size + size
  BY <1>1
<1>4. CASE p = 1
  <2>1. p * size = size
    BY <1>1, <1>4
  <2> QED
    BY <1>1, <1>2, <2>1
<1>5. CASE p # 1
  <2>1. size <= (p - 1) * size /\ (p - 1) * size \in Nat
    BY <1>1, <1>5, ProductAtLeast
  <2> HIDE DEF Lists
  <2> QED
    BY <1>1, <1>2, <1>3, <2>1
<1> QED
  BY <1>4, <1>5

(* What a scrolling client has seen after the following page.              *)
LEMMA ScrollOn ==
  ASSUME NEW l \in Lists, NEW p \in 1 .. MaxInt, NEW size \in 1 .. MaxInt,
         p < MaxInt, (p - 1) * size < Len(l)
  PROVE  /\ PaginateArticles(l, p + 1, size) # Panic
         /\ PaginateArticles(l, p + 1, size) # <<>> <=> p * size < Len(l)
         /\ SubSeq(l, 1, Least(p * size, Len(l))) \o PaginateArticles(l, p + 1, size)
              = SubSeq(l, 1, Least((p + 1) * size, Len(l)))
<1> DEFINE before == p * size
           next == PaginateArticles(l, p + 1, size)
<1>1. /\ l \in Seq(Articles) /\ Len(l) \in Nat
      /\ size \in Nat /\ MaxInt \in Nat /\ p + 1 \in 1 .. MaxInt
  BY ListType, PagingAssumption
<1>2. before \in Nat /\ before <= MaxInt /\ (before < Len(l) => before + size <= MaxInt)
  BY FollowingInRange
<1>3. before = ((p + 1) - 1) * size /\ (p + 1) * size = before + size
  BY <1>1
<1> HIDE DEF before
<1>4. next = IF before >= Len(l) THEN <<>>
             ELSE SubSeq(l, before + 1, Least(before + size, Len(l)))
  BY <1>1, <1>2, <1>3, ServedPage
<1>5. <<>> \in Seq(Articles)
  OBVIOUS
<1> HIDE DEF next
<1>6. CASE before >= Len(l)
  <2>1. Least(before, Len(l)) = Len(l) /\ Least(before + size, Len(l)) = Len(l)
    BY <1>1, <1>2, <1>6 DEF Least
  <2>2. SubSeq(l, 1, Len(l)) \o <<>> = SubSeq(l, 1, Len(l))
    <3>1. SubSeq(l, 1, Len(l)) \in Seq(Articles)
      BY <1>1, SubSeqFull
    <3> QED
      BY <3>1, ConcatEmptySeq
  <2>3. next # Panic
    BY <1>4, <1>5, <1>6, PagingAssumption
  <2> QED
    BY <1>3, <1>4, <1>6, <2>1, <2>2, <2>3 DEF next, before
<1>7. CASE before < Len(l)
  <2>1. /\ Least(before, Len(l)) = before
        /\ Least(before + size, Len(l)) \in before .. Len(l)
    BY <1>1, <1>2, <1>7 DEF Least
  <2>2. next = SubSeq(l, before + 1, Least(before + size, Len(l)))
    <3>1. ~(before >= Len(l))
      BY <1>1, <1>2, <1>7
    <3> QED
      BY <1>4, <3>1, Zenon
  <2>3. SubSeq(l, 1, before) \o next = SubSeq(l, 1, Least(before + size, Len(l)))
    <3>1. 1 \in 1 .. Len(l) + 1 /\ before \in 1 - 1 .. Len(l)
      BY <1>1, <1>2, <1>7
    <3> QED
      BY <1>1, <2>1, <2>2, <3>1, ConcatAdjacentSubSeq
  <2>4. next # Panic /\ next # <<>>
    <3>1. \A i \in before + 1 .. Least(before + size, Len(l)) : l[i] \in Articles
      BY <1>1, <1>2, <2>1
    <3>2. before + 1 <= Least(before + size, Len(l))
      BY <1>1, <1>2, <1>7 DEF Least
    <3>3. next \in Seq(Articles) /\ Len(next) = Least(before + size, Len(l)) - (before + 1) + 1
      BY <1>1, <1>2, <2>1, <2>2, <3>1, <3>2, SubSeqProperties
    <3>4. Len(next) > 0
      BY <1>2, <2>1, <3>2, <3>3
    <3> QED
      BY <3>3, <3>4, PagingAssumption
  <2> QED
    BY <1>3, <1>7, <2>1, <2>3, <2>4 DEF next, before
<1>8. before >= Len(l) \/ before < Len(l)
  BY <1>1, <1>2
<1> QED
  BY <1>6, <1>7, <1>8

(* What a client has seen after the first page.                            *)
LEMMA ScrollBegins ==
  ASSUME NEW l \in Lists, NEW size \in 1 .. MaxInt
  PROVE  /\ PaginateArticles(l, 1, size) # Panic
         /\ PaginateArticles(l, 1, size) # <<>> <=> 0 < Len(l)
         /\ PaginateArticles(l, 1, size) = SubSeq(l, 1, Least(1 * size, Len(l)))
<1> DEFINE first == PaginateArticles(l, 1, size)
<1>1. /\ l \in Seq(Articles) /\ Len(l) \in Nat
      /\ size \in Nat /\ MaxInt \in Nat /\ 1 \in 1 .. MaxInt
  BY ListType, PagingAssumption
<1>2. 0 = (1 - 1) * size /\ 0 <= MaxInt /\ (0 < Len(l) => 0 + size <= MaxInt)
  BY <1>1
<1>3. first = IF 0 >= Len(l) THEN <<>> ELSE SubSeq(l, 0 + 1, Least(0 + size, Len(l)))
  BY <1>1, <1>2, ServedPage
<1>4. 1 * size = size /\ 0 + size = size /\ 0 + 1 = 1
  BY <1>1
<1>5. Least(size, Len(l)) \in 0 .. Len(l)
  BY <1>1 DEF Least
<1>6. first = SubSeq(l, 1, Least(size, Len(l)))
  <2>1. CASE Len(l) = 0
    <3>1. Least(size, Len(l)) < 1
      BY <1>5, <2>1
    <3>2. SubSeq(l, 1, Least(size, Len(l))) = <<>>
      BY <1>5, <3>1, SubSeqEmpty
    <3>3. 0 >= Len(l)
      BY <2>1
    <3> QED
      BY <1>3, <3>2, <3>3, Zenon
  <2>2. CASE Len(l) # 0
    <3>1. ~(0 >= Len(l))
      BY <1>1, <2>2
    <3> QED
      BY <1>3, <1>4, <3>1, Zenon
  <2> QED
    BY <2>1, <2>2
<1>7. SubSeq(l, 1, Least(size, Len(l))) \in Seq(Articles)
  <2>1. \A i \in 1 .. Least(size, Len(l)) : l[i] \in Articles
    BY <1>1, <1>5
  <2> QED
    BY <1>5, <2>1, SubSeqProperties
<1>8. first # Panic
  BY <1>6, <1>7, PagingAssumption
<1>9. first # <<>> <=> 0 < Len(l)
  <2>1. 0 >= Len(l) => first = <<>>
    BY <1>3
  <2>2. ASSUME 0 < Len(l)
        PROVE  first # <<>>
    <3>1. 1 <= Least(size, Len(l)) /\ Least(size, Len(l)) \in Nat
      BY <1>1, <2>2 DEF Least
    <3>2. \A i \in 1 .. Least(size, Len(l)) : l[i] \in Articles
      BY <1>1, <1>5
    <3>3. Len(SubSeq(l, 1, Least(size, Len(l)))) = Least(size, Len(l)) - 1 + 1
      BY <3>1, <3>2, SubSeqProperties
    <3>4. Len(first) > 0
      BY <1>6, <3>1, <3>3
    <3> QED
      BY <3>4
  <2> QED
    BY <1>1, <2>1, <2>2
<1> QED
  BY <1>4, <1>6, <1>8, <1>9

-----------------------------------------------------------------------------
(* Before its first request the client has seen nothing.                   *)
LEMMA InitInv == Init => PagingInv
<1> SUFFICES ASSUME Init PROVE PagingInv
  OBVIOUS
<1>1. 1 \in 1 .. MaxInt /\ <<>> \in Seq(Articles)
  BY PagingAssumption
<1> QED
  BY <1>1 DEF Init, PagingInv, TypeOK, NotBehind, ScrolledSoFar

(* What a handler serves has the type of served.                           *)
LEMMA ServeType ==
  ASSUME TypeOK, NEW p \in 1 .. MaxInt, NEW size \in 1 .. MaxInt, Serve(p, size)
  PROVE  /\ list' = list /\ page' = p /\ pageSize' = size
         /\ served' = PaginateArticles(list, p, size)
         /\ served' \in Seq(Articles) \union {Panic}
BY PageProperties DEF TypeOK, Serve

(* Every step preserves the invariant.                                     *)
LEMMA NextInv ==
  ASSUME PagingInv, [Next]_vars
  PROVE  PagingInv'
<1> USE DEF Requestable
<1>1. TypeOK /\ NotBehind /\ ScrolledSoFar
  BY DEF PagingInv
<1>2. list \in Lists /\ <<>> \in Seq(Articles) /\ MaxInt \in Nat \ {0}
  BY <1>1, PagingAssumption DEF TypeOK
<1>3. CASE FirstPage
  <2>1. PICK size \in 1 .. MaxInt : Serve(1, size)
    BY <1>3 DEF FirstPage
  <2>2. calm' = TRUE /\ seen' = served'
    BY <1>3 DEF FirstPage
  <2>3. /\ list' = list /\ page' = 1 /\ pageSize' = size
        /\ served' = PaginateArticles(list, 1, size)
        /\ served' \in Seq(Articles) \union {Panic}
    <3>1. 1 \in 1 .. MaxInt
      BY <1>2
    <3> QED
      BY <1>1, <2>1, <3>1, ServeType
  <2>4. /\ served' # Panic
        /\ served' # <<>> <=> 0 < Len(list)
        /\ served' = SubSeq(list, 1, Least(1 * size, Len(list)))
    BY <1>2, <2>3, ScrollBegins
  <2>5. (1 - 1) * size = 0
    OBVIOUS
  <2>6. TypeOK'
    BY <1>1, <1>2, <2>2, <2>3, <2>4 DEF TypeOK
  <2>7. NotBehind'
    BY <2>3, <2>4, <2>5 DEF NotBehind
  <2>8. ScrolledSoFar'
    BY <2>2, <2>3, <2>4 DEF ScrolledSoFar
  <2> QED
    BY <2>6, <2>7, <2>8 DEF PagingInv
<1>4. CASE FollowingPage
  <2>1. /\ served # <<>> /\ served # Panic /\ page < MaxInt
        /\ Serve(page + 1, pageSize)
        /\ seen' = IF calm THEN seen \o served' ELSE <<>>
        /\ calm' = calm
    BY <1>4 DEF FollowingPage
  <2>2. page \in 1 .. MaxInt /\ page + 1 \in 1 .. MaxInt /\ pageSize \in 1 .. MaxInt
    BY <1>1, <1>2, <2>1 DEF TypeOK
  <2>3. /\ list' = list /\ page' = page + 1 /\ pageSize' = pageSize
        /\ served' = PaginateArticles(list, page + 1, pageSize)
        /\ served' \in Seq(Articles) \union {Panic}
    BY <1>1, <2>1, <2>2, ServeType
  <2>4. ASSUME calm
        PROVE  /\ served' # Panic
               /\ served' # <<>> <=> page * pageSize < Len(list)
               /\ seen \o served' = SubSeq(list, 1, Least((page + 1) * pageSize, Len(list)))
    <3>1. (page - 1) * pageSize < Len(list)
      BY <1>1, <2>1, <2>4 DEF NotBehind
    <3>2. seen = SubSeq(list, 1, Least(page * pageSize, Len(list)))
      BY <1>1, <2>4 DEF ScrolledSoFar
    <3> QED
      BY <1>2, <2>1, <2>2, <2>3, <3>1, <3>2, ScrollOn
  <2>5. seen' \in Seq(Articles)
    <3>1. CASE calm
      <4>1. served' \in Seq(Articles) /\ seen \in Seq(Articles)
        BY <1>1, <2>3, <2>4, <3>1 DEF TypeOK
      <4> QED
        BY <2>1, <3>1, <4>1, ConcatProperties
    <3>2. CASE ~calm
      BY <1>2, <2>1, <3>2
    <3> QED
      BY <3>1, <3>2
  <2>6. TypeOK'
    BY <1>1, <2>1, <2>2, <2>3, <2>5 DEF TypeOK
  <2>7. NotBehind'
    <3>1. ((page + 1) - 1) * pageSize = page * pageSize
      BY <2>2
    <3> QED
      BY <2>1, <2>3, <2>4, <3>1 DEF NotBehind
  <2>8. ScrolledSoFar'
    BY <2>1, <2>3, <2>4 DEF ScrolledSoFar
  <2> QED
    BY <2>6, <2>7, <2>8 DEF PagingInv
<1>5. CASE AnyPage
  <2>1. PICK p \in 1 .. MaxInt, size \in 1 .. MaxInt : Serve(p, size)
    BY <1>5 DEF AnyPage
  <2>2. calm' = FALSE /\ seen' = <<>>
    BY <1>5 DEF AnyPage
  <2>3. /\ list' = list /\ page' = p /\ pageSize' = size
        /\ served' \in Seq(Articles) \union {Panic}
    BY <1>1, <2>1, ServeType
  <2> QED
    BY <1>1, <1>2, <2>2, <2>3 DEF PagingInv, TypeOK, NotBehind, ScrolledSoFar
<1>6. CASE Publish
  BY <1>1, <1>2, <1>6 DEF Publish, PagingInv, TypeOK, NotBehind, ScrolledSoFar
<1>7. CASE UNCHANGED vars
  BY <1>1, <1>7 DEF vars, PagingInv, TypeOK, NotBehind, ScrolledSoFar
<1> QED
  BY <1>3, <1>4, <1>5, <1>6, <1>7 DEF Next

(* The inductive invariant of the pages holds.                             *)
THEOREM Invariance == Spec => []PagingInv
<1>1. PagingInv /\ [Next]_vars => PagingInv'
  BY NextInv
<1> QED
  BY <1>1, InitInv, PTL DEF Spec

(* What the handlers serve is a sequence of articles, or Panic; what a     *)
(* scrolling client has seen never includes a Panic.                       *)
THEOREM TypeCorrect == Spec => []TypeOK
<1>1. PagingInv => TypeOK
  BY DEF PagingInv
<1> QED
  BY <1>1, Invariance, PTL

(* A client that scrolls with PaginateArticles sees each article once, for *)
(* every page size and every width of int.                                 *)
THEOREM ScrolledSoFarHolds == Spec => []ScrolledSoFar
<1>1. PagingInv => ScrolledSoFar
  BY DEF PagingInv
<1> QED
  BY <1>1, Invariance, PTL

(* A client that stops when it is served an empty page, because it cannot  *)
(* know the number of the pages, has seen the whole list: PaginateArticles *)
(* has no empty page in the middle, and serves a last one that is not full.*)
THEOREM ScrolledAllHolds == Spec => [](calm /\ served = <<>> => seen = list)
<1>1. ASSUME PagingInv, calm, served = <<>>
      PROVE  seen = list
  <2>1. TypeOK /\ NotBehind /\ ScrolledSoFar
    BY <1>1 DEF PagingInv
  <2>2. /\ list \in Seq(Articles) /\ Len(list) \in Nat
        /\ page \in Nat \ {0} /\ pageSize \in Nat \ {0}
    BY <2>1, ListType, PagingAssumption DEF TypeOK
  <2>3. ~((page - 1) * pageSize < Len(list)) /\ (page - 1) * pageSize \in Nat
    BY <1>1, <2>1, <2>2 DEF NotBehind
  <2>4. page * pageSize = (page - 1) * pageSize + pageSize
    BY <2>2
  <2>5. Least(page * pageSize, Len(list)) = Len(list)
    BY <2>2, <2>3, <2>4 DEF Least
  <2>6. seen = SubSeq(list, 1, Len(list))
    BY <1>1, <2>1, <2>5 DEF ScrolledSoFar
  <2> QED
    BY <2>2, <2>6, SubSeqFull
<1>2. PagingInv => (calm /\ served = <<>> => seen = list)
  BY <1>1
<1> QED
  BY <1>2, Invariance, PTL

(* Whatever overflows in PaginateArticles, it panics or serves consecutive *)
(* articles.                                                               *)
THEOREM PartServedHolds == Spec => PartServed
<1>1. ASSUME TypeOK, NEW p \in Requestable, NEW size \in Requestable,
             Serve(p, size), served' # Panic
      PROVE  \E low \in 0 .. Len(list), n \in 0 .. size :
                low + n <= Len(list) /\ served' = SubSeq(list, low + 1, low + n)
  <2>1. p \in 1 .. MaxInt /\ size \in 1 .. MaxInt /\ list \in Lists
    BY <1>1 DEF Requestable, TypeOK
  <2>2. served' = PaginateArticles(list, p, size)
    BY <1>1 DEF Serve
  <2> QED
    BY <1>1, <2>1, <2>2, PageProperties
<1>2. TypeOK /\ [Next]_vars =>
         [\A p, size \in Requestable :
            Serve(p, size) /\ served' # Panic =>
               \E low \in 0 .. Len(list), n \in 0 .. size :
                  low + n <= Len(list) /\ served' = SubSeq(list, low + 1, low + n)]_vars
  BY <1>1
<1> QED
  BY <1>2, TypeCorrect, PTL DEF Spec, PartServed
=============================================================================
