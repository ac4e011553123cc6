-------------------------- MODULE NewsSystem_proofs --------------------------
(***************************************************************************)
(* Proofs about Fetcher, for any targets, articles, page size, length of   *)
(* the listings and deviation of totalResults, and about NewsSystem: the   *)
(* main loop with its pages is the one of NewsCurator, and the clients     *)
(* beside it are those of NewsFeed, so that what NewsFeed_proofs says of   *)
(* these holds of the whole.                                               *)
(***************************************************************************)
EXTENDS NewsSystem, NewsFeed_proofs, SequenceTheorems

(* What was fetched of a listing that stood still is its beginning.        *)
FetchedIsPrefix ==
    target # NoTarget /\ ~moved /\ surplus <= 0 =>
        /\ Len(fetched) <= Len(listing)
        /\ fetched = SubSeq(listing, 1, Len(fetched))

(* Every article that stays listed and is in a place before the next page  *)
(* was fetched.                                                            *)
LastingSoFar ==
    target # NoTarget =>
        /\ lasting \subseteq ArticlesIn(listing)
        /\ ~pulled /\ surplus <= 0 => \A i \in DOMAIN listing :
              i <= (page - 1) * PageSize /\ listing[i] \in lasting => listing[i] \in ArticlesIn(fetched)

FetcherInv == FetcherTypeOK /\ PagesFull /\ FetchedIsPrefix /\ LastingSoFar

-----------------------------------------------------------------------------
(* The targets that are wanted are targets.                                *)
LEMMA WantedType == Wanted \subseteq Targets /\ NoTarget \notin Wanted
BY FetcherAssumption DEF Wanted, Targets

(* The number of the articles on the pages before page p.                  *)
LEMMA BeforeType ==
  ASSUME NEW p \in Nat \ {0}
  PROVE  /\ (p - 1) * PageSize \in Nat /\ p * PageSize \in Nat
         /\ p * PageSize = (p - 1) * PageSize + PageSize
         /\ PageSize \in Nat \ {0}
<1>1. PageSize \in Nat \ {0} /\ p - 1 \in Nat
  BY FetcherAssumption
<1> QED
  BY <1>1

(* A page has the articles behind those of the pages before it: all the    *)
(* places are filled if the listing goes on, and none if it has ended.     *)
LEMMA PageProperties ==
  ASSUME NEW list \in Seq(Articles), NEW p \in Nat \ {0},
         NEW before \in Nat, before = (p - 1) * PageSize
  PROVE  /\ PageOf(list, p) \in Seq(Articles)
         /\ before + PageSize < Len(list) =>
               /\ PageOf(list, p) = SubSeq(list, before + 1, before + PageSize)
               /\ Len(PageOf(list, p)) = PageSize
         /\ before <= Len(list) /\ ~(before + PageSize < Len(list)) =>
               /\ PageOf(list, p) = SubSeq(list, before + 1, Len(list))
               /\ Len(PageOf(list, p)) = Len(list) - before
         /\ before > Len(list) => Len(PageOf(list, p)) = 0
<1> DEFINE last == IF before + PageSize < Len(list) THEN before + PageSize ELSE Len(list)
<1>1. /\ Len(list) \in Nat /\ PageSize \in Nat \ {0}
      /\ p * PageSize = before + PageSize
  BY BeforeType
<1>2. last \in Nat /\ last <= Len(list)
  BY <1>1
<1>3. PageOf(list, p) = SubSeq(list, before + 1, last)
  BY <1>1 DEF PageOf
<1>4. \A i \in before + 1 .. last : list[i] \in Articles
  BY <1>1, <1>2
<1>5. /\ PageOf(list, p) \in Seq(Articles)
      /\ Len(PageOf(list, p)) = IF before + 1 <= last THEN last - (before + 1) + 1 ELSE 0
  <2> HIDE DEF last
  <2>1. before + 1 \in Int /\ last \in Int
    BY <1>2
  <2>2. /\ SubSeq(list, before + 1, last) \in Seq(Articles)
        /\ Len(SubSeq(list, before + 1, last)) =
              IF before + 1 <= last THEN last - (before + 1) + 1 ELSE 0
    BY <1>4, <2>1, SubSeqProperties
  <2> QED
    BY <1>3, <2>2
<1>6. CASE before + PageSize < Len(list)
  BY <1>1, <1>3, <1>5, <1>6
<1>7. CASE ~(before + PageSize < Len(list))
  <2>1. last = Len(list)
    BY <1>7
  <2>2. PageOf(list, p) = SubSeq(list, before + 1, Len(list))
    BY <1>3, <2>1
  <2> DEFINE number == Len(PageOf(list, p))
  <2>3. number = IF before + 1 <= Len(list) THEN Len(list) - (before + 1) + 1 ELSE 0
    BY <1>5, <2>1
  <2>4. Len(list) \in Nat
    OBVIOUS
  <2> HIDE DEF last, number
  <2>5. before <= Len(list) => number = Len(list) - before
    BY <2>3, <2>4
  <2>6. before > Len(list) => number = 0
    BY <2>3, <2>4
  <2> USE DEF number
  <2> QED
    BY <1>5, <1>7, <2>2, <2>5, <2>6
<1> QED
  BY <1>6, <1>7

(* The articles in front of and behind a place.                            *)
LEMMA ArticlesInConcat ==
  ASSUME NEW s \in Seq(Articles), NEW t \in Seq(Articles)
  PROVE  ArticlesIn(s) \subseteq ArticlesIn(s \o t) /\ ArticlesIn(t) \subseteq ArticlesIn(s \o t)
<1>1. /\ DOMAIN (s \o t) = 1 .. Len(s) + Len(t)
      /\ DOMAIN s = 1 .. Len(s) /\ DOMAIN t = 1 .. Len(t)
      /\ Len(s) \in Nat /\ Len(t) \in Nat
      /\ \A i \in 1 .. Len(s) : (s \o t)[i] = s[i]
      /\ \A i \in 1 .. Len(t) : (s \o t)[Len(s) + i] = t[i]
  OBVIOUS
<1>2. \A i \in 1 .. Len(s) : i \in 1 .. Len(s) + Len(t)
  BY <1>1
<1>3. \A i \in 1 .. Len(t) : Len(s) + i \in 1 .. Len(s) + Len(t)
  BY <1>1
<1> QED
  BY <1>1, <1>2, <1>3, Zenon DEF ArticlesIn

(* An article in a place of the page is on the page.                       *)
LEMMA PageHolds ==
  ASSUME NEW list \in Seq(Articles), NEW p \in Nat \ {0}, NEW i \in DOMAIN list,
         (p - 1) * PageSize < i, i <= (p - 1) * PageSize + PageSize
  PROVE  list[i] \in ArticlesIn(PageOf(list, p))
<1> DEFINE before == (p - 1) * PageSize
           last == IF before + PageSize < Len(list) THEN before + PageSize ELSE Len(list)
<1>1. /\ before \in Nat /\ PageSize \in Nat \ {0} /\ Len(list) \in Nat
      /\ i \in 1 .. Len(list) /\ before < i /\ i <= before + PageSize
      /\ p * PageSize = before + PageSize
  <2>1. before \in Nat /\ PageSize \in Nat \ {0} /\ p * PageSize = before + PageSize
    BY BeforeType
  <2>2. Len(list) \in Nat /\ i \in 1 .. Len(list)
    OBVIOUS
  <2> QED
    BY <2>1, <2>2
<1>2. PageOf(list, p) = SubSeq(list, before + 1, last)
  BY <1>1, Zenon DEF PageOf
<1> HIDE DEF before
<1>3. last \in Nat /\ before + 1 <= i /\ i <= last /\ last <= Len(list)
  BY <1>1
<1> HIDE DEF last
<1>4. \A j \in before + 1 .. last : list[j] \in Articles
  BY <1>1, <1>3
<1>5. /\ Len(SubSeq(list, before + 1, last)) = last - before
      /\ \A j \in 1 .. last - before : SubSeq(list, before + 1, last)[j] = list[before + j]
      /\ SubSeq(list, before + 1, last) \in Seq(Articles)
  BY <1>1, <1>3, <1>4, SubSeqProperties
<1>6. /\ i - before \in 1 .. last - before /\ before + (i - before) = i
      /\ DOMAIN SubSeq(list, before + 1, last) = 1 .. last - before
  BY <1>1, <1>3, <1>5
<1>7. SubSeq(list, before + 1, last)[i - before] = list[i]
  BY <1>5, <1>6
<1> QED
  BY <1>2, <1>6, <1>7, Zenon DEF ArticlesIn

(* What a target has fetched is a set of articles.                         *)
LEMMA StoreType ==
  ASSUME FetcherTypeOK, NEW result \in Seq(Articles), target \in Wanted, StoreResponse(result)
  PROVE  /\ responses' \in [Targets -> SUBSET Articles]
         /\ left' \subseteq Targets /\ target' = NoTarget /\ raw' = raw
<1>1. ArticlesIn(result) \in SUBSET Articles
  BY DEF ArticlesIn
<1> QED
  BY <1>1 DEF FetcherTypeOK, StoreResponse

-----------------------------------------------------------------------------
(* Nothing is fetched yet.                                                 *)
LEMMA NothingFetchedInv == NothingFetched => FetcherInv
<1> SUFFICES ASSUME NothingFetched PROVE FetcherInv
  OBVIOUS
<1>1. <<>> \in Seq(Articles) /\ Len(<<>>) = 0 /\ MaxListing \in Nat
  BY FetcherAssumption
<1>2. FetcherTypeOK
  <2>1. target \in Targets \union {NoTarget} /\ left \subseteq Targets
    BY <1>1 DEF NothingFetched
  <2>2. page \in Nat \ {0} /\ surplus \in Int
    BY <1>1 DEF NothingFetched
  <2>3. moved \in BOOLEAN /\ pulled \in BOOLEAN /\ lasting \subseteq Articles
    BY <1>1 DEF NothingFetched
  <2>4. responses \in [Targets -> SUBSET Articles]
    BY <1>1 DEF NothingFetched
  <2>5. fetched \in Seq(Articles)
    BY <1>1 DEF NothingFetched
  <2>6. listing \in Seq(Articles) /\ Len(listing) <= MaxListing
    BY <1>1 DEF NothingFetched
  <2> QED
    BY <2>1, <2>4, <2>5, <2>6, <2>2, <2>3 DEF FetcherTypeOK
<1>3. target = NoTarget
  BY DEF NothingFetched
<1> QED
  BY <1>2, <1>3 DEF FetcherInv, PagesFull, FetchedIsPrefix, LastingSoFar

(* The variables of a function that has returned.                          *)
LEMMA ForgetInv ==
  ASSUME FetcherTypeOK, Forget, target' = NoTarget, left' \subseteq Targets
  PROVE  FetcherInv'
<1>1. <<>> \in Seq(Articles) /\ Len(<<>>) = 0 /\ MaxListing \in Nat
  BY FetcherAssumption
<1>2. FetcherTypeOK'
  <2>1. target' \in Targets \union {NoTarget} /\ left' \subseteq Targets
    BY <1>1 DEF Forget, FetcherTypeOK
  <2>2. page' \in Nat \ {0} /\ surplus' \in Int
    BY <1>1 DEF Forget, FetcherTypeOK
  <2>3. moved' \in BOOLEAN /\ pulled' \in BOOLEAN /\ lasting' \subseteq Articles
    BY <1>1 DEF Forget, FetcherTypeOK
  <2>4. responses' \in [Targets -> SUBSET Articles]
    BY <1>1 DEF Forget, FetcherTypeOK
  <2>5. fetched' \in Seq(Articles)
    BY <1>1 DEF Forget, FetcherTypeOK
  <2>6. listing' \in Seq(Articles) /\ Len(listing') <= MaxListing
    BY <1>1 DEF Forget, FetcherTypeOK
  <2> QED
    BY <2>1, <2>4, <2>5, <2>6, <2>2, <2>3 DEF FetcherTypeOK
<1> QED
  BY <1>2 DEF FetcherInv, PagesFull, FetchedIsPrefix, LastingSoFar

(* The next country or category.                                           *)
LEMMA NextTargetInv ==
  ASSUME FetcherInv, NextTarget
  PROVE  FetcherInv'
<1>1. /\ target' \in Targets /\ page' = 1 /\ fetched' = <<>> /\ moved' = FALSE
      /\ lasting' = ArticlesIn(listing') /\ pulled' = FALSE
      /\ UNCHANGED <<left, responses>>
  BY WantedType DEF NextTarget
<1>2. listing' \in Seq(Articles) /\ Len(listing') \in Nat /\ Len(listing') <= MaxListing
  <2>1. PICK n \in 0 .. MaxListing : listing' \in [1 .. n -> Articles]
    BY DEF NextTarget, Listings
  <2>2. MaxListing \in Nat
    BY FetcherAssumption
  <2> QED
    BY <2>1, <2>2
<1>3. surplus' \in Int /\ MaxListing \in Nat /\ PageSize \in Nat
  BY FetcherAssumption DEF NextTarget
<1>4. FetcherTypeOK'
  <2>1. target' \in Targets \union {NoTarget} /\ left' \subseteq Targets
    BY <1>1, <1>2, <1>3 DEF FetcherInv, FetcherTypeOK
  <2>2. page' \in Nat \ {0} /\ surplus' \in Int
    BY <1>1, <1>2, <1>3 DEF FetcherInv, FetcherTypeOK
  <2>3. moved' \in BOOLEAN /\ pulled' \in BOOLEAN /\ lasting' \subseteq Articles
    <3>1. ArticlesIn(listing') \subseteq Articles
      BY <1>2 DEF ArticlesIn
    <3> QED
      BY <1>1, <3>1
  <2>4. responses' \in [Targets -> SUBSET Articles]
    BY <1>1, <1>2, <1>3 DEF FetcherInv, FetcherTypeOK
  <2>5. fetched' \in Seq(Articles)
    BY <1>1, <1>2, <1>3 DEF FetcherInv, FetcherTypeOK
  <2>6. listing' \in Seq(Articles) /\ Len(listing') <= MaxListing
    BY <1>1, <1>2, <1>3 DEF FetcherInv, FetcherTypeOK
  <2> QED
    BY <2>1, <2>4, <2>5, <2>6, <2>2, <2>3 DEF FetcherTypeOK
<1>5. Len(fetched') = 0 /\ (page' - 1) * PageSize = 0
  BY <1>1, <1>3
<1>6. SubSeq(listing', 1, 0) = <<>>
  BY SubSeqEmpty
<1>7. PagesFull' /\ FetchedIsPrefix'
  BY <1>1, <1>2, <1>3, <1>5, <1>6 DEF PagesFull, FetchedIsPrefix
<1>8. LastingSoFar'
  BY <1>1, <1>2, <1>5 DEF LastingSoFar
<1> QED
  BY <1>4, <1>7, <1>8 DEF FetcherInv

(* What was fetched, and page page, when totalResults is not overstated.   *)
LEMMA AllFetched ==
  ASSUME FetcherInv, target # NoTarget, surplus <= 0,
         NEW all, all = fetched \o PageOf(listing, page)
  PROVE  /\ Len(fetched) = (page - 1) * PageSize
         /\ Len(fetched) + PageSize < Len(listing) => Len(all) = Len(fetched) + PageSize
         /\ ~(Len(fetched) + PageSize < Len(listing)) => Len(all) >= Len(listing)
         /\ ~moved => all = SubSeq(listing, 1, IF Len(fetched) + PageSize < Len(listing)
                                               THEN Len(fetched) + PageSize ELSE Len(listing))
<1> DEFINE before == Len(fetched)
           more == PageOf(listing, page)
<1>1. /\ fetched \in Seq(Articles) /\ listing \in Seq(Articles) /\ page \in Nat \ {0}
      /\ before = (page - 1) * PageSize
      /\ ~moved => before <= Len(listing) /\ fetched = SubSeq(listing, 1, before)
  BY DEF FetcherInv, FetcherTypeOK, PagesFull, FetchedIsPrefix
<1>2. before \in Nat /\ Len(listing) \in Nat /\ PageSize \in Nat \ {0}
  BY <1>1, BeforeType
<1>3. /\ more \in Seq(Articles)
      /\ before + PageSize < Len(listing) =>
            /\ more = SubSeq(listing, before + 1, before + PageSize)
            /\ Len(more) = PageSize
      /\ before <= Len(listing) /\ ~(before + PageSize < Len(listing)) =>
            /\ more = SubSeq(listing, before + 1, Len(listing))
            /\ Len(more) = Len(listing) - before
      /\ before > Len(listing) => Len(more) = 0
  <2> HIDE DEF before
  <2> QED
    BY <1>1, <1>2, PageProperties
<1>4. Len(all) = before + Len(more)
  BY <1>1, <1>3, ConcatProperties
<1> HIDE DEF before, more
<1>5. before + PageSize < Len(listing) => Len(all) = before + PageSize
  BY <1>3, <1>4
<1>6. ~(before + PageSize < Len(listing)) => Len(all) >= Len(listing)
  BY <1>2, <1>3, <1>4
<1>7. ASSUME ~moved
      PROVE  all = SubSeq(listing, 1, IF before + PageSize < Len(listing)
                                      THEN before + PageSize ELSE Len(listing))
  <2>1. 1 \in 1 .. Len(listing) + 1 /\ before \in 1 - 1 .. Len(listing)
    BY <1>1, <1>2, <1>7
  <2>2. all = SubSeq(listing, 1, before) \o more
    BY <1>1, <1>7 DEF more
  <2>3. CASE before + PageSize < Len(listing)
    <3>1. before + PageSize \in before .. Len(listing)
      BY <1>2, <2>3
    <3>2. SubSeq(listing, 1, before) \o SubSeq(listing, before + 1, before + PageSize)
            = SubSeq(listing, 1, before + PageSize)
      BY <1>1, <2>1, <3>1, ConcatAdjacentSubSeq
    <3> QED
      BY <1>3, <2>2, <2>3, <3>2
  <2>4. CASE ~(before + PageSize < Len(listing))
    <3>1. Len(listing) \in before .. Len(listing) /\ before <= Len(listing)
      BY <1>1, <1>2, <1>7
    <3>2. SubSeq(listing, 1, before) \o SubSeq(listing, before + 1, Len(listing))
            = SubSeq(listing, 1, Len(listing))
      BY <1>1, <2>1, <3>1, ConcatAdjacentSubSeq
    <3>3. more = SubSeq(listing, before + 1, Len(listing))
      BY <1>3, <2>4, <3>1
    <3> QED
      BY <2>2, <2>4, <3>2, <3>3, Zenon
  <2> QED
    BY <2>3, <2>4
<1> QED
  BY <1>1, <1>5, <1>6, <1>7 DEF before

(* NewsAPICaller returns a page; a target that is done had a listing that  *)
(* stood still, or has it completely.                                      *)
LEMMA FetchPageInv ==
  ASSUME FetcherInv, FetchPage
  PROVE  /\ FetcherInv' /\ raw' = raw
         /\ target' = NoTarget /\ ~moved /\ surplus = 0 => fetched' = listing
         /\ target' = NoTarget /\ ~pulled /\ surplus = 0 => lasting \subseteq ArticlesIn(fetched')
<1> DEFINE all == fetched \o PageOf(listing, page)
<1>1. FetcherTypeOK /\ PagesFull /\ FetchedIsPrefix /\ LastingSoFar
  BY DEF FetcherInv
<1>2. /\ target \in Wanted /\ target \in Targets /\ target # NoTarget
      /\ fetched' = all
      /\ UNCHANGED <<listing, surplus, moved, lasting, pulled>>
  BY WantedType DEF FetchPage
<1>3. /\ fetched \in Seq(Articles) /\ listing \in Seq(Articles) /\ page \in Nat \ {0}
      /\ Len(listing) \in Nat /\ Len(listing) <= MaxListing /\ surplus \in Int
      /\ PageSize \in Nat \ {0} /\ MaxListing \in Nat
  BY <1>1, FetcherAssumption DEF FetcherTypeOK
<1>4. all \in Seq(Articles) /\ Len(all) \in Nat
  <2>1. (page - 1) * PageSize \in Nat
    BY <1>3, BeforeType
  <2>2. PageOf(listing, page) \in Seq(Articles)
    BY <1>3, <2>1, PageProperties
  <2>3. all \in Seq(Articles)
    BY <1>3, <2>2, ConcatProperties
  <2> QED
    BY <2>3
<1>5. surplus <= 0 =>
         /\ Len(fetched) = (page - 1) * PageSize
         /\ Len(fetched) + PageSize < Len(listing) => Len(all) = Len(fetched) + PageSize
         /\ ~(Len(fetched) + PageSize < Len(listing)) => Len(all) >= Len(listing)
         /\ ~moved => all = SubSeq(listing, 1, IF Len(fetched) + PageSize < Len(listing)
                                               THEN Len(fetched) + PageSize ELSE Len(listing))
  <2> HIDE DEF all
  <2>1. all = fetched \o PageOf(listing, page)
    BY DEF all
  <2> QED
    BY <1>2, <2>1, AllFetched
<1>6. ASSUME ~pulled, surplus <= 0, NEW i \in DOMAIN listing, listing[i] \in lasting,
             i <= Len(fetched) + PageSize
      PROVE  listing[i] \in ArticlesIn(all)
  <2>1. Len(fetched) = (page - 1) * PageSize /\ Len(fetched) \in Nat /\ i \in Nat
    BY <1>3, <1>5, <1>6
  <2>2. PageOf(listing, page) \in Seq(Articles)
    BY <1>3, <2>1, PageProperties
  <2>3. CASE i <= Len(fetched)
    <3>1. listing[i] \in ArticlesIn(fetched)
      BY <1>1, <1>2, <1>6, <2>1, <2>3 DEF LastingSoFar
    <3> QED
      BY <1>3, <2>2, <3>1, ArticlesInConcat
  <2>4. CASE Len(fetched) < i
    <3>1. listing[i] \in ArticlesIn(PageOf(listing, page))
      BY <1>3, <1>6, <2>1, <2>4, PageHolds
    <3> QED
      BY <1>3, <2>2, <3>1, ArticlesInConcat
  <2> QED
    BY <2>1, <2>3, <2>4
<1>7. CASE Enough(Len(all), Len(listing) + surplus)
  <2>1. StoreResponse(all) /\ page' = page
    BY <1>7 DEF FetchPage
  <2>2. /\ responses' \in [Targets -> SUBSET Articles]
        /\ left' \subseteq Targets /\ target' = NoTarget /\ raw' = raw
    BY <1>1, <1>2, <1>4, <2>1, StoreType
  <2>3. FetcherTypeOK'
    <3> HIDE DEF all
    <3> QED
      BY <1>1, <1>2, <1>4, <2>1, <2>2 DEF FetcherTypeOK
  <2>4. ASSUME surplus = 0
        PROVE  ~(Len(fetched) + PageSize < Len(listing))
    <3>1. Len(all) >= Len(listing)
      BY <1>3, <1>7, <2>4 DEF Enough
    <3>2. Len(fetched) + PageSize < Len(listing) => Len(all) < Len(listing)
      BY <1>3, <1>5, <2>4
    <3> HIDE DEF all
    <3> QED
      BY <1>3, <1>4, <3>1, <3>2
  <2>5. ASSUME ~moved, surplus = 0
        PROVE  all = listing
    <3>1. all = SubSeq(listing, 1, Len(listing))
      BY <1>5, <2>4, <2>5
    <3> QED
      BY <1>3, <3>1, SubSeqFull
  <2>6. ASSUME ~pulled, surplus = 0
        PROVE  lasting \subseteq ArticlesIn(all)
    <3>1. ASSUME NEW i \in DOMAIN listing, listing[i] \in lasting
          PROVE  listing[i] \in ArticlesIn(all)
      <4>1. i <= Len(listing) /\ i \in Nat /\ Len(fetched) \in Nat
        BY <1>3
      <4>2. i <= Len(fetched) + PageSize
        BY <1>3, <2>4, <2>6, <4>1
      <4> QED
        BY <1>6, <2>6, <3>1, <4>2
    <3>2. lasting \subseteq ArticlesIn(listing)
      BY <1>1, <1>2 DEF LastingSoFar
    <3> QED
      BY <3>1, <3>2 DEF ArticlesIn
  <2> QED
    BY <1>2, <2>2, <2>3, <2>5, <2>6 DEF FetcherInv, PagesFull, FetchedIsPrefix, LastingSoFar
<1>8. CASE ~Enough(Len(all), Len(listing) + surplus)
  <2>1. page' = Following(page) /\ UNCHANGED <<target, left, responses, raw>>
    BY <1>8 DEF FetchPage
  <2>2. page' \in Nat \ {0}
    BY <1>3, <2>1 DEF Following
  <2>3. FetcherTypeOK'
    <3> HIDE DEF all
    <3> QED
      BY <1>1, <1>2, <1>4, <2>1, <2>2 DEF FetcherTypeOK
  <2>4. ASSUME surplus <= 0
        PROVE  /\ Len(all) = (page' - 1) * PageSize /\ Len(all) <= Len(listing)
               /\ Len(all) = Len(fetched) + PageSize
               /\ ~moved => all = SubSeq(listing, 1, Len(all))
    <3>1. Len(all) < Len(listing)
      <4> HIDE DEF all
      <4> QED
        BY <1>3, <1>4, <1>8, <2>4 DEF Enough
    <3>2. Len(fetched) + PageSize < Len(listing)
      <4> HIDE DEF all
      <4> QED
        BY <1>3, <1>4, <1>5, <2>4, <3>1
    <3>3. page' = page + 1
      <4>1. (page - 1) * PageSize < MaxListing
        BY <1>3, <1>5, <2>4, <3>2
      <4>2. (page - 2) * PageSize = (page - 1) * PageSize - PageSize
        BY <1>3
      <4>3. (page - 1) * PageSize \in Nat
        BY <1>3, BeforeType
      <4>4. ~((page - 2) * PageSize >= MaxListing)
        BY <1>3, <4>1, <4>2, <4>3
      <4> QED
        BY <2>1, <4>4 DEF Following
    <3>4. ((page + 1) - 1) * PageSize = (page - 1) * PageSize + PageSize
      BY <1>3
    <3>5. Len(all) = Len(fetched) + PageSize
      BY <1>5, <2>4, <3>2
    <3>6. ~moved => all = SubSeq(listing, 1, Len(fetched) + PageSize)
      BY <1>5, <2>4, <3>2
    <3> HIDE DEF all
    <3> QED
      BY <1>3, <1>5, <2>4, <3>2, <3>3, <3>4, <3>5, <3>6
  <2>5. PagesFull' /\ FetchedIsPrefix'
    <3> HIDE DEF all
    <3> QED
      BY <1>2, <1>3, <1>4, <2>1, <2>4 DEF PagesFull, FetchedIsPrefix
  <2>6. LastingSoFar'
    <3>1. lasting' \subseteq ArticlesIn(listing')
      BY <1>1, <1>2 DEF LastingSoFar
    <3>2. ASSUME ~pulled', surplus' <= 0, NEW i \in DOMAIN listing',
                 i <= (page' - 1) * PageSize, listing'[i] \in lasting'
          PROVE  listing'[i] \in ArticlesIn(fetched')
      <4>1. Len(fetched) + PageSize = (page' - 1) * PageSize
        BY <1>2, <2>4, <3>2
      <4> HIDE DEF all
      <4> QED
        BY <1>2, <1>6, <3>2, <4>1
    <3> QED
      BY <3>1, <3>2 DEF LastingSoFar
  <2>7. target' # NoTarget
    BY <1>2, <2>1
  <2> QED
    BY <2>1, <2>3, <2>5, <2>6, <2>7 DEF FetcherInv
<1> QED
  BY <1>7, <1>8

(* NewsAPICaller returns an error: what was fetched is stored.             *)
LEMMA FetchFailsInv ==
  ASSUME FetcherInv, FetchFails
  PROVE  FetcherInv' /\ raw' = raw
<1>1. FetcherTypeOK
  BY DEF FetcherInv
<1>2. /\ target \in Wanted /\ StoreResponse(fetched)
      /\ UNCHANGED <<page, fetched, listing, surplus, moved, lasting, pulled>>
  BY DEF FetchFails
<1>3. /\ responses' \in [Targets -> SUBSET Articles]
      /\ left' \subseteq Targets /\ target' = NoTarget /\ raw' = raw
  BY <1>1, <1>2, StoreType DEF FetcherTypeOK
<1>4. FetcherTypeOK'
  BY <1>1, <1>2, <1>3 DEF FetcherTypeOK
<1> QED
  BY <1>3, <1>4 DEF FetcherInv, PagesFull, FetchedIsPrefix, LastingSoFar

(* An article that is published moves the places behind those whose        *)
(* articles were fetched.                                                  *)
LEMMA SourcePublishesInv ==
  ASSUME FetcherInv, target # NoTarget, SourcePublishes,
         UNCHANGED <<target, page, fetched, surplus>>
  PROVE  /\ listing' \in Seq(Articles) /\ Len(listing') <= MaxListing
         /\ lasting' \subseteq Articles /\ pulled' \in BOOLEAN
         /\ LastingSoFar'
<1>1. FetcherTypeOK /\ LastingSoFar
  BY DEF FetcherInv
<1>2. PICK a \in Articles \ ArticlesIn(listing) : listing' = <<a>> \o listing
  BY DEF SourcePublishes
<1>3. /\ listing \in Seq(Articles) /\ Len(listing) \in Nat /\ MaxListing \in Nat
      /\ Len(listing) < MaxListing /\ lasting' = lasting /\ pulled' = pulled
  BY <1>1, FetcherAssumption DEF FetcherTypeOK, SourcePublishes
<1>4. <<a>> \in Seq(Articles) /\ Len(<<a>>) = 1
  OBVIOUS
<1>5. /\ listing' \in Seq(Articles) /\ Len(listing') = 1 + Len(listing)
      /\ DOMAIN listing' = 1 .. 1 + Len(listing) /\ DOMAIN listing = 1 .. Len(listing)
      /\ listing'[1] = a
      /\ \A i \in 2 .. 1 + Len(listing) : listing'[i] = listing[i - 1]
  BY <1>2, <1>3, <1>4
<1>6. lasting \subseteq ArticlesIn(listing')
  BY <1>1, <1>2, <1>3, <1>4, ArticlesInConcat DEF LastingSoFar
<1>7. ASSUME ~pulled, surplus <= 0, NEW i \in DOMAIN listing',
             i <= (page - 1) * PageSize, listing'[i] \in lasting
      PROVE  listing'[i] \in ArticlesIn(fetched)
  <2>1. a \notin lasting
    BY <1>1, <1>2 DEF LastingSoFar
  <2>2. i \in 2 .. 1 + Len(listing)
    BY <1>5, <1>7, <2>1
  <2> DEFINE j == i - 1
  <2>3. (page - 1) * PageSize \in Nat
    BY <1>1, BeforeType DEF FetcherTypeOK
  <2>4. j \in DOMAIN listing /\ j <= (page - 1) * PageSize
    BY <1>3, <1>5, <1>7, <2>2, <2>3
  <2>5. listing'[i] = listing[j]
    BY <1>5, <2>2
  <2> QED
    BY <1>1, <1>7, <2>4, <2>5 DEF LastingSoFar
<1> QED
  BY <1>1, <1>3, <1>5, <1>6, <1>7 DEF LastingSoFar, FetcherTypeOK

(* One that is withdrawn behind the pages fetched so far leaves their      *)
(* places alone.                                                           *)
LEMMA SourceWithdrawsInv ==
  ASSUME FetcherInv, target # NoTarget, NEW i \in DOMAIN listing, SourceWithdraws(i),
         UNCHANGED <<target, page, fetched, surplus>>
  PROVE  /\ listing' \in Seq(Articles) /\ Len(listing') <= MaxListing
         /\ lasting' \subseteq Articles /\ pulled' \in BOOLEAN
         /\ LastingSoFar'
<1>1. FetcherTypeOK /\ LastingSoFar
  BY DEF FetcherInv
<1>2. /\ listing' = [j \in 1 .. Len(listing) - 1 |->
                         IF j < i THEN listing[j] ELSE listing[j + 1]]
      /\ lasting' = lasting \ {listing[i]}
      /\ pulled' = (pulled \/ i <= (page - 1) * PageSize)
  BY DEF SourceWithdraws
<1>3. /\ listing \in Seq(Articles) /\ Len(listing) \in Nat /\ MaxListing \in Nat
      /\ Len(listing) <= MaxListing /\ DOMAIN listing = 1 .. Len(listing)
  BY <1>1, FetcherAssumption DEF FetcherTypeOK
<1>4. i \in 1 .. Len(listing) /\ Len(listing) - 1 \in Nat
  BY <1>3
<1>5. \A j \in 1 .. Len(listing) - 1 : listing[j] \in Articles /\ listing[j + 1] \in Articles
  BY <1>3
<1>6. listing' \in [1 .. Len(listing) - 1 -> Articles]
  BY <1>2, <1>5
<1>7. /\ listing' \in Seq(Articles) /\ Len(listing') = Len(listing) - 1
      /\ DOMAIN listing' = 1 .. Len(listing) - 1
  BY <1>4, <1>6
<1>8. \A j \in 1 .. Len(listing) - 1 :
         listing'[j] = IF j < i THEN listing[j] ELSE listing[j + 1]
  BY <1>2
<1>9. lasting' \subseteq ArticlesIn(listing')
  <2> SUFFICES ASSUME NEW b \in lasting, b # listing[i]
               PROVE  \E j \in DOMAIN listing' : b = listing'[j]
    BY <1>2 DEF ArticlesIn
  <2>1. PICK k \in DOMAIN listing : b = listing[k]
    BY <1>1 DEF LastingSoFar, ArticlesIn
  <2>2. k # i /\ k \in 1 .. Len(listing)
    BY <1>3, <2>1
  <2>3. CASE k < i
    <3>1. k \in 1 .. Len(listing) - 1
      BY <1>4, <2>2, <2>3
    <3> QED
      BY <1>7, <1>8, <2>1, <2>3, <3>1
  <2>4. CASE i < k
    <3>1. k - 1 \in 1 .. Len(listing) - 1 /\ ~(k - 1 < i) /\ (k - 1) + 1 = k
      BY <1>4, <2>2, <2>4
    <3>2. listing'[k - 1] = listing[k]
      BY <1>8, <3>1
    <3> QED
      BY <1>7, <2>1, <3>1, <3>2
  <2> QED
    BY <1>4, <2>2, <2>3, <2>4
<1>10. ASSUME ~pulled', surplus <= 0, NEW j \in DOMAIN listing',
              j <= (page - 1) * PageSize, listing'[j] \in lasting'
       PROVE  listing'[j] \in ArticlesIn(fetched)
  <2>1. (page - 1) * PageSize \in Nat
    BY <1>1, BeforeType DEF FetcherTypeOK
  <2>2. ~pulled /\ ~(i <= (page - 1) * PageSize)
    BY <1>2, <1>10, Zenon
  <2>3. j < i /\ j \in DOMAIN listing /\ j \in 1 .. Len(listing) - 1
    BY <1>3, <1>4, <1>7, <1>10, <2>1, <2>2
  <2>4. listing'[j] = listing[j]
    BY <1>8, <2>3
  <2>5. listing[j] \in lasting
    BY <1>2, <1>10, <2>4
  <2> QED
    BY <1>1, <1>10, <2>2, <2>3, <2>4, <2>5 DEF LastingSoFar
<1>11. /\ lasting' \subseteq Articles /\ pulled' \in BOOLEAN
       /\ Len(listing') <= MaxListing
  BY <1>1, <1>2, <1>3, <1>7 DEF FetcherTypeOK
<1> QED
  BY <1>7, <1>9, <1>10, <1>11 DEF LastingSoFar

(* A listing that has moved is no longer the one whose beginning was       *)
(* fetched, but the pages stay full.                                       *)
LEMMA SourceMovesInv ==
  ASSUME FetcherInv, SourceMoves
  PROVE  FetcherInv'
<1>1. FetcherTypeOK /\ PagesFull
  BY DEF FetcherInv
<1>2. /\ moved' = TRUE /\ target # NoTarget
      /\ UNCHANGED <<target, left, page, fetched, responses, surplus>>
  BY WantedType DEF SourceMoves
<1>3. /\ listing' \in Seq(Articles) /\ Len(listing') <= MaxListing
      /\ lasting' \subseteq Articles /\ pulled' \in BOOLEAN
      /\ LastingSoFar'
  BY <1>2, SourcePublishesInv, SourceWithdrawsInv DEF SourceMoves
<1>4. FetcherTypeOK'
  BY <1>1, <1>2, <1>3 DEF FetcherTypeOK
<1> QED
  BY <1>1, <1>2, <1>3, <1>4 DEF FetcherInv, PagesFull, FetchedIsPrefix

-----------------------------------------------------------------------------
(* Every step preserves the invariant, is a step of the main loop as       *)
(* NewsCurator has it, and leaves no target incomplete.                    *)
LEMMA FetcherStep ==
  ASSUME FetcherInv, [FetcherNext]_mainVars
  PROVE  /\ FetcherInv'
         /\ [CuratorNext]_curatorVars
         /\ FetchPage /\ target' = NoTarget /\ ~moved /\ surplus = 0 => fetched' = listing
         /\ FetchPage /\ target' = NoTarget /\ ~pulled /\ surplus = 0
               => lasting \subseteq ArticlesIn(fetched')
<1> DEFINE Result == FetcherInv' /\ [CuratorNext]_curatorVars
<1>1. FetcherTypeOK
  BY DEF FetcherInv
<1>2. ASSUME NextTarget, UNCHANGED curatorVars PROVE Result
  BY <1>2, NextTargetInv
<1>3. ASSUME FetchPage \/ FetchFails,
             UNCHANGED <<at, edition, summary, archive, missing, news>>
      PROVE  Result
  <2>1. FetcherInv' /\ raw' = raw
    BY <1>3, FetchPageInv, FetchFailsInv
  <2> QED
    BY <1>3, <2>1 DEF curatorVars
<1>4. ASSUME NEW stream, NEW targets \in SUBSET Targets, NEW next,
             Return(stream, targets, next)
      PROVE  /\ FetcherInv'
             /\ [t \in targets |-> responses[t]] \in [targets -> SUBSET Articles]
  <2>1. Forget /\ target' = NoTarget /\ left' = left
    BY <1>4 DEF Return
  <2>2. FetcherInv'
    BY <1>1, <2>1, ForgetInv DEF FetcherTypeOK
  <2>3. [t \in targets |-> responses[t]] \in [targets -> SUBSET Articles]
    BY <1>1 DEF FetcherTypeOK
  <2> QED
    BY <2>2, <2>3
<1>5. ASSUME ReturnHeadlines PROVE Result
  <2>1. at = "fetchHeadlines" /\ Return("headlines", Countries, "fetchDiscover")
    BY <1>5 DEF ReturnHeadlines
  <2>2. FetcherInv' /\ [t \in Countries |-> responses[t]] \in Headlines
    BY <1>4, <2>1 DEF Targets, Headlines
  <2>3. FetchHeadlines
    BY <2>1, <2>2 DEF Return, FetchHeadlines
  <2> QED
    BY <2>2, <2>3 DEF CuratorNext, Curate
<1>6. ASSUME ReturnDiscover PROVE Result
  <2>1. at = "fetchDiscover" /\ Return("discover", Categories, "archiveRawHeadlines")
    BY <1>6 DEF ReturnDiscover
  <2>2. FetcherInv' /\ [t \in Categories |-> responses[t]] \in Discover
    BY <1>4, <2>1 DEF Targets, Discover
  <2>3. FetchDiscover
    BY <2>1, <2>2 DEF Return, FetchDiscover
  <2> QED
    BY <2>2, <2>3 DEF CuratorNext, Curate
<1>7. ASSUME SourceMoves PROVE Result
  BY <1>7, SourceMovesInv DEF SourceMoves
<1>8. ASSUME Proceed \/ PublishFails, UNCHANGED fetcherVars PROVE Result
  <2>1. FetcherInv'
    BY <1>8 DEF fetcherVars, FetcherInv, FetcherTypeOK, PagesFull, FetchedIsPrefix, LastingSoFar
  <2> QED
    BY <1>8, <2>1 DEF Proceed, CuratorNext, Curate
<1>9. ASSUME FetchAgain \/ FetcherCrash PROVE Result
  <2>1. (NextPass \/ Crash) /\ Forget /\ target' = NoTarget /\ left' \subseteq Targets
    BY <1>9 DEF FetchAgain, FetcherCrash
  <2> QED
    BY <1>1, <2>1, ForgetInv DEF CuratorNext
<1>10. ASSUME UNCHANGED mainVars PROVE Result
  BY <1>10 DEF mainVars, fetcherVars, FetcherInv, FetcherTypeOK, PagesFull, FetchedIsPrefix, LastingSoFar
<1>11. Result
  BY <1>2, <1>3, <1>5, <1>6, <1>7, <1>8, <1>9, <1>10 DEF FetcherNext, Fetch
<1> QED
  BY <1>11, FetchPageInv

(* The inductive invariant of the fetcher holds.                           *)
THEOREM FetcherInvariance == FetcherSpec => []FetcherInv
<1>1. FetcherInit => FetcherInv
  BY NothingFetchedInv DEF FetcherInit
<1>2. FetcherInv /\ [FetcherNext]_mainVars => FetcherInv'
  BY FetcherStep
<1> QED
  BY <1>1, <1>2, PTL DEF FetcherSpec

(* The page loop asks for full pages only, and for none behind the longest *)
(* listing, unless totalResults promises more than there is.               *)
THEOREM PagesFullHolds == FetcherSpec => []PagesFull
<1>1. FetcherInv => PagesFull
  BY DEF FetcherInv
<1> QED
  BY <1>1, FetcherInvariance, PTL

(* What FetchHeadlinesByCountry and NewsDiscoveryByCategory fetch of a     *)
(* target is its whole listing if that stood still, and otherwise has all  *)
(* that stayed listed, whatever is published while the pages are asked     *)
(* for, and withdrawn behind them.                                         *)
THEOREM FetchedAllHolds == FetcherSpec => FetchedAll
<1>1. FetcherInv /\ [FetcherNext]_mainVars =>
         [FetchPage /\ target' = NoTarget /\ surplus = 0
            => SteadyComplete /\ LastingFetched]_mainVars
  BY FetcherStep DEF SteadyComplete, LastingFetched
<1> QED
  BY <1>1, FetcherInvariance, PTL DEF FetcherSpec, FetchedAll

(* The page loop implements the fetch that NewsCurator assumes, so that    *)
(* what holds of the main loop there holds with the pages, too.            *)
THEOREM FetchesAtOnceHolds == FetcherSpec => FetchesAtOnce
<1>1. FetcherInit => CuratorInit
  BY DEF FetcherInit
<1>2. FetcherInv /\ [FetcherNext]_mainVars => [CuratorNext]_curatorVars
  BY FetcherStep
<1> QED
  BY <1>1, <1>2, FetcherInvariance, PTL DEF FetcherSpec, FetchesAtOnce, CuratorSpec

(* The main loop with its pages keeps the promises of the one without, as  *)
(* it is one: it hands feed-api nothing that it did not hand to MinIO, the *)
(* headlines first, and no article is lost on the way through the          *)
(* summarizers, nor brought back from an earlier pass.                     *)
THEOREM PagedMainLoop ==
  FetcherSpec => [](TypeOK /\ HeadlinesLead /\ ServedIsArchived /\ NothingDropped /\ NothingOld)
<1>1. FetcherSpec => CuratorSpec
  BY FetchesAtOnceHolds DEF FetchesAtOnce
<1> QED
  BY <1>1, CuratorTypeCorrect, HeadlinesLeadHolds, ServedIsArchivedHolds,
     NothingDroppedHolds, NothingOldHolds, PTL

-----------------------------------------------------------------------------
(* The two programs together: each keeps its own invariant.                *)
SystemInv == FeedInv /\ FetcherInv

(* The clients' article stays where it is when the curator publishes       *)
(* nothing, so that their history of it stays, too.                        *)
LEMMA WatchNothing ==
  ASSUME FeedInv, BesideClients, UNCHANGED curatorVars
  PROVE  UNCHANGED vars
<1>1. FeedTypeOK /\ Watched
  BY DEF FeedInv
<1>2. UNCHANGED <<pc, wanted, headlines, answer>> /\ news' = news
  BY DEF BesideClients, curatorVars
<1>3. \A c \in Clients : PlacesOf(wanted[c])' = PlacesOf(wanted[c])
  BY <1>2 DEF PlacesOf
<1>4. stable' = [c \in Clients |->
        IF pc[c] = "done" THEN stable[c] ELSE stable[c] \intersect PlacesOf(wanted[c])]
  BY <1>3 DEF BesideClients, Watch
<1>5. \A c \in Clients : pc[c] # "done" => stable[c] \subseteq PlacesOf(wanted[c])
  BY <1>1 DEF Watched
<1>6. stable' = stable
  BY <1>1, <1>4, <1>5 DEF FeedTypeOK
<1> QED
  BY <1>2, <1>6 DEF vars, curatorVars, readerVars

(* A step of the whole is one of the readers beside a main loop without    *)
(* pages, and one of the main loop with pages, or none.                    *)
LEMMA SystemStep ==
  ASSUME SystemInv, [SystemNext]_systemVars
  PROVE  [Next]_vars /\ [FetcherNext]_mainVars
<1>1. FeedInv /\ FetcherInv
  BY DEF SystemInv
<1>2. CASE ServeClients
  BY <1>2 DEF ServeClients, Next, mainVars
<1>3. CASE FetcherNext /\ BesideClients
  <2>1. CuratorNext \/ UNCHANGED curatorVars
    BY <1>1, <1>3, FetcherStep
  <2>2. CASE CuratorNext
    BY <1>3, <2>2 DEF BesideClients, Next
  <2>3. CASE UNCHANGED curatorVars
    BY <1>1, <1>3, <2>3, WatchNothing
  <2> QED
    BY <1>3, <2>1, <2>2, <2>3
<1>4. CASE UNCHANGED systemVars
  BY <1>4 DEF systemVars, vars, mainVars
<1> QED
  BY <1>2, <1>3, <1>4 DEF SystemNext

(* The inductive invariant of the whole holds.                             *)
THEOREM SystemInvariance == SystemSpec => []SystemInv
<1>1. SystemInit => SystemInv
  BY FeedInitInv, NothingFetchedInv DEF SystemInit, SystemInv
<1>2. SystemInv /\ [SystemNext]_systemVars => SystemInv'
  <2> SUFFICES ASSUME SystemInv, [SystemNext]_systemVars PROVE SystemInv'
    OBVIOUS
  <2>1. FeedInv /\ FetcherInv /\ [Next]_vars /\ [FetcherNext]_mainVars
    BY SystemStep DEF SystemInv
  <2>2. FeedInv'
    BY <2>1, FeedStepInv
  <2>3. FetcherInv'
    BY <2>1, FetcherStep
  <2> QED
    BY <2>2, <2>3 DEF SystemInv
<1> QED
  BY <1>1, <1>2, PTL DEF SystemSpec

(* The variables of the two programs have their types, with any failure,   *)
(* death and listing.                                                      *)
THEOREM SystemTypeCorrect == SystemSpec => []SystemTypeOK
<1>1. SystemInv => SystemTypeOK
  BY DEF SystemInv, FeedInv, CuratorInv, FetcherInv, SystemTypeOK
<1> QED
  BY <1>1, SystemInvariance, PTL

(* The system, with the pages of the fetcher, implements feed-api beside a *)
(* curator that fetches at once.                                           *)
THEOREM FeedsOnEditionsHolds == SystemSpec => FeedsOnEditions
<1>1. SystemInit => Init
  BY DEF SystemInit
<1>2. SystemInv /\ [SystemNext]_systemVars => [Next]_vars
  BY SystemStep
<1> QED
  BY <1>1, <1>2, SystemInvariance, PTL DEF SystemSpec, FeedsOnEditions, Spec

(* The clients do not disturb the main loop: beside them it still fetches  *)
(* as Fetcher has it.                                                      *)
THEOREM SystemFetches == SystemSpec => FetcherSpec
<1>1. SystemInit => FetcherInit
  BY DEF SystemInit, FetcherInit, Init
<1>2. SystemInv /\ [SystemNext]_systemVars => [FetcherNext]_mainVars
  BY SystemStep
<1> QED
  BY <1>1, <1>2, SystemInvariance, PTL DEF SystemSpec, FetcherSpec

(* From NewsAPI to the client: an article that one key serves from the     *)
(* time it was listed to the answer is found, whatever pages the curator   *)
(* fetches and publishes in between.                                       *)
THEOREM SystemFinds == SystemSpec => []StableArticleFound
<1>1. SystemSpec => Spec
  BY FeedsOnEditionsHolds DEF FeedsOnEditions
<1> QED
  BY <1>1, StableArticleFoundHolds, PTL

(* What a client is served was handed to MinIO before, the headlines are   *)
(* never behind the discover news, and an article that stays listed while  *)
(* its pages are fetched is fetched: beside any number of clients.         *)
THEOREM SystemServes ==
  SystemSpec => /\ [](HeadlinesLead /\ ServedIsArchived /\ NothingDropped /\ NothingOld)
                /\ FetchedAll
<1>1. SystemSpec => FetcherSpec
  BY SystemFetches
<1> QED
  BY <1>1, PagedMainLoop, FetchedAllHolds, PTL
=============================================================================
