--------------------------- MODULE NewsFeed_proofs ---------------------------
(***************************************************************************)
(* Proofs about NewsCurator and NewsFeed, for any countries, categories,   *)
(* articles, clients and number of editions.                               *)
(***************************************************************************)
EXTENDS NewsFeed, FiniteSetTheorems, TLAPS

-----------------------------------------------------------------------------
(* The inductive invariant of the curator.  In the first part of a pass    *)
(* both keys hold earlier editions; in the second one the summaries have   *)
(* everything that was fetched, and the archives what is uploaded by then. *)

BeforePublish == Steps \ {"publishDiscover", "sleep"}
Summarized == {"archiveHeadlines", "archiveDiscover", "publishHeadlines", "publishDiscover"}

EditionOrder ==
    /\ news["headlines"].edition <= edition
    /\ at \in BeforePublish => news["headlines"].edition < edition
    /\ at = "publishDiscover" => news["headlines"].edition = edition

SummaryComplete ==
    at \in Summarized =>
        /\ \A c \in Countries : raw["headlines"][c] \ Imageless \subseteq summary["headlines"][c]
        /\ \A c \in Categories : raw["discover"][c] \ Imageless \subseteq summary["discover"][c]

UploadsDone ==
    /\ at \in {"archiveDiscover", "publishHeadlines", "publishDiscover"} =>
          <<"summarized", "headlines", edition>> \in archive \union missing
    /\ at \in {"publishHeadlines", "publishDiscover"} =>
          <<"summarized", "discover", edition>> \in archive \union missing

CuratorInv ==
    /\ TypeOK
    /\ HeadlinesLead
    /\ EditionOrder
    /\ SummaryComplete
    /\ UploadsDone
    /\ ServedIsArchived
    /\ NothingDropped

(* A pair of maps by stream.                                               *)
LEMMA ByStreamType ==
  ASSUME NEW h \in Headlines, NEW d \in Discover
  PROVE  /\ ByStream(h, d) \in Lists
         /\ ByStream(h, d)["headlines"] = h
         /\ ByStream(h, d)["discover"] = d
  BY DEF ByStream, Lists, Streams

(* What NothingDropped says, stream by stream.                             *)
LEMMA DroppedByStream ==
  ASSUME NEW r \in Lists, NEW n, NEW e
  PROVE  (\A s \in Streams : n[s].edition = e =>
             \A c \in DOMAIN r[s] : r[s][c] \ Imageless \subseteq n[s].lists[c])
         <=>
         /\ n["headlines"].edition = e =>
               \A c \in Countries : r["headlines"][c] \ Imageless \subseteq n["headlines"].lists[c]
         /\ n["discover"].edition = e =>
               \A c \in Categories : r["discover"][c] \ Imageless \subseteq n["discover"].lists[c]
<1>1. DOMAIN r["headlines"] = Countries /\ DOMAIN r["discover"] = Categories
  BY DEF Lists, Headlines, Discover
<1> QED
  BY <1>1 DEF Streams

(* Whatever the order of the categories is, the summary of a category has  *)
(* the category's own articles that have an image.                         *)
LEMMA SummariesComplete ==
  ASSUME TypeOK, Summarize
  PROVE  /\ summary' \in Lists
         /\ \A c \in Countries : raw["headlines"][c] \ Imageless \subseteq summary'["headlines"][c]
         /\ \A c \in Categories : raw["discover"][c] \ Imageless \subseteq summary'["discover"][c]
<1>1. PICK rank \in Orders :
        summary' = ByStream(SummarizeHeadlines(raw["headlines"]),
                            SummarizeDiscover(raw["discover"], rank))
  BY DEF Summarize
<1>2. raw["headlines"] \in [Countries -> SUBSET Articles] /\ raw["discover"] \in [Categories -> SUBSET Articles]
  BY DEF TypeOK, Lists, Headlines, Discover
<1>3. SummarizeHeadlines(raw["headlines"]) \in Headlines
  BY <1>2 DEF SummarizeHeadlines, Headlines
<1>4. SummarizeDiscover(raw["discover"], rank) \in Discover
  BY <1>2 DEF SummarizeDiscover, Discover
<1>5. \A c \in Countries : raw["headlines"][c] \ Imageless \subseteq SummarizeHeadlines(raw["headlines"])[c]
  BY DEF SummarizeHeadlines
<1>6. ASSUME NEW c \in Categories
      PROVE  raw["discover"][c] \ Imageless \subseteq SummarizeDiscover(raw["discover"], rank)[c]
  <2>1. rank[c] \in Int
    BY CuratorAssumption, FS_CardinalityType DEF Orders
  <2>2. c \in {e \in Categories : rank[e] <= rank[c]}
    BY <2>1
  <2> DEFINE all == UNION {raw["discover"][d] : d \in {e \in Categories : rank[e] <= rank[c]}}
  <2>3. SummarizeDiscover(raw["discover"], rank)[c] = all \ Imageless
    BY DEF SummarizeDiscover
  <2>4. raw["discover"][c] \subseteq all
    BY <2>2
  <2> HIDE DEF all
  <2> QED
    BY <2>3, <2>4
<1> QED
  BY <1>1, <1>3, <1>4, <1>5, <1>6, ByStreamType

(* An upload adds its object to the archive or to the missing ones, and    *)
(* takes none out of both.                                                 *)
LEMMA UploadKeeps ==
  ASSUME TypeOK, NEW b \in Buckets, NEW s \in Streams, Upload(b, s)
  PROVE  /\ archive' \subseteq Objects /\ missing' \subseteq Objects
         /\ archive \union missing \subseteq archive' \union missing'
         /\ <<b, s, edition>> \in archive' \union missing'
<1>1. <<b, s, edition>> \in Objects
  BY DEF Objects, TypeOK
<1> QED
  BY <1>1 DEF Upload, TypeOK

(* The invariant holds at the start.                                       *)
LEMMA CuratorInitInv ==
  ASSUME CuratorInit
  PROVE  CuratorInv
<1>1. /\ EmptyLists \in Lists
      /\ EmptyLists["headlines"] = [c \in Countries |-> {}] /\ EmptyLists["headlines"] \in Headlines
      /\ EmptyLists["discover"] = [c \in Categories |-> {}] /\ EmptyLists["discover"] \in Discover
  <2>1. [c \in Countries |-> {}] \in Headlines /\ [c \in Categories |-> {}] \in Discover
    BY DEF Headlines, Discover
  <2> QED
    BY <2>1, ByStreamType DEF EmptyLists
<1>2. /\ news["headlines"] = [edition |-> 0, lists |-> EmptyLists["headlines"]]
      /\ news["discover"] = [edition |-> 0, lists |-> EmptyLists["discover"]]
  BY DEF CuratorInit, Streams
<1>3. 0 \in 0 .. MaxEdition /\ 1 \in 1 .. MaxEdition
  BY CuratorAssumption
<1>4. /\ news \in [Streams -> [edition : 0 .. MaxEdition, lists : Headlines \union Discover]]
      /\ news["headlines"].lists \in Headlines /\ news["discover"].lists \in Discover
  <2>1. \A s \in Streams : EmptyLists[s] \in Headlines \union Discover
    BY <1>1 DEF Streams
  <2> QED
    <3>1. ASSUME NEW s \in Streams
          PROVE  [edition |-> 0, lists |-> EmptyLists[s]]
                   \in [edition : 0 .. MaxEdition, lists : Headlines \union Discover]
      BY <1>3, <2>1
    <3>2. news = [s \in Streams |-> [edition |-> 0, lists |-> EmptyLists[s]]]
      BY DEF CuratorInit
    <3>3. news \in [Streams -> [edition : 0 .. MaxEdition, lists : Headlines \union Discover]]
      BY <3>1, <3>2
    <3> QED
      BY <1>1, <1>2, <3>3
<1>5. TypeOK
  BY <1>1, <1>3, <1>4 DEF CuratorInit, TypeOK, Steps
<1>6. news["headlines"].edition = 0 /\ news["discover"].edition = 0
  BY <1>2
<1>7. edition = 1 /\ at = "fetchHeadlines"
  BY DEF CuratorInit
<1>9. NothingDropped
  <2>1. raw \in Lists
    BY <1>5 DEF TypeOK
  <2> QED
    BY <1>6, <1>7, <2>1, DroppedByStream DEF NothingDropped
<1>10. HeadlinesLead
  BY <1>6 DEF HeadlinesLead
<1>11. EditionOrder
  BY <1>6, <1>7 DEF EditionOrder
<1>12. ServedIsArchived
  <2>1. \A s \in Streams : news[s].edition = 0
    BY <1>6 DEF Streams
  <2> QED
    BY <2>1 DEF ServedIsArchived
<1>8. SummaryComplete /\ UploadsDone
  BY DEF CuratorInit, SummaryComplete, Summarized, UploadsDone
<1> QED
  BY <1>5, <1>8, <1>9, <1>10, <1>11, <1>12 DEF CuratorInv

(* What a Set of a stream does.                                            *)
LEMMA SetEffect ==
  ASSUME TypeOK, NEW s \in Streams, Set(s)
  PROVE  /\ news' \in [Streams -> [edition : 0 .. MaxEdition, lists : Headlines \union Discover]]
         /\ news'["headlines"].lists \in Headlines /\ news'["discover"].lists \in Discover
         /\ news'[s].edition = edition /\ news'[s].lists = summary[s]
         /\ \A t \in Streams \ {s} : news'[t] = news[t]
<1> DEFINE new == [edition |-> edition, lists |-> summary[s]]
<1>1. news' = [news EXCEPT ![s] = new]
  BY DEF Set
<1>2. summary["headlines"] \in Headlines /\ summary["discover"] \in Discover
  BY DEF TypeOK, Lists
<1>3. summary[s] \in Headlines \union Discover
  BY <1>2 DEF Streams
<1>4. edition \in 0 .. MaxEdition
  BY CuratorAssumption DEF TypeOK
<1>5. new \in [edition : 0 .. MaxEdition, lists : Headlines \union Discover]
  BY <1>3, <1>4
<1>6. new.edition = edition /\ new.lists = summary[s]
  OBVIOUS
<1> HIDE DEF new
<1>7. /\ news' \in [Streams -> [edition : 0 .. MaxEdition, lists : Headlines \union Discover]]
      /\ news'[s] = new
      /\ \A t \in Streams \ {s} : news'[t] = news[t]
  BY <1>1, <1>5 DEF TypeOK
<1>8. news["headlines"].lists \in Headlines /\ news["discover"].lists \in Discover
  BY DEF TypeOK
<1>9. news'["headlines"].lists \in Headlines /\ news'["discover"].lists \in Discover
  BY <1>2, <1>6, <1>7, <1>8 DEF Streams
<1> QED
  BY <1>6, <1>7, <1>9

LEMMA EditionType ==
  ASSUME TypeOK
  PROVE  /\ edition \in Nat
         /\ news["headlines"].edition \in Nat
         /\ news["discover"].edition \in Nat
<1>1. news["headlines"].edition \in 0 .. MaxEdition /\ news["discover"].edition \in 0 .. MaxEdition
  BY DEF TypeOK, Streams
<1> QED
  BY <1>1 DEF TypeOK

(* As long as nothing of this edition is published, nothing is dropped.    *)
LEMMA NothingPublished ==
  ASSUME NEW r \in Lists, NEW n, NEW e,
         n["headlines"].edition # e, n["discover"].edition # e
  PROVE  \A s \in Streams : n[s].edition = e =>
            \A c \in DOMAIN r[s] : r[s][c] \ Imageless \subseteq n[s].lists[c]
  BY DroppedByStream

(* Steps before the publishing that leave the keys alone.                  *)
LEMMA EarlyStep ==
  ASSUME CuratorInv, at \in BeforePublish, TypeOK',
         UNCHANGED <<edition, news>>,
         archive \union missing \subseteq archive' \union missing',
         at' # "publishDiscover"
  PROVE  HeadlinesLead' /\ EditionOrder' /\ ServedIsArchived' /\ NothingDropped'
<1>1. HeadlinesLead /\ EditionOrder /\ ServedIsArchived /\ TypeOK
  BY DEF CuratorInv
<1>2. news["headlines"].edition < edition
  BY <1>1 DEF EditionOrder
<1>3. news["discover"].edition <= news["headlines"].edition
  BY <1>1 DEF HeadlinesLead
<1>4. HeadlinesLead'
  BY <1>3 DEF HeadlinesLead
<1>5. EditionOrder'
  BY <1>1, <1>2 DEF EditionOrder
<1>6. ServedIsArchived'
  BY <1>1 DEF ServedIsArchived
<1>7. news'["headlines"].edition # edition' /\ news'["discover"].edition # edition'
  BY <1>1, <1>2, <1>3, EditionType
<1>8. raw' \in Lists
  BY DEF TypeOK
<1>9. NothingDropped'
  BY <1>7, <1>8, NothingPublished DEF NothingDropped
<1> QED
  BY <1>4, <1>5, <1>6, <1>9

(* A Set of the stream that is next, whether the loop goes on or dies.     *)
LEMMA SetKeeps ==
  ASSUME CuratorInv, NEW s \in Streams, Set(s),
         \/ at = "publishHeadlines" /\ s = "headlines"
         \/ at = "publishDiscover" /\ s = "discover",
         UNCHANGED <<edition, raw, summary, archive, missing>>
  PROVE  /\ HeadlinesLead' /\ ServedIsArchived' /\ NothingDropped'
         /\ news'["headlines"].edition = edition'
<1>1. /\ TypeOK /\ HeadlinesLead /\ EditionOrder /\ ServedIsArchived /\ NothingDropped
      /\ SummaryComplete /\ UploadsDone
  BY DEF CuratorInv
<1>2. /\ raw \in Lists
      /\ edition \in Nat /\ news["headlines"].edition \in Nat /\ news["discover"].edition \in Nat
  BY <1>1, EditionType DEF TypeOK
<1>3. /\ news'[s].edition = edition /\ news'[s].lists = summary[s]
      /\ \A t \in Streams \ {s} : news'[t] = news[t]
  BY <1>1, SetEffect
<1>4. /\ \A c \in Countries : raw["headlines"][c] \ Imageless \subseteq summary["headlines"][c]
      /\ \A c \in Categories : raw["discover"][c] \ Imageless \subseteq summary["discover"][c]
  BY <1>1 DEF SummaryComplete, Summarized
<1>5. <<"summarized", s, edition>> \in archive \union missing
  BY <1>1 DEF UploadsDone
<1>6. ServedIsArchived'
  BY <1>1, <1>3, <1>5 DEF ServedIsArchived
<1>7. CASE s = "headlines"
  <2>1. news["headlines"].edition < edition
    <3>1. at \in BeforePublish
      BY <1>7 DEF BeforePublish, Steps
    <3> QED
      BY <1>1, <3>1 DEF EditionOrder
  <2>2. news'["discover"] = news["discover"] /\ news'["headlines"].edition = edition
    BY <1>3, <1>7 DEF Streams
  <2>3. news'["discover"].edition <= edition /\ news'["discover"].edition # edition
    BY <1>1, <1>2, <2>1, <2>2 DEF HeadlinesLead
  <2>4. HeadlinesLead'
    BY <2>2, <2>3 DEF HeadlinesLead
  <2>5. NothingDropped'
    BY <1>2, <1>3, <1>4, <1>7, <2>3, DroppedByStream DEF NothingDropped
  <2> QED
    BY <1>6, <2>2, <2>4, <2>5
<1>8. CASE s = "discover"
  <2>1. at = "publishDiscover"
    BY <1>8
  <2>2. news["headlines"].edition = edition
    BY <1>1, <2>1 DEF EditionOrder
  <2>3. news'["headlines"] = news["headlines"] /\ news'["discover"].edition = edition
    BY <1>3, <1>8 DEF Streams
  <2>4. HeadlinesLead'
    BY <1>2, <2>2, <2>3 DEF HeadlinesLead
  <2>5. \A c \in Countries : raw["headlines"][c] \ Imageless \subseteq news["headlines"].lists[c]
    BY <1>1, <1>2, <2>2, DroppedByStream DEF NothingDropped
  <2>6. NothingDropped'
    BY <1>2, <1>3, <1>4, <1>8, <2>3, <2>5, DroppedByStream DEF NothingDropped
  <2> QED
    BY <1>6, <2>2, <2>3, <2>4, <2>6
<1> QED
  BY <1>7, <1>8 DEF Streams

(* Every step of the curator preserves the invariant.                      *)
LEMMA CuratorStepInv ==
  ASSUME CuratorInv, [CuratorNext]_curatorVars
  PROVE  CuratorInv'
<1>1. /\ TypeOK /\ HeadlinesLead /\ EditionOrder /\ ServedIsArchived /\ NothingDropped
      /\ SummaryComplete /\ UploadsDone
  BY DEF CuratorInv
<1>2. /\ edition \in Nat /\ news["headlines"].edition \in Nat /\ news["discover"].edition \in Nat
  BY <1>1, EditionType
<1>3. CASE FetchHeadlines
  <2>1. PICK fetched \in Headlines : raw' = [raw EXCEPT !["headlines"] = fetched]
    BY <1>3 DEF FetchHeadlines
  <2>2. raw' \in Lists
    BY <1>1, <2>1 DEF TypeOK, Lists, Streams
  <2>3. TypeOK'
    BY <1>1, <1>3, <2>2 DEF FetchHeadlines, TypeOK, Steps
  <2>4. SummaryComplete' /\ UploadsDone'
    BY <1>3 DEF FetchHeadlines, SummaryComplete, Summarized, UploadsDone
  <2>5. at \in BeforePublish /\ at' # "publishDiscover" /\ UNCHANGED <<edition, archive, missing, news>>
    BY <1>3 DEF FetchHeadlines, BeforePublish, Steps
  <2> QED
    BY <2>3, <2>4, <2>5, EarlyStep DEF CuratorInv
<1>4. CASE FetchDiscover
  <2>1. PICK fetched \in Discover : raw' = [raw EXCEPT !["discover"] = fetched]
    BY <1>4 DEF FetchDiscover
  <2>2. raw' \in Lists
    BY <1>1, <2>1 DEF TypeOK, Lists, Streams
  <2>3. TypeOK'
    BY <1>1, <1>4, <2>2 DEF FetchDiscover, TypeOK, Steps
  <2>4. SummaryComplete' /\ UploadsDone'
    BY <1>4 DEF FetchDiscover, SummaryComplete, Summarized, UploadsDone
  <2>5. at \in BeforePublish /\ at' # "publishDiscover" /\ UNCHANGED <<edition, archive, missing, news>>
    BY <1>4 DEF FetchDiscover, BeforePublish, Steps
  <2> QED
    BY <2>3, <2>4, <2>5, EarlyStep DEF CuratorInv
<1>5. CASE ArchiveRaw
  <2>1. PICK s \in Streams : Upload("raw", s)
    BY <1>5 DEF ArchiveRaw, Streams
  <2>2. /\ archive' \subseteq Objects /\ missing' \subseteq Objects
        /\ archive \union missing \subseteq archive' \union missing'
    BY <1>1, <2>1, UploadKeeps DEF Buckets
  <2>3. /\ at \in BeforePublish /\ at' \in {"archiveRawDiscover", "summarize"}
        /\ UNCHANGED <<edition, raw, summary, news>>
    BY <1>5 DEF ArchiveRaw, BeforePublish, Steps
  <2>4. TypeOK'
    BY <1>1, <2>2, <2>3 DEF TypeOK, Steps
  <2>5. SummaryComplete' /\ UploadsDone' /\ at' # "publishDiscover"
    BY <2>3 DEF SummaryComplete, Summarized, UploadsDone
  <2> QED
    BY <2>2, <2>3, <2>4, <2>5, EarlyStep DEF CuratorInv
<1>6. CASE Summarize
  <2>1. /\ summary' \in Lists
        /\ \A c \in Countries : raw["headlines"][c] \ Imageless \subseteq summary'["headlines"][c]
        /\ \A c \in Categories : raw["discover"][c] \ Imageless \subseteq summary'["discover"][c]
    BY <1>1, <1>6, SummariesComplete
  <2>2. /\ at \in BeforePublish /\ at' = "archiveHeadlines"
        /\ UNCHANGED <<edition, raw, archive, missing, news>>
    BY <1>6 DEF Summarize, BeforePublish, Steps
  <2>3. TypeOK'
    BY <1>1, <2>1, <2>2 DEF TypeOK, Steps
  <2>4. SummaryComplete'
    BY <2>1, <2>2 DEF SummaryComplete
  <2>5. UploadsDone' /\ at' # "publishDiscover"
    BY <2>2 DEF UploadsDone
  <2> QED
    BY <2>2, <2>3, <2>4, <2>5, EarlyStep DEF CuratorInv
<1>7. CASE ArchiveSummarized
  <2>1. PICK s \in Streams : /\ Upload("summarized", s)
                             /\ \/ /\ at = "archiveHeadlines" /\ s = "headlines"
                                   /\ at' = "archiveDiscover"
                                \/ /\ at = "archiveDiscover" /\ s = "discover"
                                   /\ at' = "publishHeadlines"
    BY <1>7 DEF ArchiveSummarized, Streams
  <2>2. /\ archive' \subseteq Objects /\ missing' \subseteq Objects
        /\ archive \union missing \subseteq archive' \union missing'
        /\ <<"summarized", s, edition>> \in archive' \union missing'
    BY <1>1, <2>1, UploadKeeps DEF Buckets
  <2>3. /\ at \in BeforePublish /\ at \in Summarized /\ at' # "publishDiscover"
        /\ UNCHANGED <<edition, raw, summary, news>>
    BY <1>7, <2>1 DEF ArchiveSummarized, BeforePublish, Summarized, Steps
  <2>4. TypeOK'
    BY <1>1, <2>1, <2>2, <2>3 DEF TypeOK, Steps
  <2>5. SummaryComplete'
    BY <1>1, <2>3 DEF SummaryComplete
  <2>6. ASSUME at = "archiveHeadlines" PROVE UploadsDone'
    <3>1. s = "headlines" /\ at' = "archiveDiscover"
      BY <2>1, <2>6
    <3> QED
      BY <2>2, <2>3, <3>1 DEF UploadsDone
  <2>7. ASSUME at = "archiveDiscover" PROVE UploadsDone'
    <3>1. s = "discover" /\ at' = "publishHeadlines"
      BY <2>1, <2>7
    <3>2. <<"summarized", "headlines", edition>> \in archive \union missing
      BY <1>1, <2>7 DEF UploadsDone
    <3> QED
      BY <2>2, <2>3, <3>1, <3>2 DEF UploadsDone
  <2>8. UploadsDone'
    BY <2>1, <2>6, <2>7
  <2> QED
    BY <2>2, <2>3, <2>4, <2>5, <2>8, EarlyStep DEF CuratorInv
<1>8. ASSUME NEW s \in Streams, Set(s),
             \/ at = "publishHeadlines" /\ s = "headlines" /\ at' \in {"publishDiscover", "dead"}
             \/ at = "publishDiscover" /\ s = "discover" /\ at' \in {"sleep", "dead"},
             UNCHANGED <<edition, raw, summary, archive, missing>>
      PROVE  CuratorInv'
  <2>1. /\ HeadlinesLead' /\ ServedIsArchived' /\ NothingDropped'
        /\ news'["headlines"].edition = edition'
    BY <1>8, SetKeeps
  <2>2. TypeOK'
    BY <1>1, <1>8, SetEffect DEF TypeOK, Steps
  <2>3. at' \notin BeforePublish
    BY <1>8 DEF BeforePublish, Steps
  <2>4. EditionOrder'
    BY <1>2, <1>8, <2>1, <2>3 DEF EditionOrder
  <2>5. SummaryComplete'
    BY <1>1, <1>8 DEF SummaryComplete, Summarized
  <2>6. UploadsDone'
    BY <1>1, <1>8 DEF UploadsDone
  <2> QED
    BY <2>1, <2>2, <2>4, <2>5, <2>6 DEF CuratorInv
<1>9. CASE Publish
  BY <1>8, <1>9 DEF Publish, Streams
<1>10. ASSUME at' = "dead", UNCHANGED <<edition, raw, summary, archive, missing, news>>
       PROVE  CuratorInv'
  <2>1. TypeOK'
    BY <1>1, <1>10 DEF TypeOK
  <2>2. at' \notin BeforePublish /\ at' \notin Summarized
    BY <1>10 DEF BeforePublish, Summarized, Steps
  <2>3. HeadlinesLead' /\ ServedIsArchived' /\ NothingDropped'
    BY <1>1, <1>10 DEF HeadlinesLead, ServedIsArchived, NothingDropped
  <2>4. EditionOrder'
    BY <1>1, <1>10, <2>2 DEF EditionOrder
  <2>5. SummaryComplete' /\ UploadsDone'
    BY <1>10, <2>2 DEF SummaryComplete, UploadsDone
  <2> QED
    BY <2>1, <2>3, <2>4, <2>5 DEF CuratorInv
<1>11. CASE PublishFails
  BY <1>8, <1>10, <1>11 DEF PublishFails, Streams
<1>12. CASE Crash
  BY <1>10, <1>12 DEF Crash
<1>13. CASE NextPass
  <2>1. /\ EmptyLists \in Lists
        /\ [c \in Countries |-> {}] \in Headlines /\ [c \in Categories |-> {}] \in Discover
    <3>1. [c \in Countries |-> {}] \in Headlines /\ [c \in Categories |-> {}] \in Discover
      BY DEF Headlines, Discover
    <3> QED
      BY <3>1, ByStreamType DEF EmptyLists
  <2>2. edition' = edition + 1 /\ edition' \in 1 .. MaxEdition
    BY <1>1, <1>13, CuratorAssumption DEF NextPass, TypeOK
  <2>3. /\ at' = "fetchHeadlines" /\ raw' = EmptyLists /\ summary' = EmptyLists
        /\ UNCHANGED <<archive, missing, news>>
    BY <1>13 DEF NextPass
  <2>4. TypeOK'
    BY <1>1, <2>1, <2>2, <2>3 DEF TypeOK, Steps
  <2>5. news["headlines"].edition <= edition /\ news["discover"].edition <= news["headlines"].edition
    BY <1>1 DEF EditionOrder, HeadlinesLead
  <2>6. /\ news'["headlines"].edition < edition' /\ news'["headlines"].edition # edition'
        /\ news'["discover"].edition # edition'
    BY <1>2, <2>2, <2>3, <2>5
  <2>7. HeadlinesLead' /\ ServedIsArchived'
    BY <1>1, <2>3 DEF HeadlinesLead, ServedIsArchived
  <2>8. at' # "publishDiscover"
    BY <2>3
  <2>9. EditionOrder'
    BY <1>2, <2>2, <2>3, <2>6, <2>8 DEF EditionOrder
  <2>10. raw' \in Lists
    BY <2>1, <2>3
  <2>11. NothingDropped'
    BY <2>6, <2>10, NothingPublished DEF NothingDropped
  <2>12. SummaryComplete' /\ UploadsDone'
    BY <2>3 DEF SummaryComplete, Summarized, UploadsDone
  <2> QED
    BY <2>4, <2>7, <2>9, <2>11, <2>12 DEF CuratorInv
<1>14. CASE UNCHANGED curatorVars
  <2>1. TypeOK' /\ HeadlinesLead' /\ EditionOrder'
    BY <1>1, <1>14 DEF curatorVars, TypeOK, HeadlinesLead, EditionOrder
  <2>2. ServedIsArchived' /\ NothingDropped' /\ SummaryComplete' /\ UploadsDone'
    BY <1>1, <1>14 DEF curatorVars, ServedIsArchived, NothingDropped, SummaryComplete, UploadsDone
  <2> QED
    BY <2>1, <2>2 DEF CuratorInv
<1> QED
  BY <1>3, <1>4, <1>5, <1>6, <1>7, <1>9, <1>11, <1>12, <1>13, <1>14 DEF CuratorNext, Curate

THEOREM CuratorInvariance == CuratorSpec => []CuratorInv
<1>1. CuratorInit => CuratorInv
  BY CuratorInitInv
<1>2. CuratorInv /\ [CuratorNext]_curatorVars => CuratorInv'
  BY CuratorStepInv
<1> QED
  BY <1>1, <1>2, PTL DEF CuratorSpec

(* The variables of feed-curator have their types, with any fetch result,  *)
(* upload failure, Redis failure and death.                                *)
THEOREM CuratorTypeCorrect == CuratorSpec => []TypeOK
<1>1. CuratorInv => TypeOK
  BY DEF CuratorInv
<1> QED
  BY <1>1, CuratorInvariance, PTL

(* StoreSummarizedRedis of feed-curator: the headlines key is never behind *)
(* the discover key, although the process may die between the two Sets.    *)
THEOREM HeadlinesLeadHolds == CuratorSpec => []HeadlinesLead
<1>1. CuratorInv => HeadlinesLead
  BY DEF CuratorInv
<1> QED
  BY <1>1, CuratorInvariance, PTL

(* main of feed-curator: whatever feed-api reads was handed to             *)
(* UploadNewsAPISummarizedDataToMinIO before.                              *)
THEOREM ServedIsArchivedHolds == CuratorSpec => []ServedIsArchived
<1>1. CuratorInv => ServedIsArchived
  BY DEF CuratorInv
<1> QED
  BY <1>1, CuratorInvariance, PTL

(* The two summarizers: in whatever order the categories are visited, an   *)
(* article that has an image is published where it was fetched for.        *)
THEOREM NothingDroppedHolds == CuratorSpec => []NothingDropped
<1>1. CuratorInv => NothingDropped
  BY DEF CuratorInv
<1> QED
  BY <1>1, CuratorInvariance, PTL

-----------------------------------------------------------------------------
(* Nothing old is served.  The summaries of a pass have only what the pass *)
(* has fetched, and until a key is set it holds an earlier edition.        *)

SummaryFresh ==
    at \in Summarized =>
        \A s \in Streams : \A c \in DOMAIN raw[s] :
            summary[s][c] \subseteq FetchedFor(s, c) \ Imageless

FreshInv == SummaryFresh /\ NothingOld

(* Whatever the order of the categories is, the slice they share has only  *)
(* articles that were fetched for one of them.                             *)
LEMMA SummariesFresh ==
  ASSUME TypeOK, Summarize
  PROVE  SummaryFresh'
<1>1. PICK rank \in Orders :
        summary' = ByStream(SummarizeHeadlines(raw["headlines"]),
                            SummarizeDiscover(raw["discover"], rank))
  BY DEF Summarize
<1>2. DOMAIN raw["headlines"] = Countries /\ DOMAIN raw["discover"] = Categories /\ raw' = raw
  BY DEF TypeOK, Lists, Headlines, Discover, Summarize
<1>3. /\ summary'["headlines"] = SummarizeHeadlines(raw["headlines"])
      /\ summary'["discover"] = SummarizeDiscover(raw["discover"], rank)
  BY <1>1 DEF ByStream, Streams
<1>4. ASSUME NEW c \in Countries
      PROVE  summary'["headlines"][c] \subseteq FetchedFor("headlines", c)' \ Imageless
  BY <1>2, <1>3 DEF SummarizeHeadlines, FetchedFor
<1>5. ASSUME NEW c \in Categories
      PROVE  summary'["discover"][c] \subseteq FetchedFor("discover", c)' \ Imageless
  <2> DEFINE some == UNION {raw["discover"][d] : d \in {e \in Categories : rank[e] <= rank[c]}}
             all == UNION {raw["discover"][d] : d \in Categories}
  <2>1. some \subseteq all
    OBVIOUS
  <2>2. summary'["discover"][c] = some \ Imageless
    BY <1>3 DEF SummarizeDiscover
  <2>3. FetchedFor("discover", c)' = all
    BY <1>2 DEF FetchedFor
  <2> QED
    BY <2>1, <2>2, <2>3
<1> QED
  BY <1>2, <1>4, <1>5 DEF SummaryFresh, Streams

(* A step to where the headlines are not set yet: both keys hold earlier   *)
(* editions.                                                               *)
LEMMA BothKeysOlder ==
  ASSUME CuratorInv', at' \in BeforePublish
  PROVE  NothingOld'
<1>1. TypeOK' /\ HeadlinesLead' /\ EditionOrder'
  BY DEF CuratorInv
<1>2. news'["headlines"].edition < edition' /\ news'["discover"].edition <= news'["headlines"].edition
  BY <1>1 DEF HeadlinesLead, EditionOrder
<1>3. /\ edition' \in Nat
      /\ news'["headlines"].edition \in 0 .. MaxEdition /\ news'["discover"].edition \in 0 .. MaxEdition
  BY <1>1 DEF TypeOK, Streams
<1>4. news'["headlines"].edition # edition' /\ news'["discover"].edition # edition'
  BY <1>2, <1>3, CuratorAssumption
<1> QED
  BY <1>4 DEF NothingOld, Streams

(* A key that is set is given the summary, and the other one is left as it *)
(* was, which belongs to this pass, too, or to an earlier one.             *)
LEMMA SetFresh ==
  ASSUME TypeOK, FreshInv, at \in Summarized, NEW s \in Streams, Set(s),
         UNCHANGED <<edition, raw, summary>>
  PROVE  NothingOld'
<1>1. news'[s].lists = summary[s] /\ \A t \in Streams \ {s} : news'[t] = news[t]
  BY SetEffect
<1>2. SummaryFresh /\ NothingOld
  BY DEF FreshInv
<1>3. ASSUME NEW t \in Streams, news'[t].edition = edition, NEW c \in DOMAIN raw[t]
      PROVE  news'[t].lists[c] \subseteq FetchedFor(t, c) \ Imageless
  <2>1. CASE t = s
    BY <1>1, <1>2, <2>1 DEF SummaryFresh
  <2>2. CASE t # s
    BY <1>1, <1>2, <1>3, <2>2 DEF NothingOld
  <2> QED
    BY <2>1, <2>2
<1> QED
  BY <1>3 DEF NothingOld, FetchedFor

(* Before the publishing the lemma above is about the keys; the publishing *)
(* and a death change neither what was fetched nor the summaries.          *)
LEMMA FreshStep ==
  ASSUME CuratorInv, CuratorInv', FreshInv, [CuratorNext]_curatorVars
  PROVE  FreshInv'
<1>1. TypeOK /\ SummaryFresh /\ NothingOld
  BY DEF CuratorInv, FreshInv
<1>2. CASE FetchHeadlines \/ FetchDiscover \/ ArchiveRaw \/ NextPass
  <2>1. at' \in BeforePublish /\ at' \notin Summarized
    BY <1>2 DEF FetchHeadlines, FetchDiscover, ArchiveRaw, NextPass, BeforePublish, Steps, Summarized
  <2> QED
    BY <2>1, BothKeysOlder DEF FreshInv, SummaryFresh
<1>3. CASE Summarize
  <2>1. at' \in BeforePublish
    BY <1>3 DEF Summarize, BeforePublish, Steps
  <2> QED
    BY <1>1, <1>3, <2>1, SummariesFresh, BothKeysOlder DEF FreshInv
<1>4. CASE ArchiveSummarized
  <2>1. at' \in BeforePublish /\ at \in Summarized /\ UNCHANGED <<raw, summary>>
    BY <1>4 DEF ArchiveSummarized, BeforePublish, Steps, Summarized
  <2> QED
    BY <1>1, <2>1, BothKeysOlder DEF FreshInv, SummaryFresh, FetchedFor
<1>5. CASE Publish \/ PublishFails
  <2>1. /\ at \in Summarized /\ UNCHANGED <<edition, raw, summary>>
        /\ (\E s \in Streams : Set(s)) \/ UNCHANGED news
    BY <1>5 DEF Publish, PublishFails, Summarized, Streams
  <2>2. SummaryFresh'
    BY <1>1, <2>1 DEF SummaryFresh, FetchedFor
  <2>3. NothingOld'
    <3>1. CASE UNCHANGED news
      BY <1>1, <2>1, <3>1 DEF NothingOld, FetchedFor
    <3>2. CASE \E s \in Streams : Set(s)
      BY <1>1, <2>1, <3>2, SetFresh
    <3> QED
      BY <2>1, <3>1, <3>2
  <2> QED
    BY <2>2, <2>3 DEF FreshInv
<1>6. CASE Crash \/ UNCHANGED curatorVars
  <2>1. (at' = "dead" \/ at' = at) /\ UNCHANGED <<edition, raw, summary, news>>
    BY <1>6 DEF Crash, curatorVars
  <2>2. at' \in Summarized => at \in Summarized
    BY <2>1 DEF Summarized
  <2> QED
    BY <1>1, <2>1, <2>2 DEF FreshInv, SummaryFresh, NothingOld, FetchedFor
<1> QED
  BY <1>2, <1>3, <1>4, <1>5, <1>6 DEF CuratorNext, Curate

(* SummarizeCategorizedNews hands articles from one category on to the     *)
(* next; main declares its maps in the loop, so that none of them, and no  *)
(* article without an image, is ever served as news of a later pass.       *)
THEOREM NothingOldHolds == CuratorSpec => []NothingOld
<1>1. CuratorInit => FreshInv
  <2>1. ASSUME CuratorInit PROVE \A s \in Streams : news[s].edition # edition
    BY <2>1 DEF CuratorInit, Streams
  <2> QED
    BY <2>1 DEF CuratorInit, FreshInv, SummaryFresh, Summarized, NothingOld
<1>2. CuratorInv /\ CuratorInv' /\ FreshInv /\ [CuratorNext]_curatorVars => FreshInv'
  BY FreshStep
<1>3. FreshInv => NothingOld
  BY DEF FreshInv
<1> QED
  BY <1>1, <1>2, <1>3, CuratorInvariance, PTL DEF CuratorSpec

-----------------------------------------------------------------------------
(* The readers.  A client that is under way has its article in every place *)
(* of its history, and DetailHandler, which has read the headlines, has it *)
(* there if the headlines never lost it.                                   *)

Watched ==
    \A c \in Clients : pc[c] # "done" => stable[c] \subseteq PlacesOf(wanted[c])

Remembered ==
    \A c \in Clients : pc[c] = "discover" /\ "headlines" \in stable[c] =>
        wanted[c] \in AllOf(headlines[c])

Unanswered == \A c \in Clients : pc[c] # "done" => answer[c] = "none"

FeedInv ==
    /\ CuratorInv
    /\ FeedTypeOK
    /\ Watched
    /\ Remembered
    /\ Unanswered
    /\ StableArticleFound

LEMMA PlacesOfType ==
  ASSUME NEW a
  PROVE  /\ PlacesOf(a) \in SUBSET Streams
         /\ \A s \in Streams : s \in PlacesOf(a) => a \in AllOf(news[s].lists)
  BY DEF PlacesOf

LEMMA ListsHoldArticles ==
  ASSUME TypeOK
  PROVE  /\ \A c \in Countries : news["headlines"].lists[c] \subseteq Articles
         /\ \A c \in Categories : news["discover"].lists[c] \subseteq Articles
  BY DEF TypeOK, Headlines, Discover

LEMMA EmptyHeadlinesType == EmptyLists["headlines"] \in Headlines
<1>1. [c \in Countries |-> {}] \in Headlines /\ [c \in Categories |-> {}] \in Discover
  BY DEF Headlines, Discover
<1> QED
  BY <1>1, ByStreamType DEF EmptyLists

LEMMA FeedInitInv ==
  ASSUME Init
  PROVE  FeedInv
<1>1. CuratorInv
  BY CuratorInitInv DEF Init
<1>2. FeedTypeOK
  BY EmptyHeadlinesType DEF Init, FeedTypeOK
<1>3. Watched /\ Remembered /\ Unanswered /\ StableArticleFound
  BY DEF Init, Watched, Remembered, Unanswered, StableArticleFound
<1> QED
  BY <1>1, <1>2, <1>3 DEF FeedInv

(* A client is served a list and picks an article of it.                   *)
LEMMA PickInv ==
  ASSUME FeedInv, NEW c \in Clients, NEW list \in SUBSET Articles,
         pc[c] = "list", Pick(c, list), UNCHANGED curatorVars
  PROVE  FeedTypeOK' /\ Watched' /\ Remembered' /\ Unanswered' /\ StableArticleFound'
<1>1. FeedTypeOK /\ Watched /\ Remembered /\ Unanswered /\ StableArticleFound
  BY DEF FeedInv
<1>2. PICK a \in list :
        /\ wanted' = [wanted EXCEPT ![c] = a]
        /\ stable' = [stable EXCEPT ![c] = PlacesOf(a)]
        /\ pc' = [pc EXCEPT ![c] = "detail"]
        /\ UNCHANGED <<headlines, answer>>
  BY DEF Pick
<1>3. PlacesOf(a) \in SUBSET Streams
  BY PlacesOfType
<1>4. FeedTypeOK'
  BY <1>1, <1>2, <1>3 DEF FeedTypeOK
<1>6. Watched'
  <2>1. ASSUME NEW d \in Clients, pc'[d] # "done"
        PROVE  stable'[d] \subseteq PlacesOf(wanted'[d])
    BY <1>1, <1>2, <2>1 DEF FeedTypeOK, Watched
  <2>2. \A d \in Clients : pc'[d] # "done" => stable'[d] \subseteq PlacesOf(wanted[d])'
    BY <2>1 DEF PlacesOf, curatorVars
  <2> QED
    BY <2>2 DEF Watched
<1>7. Remembered'
  BY <1>1, <1>2 DEF FeedTypeOK, Remembered
<1>8. Unanswered'
  BY <1>1, <1>2 DEF FeedTypeOK, Unanswered
<1>9. StableArticleFound'
  <2>1. answer[c] = "none"
    BY <1>1 DEF Unanswered
  <2> QED
    BY <1>1, <1>2, <2>1 DEF FeedTypeOK, StableArticleFound
<1> QED
  BY <1>4, <1>6, <1>7, <1>8, <1>9

(* A client is answered: "notFound" only if the searches found nothing.    *)
LEMMA AnswerInv ==
  ASSUME FeedInv, NEW c \in Clients, NEW result \in {"found", "notFound", "failed"},
         pc[c] # "done", Answer(c, result),
         result = "notFound" => stable[c] = {},
         UNCHANGED <<curatorVars, wanted>>
  PROVE  FeedTypeOK' /\ Watched' /\ Remembered' /\ Unanswered' /\ StableArticleFound'
<1>1. FeedTypeOK /\ Watched /\ Remembered /\ Unanswered /\ StableArticleFound
  BY DEF FeedInv
<1>2. /\ pc' = [pc EXCEPT ![c] = "done"] /\ answer' = [answer EXCEPT ![c] = result]
      /\ headlines' = [headlines EXCEPT ![c] = EmptyLists["headlines"]]
      /\ stable' = stable \/ stable' = [stable EXCEPT ![c] = {}]
      /\ result = "notFound" => stable' = stable
  BY DEF Answer
<1>3. FeedTypeOK'
  BY <1>1, <1>2, EmptyHeadlinesType DEF FeedTypeOK
<1>4. \A d \in Clients : pc'[d] # "done" =>
        /\ d # c /\ pc'[d] = pc[d] /\ answer'[d] = answer[d]
        /\ headlines'[d] = headlines[d] /\ stable'[d] = stable[d]
  BY <1>1, <1>2 DEF FeedTypeOK
<1>5. Watched'
  BY <1>1, <1>4 DEF Watched, PlacesOf, curatorVars
<1>6. Remembered'
  BY <1>1, <1>4 DEF Remembered, AllOf
<1>7. Unanswered'
  BY <1>1, <1>4 DEF Unanswered
<1>8. StableArticleFound'
  BY <1>1, <1>2 DEF FeedTypeOK, StableArticleFound
<1> QED
  BY <1>3, <1>5, <1>6, <1>7, <1>8

(* DetailHandler reads the headlines: if they never lost the article, it   *)
(* has it now.                                                             *)
LEMMA ReadHeadlinesInv ==
  ASSUME FeedInv, NEW c \in Clients, ReadHeadlines(c), UNCHANGED curatorVars
  PROVE  FeedTypeOK' /\ Watched' /\ Remembered' /\ Unanswered' /\ StableArticleFound'
<1>1. FeedTypeOK /\ Watched /\ Remembered /\ Unanswered /\ StableArticleFound
  BY DEF FeedInv
<1>2. news["headlines"].lists \in Headlines
  BY DEF FeedInv, CuratorInv, TypeOK
<1>3. /\ pc[c] = "detail"
      /\ headlines' = [headlines EXCEPT ![c] = news["headlines"].lists]
      /\ pc' = [pc EXCEPT ![c] = "discover"]
      /\ UNCHANGED <<wanted, answer, stable>>
  BY DEF ReadHeadlines
<1>4. FeedTypeOK'
  BY <1>1, <1>2, <1>3 DEF FeedTypeOK
<1>5. \A d \in Clients : pc'[d] # "done" => pc[d] # "done"
  BY <1>1, <1>3 DEF FeedTypeOK
<1>6. Watched'
  BY <1>1, <1>3, <1>5 DEF Watched, PlacesOf, curatorVars
<1>7. Remembered'
  <2>1. "headlines" \in stable[c] => wanted[c] \in AllOf(news["headlines"].lists)
    BY <1>1, <1>3, PlacesOfType DEF Watched, Streams
  <2>2. headlines'[c] = news["headlines"].lists
    BY <1>1, <1>3 DEF FeedTypeOK
  <2>3. \A d \in Clients \ {c} : headlines'[d] = headlines[d] /\ pc'[d] = pc[d]
    BY <1>1, <1>3 DEF FeedTypeOK
  <2>4. ASSUME NEW d \in Clients, pc'[d] = "discover", "headlines" \in stable'[d]
        PROVE  wanted'[d] \in AllOf(headlines'[d])
    BY <1>1, <1>3, <2>1, <2>2, <2>3, <2>4 DEF Remembered
  <2> QED
    BY <2>4 DEF Remembered, AllOf
<1>8. Unanswered'
  BY <1>1, <1>3 DEF FeedTypeOK, Unanswered
<1>9. StableArticleFound'
  BY <1>1, <1>3 DEF StableArticleFound
<1> QED
  BY <1>4, <1>6, <1>7, <1>8, <1>9

(* DetailHandler reads the discover news and searches both.                *)
LEMMA ReadDiscoverInv ==
  ASSUME FeedInv, NEW c \in Clients, ReadDiscover(c), UNCHANGED curatorVars
  PROVE  FeedTypeOK' /\ Watched' /\ Remembered' /\ Unanswered' /\ StableArticleFound'
<1>1. Watched /\ Remembered /\ stable[c] \subseteq Streams
  BY DEF FeedInv, FeedTypeOK
<1>2. /\ pc[c] = "discover"
      /\ UNCHANGED wanted
      /\ Answer(c, IF FindArticleByID(wanted[c], headlines[c], news["discover"].lists)
                    THEN "found" ELSE "notFound")
  BY DEF ReadDiscover
<1>3. CASE FindArticleByID(wanted[c], headlines[c], news["discover"].lists)
  BY <1>2, <1>3, AnswerInv
<1>4. CASE ~FindArticleByID(wanted[c], headlines[c], news["discover"].lists)
  <2>1. wanted[c] \notin AllOf(headlines[c]) /\ wanted[c] \notin AllOf(news["discover"].lists)
    BY <1>4 DEF FindArticleByID
  <2>2. "headlines" \notin stable[c]
    BY <1>1, <1>2, <2>1 DEF Remembered
  <2>3. "discover" \notin stable[c]
    BY <1>1, <1>2, <2>1, PlacesOfType DEF Watched, Streams
  <2>4. stable[c] = {}
    BY <1>1, <2>2, <2>3 DEF Streams
  <2>5. Answer(c, "notFound")
    BY <1>2, <1>4
  <2> QED
    BY <1>2, <2>4, <2>5, AnswerInv
<1> QED
  BY <1>3, <1>4

(* The curator takes a step beside the readers.                            *)
LEMMA CuratorBesideInv ==
  ASSUME FeedInv, UNCHANGED <<pc, wanted, headlines, answer>>, Watch
  PROVE  FeedTypeOK' /\ Watched' /\ Remembered' /\ Unanswered' /\ StableArticleFound'
<1>1. FeedTypeOK /\ Watched /\ Remembered /\ Unanswered /\ StableArticleFound
  BY DEF FeedInv
<1>2. \A c \in Clients : stable'[c] \subseteq stable[c]
  BY DEF Watch
<1>3. FeedTypeOK'
  <2>1. \A c \in Clients : stable[c] \subseteq Streams
    BY <1>1 DEF FeedTypeOK
  <2>2. stable' = [c \in Clients |-> stable'[c]]
    BY DEF Watch
  <2>3. stable' \in [Clients -> SUBSET Streams]
    BY <1>2, <2>1, <2>2
  <2> QED
    BY <1>1, <2>3 DEF FeedTypeOK
<1>4. Watched'
  <2>1. \A c \in Clients : pc[c] # "done" => stable'[c] \subseteq PlacesOf(wanted[c])'
    BY DEF Watch
  <2> QED
    BY <2>1 DEF Watched
<1>5. Remembered'
  BY <1>1, <1>2 DEF Remembered, AllOf
<1>6. Unanswered'
  BY <1>1 DEF Unanswered
<1>7. StableArticleFound'
  BY <1>1, <1>2 DEF StableArticleFound
<1> QED
  BY <1>3, <1>4, <1>5, <1>6, <1>7

LEMMA FeedStepInv ==
  ASSUME FeedInv, [Next]_vars
  PROVE  FeedInv'
<1> DEFINE Readers == FeedTypeOK /\ Watched /\ Remembered /\ Unanswered /\ StableArticleFound
<1>1. CuratorInv'
  <2>1. [CuratorNext]_curatorVars
    BY DEF Next, vars
  <2> QED
    BY <2>1, CuratorStepInv DEF FeedInv
<1>2. CASE ListHandlers /\ UNCHANGED curatorVars
  <2>1. PICK c \in Clients : ListHeadlines(c) \/ ListDiscover(c)
    BY <1>2 DEF ListHandlers
  <2>2. PICK list \in SUBSET Articles : pc[c] = "list" /\ Pick(c, list)
    BY <2>1, ListsHoldArticles, FeedAssumption DEF ListHeadlines, ListDiscover, FeedInv, CuratorInv
  <2>3. Readers'
    BY <1>2, <2>2, PickInv
  <2> QED
    BY <1>1, <2>3 DEF FeedInv
<1>3. CASE DetailHandler /\ UNCHANGED curatorVars
  <2>1. Readers'
    BY <1>3, ReadHeadlinesInv, ReadDiscoverInv DEF DetailHandler
  <2> QED
    BY <1>1, <2>1 DEF FeedInv
<1>4. CASE (\E c \in Clients : ReadFails(c)) /\ UNCHANGED curatorVars
  <2>1. PICK c \in Clients : ReadFails(c)
    BY <1>4
  <2>2. pc[c] # "done" /\ Answer(c, "failed") /\ UNCHANGED wanted
    BY <2>1 DEF ReadFails
  <2>3. Readers'
    BY <1>4, <2>2, AnswerInv
  <2> QED
    BY <1>1, <2>3 DEF FeedInv
<1>5. CASE CuratorNext /\ UNCHANGED <<pc, wanted, headlines, answer>> /\ Watch
  <2>1. Readers'
    BY <1>5, CuratorBesideInv
  <2> QED
    BY <1>1, <2>1 DEF FeedInv
<1>6. CASE UNCHANGED vars
  <2>1. UNCHANGED <<news, pc, wanted, headlines, answer, stable>>
    BY <1>6 DEF vars, curatorVars, readerVars
  <2>2. Readers'
    BY <2>1 DEF FeedInv, FeedTypeOK, Watched, PlacesOf, Remembered, AllOf, Unanswered, StableArticleFound
  <2> QED
    BY <1>1, <2>2 DEF FeedInv
<1> QED
  BY <1>2, <1>3, <1>4, <1>5, <1>6 DEF Next

THEOREM FeedInvariance == Spec => []FeedInv
<1>1. Init => FeedInv
  BY FeedInitInv
<1>2. FeedInv /\ [Next]_vars => FeedInv'
  BY FeedStepInv
<1> QED
  BY <1>1, <1>2, PTL DEF Spec

(* The readers' variables have their types beside any curator.             *)
THEOREM FeedTypeCorrect == Spec => []FeedTypeOK
<1>1. FeedInv => FeedTypeOK
  BY DEF FeedInv
<1> QED
  BY <1>1, FeedInvariance, PTL

(* DetailHandler finds an article that one of the keys never lost between  *)
(* the list and the answer, wherever the Sets fall between its two reads.  *)
THEOREM StableArticleFoundHolds == Spec => []StableArticleFound
<1>1. FeedInv => StableArticleFound
  BY DEF FeedInv
<1> QED
  BY <1>1, FeedInvariance, PTL
=============================================================================
