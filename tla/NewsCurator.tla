----------------------------- MODULE NewsCurator -----------------------------
(***************************************************************************)
(* feed-curator.  Once a day it makes an edition of the news: it fetches   *)
(* the headlines of the countries and the news of the discover categories, *)
(* uploads both raw, summarises both, uploads both summaries and sets the  *)
(* keys "headlines" and "discover" of the news Redis, one after the other. *)
(* The two keys are all that feed-api reads.                               *)
(*                                                                         *)
(* An article stands for its StockicID, the hash of its fields.  What the  *)
(* fetchers bring may be anything: an error ends the fetching of a country *)
(* or category with what was fetched before it.                            *)
(***************************************************************************)
EXTENDS Naturals, FiniteSets

CONSTANTS
    Countries, Categories,  \* allCountries and discoverTags
    Articles,
    Imageless,              \* the articles without urlToImage
    MaxEdition              \* bound: the number of passes of the main loop

ASSUME CuratorAssumption ==
    /\ Imageless \subseteq Articles
    /\ IsFiniteSet(Categories)
    /\ MaxEdition \in Nat \ {0}

VARIABLES
    at,        \* the step of the main loop that is next, or "dead"
    edition,   \* the number of this pass
    raw,       \* categorizedHeadlines and categorizedDiscovery
    summary,   \* summarizedHeadlines and summarizedCategorized
    archive,   \* the objects in the two archive buckets
    missing,   \* history: the uploads that failed or were overwritten
    news       \* the keys of the news Redis

curatorVars == <<at, edition, raw, summary, archive, missing, news>>

Streams == {"headlines", "discover"}
Buckets == {"raw", "summarized"}
Objects == Buckets \X Streams \X (1 .. MaxEdition)
Headlines == [Countries -> SUBSET Articles]
Discover == [Categories -> SUBSET Articles]
Lists == {l \in [Streams -> Headlines \union Discover] :
              l["headlines"] \in Headlines /\ l["discover"] \in Discover}
ByStream(forHeadlines, forDiscover) ==
    [s \in Streams |-> IF s = "headlines" THEN forHeadlines ELSE forDiscover]

(* The steps of the main loop in their order.                              *)
Steps == {"fetchHeadlines", "fetchDiscover", "archiveRawHeadlines",
          "archiveRawDiscover", "summarize", "archiveHeadlines",
          "archiveDiscover", "publishHeadlines", "publishDiscover", "sleep"}

EmptyLists == ByStream([c \in Countries |-> {}], [c \in Categories |-> {}])

(* A key that was never set has edition 0.                                 *)
CuratorInit ==
    /\ at = "fetchHeadlines"
    /\ edition = 1
    /\ raw = EmptyLists
    /\ summary = EmptyLists
    /\ archive = {}
    /\ missing = {}
    /\ news = [s \in Streams |-> [edition |-> 0, lists |-> EmptyLists[s]]]

-----------------------------------------------------------------------------
(* Fetching and summarising.                                               *)

FetchHeadlines ==
    /\ at = "fetchHeadlines"
    /\ \E fetched \in Headlines : raw' = [raw EXCEPT !["headlines"] = fetched]
    /\ at' = "fetchDiscover"
    /\ UNCHANGED <<edition, summary, archive, missing, news>>

FetchDiscover ==
    /\ at = "fetchDiscover"
    /\ \E fetched \in Discover : raw' = [raw EXCEPT !["discover"] = fetched]
    /\ at' = "archiveRawHeadlines"
    /\ UNCHANGED <<edition, summary, archive, missing, news>>

(* SummarizeCountryCategorizedHeadlines: articles without an image are     *)
(* skipped.                                                                *)
SummarizeHeadlines(fetched) == [c \in Countries |-> fetched[c] \ Imageless]

(* The orders in which a loop over a map may visit the categories.         *)
Orders ==
    {rank \in [Categories -> 1 .. Cardinality(Categories)] :
        \A c, d \in Categories : rank[c] = rank[d] => c = d}

(* Mutant: summarizedArticles is declared outside of the function, too, so *)
(* that it still has what was published last.                              *)
SummarizeOnTop(fetched, rank) ==
    [c \in Categories |->
        (UNION {fetched[d] : d \in Categories} \ Imageless) \union news["discover"].lists[c]]

(* Mutant: an article that an earlier category was given is skipped.       *)
SummarizeOnce(fetched, rank) ==
    [c \in Categories |->
        fetched[c] \ (Imageless \union
                       UNION {fetched[d] : d \in {e \in Categories : rank[e] < rank[c]}})]

(* SummarizeCategorizedNews: summarizedArticles is declared outside of the *)
(* loop over the categories, so each of them is given what the categories  *)
(* visited before it were given, too.                                      *)
SummarizeDiscover(fetched, rank) ==
    [c \in Categories |->
        (UNION {fetched[d] : d \in {e \in Categories : rank[e] <= rank[c]}}) \ Imageless]

(* Mutant: the summaries are published without being archived.             *)
SummarizeAndPublish ==
    /\ at = "summarize"
    /\ \E rank \in Orders :
         summary' = ByStream(SummarizeHeadlines(raw["headlines"]),
                             SummarizeDiscover(raw["discover"], rank))
    /\ at' = "publishHeadlines"
    /\ UNCHANGED <<edition, raw, archive, missing, news>>

Summarize ==
    /\ at = "summarize"
    /\ \E rank \in Orders :
         summary' = ByStream(SummarizeHeadlines(raw["headlines"]),
                             SummarizeDiscover(raw["discover"], rank))
    /\ at' = "archiveHeadlines"
    /\ UNCHANGED <<edition, raw, archive, missing, news>>

-----------------------------------------------------------------------------
(* Archiving.  The name of an object is the second of its upload, the same *)
(* prefix for both streams: the discover object replaces the headlines     *)
(* object of its edition when both are uploaded in one second.  A failed   *)
(* upload is logged and the pass goes on.                                  *)

(* Mutant: after a failed upload the next one waits.                       *)
UploadOrWait(bucket, stream) ==
    LET object == <<bucket, stream, edition>>
    IN  /\ \A m \in missing : m[3] # edition
        /\ \/ archive' = archive \union {object} /\ UNCHANGED missing
           \/ missing' = missing \union {object} /\ UNCHANGED archive

Upload(bucket, stream) ==
    LET object == <<bucket, stream, edition>>
        replaced == IF stream = "discover" THEN archive \intersect {<<bucket, "headlines", edition>>}
                    ELSE {}
    IN  \/ /\ archive' = archive \union {object}
           /\ UNCHANGED missing
        \/ /\ archive' = (archive \ replaced) \union {object}
           /\ missing' = missing \union replaced
        \/ /\ missing' = missing \union {object}
           /\ UNCHANGED archive

(* UploadNewsAPIResponseDataToMinIO                                        *)
ArchiveRaw ==
    /\ \/ /\ at = "archiveRawHeadlines"
          /\ Upload("raw", "headlines")
          /\ at' = "archiveRawDiscover"
       \/ /\ at = "archiveRawDiscover"
          /\ Upload("raw", "discover")
          /\ at' = "summarize"
    /\ UNCHANGED <<edition, raw, summary, news>>

(* UploadNewsAPISummarizedDataToMinIO                                      *)
ArchiveSummarized ==
    /\ \/ /\ at = "archiveHeadlines"
          /\ Upload("summarized", "headlines")
          /\ at' = "archiveDiscover"
       \/ /\ at = "archiveDiscover"
          /\ Upload("summarized", "discover")
          /\ at' = "publishHeadlines"
    /\ UNCHANGED <<edition, raw, summary, news>>

-----------------------------------------------------------------------------
(* Publishing.                                                             *)

(* Mutant: the key is set to the other stream's map.                       *)
SetOther(stream) ==
    \E other \in Streams \ {stream} :
       news' = [news EXCEPT ![stream] = [edition |-> edition, lists |-> summary[other]]]

Set(stream) ==
    news' = [news EXCEPT ![stream] = [edition |-> edition, lists |-> summary[stream]]]

(* Mutant: discover is published before the headlines.                     *)
DiscoverFirst ==
    /\ \/ at = "publishHeadlines" /\ Set("discover") /\ at' = "publishDiscover"
       \/ at = "publishDiscover" /\ Set("headlines") /\ at' = "sleep"
    /\ UNCHANGED <<edition, raw, summary, archive, missing>>

(* StoreSummarizedRedis: one Set per stream.  When Set returns an error,   *)
(* executed or not, log.Fatalf ends the process: neither the error branch  *)
(* in main nor the next stream is reached.                                 *)
Publish ==
    /\ \/ at = "publishHeadlines" /\ Set("headlines") /\ at' = "publishDiscover"
       \/ at = "publishDiscover" /\ Set("discover") /\ at' = "sleep"
    /\ UNCHANGED <<edition, raw, summary, archive, missing>>

PublishFails ==
    /\ \/ at = "publishHeadlines" /\ (Set("headlines") \/ UNCHANGED news)
       \/ at = "publishDiscover" /\ (Set("discover") \/ UNCHANGED news)
    /\ at' = "dead"
    /\ UNCHANGED <<edition, raw, summary, archive, missing>>

(* The process dies: a nil client, no memory, the host.                    *)
Crash ==
    /\ at # "dead"
    /\ at' = "dead"
    /\ UNCHANGED <<edition, raw, summary, archive, missing, news>>

(* The next pass: at midnight, or when the process is started again.       *)
NextPass ==
    /\ at \in {"sleep", "dead"}
    /\ edition < MaxEdition
    /\ edition' = edition + 1
    /\ at' = "fetchHeadlines"
    /\ raw' = EmptyLists
    /\ summary' = EmptyLists
    /\ UNCHANGED <<archive, missing, news>>

(* main of feed-curator.                                                   *)
Curate ==
    \/ FetchHeadlines \/ FetchDiscover \/ ArchiveRaw
    \/ Summarize \/ ArchiveSummarized \/ Publish

CuratorNext == Curate \/ PublishFails \/ Crash \/ NextPass

CuratorSpec == CuratorInit /\ [][CuratorNext]_curatorVars

-----------------------------------------------------------------------------
TypeOK ==
    /\ at \in Steps \union {"dead"}
    /\ edition \in 1 .. MaxEdition
    /\ raw \in Lists
    /\ summary \in Lists
    /\ archive \subseteq Objects
    /\ missing \subseteq Objects
    /\ news \in [Streams -> [edition : 0 .. MaxEdition, lists : Headlines \union Discover]]
    /\ news["headlines"].lists \in Headlines
    /\ news["discover"].lists \in Discover

(* However often a pass dies between the two Sets and the next one starts  *)
(* anew, the discover key never holds a later edition than the headlines   *)
(* key: what feed-api reads first is at least as fresh as what it reads    *)
(* second.                                                                 *)
HeadlinesLead == news["discover"].edition <= news["headlines"].edition

(* What feed-api serves of an edition was archived before: it is in the    *)
(* bucket, unless its upload failed or was overwritten.                    *)
ServedIsArchived ==
    \A s \in Streams : news[s].edition > 0 =>
        <<"summarized", s, news[s].edition>> \in archive \union missing

(* No article with an image gets lost between the fetchers and Redis: each *)
(* is in every country's headlines and in every category it was fetched    *)
(* for, whatever the order in which the categories are visited.            *)
NothingDropped ==
    \A s \in Streams : news[s].edition = edition =>
        \A c \in DOMAIN raw[s] : raw[s][c] \ Imageless \subseteq news[s].lists[c]

(* The other way round nothing is served as news of a pass that the pass   *)
(* has not fetched: what the shared slice carries from one category to     *)
(* another it does not carry from one pass to the next, nor into the       *)
(* headlines, however passes die and are started anew.                     *)
FetchedFor(s, c) ==
    IF s = "headlines" THEN raw[s][c] ELSE UNION {raw[s][d] : d \in Categories}

NothingOld ==
    \A s \in Streams : news[s].edition = edition =>
        \A c \in DOMAIN raw[s] : news[s].lists[c] \subseteq FetchedFor(s, c) \ Imageless

(* A pass that does not die publishes both streams, however much of the    *)
(* fetching and of the uploading fails: it never happens that from some    *)
(* time on a living pass has not published.                                *)
PassPublishes ==
    []<>(at = "dead" \/ \A s \in Streams : news[s].edition = edition)

(* "The Discover Page is where users get categorized newsfeeds": what a    *)
(* category shows was fetched for that category.                           *)
CategoriesPure ==
    news["discover"].edition = edition =>
        \A c \in Categories : news["discover"].lists[c] \subseteq raw["discover"][c]
=============================================================================
