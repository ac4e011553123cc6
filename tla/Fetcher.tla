------------------------------ MODULE Fetcher ------------------------------
(***************************************************************************)
(* The fetcher of feed-curator, as part of its main loop.  For each        *)
(* country, and then for each discover category, it asks NewsAPI for one   *)
(* page after the other until it has as many articles as NewsAPI says      *)
(* there are, or until a call fails.                                       *)
(*                                                                         *)
(* NewsAPI lists the newest article first and its list is not frozen while *)
(* the pages are asked for: a new article moves the others one place down, *)
(* a withdrawn one moves them up.  totalResults need not be the number of  *)
(* articles that the pages hold.                                           *)
(***************************************************************************)
EXTENDS NewsCurator, Integers, Sequences

CONSTANTS
    PageSize,     \* "20"
    MaxListing,   \* bound: the articles that NewsAPI lists for one target
    Surpluses,    \* by how much totalResults may differ from what is listed
    NoTarget

Targets == Countries \union Categories

ASSUME FetcherAssumption ==
    /\ PageSize \in Nat \ {0}
    /\ MaxListing \in Nat
    /\ Surpluses \subseteq Int
    /\ NoTarget \notin Targets
    /\ Countries \intersect Categories = {}

VARIABLES
    target,     \* the country or category that is being fetched
    left,       \* the targets that this pass has not finished
    page,       \* the page that is asked for next
    fetched,    \* allArticles, categoryArticles
    responses,  \* countryHeadlines, categorizedResponses
    listing,    \* NewsAPI: what it lists for the target
    surplus,    \* NewsAPI: totalResults minus the articles it lists
    moved,      \* history: the listing has changed since the first page
    lasting,    \* history: the articles that have been listed all the time since
    pulled      \* history: one was withdrawn from the pages fetched so far

fetcherVars == <<target, left, page, fetched, responses, listing, surplus,
                 moved, lasting, pulled>>
mainVars == <<curatorVars, fetcherVars>>

ArticlesIn(list) == {list[i] : i \in DOMAIN list}
Distinct(list) == \A i, j \in DOMAIN list : list[i] = list[j] => i = j
Listings ==
    {l \in UNION {[1 .. n -> Articles] : n \in 0 .. MaxListing} : Distinct(l)}

NothingFetched ==
    /\ target = NoTarget
    /\ left = Targets
    /\ page = 1
    /\ fetched = <<>>
    /\ responses = [t \in Targets |-> {}]
    /\ listing = <<>>
    /\ surplus = 0
    /\ moved = FALSE
    /\ lasting = {}
    /\ pulled = FALSE

FetcherInit == CuratorInit /\ NothingFetched

(* The targets of the stream that is being fetched.                        *)
Wanted ==
    CASE at = "fetchHeadlines" -> Countries
      [] at = "fetchDiscover" -> Categories
      [] OTHER -> {}

-----------------------------------------------------------------------------
(* The loop over the countries, or the categories; which of them comes     *)
(* first does not matter.                                                  *)
NextTarget ==
    /\ target = NoTarget
    /\ target' \in Wanted \intersect left
    /\ page' = 1
    /\ fetched' = <<>>
    /\ listing' \in Listings
    /\ surplus' \in Surpluses
    /\ moved' = FALSE
    /\ lasting' = ArticlesIn(listing')
    /\ pulled' = FALSE
    /\ UNCHANGED <<left, responses>>

(* Page p of what NewsAPI lists; behind the end it is empty, and "ok".     *)
PageOf(list, p) ==
    SubSeq(list, (p - 1) * PageSize + 1,
           IF p * PageSize < Len(list) THEN p * PageSize ELSE Len(list))

(* page++.  Two pages behind MaxListing, which are as empty as all that    *)
(* follow, stand for these: the loop goes on and on between them.          *)
Following(p) == IF p > 1 /\ (p - 2) * PageSize >= MaxListing THEN p - 1 ELSE p + 1

(* Mutant: the loop ends with more articles than NewsAPI has.              *)
MoreThan(number, total) == number > total

(* Mutant: what would not fill a page is not asked for.                    *)
FullPagesOnly(number, total) == number + PageSize > total

Enough(number, total) == number >= total

(* Mutant: what a country has is in the result before the others are.      *)
StoreEach(result) ==
    /\ responses' = [responses EXCEPT ![target] = ArticlesIn(result)]
    /\ left' = left \ {target}
    /\ target' = NoTarget
    /\ raw' = IF target \in Countries THEN [raw EXCEPT !["headlines"][target] = ArticlesIn(result)]
              ELSE [raw EXCEPT !["discover"][target] = ArticlesIn(result)]

(* The articles fetched so far are the target's result.                    *)
StoreResponse(result) ==
    /\ responses' = [responses EXCEPT ![target] = ArticlesIn(result)]
    /\ left' = left \ {target}
    /\ target' = NoTarget
    /\ UNCHANGED raw

(* NewsAPICaller returns a page.                                           *)
FetchPage ==
    LET all == fetched \o PageOf(listing, page)
    IN  /\ target \in Wanted
        /\ fetched' = all
        /\ IF Enough(Len(all), Len(listing) + surplus)
           THEN StoreResponse(all) /\ UNCHANGED page
           ELSE /\ page' = Following(page)
                /\ UNCHANGED <<target, left, responses, raw>>
        /\ UNCHANGED <<listing, surplus, moved, lasting, pulled>>

(* It returns an error: no answer, not 200, no JSON, or a status that is   *)
(* not "ok".  What was fetched before is the result.                       *)
FetchFails ==
    /\ target \in Wanted
    /\ StoreResponse(fetched)
    /\ UNCHANGED <<page, fetched, listing, surplus, moved, lasting, pulled>>

(* The variables of a function that has returned.                          *)
Forget ==
    /\ page' = 1
    /\ fetched' = <<>>
    /\ responses' = [t \in Targets |-> {}]
    /\ listing' = <<>>
    /\ surplus' = 0
    /\ moved' = FALSE
    /\ lasting' = {}
    /\ pulled' = FALSE

(* All countries, or categories, are done: the function returns its map    *)
(* and leaves nothing else behind.                                         *)
Return(stream, targets, next) ==
    /\ Wanted = targets
    /\ target = NoTarget
    /\ targets \intersect left = {}
    /\ raw' = [raw EXCEPT ![stream] = [t \in targets |-> responses[t]]]
    /\ at' = next
    /\ Forget
    /\ UNCHANGED <<edition, summary, archive, missing, news, target, left>>

ReturnHeadlines ==
    at = "fetchHeadlines" /\ Return("headlines", Countries, "fetchDiscover")
ReturnDiscover ==
    at = "fetchDiscover" /\ Return("discover", Categories, "archiveRawHeadlines")

(* NewsAPI publishes an article, which is the newest, between two calls.   *)
SourcePublishes ==
    /\ Len(listing) < MaxListing
    /\ \E a \in Articles \ ArticlesIn(listing) : listing' = <<a>> \o listing
    /\ UNCHANGED <<lasting, pulled>>

(* It withdraws the one in place i.                                        *)
SourceWithdraws(i) ==
    /\ listing' = [j \in 1 .. Len(listing) - 1 |->
                       IF j < i THEN listing[j] ELSE listing[j + 1]]
    /\ lasting' = lasting \ {listing[i]}
    /\ pulled' = (pulled \/ i <= (page - 1) * PageSize)

SourceMoves ==
    /\ target \in Wanted
    /\ SourcePublishes \/ \E i \in DOMAIN listing : SourceWithdraws(i)
    /\ moved' = TRUE
    /\ UNCHANGED <<curatorVars, target, left, page, fetched, responses, surplus>>

(* The next pass of the main loop declares its maps anew.                  *)
FetchAgain ==
    /\ NextPass
    /\ target' = NoTarget
    /\ left' = Targets
    /\ Forget

(* The process dies in the middle of its pages, and forgets them.          *)
FetcherCrash ==
    /\ Crash
    /\ target' = NoTarget
    /\ left' = Targets
    /\ Forget

(* FetchHeadlinesByCountry and NewsDiscoveryByCategory.                    *)
Fetch ==
    \/ NextTarget /\ UNCHANGED curatorVars
    \/ (FetchPage \/ FetchFails) /\ UNCHANGED <<at, edition, summary, archive, missing, news>>
    \/ ReturnHeadlines
    \/ ReturnDiscover

(* The rest of the pass.                                                   *)
Proceed == ArchiveRaw \/ Summarize \/ ArchiveSummarized \/ Publish

FetcherNext ==
    \/ Fetch
    \/ SourceMoves
    \/ Proceed /\ UNCHANGED fetcherVars
    \/ PublishFails /\ UNCHANGED fetcherVars
    \/ FetcherCrash
    \/ FetchAgain

FetcherSpec == FetcherInit /\ [][FetcherNext]_mainVars

(* http.Get returns, with an error if need be, and the process runs.       *)
FetcherFairSpec == FetcherSpec /\ WF_mainVars(Fetch)

-----------------------------------------------------------------------------
FetcherTypeOK ==
    /\ target \in Targets \union {NoTarget}
    /\ left \subseteq Targets
    /\ page \in Nat \ {0}
    /\ fetched \in Seq(Articles)
    /\ responses \in [Targets -> SUBSET Articles]
    /\ listing \in Seq(Articles)
    /\ Len(listing) <= MaxListing
    /\ surplus \in Int
    /\ moved \in BOOLEAN
    /\ lasting \subseteq Articles
    /\ pulled \in BOOLEAN

(* Whatever NewsAPI publishes and withdraws between the pages: as long as  *)
(* it does not promise more than it lists, every page before the last is   *)
(* full, so that the loop never asks for a page behind all listings.       *)
PagesFull ==
    target # NoTarget /\ surplus <= 0 =>
        /\ Len(fetched) = (page - 1) * PageSize
        /\ Len(fetched) <= MaxListing

(* A target that was fetched without an error, and for which NewsAPI has   *)
(* promised as many articles as it lists: if the listing stood still, each *)
(* article is fetched once and in its order.  It may as well grow, and     *)
(* lose articles behind the page that is asked for next: every article     *)
(* that stays listed from the first page to the last is fetched, twice it  *)
(* may be.  Only an article that is withdrawn from the pages before can    *)
(* make the loop miss another.                                             *)
SteadyComplete == ~moved => fetched' = listing
LastingFetched == ~pulled => lasting \subseteq ArticlesIn(fetched')

FetchedAll ==
    [][FetchPage /\ target' = NoTarget /\ surplus = 0
         => SteadyComplete /\ LastingFetched]_mainVars

(* The loop over the pages comes to an end, for a listing that moves all   *)
(* the time, too, if totalResults is not overstated.                       *)
FetchEnds ==
    \A t \in Targets :
        target = t /\ surplus <= 0 /\ at # "dead" ~> (target # t \/ at = "dead")

(* The page loop brings the main loop nothing but what NewsCurator's       *)
(* FetchHeadlines and FetchDiscover allow for, at once and complete.       *)
FetchesAtOnce == CuratorSpec
=============================================================================
