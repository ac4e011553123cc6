# Verification of the Stockic newsfeed system

TLA+ models of the services of this repository, model-checked with TLC on small
instances, and theorems about them checked by TLAPS for every value of the
constants. Source paths below are relative to `src/`.

## 1. The system

Five Go programs share three Redis instances, one Firestore collection of users
and the buckets of one MinIO. No program calls another; they meet in the stores
only.

| Part | State it keeps | Operations | Meets |
|---|---|---|---|
| **feed-api** (`feed-api/`) | nothing between requests; in the memory of its sync loop the counts of a pass | middleware, `/headlines`, `/newsfeed`, `/discover`, `/detail`, fallback; sync loop (30 s), app-log upload (20 s) | api-cache Redis, news Redis, log Redis, Firestore, MinIO |
| **log-redis-pusher** | the counts of a pass | the same sync loop (30 min), app-log upload | log Redis, MinIO |
| **actions** (`actions/`) | nothing between requests | the same middleware, bookmarks add / remove / list, Notion OAuth session and callback, app-log upload | api-cache Redis, session Redis, Firestore, Notion, MinIO |
| **feed-curator** | the maps of one pass | once a day: fetch, archive raw, summarise, archive, publish | NewsAPI, MinIO, news Redis |
| recommendation-system, ai-prompt-service | - | a stub, an empty file | - |

How they interact:

* feed-curator sets the keys `headlines` and `discover`, one after the other;
  the handlers of feed-api read one or both at any moment.
* `DetailHandler` increments a counter per news id and API key in a goroutine;
  two programs take the counters away with GETDEL and upload them.
* The middleware of feed-api and of actions fill one cache of user statuses
  from Firestore, and nothing invalidates it.
* Only the fallback handler of feed-api reads the collection `blocked` that it
  writes; what it finds there a goroutine remembers in the api-cache for an hour.
* Four programs make sure, when they start, that their buckets exist in one MinIO;
  `user-logs` belongs to feed-api and the pusher, the log bucket of actions to
  actions and the pusher.
* Bookmarks and Notion credentials are written to the document the middleware
  reads, by `Update` (one field) and by `Set` without merge (the document).

### What is hard about it, and what makes each part correct

| Part | Hard behaviour | Correct when |
|---|---|---|
| access log | two loops and many goroutines on one counter; delete before upload; lost replies, repeated commands; process death; names with the resolution of a second | no access is reported twice, under another user or news; a count is lost only through a named fault; every count is collected |
| user status | overlapping requests of two services; read, then store; 24 h of expiry; failing Firestore | no answer is older than the expiry plus the delay of a request; a failure is not remembered; the cache converges |
| fetcher | pages of a listing that moves while they are asked for; `totalResults` that is wrong; failing calls | a listing that stands still is fetched completely; the page loop ends; the main loop sees nothing but a fetch |
| curator | `log.Fatalf` between the two Sets; failing uploads; a slice shared by the categories; random map order | no article is dropped, the keys keep their order, what is served was archived, a living pass publishes |
| readers | two reads beside two Sets | an article that a key serves all the time is found |
| pages | `int` overflow for large path parameters | a client that scrolls sees each article once; an overflow panics or serves consecutive articles, no more than the page size |
| blocked addresses | overlapping first requests; a failing query counts as "not blocked"; a goroutine that stores late | who was told to be blocked is refused; who is allowed again is not refused for long |
| start | Redis down at the start leaves nil clients; BucketExists and MakeBucket of two programs overlap; `log.Fatalf` | what is up has its buckets; a start without disturbance stays up; all come up in the end |
| application log | a file that grows while it is uploaded; failed uploads; death; a container that is removed with its file | every line arrives while its container lasts; no upload brings back an older state |
| bookmarks | Update / Set fallback; errors of executed calls; documents that disappear | what the user was told holds |
| Notion link | callbacks that are denied, repeated, late, overlapping; a code and a state that do not belong together | credentials whose code came with its own state end with the user who started the flow; a callback replaces the document of its state's user only |

The hazards, each at its line, are in `PROJECT.json`.

## 2. The modules

| Module | Models | Proofs |
|---|---|---|
| `AccessCounting` | the abstract specification: the life cycle of one access | |
| `AccessLog`, `MCAccessLog` | detail counting in feed-api, `SyncLogRedisToMinIO` of both programs | `AccessLog_proofs` |
| `StatusRegister` | the abstract specification: a register that is asked for statuses | |
| `UserStatusCache` | `ValidateUserAPIKey`, `GetCachedUserStatus`, `CacheUserStatus` of both services | `UserStatusCache_proofs` |
| `NewsCurator` | the main loop of feed-curator with summarizer, archive and publication | `NewsFeed_proofs` |
| `NewsFeed` | extends `NewsCurator` by the handlers of feed-api that read the two keys | `NewsFeed_proofs` |
| `Fetcher`, `MCFetcher` | extends `NewsCurator` by the page loops of `FetchHeadlinesByCountry` and `NewsDiscoveryByCategory` | `NewsSystem_proofs` |
| `NewsSystem` | composes `Fetcher` and `NewsFeed`: from NewsAPI to the client | `NewsSystem_proofs` |
| `Paging` | `PaginateArticles` with wrapping integers, and a client that scrolls beside the curator | `Paging_proofs` |
| `UserActions`, `MCUserActions` | bookmarks and the Notion link of actions | `UserActions_proofs` |
| `AppLog` | `LogMessage`, `PushAppLogToMinIO`, `UploadLogDataToMinIO` of all programs | `BlockList_proofs` |
| `BlockList` | extends `AppLog` by `FallbackHandler`, `IsBlocked`, `SaveBlockedIPToFirebase` of feed-api | `BlockList_proofs` |
| `Startup` | `Initialize` of the four programs beside each other | `Startup_proofs` |

Definitions introduced by the word *Mutant* are not used by any specification.
They state a plausible mistake in the definition that follows them and are there
to show that the properties would notice it.

### Conventions

* One atomic step is one command to a store, which is where other programs and
  goroutines can come in between. What a handler computes before and after the
  command belongs to the step.
* A call that returns an error was executed before the error or never. For
  GETDEL, INCR and SET the retries of the Redis client are modelled: the command
  may be executed and sent again.
* The clock is a step of its own. Any number of commands fits into one second.
* A process that dies is down (`Crash`, `Die`), and stays so until somebody starts
  it again (`Restart`, `Start`, `NextPass`). The compose files give no restart policy
  and `depends_on` an order only, so no action of this kind is fair: where a process
  must live again and again, that is a premise of the property
  (`EveryCountIsCollected`, `EveryLineUploaded`, `AllComeUp`), and where it must not
  die, the property ends with its death (`FetchEnds`, `PassPublishes`). Only in
  `UserActions`, of which nothing is claimed but safety and which has nothing to
  restore, `Crash` leaves the service as it is after its next start.

### AccessLog

A counter is the set of INCR executions it stands for, so its value is the
cardinality; this is what lets "twice" and "lost" be said. `DetailKey` is the key
`endpoint:/detail/news:<id>/user:<key>` as the parts between its slashes, each with
its prefix; what a pass reads out of a key (`ValidKey`, `NewsIDIn`, `ApiKeyIn`) is
taken from the parts by their place and with `TrimPrefix`, as in
`feed-api/services/services.go:181-187`. That a part is what it was put together
from takes ids without a slash: StockicIDs are hashes in hex digits, API keys ids of
Firestore documents. `groupedLogs[s]` is the map of
the same name in loop `s`; `bucket[<<key, second>>]` is the object
`<key>/detail-log-<second>.json`. `pc`, `todo` and `tick` are the position in the
loop, the rest of the listed keys and the one-place channel of the ticker.
`ServeDetail`, `Increment`, `IncrementFails` are `DetailHandler` and its goroutine;
`SyncFails`, `ListKeys`, `TakeCount`, `SkipKey`, `LoseCount`, `Upload`,
`UploadFails` are the branches of the loop. Both programs run the same code
(`feed-api/services/services.go:154-235`,
`log-redis-pusher/services/services.go:35-115`): `FeedApiSync` and `PusherSync`
differ in the period only. `executed` and `hit` are history: `hit` has the accesses that
a fault has hit, and each of them is excused alone.

`AccessCounting` says what the log promises about one access: none, counted,
collected, archived, possibly lost, never back. `CountsEachAccessOnce` is its
specification under the refinement mapping `StageOf`; an access in two places has
no stage and breaks it.

### UserStatusCache

`doc` is the user's document, `cache` and `ttl` the entry `apikey:<key>`. A request
goes from a miss over `Fetch` to `Store`; in between the document may change, as
may the entry by another request. `age[k][st]` counts since when status `st` is no
longer true of key `k`; it stops at `MaxAge + 1`. `MaxDelay` bounds the time from
the read to the Set, which the code does not bound: the result is stated in terms
of it. Eviction, expiry and the changes of documents are the environment.

`StatusRegister` says the same without a cache: a request is answered with a status
that was true of its key at most `MaxAge` ago, or that there is none to be had.
`AnswersAsRegister` is its specification, with the status of the document for its
status and the requests that have missed the cache for those that wait; `Store` with
a lost reply, `Fetch` and the loss of an entry are stutters of it.

### NewsCurator and NewsFeed

`at` is the next step of `main` in `feed-curator/main.go:36-158`. `raw` and
`summary` are its four maps. Here the fetchers may return any lists, at once;
`Fetcher` shows that the page loops do no more than that. `Orders` are the orders in which a
loop over a Go map may visit the categories; `SummarizeDiscover` is the union the
shared slice amounts to. `Upload` succeeds, fails, or - for the second stream -
replaces the object of the first, when both uploads fall into one second.
`PublishFails` is `log.Fatalf`. `edition` numbers the passes.
`NothingDropped` and `NothingOld` say what the shared slice must not do to the
articles of a pass, `CategoriesPure` what it does.

In `NewsFeed` a client lists, picks an article of a list and asks for its detail;
`ReadHeadlines` and `ReadDiscover` are the two reads of `DetailHandler`. `stable`
records which keys had the article all the time since it was listed; an answer other
than "not found" ends it, and what a handler has read ends with its answer. An article
that moves from one key to the other is in neither set and may be missed (section
3, disagreements).

### Fetcher

`target` and `left` are the loop over countries or categories, `page` and `fetched`
the local variables of `feed-curator/fetcher/fetcher.go:67-144`, `responses` the map
it returns. NewsAPI is `listing`, newest first, and `surplus`, the difference between
`totalResults` and what is listed; `SourcePublishes` puts a new article on top
between two calls, `SourceWithdraws` takes one out of any place. `lasting` are the
articles that have been listed since the first page, and `pulled` says that one was
withdrawn from the pages fetched so far: a published article moves the others
back, so that some are fetched twice, and only one that is withdrawn in front moves
another into a page that is not asked for again (the second half of `FetchedAll`). `FetchFails` is the `break` after an error: what there is becomes
the result. `FetchesAtOnce` is the specification of `NewsCurator`: a target's pages
are stutters of it, and a returned map is one `FetchHeadlines` or `FetchDiscover`.
When `totalResults` is overstated the loop asks for empty pages without end; the
page number then alternates between two pages behind all listings, which are as
empty as the ones that follow, so that the model stays finite.

### NewsSystem

The steps of `Fetcher` and those of the clients of `NewsFeed` beside each other;
the two share `news` only, which `BesideClients` and `ServeClients` say.
`FeedsOnEditions` is the specification of `NewsFeed`: for the clients it makes no
difference that the curator fetches page by page. It is proved, not run.

### Paging

`Wrap` is the arithmetic of a machine whose largest int is `MaxInt`. `StartIndex`
and `EndIndex` are lines 266-267 of `feed-api/services/services.go`, `Slice` the
slice expression, which panics for a negative low index. `FirstPage` and
`FollowingPage` are a client that scrolls; `AnyPage` one that asks for any page and
page size `strconv.Atoi` accepts and the handlers let pass (both at least 1);
`Publish` is the curator. `seen` collects what a scrolling client was served while
the key stood still (`calm`).

### BlockList and AppLog

`docs` is the number of documents of one address in the collection `blocked`, `ttl`
its entry in the api-cache. `Miss` also stands for a Redis that is not reached,
`QueryFails` for a Firestore that fails, which the code takes for "not blocked";
`Found` starts the goroutine that `SetEntry` and `SetFails` belong to. `Allow` is
the backend that deletes documents, as the comment in
`feed-api/handlers/handlers.go` says it can. `told`, `knows`, `excused` and `free` are
history. Each stored address is a line of the application log. In `AppLog` `file` has
the lines of the file, `reading` those an upload under way was told to read by `Stat`,
`newest` those of the newest object in MinIO and `archived` those of all. `Start` opens
the file to append to it. The file is in the working directory of the container, which
has no volume: `RemoveContainer` takes it away, and `gone` has its lines.

### Startup

`phase` and `next` are the position in `MinIOInit` for the buckets of `initMinIO`;
`clients` are the Redis clients that a goroutine or `main` uses, as far as they are
not nil. A nil client in a handler panics within net/http, which recovers; in a
goroutine it ends the process (`UseNil`). `MadeBefore` is the lost race: MakeBucket
finds the bucket made since BucketExists, and `log.Fatalf` ends the program.
`healthy` says that the stores are reached and the configuration is right from now
on; `smooth` that a program was started without a failing call and without another
starting program it shares a bucket with.

### UserActions

`doc` has the fields the service writes. `BeginAdd`, `UpdateAdd`, `SetAdd` are
`AddBookmarksHandlers`; any error of `Update`, executed or not, leads to `SetAdd`.
A flow stands for its session token. `Exchange`, `Lookup`, `StoreCredentials` are
the three calls of `OauthNotionCallback` in their order; nothing in between
depends on the code being there or on Notion's status. The callback is public and
takes code and state from its query one by one: `Exchange` brings any code, or none,
with any state. It is Notion's redirect that keeps the two together; `mixed` has the
codes that came with another state. A failing token
(`actions/handlers/handlers.go:203-212` does not return) is the state `NoState`,
the empty string. Tokens of 32 random characters are taken to be distinct.
`saved` and `removed` record what a user was told, `overwritten` whose document a
Set has replaced. `LinkedByStarter` says where the credentials of a code end which was
not mixed up, `StoresForStarter` what the others, and Notion's error documents, can
do: replace the document of the user the state was made for, and no other.

## 3. The runs

| Run | Instance | Shows |
|---|---|---|
| `access_loops` | 2 loops that die and start, 4 views of 3 counters of 2 users | `Attribution`, `NoDoubleReport`, `NothingLostWithoutFault` |
| `access_retry` | 2 loops that die and may stay down, 1 view with 2 attempts, fairness | refinement of `AccessCounting`, `PassRunsOut`, `EveryCountIsCollected` |
| `user_status` | 1 key, 1 request per service, expiry 2, delay 1, fairness | `EntriesAge`, `AnswersAsRegister` (refinement), `EventuallyConsistent` |
| `fetch_pages` | 2 passes, 1 country, 3 articles on pages of 2, totals off by one, fairness | `PagesFull`, `FetchedAll`, `FetchEnds`, `FetchesAtOnce` (refinement) |
| `curator_pure` | 1 pass, 2 categories | **violated** `CategoriesPure` |
| `feed_editions` | the system of `NewsSystem`: 2 passes, 1 country, 2 categories, 1 client, 1 article, fairness | `HeadlinesLead`, `ServedIsArchived`, `NothingOld`, `NothingDropped`, `PassPublishes`, `StableArticleFound` |
| `actions_bookmarks` | 1 user, 2 news, 2 requests, 1 flow | `AddedIsListed`, `RemovedStaysRemoved` |
| `actions_link` | 2 users, 2 flows, 2 callbacks, symmetric | `LinkedByStarter`, `StoresForStarter` |
| `startup` | 4 programs, 7 stores, fairness | `ReadyWhenUp`, `StartedAloneStays`, `EndsRunOut`, `AllComeUp` |
| `blocklist` | 1 address, 2 requests, expiry 2, delay 1, 2 documents, 2 log lines, a process that dies and a container that is removed, fairness | `ToldIsRefused`, `OneDocument`, `AllowedInTime`, `NewestHasAll`, `EveryLineUploaded` |
| `pages` | lists of up to 3 of 3 articles, integers from -8 to 7 | `ScrolledSoFar`, `PartServed` |
| `actions_stay` | 1 user, 2 news, 1 request | **violated** `BookmarksStay` |

Beside these `access_loops`, `user_status`, `feed_editions`, `actions_bookmarks`, `startup`
and `blocklist` check the type invariants; that of `feed_editions`, `SystemTypeOK`, has those
of the three modules it composes, and the one of `Paging` is proved only. In
`feed_editions` a listing is one page; longer ones are in `fetch_pages`.

### Why the bounds are enough

*Access log.* Duplication and loss need two parties on one counter: two loops, or a
loop and an INCR. Two views of one counter give an INCR before, between and after
the commands of a pass; a second counter of the same user gives a group with two
entries, one of another user a second group. Two attempts of one view give the
lost reply of INCR; a longer chain of retries only repeats the step. The loops take
any number of steps within a second, so all overlaps occur whatever the periods;
the run with fairness gives the pusher a longer one. From `MaxTime` on all seconds
have one name: that adds overwrites and hides none. *Status.* Keys do not interact; one request per service gives late and crossed
stores. *Curator.* Two passes give every combination of an old and a new key. Two
categories, in `curator_pure` and `feed_editions`, are visited in both orders: the
later one inherits from the earlier and must not lose what both have; for any finite
set of categories, any order and the headlines there is the theorem
`NothingDroppedHolds`. *Fetcher.* Three articles on pages of two give full pages, a
partial one and one behind the end, and a listing can grow and shrink across a page
boundary in front of the page that is asked for and behind it. The targets run one
after the other through the same code, so `fetch_pages` has one; three of them, and a
second pass after a death at any step, are in `feed_editions`. *Readers.* Clients do not
interact; one article, in one list or the other, is enough for moves in both directions.
*Pages.* 4-bit integers overflow in the product, in the sum, and in both, with a
negative and a positive result. *Blocked addresses.* Two requests overlap in every
way; a third only repeats what the second does (the theorems are for any number).
*Start.* The four programs with their own lists of buckets are the whole system.
*Actions.* Documents do not interact except through the callback, which is run with
two users, two flows and two callbacks at a time: a code with its own state beside one
with the other's. No action of `UserActions` tells two users, flows or callbacks apart,
so the run is reduced by their symmetry (`MCUserActions`); both its properties are
safety. Bookmarks need two requests at a time and two bookmarks. *Application log.* Two
lines are one that is uploaded or gone and one that comes later.

### Fairness

* `AccessLog!FairSpec`: the clock runs; no loop stands still (`WF`); Redis, asked
  again and again for a counter, answers once (`SF` of `ListKeys` and `TakeCount`).
  A ticker, a `for range` loop without exit and the retries at every tick justify it.
  Nothing is assumed of MinIO, a count that is collected may still be lost, nor of
  restarts: that one of the two loops has its tick again and again is the premise of
  `EveryCountIsCollected`; the other may be down for good.
* `UserStatusCache!FairSpec`: time passes and a request that has missed the cache
  comes to an end: the Redis and Firestore clients return, with an error if
  need be.
* `FetcherFairSpec`: `http.Get` returns, with an error if need be, and the process
  runs (`WF` of `Fetch`). NewsAPI may publish and withdraw between all calls.
* `SystemFairSpec`: the main loop, its page loops included, does not stand still (`WF`
  of `MainLoop`). That a dead curator is started again is not assumed, so the
  property ends with its death. `PassPublishes` says that it never happens that from
  some time on a living pass has not published; since the next pass of the same
  process begins behind the second Set, no pass is passed over. It takes the page
  loops to end, which they need not when `totalResults` is overstated: the run leaves
  that out (`Surpluses` is 0), as does `FetchEnds`.
* `Startup!FairSpec`: a process that runs goes on (`WF` of `Run`). Nothing is assumed
  of the stores, which need never recover; the operator's restarts (`WF` of `Start`)
  and the recovery are premises of `AllComeUp`.
* `LogFairness`: MinIO, asked again and again, accepts an upload once (`SF` of
  `PutObject`), though uploads fail and the process dies in between. That uploads begin
  again and again, as they do in a process that stays up, and in one that is always
  started again and lives to its tick, is the premise of `EveryLineUploaded`.

### Disagreements with the repository's own statements

1. `summarizedArticles` is never reset between categories
   (`feed-curator/summarizer/summarizer.go:256`): a category shows the articles of
   those visited before it (`curator_pure`).
2. The `Set` after a failed `Update` (`actions/handlers/handlers.go:46`), and that
   of the callback, replace the document: acknowledged bookmarks and
   `premium-status` are gone (`actions_stay`).

Further facts that the models show and that no property excludes:

* Two uploads for one API key in one second have one name
  (`feed-api/services/services.go:208`); the first was logged as "Successfully
  uploaded" (`:232`) and is replaced. `NothingLostWithoutFault` counts this as a
  fault.
* `DetailHandler` reads the two keys one after the other
  (`feed-api/handlers/handlers.go:193,199`) and misses an article that moves from one
  to the other in between.
* The callback does not tie the code to the state: whoever opens its URL with the code
  of one flow and the state of another has the credentials stored for the starter of the
  latter (`actions/handlers/handlers.go:248-253`). `LinkedByStarter` is violated without
  `mixed`.
* The log file of a program goes with its container (`docker-compose.yaml` mounts no
  volume there), and with it the lines since the last upload.
* The callback goes on without the user's consent and stores Notion's error in the
  place of credentials (`actions/handlers/handlers.go:249,317`), against the comment
  at `:191`.
* A source whose `totalResults` is one above what its pages hold keeps the curator
  asking for empty pages (`feed-curator/fetcher/fetcher.go:87`): `FetchEnds` is
  violated without its `surplus <= 0`. A listing that moves between the pages is
  fetched with repeated and missed articles.
* A page number whose product with the page size overflows makes the slice
  expression panic, or serves articles from the front of the list
  (`feed-api/services/services.go:266`).
* Of all handlers only the fallback consults the blocked addresses: a blocked address
  is refused endpoints that do not exist, and served the others.
* feed-api and the pusher started at the same time may both find `user-logs` missing;
  the one that makes it second ends (`feed-api/database/database.go:178-181`) and no
  compose file starts it again.

`feed-curator/services/services.go:13-14` also says that the archive is written
after an event of Redis about the update; `feed-curator/main.go:114-146` archives
first, without an event. `ServedIsArchived` depends on the order of the code.

## 4. The proofs

Each theorem holds for all values of the constants that satisfy the named
assumptions of its module.

* **`AccessLog_proofs`**: `IInv` is inductive. `NoDoubleReport` and
  `NothingLostWithoutFault` are not inductive alone: that a repeated INCR adds a
  new execution needs `ExecutedWasSent` and `HeldWasExecuted`, that there is an
  attempt left needs `UnfinishedHasAttempts`, and that a new pass (which clears
  `groupedLogs`) loses nothing needs `IdleHoldsNothing`. `Attribution` needs that
  the parts of a key give back what `DetailKey` was made of. The argument is about one
  access: the lemmas `IncrementMoves`, `TakeCountMoves`, `UploadMoves`, ... say from
  which place to which place a step may move it; `AccessStep` collects them, and
  `NoDoubleReport`, `NothingLostWithoutFault` and the step of `Refinement` all
  follow from it. `PassRunsOut` is the part of `EveryCountIsCollected` that needs no
  fairness: `Ahead(s)`, the work that a pass has left, only shrinks while the pass runs, and
  each step of the loop takes something out of it or empties the counter that GETDEL is
  repeated for; that a pass which has groups left
  is a pass with work left is `BusyHasWork`. Theorems: `TypeCorrect`, `AttributionHolds`,
  `NoDoubleReportHolds`, `NothingLostHolds`, `PassRunsOutHolds`, `Refinement`.
* **`UserStatusCache_proofs`**: `EntriesAge` needs that what a request has read was
  true when it was read (`FoundAge`) and that the present status has age 0
  (`TrueNow`). That a request which ends is answered with something recent
  (`AnswersRecent`) gives the step of the register (`RequestStep`). `SettledAgrees` is
  what `EventuallyConsistent` says but for the fairness of the clock: once all
  statuses but the true one are older than `MaxAge`, the cache has no other, and no
  step but a change of the document ends that. Theorems: `TypeCorrect`,
  `EntriesAgeHolds`, `AnswersAsRegisterHolds`, `SettledAgrees`.
* **`NewsFeed_proofs`**: `CuratorInv` relates the position in the pass to the
  editions of the keys and to what has been archived so far; `FeedInv` adds, for each
  client, that what it has read of a key agrees with `stable`. That `NothingDropped`
  holds for every order of any finite set of categories is `SummariesComplete`, that
  the shared slice has nothing but what this pass has fetched `SummariesFresh`;
  `NothingOld` then needs that both keys are older until the headlines are set
  (`BothKeysOlder`). Theorems: `CuratorTypeCorrect`, `HeadlinesLeadHolds`,
  `ServedIsArchivedHolds`, `NothingDroppedHolds`, `NothingOldHolds`,
  `FeedTypeCorrect`, `StableArticleFoundHolds`.
* **`UserActions_proofs`**: `RemovedStaysRemoved` needs `AddingNotRemoved`;
  `LinkedByStarter` needs `SessionOfStarter` and `OwnAnswer`, which follow a flow
  through the session and the callback; from them `StoresForStarter` follows, too.
  Theorems: `TypeCorrect`, `AddedIsListedHolds`, `RemovedStaysRemovedHolds`,
  `LinkedByStarterHolds`, `StoresForStarterHolds`.
* **`NewsSystem_proofs`**: `PagesFull` is inductive with the types. `FetchedAll`
  has two halves. `SteadyComplete` needs `FetchedIsPrefix`: what was fetched of a
  listing that stood still is its beginning; `AllFetched` says what one more page adds
  to it. `LastingFetched` needs `LastingSoFar`: as long as nothing was pulled, every lasting article in the first
  `page - 1` pages of the present listing is fetched. A published article moves
  lasting ones back only, a withdrawn one from behind the fetched pages moves none
  of them forward into those. `FetchesAtOnceHolds` needs the types of `responses`
  only. `SystemStep` is about the two programs together: a step of one is a stutter of
  the other (`WatchNothing`), and a publication is seen by the clients as
  that of `NewsCurator`. So the system is a fetcher (`SystemFetches`) and a feed
  (`FeedsOnEditionsHolds`), and what is proved of both holds of it (`SystemTypeCorrect`,
  `PagedMainLoop`, `SystemFinds`, `SystemServes`).
* **`Paging_proofs`**: `NotBehind` says that a client which scrolls has not gone behind
  the end, and that its page is empty only there, which is `ScrolledAllHolds`:
  whoever has scrolled to the empty page has seen the whole list.
  `FollowingInRange` says that the next page then begins at an int, provided
  that lists are no longer than half the largest int (`PagingAssumption`). The lemmas
  `WrapProperties` and `PageProperties` hold for every page. Theorems: `TypeCorrect`,
  `ScrolledSoFarHolds`, `ScrolledAllHolds`, `PartServedHolds`.
* **`BlockList_proofs`**: `Documented` (who was told has a document) gives
  `ToldIsRefused`; `AddsAlone` gives `OneDocument`; `NotFreeBefore` bounds how long ago
  a goroutine has read what it stores and gives `AllowedInTime`. The log is
  independent: `NextIsLogStep` says that every step is one of the log's own (`LogStep`),
  and `LogStepInv` that these keep `ReadsAllArchived`: what is archived comes from the
  file, and an upload reads no less. Theorems: `TypeCorrect`, `ToldIsRefusedHolds`, `OneDocumentHolds`,
  `AllowedInTimeHolds`, `NewestHasAllHolds`.
* **`Startup_proofs`**: `StepInv` is the step of any program, whatever it does;
  `StartsAlone` and `FirstToMake` say that nobody can make the bucket which a smoothly
  started program has not found. `Reasons` is a finite set that shrinks
  (`NoNewReason`), and an end takes an element out of it (`ReasonUsed`): what is left
  of `AllComeUp` is that what runs comes to its end, which is fairness. Theorems:
  `TypeCorrect`, `ReadyWhenUpHolds`, `StartedAloneStaysHolds`, `EndsRunOutHolds`.

### Only model-checked

The liveness properties `EveryCountIsCollected`, `EventuallyConsistent`,
`PassPublishes`, `FetchEnds`, `AllComeUp` and `EveryLineUploaded`: temporal reasoning
under fairness is beyond the prover. Of three of them the part without fairness is
proved: `PassRunsOutHolds` of `EveryCountIsCollected`, `SettledAgrees` of
`EventuallyConsistent`, `EndsRunOutHolds` of `AllComeUp`. The curator's properties in
`fetch_pages` and `feed_editions` are proved of `NewsCurator` and carried over by the
refinements. The two violated properties are counterexamples of TLC.

## 5. Not modelled

* The wording of answers, the checks of method, path and header, which return
  before any state is touched.
* The AI calls of the summarizer, which are commented out, and the text helpers
  only they would use (`feed-curator/utils/utils.go`): no state depends on them.
* The content of the log file, beyond which of the awaited lines it has.
* recommendation-system and ai-prompt-service (a stub and an empty file);
  Dockerfiles, compose files, nginx, CI, load tests.
* Redis, Firestore, MinIO and Notion themselves: modelled by what the code calls.

## 6. Plan

Done, the most important behaviour first: the access log with its abstract
specification; the user status with the register it implements; curator and
readers; the actions; the fetcher, and its composition with the readers; the pages;
the blocked addresses with the application log; the start. Every part that
changes state is modelled. What could be added:

1. **Composition** of `UserActions` with `UserStatusCache`: what the replaced
   document does to the cached status, which needs a common view of the document.
2. The parts of `EveryLineUploaded` and `PassPublishes` that need no fairness, as
   theorems: what a step may never undo on the way.
