------------------------------ MODULE NewsFeed ------------------------------
(***************************************************************************)
(* feed-api's readers beside feed-curator.  The two programs share nothing *)
(* but the keys "headlines" and "discover" of the news Redis.  A client    *)
(* asks for a list, picks an article of it and asks for its detail.  The   *)
(* list handlers read one key and serve from what they read; DetailHandler *)
(* reads one key and then the other, and the curator may publish at any    *)
(* moment.                                                                 *)
(***************************************************************************)
EXTENDS NewsCurator

CONSTANTS
    Clients,
    Country     \* whose headlines every client is served: "us"

ASSUME FeedAssumption == Country \in Countries

VARIABLES
    pc,         \* of a client: "list", "detail", "discover", "done"
    wanted,     \* the article it has picked
    headlines,  \* what DetailHandler has read of the key "headlines" for it
    answer,     \* "none", "found", "notFound", "failed"
    stable      \* history: the keys that have had it since it was listed

readerVars == <<pc, wanted, headlines, answer, stable>>
vars == <<curatorVars, readerVars>>

(* The articles in all lists of a key: where FindArticleByID looks.        *)
AllOf(lists) == UNION {lists[c] : c \in DOMAIN lists}

(* The keys that serve an article.                                         *)
PlacesOf(a) == {s \in Streams : a \in AllOf(news[s].lists)}

Init ==
    /\ CuratorInit
    /\ pc = [c \in Clients |-> "list"]
    /\ wanted \in [Clients -> Articles]
    /\ headlines = [c \in Clients |-> EmptyLists["headlines"]]
    /\ answer = [c \in Clients |-> "none"]
    /\ stable = [c \in Clients |-> {}]

-----------------------------------------------------------------------------
(* The client c is served a page of a list of a key that is set, and picks *)
(* an article of it: any article of the list, since the pages together are *)
(* the list (see Paging).                                                  *)
Pick(c, list) ==
    \E a \in list :
        /\ wanted' = [wanted EXCEPT ![c] = a]
        /\ stable' = [stable EXCEPT ![c] = PlacesOf(a)]
        /\ pc' = [pc EXCEPT ![c] = "detail"]
        /\ UNCHANGED <<headlines, answer>>

(* HeadlinesHandler and NewsFeedHandler: pages of the headlines of "us".   *)
ListHeadlines(c) ==
    /\ pc[c] = "list"
    /\ Pick(c, news["headlines"].lists[Country])

(* DiscoverHandler: pages of a category.                                   *)
ListDiscover(c) ==
    /\ pc[c] = "list"
    /\ \E category \in Categories : Pick(c, news["discover"].lists[category])

(* The client is answered, and done: the handler's local is gone.  The     *)
(* history is kept for the answer that StableArticleFound is about.        *)
Answer(c, result) ==
    /\ pc' = [pc EXCEPT ![c] = "done"]
    /\ answer' = [answer EXCEPT ![c] = result]
    /\ headlines' = [headlines EXCEPT ![c] = EmptyLists["headlines"]]
    /\ stable' = IF result = "notFound" THEN stable ELSE [stable EXCEPT ![c] = {}]

(* A key that is not there, or a Redis that is not reached, is answered    *)
(* with an error by every handler and at each of its reads.                *)
ReadFails(c) ==
    /\ pc[c] # "done"
    /\ Answer(c, "failed")
    /\ UNCHANGED wanted

(* DetailHandler reads the key "headlines".                                *)
ReadHeadlines(c) ==
    /\ pc[c] = "detail"
    /\ news["headlines"].edition > 0
    /\ headlines' = [headlines EXCEPT ![c] = news["headlines"].lists]
    /\ pc' = [pc EXCEPT ![c] = "discover"]
    /\ UNCHANGED <<wanted, answer, stable>>

(* Mutant: the second search forgets the first one.                        *)
FindInDiscover(a, first, second) == a \in AllOf(second)

(* FindArticleByID: in the headlines, then in the discover news.           *)
FindArticleByID(a, first, second) == a \in AllOf(first) \union AllOf(second)

(* DetailHandler reads the key "discover", without which it does not       *)
(* answer even if the headlines have the article, and searches both.       *)
ReadDiscover(c) ==
    /\ pc[c] = "discover"
    /\ news["discover"].edition > 0
    /\ Answer(c, IF FindArticleByID(wanted[c], headlines[c], news["discover"].lists)
                 THEN "found" ELSE "notFound")
    /\ UNCHANGED wanted

DetailHandler == \E c \in Clients : ReadHeadlines(c) \/ ReadDiscover(c)
ListHandlers == \E c \in Clients : ListHeadlines(c) \/ ListDiscover(c)

(* The history of a client that is not done: the curator's step may take   *)
(* its article out of a place.                                             *)
Watch ==
    stable' = [c \in Clients |->
        IF pc[c] = "done" THEN stable[c] ELSE stable[c] \intersect PlacesOf(wanted[c])']

Next ==
    \/ ListHandlers /\ UNCHANGED curatorVars
    \/ DetailHandler /\ UNCHANGED curatorVars
    \/ (\E c \in Clients : ReadFails(c)) /\ UNCHANGED curatorVars
    \/ CuratorNext /\ UNCHANGED <<pc, wanted, headlines, answer>> /\ Watch

Spec == Init /\ [][Next]_vars

-----------------------------------------------------------------------------
FeedTypeOK ==
    /\ pc \in [Clients -> {"list", "detail", "discover", "done"}]
    /\ wanted \in [Clients -> Articles]
    /\ headlines \in [Clients -> Headlines]
    /\ answer \in [Clients -> {"none", "found", "notFound", "failed"}]
    /\ stable \in [Clients -> SUBSET Streams]

(* An article that one key serves from the time the client was listed it   *)
(* to the answer is found, whatever the curator publishes in between.      *)
StableArticleFound ==
    \A c \in Clients : answer[c] = "notFound" => stable[c] = {}
=============================================================================
