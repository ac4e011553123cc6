----------------------------- MODULE NewsSystem -----------------------------
(***************************************************************************)
(* The news from NewsAPI to the clients: feed-curator with the pages of    *)
(* its fetcher, and the handlers of feed-api beside it.  The two programs  *)
(* meet in the keys "headlines" and "discover" of the news Redis only.     *)
(***************************************************************************)
EXTENDS Fetcher, NewsFeed

systemVars == <<vars, fetcherVars>>

SystemInit == Init /\ NothingFetched

(* A client is served; the curator does not notice.                        *)
ServeClients ==
    /\ ListHandlers \/ DetailHandler \/ \E c \in Clients : ReadFails(c)
    /\ UNCHANGED <<curatorVars, fetcherVars>>

(* No client notices what the curator does until it reads again.           *)
BesideClients == UNCHANGED <<pc, wanted, headlines, answer>> /\ Watch

(* main of feed-curator goes on.                                           *)
MainLoop ==
    /\ Fetch \/ ((Proceed \/ PublishFails) /\ UNCHANGED fetcherVars)
    /\ BesideClients

SystemNext ==
    \/ ServeClients
    \/ FetcherNext /\ BesideClients

SystemSpec == SystemInit /\ [][SystemNext]_systemVars

(* http.Get returns and the main loop does not stand still; nothing is     *)
(* assumed of the clients and of NewsAPI, nor that a curator that has died *)
(* is started again.                                                       *)
SystemFairSpec == SystemSpec /\ WF_systemVars(MainLoop)

-----------------------------------------------------------------------------
(* The types of the main loop, of its page loops and of the clients.       *)
SystemTypeOK == TypeOK /\ FetcherTypeOK /\ FeedTypeOK

(* For the clients the pages make no difference: feed-api beside the       *)
(* curator that fetches page by page is feed-api beside one that fetches   *)
(* at once.                                                                *)
FeedsOnEditions == Spec
=============================================================================
