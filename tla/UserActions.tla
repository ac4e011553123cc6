----------------------------- MODULE UserActions -----------------------------
(***************************************************************************)
(* actions: the bookmarks of a user and the link to a Notion account.      *)
(*                                                                         *)
(* Both live in the user's document of the Firestore collection users,     *)
(* beside premium-status, which another system sets.  Update changes one   *)
(* field of a document that exists; Set, without a merge option, replaces  *)
(* the document.  A call that returns an error may have been executed.     *)
(*                                                                         *)
(* To link a Notion account a user asks for a URL that carries a fresh     *)
(* session token, which the session Redis maps to the API key for 15       *)
(* minutes; Notion sends the user's browser back to the callback with that *)
(* token and, if the user has allowed it, a code to be exchanged once.     *)
(* The callback is public and reads both from its query: nothing in it     *)
(* ties the code to the token, only Notion's redirect does.                *)
(***************************************************************************)
EXTENDS Naturals

CONSTANTS
    Users, News,
    Flows,      \* the session tokens that are made: one flow of links each
    Requests,   \* the bookmark requests handled at a time
    Callbacks,  \* the callbacks handled at a time
    NoUser

(* The state of a callback without one, and the token of a flow whose      *)
(* token could not be made: the empty string.                              *)
NoState == "nostate"

ASSUME ActionsAssumption ==
    /\ NoUser \notin Users
    /\ Flows \intersect {NoState, "error", "none"} = {}

VARIABLES
    doc,          \* the documents of the collection users
    pc,           \* of a bookmark request: "idle", "update", "set"
    user, news,   \* its API key and its NewsId
    session,      \* the session Redis: the API key of a state
    starter,      \* history: who was given the URL of a flow
    exchanged,    \* the flows whose code Notion has exchanged
    mixed,        \* history: those whose code a callback had with another state
    stage,        \* of a callback: "idle", "lookup", "store"
    state,        \* its state parameter
    authResult,   \* what Notion has answered it: the credentials or an error
    holder,       \* the API key it has read from the session
    saved,        \* history: the bookmarks a user was told are added
    removed,      \* history: those it was told are deleted
    overwritten   \* history: the users whose document a Set has replaced

requestVars == <<pc, user, news, saved, removed>>
callbackVars == <<session, starter, exchanged, mixed, stage, state, authResult, holder>>
vars == <<doc, requestVars, callbackVars, overwritten>>

States == Flows \union {NoState}
AuthResults == Flows \union {"error"}

Documents == [exists : BOOLEAN, bookmarks : SUBSET News, premium : BOOLEAN,
              notion : AuthResults \union {"none"}]
NoDocument == [exists |-> FALSE, bookmarks |-> {}, premium |-> FALSE, notion |-> "none"]
Registered == [exists |-> TRUE, bookmarks |-> {}, premium |-> TRUE, notion |-> "none"]

(* Mutant: the array is put into an array.                                 *)
NestedBookmark(n) == [exists |-> TRUE, bookmarks |-> {{n}}, premium |-> FALSE, notion |-> "none"]

(* The documents that Set leaves: premium-status is gone, and of bookmarks *)
(* and NotionCredentials there is one.                                     *)
OnlyBookmark(n) == [exists |-> TRUE, bookmarks |-> {n}, premium |-> FALSE, notion |-> "none"]
OnlyCredentials(a) == [exists |-> TRUE, bookmarks |-> {}, premium |-> FALSE, notion |-> a]

Init ==
    /\ doc = [u \in Users |-> Registered]
    /\ pc = [r \in Requests |-> "idle"]
    /\ user \in [Requests -> Users]
    /\ news \in [Requests -> News]
    /\ session = [s \in States |-> NoUser]
    /\ starter = [f \in Flows |-> NoUser]
    /\ exchanged = {}
    /\ mixed = {}
    /\ stage = [c \in Callbacks |-> "idle"]
    /\ state = [c \in Callbacks |-> NoState]
    /\ authResult = [c \in Callbacks |-> "error"]
    /\ holder = [c \in Callbacks |-> NoUser]
    /\ saved = [u \in Users |-> {}]
    /\ removed = [u \in Users |-> {}]
    /\ overwritten = {}

-----------------------------------------------------------------------------
(* Bookmarks.                                                              *)

(* AddBookmarksHandlers begins for u, who has passed the middleware; the   *)
(* document may be gone by now, the cached status outlives it.             *)
BeginAdd(r, u, n) ==
    /\ pc[r] = "idle"
    /\ pc' = [pc EXCEPT ![r] = "update"]
    /\ user' = [user EXCEPT ![r] = u]
    /\ news' = [news EXCEPT ![r] = n]
    /\ removed' = [removed EXCEPT ![u] = @ \ {n}]
    /\ UNCHANGED <<doc, callbackVars, saved, overwritten>>

(* "Bookmark added successfully".                                          *)
Added(r) ==
    /\ pc' = [pc EXCEPT ![r] = "idle"]
    /\ saved' = [saved EXCEPT ![user[r]] = @ \union {news[r]}]

(* Mutant: the array is replaced, not united with.                         *)
ReplaceArray(r) ==
    /\ doc[user[r]].exists
    /\ doc' = [doc EXCEPT ![user[r]].bookmarks = {news[r]}]

(* Update with ArrayUnion is executed.                                     *)
UniteArray(r) ==
    /\ doc[user[r]].exists
    /\ doc' = [doc EXCEPT ![user[r]].bookmarks = @ \union {news[r]}]

(* Update succeeds, or fails, because there is no document or Firestore    *)
(* does not answer, executed or not: any error leads to Set.               *)
UpdateAdd(r) ==
    /\ pc[r] = "update"
    /\ \/ UniteArray(r) /\ Added(r)
       \/ /\ UniteArray(r) \/ UNCHANGED doc
          /\ pc' = [pc EXCEPT ![r] = "set"]
          /\ UNCHANGED saved
    /\ UNCHANGED <<user, news, removed, callbackVars, overwritten>>

(* Set replaces the document of u by d.                                    *)
SetDocument(u, d) ==
    /\ doc' = [doc EXCEPT ![u] = d]
    /\ overwritten' = IF doc[u].exists THEN overwritten \union {u} ELSE overwritten

(* Set succeeds, or fails, executed or not ("Failed to create bookmark").  *)
SetAdd(r) ==
    /\ pc[r] = "set"
    /\ \/ SetDocument(user[r], OnlyBookmark(news[r])) /\ Added(r)
       \/ /\ SetDocument(user[r], OnlyBookmark(news[r])) \/ UNCHANGED <<doc, overwritten>>
          /\ pc' = [pc EXCEPT ![r] = "idle"]
          /\ UNCHANGED saved
    /\ UNCHANGED <<user, news, removed, callbackVars>>

(* An add of n for u is under way.                                         *)
Adding(u, n) == \E r \in Requests : pc[r] # "idle" /\ user[r] = u /\ news[r] = n

(* Mutant: a failed Update is answered like one that succeeded.            *)
RemoveAlwaysTold(u, n) ==
    /\ \/ doc' = [doc EXCEPT ![u].bookmarks = @ \ {n}]
       \/ UNCHANGED doc
    /\ saved' = [saved EXCEPT ![u] = @ \ {n}]
    /\ removed' = [removed EXCEPT ![u] = IF Adding(u, n) THEN @ ELSE @ \union {n}]
    /\ UNCHANGED <<pc, user, news, callbackVars, overwritten>>

(* RemoveBookmarks: one Update with ArrayRemove.  Only when it succeeds    *)
(* the user is told so.                                                    *)
Remove(u, n) ==
    /\ doc[u].exists
    /\ doc' = [doc EXCEPT ![u].bookmarks = @ \ {n}]
    /\ saved' = [saved EXCEPT ![u] = @ \ {n}]
    /\ \/ UNCHANGED removed
       \/ removed' = [removed EXCEPT ![u] = IF Adding(u, n) THEN @ ELSE @ \union {n}]
    /\ UNCHANGED <<pc, user, news, callbackVars, overwritten>>

(* ListBookmarks: a document without bookmarks has an empty list.          *)
Listed(u) == IF doc[u].exists THEN doc[u].bookmarks ELSE {}

Bookmark ==
    \/ \E r \in Requests :
         UpdateAdd(r) \/ SetAdd(r) \/ \E u \in Users, n \in News : BeginAdd(r, u, n)
    \/ \E u \in Users, n \in News : Remove(u, n)

-----------------------------------------------------------------------------
(* The link to Notion.                                                     *)

(* Mutant: a token that was made before may be made again.                 *)
CreateKnownSession(f, u) ==
    /\ starter' = [starter EXCEPT ![f] = u]
    /\ session' = [session EXCEPT ![f] = u]
    /\ UNCHANGED <<doc, requestVars, exchanged, mixed, stage, state, authResult, holder, overwritten>>

(* OauthNotionCreateAuthSession for u.  A failing Set is logged and the    *)
(* URL given out all the same; a failing token is the empty string, with a *)
(* URL that leads nowhere, and the session is stored for it, too.          *)
CreateAuthSession(f, u) ==
    /\ starter[f] = NoUser
    /\ \/ /\ starter' = [starter EXCEPT ![f] = u]
          /\ session' = [session EXCEPT ![f] = u] \/ UNCHANGED session
       \/ /\ session' = [session EXCEPT ![NoState] = u]
          /\ UNCHANGED starter
    /\ UNCHANGED <<doc, requestVars, exchanged, mixed, stage, state, authResult, holder, overwritten>>

(* After NotionSessionExpiration.                                          *)
SessionExpires(s) ==
    /\ session[s] # NoUser
    /\ session' = [session EXCEPT ![s] = NoUser]
    /\ UNCHANGED <<doc, requestVars, starter, exchanged, mixed, stage, state, authResult, holder, overwritten>>

Started == {f \in Flows : starter[f] # NoUser}

(* OauthNotionCallback, up to Notion's answer.  It has the state of a flow *)
(* or none, and the code of a flow or, when the user has denied, none: the *)
(* two belong together when Notion has sent the browser, and need not when *)
(* somebody opens the URL.  They may come once or several times.  In every *)
(* case the code is sent to Notion, which gives the credentials for it     *)
(* once, or a JSON document that tells of an error.                        *)
Exchange(c) ==
    /\ stage[c] = "idle"
    /\ \E s \in {NoState} \union Started, code \in {{}} \union {{f} : f \in Started} :
       \E a \in {"error"} \union (code \ exchanged) :
         /\ state' = [state EXCEPT ![c] = s]
         /\ mixed' = mixed \union (code \ {s})
         /\ authResult' = [authResult EXCEPT ![c] = a]
         /\ exchanged' = exchanged \union ({a} \intersect Flows)
    /\ stage' = [stage EXCEPT ![c] = "lookup"]
    /\ UNCHANGED <<doc, requestVars, session, starter, holder, overwritten>>

(* Notion is not reached, or its answer is lost or no JSON document: the   *)
(* callback ends, and the code may be used up.                             *)
ExchangeFails(c) ==
    /\ stage[c] = "idle"
    /\ \E f \in Started : exchanged' = exchanged \union {f}
    /\ UNCHANGED <<doc, requestVars, session, starter, mixed, stage, state, authResult, holder, overwritten>>

(* Mutant: the session that is found is not that of the state.             *)
LookupAny(c) ==
    /\ stage[c] = "lookup"
    /\ \E s \in States :
         /\ session[s] # NoUser
         /\ holder' = [holder EXCEPT ![c] = session[s]]
    /\ stage' = [stage EXCEPT ![c] = "store"]
    /\ UNCHANGED <<doc, requestVars, session, starter, exchanged, mixed, state, authResult, overwritten>>

(* The session of the state is read, and stays.                            *)
Lookup(c) ==
    /\ stage[c] = "lookup"
    /\ session[state[c]] # NoUser
    /\ holder' = [holder EXCEPT ![c] = session[state[c]]]
    /\ stage' = [stage EXCEPT ![c] = "store"]
    /\ UNCHANGED <<doc, requestVars, session, starter, exchanged, mixed, state, authResult, overwritten>>

(* The callback ends, and with it its variables.                           *)
CallbackEnds(c) ==
    /\ stage' = [stage EXCEPT ![c] = "idle"]
    /\ state' = [state EXCEPT ![c] = NoState]
    /\ authResult' = [authResult EXCEPT ![c] = "error"]
    /\ holder' = [holder EXCEPT ![c] = NoUser]

(* It has expired, or Redis fails: "Session expired or invalid".           *)
LookupFails(c) ==
    /\ stage[c] = "lookup"
    /\ CallbackEnds(c)
    /\ UNCHANGED <<doc, requestVars, session, starter, exchanged, mixed, overwritten>>

(* Set stores what Notion has answered, or fails, executed or not, which   *)
(* is only logged.                                                         *)
StoreCredentials(c) ==
    /\ stage[c] = "store"
    /\ \/ SetDocument(holder[c], OnlyCredentials(authResult[c]))
       \/ UNCHANGED <<doc, overwritten>>
    /\ CallbackEnds(c)
    /\ UNCHANGED <<requestVars, session, starter, exchanged, mixed>>

Link ==
    \/ \E f \in Flows, u \in Users : CreateAuthSession(f, u)
    \/ \E c \in Callbacks :
         \/ Exchange(c) \/ ExchangeFails(c)
         \/ Lookup(c) \/ LookupFails(c) \/ StoreCredentials(c)

-----------------------------------------------------------------------------
(* The environment.                                                        *)

(* A user is deleted by another system, and may register again.            *)
DeleteUser(u) ==
    /\ doc[u].exists
    /\ doc' = [doc EXCEPT ![u] = NoDocument]
    /\ saved' = [saved EXCEPT ![u] = {}]
    /\ overwritten' = overwritten \ {u}
    /\ UNCHANGED <<pc, user, news, removed, callbackVars>>

Register(u) ==
    /\ ~doc[u].exists
    /\ doc' = [doc EXCEPT ![u] = Registered]
    /\ UNCHANGED <<requestVars, callbackVars, overwritten>>

(* The process dies: what it was handling is not answered.                 *)
Crash ==
    /\ pc' = [r \in Requests |-> "idle"]
    /\ stage' = [c \in Callbacks |-> "idle"]
    /\ state' = [c \in Callbacks |-> NoState]
    /\ authResult' = [c \in Callbacks |-> "error"]
    /\ holder' = [c \in Callbacks |-> NoUser]
    /\ UNCHANGED <<doc, user, news, saved, removed, session, starter, exchanged, mixed, overwritten>>

Next ==
    \/ Bookmark
    \/ Link
    \/ \E s \in States : SessionExpires(s)
    \/ \E u \in Users : DeleteUser(u) \/ Register(u)
    \/ Crash

Spec == Init /\ [][Next]_vars

-----------------------------------------------------------------------------
TypeOK ==
    /\ doc \in [Users -> Documents]
    /\ pc \in [Requests -> {"idle", "update", "set"}]
    /\ user \in [Requests -> Users]
    /\ news \in [Requests -> News]
    /\ session \in [States -> Users \union {NoUser}]
    /\ starter \in [Flows -> Users \union {NoUser}]
    /\ exchanged \subseteq Flows
    /\ mixed \subseteq Flows
    /\ stage \in [Callbacks -> {"idle", "lookup", "store"}]
    /\ state \in [Callbacks -> States]
    /\ authResult \in [Callbacks -> AuthResults]
    /\ holder \in [Callbacks -> Users \union {NoUser}]
    /\ saved \in [Users -> SUBSET News]
    /\ removed \in [Users -> SUBSET News]
    /\ overwritten \subseteq Users

(* Of a document that no Set has replaced nothing is lost, whatever adds   *)
(* and removes overlap and whichever of them fail: it has every bookmark   *)
(* that the user was told is added.                                        *)
AddedIsListed == \A u \in Users : u \notin overwritten => saved[u] \subseteq Listed(u)

(* A bookmark that the user was told is deleted does not come back, unless *)
(* an add of it was under way then or begins later; not even a Set brings  *)
(* it back.                                                                *)
RemovedStaysRemoved == \A u \in Users : removed[u] \intersect Listed(u) = {}

(* Credentials are stored for the user who was given the URL of the flow   *)
(* in which Notion gave them, whatever flows and callbacks overlap, expire *)
(* and fail, and whatever other codes are mixed up, as long as their own   *)
(* code came with its own state.                                           *)
LinkedByStarter ==
    \A u \in Users : doc[u].notion \in Flows \ mixed => starter[doc[u].notion] = u

(* Whatever a callback stores, credentials or Notion's error document, with*)
(* the user's consent or without, of the code of whichever flow: the only  *)
(* document that it replaces is that of the user its state was made for,   *)
(* even when the session expires and others begin while it runs.           *)
StoresForStarter ==
    [][\A c \in Callbacks, u \in Users :
         StoreCredentials(c) /\ doc'[u] # doc[u] /\ state[c] \in Flows => starter[state[c]] = u]_vars

(* What makes the invariants inductive: an add under way has taken its     *)
(* bookmark off the removed ones, a session belongs to the starter of its  *)
(* flow, and a callback has an answer to its own state, unless that code   *)
(* is mixed up, and the user of its state.                                 *)
AddingNotRemoved == \A r \in Requests : pc[r] # "idle" => news[r] \notin removed[user[r]]
SessionOfStarter == \A f \in Flows : session[f] # NoUser => session[f] = starter[f]
OwnAnswer ==
    \A c \in Callbacks :
        /\ authResult[c] # "error" => authResult[c] \in mixed \union {state[c]}
        /\ state[c] # NoState => starter[state[c]] # NoUser
        /\ stage[c] = "store" => holder[c] # NoUser
        /\ stage[c] = "store" /\ state[c] # NoState => holder[c] = starter[state[c]]

IInv ==
    /\ TypeOK
    /\ AddedIsListed
    /\ AddingNotRemoved
    /\ RemovedStaysRemoved
    /\ SessionOfStarter
    /\ OwnAnswer
    /\ LinkedByStarter

(* After "Bookmark added successfully" the bookmark is there: the list of  *)
(* a user who exists loses a bookmark only when the user removes it.       *)
BookmarksStay ==
    [][\A u \in Users : doc'[u].exists =>
         \A n \in Listed(u) \ Listed(u)' : n \notin saved'[u]]_vars
=============================================================================
