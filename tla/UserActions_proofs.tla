------------------------- MODULE UserActions_proofs -------------------------
(***************************************************************************)
(* Proofs about UserActions, for any users, news, flows and numbers of     *)
(* requests and callbacks at a time.                                       *)
(***************************************************************************)
EXTENDS UserActions, TLAPS

LEMMA DocumentTypes ==
  /\ NoDocument \in Documents /\ Registered \in Documents
  /\ \A n \in News : OnlyBookmark(n) \in Documents
  /\ \A a \in AuthResults : OnlyCredentials(a) \in Documents
  BY DEF NoDocument, Registered, OnlyBookmark, OnlyCredentials, Documents, AuthResults

(* What a Set does: nobody else's document is touched, and that of u       *)
(* counts as overwritten unless there was none.                            *)
LEMMA SetDocumentEffect ==
  ASSUME TypeOK, NEW u \in Users, NEW d \in Documents, SetDocument(u, d)
  PROVE  /\ doc' \in [Users -> Documents]
         /\ doc'[u] = d
         /\ \A v \in Users \ {u} : doc'[v] = doc[v]
         /\ overwritten' \subseteq Users
         /\ overwritten \subseteq overwritten'
         /\ u \notin overwritten' => ~doc[u].exists
  BY DEF SetDocument, TypeOK

(* What an executed ArrayUnion does.                                       *)
LEMMA UniteArrayEffect ==
  ASSUME TypeOK, NEW r \in Requests, UniteArray(r)
  PROVE  /\ doc' \in [Users -> Documents]
         /\ doc[user[r]].exists /\ doc'[user[r]].exists
         /\ doc'[user[r]].bookmarks = doc[user[r]].bookmarks \union {news[r]}
         /\ doc'[user[r]].notion = doc[user[r]].notion
         /\ \A v \in Users \ {user[r]} : doc'[v] = doc[v]
<1> DEFINE u == user[r]
           d == [doc[u] EXCEPT !.bookmarks = @ \union {news[r]}]
<1>1. u \in Users /\ news[r] \in News /\ doc \in [Users -> Documents]
  BY DEF TypeOK
<1>2. doc' = [doc EXCEPT ![u] = d] /\ doc[u].exists
  BY DEF UniteArray
<1>3. doc[u] \in Documents
  BY <1>1
<1>4. /\ d \in Documents /\ d.exists = doc[u].exists
      /\ d.bookmarks = doc[u].bookmarks \union {news[r]} /\ d.notion = doc[u].notion
  BY <1>1, <1>3 DEF Documents
<1> HIDE DEF d
<1>5. doc' \in [Users -> Documents] /\ doc'[u] = d /\ \A v \in Users \ {u} : doc'[v] = doc[v]
  BY <1>1, <1>2, <1>4
<1> QED
  BY <1>2, <1>4, <1>5

(* The starter and the state of flows.                                     *)
LEMMA FlowNames ==
  ASSUME NEW f \in Flows
  PROVE  f # "error" /\ f # "none" /\ f # NoState
  BY ActionsAssumption

LEMMA InitInv ==
  ASSUME Init
  PROVE  IInv
<1>1. TypeOK
  BY DocumentTypes DEF Init, TypeOK, States, AuthResults
<1>2. \A u \in Users : doc[u].notion = "none"
  BY DEF Init, Registered
<1>3. LinkedByStarter
  BY <1>2, FlowNames DEF LinkedByStarter
<1>4. AddedIsListed /\ AddingNotRemoved /\ RemovedStaysRemoved
  BY DEF Init, AddedIsListed, AddingNotRemoved, RemovedStaysRemoved
<1>5. SessionOfStarter
  BY DEF Init, SessionOfStarter, States
<1>6. OwnAnswer
  BY DEF Init, OwnAnswer
<1> QED
  BY <1>1, <1>3, <1>4, <1>5, <1>6 DEF IInv

-----------------------------------------------------------------------------
(* Bookmarks.                                                              *)

LEMMA BeginAddInv ==
  ASSUME IInv, NEW r \in Requests, NEW u \in Users, NEW n \in News, BeginAdd(r, u, n)
  PROVE  IInv'
<1>1. /\ TypeOK /\ AddedIsListed /\ AddingNotRemoved /\ RemovedStaysRemoved
      /\ SessionOfStarter /\ OwnAnswer /\ LinkedByStarter
  BY DEF IInv
<1>2. /\ pc' = [pc EXCEPT ![r] = "update"] /\ user' = [user EXCEPT ![r] = u]
      /\ news' = [news EXCEPT ![r] = n] /\ removed' = [removed EXCEPT ![u] = @ \ {n}]
      /\ UNCHANGED <<doc, callbackVars, saved, overwritten>>
  BY DEF BeginAdd
<1>3. TypeOK'
  BY <1>1, <1>2 DEF TypeOK, callbackVars
<1>4. \A v \in Users : removed'[v] \subseteq removed[v]
  BY <1>1, <1>2 DEF TypeOK
<1>5. AddingNotRemoved'
  <2>1. n \notin removed'[u]
    BY <1>1, <1>2 DEF TypeOK
  <2>2. ASSUME NEW q \in Requests, pc'[q] # "idle"
        PROVE  news'[q] \notin removed'[user'[q]]
    <3>1. CASE q = r
      BY <1>1, <1>2, <2>1, <3>1 DEF TypeOK
    <3>2. CASE q # r
      <4>1. pc[q] # "idle" /\ news'[q] = news[q] /\ user'[q] = user[q] /\ user[q] \in Users
        BY <1>1, <1>2, <2>2, <3>2 DEF TypeOK
      <4> QED
        BY <1>1, <1>4, <4>1 DEF AddingNotRemoved
    <3> QED
      BY <3>1, <3>2
  <2> QED
    BY <2>2 DEF AddingNotRemoved
<1>6. RemovedStaysRemoved'
  BY <1>1, <1>2, <1>4 DEF RemovedStaysRemoved, Listed
<1>7. AddedIsListed'
  BY <1>1, <1>2 DEF AddedIsListed, Listed
<1>8. SessionOfStarter' /\ OwnAnswer' /\ LinkedByStarter'
  BY <1>1, <1>2 DEF SessionOfStarter, OwnAnswer, LinkedByStarter, callbackVars
<1> QED
  BY <1>3, <1>5, <1>6, <1>7, <1>8 DEF IInv

(* The steps of an add: the bookmark is the one that is not removed.       *)
LEMMA UpdateAddInv ==
  ASSUME IInv, NEW r \in Requests, UpdateAdd(r)
  PROVE  IInv'
<1>1. /\ TypeOK /\ AddedIsListed /\ AddingNotRemoved /\ RemovedStaysRemoved
      /\ SessionOfStarter /\ OwnAnswer /\ LinkedByStarter
  BY DEF IInv
<1> DEFINE u == user[r]
           n == news[r]
<1>2. u \in Users /\ n \in News /\ n \notin removed[u]
  BY <1>1 DEF UpdateAdd, TypeOK, AddingNotRemoved
<1>3. UNCHANGED <<user, news, removed, callbackVars, overwritten>>
  BY DEF UpdateAdd
<1>4. /\ pc' \in [Requests -> {"idle", "update", "set"}]
      /\ \A q \in Requests : pc'[q] # "idle" => pc[q] # "idle"
  BY <1>1 DEF UpdateAdd, Added, TypeOK
<1>5. /\ doc' \in [Users -> Documents]
      /\ \A v \in Users : doc'[v].notion = doc[v].notion
      /\ \A v \in Users : Listed(v) \subseteq Listed(v)'
      /\ \A v \in Users : Listed(v)' \ Listed(v) \subseteq (IF v = u THEN {n} ELSE {})
  <2>1. CASE UniteArray(r)
    BY <1>1, <1>2, <2>1, UniteArrayEffect DEF Listed
  <2>2. CASE UNCHANGED doc
    BY <1>1, <2>2 DEF TypeOK, Listed
  <2> QED
    BY <2>1, <2>2 DEF UpdateAdd
<1>6. /\ saved' \in [Users -> SUBSET News]
      /\ \A v \in Users : saved'[v] \subseteq saved[v] \union Listed(v)'
  <2>1. CASE UniteArray(r) /\ Added(r)
    <3>1. saved' = [saved EXCEPT ![u] = @ \union {n}]
      BY <2>1 DEF Added
    <3>2. doc'[u].exists /\ n \in doc'[u].bookmarks
      BY <1>1, <2>1, UniteArrayEffect
    <3>3. n \in Listed(u)'
      BY <1>3, <3>2 DEF Listed
    <3>4. saved' \in [Users -> SUBSET News] /\ saved'[u] = saved[u] \union {n}
      BY <1>1, <1>2, <3>1 DEF TypeOK
    <3>5. \A v \in Users \ {u} : saved'[v] = saved[v]
      BY <1>1, <1>2, <3>1 DEF TypeOK
    <3> QED
      BY <1>3, <3>3, <3>4, <3>5
  <2>2. CASE UNCHANGED saved
    BY <1>1, <2>2 DEF TypeOK
  <2> QED
    BY <2>1, <2>2 DEF UpdateAdd
<1>7. TypeOK'
  BY <1>1, <1>3, <1>4, <1>5, <1>6 DEF TypeOK, callbackVars
<1>8. AddedIsListed'
  BY <1>1, <1>3, <1>5, <1>6 DEF AddedIsListed
<1>9. AddingNotRemoved'
  BY <1>1, <1>3, <1>4 DEF AddingNotRemoved
<1>10. RemovedStaysRemoved'
  BY <1>1, <1>2, <1>3, <1>5 DEF RemovedStaysRemoved
<1>11. SessionOfStarter' /\ OwnAnswer'
  BY <1>1, <1>3 DEF SessionOfStarter, OwnAnswer, callbackVars
<1>12. LinkedByStarter'
  BY <1>1, <1>3, <1>5 DEF LinkedByStarter, callbackVars
<1> QED
  BY <1>7, <1>8, <1>9, <1>10, <1>11, <1>12 DEF IInv

LEMMA SetAddInv ==
  ASSUME IInv, NEW r \in Requests, SetAdd(r)
  PROVE  IInv'
<1>1. /\ TypeOK /\ AddedIsListed /\ AddingNotRemoved /\ RemovedStaysRemoved
      /\ SessionOfStarter /\ OwnAnswer /\ LinkedByStarter
  BY DEF IInv
<1> DEFINE u == user[r]
           n == news[r]
           d == OnlyBookmark(n)
<1>2. /\ u \in Users /\ n \in News /\ n \notin removed[u]
      /\ d \in Documents
  BY <1>1, DocumentTypes DEF SetAdd, TypeOK, AddingNotRemoved
<1>3. d.exists = TRUE /\ d.bookmarks = {n} /\ d.notion = "none"
  BY DEF OnlyBookmark
<1> HIDE DEF d
<1>4. UNCHANGED <<user, news, removed, callbackVars>>
  BY DEF SetAdd
<1>5. /\ pc' \in [Requests -> {"idle", "update", "set"}]
      /\ \A q \in Requests : pc'[q] # "idle" => pc[q] # "idle"
  BY <1>1 DEF SetAdd, Added, TypeOK
<1>6. saved' \in [Users -> SUBSET News] /\ \A v \in Users \ {u} : saved'[v] = saved[v]
  BY <1>1, <1>2 DEF SetAdd, Added, TypeOK
<1>7. saved'[u] \subseteq saved[u] \union {n}
  BY <1>1, <1>2 DEF SetAdd, Added, TypeOK
<1>8. CASE SetDocument(u, d)
  <2>1. /\ doc' \in [Users -> Documents] /\ doc'[u] = d
        /\ \A v \in Users \ {u} : doc'[v] = doc[v]
        /\ overwritten' \subseteq Users /\ overwritten \subseteq overwritten'
        /\ u \notin overwritten' => ~doc[u].exists
    BY <1>1, <1>2, <1>8, SetDocumentEffect
  <2>2. TypeOK'
    BY <1>1, <1>4, <1>5, <1>6, <2>1 DEF TypeOK, callbackVars
  <2>3. Listed(u)' = {n} /\ \A v \in Users \ {u} : Listed(v)' = Listed(v)
    <3>1. doc'[u].exists /\ doc'[u].bookmarks = {n}
      BY <1>3, <2>1
    <3> QED
      BY <1>4, <2>1, <3>1 DEF Listed
  <2>4. AddedIsListed'
    <3>1. u \notin overwritten' => saved[u] = {}
      BY <1>1, <1>2, <2>1 DEF AddedIsListed, Listed
    <3>2. u \notin overwritten' => saved'[u] \subseteq Listed(u)'
      BY <1>7, <2>3, <3>1
    <3>3. \A v \in Users \ {u} : v \notin overwritten' => saved'[v] \subseteq Listed(v)'
      BY <1>1, <1>6, <2>1, <2>3 DEF AddedIsListed
    <3> QED
      BY <1>4, <3>2, <3>3 DEF AddedIsListed, Listed
  <2>5. AddingNotRemoved'
    BY <1>1, <1>4, <1>5 DEF AddingNotRemoved
  <2>6. RemovedStaysRemoved'
    BY <1>1, <1>2, <1>4, <2>3 DEF RemovedStaysRemoved
  <2>7. SessionOfStarter' /\ OwnAnswer'
    BY <1>1, <1>4 DEF SessionOfStarter, OwnAnswer, callbackVars
  <2>8. LinkedByStarter'
    <3>1. \A v \in Users : doc'[v].notion \in Flows => doc'[v] = doc[v]
      BY <1>3, <2>1, FlowNames
    <3> QED
      BY <1>1, <1>4, <3>1 DEF LinkedByStarter, callbackVars
  <2> QED
    BY <2>2, <2>4, <2>5, <2>6, <2>7, <2>8 DEF IInv
<1>9. CASE UNCHANGED <<doc, overwritten, saved>>
  <2>1. TypeOK'
    BY <1>1, <1>4, <1>5, <1>9 DEF TypeOK, callbackVars
  <2>2. AddedIsListed' /\ RemovedStaysRemoved'
    BY <1>1, <1>4, <1>9 DEF AddedIsListed, RemovedStaysRemoved, Listed
  <2>3. AddingNotRemoved'
    BY <1>1, <1>4, <1>5 DEF AddingNotRemoved
  <2>4. SessionOfStarter' /\ OwnAnswer' /\ LinkedByStarter'
    BY <1>1, <1>4, <1>9 DEF SessionOfStarter, OwnAnswer, LinkedByStarter, callbackVars
  <2> QED
    BY <2>1, <2>2, <2>3, <2>4 DEF IInv
<1>10. SetDocument(u, d) \/ UNCHANGED <<doc, overwritten, saved>>
  BY DEF SetAdd, d
<1> QED
  BY <1>8, <1>9, <1>10

LEMMA RemoveInv ==
  ASSUME IInv, NEW u \in Users, NEW n \in News, Remove(u, n)
  PROVE  IInv'
<1>1. /\ TypeOK /\ AddedIsListed /\ AddingNotRemoved /\ RemovedStaysRemoved
      /\ SessionOfStarter /\ OwnAnswer /\ LinkedByStarter
  BY DEF IInv
<1> DEFINE d == [doc[u] EXCEPT !.bookmarks = @ \ {n}]
<1>2. /\ doc[u].exists /\ doc' = [doc EXCEPT ![u] = d]
      /\ saved' = [saved EXCEPT ![u] = @ \ {n}]
      /\ UNCHANGED <<pc, user, news, callbackVars, overwritten>>
  BY DEF Remove
<1>3. doc[u] \in Documents
  BY <1>1 DEF TypeOK
<1>4. /\ d \in Documents /\ d.exists = doc[u].exists
      /\ d.bookmarks = doc[u].bookmarks \ {n} /\ d.notion = doc[u].notion
  BY <1>3 DEF Documents
<1> HIDE DEF d
<1>5. /\ doc' \in [Users -> Documents] /\ doc'[u] = d
      /\ \A v \in Users \ {u} : doc'[v] = doc[v]
      /\ saved' \in [Users -> SUBSET News] /\ saved'[u] = saved[u] \ {n}
      /\ \A v \in Users \ {u} : saved'[v] = saved[v]
  BY <1>1, <1>2, <1>4 DEF TypeOK
<1>6. Listed(u)' = Listed(u) \ {n} /\ \A v \in Users \ {u} : Listed(v)' = Listed(v)
  BY <1>2, <1>4, <1>5 DEF Listed
<1>7. removed' \in [Users -> SUBSET News]
  BY <1>1 DEF Remove, TypeOK
<1>8. \A v \in Users \ {u} : removed'[v] = removed[v]
  BY <1>1 DEF Remove, TypeOK
<1>9. removed'[u] \subseteq removed[u] \union (IF Adding(u, n) THEN {} ELSE {n})
  BY <1>1 DEF Remove, TypeOK
<1>10. TypeOK'
  BY <1>1, <1>2, <1>5, <1>7 DEF TypeOK, callbackVars
<1>11. AddedIsListed'
  BY <1>1, <1>2, <1>5, <1>6 DEF AddedIsListed
<1>12. AddingNotRemoved'
  <2>1. ASSUME NEW q \in Requests, pc[q] # "idle"
        PROVE  news[q] \notin removed'[user[q]]
    <3>1. news[q] \notin removed[user[q]] /\ user[q] \in Users
      BY <1>1, <2>1 DEF AddingNotRemoved, TypeOK
    <3>2. CASE user[q] = u
      <4>1. news[q] = n => Adding(u, n)
        BY <2>1, <3>2 DEF Adding
      <4> QED
        BY <1>9, <3>1, <3>2, <4>1
    <3>3. CASE user[q] # u
      BY <1>8, <3>1, <3>3
    <3> QED
      BY <3>2, <3>3
  <2> QED
    BY <1>2, <2>1 DEF AddingNotRemoved
<1>13. RemovedStaysRemoved'
  <2>1. removed'[u] \intersect Listed(u)' = {}
    BY <1>1, <1>6, <1>9 DEF RemovedStaysRemoved
  <2>2. \A v \in Users \ {u} : removed'[v] \intersect Listed(v)' = {}
    BY <1>1, <1>6, <1>8 DEF RemovedStaysRemoved
  <2> QED
    BY <2>1, <2>2 DEF RemovedStaysRemoved
<1>14. SessionOfStarter' /\ OwnAnswer'
  BY <1>1, <1>2 DEF SessionOfStarter, OwnAnswer, callbackVars
<1>15. LinkedByStarter'
  <2>1. \A v \in Users : doc'[v].notion = doc[v].notion
    BY <1>4, <1>5
  <2> QED
    BY <1>1, <1>2, <2>1 DEF LinkedByStarter, callbackVars
<1> QED
  BY <1>10, <1>11, <1>12, <1>13, <1>14, <1>15 DEF IInv

-----------------------------------------------------------------------------
(* The link to Notion.                                                     *)

(* The bookmarks are not touched by a step that leaves the documents alone.*)
LEMMA BookmarksUntouched ==
  ASSUME IInv, UNCHANGED <<doc, requestVars, overwritten>>
  PROVE  AddedIsListed' /\ AddingNotRemoved' /\ RemovedStaysRemoved'
  BY DEF IInv, AddedIsListed, AddingNotRemoved, RemovedStaysRemoved, Listed, requestVars

LEMMA CreateAuthSessionInv ==
  ASSUME IInv, NEW f \in Flows, NEW u \in Users, CreateAuthSession(f, u)
  PROVE  IInv'
<1>1. /\ TypeOK /\ SessionOfStarter /\ OwnAnswer /\ LinkedByStarter
  BY DEF IInv
<1>2. /\ starter[f] = NoUser
      /\ UNCHANGED <<doc, requestVars, exchanged, mixed, stage, state, authResult, holder, overwritten>>
  BY DEF CreateAuthSession
<1>3. u # NoUser /\ f # NoState /\ f \in States /\ NoState \in States
  BY ActionsAssumption DEF States
<1>4. CASE /\ starter' = [starter EXCEPT ![f] = u]
           /\ session' = [session EXCEPT ![f] = u] \/ UNCHANGED session
  <2>1. /\ starter' \in [Flows -> Users \union {NoUser}] /\ starter'[f] = u
        /\ \A g \in Flows \ {f} : starter'[g] = starter[g]
    BY <1>1, <1>4 DEF TypeOK
  <2>2. /\ session' \in [States -> Users \union {NoUser}]
        /\ session'[f] = u \/ session'[f] = session[f]
        /\ \A g \in Flows \ {f} : session'[g] = session[g]
    BY <1>1, <1>3, <1>4 DEF TypeOK, States
  <2>3. TypeOK'
    BY <1>1, <1>2, <2>1, <2>2 DEF TypeOK, requestVars
  <2>4. session[f] = NoUser
    BY <1>1, <1>2 DEF SessionOfStarter
  <2>5. SessionOfStarter'
    BY <1>1, <2>1, <2>2, <2>4 DEF SessionOfStarter
  <2>6. \A g \in Flows : starter[g] # NoUser => starter'[g] = starter[g]
    BY <1>2, <2>1
  <2>7. OwnAnswer'
    <3>1. ASSUME NEW c \in Callbacks, state[c] # NoState
          PROVE  state[c] \in Flows /\ starter'[state[c]] = starter[state[c]] /\ starter[state[c]] # NoUser
      BY <1>1, <2>6, <3>1 DEF OwnAnswer, TypeOK, States
    <3>2. ASSUME NEW c \in Callbacks
          PROVE  /\ authResult[c] # "error" => authResult[c] \in mixed \union {state[c]}
                 /\ state[c] # NoState => starter'[state[c]] # NoUser
                 /\ stage[c] = "store" => holder[c] # NoUser
                 /\ stage[c] = "store" /\ state[c] # NoState => holder[c] = starter'[state[c]]
      BY <1>1, <3>1 DEF OwnAnswer
    <3> QED
      BY <1>2, <3>2 DEF OwnAnswer
  <2>8. LinkedByStarter'
    <3>1. ASSUME NEW v \in Users, doc[v].notion \in Flows \ mixed
          PROVE  starter'[doc[v].notion] = v
      <4>1. starter[doc[v].notion] = v /\ v # NoUser
        BY <1>1, <3>1, ActionsAssumption DEF LinkedByStarter
      <4> QED
        BY <2>6, <3>1, <4>1
    <3> QED
      BY <1>2, <3>1 DEF LinkedByStarter
  <2> QED
    BY <1>2, <2>3, <2>5, <2>7, <2>8, BookmarksUntouched DEF IInv
<1>5. CASE session' = [session EXCEPT ![NoState] = u] /\ UNCHANGED starter
  <2>1. /\ session' \in [States -> Users \union {NoUser}]
        /\ \A g \in Flows : session'[g] = session[g]
    BY <1>1, <1>3, <1>5, FlowNames DEF TypeOK, States
  <2>2. TypeOK'
    BY <1>1, <1>2, <1>5, <2>1 DEF TypeOK, requestVars
  <2>3. SessionOfStarter' /\ OwnAnswer' /\ LinkedByStarter'
    BY <1>1, <1>2, <1>5, <2>1 DEF SessionOfStarter, OwnAnswer, LinkedByStarter
  <2> QED
    BY <1>2, <2>2, <2>3, BookmarksUntouched DEF IInv
<1> QED
  BY <1>4, <1>5 DEF CreateAuthSession

LEMMA SessionExpiresInv ==
  ASSUME IInv, NEW s \in States, SessionExpires(s)
  PROVE  IInv'
<1>1. /\ TypeOK /\ SessionOfStarter /\ OwnAnswer /\ LinkedByStarter
  BY DEF IInv
<1>2. /\ session' = [session EXCEPT ![s] = NoUser]
      /\ UNCHANGED <<doc, requestVars, starter, exchanged, mixed, stage, state, authResult, holder,
                     overwritten>>
  BY DEF SessionExpires
<1>3. /\ session' \in [States -> Users \union {NoUser}]
      /\ \A g \in Flows : session'[g] # NoUser => session'[g] = session[g]
  BY <1>1, <1>2 DEF TypeOK, States
<1>4. TypeOK'
  BY <1>1, <1>2, <1>3 DEF TypeOK, requestVars
<1>5. SessionOfStarter' /\ OwnAnswer' /\ LinkedByStarter'
  BY <1>1, <1>2, <1>3 DEF SessionOfStarter, OwnAnswer, LinkedByStarter
<1> QED
  BY <1>2, <1>4, <1>5, BookmarksUntouched DEF IInv

(* The steps of a callback.                                                *)
LEMMA ExchangeInv ==
  ASSUME IInv, NEW c \in Callbacks, Exchange(c)
  PROVE  IInv'
<1>1. /\ TypeOK /\ SessionOfStarter /\ OwnAnswer /\ LinkedByStarter
  BY DEF IInv
<1>2. PICK s \in {NoState} \union Started, code \in {{}} \union {{f} : f \in Started} :
        \E a \in {"error"} \union (code \ exchanged) :
          /\ state' = [state EXCEPT ![c] = s]
          /\ mixed' = mixed \union (code \ {s})
          /\ authResult' = [authResult EXCEPT ![c] = a]
          /\ exchanged' = exchanged \union ({a} \intersect Flows)
  BY DEF Exchange
<1>3. PICK a \in {"error"} \union (code \ exchanged) :
        /\ state' = [state EXCEPT ![c] = s]
        /\ mixed' = mixed \union (code \ {s})
        /\ authResult' = [authResult EXCEPT ![c] = a]
        /\ exchanged' = exchanged \union ({a} \intersect Flows)
  BY <1>2
<1>4. /\ stage' = [stage EXCEPT ![c] = "lookup"]
      /\ UNCHANGED <<doc, requestVars, session, starter, holder, overwritten>>
  BY DEF Exchange
<1>5. /\ code \subseteq Flows /\ s \in States /\ a \in AuthResults
      /\ a # "error" => a \in mixed' \union {s}
      /\ s # NoState => starter[s] # NoUser
  <2>1. code \subseteq Flows
    BY <1>2 DEF Started
  <2>2. s \in States /\ (s # NoState => starter[s] # NoUser)
    BY <1>2 DEF Started, States
  <2>3. a \in AuthResults /\ (a # "error" => a \in code)
    BY <1>3, <2>1 DEF AuthResults
  <2> QED
    BY <1>3, <2>1, <2>2, <2>3
<1>6. TypeOK'
  BY <1>1, <1>3, <1>4, <1>5 DEF TypeOK, requestVars
<1>7. OwnAnswer'
  <2>1. ASSUME NEW d \in Callbacks
        PROVE  /\ authResult'[d] # "error" => authResult'[d] \in mixed' \union {state'[d]}
               /\ state'[d] # NoState => starter[state'[d]] # NoUser
               /\ stage'[d] = "store" => holder[d] # NoUser
               /\ stage'[d] = "store" /\ state'[d] # NoState => holder[d] = starter[state'[d]]
    <3>1. CASE d = c
      BY <1>1, <1>3, <1>4, <1>5, <3>1 DEF TypeOK
    <3>2. CASE d # c
      <4>1. /\ stage'[d] = stage[d] /\ state'[d] = state[d] /\ authResult'[d] = authResult[d]
            /\ mixed \subseteq mixed'
        BY <1>1, <1>3, <1>4, <3>2 DEF TypeOK
      <4> QED
        BY <1>1, <4>1 DEF OwnAnswer
    <3> QED
      BY <3>1, <3>2
  <2> QED
    BY <1>4, <2>1 DEF OwnAnswer
<1>8. SessionOfStarter'
  BY <1>1, <1>4 DEF SessionOfStarter
<1>9. LinkedByStarter'
  <2>1. mixed \subseteq mixed'
    BY <1>3
  <2> QED
    BY <1>1, <1>4, <2>1 DEF LinkedByStarter
<1> QED
  BY <1>4, <1>6, <1>7, <1>8, <1>9, BookmarksUntouched DEF IInv

LEMMA ExchangeFailsInv ==
  ASSUME IInv, NEW c \in Callbacks, ExchangeFails(c)
  PROVE  IInv'
<1>1. /\ TypeOK /\ SessionOfStarter /\ OwnAnswer /\ LinkedByStarter
  BY DEF IInv
<1>2. exchanged' \subseteq exchanged \union Flows
  BY DEF ExchangeFails, Started
<1>3. UNCHANGED <<doc, requestVars, session, starter, mixed, stage, state, authResult, holder, overwritten>>
  BY DEF ExchangeFails
<1>4. TypeOK'
  BY <1>1, <1>2, <1>3 DEF TypeOK, requestVars
<1>5. SessionOfStarter' /\ OwnAnswer' /\ LinkedByStarter'
  BY <1>1, <1>3 DEF SessionOfStarter, OwnAnswer, LinkedByStarter
<1> QED
  BY <1>3, <1>4, <1>5, BookmarksUntouched DEF IInv

LEMMA LookupInv ==
  ASSUME IInv, NEW c \in Callbacks, Lookup(c)
  PROVE  IInv'
<1>1. /\ TypeOK /\ SessionOfStarter /\ OwnAnswer /\ LinkedByStarter
  BY DEF IInv
<1>2. /\ session[state[c]] # NoUser
      /\ holder' = [holder EXCEPT ![c] = session[state[c]]]
      /\ stage' = [stage EXCEPT ![c] = "store"]
      /\ UNCHANGED <<doc, requestVars, session, starter, exchanged, mixed, state, authResult, overwritten>>
  BY DEF Lookup
<1>3. state[c] \in States /\ session[state[c]] \in Users \union {NoUser}
  BY <1>1 DEF TypeOK
<1>4. TypeOK'
  BY <1>1, <1>2, <1>3 DEF TypeOK, requestVars
<1>5. state[c] # NoState => session[state[c]] = starter[state[c]]
  BY <1>1, <1>2, <1>3 DEF SessionOfStarter, States
<1>6. OwnAnswer'
  <2>1. ASSUME NEW d \in Callbacks
        PROVE  /\ authResult[d] # "error" => authResult[d] \in mixed \union {state[d]}
               /\ state[d] # NoState => starter[state[d]] # NoUser
               /\ stage'[d] = "store" => holder'[d] # NoUser
               /\ stage'[d] = "store" /\ state[d] # NoState => holder'[d] = starter[state[d]]
    <3>1. CASE d = c
      BY <1>1, <1>2, <1>5, <3>1 DEF TypeOK, OwnAnswer
    <3>2. CASE d # c
      <4>1. stage'[d] = stage[d] /\ holder'[d] = holder[d]
        BY <1>1, <1>2, <3>2 DEF TypeOK
      <4> QED
        BY <1>1, <4>1 DEF OwnAnswer
    <3> QED
      BY <3>1, <3>2
  <2> QED
    BY <1>2, <2>1 DEF OwnAnswer
<1>7. SessionOfStarter' /\ LinkedByStarter'
  BY <1>1, <1>2 DEF SessionOfStarter, LinkedByStarter
<1> QED
  BY <1>2, <1>4, <1>6, <1>7, BookmarksUntouched DEF IInv

LEMMA CallbackEndsInv ==
  ASSUME TypeOK, OwnAnswer, NEW c \in Callbacks, CallbackEnds(c), UNCHANGED <<starter, mixed>>
  PROVE  /\ stage' \in [Callbacks -> {"idle", "lookup", "store"}]
         /\ state' \in [Callbacks -> States]
         /\ authResult' \in [Callbacks -> AuthResults]
         /\ holder' \in [Callbacks -> Users \union {NoUser}]
         /\ OwnAnswer'
<1>1. /\ stage' = [stage EXCEPT ![c] = "idle"]
      /\ state' = [state EXCEPT ![c] = NoState]
      /\ authResult' = [authResult EXCEPT ![c] = "error"]
      /\ holder' = [holder EXCEPT ![c] = NoUser]
  BY DEF CallbackEnds
<1>2. NoState \in States /\ "error" \in AuthResults
  BY DEF States, AuthResults
<1>3. /\ stage' \in [Callbacks -> {"idle", "lookup", "store"}]
      /\ state' \in [Callbacks -> States]
      /\ authResult' \in [Callbacks -> AuthResults]
      /\ holder' \in [Callbacks -> Users \union {NoUser}]
  BY <1>1, <1>2 DEF TypeOK
<1>4. ASSUME NEW d \in Callbacks
      PROVE  /\ authResult'[d] # "error" => authResult'[d] \in mixed \union {state'[d]}
             /\ state'[d] # NoState => starter[state'[d]] # NoUser
             /\ stage'[d] = "store" => holder'[d] # NoUser
             /\ stage'[d] = "store" /\ state'[d] # NoState => holder'[d] = starter[state'[d]]
  <2>1. CASE d = c
    <3>1. stage'[d] = "idle" /\ authResult'[d] = "error" /\ state'[d] = NoState
      BY <1>1, <2>1 DEF TypeOK
    <3> QED
      BY <3>1
  <2>2. CASE d # c
    <3>1. /\ stage'[d] = stage[d] /\ state'[d] = state[d] /\ authResult'[d] = authResult[d]
          /\ holder'[d] = holder[d]
      BY <1>1, <2>2 DEF TypeOK
    <3> QED
      BY <3>1 DEF OwnAnswer
  <2> QED
    BY <2>1, <2>2
<1>5. OwnAnswer'
  BY <1>4 DEF OwnAnswer
<1> QED
  BY <1>3, <1>5

LEMMA LookupFailsInv ==
  ASSUME IInv, NEW c \in Callbacks, LookupFails(c)
  PROVE  IInv'
<1>1. /\ TypeOK /\ SessionOfStarter /\ OwnAnswer /\ LinkedByStarter
  BY DEF IInv
<1>2. CallbackEnds(c) /\ UNCHANGED <<doc, requestVars, session, starter, exchanged, mixed, overwritten>>
  BY DEF LookupFails
<1>3. OwnAnswer' /\ TypeOK'
  BY <1>1, <1>2, CallbackEndsInv DEF TypeOK, requestVars
<1>4. SessionOfStarter' /\ LinkedByStarter'
  BY <1>1, <1>2 DEF SessionOfStarter, LinkedByStarter
<1> QED
  BY <1>2, <1>3, <1>4, BookmarksUntouched DEF IInv

LEMMA StoreCredentialsInv ==
  ASSUME IInv, NEW c \in Callbacks, StoreCredentials(c)
  PROVE  IInv'
<1>1. /\ TypeOK /\ AddedIsListed /\ AddingNotRemoved /\ RemovedStaysRemoved
      /\ SessionOfStarter /\ OwnAnswer /\ LinkedByStarter
  BY DEF IInv
<1> DEFINE u == holder[c]
           d == OnlyCredentials(authResult[c])
<1>2. /\ stage[c] = "store" /\ CallbackEnds(c)
      /\ UNCHANGED <<requestVars, session, starter, exchanged, mixed>>
  BY DEF StoreCredentials
<1>3. u \in Users /\ authResult[c] \in AuthResults
  BY <1>1, <1>2 DEF OwnAnswer, TypeOK
<1>4. /\ d \in Documents
      /\ d.exists = TRUE /\ d.bookmarks = {} /\ d.notion = authResult[c]
  BY <1>3, DocumentTypes DEF OnlyCredentials
<1> HIDE DEF d
<1>5. CASE SetDocument(u, d)
  <2>1. /\ doc' \in [Users -> Documents] /\ doc'[u] = d
        /\ \A v \in Users \ {u} : doc'[v] = doc[v]
        /\ overwritten' \subseteq Users /\ overwritten \subseteq overwritten'
        /\ u \notin overwritten' => ~doc[u].exists
    BY <1>1, <1>3, <1>4, <1>5, SetDocumentEffect
  <2>2. OwnAnswer' /\ TypeOK'
    BY <1>1, <1>2, <2>1, CallbackEndsInv DEF TypeOK, requestVars
  <2>3. u \notin overwritten' => saved[u] = {}
    BY <1>1, <1>3, <2>1 DEF AddedIsListed, Listed
  <2>4. \A v \in Users : Listed(v)' \subseteq Listed(v)
    BY <1>4, <2>1 DEF Listed
  <2>5. \A v \in Users \ {u} : Listed(v)' = Listed(v)
    BY <2>1 DEF Listed
  <2>6. AddedIsListed'
    <3>1. saved' = saved
      BY <1>2 DEF requestVars
    <3>2. ASSUME NEW v \in Users, v \notin overwritten' PROVE saved[v] \subseteq Listed(v)'
      <4>1. CASE v = u
        BY <2>3, <3>2, <4>1
      <4>2. CASE v # u
        BY <1>1, <2>1, <2>5, <3>2, <4>2 DEF AddedIsListed
      <4> QED
        BY <4>1, <4>2
    <3> QED
      BY <3>1, <3>2 DEF AddedIsListed
  <2>7. AddingNotRemoved'
    BY <1>1, <1>2 DEF AddingNotRemoved, requestVars
  <2>8. RemovedStaysRemoved'
    BY <1>1, <1>2, <2>4 DEF RemovedStaysRemoved, requestVars
  <2>9. SessionOfStarter'
    BY <1>1, <1>2 DEF SessionOfStarter
  <2>10. LinkedByStarter'
    <3>1. authResult[c] \in Flows \ mixed => starter[authResult[c]] = u
      BY <1>1, <1>2, FlowNames DEF OwnAnswer
    <3>2. ASSUME NEW v \in Users, doc'[v].notion \in Flows \ mixed
          PROVE  starter[doc'[v].notion] = v
      <4>1. CASE v = u
        BY <1>4, <2>1, <3>1, <3>2, <4>1
      <4>2. CASE v # u
        BY <1>1, <2>1, <3>2, <4>2 DEF LinkedByStarter
      <4> QED
        BY <4>1, <4>2
    <3> QED
      BY <1>2, <3>2 DEF LinkedByStarter
  <2> QED
    BY <2>2, <2>6, <2>7, <2>8, <2>9, <2>10 DEF IInv
<1>6. CASE UNCHANGED <<doc, overwritten>>
  <2>1. OwnAnswer' /\ TypeOK'
    BY <1>1, <1>2, <1>6, CallbackEndsInv DEF TypeOK, requestVars
  <2>2. SessionOfStarter' /\ LinkedByStarter'
    BY <1>1, <1>2, <1>6 DEF SessionOfStarter, LinkedByStarter
  <2> QED
    BY <1>2, <1>6, <2>1, <2>2, BookmarksUntouched DEF IInv
<1> QED
  BY <1>5, <1>6 DEF StoreCredentials, d

-----------------------------------------------------------------------------
(* The environment.                                                        *)

LEMMA DeleteUserInv ==
  ASSUME IInv, NEW u \in Users, DeleteUser(u)
  PROVE  IInv'
<1>1. /\ TypeOK /\ AddedIsListed /\ AddingNotRemoved /\ RemovedStaysRemoved
      /\ SessionOfStarter /\ OwnAnswer /\ LinkedByStarter
  BY DEF IInv
<1>2. /\ doc[u].exists /\ doc' = [doc EXCEPT ![u] = NoDocument]
      /\ saved' = [saved EXCEPT ![u] = {}] /\ overwritten' = overwritten \ {u}
      /\ UNCHANGED <<pc, user, news, removed, callbackVars>>
  BY DEF DeleteUser
<1>3. NoDocument.exists = FALSE /\ NoDocument.notion = "none"
  BY DEF NoDocument
<1>4. /\ doc' \in [Users -> Documents] /\ doc'[u] = NoDocument
      /\ \A v \in Users \ {u} : doc'[v] = doc[v]
      /\ saved' \in [Users -> SUBSET News] /\ saved'[u] = {}
      /\ \A v \in Users \ {u} : saved'[v] = saved[v]
  BY <1>1, <1>2, DocumentTypes DEF TypeOK
<1>5. Listed(u)' = {} /\ \A v \in Users \ {u} : Listed(v)' = Listed(v)
  BY <1>3, <1>4 DEF Listed
<1>6. TypeOK'
  BY <1>1, <1>2, <1>4 DEF TypeOK, callbackVars
<1>7. AddedIsListed'
  <2>1. \A v \in Users \ {u} : v \notin overwritten' => saved'[v] \subseteq Listed(v)'
    BY <1>1, <1>2, <1>4, <1>5 DEF AddedIsListed
  <2> QED
    BY <1>4, <2>1 DEF AddedIsListed
<1>8. RemovedStaysRemoved'
  <2>1. \A v \in Users : Listed(v)' \subseteq Listed(v)
    BY <1>5
  <2> QED
    BY <1>1, <1>2, <2>1 DEF RemovedStaysRemoved
<1>9. AddingNotRemoved' /\ SessionOfStarter' /\ OwnAnswer'
  BY <1>1, <1>2 DEF AddingNotRemoved, SessionOfStarter, OwnAnswer, callbackVars
<1>10. LinkedByStarter'
  <2>1. \A v \in Users : doc'[v].notion \in Flows => doc'[v] = doc[v]
    BY <1>3, <1>4, FlowNames
  <2> QED
    BY <1>1, <1>2, <2>1 DEF LinkedByStarter, callbackVars
<1> QED
  BY <1>6, <1>7, <1>8, <1>9, <1>10 DEF IInv

LEMMA RegisterInv ==
  ASSUME IInv, NEW u \in Users, Register(u)
  PROVE  IInv'
<1>1. /\ TypeOK /\ AddedIsListed /\ AddingNotRemoved /\ RemovedStaysRemoved
      /\ SessionOfStarter /\ OwnAnswer /\ LinkedByStarter
  BY DEF IInv
<1>2. /\ ~doc[u].exists /\ doc' = [doc EXCEPT ![u] = Registered]
      /\ UNCHANGED <<requestVars, callbackVars, overwritten>>
  BY DEF Register
<1>3. Registered.exists = TRUE /\ Registered.bookmarks = {} /\ Registered.notion = "none"
  BY DEF Registered
<1>4. /\ doc' \in [Users -> Documents] /\ doc'[u] = Registered
      /\ \A v \in Users \ {u} : doc'[v] = doc[v]
  BY <1>1, <1>2, DocumentTypes DEF TypeOK
<1>5. \A v \in Users : Listed(v)' = Listed(v)
  BY <1>2, <1>3, <1>4 DEF Listed
<1>6. TypeOK'
  BY <1>1, <1>2, <1>4 DEF TypeOK, requestVars, callbackVars
<1>7. AddedIsListed' /\ RemovedStaysRemoved' /\ AddingNotRemoved'
  BY <1>1, <1>2, <1>5 DEF AddedIsListed, RemovedStaysRemoved, AddingNotRemoved, requestVars
<1>8. SessionOfStarter' /\ OwnAnswer'
  BY <1>1, <1>2 DEF SessionOfStarter, OwnAnswer, callbackVars
<1>9. LinkedByStarter'
  <2>1. \A v \in Users : doc'[v].notion \in Flows => doc'[v] = doc[v]
    BY <1>3, <1>4, FlowNames
  <2> QED
    BY <1>1, <1>2, <2>1 DEF LinkedByStarter, callbackVars
<1> QED
  BY <1>6, <1>7, <1>8, <1>9 DEF IInv

LEMMA CrashInv ==
  ASSUME IInv, Crash
  PROVE  IInv'
<1>1. /\ TypeOK /\ AddedIsListed /\ AddingNotRemoved /\ RemovedStaysRemoved
      /\ SessionOfStarter /\ OwnAnswer /\ LinkedByStarter
  BY DEF IInv
<1>2. TypeOK'
  BY <1>1 DEF Crash, TypeOK, States, AuthResults
<1>3. AddedIsListed' /\ RemovedStaysRemoved' /\ SessionOfStarter' /\ LinkedByStarter'
  BY <1>1 DEF Crash, AddedIsListed, RemovedStaysRemoved, Listed, SessionOfStarter, LinkedByStarter
<1>4. AddingNotRemoved' /\ OwnAnswer'
  BY DEF Crash, AddingNotRemoved, OwnAnswer
<1> QED
  BY <1>1, <1>2, <1>3, <1>4 DEF IInv

LEMMA StepInv ==
  ASSUME IInv, [Next]_vars
  PROVE  IInv'
<1>1. CASE Bookmark
  BY <1>1, BeginAddInv, UpdateAddInv, SetAddInv, RemoveInv DEF Bookmark
<1>2. CASE Link
  BY <1>2, CreateAuthSessionInv, ExchangeInv, ExchangeFailsInv, LookupInv, LookupFailsInv,
     StoreCredentialsInv DEF Link
<1>3. CASE \E s \in States : SessionExpires(s)
  BY <1>3, SessionExpiresInv
<1>4. CASE \E u \in Users : DeleteUser(u) \/ Register(u)
  BY <1>4, DeleteUserInv, RegisterInv
<1>5. CASE Crash
  BY <1>5, CrashInv
<1>6. CASE UNCHANGED vars
  <2>1. UNCHANGED <<doc, requestVars, callbackVars, overwritten>>
    BY <1>6 DEF vars
  <2>2. TypeOK'
    BY <2>1 DEF IInv, TypeOK, requestVars, callbackVars
  <2>3. SessionOfStarter' /\ OwnAnswer' /\ LinkedByStarter'
    BY <2>1 DEF IInv, SessionOfStarter, OwnAnswer, LinkedByStarter, callbackVars
  <2> QED
    BY <2>1, <2>2, <2>3, BookmarksUntouched DEF IInv
<1> QED
  BY <1>1, <1>2, <1>3, <1>4, <1>5, <1>6 DEF Next

THEOREM Invariance == Spec => []IInv
<1>1. Init => IInv
  BY InitInv
<1>2. IInv /\ [Next]_vars => IInv'
  BY StepInv
<1> QED
  BY <1>1, <1>2, PTL DEF Spec

(* The documents, sessions and handlers have their types.                  *)
THEOREM TypeCorrect == Spec => []TypeOK
<1>1. IInv => TypeOK
  BY DEF IInv
<1> QED
  BY <1>1, Invariance, PTL

(* AddBookmarksHandlers: a bookmark reported as added is in the list, as   *)
(* long as no Set has replaced the user's document.                        *)
THEOREM AddedIsListedHolds == Spec => []AddedIsListed
<1>1. IInv => AddedIsListed
  BY DEF IInv
<1> QED
  BY <1>1, Invariance, PTL

(* RemoveBookmarks: no slow add, no Set of an add and no Set of a callback *)
(* brings a deleted bookmark back.                                         *)
THEOREM RemovedStaysRemovedHolds == Spec => []RemovedStaysRemoved
<1>1. IInv => RemovedStaysRemoved
  BY DEF IInv
<1> QED
  BY <1>1, Invariance, PTL

(* OauthNotionCallback: credentials whose code came with its own state     *)
(* reach the document of the user to whom OauthNotionCreateAuthSession     *)
(* gave the URL of their flow, whatever came with other codes.             *)
THEOREM LinkedByStarterHolds == Spec => []LinkedByStarter
<1>1. IInv => LinkedByStarter
  BY DEF IInv
<1> QED
  BY <1>1, Invariance, PTL

(* OauthNotionCallback: what a callback stores, credentials or an error    *)
(* document, replaces only the document of the user its state was made for.*)
THEOREM StoresForStarterHolds == Spec => StoresForStarter
<1>1. IInv /\ [Next]_vars =>
        [\A c \in Callbacks, u \in Users :
           StoreCredentials(c) /\ doc'[u] # doc[u] /\ state[c] \in Flows => starter[state[c]] = u]_vars
  <2> SUFFICES ASSUME IInv, NEW c \in Callbacks, NEW u \in Users,
                      StoreCredentials(c), doc'[u] # doc[u], state[c] \in Flows
               PROVE  starter[state[c]] = u
    OBVIOUS
  <2>1. TypeOK /\ OwnAnswer
    BY DEF IInv
  <2>2. stage[c] = "store" /\ state[c] # NoState
    BY FlowNames DEF StoreCredentials
  <2>3. holder[c] = starter[state[c]]
    BY <2>1, <2>2 DEF OwnAnswer
  <2>4. doc' = [doc EXCEPT ![holder[c]] = OnlyCredentials(authResult[c])] \/ doc' = doc
    BY DEF StoreCredentials, SetDocument
  <2> QED
    BY <2>1, <2>3, <2>4 DEF TypeOK
<1> QED
  BY <1>1, Invariance, PTL DEF Spec, StoresForStarter
=============================================================================
