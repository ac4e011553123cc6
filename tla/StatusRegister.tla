--------------------------- MODULE StatusRegister ---------------------------
(***************************************************************************)
(* What the validation of users promises, with no word about the cache,    *)
(* its expiry and the two services that share it: every request is told    *)
(* one status, which was true of its API key not more than MaxAge ago, or  *)
(* that the status could not be had.  Between two such answers users may   *)
(* register, become premium users and disappear.                           *)
(***************************************************************************)
EXTENDS Naturals

CONSTANTS ApiKeys, Requests, Statuses, MaxAge

VARIABLES
    status,   \* of the users, by their API key
    age,      \* history: since when a status is no longer true of a key
    waiting,  \* the requests that have no answer yet
    key,      \* the API key of a request
    answer    \* its last answer

registerVars == <<status, age, waiting, key, answer>>

Init ==
    /\ status \in [ApiKeys -> Statuses]
    /\ age = [k \in ApiKeys |-> [st \in Statuses |-> IF st = status[k] THEN 0 ELSE MaxAge + 1]]
    /\ waiting = {}
    /\ key \in [Requests -> ApiKeys]
    /\ answer = [r \in Requests |-> "none"]

(* The answers that are allowed to a request for key k.                    *)
Recent(k) == {st \in Statuses : age[k][st] <= MaxAge}

(* A request comes that cannot be answered at once.                        *)
Ask(r, k) ==
    /\ r \notin waiting
    /\ waiting' = waiting \union {r}
    /\ key' = [key EXCEPT ![r] = k]
    /\ answer' = [answer EXCEPT ![r] = "none"]
    /\ UNCHANGED <<status, age>>

(* One that can.                                                           *)
Serve(r, k) ==
    /\ r \notin waiting
    /\ key' = [key EXCEPT ![r] = k]
    /\ \E st \in Recent(k) : answer' = [answer EXCEPT ![r] = st]
    /\ UNCHANGED <<status, age, waiting>>

(* A request that waits is told a status, or that there is none to be had. *)
Answer(r) ==
    /\ r \in waiting
    /\ waiting' = waiting \ {r}
    /\ \E st \in Recent(key[r]) \union {"failed"} : answer' = [answer EXCEPT ![r] = st]
    /\ UNCHANGED <<status, age, key>>

(* The status of a user changes.                                           *)
Change(k) ==
    /\ \E st \in Statuses :
         /\ status' = [status EXCEPT ![k] = st]
         /\ age' = [age EXCEPT ![k][st] = 0]
    /\ UNCHANGED <<waiting, key, answer>>

(* A unit of time passes, by which whatever is not true becomes older.     *)
Tick ==
    /\ age' = [k \in ApiKeys |-> [st \in Statuses |->
                  IF st = status[k] THEN 0
                  ELSE IF age[k][st] <= MaxAge THEN age[k][st] + 1 ELSE age[k][st]]]
    /\ UNCHANGED <<status, waiting, key, answer>>

Next ==
    \/ \E r \in Requests, k \in ApiKeys : Ask(r, k) \/ Serve(r, k)
    \/ \E r \in Requests : Answer(r)
    \/ \E k \in ApiKeys : Change(k)
    \/ Tick

Spec == Init /\ [][Next]_registerVars
=============================================================================
