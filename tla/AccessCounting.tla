--------------------------- MODULE AccessCounting ---------------------------
(***************************************************************************)
(* What the access log promises about one access to a news detail, with no *)
(* word about Redis, the sync loops or MinIO: an access is counted once,   *)
(* collected once, archived at most once, and may be lost on the way.  It  *)
(* is never counted, collected or archived a second time.                  *)
(***************************************************************************)
CONSTANT Access

VARIABLE status    \* the life-cycle stage of every access

Stages == {"none", "counted", "collected", "archived", "lost"}

(* The moves an access can make.  There is no way back: an archived access *)
(* can only be lost (its object overwritten), never collected again.       *)
Moves == {<<"none", "counted">>,
          <<"counted", "collected">>,  <<"counted", "lost">>,
          <<"collected", "archived">>, <<"collected", "lost">>,
          <<"archived", "lost">>}

Init == status = [a \in Access |-> "none"]

Next ==
    /\ status' \in [Access -> Stages]
    /\ \A a \in Access :
         \/ status'[a] = status[a]
         \/ <<status[a], status'[a]>> \in Moves

Spec == Init /\ [][Next]_status
=============================================================================
