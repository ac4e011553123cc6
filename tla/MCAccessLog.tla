---------------------------- MODULE MCAccessLog ----------------------------
(* Instances of AccessLog for TLC.                                         *)
EXTENDS AccessLog, TLC

CONSTANTS v1, v2, v3, v4, n1, n2, u1, u2, feedapi, pusher

\* A counter that two views increment, another of the same user (a group with
\* two entries), and one of another user (a second group).
AllViews == {v1, v2, v3, v4}
AllNewsOf == v1 :> n1 @@ v2 :> n1 @@ v3 :> n2 @@ v4 :> n1
AllApiKeyOf == v1 :> u1 @@ v2 :> u1 @@ v3 :> u1 @@ v4 :> u2

\* Two views of one news by one user.
PairNewsOf == v1 :> n1 @@ v2 :> n1
PairApiKeyOf == v1 :> u1 @@ v2 :> u1

\* One view, whose INCR may be sent twice.
SoloNewsOf == v1 :> n1
SoloApiKeyOf == v1 :> u1

\* Both loops have a tick every second, or the one of the pusher comes later, as
\* 30 seconds and 30 minutes do.
EqualPeriod == feedapi :> 1 @@ pusher :> 1
MCPeriod == feedapi :> 1 @@ pusher :> 2
SlowPeriod == feedapi :> 2 @@ pusher :> 3
=============================================================================
