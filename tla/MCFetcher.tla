----------------------------- MODULE MCFetcher -----------------------------
(* An instance of Fetcher for TLC.                                         *)
EXTENDS Fetcher

\* totalResults is right, one too low, or one too high.
MCSurpluses == {-1, 0, 1}
=============================================================================
