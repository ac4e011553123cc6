---------------------------- MODULE MCUserActions ----------------------------
(* Symmetry of UserActions for TLC.                                        *)
EXTENDS UserActions, TLC

\* No action tells two users, two flows or two callbacks from each other.
Symmetry == Permutations(Users) \union Permutations(Flows) \union Permutations(Callbacks)
=============================================================================
