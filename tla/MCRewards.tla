------------------------------ MODULE MCRewards -----------------------------
(***************************************************************************)
(* Instances of Rewards.  Workers are interchangeable; users are not, one   *)
(* has a number that reads like a hit.                                      *)
(***************************************************************************)
EXTENDS Rewards, TLC

Symmetry == Permutations(Workers)
=============================================================================
