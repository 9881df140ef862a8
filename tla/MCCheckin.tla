------------------------------ MODULE MCCheckin -----------------------------
(***************************************************************************)
(* An instance of Checkin.  Workers are interchangeable, and the users but  *)
(* the one whose number reads like a hit.                                   *)
(***************************************************************************)
EXTENDS Checkin, TLC

Symmetry == Permutations(Workers) \cup Permutations(Users \ Lookalikes)
=============================================================================
