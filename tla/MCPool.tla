------------------------------- MODULE MCPool -------------------------------
(* Small instances of Pool. *)
EXTENDS Pool, TLC

OneLot == <<2>>
TwoLots == <<1, 1>>
SameOwner == [l \in Lots |-> "donor"]

Symmetry == Permutations(Workers) \cup Permutations(Users)
=============================================================================
