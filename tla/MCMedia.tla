------------------------------ MODULE MCMedia -------------------------------
(***************************************************************************)
(* An instance of Media.  Readers are interchangeable.                      *)
(***************************************************************************)
EXTENDS Media

Symmetry == Permutations(Readers)
=============================================================================
