---------------------------- MODULE MCCreditAudit ---------------------------
(***************************************************************************)
(* Two users, one of whom has a number that reads like a hit.  The other is *)
(* also asked for with nothing, while the request of another call under the *)
(* same key may be on its way.                                              *)
(***************************************************************************)
EXTENDS CreditAudit

MCUpKeyOf == [k \in Keys |-> k]

MCRequests == {[key |-> "a", delta |-> 1], [key |-> "a", delta |-> 0],
               [key |-> "b", delta |-> 2]}
=============================================================================
