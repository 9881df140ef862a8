------------------------------ MODULE PayOnce -------------------------------
(***************************************************************************)
(* What the payout service promises to its callers, with no workers,        *)
(* retries, network or failures in sight: money moves at most once under    *)
(* an upstream key and never changes afterwards, and a ledger key is booked *)
(* at most once, only after the money it stands for has moved, or where an  *)
(* error can be mistaken for that.                                          *)
(***************************************************************************)
EXTENDS Integers

CONSTANTS
    Keys, UpKeys, UpKeyOf,
    Deltas,     \* the balance changes callers ask for
    Mistakable  \* upstream keys whose errors can be taken for a hit

VARIABLES
    paid,       \* the balance change made under each upstream key, 0 if none
    booked      \* the ledger keys with a success row

vars == <<paid, booked>>

Init ==
    /\ paid = [u \in UpKeys |-> 0]
    /\ booked = {}

Pay(u, delta) ==
    /\ paid[u] = 0
    /\ paid' = [paid EXCEPT ![u] = delta]
    /\ UNCHANGED booked

Book(k) ==
    /\ k \notin booked
    /\ paid[UpKeyOf[k]] # 0 \/ UpKeyOf[k] \in Mistakable
    /\ booked' = booked \cup {k}
    /\ UNCHANGED paid

Next ==
    \/ \E u \in UpKeys, delta \in Deltas : Pay(u, delta)
    \/ \E k \in Keys : Book(k)

Spec == Init /\ [][Next]_vars
=============================================================================
