------------------------------- MODULE Payout -------------------------------
(***************************************************************************)
(* Grant and Reclaim as their callers see them: a call runs, money may or   *)
(* may not move, and the call ends with ok, skipped or error.  An error     *)
(* says nothing about the money, which may even move later.  Credit, with   *)
(* its retries and replies, implements this specification; the components   *)
(* that pay users are composed with it.                                     *)
(***************************************************************************)
EXTENDS Integers

CONSTANTS
    Workers, Keys, UpKeys, UpKeyOf, Requests, Mistakable    \* as in Credit

VARIABLES
    final,      \* the final rows of credit_ledger, delta 0 in a skipped one
    applied,    \* upstream: the balance change made under each key, 0 if none
    sent,       \* balance requests that may still be served
    calls       \* per worker, its running call

vars == <<final, applied, sent, calls>>

-----------------------------------------------------------------------------
Idle == [pc |-> "idle"]
Returned == {"ok", "skipped", "error"}
Request(r) == [up |-> UpKeyOf[r.key], delta |-> r.delta]

TypeOK ==
    /\ final \subseteq [key : Keys, delta : Int]
    /\ applied \in [UpKeys -> Int]
    /\ sent \subseteq [up : UpKeys, delta : Int]
    /\ calls \in [Workers -> {Idle} \cup [pc : {"running"} \cup Returned, req : Requests]]

Init ==
    /\ final = {}
    /\ applied = [u \in UpKeys |-> 0]
    /\ sent = {}
    /\ calls = [w \in Workers |-> Idle]

Final(k) == \E e \in final : e.key = k

Call(w, r) ==
    /\ calls[w] = Idle
    /\ calls' = [calls EXCEPT ![w] = [pc |-> "running", req |-> r]]

Return(w) ==
    /\ calls[w].pc \in Returned
    /\ calls' = [calls EXCEPT ![w] = Idle]

End(w, pc) ==
    /\ calls[w].pc = "running"
    /\ calls' = [calls EXCEPT ![w] = [pc |-> pc, req |-> calls[w].req]]

Send(w) ==
    /\ calls[w].pc = "running"
    /\ calls[w].req.delta # 0
    /\ sent' = sent \cup {Request(calls[w].req)}
    /\ UNCHANGED <<final, applied, calls>>

\* Recorded, once upstream has moved money under the key, or is taken to have.
Succeed(w) ==
    /\ End(w, "ok")
    /\ \/ applied[UpKeyOf[calls[w].req.key]] # 0
       \/ UpKeyOf[calls[w].req.key] \in Mistakable /\ calls[w].req.delta > 0
    /\ ~Final(calls[w].req.key)
    /\ final' = final \cup {[key |-> calls[w].req.key, delta |-> calls[w].req.delta]}
    /\ UNCHANGED <<applied, sent>>

\* The key is final already, or there is nothing to pay.
Skip(w) ==
    /\ End(w, "skipped")
    /\ \/ Final(calls[w].req.key) /\ UNCHANGED final
       \/ /\ calls[w].req.delta = 0
          /\ ~Final(calls[w].req.key)
          /\ final' = final \cup {[key |-> calls[w].req.key, delta |-> 0]}
    /\ UNCHANGED <<applied, sent>>

Fail(w) ==
    /\ End(w, "error")
    /\ UNCHANGED <<final, applied, sent>>

Apply(m) ==
    /\ m \in sent
    /\ sent' = sent \ {m}
    /\ applied' = IF applied[m.up] = 0 THEN [applied EXCEPT ![m.up] = m.delta] ELSE applied
    /\ UNCHANGED <<final, calls>>

Lose(m) ==
    /\ m \in sent
    /\ sent' = sent \ {m}
    /\ UNCHANGED <<final, applied, calls>>

Crash ==
    /\ calls' = [w \in Workers |-> Idle]
    /\ UNCHANGED <<final, applied, sent>>

-----------------------------------------------------------------------------
WorkerStep(w) == Send(w) \/ Succeed(w) \/ Skip(w) \/ Fail(w)

Upstream == \E m \in sent : Apply(m) \/ Lose(m)

Next ==
    \/ \E w \in Workers :
          \/ \E r \in Requests : Call(w, r) /\ UNCHANGED <<final, applied, sent>>
          \/ WorkerStep(w)
          \/ Return(w) /\ UNCHANGED <<final, applied, sent>>
    \/ Upstream
    \/ Crash

Spec == Init /\ [][Next]_vars
=============================================================================
