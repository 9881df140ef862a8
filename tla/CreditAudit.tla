---------------------------- MODULE CreditAudit -----------------------------
(***************************************************************************)
(* Credit with a history variable: the upstream keys somebody has been      *)
(* warned about, because a call ended in an error or died with the process. *)
(***************************************************************************)
EXTENDS Credit

VARIABLE alarms

auditVars == <<ledger, applied, net, calls, alarms>>

\* The call that w was in has just ended without a usable result.
Alarming(w) ==
    /\ calls[w].pc \in Running
    /\ calls'[w].pc \in {"idle", "error"}

AuditInit == Init /\ alarms = {}

AuditNext ==
    /\ Next
    /\ alarms' = alarms \cup {Up(calls[w]) : w \in {v \in Workers : Alarming(v)}}

AuditSpec == AuditInit /\ [][AuditNext]_auditVars

FairAuditSpec == AuditSpec /\ Fairness

-----------------------------------------------------------------------------
\* Some worker past the ledger check will still report on key u and on the
\* amount delta it asked for under that key.
InCharge(w, u, delta) ==
    /\ calls[w].pc \in {"send", "wait", "lookup", "record", "fail"}
    /\ Up(calls[w]) = u
    /\ calls[w].req.delta = delta

Owned(u, delta) == \E w \in Workers : InCharge(w, u, delta)

BookedAs(u, delta) ==
    \E e \in ledger : e.status = "success" /\ UpKeyOf[e.key] = u /\ e.delta = delta

(***************************************************************************)
(* Safety: money never moves behind the back of the books.  If upstream has *)
(* moved an amount and no success row shows that amount, then a call that   *)
(* asked for it is still in charge, or some caller of the key has been told *)
(* of an error, or a crash interrupted one.                                 *)
(***************************************************************************)
NoSilentLoss ==
    \A u \in UpKeys : applied[u] # 0 =>
        BookedAs(u, applied[u]) \/ Owned(u, applied[u]) \/ u \in alarms

(***************************************************************************)
(* Safety: no request is still under way for a key whose call went through  *)
(* without anybody being warned, unless upstream has served the key already *)
(* and will only replay it, or it is booked with its amount before it moves *)
(* it: a late request cannot move money unseen.                             *)
(***************************************************************************)
LateRequestsAreKnown ==
    \A m \in net :
        applied[m.up] # 0 \/ BookedAs(m.up, m.delta) \/ Owned(m.up, m.delta) \/ m.up \in alarms
=============================================================================
