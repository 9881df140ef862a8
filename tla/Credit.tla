------------------------------- MODULE Credit -------------------------------
(***************************************************************************)
(* The payout service of internal/credit: Grant and Reclaim move a user's   *)
(* balance in the upstream Sub2API instance over HTTP and write the outcome *)
(* to the credit_ledger table of the sidecar's own SQLite database.  The two *)
(* stores share no transaction: what ties them together is an idempotency   *)
(* key on either side.                                                      *)
(*                                                                         *)
(* Any number of workers (HTTP handlers, scheduler goroutines) run calls at *)
(* the same time.  One database statement, one HTTP request and one HTTP    *)
(* reply is one step.  The database is opened with MaxOpenConns(1)          *)
(* (store.go:58), so statements never overlap.                              *)
(***************************************************************************)
EXTENDS Integers

CONSTANTS
    Workers,    \* goroutines that may be inside Grant or Reclaim
    Keys,       \* ledger idempotency keys
    UpKeys,     \* values of the upstream Idempotency-Key header
    UpKeyOf,    \* the header a request filed under a ledger key sends
    Requests,   \* the calls made: [key, delta]; delta < 0 is a Reclaim
    Mistakable  \* upstream keys some error of which reads like a hit ("409")

ASSUME CreditAssumption ==
    /\ UpKeyOf \in [Keys -> UpKeys]
    /\ Requests \subseteq [key : Keys, delta : Int]
    /\ Mistakable \subseteq UpKeys

VARIABLES
    ledger,     \* rows of credit_ledger
    applied,    \* upstream: the balance change made under each key, 0 if none
    net,        \* balance requests sent and neither served nor lost
    calls       \* per worker, the frame of its running call

vars == <<ledger, applied, net, calls>>

-----------------------------------------------------------------------------
Row == [key : Keys, delta : Int, status : {"success", "skipped", "failed"}]
Message == [up : UpKeys, delta : {r.delta : r \in Requests}]

Idle == [pc |-> "idle"]
Running == {"check", "zero", "send", "wait", "lookup", "record", "fail"}
Returned == {"ok", "skipped", "error"}
Frame == [pc : Running \cup Returned, req : Requests, try : 1..2, hit : BOOLEAN]

TypeOK ==
    /\ ledger \subseteq Row
    /\ applied \in [UpKeys -> Int]
    /\ net \subseteq Message
    /\ calls \in [Workers -> {Idle} \cup Frame]

Init ==
    /\ ledger = {}
    /\ applied = [u \in UpKeys |-> 0]
    /\ net = {}
    /\ calls = [w \in Workers |-> Idle]

\* HasLedgerIdem, and what the partial unique index enforces on INSERT.
Final(k) == \E e \in ledger : e.key = k /\ e.status \in {"success", "skipped"}

Up(f) == UpKeyOf[f.req.key]
Goto(w, pc) == calls' = [calls EXCEPT ![w].pc = pc]

\* Grant tries an addition twice; Reclaim subtracts once.
Attempts(f) == IF f.req.delta > 0 THEN 2 ELSE 1

-----------------------------------------------------------------------------
(***************************************************************************)
(* Entering and leaving a call.                                             *)
(***************************************************************************)
Call(w, r) ==
    /\ calls[w] = Idle
    /\ calls' = [calls EXCEPT ![w] = [pc |-> "check", req |-> r, try |-> 1, hit |-> FALSE]]

\* The caller has read the result: the frame is popped.
Return(w) ==
    /\ calls[w].pc \in Returned
    /\ calls' = [calls EXCEPT ![w] = Idle]

Start(w) ==
    /\ \E r \in Requests : Call(w, r)
    /\ UNCHANGED <<ledger, applied, net>>

Finish(w) ==
    /\ Return(w)
    /\ UNCHANGED <<ledger, applied, net>>

(***************************************************************************)
(* The database steps.  Every statement may also fail: the caller's context *)
(* is cancelled when its client goes away, and SQLite can report an error.  *)
(***************************************************************************)
CheckLedger(w) ==
    /\ calls[w].pc = "check"
    /\ LET r == calls[w].req
       IN Goto(w, IF Final(r.key) THEN "skipped"
                  ELSE IF r.delta = 0 THEN "zero" ELSE "send")
    /\ UNCHANGED <<ledger, applied, net>>

InsertSkipped(w) ==
    /\ calls[w].pc = "zero"
    /\ ~Final(calls[w].req.key)
    /\ ledger' = ledger \cup {[key |-> calls[w].req.key, delta |-> 0, status |-> "skipped"]}
    /\ Goto(w, "skipped")
    /\ UNCHANGED <<applied, net>>

InsertSuccess(w) ==
    /\ calls[w].pc = "record"
    /\ ~Final(calls[w].req.key)
    /\ ledger' = ledger \cup {[key    |-> calls[w].req.key,
                               delta  |-> calls[w].req.delta,
                               status |-> "success"]}
    /\ Goto(w, "ok")
    /\ UNCHANGED <<applied, net>>

InsertFailed(w) ==
    /\ calls[w].pc = "fail"
    /\ ledger' = ledger \cup {[key    |-> calls[w].req.key,
                               delta  |-> calls[w].req.delta,
                               status |-> "failed"]}
    /\ Goto(w, "error")
    /\ UNCHANGED <<applied, net>>

\* Mutant: the error of a ledger write is ignored, as it is for failure rows.
WriteErrorIgnored(w) ==
    /\ calls[w].pc \in {"check", "zero", "record", "fail"}
    /\ Goto(w, IF calls[w].pc = "record" THEN "ok" ELSE "error")
    /\ UNCHANGED <<ledger, applied, net>>

\* A statement that fails, the unique violation of a second final row included,
\* ends the call with an error; after "record" the money has already moved.
StatementFails(w) ==
    /\ calls[w].pc \in {"check", "zero", "record", "fail"}
    /\ Goto(w, "error")
    /\ UNCHANGED <<ledger, applied, net>>

(***************************************************************************)
(* The HTTP steps.                                                          *)
(***************************************************************************)
SendRequest(w) ==
    /\ calls[w].pc = "send"
    /\ net' = net \cup {[up |-> Up(calls[w]), delta |-> calls[w].req.delta]}
    /\ Goto(w, "wait")
    /\ UNCHANGED <<ledger, applied>>

\* A success reply, a replay, or a duplicate reply whose user lookup succeeds:
\* upstream has applied a request with this key.
ReplyOk(w) ==
    /\ calls[w].pc = "wait"
    /\ applied[Up(calls[w])] # 0
    /\ Goto(w, "record")
    /\ UNCHANGED <<ledger, applied, net>>

\* Mutant: the user lookup is the answer to every error, whatever its text says.
AnyErrorIsLookedUp(f, hit) ==
    IF f.try < Attempts(f) THEN [f EXCEPT !.pc = "send", !.try = f.try + 1, !.hit = hit]
    ELSE [f EXCEPT !.pc = "lookup", !.hit = hit]

\* What an unsuccessful attempt leads to: one more attempt, the lookup when an
\* error said the key was already used, or the failure row.
AfterError(f, hit) ==
    IF f.try < Attempts(f) THEN [f EXCEPT !.pc = "send", !.try = f.try + 1, !.hit = hit]
    ELSE IF hit /\ f.req.delta > 0 THEN [f EXCEPT !.pc = "lookup", !.hit = hit]
    ELSE [f EXCEPT !.pc = "fail", !.hit = hit]

\* Mutant: a client without a timeout waits for an answer.
NoTimeout(w) ==
    /\ calls[w].pc = "wait"
    /\ \A m \in net : m.up # Up(calls[w])
    /\ calls' = [calls EXCEPT ![w] = AfterError(calls[w], calls[w].hit)]
    /\ UNCHANGED <<ledger, applied, net>>

\* Timeout, broken connection or refusal: the request may still be on its way.
\* The text of the error holds none of the words that Grant takes for a hit.
ReplyError(w) ==
    /\ calls[w].pc = "wait"
    /\ calls' = [calls EXCEPT ![w] = AfterError(calls[w], calls[w].hit)]
    /\ UNCHANGED <<ledger, applied, net>>

\* The same, and the text reads like a hit: that of a broken connection holds
\* the URL, and the URL the number of the user (or it holds an address and port).
ReplyMisread(w) ==
    /\ calls[w].pc = "wait"
    /\ Up(calls[w]) \in Mistakable
    /\ calls' = [calls EXCEPT ![w] = AfterError(calls[w], TRUE)]
    /\ UNCHANGED <<ledger, applied, net>>

\* "Already used" from upstream, with the client's own user lookup failing.
ReplyDuplicate(w) ==
    /\ calls[w].pc = "wait"
    /\ applied[Up(calls[w])] # 0
    /\ calls' = [calls EXCEPT ![w] = AfterError(calls[w], TRUE)]
    /\ UNCHANGED <<ledger, applied, net>>

LookupUser(w) ==
    /\ calls[w].pc = "lookup"
    /\ \E pc \in {"record", "fail"} : Goto(w, pc)
    /\ UNCHANGED <<ledger, applied, net>>

(***************************************************************************)
(* Upstream and the network: external, as the client relies on them.  A key *)
(* takes effect at most once; a request with a used key is answered and     *)
(* changes nothing.  Lost stands for a dropped and for a refused request.   *)
(***************************************************************************)
Apply(m) ==
    /\ m \in net
    /\ net' = net \ {m}
    /\ applied' = IF applied[m.up] = 0 THEN [applied EXCEPT ![m.up] = m.delta] ELSE applied
    /\ UNCHANGED <<ledger, calls>>

Lose(m) ==
    /\ m \in net
    /\ net' = net \ {m}
    /\ UNCHANGED <<ledger, applied, calls>>

\* The process dies and restarts: frames are gone, the rest survives.
Crash ==
    /\ \E w \in Workers : calls[w] # Idle
    /\ calls' = [w \in Workers |-> Idle]
    /\ UNCHANGED <<ledger, applied, net>>

-----------------------------------------------------------------------------
WorkerStep(w) ==
    \/ CheckLedger(w)
    \/ InsertSkipped(w)
    \/ InsertSuccess(w)
    \/ InsertFailed(w)
    \/ StatementFails(w)
    \/ SendRequest(w)
    \/ ReplyOk(w)
    \/ ReplyError(w)
    \/ ReplyMisread(w)
    \/ ReplyDuplicate(w)
    \/ LookupUser(w)

Upstream == \E m \in net : Apply(m) \/ Lose(m)

Next ==
    \/ \E w \in Workers : Start(w) \/ WorkerStep(w) \/ Finish(w)
    \/ Upstream
    \/ Crash

Spec == Init /\ [][Next]_vars

\* A goroutine inside a call keeps running, and the HTTP client's timeout ends
\* every wait.  Nothing is assumed of upstream, and nobody has to call.
Fairness == \A w \in Workers : WF_vars(WorkerStep(w))

FairSpec == Spec /\ Fairness

-----------------------------------------------------------------------------
\* An addition that the text of an error may pass off as made.
Mistaken(r) == r.delta > 0 /\ UpKeyOf[r.key] \in Mistakable

(***************************************************************************)
(* Safety: a success row is written only for money upstream has moved, even *)
(* when the reply was lost, a retry ran, or the success was inferred from   *)
(* what upstream answered; additions with an error that reads like a hit    *)
(* are left out, for them Grant may book what was never paid.               *)
(***************************************************************************)
SuccessBacked ==
    \A e \in ledger : e.status = "success" => applied[UpKeyOf[e.key]] # 0 \/ Mistaken(e)

(***************************************************************************)
(* Safety: a caller that is told "ok" can rely on both stores: upstream has *)
(* moved money under the key and the ledger has a final row, whatever other *)
(* callers of the same key did in between.  Of a mistakable addition only   *)
(* the row is certain.                                                      *)
(***************************************************************************)
OkIsBooked ==
    \A w \in Workers : calls[w].pc = "ok" =>
        /\ applied[Up(calls[w])] # 0 \/ Mistaken(calls[w].req)
        /\ Final(calls[w].req.key)

(***************************************************************************)
(* Safety: the unique index and the check in front of it leave at most one  *)
(* final row per key, so a key is never booked twice.                       *)
(***************************************************************************)
OneFinalRow ==
    \A e1, e2 \in ledger :
        /\ e1.key = e2.key
        /\ e1.status # "failed"
        /\ e2.status # "failed"
        => e1 = e2

(***************************************************************************)
(* The inductive strengthening of the three: only requests that move money  *)
(* are sent, and a worker that will record a success, or has seen an        *)
(* "already used" reply, knows that upstream has applied its key, unless it *)
(* may have misread an error.                                               *)
(***************************************************************************)
SendsMoney ==
    /\ \A m \in net : m.delta # 0
    /\ \A w \in Workers : calls[w].pc \in {"send", "wait"} => calls[w].req.delta # 0

KnowsApplied(f) ==
    \/ f.pc \in {"lookup", "record", "ok"}
    \/ f.pc # "idle" /\ f.hit /\ f.req.delta > 0

KnowledgeIsTrue ==
    \A w \in Workers : KnowsApplied(calls[w]) =>
        applied[Up(calls[w])] # 0 \/ Mistaken(calls[w].req)

CreditInv ==
    /\ TypeOK
    /\ SendsMoney
    /\ KnowledgeIsTrue
    /\ SuccessBacked
    /\ OkIsBooked
    /\ OneFinalRow

(***************************************************************************)
(* Liveness: a call that has begun comes to an end (by returning, or with   *)
(* the process), whatever upstream does: no reply at all included.          *)
(***************************************************************************)
CallsEnd == \A w \in Workers : calls[w].pc \in Running ~> calls[w].pc \notin Running

-----------------------------------------------------------------------------
(***************************************************************************)
(* Refinement: behind all its retries, lost replies, late applications and  *)
(* crashes the service is PayOnce, with the success rows of the ledger as   *)
(* the booked keys.                                                         *)
(***************************************************************************)
Booked == {e.key : e \in {x \in ledger : x.status = "success"}}

Abstract == INSTANCE PayOnce WITH
    paid <- applied, booked <- Booked, Deltas <- {r.delta : r \in Requests} \ {0}

ImplementsPayOnce == Abstract!Spec

(***************************************************************************)
(* Refinement: a caller need not know about replies and retries.  To it the *)
(* service is Payout: a running call ends ok, skipped or with an error, and *)
(* the ledger's failure rows are nobody's business.                         *)
(***************************************************************************)
FinalRows == {[key |-> e.key, delta |-> e.delta] : e \in {x \in ledger : x.status # "failed"}}

Seen(f) ==
    IF f.pc = "idle" THEN Idle
    ELSE [pc |-> IF f.pc \in Running THEN "running" ELSE f.pc, req |-> f.req]

Service == INSTANCE Payout WITH
    final <- FinalRows, sent <- net, calls <- [w \in Workers |-> Seen(calls[w])]

ImplementsPayout == Service!Spec
=============================================================================
