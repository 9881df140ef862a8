---------------------------- MODULE Credit_proofs ---------------------------
(***************************************************************************)
(* Theorems about the payout service, for any number of workers, keys and   *)
(* requests: its ledger tells the truth wherever Grant cannot mistake an    *)
(* error for a hit, it implements PayOnce and, to its callers, Payout; and  *)
(* money never moves behind the back of the books.                          *)
(***************************************************************************)
EXTENDS CreditAudit, TLAPS

(***************************************************************************)
(* A worker that is not idle has a frame.                                   *)
(***************************************************************************)
LEMMA FrameOfCall ==
    ASSUME TypeOK, NEW w \in Workers, calls[w].pc # "idle"
    PROVE  /\ calls[w] \in Frame
           /\ calls[w].req \in Requests
           /\ calls[w].req.key \in Keys
           /\ calls[w].req.delta \in Int
           /\ Up(calls[w]) \in UpKeys
  <1>1. calls[w] \in {Idle} \cup Frame
    BY DEF TypeOK
  <1>2. calls[w] \in Frame
    BY <1>1 DEF Idle
  <1>3. calls[w].req \in [key : Keys, delta : Int]
    BY <1>2, CreditAssumption DEF Frame
  <1>4. QED
    BY <1>2, <1>3, CreditAssumption DEF Frame, Up

(***************************************************************************)
(* What Goto does to a frame: only the program counter moves.               *)
(***************************************************************************)
LEMMA GotoFrame ==
    ASSUME TypeOK, NEW w \in Workers, calls[w].pc # "idle",
           NEW pc \in Running \cup Returned, Goto(w, pc)
    PROVE  /\ calls' \in [Workers -> {Idle} \cup Frame]
           /\ calls'[w] = [calls[w] EXCEPT !.pc = pc]
           /\ calls'[w].pc = pc
           /\ calls'[w].req = calls[w].req
           /\ calls'[w].hit = calls[w].hit
           /\ \A v \in Workers \ {w} : calls'[v] = calls[v]
  <1>1. calls[w] \in Frame
    BY FrameOfCall
  <1>2. [calls[w] EXCEPT !.pc = pc] \in Frame
    BY <1>1 DEF Frame
  <1>3. QED
    BY <1>1, <1>2 DEF Goto, TypeOK, Frame

(***************************************************************************)
(* What an unsuccessful attempt makes of a frame.                           *)
(***************************************************************************)
LEMMA AfterErrorFrame ==
    ASSUME TypeOK, NEW w \in Workers, calls[w].pc # "idle",
           NEW hit \in BOOLEAN
    PROVE  LET f == AfterError(calls[w], hit)
           IN /\ f \in Frame
              /\ f.pc \in {"send", "lookup", "fail"}
              /\ f.pc = "lookup" => hit /\ calls[w].req.delta > 0
              /\ f.hit = hit
              /\ f.req = calls[w].req
  <1>1. /\ calls[w] \in Frame
        /\ calls[w].req.delta \in Int
    BY FrameOfCall
  <1>2. calls[w].try < Attempts(calls[w]) => calls[w].try + 1 \in 1..2
    BY <1>1 DEF Frame, Attempts
  <1>3. QED
    BY <1>1, <1>2 DEF Frame, AfterError, Running, Returned

(***************************************************************************)
(* Every step keeps the types.                                              *)
(***************************************************************************)
LEMMA TypeStep == TypeOK /\ [Next]_vars => TypeOK'
  <1> SUFFICES ASSUME TypeOK, [Next]_vars
               PROVE  TypeOK'
    OBVIOUS
  <1>1. ASSUME NEW w \in Workers, Start(w)
        PROVE  TypeOK'
    <2>1. PICK r \in Requests : Call(w, r)
      BY <1>1 DEF Start
    <2>2. [pc |-> "check", req |-> r, try |-> 1, hit |-> FALSE] \in Frame
      BY DEF Frame, Running
    <2>3. QED
      BY <1>1, <2>1, <2>2 DEF Start, Call, TypeOK
  <1>2. ASSUME NEW w \in Workers, CheckLedger(w)
        PROVE  TypeOK'
    <2>1. PICK pc \in Running \cup Returned : Goto(w, pc)
      BY <1>2 DEF CheckLedger, Running, Returned
    <2>2. QED
      BY <1>2, <2>1, GotoFrame DEF CheckLedger, TypeOK
  <1>3. ASSUME NEW w \in Workers, InsertSkipped(w)
        PROVE  TypeOK'
    <2>1. calls[w].req.key \in Keys
      BY <1>3, FrameOfCall DEF InsertSkipped
    <2>2. calls' \in [Workers -> {Idle} \cup Frame]
      BY <1>3, GotoFrame DEF InsertSkipped, Returned
    <2>3. QED
      BY <1>3, <2>1, <2>2 DEF InsertSkipped, TypeOK, Row
  <1>4. ASSUME NEW w \in Workers, InsertSuccess(w)
        PROVE  TypeOK'
    <2>1. calls[w].req.key \in Keys /\ calls[w].req.delta \in Int
      BY <1>4, FrameOfCall DEF InsertSuccess
    <2>2. calls' \in [Workers -> {Idle} \cup Frame]
      BY <1>4, GotoFrame DEF InsertSuccess, Returned
    <2>3. QED
      BY <1>4, <2>1, <2>2 DEF InsertSuccess, TypeOK, Row
  <1>5. ASSUME NEW w \in Workers, InsertFailed(w)
        PROVE  TypeOK'
    <2>1. calls[w].req.key \in Keys /\ calls[w].req.delta \in Int
      BY <1>5, FrameOfCall DEF InsertFailed
    <2>2. calls' \in [Workers -> {Idle} \cup Frame]
      BY <1>5, GotoFrame DEF InsertFailed, Returned
    <2>3. QED
      BY <1>5, <2>1, <2>2 DEF InsertFailed, TypeOK, Row
  <1>6. ASSUME NEW w \in Workers, StatementFails(w)
        PROVE  TypeOK'
    BY <1>6, GotoFrame DEF StatementFails, TypeOK, Returned
  <1>7. ASSUME NEW w \in Workers, SendRequest(w)
        PROVE  TypeOK'
    <2>1. Up(calls[w]) \in UpKeys /\ calls[w].req \in Requests
      BY <1>7, FrameOfCall DEF SendRequest
    <2>2. calls' \in [Workers -> {Idle} \cup Frame]
      BY <1>7, GotoFrame DEF SendRequest, Running
    <2>3. QED
      BY <1>7, <2>1, <2>2 DEF SendRequest, TypeOK, Message
  <1>8. ASSUME NEW w \in Workers, ReplyOk(w)
        PROVE  TypeOK'
    BY <1>8, GotoFrame DEF ReplyOk, TypeOK, Running
  <1>9. ASSUME NEW w \in Workers, ReplyError(w) \/ ReplyMisread(w) \/ ReplyDuplicate(w)
        PROVE  TypeOK'
    <2>1. calls[w].pc # "idle" /\ calls[w].hit \in BOOLEAN
      BY <1>9, FrameOfCall DEF ReplyError, ReplyMisread, ReplyDuplicate, Frame
    <2>2. PICK hit \in BOOLEAN : calls' = [calls EXCEPT ![w] = AfterError(calls[w], hit)]
      BY <1>9, <2>1 DEF ReplyError, ReplyMisread, ReplyDuplicate
    <2>3. AfterError(calls[w], hit) \in Frame
      BY <2>1, AfterErrorFrame
    <2>4. QED
      BY <1>9, <2>2, <2>3 DEF ReplyError, ReplyMisread, ReplyDuplicate, TypeOK
  <1>10. ASSUME NEW w \in Workers, LookupUser(w)
         PROVE  TypeOK'
    BY <1>10, GotoFrame DEF LookupUser, TypeOK, Running
  <1>11. ASSUME NEW w \in Workers, Finish(w)
         PROVE  TypeOK'
    BY <1>11 DEF Finish, Return, TypeOK
  <1>12. CASE Upstream
    BY <1>12, CreditAssumption DEF Upstream, Apply, Lose, TypeOK, Message
  <1>13. CASE Crash
    BY <1>13 DEF Crash, TypeOK
  <1>14. CASE UNCHANGED vars
    BY <1>14 DEF vars, TypeOK
  <1>15. QED
    BY <1>1, <1>2, <1>3, <1>4, <1>5, <1>6, <1>7, <1>8, <1>9, <1>10,
       <1>11, <1>12, <1>13, <1>14 DEF Next, WorkerStep

(***************************************************************************)
(* The state of Credit always has the declared types: the frames, rows and  *)
(* messages of internal/credit are well formed in every reachable state.    *)
(***************************************************************************)
THEOREM TypeCorrect == Spec => []TypeOK
  <1>1. Init => TypeOK
    BY DEF Init, TypeOK
  <1>2. QED
    BY <1>1, TypeStep, PTL DEF Spec

-----------------------------------------------------------------------------
(***************************************************************************)
(* Upstream never takes back what it applied under a key.                   *)
(***************************************************************************)
LEMMA AppliedStays ==
    ASSUME TypeOK, [Next]_vars, NEW u \in UpKeys, applied[u] # 0
    PROVE  applied'[u] = applied[u]
  <1>1. CASE Upstream
    <2>1. ASSUME NEW m \in net, Apply(m)
          PROVE  applied'[u] = applied[u]
      BY <2>1 DEF Apply, TypeOK
    <2>2. ASSUME NEW m \in net, Lose(m)
          PROVE  applied'[u] = applied[u]
      BY <2>2 DEF Lose
    <2>3. QED
      BY <1>1, <2>1, <2>2 DEF Upstream
  <1>2. CASE ~Upstream
    BY <1>2 DEF Next, vars, WorkerStep, Start, Finish, Crash, CheckLedger, InsertSkipped,
       InsertSuccess, InsertFailed, StatementFails, SendRequest, ReplyOk, ReplyError, ReplyMisread,
       ReplyDuplicate, LookupUser
  <1>3. QED
    BY <1>1, <1>2

(***************************************************************************)
(* The ledger only grows.                                                   *)
(***************************************************************************)
LEMMA LedgerGrows == [Next]_vars => ledger \subseteq ledger'
  BY DEF Next, vars, WorkerStep, Start, Finish, Crash, Upstream, Apply, Lose, CheckLedger,
     InsertSkipped, InsertSuccess, InsertFailed, StatementFails, SendRequest, ReplyOk,
     ReplyError, ReplyMisread, ReplyDuplicate, LookupUser

-----------------------------------------------------------------------------
(***************************************************************************)
(* The parts of CreditInv about frames survive a step that changes one      *)
(* frame to one that satisfies them, or to Idle, and takes nothing away.    *)
(***************************************************************************)
FrameOK(f) ==
    /\ f.pc \in {"send", "wait"} => f.req.delta # 0
    /\ KnowsApplied(f) => applied[Up(f)] # 0 \/ Mistaken(f.req)
    /\ f.pc = "ok" => (applied[Up(f)] # 0 \/ Mistaken(f.req)) /\ Final(f.req.key)

FramesOK == \A w \in Workers : FrameOK(calls[w])

InvParts ==
    /\ TypeOK
    /\ FramesOK
    /\ \A m \in net : m.delta # 0
    /\ SuccessBacked
    /\ OneFinalRow

(***************************************************************************)
(* The inductive invariant, in this state and in the next, as one statement *)
(* about every frame and one about the rows.                                *)
(***************************************************************************)
LEMMA InvAsFrames == (CreditInv <=> InvParts) /\ (CreditInv' <=> InvParts')
  <1>1. CreditInv <=> InvParts
    BY DEF CreditInv, InvParts, FramesOK, FrameOK, SendsMoney, KnowledgeIsTrue, OkIsBooked, Mistaken
  <1>2. CreditInv' <=> InvParts'
    BY DEF CreditInv, InvParts, FramesOK, FrameOK, SendsMoney, KnowledgeIsTrue, OkIsBooked, Mistaken
  <1>3. QED
    BY <1>1, <1>2

(***************************************************************************)
(* A step that changes one frame, and only adds rows and applied keys,      *)
(* keeps what the invariant says of all the other frames.                   *)
(***************************************************************************)
LEMMA FramesKept ==
    ASSUME TypeOK, TypeOK', FramesOK, [Next]_vars, NEW w \in Workers,
           \A v \in Workers \ {w} : calls'[v] = calls[v],
           FrameOK(calls[w])'
    PROVE  FramesOK'
  <1> SUFFICES ASSUME NEW v \in Workers \ {w}
               PROVE  FrameOK(calls[v])'
    BY DEF FramesOK
  <1>1. FrameOK(calls[v]) /\ calls'[v] = calls[v]
    BY DEF FramesOK
  <1>2. CASE calls[v].pc = "idle"
    BY <1>1, <1>2 DEF FrameOK, KnowsApplied, Mistaken
  <1>3. CASE calls[v].pc # "idle"
    <2>1. Up(calls[v]) \in UpKeys
      BY <1>3, FrameOfCall
    <2>2. applied[Up(calls[v])] # 0 => applied'[Up(calls[v])] # 0
      BY <2>1, AppliedStays
    <2>3. Final(calls[v].req.key) => Final(calls[v].req.key)'
      BY <1>1, LedgerGrows DEF Final
    <2>4. QED
      BY <1>1, <2>2, <2>3 DEF FrameOK, KnowsApplied, Mistaken, Up
  <1>4. QED
    BY <1>2, <1>3

(***************************************************************************)
(* The part about rows survives a step that writes no final row.            *)
(***************************************************************************)
LEMMA RowsKept ==
    ASSUME TypeOK, SuccessBacked, OneFinalRow, [Next]_vars,
           \A e \in ledger' : e \in ledger \/ e.status = "failed"
    PROVE  SuccessBacked' /\ OneFinalRow'
  <1>1. ASSUME NEW e \in ledger', e.status = "success"
        PROVE  applied'[UpKeyOf[e.key]] # 0 \/ Mistaken(e)
    <2>1. e \in ledger /\ UpKeyOf[e.key] \in UpKeys
      BY <1>1, CreditAssumption DEF TypeOK, Row
    <2>2. QED
      BY <1>1, <2>1, AppliedStays DEF SuccessBacked, Mistaken
  <1>2. OneFinalRow'
    BY DEF OneFinalRow
  <1>3. QED
    BY <1>1, <1>2 DEF SuccessBacked, Mistaken

(***************************************************************************)
(* Every step keeps the inductive invariant.                                *)
(***************************************************************************)
LEMMA InvStep == CreditInv /\ [Next]_vars => CreditInv'
  <1> SUFFICES ASSUME InvParts, [Next]_vars
               PROVE  InvParts'
    BY InvAsFrames
  <1>inv. /\ TypeOK /\ TypeOK' /\ FramesOK /\ SuccessBacked /\ OneFinalRow
          /\ \A m \in net : m.delta # 0
    BY TypeStep DEF InvParts
  \* A step that only rewrites the frame of w.
  <1>a. ASSUME NEW w \in Workers, UNCHANGED <<ledger, applied, net>>,
               \A v \in Workers \ {w} : calls'[v] = calls[v], FrameOK(calls[w])'
        PROVE  InvParts'
    BY <1>inv, <1>a, FramesKept, RowsKept DEF InvParts
  <1>1. ASSUME NEW w \in Workers, Start(w)
        PROVE  InvParts'
    <2>1. PICK r \in Requests : Call(w, r)
      BY <1>1 DEF Start
    <2>2. /\ calls'[w].pc = "check" /\ ~calls'[w].hit
          /\ \A v \in Workers \ {w} : calls'[v] = calls[v]
      BY <2>1, <1>inv DEF Call, TypeOK
    <2>3. FrameOK(calls[w])'
      BY <2>2 DEF FrameOK, KnowsApplied, Mistaken
    <2>4. QED
      BY <1>1, <1>a, <2>2, <2>3 DEF Start
  <1>2. ASSUME NEW w \in Workers, CheckLedger(w)
        PROVE  InvParts'
    <2>1. PICK pc \in {"skipped", "zero", "send"} :
              Goto(w, pc) /\ (pc = "send" => calls[w].req.delta # 0)
      BY <1>2 DEF CheckLedger
    <2>2. /\ calls'[w].pc = pc /\ calls'[w].req = calls[w].req /\ calls'[w].hit = calls[w].hit
          /\ \A v \in Workers \ {w} : calls'[v] = calls[v]
      BY <1>2, <2>1, <1>inv, GotoFrame DEF CheckLedger, Running, Returned
    <2>3. FrameOK(calls[w])
      BY <1>inv DEF FramesOK
    <2>4. FrameOK(calls[w])'
      BY <1>2, <2>1, <2>2, <2>3 DEF CheckLedger, FrameOK, KnowsApplied, Mistaken, Up
    <2>5. QED
      BY <1>2, <1>a, <2>2, <2>4 DEF CheckLedger
  <1>3. ASSUME NEW w \in Workers, InsertSkipped(w)
        PROVE  InvParts'
    <2>1. /\ calls'[w].pc = "skipped" /\ calls'[w].req = calls[w].req
          /\ calls'[w].hit = calls[w].hit
          /\ \A v \in Workers \ {w} : calls'[v] = calls[v]
      BY <1>3, <1>inv, GotoFrame DEF InsertSkipped, Returned
    <2>2. FrameOK(calls[w])'
      BY <1>3, <1>inv, <2>1 DEF InsertSkipped, FramesOK, FrameOK, KnowsApplied, Mistaken, Up
    <2>3. FramesOK'
      BY <1>inv, <2>1, <2>2, FramesKept
    <2>4. SuccessBacked' /\ OneFinalRow'
      BY <1>3, <1>inv DEF InsertSkipped, SuccessBacked, Mistaken, OneFinalRow, Final, TypeOK, Row
    <2>5. QED
      BY <1>3, <1>inv, <2>3, <2>4 DEF InsertSkipped, InvParts
  <1>4. ASSUME NEW w \in Workers, InsertSuccess(w)
        PROVE  InvParts'
    <2>1. /\ calls'[w].pc = "ok" /\ calls'[w].req = calls[w].req
          /\ \A v \in Workers \ {w} : calls'[v] = calls[v]
      BY <1>4, <1>inv, GotoFrame DEF InsertSuccess, Returned
    <2>2. applied[Up(calls[w])] # 0 \/ Mistaken(calls[w].req)
      BY <1>4, <1>inv DEF InsertSuccess, FramesOK, FrameOK, KnowsApplied, Mistaken
    <2>3. Final(calls[w].req.key)'
      <3> DEFINE row == [key    |-> calls[w].req.key,
                         delta  |-> calls[w].req.delta,
                         status |-> "success"]
      <3>1. row \in ledger' /\ row.key = calls'[w].req.key /\ row.status = "success"
        BY <1>4, <2>1 DEF InsertSuccess
      <3>2. QED
        BY <3>1 DEF Final
    <2>4. FrameOK(calls[w])'
      BY <1>4, <2>1, <2>2, <2>3 DEF InsertSuccess, FrameOK, KnowsApplied, Mistaken, Up, Final
    <2>5. FramesOK'
      BY <1>inv, <2>1, <2>4, FramesKept
    <2>6. SuccessBacked' /\ OneFinalRow'
      BY <1>4, <1>inv, <2>2
         DEF InsertSuccess, SuccessBacked, Mistaken, OneFinalRow, Final, TypeOK, Row, Up
    <2>7. QED
      BY <1>4, <1>inv, <2>5, <2>6 DEF InsertSuccess, InvParts
  <1>5. ASSUME NEW w \in Workers, InsertFailed(w)
        PROVE  InvParts'
    <2>1. /\ calls'[w].pc = "error" /\ calls'[w].req = calls[w].req
          /\ calls'[w].hit = calls[w].hit
          /\ \A v \in Workers \ {w} : calls'[v] = calls[v]
      BY <1>5, <1>inv, GotoFrame DEF InsertFailed, Returned
    <2>2. FrameOK(calls[w])'
      BY <1>5, <1>inv, <2>1 DEF InsertFailed, FramesOK, FrameOK, KnowsApplied, Mistaken, Up
    <2>3. FramesOK'
      BY <1>inv, <2>1, <2>2, FramesKept
    <2>4. SuccessBacked' /\ OneFinalRow'
      BY <1>5, <1>inv, RowsKept DEF InsertFailed
    <2>5. QED
      BY <1>5, <1>inv, <2>3, <2>4 DEF InsertFailed, InvParts
  <1>6. ASSUME NEW w \in Workers, StatementFails(w)
        PROVE  InvParts'
    <2>1. /\ calls'[w].pc = "error" /\ calls'[w].req = calls[w].req
          /\ calls'[w].hit = calls[w].hit
          /\ \A v \in Workers \ {w} : calls'[v] = calls[v]
      BY <1>6, <1>inv, GotoFrame DEF StatementFails, Returned
    <2>2. FrameOK(calls[w])'
      BY <1>6, <1>inv, <2>1 DEF StatementFails, FramesOK, FrameOK, KnowsApplied, Mistaken, Up
    <2>3. QED
      BY <1>6, <1>a, <2>1, <2>2 DEF StatementFails
  <1>7. ASSUME NEW w \in Workers, SendRequest(w)
        PROVE  InvParts'
    <2>1. /\ calls'[w].pc = "wait" /\ calls'[w].req = calls[w].req
          /\ calls'[w].hit = calls[w].hit
          /\ \A v \in Workers \ {w} : calls'[v] = calls[v]
      BY <1>7, <1>inv, GotoFrame DEF SendRequest, Running
    <2>2. calls[w].req.delta # 0
      BY <1>7, <1>inv DEF SendRequest, FramesOK, FrameOK, Mistaken
    <2>3. FrameOK(calls[w])'
      BY <1>7, <1>inv, <2>1, <2>2 DEF SendRequest, FramesOK, FrameOK, KnowsApplied, Mistaken, Up
    <2>4. FramesOK'
      BY <1>inv, <2>1, <2>3, FramesKept
    <2>5. SuccessBacked' /\ OneFinalRow'
      BY <1>7, <1>inv, RowsKept DEF SendRequest
    <2>6. \A m \in net' : m.delta # 0
      BY <1>7, <1>inv, <2>2 DEF SendRequest
    <2>7. QED
      BY <1>inv, <2>4, <2>5, <2>6 DEF InvParts
  <1>8. ASSUME NEW w \in Workers, ReplyOk(w)
        PROVE  InvParts'
    <2>1. /\ calls'[w].pc = "record" /\ calls'[w].req = calls[w].req
          /\ \A v \in Workers \ {w} : calls'[v] = calls[v]
      BY <1>8, <1>inv, GotoFrame DEF ReplyOk, Running
    <2>2. FrameOK(calls[w])'
      BY <1>8, <2>1 DEF ReplyOk, FrameOK, Mistaken, Up
    <2>3. QED
      BY <1>8, <1>a, <2>1, <2>2 DEF ReplyOk
  <1>9. ASSUME NEW w \in Workers, ReplyError(w) \/ ReplyMisread(w) \/ ReplyDuplicate(w)
        PROVE  InvParts'
    <2>1. calls[w].pc = "wait" /\ UNCHANGED <<ledger, applied, net>>
      BY <1>9 DEF ReplyError, ReplyMisread, ReplyDuplicate
    <2>2. /\ calls[w].req.delta # 0
          /\ calls[w].hit /\ calls[w].req.delta > 0 =>
                applied[Up(calls[w])] # 0 \/ Mistaken(calls[w].req)
      BY <1>inv, <2>1 DEF FramesOK, FrameOK, KnowsApplied, Mistaken
    <2>3. calls[w].hit \in BOOLEAN
      BY <1>inv, <2>1, FrameOfCall DEF Frame
    <2>4. PICK hit \in BOOLEAN :
              /\ calls' = [calls EXCEPT ![w] = AfterError(calls[w], hit)]
              /\ hit /\ calls[w].req.delta > 0 =>
                    applied[Up(calls[w])] # 0 \/ Mistaken(calls[w].req)
      BY <1>9, <2>2, <2>3 DEF ReplyError, ReplyMisread, ReplyDuplicate, Mistaken, Up
    <2>5. LET f == AfterError(calls[w], hit)
          IN /\ f.pc \in {"send", "lookup", "fail"} /\ (f.pc = "lookup" => hit /\ calls[w].req.delta > 0)
             /\ f.hit = hit /\ f.req = calls[w].req
      BY <1>inv, <2>1, AfterErrorFrame
    <2>6. /\ calls'[w] = AfterError(calls[w], hit)
          /\ \A v \in Workers \ {w} : calls'[v] = calls[v]
      BY <1>inv, <2>4 DEF TypeOK
    <2>7. FrameOK(calls[w])'
      BY <2>1, <2>2, <2>4, <2>5, <2>6 DEF FrameOK, KnowsApplied, Mistaken, Up
    <2>8. QED
      BY <1>a, <2>1, <2>6, <2>7
  <1>10. ASSUME NEW w \in Workers, LookupUser(w)
         PROVE  InvParts'
    <2>1. PICK pc \in {"record", "fail"} : Goto(w, pc)
      BY <1>10 DEF LookupUser
    <2>2. /\ calls'[w].pc = pc /\ calls'[w].req = calls[w].req /\ calls'[w].hit = calls[w].hit
          /\ \A v \in Workers \ {w} : calls'[v] = calls[v]
      BY <1>10, <2>1, <1>inv, GotoFrame DEF LookupUser, Running
    <2>3. FrameOK(calls[w])'
      BY <1>10, <1>inv, <2>2 DEF LookupUser, FramesOK, FrameOK, KnowsApplied, Mistaken, Up
    <2>4. QED
      BY <1>10, <1>a, <2>2, <2>3 DEF LookupUser
  <1>11. ASSUME NEW w \in Workers, Finish(w)
         PROVE  InvParts'
    <2>1. /\ calls'[w] = Idle
          /\ \A v \in Workers \ {w} : calls'[v] = calls[v]
      BY <1>11, <1>inv DEF Finish, Return, TypeOK
    <2>2. FrameOK(calls[w])'
      BY <2>1 DEF FrameOK, KnowsApplied, Mistaken, Idle
    <2>3. QED
      BY <1>11, <1>a, <2>1, <2>2 DEF Finish
  <1>12. CASE Upstream
    <2>1. UNCHANGED <<ledger, calls>> /\ net' \subseteq net
      BY <1>12 DEF Upstream, Apply, Lose
    <2>2. SuccessBacked' /\ OneFinalRow'
      BY <1>inv, <2>1, RowsKept
    <2>3. ASSUME NEW w \in Workers
          PROVE  FrameOK(calls[w])'
      <3>1. CASE calls[w].pc = "idle"
        BY <2>1, <3>1 DEF FrameOK, KnowsApplied, Mistaken
      <3>2. CASE calls[w].pc # "idle"
        <4>1. Up(calls[w]) \in UpKeys
          BY <1>inv, <3>2, FrameOfCall
        <4>2. applied[Up(calls[w])] # 0 => applied'[Up(calls[w])] # 0
          BY <1>inv, <4>1, AppliedStays
        <4>3. QED
          BY <1>inv, <2>1, <4>2 DEF FramesOK, FrameOK, KnowsApplied, Mistaken, Up, Final
      <3>3. QED
        BY <3>1, <3>2
    <2>4. QED
      BY <1>inv, <2>1, <2>2, <2>3 DEF FramesOK, InvParts
  <1>13. CASE Crash
    <2>1. FramesOK'
      BY <1>13 DEF Crash, FramesOK, FrameOK, KnowsApplied, Mistaken, Idle
    <2>2. SuccessBacked' /\ OneFinalRow'
      BY <1>13, <1>inv, RowsKept DEF Crash
    <2>3. QED
      BY <1>13, <1>inv, <2>1, <2>2 DEF Crash, InvParts
  <1>14. CASE UNCHANGED vars
    BY <1>14, <1>inv DEF vars, InvParts, FramesOK, FrameOK, KnowsApplied, Up, Final,
       SuccessBacked, Mistaken, OneFinalRow
  <1>15. QED
    BY <1>1, <1>2, <1>3, <1>4, <1>5, <1>6, <1>7, <1>8, <1>9, <1>10, <1>11, <1>12,
       <1>13, <1>14 DEF Next, WorkerStep

(***************************************************************************)
(* The inductive invariant holds in every reachable state.                  *)
(***************************************************************************)
THEOREM CreditInvariant == Spec => []CreditInv
  <1>1. Init => CreditInv
    BY DEF Init, CreditInv, TypeOK, SendsMoney, KnowledgeIsTrue, KnowsApplied,
       SuccessBacked, OkIsBooked, Mistaken, OneFinalRow, Idle
  <1>2. QED
    BY <1>1, InvStep, PTL DEF Spec

(***************************************************************************)
(* A success row of the ledger stands for money upstream has moved, but for *)
(* additions whose failure may read like an idempotency hit (credit.go      *)
(* looks for 409 and the like in texts that hold the user's number).        *)
(***************************************************************************)
THEOREM SuccessRowsAreBacked == Spec => []SuccessBacked
  <1>1. CreditInv => SuccessBacked
    BY DEF CreditInv
  <1>2. QED
    BY <1>1, CreditInvariant, PTL

(***************************************************************************)
(* A caller told "ok" finds the credit in the ledger and, unless a failure  *)
(* could be misread for it, upstream.                                       *)
(***************************************************************************)
THEOREM OkCallersAreBooked == Spec => []OkIsBooked
  <1>1. CreditInv => OkIsBooked
    BY DEF CreditInv
  <1>2. QED
    BY <1>1, CreditInvariant, PTL

(***************************************************************************)
(* No key ever has two final rows.                                          *)
(***************************************************************************)
THEOREM KeysAreBookedOnce == Spec => []OneFinalRow
  <1>1. CreditInv => OneFinalRow
    BY DEF CreditInv
  <1>2. QED
    BY <1>1, CreditInvariant, PTL

-----------------------------------------------------------------------------
(***************************************************************************)
(* Refinement.  A success row books its key; the first application of a key *)
(* pays it; every other step of the service is invisible to PayOnce.        *)
(***************************************************************************)
(***************************************************************************)
(* A step that writes no success row books nothing.                         *)
(***************************************************************************)
LEMMA BookedKept ==
    ASSUME ledger \subseteq ledger',
           \A e \in ledger' : e \in ledger \/ e.status # "success"
    PROVE  Booked' = Booked
  BY DEF Booked

(***************************************************************************)
(* Every step of the service is a Pay, a Book or a stutter of PayOnce.      *)
(***************************************************************************)
LEMMA StepRefines == CreditInv /\ [Next]_vars => [Abstract!Next]_(Abstract!vars)
  <1> SUFFICES ASSUME CreditInv, [Next]_vars
               PROVE  Abstract!Next \/ UNCHANGED <<applied, Booked>>
    BY DEF Abstract!vars
  <1>inv. TypeOK /\ InvParts
    BY InvAsFrames DEF CreditInv
  <1>1. ASSUME NEW w \in Workers, InsertSuccess(w)
        PROVE  Abstract!Next
    <2> DEFINE k == calls[w].req.key
    <2>1. k \in Keys
      BY <1>inv, <1>1, FrameOfCall DEF InsertSuccess
    <2>2. applied[UpKeyOf[k]] # 0 \/ UpKeyOf[k] \in Mistakable
      BY <1>inv, <1>1 DEF InsertSuccess, InvParts, FramesOK, FrameOK, KnowsApplied, Mistaken, Up
    <2>3. k \notin Booked
      BY <1>1 DEF InsertSuccess, Booked, Final
    <2>4. Booked' = Booked \cup {k}
      <3> DEFINE row == [key    |-> calls[w].req.key,
                         delta  |-> calls[w].req.delta,
                         status |-> "success"]
      <3>1. ledger' = ledger \cup {row}
        BY <1>1 DEF InsertSuccess
      <3>2. row.key = k /\ row.status = "success"
        OBVIOUS
      <3> HIDE DEF row, k
      <3>3. Booked' \subseteq Booked \cup {k}
        BY <3>1, <3>2 DEF Booked
      <3>4. Booked \cup {k} \subseteq Booked'
        BY <3>1, <3>2 DEF Booked
      <3>5. QED
        BY <3>3, <3>4
    <2>5. Abstract!Book(k)
      BY <1>1, <2>2, <2>3, <2>4 DEF InsertSuccess, Abstract!Book
    <2>6. QED
      BY <2>1, <2>5 DEF Abstract!Next
  <1>2. ASSUME NEW m \in net, Apply(m)
        PROVE  Abstract!Next \/ UNCHANGED <<applied, Booked>>
    <2>1. /\ m.up \in UpKeys
          /\ m.delta \in {r.delta : r \in Requests} \ {0}
      BY <1>inv DEF TypeOK, Message, InvParts
    <2>2. Booked' = Booked
      BY <1>2 DEF Apply, Booked
    <2>3. CASE applied[m.up] = 0
      <3>1. Abstract!Pay(m.up, m.delta)
        BY <1>2, <2>2, <2>3 DEF Apply, Abstract!Pay
      <3>2. QED
        BY <2>1, <3>1 DEF Abstract!Next
    <2>4. CASE applied[m.up] # 0
      BY <1>2, <2>2, <2>4 DEF Apply
    <2>5. QED
      BY <2>3, <2>4
  <1>3. CASE /\ \A w \in Workers : ~InsertSuccess(w)
             /\ \A m \in net : ~Apply(m)
    <2>1. applied' = applied
      BY <1>3 DEF Next, vars, WorkerStep, Upstream, Lose, Start, Finish, Crash, CheckLedger,
         InsertSkipped, InsertFailed, StatementFails, SendRequest, ReplyOk, ReplyError, ReplyMisread,
         ReplyDuplicate, LookupUser
    <2>2. \A e \in ledger' : e \in ledger \/ e.status # "success"
      <3>1. CASE \E w \in Workers : InsertSkipped(w) \/ InsertFailed(w)
        BY <3>1 DEF InsertSkipped, InsertFailed
      <3>2. CASE ~\E w \in Workers : InsertSkipped(w) \/ InsertFailed(w)
        <4>1. ledger' = ledger
          BY <1>3, <3>2 DEF Next, vars, WorkerStep, Upstream, Lose, Start, Finish, Crash,
             CheckLedger, StatementFails, SendRequest, ReplyOk, ReplyError, ReplyMisread, ReplyDuplicate,
             LookupUser
        <4>2. QED
          BY <4>1
      <3>3. QED
        BY <3>1, <3>2
    <2>3. Booked' = Booked
      BY <2>2, LedgerGrows, BookedKept
    <2>4. QED
      BY <2>1, <2>3
  <1>4. QED
    BY <1>1, <1>2, <1>3

(***************************************************************************)
(* The payout service implements PayOnce: for its callers, retries, lost    *)
(* and late replies and crashes do not move money twice under an upstream   *)
(* key, nor book money that has not moved, except under the mistakable keys *)
(* that PayOnce itself lets be booked unpaid.                               *)
(***************************************************************************)
THEOREM CreditRefinesPayOnce == Spec => ImplementsPayOnce
  <1>1. Init => Abstract!Init
    BY DEF Init, Abstract!Init, Booked
  <1>2. QED
    BY <1>1, StepRefines, CreditInvariant, PTL DEF Spec, ImplementsPayOnce, Abstract!Spec

-----------------------------------------------------------------------------
(***************************************************************************)
(* The refinement for callers.  A worker gets to "zero" only with a request *)
(* for nothing.                                                             *)
(***************************************************************************)
ZeroIsEmpty == \A w \in Workers : calls[w].pc = "zero" => calls[w].req.delta = 0

LEMMA ZeroStep == TypeOK /\ ZeroIsEmpty /\ [Next]_vars => ZeroIsEmpty'
  <1> SUFFICES ASSUME TypeOK, ZeroIsEmpty, [Next]_vars, NEW w \in Workers,
                      calls'[w].pc = "zero"
               PROVE  calls'[w].req.delta = 0
    BY DEF ZeroIsEmpty
  <1>1. CASE calls'[w] = calls[w]
    BY <1>1 DEF ZeroIsEmpty
  <1>2. CASE calls'[w] # calls[w]
    <2>1. calls'[w] # Idle
      BY DEF Idle
    <2>2. PICK v \in Workers : Start(v) \/ WorkerStep(v) \/ Finish(v)
      BY <1>2, <2>1 DEF Next, vars, Upstream, Apply, Lose, Crash, TypeOK
    <2>3. v = w
      BY <1>2, <2>2 DEF TypeOK, Start, Call, Finish, Return, WorkerStep, CheckLedger,
         InsertSkipped, InsertSuccess, InsertFailed, StatementFails, SendRequest, ReplyOk,
         ReplyError, ReplyMisread, ReplyDuplicate, LookupUser, Goto
    <2>4. ~Start(w) /\ ~Finish(w)
      BY <2>1 DEF TypeOK, Start, Call, Finish, Return
    <2>5. calls[w].pc # "idle"
      BY <2>2, <2>3, <2>4 DEF WorkerStep, CheckLedger, InsertSkipped, InsertSuccess,
         InsertFailed, StatementFails, SendRequest, ReplyOk, ReplyError, ReplyMisread, ReplyDuplicate,
         LookupUser
    <2>6. ~ReplyError(w) /\ ~ReplyMisread(w) /\ ~ReplyDuplicate(w)
      <3>1. AfterError(calls[w], calls[w].hit).pc # "zero"
        BY <2>5, FrameOfCall, AfterErrorFrame DEF Frame
      <3>2. AfterError(calls[w], TRUE).pc # "zero"
        BY <2>5, AfterErrorFrame
      <3>3. QED
        BY <3>1, <3>2 DEF ReplyError, ReplyMisread, ReplyDuplicate, TypeOK
    <2>7. ASSUME NEW pc \in Running \cup Returned, Goto(w, pc)
          PROVE  pc = "zero" /\ calls'[w].req = calls[w].req
      <3>1. calls'[w].pc = pc /\ calls'[w].req = calls[w].req
        BY <2>5, <2>7, GotoFrame
      <3>2. QED
        BY <3>1
    <2>8. CheckLedger(w)
      BY <2>2, <2>3, <2>4, <2>6, <2>7 DEF WorkerStep, InsertSkipped, InsertSuccess,
         InsertFailed, StatementFails, SendRequest, ReplyOk, LookupUser, Running, Returned
    <2>9. calls[w].req.delta = 0
      BY <2>7, <2>8 DEF CheckLedger, Running, Returned
    <2>10. calls'[w].req = calls[w].req
      BY <2>7, <2>8 DEF CheckLedger, Running, Returned
    <2>11. QED
      BY <2>9, <2>10
  <1>3. QED
    BY <1>1, <1>2

(***************************************************************************)
(* What callers see of the calls, and how it changes with one frame.        *)
(***************************************************************************)
View == [w \in Workers |-> Seen(calls[w])]

LEMMA ViewMoves ==
    ASSUME NEW w \in Workers, \A v \in Workers \ {w} : calls'[v] = calls[v]
    PROVE  View' = [View EXCEPT ![w] = Seen(calls'[w])]
  BY DEF View, Seen

LEMMA ViewOfFrame ==
    ASSUME TypeOK, NEW w \in Workers, calls[w].pc # "idle"
    PROVE  /\ View[w] = [pc |-> IF calls[w].pc \in Running THEN "running" ELSE calls[w].pc,
                         req |-> calls[w].req]
           /\ View[w].req = calls[w].req
           /\ calls[w].pc \in Running => View[w].pc = "running"
           /\ calls[w].pc \in Returned => View[w].pc = calls[w].pc
  BY DEF View, Seen, Running, Returned

(***************************************************************************)
(* The ledger's final rows, as callers see them.                            *)
(***************************************************************************)
LEMMA FinalSeen ==
    ASSUME TypeOK, NEW k
    PROVE  Service!Final(k) <=> Final(k)
  <1>1. \A e \in ledger : e.status # "failed" <=> e.status \in {"success", "skipped"}
    BY DEF TypeOK, Row
  <1>2. Service!Final(k) => Final(k)
    BY <1>1 DEF Service!Final, FinalRows, Final
  <1>3. ASSUME NEW e \in ledger, e.key = k, e.status # "failed"
        PROVE  Service!Final(k)
    <2>1. [key |-> e.key, delta |-> e.delta] \in FinalRows
      BY <1>3 DEF FinalRows
    <2>2. QED
      BY <1>3, <2>1 DEF Service!Final
  <1>4. QED
    BY <1>1, <1>2, <1>3 DEF Final

LEMMA FinalRowsKept ==
    ASSUME ledger \subseteq ledger',
           \A e \in ledger' : e \in ledger \/ e.status = "failed"
    PROVE  FinalRows' = FinalRows
  BY DEF FinalRows

LEMMA FinalRowsGrow ==
    ASSUME NEW k, NEW d, NEW s, s # "failed",
           ledger' = ledger \cup {[key |-> k, delta |-> d, status |-> s]}
    PROVE  FinalRows' = FinalRows \cup {[key |-> k, delta |-> d]}
  <1> DEFINE row == [key |-> k, delta |-> d, status |-> s]
  <1>1. row.key = k /\ row.delta = d /\ row.status # "failed" /\ ledger' = ledger \cup {row}
    OBVIOUS
  <1> HIDE DEF row
  <1>2. FinalRows' \subseteq FinalRows \cup {[key |-> k, delta |-> d]}
    BY <1>1 DEF FinalRows
  <1>3. FinalRows \cup {[key |-> k, delta |-> d]} \subseteq FinalRows'
    BY <1>1 DEF FinalRows
  <1>4. QED
    BY <1>2, <1>3

(***************************************************************************)
(* A step inside a call is invisible unless it writes a final row, sends a  *)
(* request or ends the call.                                                *)
(***************************************************************************)
LEMMA WorkerRefines ==
    ASSUME CreditInv, ZeroIsEmpty, NEW w \in Workers, WorkerStep(w)
    PROVE  Service!WorkerStep(w) \/ UNCHANGED <<FinalRows, applied, net, View>>
  <1>inv. TypeOK /\ InvParts
    BY InvAsFrames DEF CreditInv
  <1> USE <1>inv
  <1>0. /\ calls[w].pc # "idle"
        /\ calls[w].pc \in Running
        /\ calls[w].pc \in {"send", "wait"} => calls[w].req.delta # 0
        /\ calls[w].pc = "record" => applied[Up(calls[w])] # 0 \/ Mistaken(calls[w].req)
    BY DEF InvParts, FramesOK, FrameOK, KnowsApplied, Mistaken, WorkerStep, CheckLedger, InsertSkipped,
       InsertSuccess, InsertFailed, StatementFails, SendRequest, ReplyOk, ReplyError, ReplyMisread,
       ReplyDuplicate, LookupUser, Running
  <1>1. View[w].pc = "running" /\ View[w].req = calls[w].req
    BY <1>0, ViewOfFrame
  <1>goto. ASSUME NEW pc \in Running \cup Returned, Goto(w, pc)
           PROVE  /\ pc \in Running => View' = View
                  /\ pc \in Returned => View' = [View EXCEPT ![w] = [pc |-> pc, req |-> View[w].req]]
    <2>1. /\ calls'[w].pc = pc
          /\ calls'[w].req = calls[w].req
          /\ \A v \in Workers \ {w} : calls'[v] = calls[v]
      BY <1>0, <1>goto, GotoFrame
    <2>2. View' = [View EXCEPT ![w] = Seen(calls'[w])]
      BY <2>1, ViewMoves
    <2>3. Seen(calls'[w]) = [pc |-> IF pc \in Running THEN "running" ELSE pc, req |-> View[w].req]
      BY <1>1, <2>1 DEF Seen, Running, Returned
    <2>4. View[w] = [pc |-> "running", req |-> View[w].req]
      BY <1>0, <1>1, ViewOfFrame
    <2>5. pc \in Returned => pc \notin Running
      BY DEF Running, Returned
    <2>6. pc \in Running => View' = View
      BY <2>2, <2>3, <2>4 DEF View
    <2>7. QED
      BY <2>2, <2>3, <2>5, <2>6
  <1>2. CASE CheckLedger(w)
    <2>1. CASE Final(calls[w].req.key)
      <3>1. View' = [View EXCEPT ![w] = [pc |-> "skipped", req |-> View[w].req]]
        BY <1>2, <1>goto, <2>1 DEF CheckLedger, Running, Returned
      <3>2. Service!Final(View[w].req.key)
        BY <1>1, <2>1, FinalSeen
      <3>3. UNCHANGED <<FinalRows, applied, net>>
        BY <1>2 DEF CheckLedger, FinalRows
      <3>4. Service!Skip(w)
        BY <1>1, <3>1, <3>2, <3>3 DEF Service!Skip, Service!End, View
      <3>5. QED
        BY <3>4 DEF Service!WorkerStep
    <2>2. CASE ~Final(calls[w].req.key)
      <3>1. View' = View
        BY <1>2, <1>goto, <2>2 DEF CheckLedger, Running
      <3>2. QED
        BY <1>2, <3>1 DEF CheckLedger, FinalRows
    <2>3. QED
      BY <2>1, <2>2
  <1>3. CASE InsertSkipped(w)
    <2>1. View' = [View EXCEPT ![w] = [pc |-> "skipped", req |-> View[w].req]]
      BY <1>3, <1>goto DEF InsertSkipped, Returned
    <2>2. FinalRows' = FinalRows \cup {[key |-> View[w].req.key, delta |-> 0]}
      BY <1>1, <1>3, FinalRowsGrow DEF InsertSkipped
    <2>3. View[w].req.delta = 0 /\ ~Service!Final(View[w].req.key)
      BY <1>1, <1>3, FinalSeen DEF InsertSkipped, ZeroIsEmpty
    <2>4. Service!Skip(w)
      BY <1>1, <1>3, <2>1, <2>2, <2>3 DEF InsertSkipped, Service!Skip, Service!End, View
    <2>5. QED
      BY <2>4 DEF Service!WorkerStep
  <1>4. CASE InsertSuccess(w)
    <2>1. View' = [View EXCEPT ![w] = [pc |-> "ok", req |-> View[w].req]]
      BY <1>4, <1>goto DEF InsertSuccess, Returned
    <2>2. FinalRows' = FinalRows \cup {[key |-> View[w].req.key, delta |-> View[w].req.delta]}
      BY <1>1, <1>4, FinalRowsGrow DEF InsertSuccess
    <2>3. /\ \/ applied[UpKeyOf[View[w].req.key]] # 0
             \/ UpKeyOf[View[w].req.key] \in Mistakable /\ View[w].req.delta > 0
          /\ ~Service!Final(View[w].req.key)
      BY <1>0, <1>1, <1>4, FinalSeen DEF InsertSuccess, Up, Mistaken
    <2>4. Service!Succeed(w)
      BY <1>1, <1>4, <2>1, <2>2, <2>3 DEF InsertSuccess, Service!Succeed, Service!End, View
    <2>5. QED
      BY <2>4 DEF Service!WorkerStep
  <1>5. CASE InsertFailed(w) \/ StatementFails(w)
    <2>1. View' = [View EXCEPT ![w] = [pc |-> "error", req |-> View[w].req]]
      BY <1>5, <1>goto DEF InsertFailed, StatementFails, Returned
    <2>2. /\ ledger \subseteq ledger'
          /\ \A e \in ledger' : e \in ledger \/ e.status = "failed"
      BY <1>5 DEF InsertFailed, StatementFails
    <2>3. FinalRows' = FinalRows
      BY <2>2, FinalRowsKept
    <2>4. Service!Fail(w)
      BY <1>1, <1>5, <2>1, <2>3 DEF InsertFailed, StatementFails, Service!Fail, Service!End, View
    <2>5. QED
      BY <2>4 DEF Service!WorkerStep
  <1>6. CASE SendRequest(w)
    <2>1. View' = View
      BY <1>6, <1>goto DEF SendRequest, Running
    <2>2. Service!Send(w)
      BY <1>0, <1>1, <1>6, <2>1 DEF SendRequest, Service!Send, Service!Request, FinalRows, Up, View
    <2>3. QED
      BY <2>2 DEF Service!WorkerStep
  <1>7. CASE ReplyOk(w) \/ LookupUser(w)
    <2>1. View' = View
      BY <1>7, <1>goto DEF ReplyOk, LookupUser, Running
    <2>2. QED
      BY <1>7, <2>1 DEF ReplyOk, LookupUser, FinalRows
  <1>8. CASE ReplyError(w) \/ ReplyMisread(w) \/ ReplyDuplicate(w)
    <2>1. PICK hit \in BOOLEAN : calls' = [calls EXCEPT ![w] = AfterError(calls[w], hit)]
      BY <1>0, <1>8, FrameOfCall DEF ReplyError, ReplyMisread, ReplyDuplicate, Frame
    <2>2. /\ calls'[w].pc \in {"send", "lookup", "fail"}
          /\ calls'[w].req = calls[w].req
          /\ \A v \in Workers \ {w} : calls'[v] = calls[v]
      BY <1>0, <2>1, AfterErrorFrame DEF TypeOK
    <2>3. View' = [View EXCEPT ![w] = Seen(calls'[w])]
      BY <2>2, ViewMoves
    <2>4. Seen(calls'[w]) = View[w]
      BY <1>0, <2>2, ViewOfFrame DEF Seen, Running
    <2>5. View' = View
      BY <2>3, <2>4 DEF View
    <2>6. QED
      BY <1>8, <2>5 DEF ReplyError, ReplyMisread, ReplyDuplicate, FinalRows
  <1>9. QED
    BY <1>2, <1>3, <1>4, <1>5, <1>6, <1>7, <1>8 DEF WorkerStep

(***************************************************************************)
(* Every step of the service is a step of Payout or invisible to callers.   *)
(***************************************************************************)
LEMMA CallersStep == CreditInv /\ ZeroIsEmpty /\ [Next]_vars => [Service!Next]_(Service!vars)
  <1> SUFFICES ASSUME CreditInv, ZeroIsEmpty, [Next]_vars
               PROVE  Service!Next \/ UNCHANGED <<FinalRows, applied, net, View>>
    BY DEF Service!vars, View
  <1>inv. TypeOK
    BY DEF CreditInv
  <1>1. ASSUME NEW w \in Workers, WorkerStep(w)
        PROVE  Service!Next \/ UNCHANGED <<FinalRows, applied, net, View>>
    BY <1>1, WorkerRefines DEF Service!Next
  <1>2. ASSUME NEW w \in Workers, Start(w)
        PROVE  Service!Next
    <2>1. PICK r \in Requests : Call(w, r)
      BY <1>2 DEF Start
    <2>2. /\ calls'[w] = [pc |-> "check", req |-> r, try |-> 1, hit |-> FALSE]
          /\ \A v \in Workers \ {w} : calls'[v] = calls[v]
      BY <1>inv, <2>1 DEF Call, TypeOK
    <2>3. View' = [View EXCEPT ![w] = [pc |-> "running", req |-> r]]
      BY <2>2, ViewMoves DEF Seen, Running
    <2>4. View[w] = Service!Idle
      BY <2>1 DEF Call, View, Seen, Idle, Service!Idle
    <2>5. Service!Call(w, r)
      BY <2>3, <2>4 DEF Service!Call, View
    <2>6. QED
      BY <1>2, <2>5 DEF Start, FinalRows, Service!Next
  <1>3. ASSUME NEW w \in Workers, Finish(w)
        PROVE  Service!Next
    <2>1. calls[w].pc \in Returned /\ calls[w].pc # "idle"
      BY <1>3 DEF Finish, Return, Returned
    <2>2. calls'[w] = Idle /\ \A v \in Workers \ {w} : calls'[v] = calls[v]
      BY <1>inv, <1>3 DEF Finish, Return, TypeOK
    <2>3. View' = [View EXCEPT ![w] = Service!Idle]
      BY <2>2, ViewMoves DEF Seen, Idle, Service!Idle
    <2>4. View[w].pc \in Service!Returned
      BY <1>inv, <2>1, ViewOfFrame DEF Returned, Service!Returned
    <2>5. Service!Return(w)
      BY <2>3, <2>4 DEF Service!Return, View
    <2>6. QED
      BY <1>3, <2>5 DEF Finish, FinalRows, Service!Next
  <1>4. ASSUME NEW m \in net, Apply(m) \/ Lose(m)
        PROVE  Service!Next
    <2>1. Service!Apply(m) \/ Service!Lose(m)
      BY <1>4 DEF Apply, Lose, Service!Apply, Service!Lose, FinalRows, Seen
    <2>2. QED
      BY <2>1 DEF Service!Upstream, Service!Next
  <1>5. ASSUME Crash
        PROVE  Service!Next
    <2>1. View' = [w \in Workers |-> Service!Idle]
      BY <1>5 DEF Crash, View, Seen, Idle, Service!Idle
    <2>2. Service!Crash
      BY <1>5, <2>1 DEF Crash, Service!Crash, FinalRows, View
    <2>3. QED
      BY <2>2 DEF Service!Next
  <1>6. CASE UNCHANGED vars
    BY <1>6 DEF vars, FinalRows, View
  <1>7. QED
    BY <1>1, <1>2, <1>3, <1>4, <1>5, <1>6 DEF Next, Upstream

(***************************************************************************)
(* To its callers the payout service is Payout: a component may be composed *)
(* with Payout instead of with Credit.                                      *)
(***************************************************************************)
THEOREM CreditRefinesPayout == Spec => ImplementsPayout
  <1>1. Init => ZeroIsEmpty
    BY DEF Init, ZeroIsEmpty, Idle
  <1>2. CreditInv => TypeOK
    BY DEF CreditInv
  <1>3. Spec => []ZeroIsEmpty
    BY <1>1, <1>2, ZeroStep, CreditInvariant, PTL DEF Spec
  <1>4. Init => Service!Init
    BY DEF Init, Service!Init, FinalRows, Seen, Idle, Service!Idle
  <1>5. QED
    BY <1>3, <1>4, CallersStep, CreditInvariant, PTL DEF Spec, ImplementsPayout, Service!Spec

-----------------------------------------------------------------------------
(***************************************************************************)
(* The audit: who is in charge of money that moved and is not booked.       *)
(***************************************************************************)
AuditInv == CreditInv /\ NoSilentLoss /\ LateRequestsAreKnown

(***************************************************************************)
(* How a worker can leave the charge of its key: by booking the amount it   *)
(* asked for, or with an alarm.                                             *)
(***************************************************************************)
LEMMA ChargeEnds ==
    ASSUME CreditInv, [AuditNext]_auditVars,
           NEW w \in Workers, NEW u \in UpKeys, NEW d \in Int, InCharge(w, u, d)
    PROVE  InCharge(w, u, d)' \/ BookedAs(u, d)' \/ u \in alarms'
  <1> DEFINE Charged == {"send", "wait", "lookup", "record", "fail"}
  <1>inv. TypeOK /\ TypeOK' /\ [Next]_vars
    BY TypeStep DEF CreditInv, AuditNext, auditVars, vars
  <1>w. /\ calls[w].pc \in Charged /\ calls[w].pc # "idle" /\ Up(calls[w]) = u
        /\ calls[w].req.delta = d
    BY DEF InCharge
  <1>1. ASSUME calls'[w].req = calls[w].req, calls'[w].pc \in Charged
        PROVE  InCharge(w, u, d)'
    BY <1>1, <1>w DEF InCharge, Up
  <1>2. ASSUME calls'[w].pc \in {"idle", "error"}
        PROVE  u \in alarms'
    <2>1. Alarming(w)
      BY <1>2, <1>w DEF Alarming, Running
    <2>2. AuditNext
      BY <1>2, <1>w DEF auditVars
    <2>3. QED
      BY <1>w, <2>1, <2>2 DEF AuditNext
  <1>3. ASSUME calls'[w] = calls[w]
        PROVE  InCharge(w, u, d)'
    BY <1>3, <1>w DEF InCharge, Up
  <1>4. CASE Start(w) \/ CheckLedger(w) \/ InsertSkipped(w) \/ Finish(w)
    BY <1>4, <1>w DEF Start, Call, Idle, CheckLedger, InsertSkipped, Finish, Return, Returned
  <1>5. CASE InsertSuccess(w)
    <2> DEFINE row == [key    |-> calls[w].req.key,
                       delta  |-> calls[w].req.delta,
                       status |-> "success"]
    <2>1. row \in ledger' /\ row.status = "success"
      BY <1>5 DEF InsertSuccess
    <2>2. UpKeyOf[row.key] = u /\ row.delta = d
      BY <1>w DEF Up
    <2>3. QED
      BY <2>1, <2>2 DEF BookedAs
  <1>6. CASE InsertFailed(w) \/ StatementFails(w)
    <2>1. Goto(w, "error")
      BY <1>6 DEF InsertFailed, StatementFails
    <2>2. QED
      BY <1>inv, <1>w, <1>2, <2>1, GotoFrame DEF Returned
  <1>7. CASE SendRequest(w) \/ ReplyOk(w) \/ LookupUser(w)
    <2>1. PICK pc \in {"wait", "record", "fail"} : Goto(w, pc)
      BY <1>7 DEF SendRequest, ReplyOk, LookupUser
    <2>2. QED
      BY <1>inv, <1>w, <1>1, <2>1, GotoFrame DEF Running
  <1>8. CASE ReplyError(w) \/ ReplyMisread(w) \/ ReplyDuplicate(w)
    <2>1. calls[w].hit \in BOOLEAN
      BY <1>inv, <1>w, FrameOfCall DEF Frame
    <2>2. PICK hit \in BOOLEAN : calls' = [calls EXCEPT ![w] = AfterError(calls[w], hit)]
      BY <1>8, <2>1 DEF ReplyError, ReplyMisread, ReplyDuplicate
    <2>3. calls'[w] = AfterError(calls[w], hit)
      BY <1>inv, <2>2 DEF TypeOK
    <2>4. QED
      BY <1>inv, <1>w, <1>1, <2>3, AfterErrorFrame
  <1>9. CASE Crash
    BY <1>9, <1>2 DEF Crash, Idle
  <1>10. CASE \/ \E v \in Workers \ {w} : Start(v) \/ WorkerStep(v) \/ Finish(v)
              \/ Upstream
              \/ UNCHANGED vars
    <2>1. calls'[w] = calls[w]
      BY <1>10, <1>inv DEF TypeOK, WorkerStep, Start, Call, Finish, Return, Goto, CheckLedger,
         InsertSkipped, InsertSuccess, InsertFailed, StatementFails, SendRequest, ReplyOk,
         ReplyError, ReplyMisread, ReplyDuplicate, LookupUser, Upstream, Apply, Lose, vars
    <2>2. QED
      BY <1>3, <2>1
  <1>11. QED
    BY <1>inv, <1>4, <1>5, <1>6, <1>7, <1>8, <1>9, <1>10 DEF Next, WorkerStep

(***************************************************************************)
(* A key that loses its last owner is booked with the amount asked for, or  *)
(* its callers have been warned.                                            *)
(***************************************************************************)
LEMMA OwnershipEnds ==
    ASSUME CreditInv, [AuditNext]_auditVars, NEW u \in UpKeys, NEW d \in Int, Owned(u, d)
    PROVE  Owned(u, d)' \/ BookedAs(u, d)' \/ u \in alarms'
  <1>1. PICK w \in Workers : InCharge(w, u, d)
    BY DEF Owned
  <1>2. InCharge(w, u, d)' \/ BookedAs(u, d)' \/ u \in alarms'
    BY <1>1, ChargeEnds
  <1>3. QED
    BY <1>2 DEF Owned

(***************************************************************************)
(* Every step keeps the two statements about unbooked money and late        *)
(* requests, given the inductive invariant of Credit.                       *)
(***************************************************************************)
LEMMA AuditStep == AuditInv /\ [AuditNext]_auditVars => AuditInv'
  <1> SUFFICES ASSUME AuditInv, [AuditNext]_auditVars
               PROVE  AuditInv'
    OBVIOUS
  <1>inv. /\ CreditInv /\ CreditInv' /\ TypeOK /\ TypeOK'
          /\ [Next]_vars /\ alarms \subseteq alarms'
    BY InvStep DEF AuditInv, CreditInv, AuditNext, auditVars, vars
  <1>1. ASSUME NEW u \in UpKeys, applied'[u] # 0
        PROVE  (BookedAs(u, applied[u]) \/ Owned(u, applied[u]) \/ u \in alarms)'
    <2>1. PICK d \in Int : d = applied'[u]
      BY <1>inv DEF TypeOK
    <2> SUFFICES BookedAs(u, d)' \/ Owned(u, d)' \/ u \in alarms'
      BY <2>1 DEF BookedAs, Owned, InCharge
    <2>2. CASE applied[u] # 0
      <3>1. applied[u] = d
        BY <1>inv, <2>1, <2>2, AppliedStays
      <3>2. BookedAs(u, d) => BookedAs(u, d)'
        BY <1>inv, LedgerGrows DEF BookedAs
      <3>3. BookedAs(u, d) \/ Owned(u, d) \/ u \in alarms
        BY <2>2, <3>1 DEF AuditInv, NoSilentLoss
      <3>4. QED
        BY <1>inv, <3>2, <3>3, OwnershipEnds
    <2>3. CASE applied[u] = 0
      <3>1. PICK m \in net : Apply(m)
        BY <1>1, <1>inv, <2>3 DEF Next, vars, Upstream, Lose, WorkerStep, Start, Finish, Crash,
           CheckLedger, InsertSkipped, InsertSuccess, InsertFailed, StatementFails,
           SendRequest, ReplyOk, ReplyError, ReplyMisread, ReplyDuplicate, LookupUser
      <3>2. m.up = u /\ m.delta = d
        BY <1>1, <1>inv, <2>1, <2>3, <3>1 DEF Apply, TypeOK, Message
      <3>3. BookedAs(u, d) \/ Owned(u, d) \/ u \in alarms
        BY <2>3, <3>2 DEF AuditInv, LateRequestsAreKnown
      <3>4. Owned(u, d) => Owned(u, d)'
        BY <3>1 DEF Apply, Owned, InCharge, Up
      <3>5. BookedAs(u, d) => BookedAs(u, d)'
        BY <1>inv, LedgerGrows DEF BookedAs
      <3>6. QED
        BY <1>inv, <3>3, <3>4, <3>5
    <2>4. QED
      BY <2>2, <2>3
  <1>2. ASSUME NEW m \in net'
        PROVE  \/ applied'[m.up] # 0
               \/ BookedAs(m.up, m.delta)'
               \/ Owned(m.up, m.delta)'
               \/ m.up \in alarms'
    <2>1. m.up \in UpKeys /\ m.delta \in Int
      BY <1>inv, CreditAssumption DEF TypeOK, Message
    <2>2. CASE m \in net
      <3>1. applied[m.up] # 0 \/ BookedAs(m.up, m.delta) \/ Owned(m.up, m.delta) \/ m.up \in alarms
        BY <2>2 DEF AuditInv, LateRequestsAreKnown
      <3>2. applied[m.up] # 0 => applied'[m.up] # 0
        BY <1>inv, <2>1, AppliedStays
      <3>3. BookedAs(m.up, m.delta) => BookedAs(m.up, m.delta)'
        BY <1>inv, LedgerGrows DEF BookedAs
      <3>4. QED
        BY <1>inv, <2>1, <3>1, <3>2, <3>3, OwnershipEnds
    <2>3. CASE m \notin net
      <3>1. PICK w \in Workers : SendRequest(w)
        BY <1>inv, <2>3 DEF Next, vars, Upstream, Apply, Lose, WorkerStep, Start, Finish, Crash,
           CheckLedger, InsertSkipped, InsertSuccess, InsertFailed, StatementFails,
           ReplyOk, ReplyError, ReplyMisread, ReplyDuplicate, LookupUser
      <3>2. m = [up |-> Up(calls[w]), delta |-> calls[w].req.delta]
        BY <2>3, <3>1 DEF SendRequest
      <3>3. calls'[w].pc = "wait" /\ calls'[w].req = calls[w].req
        BY <1>inv, <3>1, GotoFrame DEF SendRequest, Running
      <3>4. InCharge(w, m.up, m.delta)'
        BY <3>2, <3>3 DEF InCharge, Up
      <3>5. QED
        BY <3>4 DEF Owned
    <2>4. QED
      BY <2>2, <2>3
  <1>3. NoSilentLoss' /\ LateRequestsAreKnown'
    BY <1>1, <1>2 DEF NoSilentLoss, LateRequestsAreKnown
  <1>4. QED
    BY <1>inv, <1>3 DEF AuditInv

(***************************************************************************)
(* The invariant holds in every reachable state.                            *)
(***************************************************************************)
LEMMA AuditInvariant == AuditSpec => []AuditInv
  <1>1. AuditInit => AuditInv
    BY DEF AuditInit, Init, AuditInv, CreditInv, TypeOK, SendsMoney, KnowledgeIsTrue,
       KnowsApplied, SuccessBacked, OkIsBooked, Mistaken, OneFinalRow, Idle, NoSilentLoss,
       LateRequestsAreKnown
  <1>2. QED
    BY <1>1, AuditStep, PTL DEF AuditSpec

(***************************************************************************)
(* Whenever upstream has moved an amount that no success row shows, a call  *)
(* that asked for it is still running or somebody has been warned.          *)
(***************************************************************************)
THEOREM MoneyIsNeverLostSilently == AuditSpec => []NoSilentLoss
  <1>1. AuditInv => NoSilentLoss
    BY DEF AuditInv
  <1>2. QED
    BY <1>1, AuditInvariant, PTL

(***************************************************************************)
(* A request still under way can only move money somebody knows about.      *)
(***************************************************************************)
THEOREM LateRequestsNeverSurprise == AuditSpec => []LateRequestsAreKnown
  <1>1. AuditInv => LateRequestsAreKnown
    BY DEF AuditInv
  <1>2. QED
    BY <1>1, AuditInvariant, PTL
=============================================================================
