--------------------------- MODULE Rewards_proofs ---------------------------
(***************************************************************************)
(* For any number of workers and users, any prizes, rewards and budget: a  *)
(* claimed task has been paid, since the payout's result is looked at      *)
(* before the claim is inserted, and what a payout has reached is never    *)
(* undone; a paid task of a user without a failure is claimed; and a       *)
(* lottery row shows what was paid for it, since only the request that     *)
(* holds the row pays under its key.  Of users whose number an error may   *)
(* pass off as an idempotency hit only the rows are certain.               *)
(***************************************************************************)
EXTENDS Rewards, TLAPS

UpKeyOf == [k \in Keys |-> k]

P == INSTANCE Payout_proofs WITH
    UpKeys <- Keys, Requests <- [key : Keys, delta : Amounts],
    Mistakable <- {k \in Keys : k[2] \in Lookalikes}

\* What a step of Rewards may do to the payout service.
CreditMove ==
    \/ UNCHANGED creditVars
    \/ \E w \in Workers : Credit!WorkerStep(w)
    \/ \E w \in Workers, k \in Keys : \E a : a # 0 /\ Pay(w, k, a)
    \/ \E w \in Workers : Credit!Return(w) /\ UNCHANGED <<final, applied, sent>>
    \/ Credit!Upstream
    \/ Credit!Crash

LEMMA MappedHolds == P!Mapped
  BY DEF P!Mapped, UpKeyOf

LEMMA MoveIsMove == ASSUME CreditMove PROVE P!Move
<1> USE DEF UpKeyOf
<1>1. \A w \in Workers : Credit!WorkerStep(w) => P!WorkerStep(w)
  BY DEF Credit!WorkerStep, Credit!Send, Credit!Succeed, Credit!Skip, Credit!Fail, Credit!End,
     Credit!Request, Credit!Final, P!WorkerStep, P!Send, P!Succeed, P!Skip, P!Fail, P!End,
     P!Request, P!Final
<1>2. \A w \in Workers : \A r : Credit!Call(w, r) => P!Call(w, r)
  BY DEF Credit!Call, P!Call, Credit!Idle, P!Idle
<1>3. \A w \in Workers : Credit!Return(w) => P!Return(w)
  BY DEF Credit!Return, P!Return, Credit!Idle, P!Idle, Credit!Returned, P!Returned
<1>4. Credit!Upstream => P!Upstream
  BY DEF Credit!Upstream, Credit!Apply, Credit!Lose, P!Upstream, P!Apply, P!Lose
<1>5. Credit!Crash => P!Crash
  BY DEF Credit!Crash, P!Crash, Credit!Idle, P!Idle
<1> QED
  BY <1>1, <1>2, <1>3, <1>4, <1>5 DEF CreditMove, Pay, P!Move, P!Pay, P!vars, creditVars

\* Whatever a step does to the payout service, calls, rows and requests stay as
\* they should be, and what was served stays served.
LEMMA PayoutStep ==
  ASSUME P!PayoutOK, CreditMove
  PROVE  P!PayoutOK'
  BY MoveIsMove, P!PayoutStep, MappedHolds

LEMMA ServedStays ==
  ASSUME P!PayoutOK, CreditMove, NEW k \in Keys, P!Served(k)
  PROVE  P!Served(k)'
  BY MoveIsMove, P!ServedStays, MappedHolds

-----------------------------------------------------------------------------
(***************************************************************************)
(* Requests.  A request that waits for the payout of a task has a call      *)
(* under the task's key; one that is about to insert its claim, and every   *)
(* claim, stands for a payout that reached both stores.                     *)
(***************************************************************************)
ReqOK(q) ==
    \/ q = Free
    \/ \E at \in DrawSteps, u \in Users : \E s, a : q = Drawing(at, u, s, a)
    \/ \E at \in ClaimSteps, u \in Users, a \in TaskRewards : q = Claiming(at, u, a)

Calling(q, c) == q.at = "grant" => c # P!Idle /\ c.req.key = TaskKey(q.user)
Earned(q) == q.at = "claim" => P!Served(TaskKey(q.user))

ReqsOK ==
    /\ reqs = [w \in Workers |-> reqs[w]]
    /\ \A w \in Workers : ReqOK(reqs[w]) /\ Calling(reqs[w], calls[w]) /\ Earned(reqs[w])

ClaimsOK ==
    /\ claims = [u \in Users |-> claims[u]]
    /\ \A u \in Users : claims[u] # 0 => P!Served(TaskKey(u))

ClaimInv == P!PayoutOK /\ ReqsOK /\ ClaimsOK

(***************************************************************************)
(* Nothing has been paid at the start.                                      *)
(***************************************************************************)
LEMMA ClaimInit == Init => ClaimInv
<1> SUFFICES ASSUME Init PROVE ClaimInv
  OBVIOUS
<1>1. P!PayoutOK
  <2>1. P!Init
    BY DEF Init, Credit!Init, P!Init, Credit!Idle, P!Idle
  <2>2. QED
    BY <2>1, P!PayoutInit
<1>2. ReqsOK
  BY DEF Init, ReqsOK, ReqOK, Calling, Earned, Free
<1>3. ClaimsOK
  BY DEF Init, ClaimsOK
<1>4. QED
  BY <1>1, <1>2, <1>3 DEF ClaimInv

(***************************************************************************)
(* A request at a step of a draw or a claim has a user.                     *)
(***************************************************************************)
LEMMA ReqShape ==
  ASSUME NEW q, ReqOK(q), q # Free
  PROVE  /\ q.user \in Users
         /\ q.at \in DrawSteps \cup ClaimSteps
         /\ q.at \in DrawSteps =>
               \A at \in DrawSteps : ReqOK([q EXCEPT !.at = at])
                                     /\ [q EXCEPT !.at = at].at = at
                                     /\ [q EXCEPT !.at = at].user = q.user
                                     /\ [q EXCEPT !.at = at].amount = q.amount
         /\ q.at \in ClaimSteps =>
               /\ q.amount \in TaskRewards
               /\ \A at \in ClaimSteps : ReqOK([q EXCEPT !.at = at])
                                         /\ [q EXCEPT !.at = at].at = at
                                         /\ [q EXCEPT !.at = at].user = q.user
                                         /\ [q EXCEPT !.at = at].amount = q.amount
<1>0. DrawSteps \cap ClaimSteps = {}
  BY DEF DrawSteps, ClaimSteps
<1>1. ASSUME NEW b \in DrawSteps, NEW u \in Users, NEW s, NEW a, q = Drawing(b, u, s, a)
      PROVE  /\ q.user \in Users
             /\ q.at \in DrawSteps
             /\ \A at \in DrawSteps : /\ ReqOK([q EXCEPT !.at = at])
                                      /\ [q EXCEPT !.at = at].at = at
                                      /\ [q EXCEPT !.at = at].user = q.user
                                      /\ [q EXCEPT !.at = at].amount = q.amount
  <2>1. q.user \in Users /\ q.at \in DrawSteps
    BY <1>1 DEF Drawing
  <2>2. ASSUME NEW at \in DrawSteps
        PROVE  /\ ReqOK([q EXCEPT !.at = at])
               /\ [q EXCEPT !.at = at].at = at
               /\ [q EXCEPT !.at = at].user = q.user
               /\ [q EXCEPT !.at = at].amount = q.amount
    <3>1. [q EXCEPT !.at = at] = Drawing(at, u, s, a)
      BY <1>1 DEF Drawing
    <3>2. Drawing(at, u, s, a).at = at /\ Drawing(at, u, s, a).user = q.user
         /\ Drawing(at, u, s, a).amount = q.amount
      BY <1>1 DEF Drawing
    <3>3. QED
      BY <3>1, <3>2 DEF ReqOK
  <2>3. QED
    BY <2>1, <2>2
<1>2. ASSUME NEW b \in ClaimSteps, NEW u \in Users, NEW a \in TaskRewards, q = Claiming(b, u, a)
      PROVE  /\ q.user \in Users
             /\ q.at \in ClaimSteps
             /\ q.amount \in TaskRewards
             /\ \A at \in ClaimSteps : /\ ReqOK([q EXCEPT !.at = at])
                                       /\ [q EXCEPT !.at = at].at = at
                                       /\ [q EXCEPT !.at = at].user = q.user
                                       /\ [q EXCEPT !.at = at].amount = q.amount
  <2>1. q.user \in Users /\ q.at \in ClaimSteps /\ q.amount \in TaskRewards
    BY <1>2 DEF Claiming
  <2>2. ASSUME NEW at \in ClaimSteps
        PROVE  /\ ReqOK([q EXCEPT !.at = at])
               /\ [q EXCEPT !.at = at].at = at
               /\ [q EXCEPT !.at = at].user = q.user
               /\ [q EXCEPT !.at = at].amount = q.amount
    <3>1. [q EXCEPT !.at = at] = Claiming(at, u, a)
      BY <1>2 DEF Claiming
    <3>2. Claiming(at, u, a).at = at /\ Claiming(at, u, a).user = q.user
         /\ Claiming(at, u, a).amount = q.amount
      BY <1>2 DEF Claiming
    <3>3. QED
      BY <3>1, <3>2 DEF ReqOK
  <2>3. QED
    BY <2>1, <2>2
<1>3. QED
  BY <1>0, <1>1, <1>2 DEF ReqOK

(***************************************************************************)
(* A step of one worker that moves its request to q.                        *)
(***************************************************************************)
LEMMA RequestStep ==
  ASSUME ClaimInv, CreditMove, NEW w \in Workers, NEW q, ReqOK(q),
         reqs' = [reqs EXCEPT ![w] = q],
         \A v \in Workers \ {w} : calls'[v] = calls[v],
         \A c : c = calls'[w] => Calling(q, c),
         Earned(q)'
  PROVE  ReqsOK'
<1>1. reqs' = [v \in Workers |-> reqs'[v]]
  BY DEF ClaimInv, ReqsOK
<1>2. ASSUME NEW v \in Workers, NEW p, p = reqs'[v], NEW c, c = calls'[v]
      PROVE  ReqOK(p) /\ Calling(p, c) /\ Earned(p)'
  <2>1. CASE v = w
    <3>1. p = q
      BY <1>2, <2>1 DEF ClaimInv, ReqsOK
    <3>2. QED
      BY <1>2, <2>1, <3>1
  <2>2. CASE v # w
    <3>1. p = reqs[v] /\ c = calls[v]
      BY <1>2, <2>2 DEF ClaimInv, ReqsOK
    <3>2. ReqOK(p) /\ Calling(p, c) /\ Earned(p)
      BY <3>1 DEF ClaimInv, ReqsOK
    <3>3. p.at = "claim" => TaskKey(p.user) \in Keys
      <4>1. p = Free => p.at # "claim"
        BY DEF Free
      <4>2. QED
        BY <3>2, <4>1, ReqShape DEF Keys
    <3>4. Earned(p)'
      BY <3>2, <3>3, ServedStays DEF Earned, ClaimInv
    <3>5. QED
      BY <3>2, <3>4
  <2>3. QED
    BY <2>1, <2>2
<1>3. QED
  BY <1>1, <1>2 DEF ReqsOK, ReqOK, Calling, Earned

(***************************************************************************)
(* Claims stay paid.                                                        *)
(***************************************************************************)
LEMMA ClaimsStay ==
  ASSUME ClaimInv, CreditMove, claims' = claims
  PROVE  ClaimsOK'
<1>1. ASSUME NEW u \in Users, claims[u] # 0
      PROVE  P!Served(TaskKey(u))'
  BY <1>1, ServedStays DEF ClaimInv, ClaimsOK, Keys
<1>2. QED
  BY <1>1 DEF ClaimInv, ClaimsOK

(***************************************************************************)
(* A step that neither starts nor passes the payout of a task.              *)
(***************************************************************************)
LEMMA QuietStep ==
  ASSUME ClaimInv, CreditMove, NEW w \in Workers, NEW q, ReqOK(q),
         q.at \notin {"grant", "claim"},
         reqs' = [reqs EXCEPT ![w] = q],
         \A v \in Workers \ {w} : calls'[v] = calls[v],
         claims' = claims
  PROVE  ClaimInv'
<1>1. P!PayoutOK'
  BY PayoutStep DEF ClaimInv
<1>2. ReqsOK'
  BY RequestStep DEF Calling, Earned
<1>3. ClaimsOK'
  BY ClaimsStay
<1>4. QED
  BY <1>1, <1>2, <1>3 DEF ClaimInv

(***************************************************************************)
(* What a worker's step does to the calls of the others.                    *)
(***************************************************************************)
LEMMA CallsOfOthers ==
  ASSUME P!PayoutOK, NEW w \in Workers,
         \/ UNCHANGED creditVars
         \/ Credit!Return(w) /\ UNCHANGED <<final, applied, sent>>
         \/ \E k \in Keys : \E a : a # 0 /\ Pay(w, k, a)
  PROVE  CreditMove /\ \A v \in Workers \ {w} : calls'[v] = calls[v]
<1>1. CreditMove
  BY DEF CreditMove
<1>2. \/ calls' = calls
      \/ \E c : calls' = [calls EXCEPT ![w] = c]
  BY DEF creditVars, Credit!Return, Pay, Credit!Call
<1>3. QED
  BY <1>1, <1>2 DEF P!PayoutOK, P!CallsOK

(***************************************************************************)
(* The steps of a draw, and the answers to claims.                          *)
(***************************************************************************)
LEMMA DrawStep ==
  ASSUME ClaimInv, NEW w \in Workers,
         \/ \E u \in Users : BeginDraw(w, u) \/ BeginClaim(w, u)
         \/ SumSpent(w)
         \/ Reserve(w)
         \/ PrizePaid(w)
         \/ PrizeFailed(w)
         \/ CheckProgress(w)
  PROVE  ClaimInv'
<1>0. P!PayoutOK /\ ReqOK(reqs[w]) /\ (reqs[w].at # "free" => reqs[w] # Free)
  BY DEF ClaimInv, ReqsOK, Free
<1>1. ASSUME NEW u \in Users, BeginDraw(w, u)
      PROVE  ClaimInv'
  <2>1. ReqOK(Drawing("sum", u, 0, 0)) /\ Drawing("sum", u, 0, 0).at = "sum"
    BY DEF ReqOK, Drawing, DrawSteps
  <2>2. QED
    BY <1>0, <1>1, <2>1, CallsOfOthers, QuietStep DEF BeginDraw, rows
<1>2. ASSUME NEW u \in Users, BeginClaim(w, u)
      PROVE  ClaimInv'
  <2>1. PICK r \in TaskRewards : reqs' = [reqs EXCEPT ![w] = Claiming("progress", u, r)]
    BY <1>2 DEF BeginClaim
  <2>2. ReqOK(Claiming("progress", u, r)) /\ Claiming("progress", u, r).at = "progress"
    BY DEF ReqOK, Claiming, ClaimSteps
  <2>3. QED
    BY <1>0, <1>2, <2>1, <2>2, CallsOfOthers, QuietStep DEF BeginClaim, rows
<1>3. CASE SumSpent(w)
  <2>1. PICK q : q = Drawing("reserve", UserOf(w), Spent, 0)
    OBVIOUS
  <2>2. UserOf(w) \in Users
    BY <1>0, <1>3, ReqShape DEF SumSpent, UserOf
  <2>3. ReqOK(q) /\ q.at = "reserve"
    BY <2>1, <2>2 DEF ReqOK, Drawing, DrawSteps
  <2>4. reqs' = [reqs EXCEPT ![w] = q]
    BY <1>3, <2>1 DEF SumSpent
  <2>5. QED
    BY <1>0, <1>3, <2>3, <2>4, CallsOfOthers, QuietStep DEF SumSpent, rows
<1>4. CASE Reserve(w)
  <2>1. UserOf(w) \in Users /\ reqs[w] # Free /\ reqs[w].at = "reserve"
    BY <1>0, <1>4, ReqShape DEF Reserve, UserOf
  <2>2. PICK p \in Prizes :
            \/ Goto(w, "finalize") /\ UNCHANGED creditVars
            \/ /\ Resolve(p, reqs[w].spent) > 0
               /\ reqs' = [reqs EXCEPT ![w] =
                      Drawing("pay", UserOf(w), reqs[w].spent, Resolve(p, reqs[w].spent))]
               /\ Pay(w, DrawKey(UserOf(w)), Resolve(p, reqs[w].spent))
    BY <1>4 DEF Reserve, Spin
  <2>3. CASE Goto(w, "finalize") /\ UNCHANGED creditVars
    <3>1. PICK q : q = [reqs[w] EXCEPT !.at = "finalize"]
      OBVIOUS
    <3>2. ReqOK(q) /\ q.at = "finalize"
      BY <1>0, <2>1, <3>1, ReqShape DEF DrawSteps
    <3>3. reqs' = [reqs EXCEPT ![w] = q]
      BY <2>3, <3>1 DEF Goto
    <3>4. QED
      BY <1>0, <1>4, <2>3, <3>2, <3>3, CallsOfOthers, QuietStep DEF Reserve
  <2>4. CASE /\ Resolve(p, reqs[w].spent) > 0
             /\ reqs' = [reqs EXCEPT ![w] =
                    Drawing("pay", UserOf(w), reqs[w].spent, Resolve(p, reqs[w].spent))]
             /\ Pay(w, DrawKey(UserOf(w)), Resolve(p, reqs[w].spent))
    <3>1. PICK a, s : a = Resolve(p, reqs[w].spent) /\ s = reqs[w].spent
      OBVIOUS
    <3>2. PICK u \in Users : u = UserOf(w)
      BY <2>1
    <3>3. ReqOK(Drawing("pay", u, s, a)) /\ Drawing("pay", u, s, a).at = "pay"
      BY DEF ReqOK, Drawing, DrawSteps
    <3>4. a > 0 /\ Pay(w, DrawKey(u), a) /\ reqs' = [reqs EXCEPT ![w] = Drawing("pay", u, s, a)]
      BY <2>4, <3>1, <3>2
    <3>5. DrawKey(u) \in Keys
      BY DEF Keys
    <3>6. a # 0
      BY <3>4
    <3>7. QED
      BY <1>0, <1>4, <3>3, <3>4, <3>5, <3>6, CallsOfOthers, QuietStep DEF Reserve
  <2>5. QED
    BY <2>2, <2>3, <2>4
<1>5. CASE PrizePaid(w) \/ PrizeFailed(w)
  <2>1. PICK at \in {"finalize", "release"} : Goto(w, at)
    BY <1>5 DEF PrizePaid, PrizeFailed, PayoutEnds
  <2>2. PICK q : q = [reqs[w] EXCEPT !.at = at]
    OBVIOUS
  <2>3. ReqOK(q) /\ q.at = at
    <3>1. reqs[w].at = "pay"
      BY <1>5 DEF PrizePaid, PrizeFailed, PayoutEnds
    <3>2. reqs[w].at \in DrawSteps /\ at \in DrawSteps /\ reqs[w] # Free
      BY <1>0, <3>1 DEF DrawSteps
    <3>3. QED
      BY <1>0, <2>2, <3>2, ReqShape
  <2>4. reqs' = [reqs EXCEPT ![w] = q]
    BY <2>1, <2>2 DEF Goto
  <2>5. QED
    BY <1>0, <1>5, <2>3, <2>4, CallsOfOthers, QuietStep
    DEF PrizePaid, PrizeFailed, PayoutEnds, rows
<1>6. CASE CheckProgress(w)
  <2>1. PICK q : q = [reqs[w] EXCEPT !.at = "lookup"]
    OBVIOUS
  <2>2. ReqOK(q) /\ q.at = "lookup"
    BY <1>0, <1>6, <2>1, ReqShape DEF CheckProgress, ClaimSteps
  <2>3. reqs' = [reqs EXCEPT ![w] = q]
    BY <1>6, <2>1 DEF CheckProgress, Goto
  <2>4. QED
    BY <1>0, <1>6, <2>2, <2>3, CallsOfOthers, QuietStep DEF CheckProgress, rows
<1>7. QED
  BY <1>1, <1>2, <1>3, <1>4, <1>5, <1>6

(***************************************************************************)
(* Steps that answer the request without a claim.                           *)
(***************************************************************************)
LEMMA ReplyStep ==
  ASSUME ClaimInv, NEW w \in Workers,
         \/ DrawRefused(w)
         \/ Finalize(w)
         \/ Release(w)
         \/ ClaimRefused(w)
         \/ GrantFailed(w)
         \/ InsertClaimFails(w)
  PROVE  ClaimInv'
<1>1. reqs' = [reqs EXCEPT ![w] = Free] /\ claims' = claims
  BY DEF DrawRefused, Finalize, Release, ClaimRefused, GrantFailed, InsertClaimFails, Reply, rows
<1>2. UNCHANGED creditVars \/ (Credit!Return(w) /\ UNCHANGED <<final, applied, sent>>)
  BY DEF DrawRefused, Finalize, Release, ClaimRefused, GrantFailed, InsertClaimFails
<1>3. ReqOK(Free) /\ Free.at \notin {"grant", "claim"}
  BY DEF ReqOK, Free
<1>4. P!PayoutOK
  BY DEF ClaimInv
<1>5. QED
  BY <1>1, <1>2, <1>3, <1>4, CallsOfOthers, QuietStep

(***************************************************************************)
(* The payout of a task: begun, ended well, claimed.                        *)
(***************************************************************************)
LEMMA TaskStep ==
  ASSUME ClaimInv, NEW w \in Workers,
         LookupClaim(w) \/ GrantPaid(w) \/ InsertClaim(w)
  PROVE  ClaimInv'
<1>0. /\ P!PayoutOK /\ ReqsOK
      /\ ReqOK(reqs[w]) /\ Calling(reqs[w], calls[w]) /\ Earned(reqs[w])
      /\ P!CallOK(calls[w])
  BY DEF ClaimInv, ReqsOK, P!PayoutOK, P!CallsOK
<1>1. /\ reqs[w].at \in {"lookup", "grant", "claim"}
      /\ reqs[w] # Free
      /\ reqs[w].at \in ClaimSteps
  <2>1. reqs[w].at \in {"lookup", "grant", "claim"}
    BY DEF LookupClaim, GrantPaid, InsertClaim, PayoutEnds
  <2>2. QED
    BY <2>1 DEF Free, ClaimSteps
<1>2. PICK u \in Users, a \in TaskRewards : u = UserOf(w) /\ a = reqs[w].amount
  BY <1>0, <1>1, ReqShape DEF UserOf
<1>3. a # 0 /\ TaskKey(u) \in Keys
  BY RewardsAssumption DEF Keys
<1>4. CASE LookupClaim(w)
  <2>1. Pay(w, TaskKey(u), a)
    BY <1>2, <1>4 DEF LookupClaim
  <2>2. PICK q : q = [reqs[w] EXCEPT !.at = "grant"]
    OBVIOUS
  <2>3. ReqOK(q) /\ q.at = "grant" /\ q.user = u
    <3>1. "grant" \in ClaimSteps
      BY DEF ClaimSteps
    <3>2. QED
      BY <1>0, <1>1, <1>2, <2>2, <3>1, ReqShape DEF UserOf
  <2>4. reqs' = [reqs EXCEPT ![w] = q] /\ claims' = claims
    BY <1>4, <2>2 DEF LookupClaim, Goto, rows
  <2>5. CreditMove /\ \A v \in Workers \ {w} : calls'[v] = calls[v]
    BY <1>0, <1>3, <2>1, CallsOfOthers
  <2>6. ASSUME NEW c, c = calls'[w]
        PROVE  Calling(q, c)
    <3>1. c = [pc |-> "running", req |-> [key |-> TaskKey(u), delta |-> a]]
      BY <1>0, <2>1, <2>6 DEF Pay, Credit!Call, P!PayoutOK, P!CallsOK
    <3>2. QED
      BY <2>3, <3>1 DEF Calling, P!Idle
  <2>7. Earned(q)'
    BY <2>3 DEF Earned
  <2>8. ReqsOK'
    BY <2>3, <2>4, <2>5, <2>6, <2>7, RequestStep
  <2>9. QED
    BY <1>0, <2>4, <2>5, <2>8, PayoutStep, ClaimsStay DEF ClaimInv
<1>5. CASE GrantPaid(w)
  <2>1. /\ reqs[w].at = "grant"
        /\ calls[w].pc \in {"ok", "skipped"}
        /\ Credit!Return(w)
        /\ UNCHANGED <<final, applied, sent>>
    BY <1>5 DEF GrantPaid, PayoutEnds
  <2>2. PICK q : q = [reqs[w] EXCEPT !.at = "claim"]
    OBVIOUS
  <2>3. ReqOK(q) /\ q.at = "claim" /\ q.user = u
    <3>1. "claim" \in ClaimSteps
      BY DEF ClaimSteps
    <3>2. QED
      BY <1>0, <1>1, <1>2, <2>2, <3>1, ReqShape DEF UserOf
  <2>4. reqs' = [reqs EXCEPT ![w] = q] /\ claims' = claims
    BY <1>5, <2>2 DEF GrantPaid, PayoutEnds, Goto, rows
  <2>5. CreditMove /\ \A v \in Workers \ {w} : calls'[v] = calls[v]
    BY <1>0, <2>1, CallsOfOthers
  <2>6. P!Served(TaskKey(u))
    BY <1>0, <1>2, <2>1 DEF Calling, P!CallOK, UserOf
  <2>7. Earned(q)'
    BY <1>0, <1>3, <2>3, <2>5, <2>6, ServedStays DEF Earned
  <2>8. \A c : Calling(q, c)
    BY <2>3 DEF Calling
  <2>9. ReqsOK'
    BY <2>3, <2>4, <2>5, <2>7, <2>8, RequestStep
  <2>10. QED
    BY <1>0, <2>4, <2>5, <2>9, PayoutStep, ClaimsStay DEF ClaimInv
<1>6. CASE InsertClaim(w)
  <2>1. /\ reqs[w].at = "claim"
        /\ UNCHANGED creditVars
        /\ reqs' = [reqs EXCEPT ![w] = Free]
        /\ claims' = [claims EXCEPT ![u] = a]
    BY <1>2, <1>6 DEF InsertClaim, Reply
  <2>2. CreditMove /\ \A v \in Workers \ {w} : calls'[v] = calls[v]
    BY <1>0, <2>1, CallsOfOthers
  <2>3. ReqOK(Free) /\ (\A c : Calling(Free, c)) /\ Earned(Free)'
    BY DEF ReqOK, Calling, Earned, Free
  <2>4. ReqsOK'
    BY <2>1, <2>2, <2>3, RequestStep
  <2>5. P!Served(TaskKey(u))
    BY <1>0, <1>2, <2>1 DEF Earned, UserOf
  <2>6. \A v \in Users : claims'[v] # 0 => P!Served(TaskKey(v))
    BY <2>1, <2>5 DEF ClaimInv, ClaimsOK
  <2>7. \A v \in Users : P!Served(TaskKey(v)) => P!Served(TaskKey(v))'
    BY <1>0, <2>2, ServedStays DEF Keys
  <2>8. ClaimsOK'
    BY <2>1, <2>6, <2>7 DEF ClaimInv, ClaimsOK
  <2>9. QED
    BY <1>0, <2>2, <2>4, <2>8, PayoutStep DEF ClaimInv
<1>7. QED
  BY <1>4, <1>5, <1>6

(***************************************************************************)
(* Steps of the payout service, of upstream, and a crash.                   *)
(***************************************************************************)
LEMMA ServiceStep ==
  ASSUME ClaimInv, (\E w \in Workers : CreditStep(w)) \/ Upstream \/ Crash
  PROVE  ClaimInv'
<1>1. CreditMove /\ claims' = claims
  BY DEF CreditMove, CreditStep, Upstream, Crash, rows
<1>2. P!PayoutOK' /\ ClaimsOK'
  BY <1>1, PayoutStep, ClaimsStay DEF ClaimInv
<1>3. ReqsOK'
  <2>1. CASE Crash
    BY <2>1 DEF Crash, ReqsOK, ReqOK, Calling, Earned, Free
  <2>2. CASE (\E w \in Workers : CreditStep(w)) \/ Upstream
    <3>1. reqs' = reqs
      BY <2>2 DEF CreditStep, Upstream
    <3>2. ASSUME NEW v \in Workers, calls[v] # P!Idle
          PROVE  calls'[v] # P!Idle /\ calls'[v].req = calls[v].req
      <4>1. CASE Upstream
        BY <3>2, <4>1 DEF Upstream, Credit!Upstream, Credit!Apply, Credit!Lose
      <4>2. ASSUME NEW w \in Workers, CreditStep(w)
            PROVE  calls'[v] # P!Idle /\ calls'[v].req = calls[v].req
        <5>1. \/ calls' = calls
              \/ \E pc \in {"ok", "skipped", "error"} :
                    calls' = [calls EXCEPT ![w] = [pc |-> pc, req |-> calls[w].req]]
          BY <4>2 DEF CreditStep, Credit!WorkerStep, Credit!Send, Credit!Succeed, Credit!Skip,
             Credit!Fail, Credit!End
        <5>2. QED
          BY <3>2, <5>1 DEF ClaimInv, P!PayoutOK, P!CallsOK, P!Idle
      <4>3. QED
        BY <2>2, <4>1, <4>2
    <3>3. ASSUME NEW v \in Workers, NEW p, p = reqs[v], NEW c, c = calls'[v]
          PROVE  ReqOK(p) /\ Calling(p, c) /\ Earned(p)'
      <4>1. ReqOK(p) /\ Calling(p, calls[v]) /\ Earned(p)
        BY <3>3 DEF ClaimInv, ReqsOK
      <4>2. Calling(p, c)
        BY <3>2, <3>3, <4>1 DEF Calling
      <4>3. p.at = "claim" => TaskKey(p.user) \in Keys
        BY <4>1, ReqShape DEF Keys, Free
      <4>4. Earned(p)'
        BY <1>1, <4>1, <4>3, ServedStays DEF Earned, ClaimInv
      <4>5. QED
        BY <4>1, <4>2, <4>4
    <3>4. QED
      BY <3>1, <3>3 DEF ClaimInv, ReqsOK, ReqOK, Calling, Earned
  <2>3. QED
    BY <2>1, <2>2
<1>4. QED
  BY <1>2, <1>3 DEF ClaimInv

(***************************************************************************)
(* Every step keeps claims, requests and calls as they should be.           *)
(***************************************************************************)
LEMMA ClaimNext == ASSUME ClaimInv, [Next]_vars PROVE ClaimInv'
<1>1. CASE UNCHANGED vars
  <2>1. /\ final' = final /\ applied' = applied /\ sent' = sent /\ calls' = calls
        /\ claims' = claims /\ reqs' = reqs
    BY <1>1 DEF vars, creditVars, rows
  <2>2. \A k : P!Served(k)' = P!Served(k)
    BY <2>1 DEF P!Served, P!Moved, P!Final
  <2>3. P!PayoutOK'
    BY <2>1, PayoutStep DEF ClaimInv, CreditMove, creditVars
  <2>4. ClaimsOK'
    BY <2>1, <2>2 DEF ClaimInv, ClaimsOK
  <2>5. ReqsOK'
    BY <2>1, <2>2 DEF ClaimInv, ReqsOK, ReqOK, Calling, Earned
  <2>6. QED
    BY <2>3, <2>4, <2>5 DEF ClaimInv
<1>2. CASE Next
  BY <1>2, DrawStep, ReplyStep, TaskStep, ServiceStep DEF Next, Step
<1>3. QED
  BY <1>1, <1>2

(***************************************************************************)
(* A claimed task has a final ledger row and, unless the user's number      *)
(* reads like a hit, money behind it, for any number of workers and users,  *)
(* any rewards and any order of steps.                                      *)
(***************************************************************************)
THEOREM ClaimsArePaid == Spec => []ClaimIsPaid
<1>1. ClaimInv /\ [Next]_vars => ClaimInv'
  BY ClaimNext
<1>2. ClaimInv => ClaimIsPaid
  BY DEF ClaimInv, ClaimsOK, ClaimIsPaid, P!Served, P!Moved, P!Final, Credit!Final, UpKeyOf, Keys,
     TaskKey, TaskPayOf, Unsure
<1>3. QED
  BY <1>1, <1>2, ClaimInit, PTL DEF Spec

-----------------------------------------------------------------------------
(***************************************************************************)
(* Rows and money.  A call is the payout its request waits for; a prize is  *)
(* settled before the request that holds the row sees the payout end well.  *)
(***************************************************************************)
Priced(q) ==
    /\ q.at \in {"sum", "reserve"} => q.amount = 0
    /\ q.at \in {"pay", "finalize"} => q.amount # NoRow

KeyOf(q) == IF q.at = "pay" THEN DrawKey(q.user) ELSE TaskKey(q.user)

CallFor(q, c) ==
    /\ q.at \in {"pay", "grant"} => c # P!Idle
    /\ c # P!Idle => q.at \in {"pay", "grant"} /\ c.req = [key |-> KeyOf(q), delta |-> q.amount]

CallsFit == \A w \in Workers : Priced(reqs[w]) /\ CallFor(reqs[w], calls[w])

\* The prize a has reached upstream, for good; a lookalike's may still do so.
AtRest(u, a) ==
    \/ P!Calm(DrawKey(u)) /\ PrizeOf(u) = a
    \/ u \in Lookalikes /\ P!Asked(DrawKey(u), a)

\* Nobody has u's row in hand: upstream shows what the row shows.
Unheld(u) ==
    IF slots[u] = NoRow THEN P!Calm(DrawKey(u)) /\ PrizeOf(u) = 0 ELSE AtRest(u, slots[u])

\* Worker w alone has it, and upstream shows nothing or w's prize.
HeldBy(w, u) ==
    /\ \A v \in Workers : Holds(v, u) => v = w
    /\ slots[u] # NoRow
    /\ reqs[w].at = "pay" => P!Asked(DrawKey(u), reqs[w].amount)
    /\ reqs[w].at = "finalize" => AtRest(u, reqs[w].amount)

PrizeOK(u) ==
    /\ (\A w \in Workers : ~Holds(w, u)) => Unheld(u)
    /\ \A w \in Workers : Holds(w, u) => HeldBy(w, u)

\* Nobody collects the task, and nobody has been paid for it.
Uncollected(u) == claims[u] = 0 /\ \A w \in Workers : ~Collects(w, u)
TaskOK(u) == Uncollected(u) => P!Calm(TaskKey(u)) /\ TaskPayOf(u) = 0

RewardInv ==
    /\ ClaimInv
    /\ CallsFit
    /\ slots = [u \in Users |-> slots[u]]
    /\ \A u \in Users \ troubled : PrizeOK(u) /\ TaskOK(u)

LEMMA KeysDiffer ==
  ASSUME NEW u, NEW v
  PROVE  /\ DrawKey(u) = DrawKey(v) => u = v
         /\ TaskKey(u) = TaskKey(v) => u = v
         /\ DrawKey(u) # TaskKey(v)
  BY DEF DrawKey, TaskKey

LEMMA RewardInit == Init => RewardInv
<1> SUFFICES ASSUME Init PROVE RewardInv
  OBVIOUS
<1>1. ClaimInv
  BY ClaimInit
<1>2. CallsFit
  BY DEF Init, Credit!Init, CallsFit, Priced, CallFor, Free, P!Idle, Credit!Idle
<1>3. ASSUME NEW u \in Users
      PROVE  PrizeOK(u) /\ TaskOK(u)
  <2>1. \A w \in Workers : ~Holds(w, u)
    BY DEF Init, Holds, Free
  <2>2. DrawKey(u) \in Keys /\ TaskKey(u) \in Keys
    BY DEF Keys
  <2>3. QED
    BY <2>1, <2>2 DEF Init, Credit!Init, PrizeOK, Unheld, TaskOK, P!Calm, PrizeOf, TaskPayOf
<1>4. QED
  BY <1>1, <1>2, <1>3 DEF RewardInv, Init

(***************************************************************************)
(* Who calls under a user's keys holds the user's row, or collects.         *)
(***************************************************************************)
LEMMA Callers ==
  ASSUME RewardInv, NEW u \in Users, NEW w \in Workers
  PROVE  /\ P!Under(w, DrawKey(u)) => /\ Holds(w, u) /\ reqs[w].at = "pay"
                                      /\ calls[w].req.delta = reqs[w].amount
         /\ P!Under(w, TaskKey(u)) => Collects(w, u)
<1>1. CallFor(reqs[w], calls[w]) /\ P!CallOK(calls[w]) /\ ReqOK(reqs[w])
  BY DEF RewardInv, CallsFit, ClaimInv, P!PayoutOK, P!CallsOK, ReqsOK
<1>2. CASE calls[w] = P!Idle
  BY <1>2 DEF P!Under
<1>3. CASE calls[w] # P!Idle
  <2>1. /\ reqs[w].at \in {"pay", "grant"}
        /\ calls[w].req.key = KeyOf(reqs[w]) /\ calls[w].req.delta = reqs[w].amount
        /\ calls[w].req.key \in Keys
    BY <1>1, <1>3 DEF CallFor, P!CallOK
  <2>2. UpKeyOf[calls[w].req.key] = KeyOf(reqs[w])
    BY <2>1 DEF UpKeyOf
  <2>3. QED
    BY <2>1, <2>2, KeysDiffer DEF P!Under, KeyOf, Holds, Collects, UserOf
<1>4. QED
  BY <1>2, <1>3

(***************************************************************************)
(* What is at rest stays so while nobody asks.                              *)
(***************************************************************************)
LEMMA RestStays ==
  ASSUME RewardInv, CreditMove, NEW u \in Users, NEW a, AtRest(u, a),
         \A w \in Workers : ~P!Under(w, DrawKey(u))
  PROVE  AtRest(u, a)'
<1>1. P!PayoutOK /\ P!Mapped /\ P!Move /\ DrawKey(u) \in Keys
  BY MoveIsMove, MappedHolds DEF RewardInv, ClaimInv, Keys
<1>2. CASE P!Calm(DrawKey(u)) /\ PrizeOf(u) = a
  <2>1. P!Calm(DrawKey(u))' /\ PrizeOf(u)' = PrizeOf(u)
    BY <1>1, <1>2, P!CalmStays DEF PrizeOf
  <2>2. QED
    BY <1>2, <2>1 DEF AtRest
<1>3. CASE u \in Lookalikes /\ P!Asked(DrawKey(u), a)
  <2>1. P!Asked(DrawKey(u), a)'
    BY <1>1, <1>3, P!AskedStays
  <2>2. QED
    BY <1>3, <2>1 DEF AtRest
<1>4. QED
  BY <1>2, <1>3 DEF AtRest

(***************************************************************************)
(* A step that leaves u's row and its holder alone.                         *)
(***************************************************************************)
LEMMA PrizeKept ==
  ASSUME RewardInv, CreditMove, NEW u \in Users \ troubled,
         slots'[u] = slots[u],
         \A v \in Workers : Holds(v, u) \/ Holds(v, u)' => reqs'[v] = reqs[v]
  PROVE  PrizeOK(u)'
<1>1. /\ P!PayoutOK /\ P!Mapped /\ P!Move /\ PrizeOK(u) /\ DrawKey(u) \in Keys
      /\ \A v \in Workers : Holds(v, u)' = Holds(v, u)
  BY MoveIsMove, MappedHolds DEF RewardInv, ClaimInv, Keys, Holds, UserOf
<1>2. ASSUME \A w \in Workers : ~Holds(w, u)'
      PROVE  Unheld(u)'
  <2>1. \A w \in Workers : ~P!Under(w, DrawKey(u))
    BY <1>1, <1>2, Callers
  <2>2. Unheld(u)
    BY <1>1, <1>2 DEF PrizeOK
  <2>3. CASE slots[u] = NoRow
    <3>1. P!Calm(DrawKey(u))' /\ PrizeOf(u)' = PrizeOf(u)
      BY <1>1, <2>1, <2>2, <2>3, P!CalmStays DEF Unheld, PrizeOf
    <3>2. QED
      BY <2>2, <2>3, <3>1 DEF Unheld
  <2>4. CASE slots[u] # NoRow
    <3>1. PICK a : a = slots[u]
      OBVIOUS
    <3>2. AtRest(u, a)'
      BY <2>1, <2>2, <2>4, <3>1, RestStays DEF Unheld
    <3>3. QED
      BY <2>4, <3>1, <3>2 DEF Unheld, AtRest
  <2>5. QED
    BY <2>3, <2>4
<1>3. ASSUME NEW w \in Workers, Holds(w, u)'
      PROVE  HeldBy(w, u)'
  <2>1. HeldBy(w, u) /\ reqs'[w] = reqs[w]
    BY <1>1, <1>3 DEF PrizeOK
  <2>2. CASE reqs[w].at = "pay"
    <3>1. \A v \in Workers : P!Under(v, DrawKey(u)) => calls[v].req.delta = reqs[w].amount
      BY <2>1, Callers DEF HeldBy
    <3>2. PICK a : a = reqs[w].amount
      OBVIOUS
    <3>3. P!Asked(DrawKey(u), a)'
      BY <1>1, <2>1, <2>2, <3>1, <3>2, P!AskedStays DEF HeldBy
    <3>4. QED
      BY <1>1, <2>1, <2>2, <3>2, <3>3 DEF HeldBy, P!Asked
  <2>3. CASE reqs[w].at # "pay"
    <3>1. \A v \in Workers : ~P!Under(v, DrawKey(u))
      BY <2>1, <2>3, Callers DEF HeldBy
    <3>2. PICK a : a = reqs[w].amount
      OBVIOUS
    <3>3. reqs[w].at = "finalize" => AtRest(u, a)'
      BY <2>1, <3>1, <3>2, RestStays DEF HeldBy
    <3>4. QED
      BY <1>1, <2>1, <2>3, <3>2, <3>3 DEF HeldBy, AtRest
  <2>4. QED
    BY <2>2, <2>3
<1>4. QED
  BY <1>2, <1>3 DEF PrizeOK

(***************************************************************************)
(* A step after which u is uncollected only if it was so before.            *)
(***************************************************************************)
LEMMA TaskKept ==
  ASSUME RewardInv, CreditMove, NEW u \in Users \ troubled,
         Uncollected(u)' => Uncollected(u)
  PROVE  TaskOK(u)'
<1> SUFFICES ASSUME Uncollected(u)'
             PROVE  P!Calm(TaskKey(u))' /\ TaskPayOf(u)' = 0
  BY DEF TaskOK
<1>1. P!PayoutOK /\ P!Mapped /\ P!Move /\ TaskKey(u) \in Keys
  BY MoveIsMove, MappedHolds DEF RewardInv, ClaimInv, Keys
<1>2. P!Calm(TaskKey(u)) /\ applied[TaskKey(u)] = 0
  BY DEF RewardInv, TaskOK, TaskPayOf
<1>3. \A w \in Workers : ~P!Under(w, TaskKey(u))
  BY Callers DEF Uncollected
<1>4. QED
  BY <1>1, <1>2, <1>3, P!CalmStays DEF TaskPayOf

(***************************************************************************)
(* What a step of worker w does to requests and calls: w's request becomes  *)
(* q, of the same user, and its call is the one that q waits for.           *)
(***************************************************************************)
Moves(w, q) ==
    /\ reqs' = [reqs EXCEPT ![w] = q]
    /\ Priced(q)
    /\ \A c : c = calls'[w] => CallFor(q, c)
    /\ reqs[w] # Free /\ q # Free => q.user = reqs[w].user

LEMMA MovesFit ==
  ASSUME RewardInv, NEW w \in Workers, NEW q, Moves(w, q),
         \A v \in Workers \ {w} : calls'[v] = calls[v]
  PROVE  CallsFit'
<1>1. ASSUME NEW v \in Workers, NEW p, p = reqs'[v], NEW c, c = calls'[v]
      PROVE  Priced(p) /\ CallFor(p, c)
  <2>1. CASE v = w
    <3>1. p = q
      BY <1>1, <2>1 DEF Moves, RewardInv, ClaimInv, ReqsOK
    <3>2. QED
      BY <1>1, <2>1, <3>1 DEF Moves
  <2>2. CASE v # w
    <3>1. p = reqs[v] /\ c = calls[v]
      BY <1>1, <2>2 DEF Moves, RewardInv, ClaimInv, ReqsOK
    <3>2. QED
      BY <3>1 DEF RewardInv, CallsFit
  <2>3. QED
    BY <2>1, <2>2
<1>2. QED
  BY <1>1 DEF CallsFit, Priced, CallFor, KeyOf

(***************************************************************************)
(* A worker that goes on to another place of the same handler.              *)
(***************************************************************************)
LEMMA GotoMoves ==
  ASSUME RewardInv, NEW w \in Workers, NEW at, Goto(w, at), reqs[w].at # "free",
         \/ reqs[w].at \in DrawSteps /\ at \in DrawSteps
         \/ reqs[w].at \in ClaimSteps /\ at \in ClaimSteps
  PROVE  \E q : /\ q.at = at /\ q.user = UserOf(w) /\ q.amount = reqs[w].amount
                /\ ReqOK(q) /\ q # Free /\ UserOf(w) \in Users
                /\ reqs' = [reqs EXCEPT ![w] = q]
<1>1. ReqOK(reqs[w]) /\ reqs[w] # Free
  BY DEF RewardInv, ClaimInv, ReqsOK, Free
<1>2. PICK q : q = [reqs[w] EXCEPT !.at = at]
  OBVIOUS
<1>3. q.at = at /\ q.user = UserOf(w) /\ q.amount = reqs[w].amount /\ ReqOK(q)
  BY <1>1, <1>2, ReqShape DEF UserOf
<1>4. q # Free
  BY <1>3 DEF Free, DrawSteps, ClaimSteps
<1>5. QED
  BY <1>1, <1>2, <1>3, <1>4, ReqShape DEF Goto, UserOf

(***************************************************************************)
(* Every step of a handler moves its worker's request.                      *)
(***************************************************************************)
LEMMA StepMoves ==
  ASSUME RewardInv, NEW w \in Workers,
         \/ \E u \in Users : BeginDraw(w, u) \/ BeginClaim(w, u)
         \/ Step(w) /\ ~CreditStep(w)
  PROVE  \E q : Moves(w, q)
<1>0. /\ P!PayoutOK /\ ReqOK(reqs[w]) /\ (reqs[w].at # "free" => reqs[w] # Free)
      /\ Priced(reqs[w]) /\ CallFor(reqs[w], calls[w])
      /\ P!CallOK(calls[w])
      /\ calls = [v \in Workers |-> calls[v]]
  BY DEF RewardInv, CallsFit, ClaimInv, ReqsOK, Free, P!PayoutOK, P!CallsOK
<1> DEFINE Waits == {"pay", "grant"}
<1>1. ASSUME NEW u \in Users, BeginDraw(w, u)
      PROVE  \E q : Moves(w, q)
  <2>1. Priced(Drawing("sum", u, 0, 0)) /\ CallFor(Drawing("sum", u, 0, 0), P!Idle)
    BY DEF Priced, CallFor, Drawing
  <2>2. reqs[w] = Free /\ calls'[w] = P!Idle
    BY <1>0, <1>1 DEF BeginDraw, CallFor, Free, creditVars
  <2>3. QED
    BY <1>1, <2>1, <2>2 DEF Moves, BeginDraw
<1>2. ASSUME NEW u \in Users, BeginClaim(w, u)
      PROVE  \E q : Moves(w, q)
  <2>1. PICK r \in TaskRewards : reqs' = [reqs EXCEPT ![w] = Claiming("progress", u, r)]
    BY <1>2 DEF BeginClaim
  <2>2. Priced(Claiming("progress", u, r)) /\ CallFor(Claiming("progress", u, r), P!Idle)
    BY DEF Priced, CallFor, Claiming
  <2>3. reqs[w] = Free /\ calls'[w] = P!Idle
    BY <1>0, <1>2 DEF BeginClaim, CallFor, Free, creditVars
  <2>4. QED
    BY <2>1, <2>2, <2>3 DEF Moves
<1>3. CASE SumSpent(w)
  <2>1. PICK q : q = Drawing("reserve", UserOf(w), Spent, 0)
    OBVIOUS
  <2>2. Priced(q) /\ CallFor(q, P!Idle) /\ q.user = reqs[w].user
    BY <2>1 DEF Priced, CallFor, Drawing, UserOf
  <2>3. calls'[w] = P!Idle
    BY <1>0, <1>3 DEF SumSpent, CallFor, creditVars
  <2>4. QED
    BY <1>3, <2>1, <2>2, <2>3 DEF Moves, SumSpent
<1>4. CASE DrawRefused(w) \/ Finalize(w) \/ Release(w) \/ ClaimRefused(w) \/ GrantFailed(w)
           \/ InsertClaim(w) \/ InsertClaimFails(w)
  <2>1. reqs' = [reqs EXCEPT ![w] = Free]
    BY <1>4 DEF DrawRefused, Finalize, Release, ClaimRefused, GrantFailed, InsertClaim,
       InsertClaimFails, Reply
  <2>2. calls'[w] = P!Idle
    <3>1. CASE GrantFailed(w)
      BY <1>0, <3>1 DEF GrantFailed, Credit!Return, Credit!Idle, P!Idle
    <3>2. CASE ~GrantFailed(w)
      <4>1. calls' = calls /\ reqs[w].at \notin Waits
        BY <1>4, <3>2 DEF DrawRefused, Finalize, Release, ClaimRefused, InsertClaim,
           InsertClaimFails, creditVars
      <4>2. QED
        BY <1>0, <4>1 DEF CallFor
    <3>3. QED
      BY <3>1, <3>2
  <2>3. Priced(Free) /\ CallFor(Free, P!Idle)
    BY DEF Priced, CallFor, Free
  <2>4. QED
    BY <2>1, <2>2, <2>3 DEF Moves
<1>5. CASE Reserve(w)
  <2>1. reqs[w].at = "reserve" /\ reqs[w].amount = 0
    BY <1>0, <1>5 DEF Reserve, Priced
  <2>2. PICK p \in Prizes :
            \/ Goto(w, "finalize") /\ UNCHANGED creditVars
            \/ /\ Resolve(p, reqs[w].spent) > 0
               /\ reqs' = [reqs EXCEPT ![w] =
                      Drawing("pay", UserOf(w), reqs[w].spent, Resolve(p, reqs[w].spent))]
               /\ Pay(w, DrawKey(UserOf(w)), Resolve(p, reqs[w].spent))
    BY <1>5 DEF Reserve, Spin
  <2>3. CASE Goto(w, "finalize") /\ UNCHANGED creditVars
    <3>1. PICK q : /\ q.at = "finalize" /\ q.user = UserOf(w) /\ q.amount = 0
                   /\ reqs' = [reqs EXCEPT ![w] = q]
      BY <2>1, <2>3, GotoMoves DEF DrawSteps
    <3>2. calls'[w] = P!Idle
      BY <1>0, <2>1, <2>3 DEF CallFor, creditVars
    <3>3. Priced(q) /\ CallFor(q, P!Idle)
      BY <3>1 DEF Priced, CallFor, NoRow
    <3>4. QED
      BY <3>1, <3>2, <3>3 DEF Moves, UserOf
  <2>4. CASE /\ Resolve(p, reqs[w].spent) > 0
             /\ reqs' = [reqs EXCEPT ![w] =
                    Drawing("pay", UserOf(w), reqs[w].spent, Resolve(p, reqs[w].spent))]
             /\ Pay(w, DrawKey(UserOf(w)), Resolve(p, reqs[w].spent))
    <3>1. PICK a, s : a = Resolve(p, reqs[w].spent) /\ s = reqs[w].spent
      OBVIOUS
    <3>2. PICK q : q = Drawing("pay", UserOf(w), s, a)
      OBVIOUS
    <3>3. a > 0 /\ Pay(w, DrawKey(UserOf(w)), a) /\ reqs' = [reqs EXCEPT ![w] = q]
      BY <2>4, <3>1, <3>2
    <3>4. a # NoRow
      BY <3>3 DEF NoRow
    <3>5. q.at = "pay" /\ q.user = UserOf(w) /\ q.amount = a
      BY <3>2 DEF Drawing
    <3>6. calls'[w] = [pc |-> "running", req |-> [key |-> DrawKey(UserOf(w)), delta |-> a]]
      BY <1>0, <3>3 DEF Pay, Credit!Call
    <3>7. ASSUME NEW c, c = calls'[w]
          PROVE  CallFor(q, c)
      BY <3>5, <3>6, <3>7 DEF CallFor, KeyOf, P!Idle
    <3>8. Priced(q)
      BY <3>4, <3>5 DEF Priced
    <3>9. QED
      BY <3>3, <3>5, <3>7, <3>8 DEF Moves, UserOf
  <2>5. QED
    BY <2>2, <2>3, <2>4
<1>6. CASE PrizePaid(w) \/ PrizeFailed(w)
  <2>1. PICK at \in {"finalize", "release"} : Goto(w, at)
    BY <1>6 DEF PrizePaid, PrizeFailed, PayoutEnds
  <2>2. reqs[w].at = "pay" /\ calls'[w] = P!Idle
    BY <1>0, <1>6 DEF PrizePaid, PrizeFailed, PayoutEnds, Credit!Return, Credit!Idle, P!Idle
  <2>3. PICK q : /\ q.at = at /\ q.user = UserOf(w) /\ q.amount = reqs[w].amount
                 /\ reqs' = [reqs EXCEPT ![w] = q]
    BY <2>1, <2>2, GotoMoves DEF DrawSteps
  <2>4. Priced(q) /\ CallFor(q, P!Idle)
    BY <1>0, <2>2, <2>3 DEF Priced, CallFor
  <2>5. QED
    BY <2>2, <2>3, <2>4 DEF Moves, UserOf
<1>7. CASE CheckProgress(w)
  <2>1. reqs[w].at = "progress" /\ Goto(w, "lookup") /\ calls'[w] = P!Idle
    BY <1>0, <1>7 DEF CheckProgress, CallFor, creditVars
  <2>2. PICK q : /\ q.at = "lookup" /\ q.user = UserOf(w)
                 /\ reqs' = [reqs EXCEPT ![w] = q]
    BY <2>1, GotoMoves DEF ClaimSteps
  <2>3. QED
    BY <2>1, <2>2 DEF Moves, Priced, CallFor, UserOf
<1>8. CASE LookupClaim(w)
  <2>1. /\ reqs[w].at = "lookup" /\ Goto(w, "grant")
        /\ Pay(w, TaskKey(UserOf(w)), reqs[w].amount)
    BY <1>8 DEF LookupClaim
  <2>2. PICK q : /\ q.at = "grant" /\ q.user = UserOf(w) /\ q.amount = reqs[w].amount
                 /\ reqs' = [reqs EXCEPT ![w] = q]
    BY <2>1, GotoMoves DEF ClaimSteps
  <2>3. calls'[w] = [pc |-> "running",
                     req |-> [key |-> TaskKey(UserOf(w)), delta |-> reqs[w].amount]]
    BY <1>0, <2>1 DEF Pay, Credit!Call
  <2>4. ASSUME NEW c, c = calls'[w]
        PROVE  CallFor(q, c)
    BY <2>2, <2>3, <2>4 DEF CallFor, KeyOf, P!Idle
  <2>5. QED
    BY <2>2, <2>4 DEF Moves, Priced, UserOf
<1>9. CASE GrantPaid(w)
  <2>1. reqs[w].at = "grant" /\ Goto(w, "claim") /\ calls'[w] = P!Idle
    BY <1>0, <1>9 DEF GrantPaid, PayoutEnds, Credit!Return, Credit!Idle, P!Idle
  <2>2. PICK q : /\ q.at = "claim" /\ q.user = UserOf(w)
                 /\ reqs' = [reqs EXCEPT ![w] = q]
    BY <2>1, GotoMoves DEF ClaimSteps
  <2>3. QED
    BY <2>1, <2>2 DEF Moves, Priced, CallFor, UserOf
<1>10. QED
  BY <1>1, <1>2, <1>3, <1>4, <1>5, <1>6, <1>7, <1>8, <1>9 DEF Step

LEMMA OthersHold ==
  ASSUME RewardInv, NEW w \in Workers, NEW q, Moves(w, q), NEW u \in Users,
         ~Holds(w, u), ~Holds(w, u)'
  PROVE  \A v \in Workers : Holds(v, u) \/ Holds(v, u)' => reqs'[v] = reqs[v]
  BY DEF Moves, RewardInv, ClaimInv, ReqsOK

(***************************************************************************)
(* What a step of worker w does to another user's row, and to anybody's     *)
(* row if the step is not one of a draw that holds or takes its row.        *)
(***************************************************************************)
LEMMA OtherPrize ==
  ASSUME RewardInv, NEW w \in Workers, NEW u \in Users \ troubled,
         \/ \E x \in Users : BeginDraw(w, x) \/ BeginClaim(w, x)
         \/ Step(w) /\ ~CreditStep(w),
         CreditMove,
         \/ UserOf(w) # u
         \/ ~(Reserve(w) \/ PrizePaid(w) \/ PrizeFailed(w) \/ Finalize(w) \/ Release(w))
  PROVE  PrizeOK(u)'
<1>1. PICK q : Moves(w, q)
  BY StepMoves
<1>2. reqs'[w] = q /\ reqs = [v \in Workers |-> reqs[v]] /\ ReqOK(reqs[w])
  BY <1>1 DEF Moves, RewardInv, ClaimInv, ReqsOK
<1>3. CASE Reserve(w) \/ PrizePaid(w) \/ PrizeFailed(w) \/ Finalize(w) \/ Release(w)
  <2>1. UserOf(w) # u /\ reqs[w] # Free
    BY <1>3 DEF Reserve, PrizePaid, PrizeFailed, PayoutEnds, Finalize, Release, Free
  <2>2. ~Holds(w, u) /\ ~Holds(w, u)'
    BY <1>1, <1>2, <2>1 DEF Moves, Holds, UserOf, Free
  <2>3. slots'[u] = slots[u]
    BY <1>3, <2>1 DEF Reserve, PrizePaid, PrizeFailed, PayoutEnds, Finalize, Release, rows, RewardInv
  <2>4. QED
    BY <1>1, <2>2, <2>3, OthersHold, PrizeKept
<1>4. CASE ~(Reserve(w) \/ PrizePaid(w) \/ PrizeFailed(w) \/ Finalize(w) \/ Release(w))
  <2>1. slots' = slots
    BY <1>4 DEF BeginDraw, BeginClaim, Step, SumSpent, DrawRefused, CheckProgress, LookupClaim,
       ClaimRefused, GrantPaid, PayoutEnds, GrantFailed, InsertClaim, InsertClaimFails, rows
  <2>2. reqs[w].at \notin {"pay", "finalize", "release"}
    BY <1>4 DEF BeginDraw, BeginClaim, Step, SumSpent, DrawRefused, CheckProgress, LookupClaim,
       ClaimRefused, GrantPaid, PayoutEnds, GrantFailed, InsertClaim, InsertClaimFails, Free
  <2>3. reqs'[w].at \notin {"pay", "finalize", "release"}
    <3>1. CASE CheckProgress(w) \/ LookupClaim(w) \/ GrantPaid(w)
      <4>1. PICK at \in {"lookup", "grant", "claim"} :
                Goto(w, at) /\ reqs[w].at \in {"progress", "lookup", "grant"}
        BY <3>1 DEF CheckProgress, LookupClaim, GrantPaid, PayoutEnds
      <4>2. PICK p : p.at = at /\ reqs' = [reqs EXCEPT ![w] = p]
        BY <4>1, GotoMoves DEF ClaimSteps
      <4>3. reqs'[w] = p
        BY <1>2, <4>2
      <4>4. QED
        BY <4>2, <4>3
    <3>2. CASE ~(CheckProgress(w) \/ LookupClaim(w) \/ GrantPaid(w))
      BY <1>2, <1>4, <3>2 DEF BeginDraw, BeginClaim, Step, SumSpent, DrawRefused,
         ClaimRefused, GrantFailed, InsertClaim, InsertClaimFails, Free, Drawing, Claiming, Reply
    <3>3. QED
      BY <3>1, <3>2
  <2>4. ~Holds(w, u) /\ ~Holds(w, u)'
    BY <2>2, <2>3 DEF Holds
  <2>5. QED
    BY <1>1, <2>1, <2>4, OthersHold, PrizeKept
<1>5. QED
  BY <1>3, <1>4

(***************************************************************************)
(* The steps of a draw on the row of its own user.                          *)
(***************************************************************************)
LEMMA OwnPrize ==
  ASSUME RewardInv, NEW w \in Workers, NEW u \in Users \ troubled, u \notin troubled', CreditMove,
         UserOf(w) = u,
         Reserve(w) \/ PrizePaid(w) \/ PrizeFailed(w) \/ Finalize(w) \/ Release(w)
  PROVE  PrizeOK(u)'
<1>0. /\ P!PayoutOK /\ ReqOK(reqs[w]) /\ Priced(reqs[w]) /\ CallFor(reqs[w], calls[w])
      /\ P!CallOK(calls[w]) /\ PrizeOK(u) /\ DrawKey(u) \in Keys
      /\ slots = [x \in Users |-> slots[x]]
      /\ reqs = [v \in Workers |-> reqs[v]]
  BY DEF RewardInv, CallsFit, ClaimInv, ReqsOK, P!PayoutOK, P!CallsOK, Keys
<1> DEFINE d == DrawKey(u)
<1>1. ASSUME NEW q, reqs' = [reqs EXCEPT ![w] = q]
      PROVE  reqs'[w] = q /\ \A v \in Workers \ {w} : reqs'[v] = reqs[v]
  BY <1>0, <1>1
<1>2. CASE Reserve(w)
  <2>1. /\ reqs[w].at = "reserve" /\ reqs[w].amount = 0
        /\ slots[u] = NoRow /\ slots'[u] = 0
    BY <1>0, <1>2 DEF Reserve, Priced
  <2>2. \A v \in Workers : ~Holds(v, u)
    BY <1>0, <2>1 DEF PrizeOK, HeldBy
  <2>3. applied[d] = 0 /\ \A m \in sent : m.up # d
    BY <1>0, <2>1, <2>2 DEF PrizeOK, Unheld, P!Calm, PrizeOf
  <2>4. PICK p \in Prizes :
            \/ Goto(w, "finalize") /\ UNCHANGED creditVars
            \/ /\ Resolve(p, reqs[w].spent) > 0
               /\ reqs' = [reqs EXCEPT ![w] =
                      Drawing("pay", u, reqs[w].spent, Resolve(p, reqs[w].spent))]
               /\ Pay(w, d, Resolve(p, reqs[w].spent))
    BY <1>2 DEF Reserve, Spin
  <2>5. UNCHANGED <<applied, sent>>
    BY <2>4 DEF creditVars, Pay
  <2> DEFINE Lands(q) == /\ reqs' = [reqs EXCEPT ![w] = q]
                         /\ q.user = u
                         /\ q.at = "pay" \/ (q.at = "finalize" /\ q.amount = 0)
  <2>6. \E q : Lands(q)
    <3>1. CASE Goto(w, "finalize")
      BY <2>1, <3>1, GotoMoves DEF DrawSteps
    <3>2. ASSUME NEW s, NEW a, reqs' = [reqs EXCEPT ![w] = Drawing("pay", u, s, a)]
          PROVE  \E q : Lands(q)
      <4>1. Drawing("pay", u, s, a).at = "pay" /\ Drawing("pay", u, s, a).user = u
        BY DEF Drawing
      <4>2. QED
        BY <3>2, <4>1
    <3>3. QED
      BY <2>4, <3>1, <3>2
  <2>7. /\ Holds(w, u)'
        /\ reqs'[w].at = "pay" \/ (reqs'[w].at = "finalize" /\ reqs'[w].amount = 0)
        /\ \A v \in Workers \ {w} : ~Holds(v, u)'
    BY <1>1, <2>2, <2>6 DEF Holds, UserOf
  <2>8. HeldBy(w, u)'
    BY <2>1, <2>3, <2>5, <2>7 DEF HeldBy, AtRest, P!Calm, P!Asked, PrizeOf, NoRow
  <2>9. QED
    BY <2>7, <2>8 DEF PrizeOK
<1>3. CASE PrizePaid(w) \/ PrizeFailed(w)
  <2>1. /\ reqs[w].at = "pay" /\ UNCHANGED <<final, applied, sent, slots>>
        /\ \/ calls[w].pc \in {"ok", "skipped"} /\ Goto(w, "finalize")
           \/ Goto(w, "release")
    BY <1>3 DEF PrizePaid, PrizeFailed, PayoutEnds, rows
  <2>2. Holds(w, u) /\ HeldBy(w, u)
    BY <1>0, <2>1 DEF Holds, PrizeOK
  <2>3. PICK q, at : /\ q.at = at /\ q.user = u /\ q.amount = reqs[w].amount
                     /\ reqs' = [reqs EXCEPT ![w] = q]
                     /\ \/ at = "finalize" /\ calls[w].pc \in {"ok", "skipped"}
                        \/ at = "release"
    BY <2>1, GotoMoves DEF DrawSteps
  <2>4. at = "finalize" => applied[d] # 0 \/ u \in Lookalikes
    <3>1. calls[w] # P!Idle /\ calls[w].req.key = d
      BY <1>0, <2>1 DEF CallFor, KeyOf, UserOf
    <3>2. at = "finalize" => P!Served(d)
      BY <1>0, <2>3, <3>1 DEF P!CallOK
    <3>3. QED
      BY <1>0, <3>2 DEF P!Served, P!Moved, UpKeyOf, DrawKey
  <2>5. at = "finalize" => AtRest(u, reqs[w].amount)
    BY <1>0, <2>1, <2>2, <2>4 DEF HeldBy, AtRest, P!Asked, P!Calm, PrizeOf
  <2>6. reqs'[w] = q /\ \A v \in Workers : Holds(v, u)' <=> Holds(v, u)
    BY <1>1, <2>2, <2>3 DEF Holds, UserOf
  <2>7. HeldBy(w, u)'
    BY <2>1, <2>2, <2>3, <2>5, <2>6 DEF HeldBy, AtRest, PrizeOf, P!Calm, P!Asked
  <2>8. QED
    BY <2>2, <2>6, <2>7 DEF PrizeOK, HeldBy
<1>4. CASE Finalize(w)
  <2>1. /\ reqs[w].at = "finalize" /\ UNCHANGED <<applied, sent>>
        /\ reqs' = [reqs EXCEPT ![w] = Free]
        /\ slots' = [slots EXCEPT ![u] = reqs[w].amount]
    BY <1>4 DEF Finalize, Reply, Trouble, creditVars
  <2>2. Holds(w, u) /\ HeldBy(w, u)
    BY <1>0, <2>1 DEF Holds, PrizeOK
  <2>3. ASSUME NEW v \in Workers
        PROVE  ~Holds(v, u)'
    <3>1. CASE v = w
      <4>1. reqs'[v] = Free
        BY <1>1, <2>1, <3>1
      <4>2. QED
        BY <4>1 DEF Holds, Free
    <3>2. CASE v # w
      <4>1. reqs'[v] = reqs[v] /\ ~Holds(v, u)
        BY <1>1, <2>1, <2>2, <3>2 DEF HeldBy
      <4>2. QED
        BY <4>1 DEF Holds, UserOf
    <3>3. QED
      BY <3>1, <3>2
  <2>4. Unheld(u)'
    BY <1>0, <2>1, <2>2 DEF HeldBy, Unheld, AtRest, PrizeOf, P!Calm, P!Asked, Priced
  <2>5. QED
    BY <2>3, <2>4 DEF PrizeOK
<1>5. CASE Release(w)
  BY <1>5 DEF Release, Trouble
<1>6. QED
  BY <1>2, <1>3, <1>4, <1>5

(***************************************************************************)
(* A user leaves the ranks of those who collect with a claim, or in         *)
(* trouble.                                                                 *)
(***************************************************************************)
LEMMA OwnTask ==
  ASSUME RewardInv, NEW w \in Workers, NEW u \in Users \ troubled, u \notin troubled', CreditMove,
         \/ \E x \in Users : BeginDraw(w, x) \/ BeginClaim(w, x)
         \/ Step(w) /\ ~CreditStep(w)
  PROVE  TaskOK(u)'
<1>1. PICK q : Moves(w, q)
  BY StepMoves
<1>2. /\ reqs'[w] = q /\ (\A v \in Workers \ {w} : reqs'[v] = reqs[v])
      /\ ReqOK(reqs[w]) /\ claims = [x \in Users |-> claims[x]]
      /\ (q # Free /\ reqs[w] # Free => UserOf(w)' = UserOf(w))
  BY <1>1 DEF Moves, RewardInv, ClaimInv, ReqsOK, ClaimsOK, UserOf
<1> SUFFICES ASSUME Uncollected(u)' PROVE Uncollected(u)
  BY TaskKept
<1>3. CASE InsertClaim(w)
  <2>1. reqs[w].at = "claim" /\ reqs[w] # Free
    BY <1>3 DEF InsertClaim, Free
  <2>2. reqs[w].amount # 0 /\ UserOf(w) \in Users
    BY <1>2, <2>1, ReqShape, RewardsAssumption DEF ClaimSteps, UserOf
  <2>3. UserOf(w) # u
    BY <1>2, <1>3, <2>2 DEF InsertClaim, Uncollected
  <2>4. claims[u] = 0
    BY <1>2, <1>3, <2>3 DEF InsertClaim, Uncollected
  <2>5. QED
    BY <1>2, <2>3, <2>4 DEF Uncollected, Collects, UserOf
<1>4. CASE ~InsertClaim(w)
  <2>1. claims' = claims
    BY <1>4 DEF BeginDraw, BeginClaim, Step, SumSpent, DrawRefused, Reserve, PrizePaid, PrizeFailed,
       Finalize, Release, CheckProgress, LookupClaim, ClaimRefused, GrantPaid, PayoutEnds,
       GrantFailed, InsertClaimFails, rows
  <2>2. ASSUME Collects(w, u), ~Collects(w, u)'
        PROVE  FALSE
    <3>1. reqs[w].at \in {"grant", "claim"} /\ UserOf(w) = u /\ reqs[w] # Free
      BY <2>2 DEF Collects, Free
    <3>2. CASE GrantPaid(w)
      BY <1>2, <2>2, <3>1, <3>2, GotoMoves
      DEF GrantPaid, PayoutEnds, Collects, ClaimSteps, UserOf, RewardInv, ClaimInv, ReqsOK
    <3>3. CASE GrantFailed(w)
      BY <3>1, <3>3 DEF GrantFailed, Trouble
    <3>4. CASE InsertClaimFails(w)
      BY <2>1, <3>1, <3>4 DEF InsertClaimFails, Trouble, Uncollected
    <3>5. CASE ~(GrantPaid(w) \/ GrantFailed(w) \/ InsertClaimFails(w))
      BY <1>4, <3>1, <3>5 DEF BeginDraw, BeginClaim, Step, SumSpent, DrawRefused, Reserve, PrizePaid,
         PrizeFailed, Finalize, Release, CheckProgress, LookupClaim, ClaimRefused, PayoutEnds
    <3>6. QED
      BY <3>2, <3>3, <3>4, <3>5
  <2>3. \A v \in Workers : Collects(v, u) => Collects(v, u)'
    BY <1>2, <2>2 DEF Collects, UserOf
  <2>4. QED
    BY <2>1, <2>3 DEF Uncollected
<1>5. QED
  BY <1>3, <1>4

(***************************************************************************)
(* Every step keeps the rows and the money in line.                         *)
(***************************************************************************)
LEMMA HandlerKeeps ==
  ASSUME RewardInv, ClaimInv', NEW w \in Workers,
         \/ \E u \in Users : BeginDraw(w, u) \/ BeginClaim(w, u)
         \/ Step(w) /\ ~CreditStep(w)
  PROVE  RewardInv'
<1>1. PICK q : Moves(w, q)
  BY StepMoves
<1>2. CreditMove /\ \A v \in Workers \ {w} : calls'[v] = calls[v]
  <2>1. /\ P!PayoutOK /\ ReqOK(reqs[w])
        /\ \A u \in Users : DrawKey(u) \in Keys /\ TaskKey(u) \in Keys
    BY DEF RewardInv, ClaimInv, ReqsOK, Keys
  <2>2. CASE Reserve(w)
    <3>1. reqs[w].at = "reserve"
      BY <2>2 DEF Reserve
    <3>2. UserOf(w) \in Users
      BY <2>1, <3>1, ReqShape DEF UserOf, Free
    <3>3. PICK p \in Prizes :
              \/ UNCHANGED creditVars
              \/ /\ Resolve(p, reqs[w].spent) > 0
                 /\ Pay(w, DrawKey(UserOf(w)), Resolve(p, reqs[w].spent))
      BY <2>2 DEF Reserve, Spin
    <3>4. PICK a : a = Resolve(p, reqs[w].spent)
      OBVIOUS
    <3>5. UNCHANGED creditVars \/ (a # 0 /\ Pay(w, DrawKey(UserOf(w)), a))
      <4>1. UNCHANGED creditVars \/ (a > 0 /\ Pay(w, DrawKey(UserOf(w)), a))
        BY <3>3, <3>4
      <4>2. a > 0 => a # 0
        OBVIOUS
      <4>3. QED
        BY <4>1, <4>2
    <3>6. QED
      BY <2>1, <3>2, <3>5, CallsOfOthers
  <2>3. CASE LookupClaim(w)
    <3>1. reqs[w].at = "lookup"
      BY <2>3 DEF LookupClaim
    <3>2. UserOf(w) \in Users /\ reqs[w].amount # 0
      <4>1. reqs[w] # Free /\ reqs[w].at \in ClaimSteps
        BY <3>1 DEF Free, ClaimSteps
      <4>2. UserOf(w) \in Users /\ reqs[w].amount \in TaskRewards
        BY <2>1, <4>1, ReqShape DEF UserOf
      <4>3. QED
        BY <4>2, RewardsAssumption
    <3>3. QED
      BY <2>1, <2>3, <3>2, CallsOfOthers DEF LookupClaim
  <2>4. CASE ~Reserve(w) /\ ~LookupClaim(w)
    <3>1. \/ UNCHANGED creditVars
          \/ Credit!Return(w) /\ UNCHANGED <<final, applied, sent>>
      BY <2>4 DEF BeginDraw, BeginClaim, Step, SumSpent, DrawRefused, PrizePaid, PrizeFailed,
         Finalize, Release, CheckProgress, ClaimRefused, GrantPaid, PayoutEnds, GrantFailed,
         InsertClaim, InsertClaimFails
    <3>2. QED
      BY <2>1, <3>1, CallsOfOthers
  <2>5. QED
    BY <2>2, <2>3, <2>4
<1>3. CallsFit'
  BY <1>1, <1>2, MovesFit
<1>4. slots' = [u \in Users |-> slots'[u]]
  BY DEF RewardInv, BeginDraw, BeginClaim, Step, SumSpent, DrawRefused, Reserve, PrizePaid,
     PrizeFailed, Finalize, Release, CheckProgress, LookupClaim, ClaimRefused, GrantPaid,
     PayoutEnds, GrantFailed, InsertClaim, InsertClaimFails, rows
<1>5. troubled \subseteq troubled'
  BY DEF BeginDraw, BeginClaim, Step, SumSpent, DrawRefused, Reserve, PrizePaid,
     PrizeFailed, Finalize, Release, CheckProgress, LookupClaim, ClaimRefused, GrantPaid,
     PayoutEnds, GrantFailed, InsertClaim, InsertClaimFails, rows, Trouble
<1>6. ASSUME NEW u \in Users \ troubled'
      PROVE  PrizeOK(u)' /\ TaskOK(u)'
  <2>1. u \in Users \ troubled /\ u \notin troubled'
    BY <1>5
  <2>2. TaskOK(u)'
    BY <1>2, <2>1, OwnTask
  <2>3. PrizeOK(u)'
    BY <1>2, <2>1, OwnPrize, OtherPrize
  <2>4. QED
    BY <2>2, <2>3
<1>7. QED
  BY <1>3, <1>4, <1>6 DEF RewardInv

LEMMA ServiceKeeps ==
  ASSUME RewardInv, ClaimInv', (\E w \in Workers : CreditStep(w)) \/ Upstream
  PROVE  RewardInv'
<1>1. CreditMove /\ slots' = slots /\ claims' = claims /\ reqs' = reqs /\ troubled' = troubled
  BY DEF CreditMove, CreditStep, Upstream, rows
<1>2. ASSUME NEW v \in Workers, NEW c, c = calls'[v]
      PROVE  CallFor(reqs[v], c)
  <2>1. CallFor(reqs[v], calls[v]) /\ calls = [w \in Workers |-> calls[w]]
    BY DEF RewardInv, CallsFit, ClaimInv, P!PayoutOK, P!CallsOK
  <2>2. \/ calls'[v] = calls[v]
        \/ calls[v] # P!Idle /\ calls'[v] # P!Idle /\ calls'[v].req = calls[v].req
    <3>1. CASE Upstream
      BY <3>1 DEF Upstream, Credit!Upstream, Credit!Apply, Credit!Lose
    <3>2. ASSUME NEW w \in Workers, CreditStep(w)
          PROVE  \/ calls'[v] = calls[v]
                 \/ calls[v] # P!Idle /\ calls'[v] # P!Idle /\ calls'[v].req = calls[v].req
      <4>1. \/ calls' = calls
            \/ /\ calls[w].pc = "running"
               /\ \E pc \in {"ok", "skipped", "error"} :
                     calls' = [calls EXCEPT ![w] = [pc |-> pc, req |-> calls[w].req]]
        BY <3>2 DEF CreditStep, Credit!WorkerStep, Credit!Send, Credit!Succeed, Credit!Skip,
           Credit!Fail, Credit!End
      <4>2. QED
        BY <2>1, <4>1 DEF P!Idle
    <3>3. QED
      BY <3>1, <3>2
  <2>3. QED
    BY <1>2, <2>1, <2>2 DEF CallFor
<1>3. CallsFit'
  BY <1>1, <1>2 DEF RewardInv, CallsFit, Priced, CallFor, KeyOf
<1>4. ASSUME NEW u \in Users \ troubled'
      PROVE  PrizeOK(u)' /\ TaskOK(u)'
  <2>1. u \in Users \ troubled
    BY <1>1
  <2>2. PrizeOK(u)'
    BY <1>1, <2>1, PrizeKept
  <2>3. Uncollected(u)' => Uncollected(u)
    BY <1>1 DEF Uncollected, Collects, UserOf
  <2>4. QED
    BY <1>1, <2>1, <2>2, <2>3, TaskKept
<1>5. QED
  BY <1>1, <1>3, <1>4 DEF RewardInv

LEMMA CrashKeeps ==
  ASSUME RewardInv, ClaimInv', Crash
  PROVE  RewardInv'
<1>1. /\ CreditMove /\ slots' = slots /\ claims' = claims
      /\ reqs' = [w \in Workers |-> Free]
      /\ calls' = [w \in Workers |-> P!Idle]
      /\ troubled' = troubled \cup {UserOf(w) : w \in {v \in Workers : reqs[v] # Free}}
  BY DEF CreditMove, Crash, rows, Credit!Crash, Credit!Idle, P!Idle
<1>2. CallsFit'
  BY <1>1 DEF CallsFit, Priced, CallFor, Free
<1>3. ASSUME NEW u \in Users \ troubled'
      PROVE  PrizeOK(u)' /\ TaskOK(u)'
  <2>1. /\ u \in Users \ troubled
        /\ \A w \in Workers : reqs[w] # Free => UserOf(w) # u
    BY <1>1
  <2>2. \A w \in Workers : ~Holds(w, u) /\ ~Collects(w, u) /\ ~Holds(w, u)'
    BY <1>1, <2>1 DEF Holds, Collects, Free
  <2>3. PrizeOK(u)'
    BY <1>1, <2>1, <2>2, PrizeKept
  <2>4. Uncollected(u)' => Uncollected(u)
    BY <1>1, <2>2 DEF Uncollected
  <2>5. QED
    BY <1>1, <2>1, <2>3, <2>4, TaskKept
<1>4. QED
  BY <1>1, <1>2, <1>3 DEF RewardInv

(***************************************************************************)
(* Nothing the components do breaks the invariant.                          *)
(***************************************************************************)
LEMMA RewardNext == ASSUME RewardInv, ClaimInv', [Next]_vars PROVE RewardInv'
<1>1. CASE UNCHANGED vars
  BY <1>1 DEF vars, creditVars, rows, RewardInv, CallsFit, Priced, CallFor, KeyOf, PrizeOK, Unheld,
     HeldBy, AtRest, Holds, UserOf, TaskOK, Uncollected, Collects, PrizeOf, TaskPayOf, P!Calm,
     P!Asked
<1>2. ASSUME NEW w \in Workers, Step(w)
      PROVE  RewardInv'
  BY <1>2, HandlerKeeps, ServiceKeeps
<1>3. QED
  BY <1>1, <1>2, HandlerKeeps, ServiceKeeps, CrashKeeps DEF Next

LEMMA RewardStays == Spec => [](ClaimInv /\ RewardInv)
<1>1. Init => ClaimInv /\ RewardInv
  BY ClaimInit, RewardInit
<1>2. ClaimInv /\ RewardInv /\ [Next]_vars => ClaimInv' /\ RewardInv'
  BY ClaimNext, RewardNext
<1>3. QED
  BY <1>1, <1>2, PTL DEF Spec

(***************************************************************************)
(* A user's lottery row shows what upstream has paid for the draw, for any  *)
(* number of workers and users: the row is taken before the payout, only    *)
(* the request that took it pays under the user's key, and it writes the    *)
(* amount that it asked for.  A user whose number reads like a hit has been *)
(* paid that amount or nothing.                                             *)
(***************************************************************************)
THEOREM PrizesAreRecorded == Spec => []PrizeIsRecorded
<1>1. RewardInv => PrizeIsRecorded
  BY DEF RewardInv, PrizeOK, Unheld, AtRest, PrizeIsRecorded, Unsure, P!Asked, PrizeOf
<1>2. QED
  BY <1>1, RewardStays, PTL

(***************************************************************************)
(* Nobody is paid for a task and stays unclaimed, for any number of workers *)
(* and users, any rewards and any interleaving of claims of the same user,  *)
(* unless a payout or a statement of the user failed.                       *)
(***************************************************************************)
THEOREM PaidTasksAreClaimed == Spec => []PaidTaskIsClaimed
<1>1. RewardInv => PaidTaskIsClaimed
  BY DEF RewardInv, TaskOK, Uncollected, PaidTaskIsClaimed
<1>2. QED
  BY <1>1, RewardStays, PTL
=============================================================================
