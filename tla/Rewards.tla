------------------------------ MODULE Rewards -------------------------------
(***************************************************************************)
(* The daily lottery and the task "draw once today", over one day.  Both    *)
(* pay through Payout, in opposite orders: the lottery claims the user's    *)
(* row first and pays then, the task centre pays first and inserts the      *)
(* user's claim then.  The task counts a user as done as soon as the        *)
(* lottery row is there, whatever becomes of that draw.                     *)
(***************************************************************************)
EXTENDS Integers, FiniteSets, FiniteSetsExt, Functions

CONSTANTS
    Workers,        \* request goroutines
    Users,
    Prizes,         \* what the wheel can stop at; 0 is a miss
    HardCap,        \* upper limit of one prize, 0 for none
    DailyBudget,    \* lottery budget of the day, 0 for none
    TaskRewards,    \* what the task has been worth during the day
    Lookalikes      \* users whose number reads like an idempotency hit

ASSUME RewardsAssumption ==
    /\ Prizes \subseteq Nat
    /\ HardCap \in Nat
    /\ DailyBudget \in Nat
    /\ TaskRewards \subseteq Nat \ {0}
    /\ Lookalikes \subseteq Users

VARIABLES
    final, applied, sent, calls,    \* as in Payout
    slots,      \* lottery_draws: per user the amount of today's row
    claims,     \* task_claims: per user the amount of today's claim, 0 if none
    reqs,       \* per worker, the request it serves
    troubled    \* history: users one of whose payouts or statements failed,
                \* or whose request was cut off

creditVars == <<final, applied, sent, calls>>
rows == <<slots, claims>>
vars == <<creditVars, rows, reqs, troubled>>

-----------------------------------------------------------------------------
DrawKey(u) == <<"lottery", u>>
TaskKey(u) == <<"task", u>>
Keys == {DrawKey(u) : u \in Users} \cup {TaskKey(u) : u \in Users}

Capped(p) == IF HardCap > 0 /\ p > HardCap THEN HardCap ELSE p
PrizeAmounts == {Capped(p) : p \in Prizes}
Amounts == UNION {0..a : a \in PrizeAmounts \cup TaskRewards}

Credit == INSTANCE Payout WITH
    UpKeys <- Keys,
    UpKeyOf <- [k \in Keys |-> k],
    Requests <- [key : Keys, delta : Amounts],
    Mistakable <- {k \in Keys : k[2] \in Lookalikes}

NoRow == -1     \* a reserved row has amount 0

Free == [at |-> "free"]
Drawing(at, u, spent, amount) == [at |-> at, user |-> u, spent |-> spent, amount |-> amount]
Claiming(at, u, reward) == [at |-> at, user |-> u, amount |-> reward]
DrawSteps == {"sum", "reserve", "pay", "finalize", "release"}
ClaimSteps == {"progress", "lookup", "grant", "claim"}

TypeOK ==
    /\ Credit!TypeOK
    /\ slots \in [Users -> {NoRow} \cup Nat]
    /\ claims \in [Users -> {0} \cup TaskRewards]
    /\ reqs \in [Workers -> {Free} \cup
           [at : DrawSteps, user : Users, spent : Nat, amount : Nat] \cup
           [at : ClaimSteps, user : Users, amount : TaskRewards]]
    /\ troubled \subseteq Users

Init ==
    /\ Credit!Init
    /\ slots = [u \in Users |-> NoRow]
    /\ claims = [u \in Users |-> 0]
    /\ reqs = [w \in Workers |-> Free]
    /\ troubled = {}

Goto(w, at) == reqs' = [reqs EXCEPT ![w].at = at]
Reply(w) == reqs' = [reqs EXCEPT ![w] = Free]
UserOf(w) == reqs[w].user
Trouble(w) == troubled' = troubled \cup {UserOf(w)}

Pay(w, key, amount) ==
    /\ Credit!Call(w, [key |-> key, delta |-> amount])
    /\ UNCHANGED <<final, applied, sent>>

\* The payout has ended in one of the ways; its caller goes on at another place.
PayoutEnds(w, from, ways, to) ==
    /\ reqs[w].at = from
    /\ calls[w].pc \in ways
    /\ Credit!Return(w)
    /\ Goto(w, to)
    /\ UNCHANGED <<final, applied, sent, rows, troubled>>

-----------------------------------------------------------------------------
(***************************************************************************)
(* LotteryDraw.                                                             *)
(***************************************************************************)
\* SumLotteryAmountByDate: rows that are only reserved add nothing.
Spent == MapThenSumSet(LAMBDA u : IF slots[u] = NoRow THEN 0 ELSE slots[u], Users)

BudgetExhausted(spent) == DailyBudget > 0 /\ spent >= DailyBudget

\* The prize after hard cap and what the budget had left when it was summed.
Resolve(p, spent) ==
    IF DailyBudget > 0 /\ Capped(p) > DailyBudget - spent
    THEN DailyBudget - spent ELSE Capped(p)

BeginDraw(w, u) ==
    /\ reqs[w] = Free
    /\ reqs' = [reqs EXCEPT ![w] = Drawing("sum", u, 0, 0)]
    /\ UNCHANGED <<creditVars, rows, troubled>>

SumSpent(w) ==
    /\ reqs[w].at = "sum"
    /\ ~BudgetExhausted(Spent)
    /\ reqs' = [reqs EXCEPT ![w] = Drawing("reserve", UserOf(w), Spent, 0)]
    /\ UNCHANGED <<creditVars, rows, troubled>>

\* Lottery closed, no check-in today, budget exhausted, row taken, or a
\* statement failed.
DrawRefused(w) ==
    /\ reqs[w].at \in {"sum", "reserve"}
    /\ Reply(w)
    /\ UNCHANGED <<creditVars, rows, troubled>>

\* The wheel turns once the row is there; a miss is not paid.
Spin(w) ==
    \E p \in Prizes :
        LET a == Resolve(p, reqs[w].spent)
        IN \/ /\ a = 0
              /\ Goto(w, "finalize")
              /\ UNCHANGED creditVars
           \/ /\ a > 0
              /\ reqs' = [reqs EXCEPT ![w] = Drawing("pay", UserOf(w), reqs[w].spent, a)]
              /\ Pay(w, DrawKey(UserOf(w)), a)

\* Mutant: the insert does not mind the user's row of the day.
ReserveWithoutIndex(w) ==
    /\ reqs[w].at = "reserve"
    /\ slots' = [slots EXCEPT ![UserOf(w)] = 0]
    /\ Spin(w)
    /\ UNCHANGED <<claims, troubled>>

\* UNIQUE(user_id, draw_date): the insert claims the day.
Reserve(w) ==
    /\ reqs[w].at = "reserve"
    /\ slots[UserOf(w)] = NoRow
    /\ slots' = [slots EXCEPT ![UserOf(w)] = 0]
    /\ Spin(w)
    /\ UNCHANGED <<claims, troubled>>

PrizePaid(w) == PayoutEnds(w, "pay", {"ok", "skipped"}, "finalize")
PrizeFailed(w) == PayoutEnds(w, "pay", {"error"}, "release")

\* A failed update leaves the row reserved for good; a winner is told "win".
Finalize(w) ==
    /\ reqs[w].at = "finalize"
    /\ \/ /\ slots' = [slots EXCEPT ![UserOf(w)] = reqs[w].amount]
          /\ UNCHANGED troubled
       \/ UNCHANGED slots /\ Trouble(w)
    /\ Reply(w)
    /\ UNCHANGED <<creditVars, claims>>

\* Deleted by row id, which nobody else can hold; the error is ignored.
Release(w) ==
    /\ reqs[w].at = "release"
    /\ \E deleted \in BOOLEAN :
          slots' = IF deleted THEN [slots EXCEPT ![UserOf(w)] = NoRow] ELSE slots
    /\ Trouble(w)
    /\ Reply(w)
    /\ UNCHANGED <<creditVars, claims>>

-----------------------------------------------------------------------------
(***************************************************************************)
(* TasksClaim of the task "daily_lottery".                                  *)
(***************************************************************************)
BeginClaim(w, u) ==
    /\ reqs[w] = Free
    /\ \E r \in TaskRewards : reqs' = [reqs EXCEPT ![w] = Claiming("progress", u, r)]
    /\ UNCHANGED <<creditVars, rows, troubled>>

CheckProgress(w) ==
    /\ reqs[w].at = "progress"
    /\ slots[UserOf(w)] # NoRow
    /\ Goto(w, "lookup")
    /\ UNCHANGED <<creditVars, rows, troubled>>

\* The lookup only saves a payout: its error is ignored, and then a user whose
\* claim is there goes on as well.
LookupClaim(w) ==
    /\ reqs[w].at = "lookup"
    /\ Pay(w, TaskKey(UserOf(w)), reqs[w].amount)
    /\ Goto(w, "grant")
    /\ UNCHANGED <<rows, troubled>>

\* Task not completed, a statement failed, or the claim is there already.
ClaimRefused(w) ==
    /\ \/ reqs[w].at = "progress"
       \/ reqs[w].at = "lookup" /\ claims[UserOf(w)] # 0
    /\ Reply(w)
    /\ UNCHANGED <<creditVars, rows, troubled>>

\* Mutant: the claim is inserted whatever the payout's result was.
ClaimAnyway(w) == PayoutEnds(w, "grant", {"ok", "skipped", "error"}, "claim")

\* Mutant: the request is answered without inserting the claim.
GrantWithoutClaim(w) ==
    /\ reqs[w].at = "grant"
    /\ calls[w].pc \in {"ok", "skipped"}
    /\ Credit!Return(w)
    /\ Reply(w)
    /\ UNCHANGED <<final, applied, sent, rows, troubled>>

GrantPaid(w) == PayoutEnds(w, "grant", {"ok", "skipped"}, "claim")

GrantFailed(w) ==
    /\ reqs[w].at = "grant"
    /\ calls[w].pc = "error"
    /\ Credit!Return(w)
    /\ Reply(w)
    /\ Trouble(w)
    /\ UNCHANGED <<final, applied, sent, rows>>

\* UNIQUE(user_id, task_id, period_key).
InsertClaim(w) ==
    /\ reqs[w].at = "claim"
    /\ claims[UserOf(w)] = 0
    /\ claims' = [claims EXCEPT ![UserOf(w)] = reqs[w].amount]
    /\ Reply(w)
    /\ UNCHANGED <<creditVars, slots, troubled>>

\* The index refuses a second claim, which is answered "already_claimed"; a
\* failed statement is an error.
InsertClaimFails(w) ==
    /\ reqs[w].at = "claim"
    /\ IF claims[UserOf(w)] # 0 THEN UNCHANGED troubled ELSE Trouble(w)
    /\ Reply(w)
    /\ UNCHANGED <<creditVars, rows>>

-----------------------------------------------------------------------------
CreditStep(w) ==
    /\ Credit!WorkerStep(w)
    /\ UNCHANGED <<rows, reqs, troubled>>

Upstream ==
    /\ Credit!Upstream
    /\ UNCHANGED <<rows, reqs, troubled>>

\* Requests are lost.  Nothing at start looks at reserved rows, and Backfill
\* finds the ledger row of every row with an amount.
Crash ==
    /\ \E w \in Workers : reqs[w] # Free
    /\ Credit!Crash
    /\ reqs' = [w \in Workers |-> Free]
    /\ troubled' = troubled \cup {UserOf(w) : w \in {v \in Workers : reqs[v] # Free}}
    /\ UNCHANGED rows

Step(w) ==
    \/ SumSpent(w)
    \/ DrawRefused(w)
    \/ Reserve(w)
    \/ PrizePaid(w)
    \/ PrizeFailed(w)
    \/ Finalize(w)
    \/ Release(w)
    \/ CheckProgress(w)
    \/ LookupClaim(w)
    \/ ClaimRefused(w)
    \/ GrantPaid(w)
    \/ GrantFailed(w)
    \/ InsertClaim(w)
    \/ InsertClaimFails(w)
    \/ CreditStep(w)

Next ==
    \/ \E w \in Workers, u \in Users : BeginDraw(w, u) \/ BeginClaim(w, u)
    \/ \E w \in Workers : Step(w)
    \/ Upstream
    \/ Crash

Spec == Init /\ [][Next]_vars

-----------------------------------------------------------------------------
\* Worker w has u's lottery row in hand.
Holds(w, u) == reqs[w].at \in {"pay", "finalize", "release"} /\ UserOf(w) = u
Collects(w, u) == reqs[w].at \in {"grant", "claim"} /\ UserOf(w) = u

PrizeOf(u) == applied[DrawKey(u)]
TaskPayOf(u) == applied[TaskKey(u)]

\* A payout to such a user may have been taken for made by mistake.
Unsure(u, got) == got = 0 /\ u \in Lookalikes

(***************************************************************************)
(* Safety: a user's row shows the prize the user got, once no request holds *)
(* the row, unless a payout or a statement of the user failed; a user whose *)
(* number reads like a hit may have got nothing.                            *)
(***************************************************************************)
PrizeIsRecorded ==
    \A u \in Users \ troubled :
        \/ \E w \in Workers : Holds(w, u)
        \/ PrizeOf(u) = IF slots[u] = NoRow THEN 0 ELSE slots[u]
        \/ slots[u] # NoRow /\ Unsure(u, PrizeOf(u))

(***************************************************************************)
(* Safety: a claim stands for a payout, through crashes, retries and failed *)
(* lookups of the claim: the ledger has its row and upstream has moved      *)
(* money, but for users whose number reads like a hit.  The comment above   *)
(* the payout in TasksClaim relies on it.                                   *)
(***************************************************************************)
ClaimIsPaid ==
    \A u \in Users : claims[u] # 0 =>
        /\ Credit!Final(TaskKey(u))
        /\ TaskPayOf(u) # 0 \/ Unsure(u, TaskPayOf(u))

(***************************************************************************)
(* Safety: a task that was paid is claimed, or a request is about to insert *)
(* the claim, or something failed: no user can collect and stay unclaimed.  *)
(***************************************************************************)
PaidTaskIsClaimed ==
    \A u \in Users \ troubled :
        TaskPayOf(u) # 0 => claims[u] # 0 \/ \E w \in Workers : Collects(w, u)

=============================================================================
