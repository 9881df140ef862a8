-------------------------------- MODULE Batch --------------------------------
(***************************************************************************)
(* Redistribution batches: a plan is drafted from the users' balances and   *)
(* idle times, by an administrator or by the scheduler, and executed later, *)
(* one batch at a time.  The execution reads each donor's balance again,    *)
(* deducts through Payout, can be stopped between two donors, gives up when *)
(* too many fail, and turns what it took into lots of the pool (Pool).      *)
(***************************************************************************)
EXTENDS Integers, Sequences, FiniteSets, FiniteSetsExt, SequencesExt

CONSTANTS
    Users,
    Start,          \* their balances at the beginning
    BatchIds,       \* 1..n
    Policies,       \* settings an administrator may save
    Keep,           \* batches that Trim leaves
    MaxBatchEvents       \* bound: requests, movements and things that go wrong

ASSUME BatchAssumption ==
    /\ Users \subseteq Nat
    /\ IsFiniteSet(Users) /\ IsFiniteSet(BatchIds)
    /\ Start \in [Users -> Nat]
    /\ Policies \subseteq
          [enabled : BOOLEAN, autoExecute : BOOLEAN, mode : {"percent", "excess", "fixed"}, value : Nat,
           reserve : Nat, min : Nat, minPerUser : Nat, maxPerUser : Nat, cap : Nat, threshold : Nat]
    /\ BatchIds = 1..Cardinality(BatchIds)
    /\ Keep \in Nat \ {0}
    /\ MaxBatchEvents \in Nat

VARIABLES
    final, applied, sent, calls,    \* as in Payout
    policy,     \* the settings of the module
    batches,    \* redistribution_batches with their donor entries
    lots,       \* redistribution_pool_lots: batch, owner and amount
    income, spent,  \* what users got and used meanwhile
    execution,        \* the batch being executed: s.running, s.runBatchID, stopCh
    due,        \* scheduled rounds that are drawing up their plan
    ready,      \* batches whose scheduled round is about to execute them
    blind,      \* history: a round began that did not see another: the two
                \* overlapped, or the scheduler could not read the batches
    batchEvents,
    troubled    \* history: deductions that ended in an error or a crash

creditVars == <<final, applied, sent, calls>>
userVars == <<income, spent>>
roundVars == <<due, ready, blind>>
batchHistory == <<batchEvents, troubled>>
batchVars == <<creditVars, userVars, roundVars, batchHistory, policy, batches, lots, execution>>

\* One slot inactive-reclaim/batch-<id> for each donor.
SlotOf(b, u) == <<b, u>>
Keys == BatchIds \X Users
Amounts == 1..(Max({Start[u] : u \in Users}) + MaxBatchEvents)
Executor == "executor"

Credit == INSTANCE Payout WITH
    Workers <- {Executor},
    UpKeys <- Keys,
    UpKeyOf <- [k \in Keys |-> k],
    Requests <- [key : Keys, delta : {-a : a \in Amounts}],
    Mistakable <- {}     \* nothing is added, and Reclaim reads no texts

TakenBy(b, u) == -applied[SlotOf(b, u)]
Taken(u) == SumFunctionOnSet([b \in BatchIds |-> TakenBy(b, u)], BatchIds)
Balance(u) == Start[u] + income[u] - spent[u] - Taken(u)

AtRest == [at |-> "idle"]
NoBatch == [status |-> "none"]
\* The rows that are there.
Present == {b \in BatchIds : batches[b].status \notin {"none", "deleted"}}

BatchInit ==
    /\ Credit!Init
    /\ policy \in Policies
    /\ batches = [b \in BatchIds |-> NoBatch]
    /\ lots = {}
    /\ income = [u \in Users |-> 0]
    /\ spent = [u \in Users |-> 0]
    /\ execution = AtRest
    /\ due = 0
    /\ ready = {}
    /\ blind = FALSE
    /\ batchEvents = 0
    /\ troubled = {}

BatchEvent == batchEvents < MaxBatchEvents /\ batchEvents' = batchEvents + 1

-----------------------------------------------------------------------------

(***************************************************************************)
(* The plan.                                                                *)
(***************************************************************************)
ReclaimAmount(p, balance) ==
    LET available == balance - p.reserve
        wanted == CASE p.mode = "percent" -> (balance * p.value) \div 100
                    [] p.mode = "excess" -> available
                    [] OTHER -> p.value
        amount == Min({wanted, available} \cup (IF p.maxPerUser > 0 THEN {p.maxPerUser} ELSE {}))
    IN IF available <= 0 \/ balance < p.min \/ amount < p.minPerUser THEN 0 ELSE amount

\* The part of IsInactive that reads balances; the rest, dates and the account, is
\* which users Orders lets through.
Rich(p, u) == Balance(u) >= p.min /\ Balance(u) > p.reserve

\* What one donor may still give to the batch, 0 if the plan ends here.
WithinCap(p, planned, amount) ==
    LET room == p.cap - planned
        cut == Min({amount, room})
    IN IF p.cap = 0 THEN amount ELSE IF room <= 0 \/ cut < p.minPerUser THEN 0 ELSE cut

Donor(u, amount) == [user |-> u, planned |-> amount, actual |-> 0, status |-> "planned"]

EmptyPlan == [planned |-> 0, full |-> FALSE, donors |-> <<>>]

\* The plan goes on with user u, unless the cap is used up.
Considered(p, plan, u) ==
    LET amount == IF Rich(p, u) THEN ReclaimAmount(p, Balance(u)) ELSE 0
        share == WithinCap(p, plan.planned, amount)
    IN IF plan.full \/ amount = 0 THEN plan
       ELSE IF share = 0 THEN [plan EXCEPT !.full = TRUE]
       ELSE [plan EXCEPT !.planned = @ + share, !.donors = Append(@, Donor(u, share))]

\* The donors among the idle users, the stalest first.
PlanOf(p, order) == FoldLeft(LAMBDA plan, u : Considered(p, plan, u), EmptyPlan, order).donors

\* Who counts as idle, and since when, is settled elsewhere.
Orders == UNION {SetToSeqs(idle) : idle \in SUBSET Users}

\* ListRedistributionEntries: the largest amount first, then by user.
Listed(donors) ==
    \A i, j \in DOMAIN donors : i < j =>
        \/ donors[i].planned > donors[j].planned
        \/ donors[i].planned = donors[j].planned /\ donors[i].user < donors[j].user

Listings(donors) == {entries \in SetToSeqs(Range(donors)) : Listed(entries)}

Draft(trigger, donors) ==
    [status |-> "draft", trigger |-> trigger, policy |-> policy, donors |-> donors,
     reclaim |-> 0, cancelled |-> FALSE]

NextBatch == Min({b \in BatchIds : batches[b].status = "none"})

CreateBatch(trigger) ==
    /\ \E b \in BatchIds : batches[b].status = "none"
    /\ \E order \in Orders : \E donors \in Listings(PlanOf(policy, order)) :
          batches' = [batches EXCEPT ![NextBatch] = Draft(trigger, donors)]

PreviewManual ==
    /\ BatchEvent
    /\ CreateBatch("manual")
    /\ UNCHANGED <<creditVars, userVars, roundVars, policy, lots, execution, troubled>>

\* Stays a row that no query returns any more; its id is not used again.
Deleted == [status |-> "deleted"]

\* Mutant: a batch that has begun can be cancelled.
CancellableWhileRunning(b) == batches[b].status \in {"draft", "running"}

Cancellable(b) == batches[b].status = "draft"

CancelRedistributionBatch(b) ==
    /\ BatchEvent
    /\ Cancellable(b)
    /\ batches' = [batches EXCEPT ![b].status = "stopped", ![b].cancelled = TRUE]
    /\ UNCHANGED <<creditVars, userVars, roundVars, policy, lots, execution, troubled>>

DeleteRedistributionBatch(b) ==
    /\ BatchEvent
    /\ batches[b].status = "draft"
    /\ batches' = [batches EXCEPT ![b] = Deleted]
    /\ UNCHANGED <<creditVars, userVars, roundVars, policy, lots, execution, troubled>>

SaveSettings ==
    /\ BatchEvent
    /\ policy' \in Policies \ {policy}
    /\ UNCHANGED <<creditVars, userVars, roundVars, batches, lots, execution, troubled>>

-----------------------------------------------------------------------------
(***************************************************************************)
(* Execute.                                                                 *)
(***************************************************************************)
\* The flag under the mutex, the row with its settings, and their switch.
Starts(b) ==
    IF execution = AtRest /\ b \in Present /\ batches[b].policy.enabled
    THEN execution' =
            [at |-> "mark", batch |-> b, donors |-> <<>>, row |-> 0, stopping |-> FALSE, status |-> "running"]
    ELSE UNCHANGED execution

ExecuteManual(b) ==
    /\ BatchEvent
    /\ b \in Present
    /\ Starts(b)
    /\ UNCHANGED <<creditVars, userVars, roundVars, policy, batches, lots, troubled>>

\* Mutant: any batch that is there can be executed.
ExecutableAgain(b) == b \in Present

Executable(b) == batches[b].status = "draft"

EndRun == execution' = AtRest
Running(at) == execution.at = at

\* The conditional update, then the entries; a failing read leaves the row running.
MarkRunning ==
    LET b == execution.batch
    IN /\ Running("mark")
       /\ \/ /\ Executable(b)
             /\ batches' = [batches EXCEPT ![b].status = "running", ![b].cancelled = FALSE]
             /\ \/ /\ execution' = [execution EXCEPT !.at = "next", !.donors = batches[b].donors]
                   /\ UNCHANGED batchEvents
                \/ EndRun /\ BatchEvent
          \/ ~Executable(b) /\ EndRun /\ UNCHANGED <<batches, batchEvents>>
          \/ EndRun /\ BatchEvent /\ UNCHANGED batches
       /\ UNCHANGED <<creditVars, userVars, roundVars, policy, lots, troubled>>

Stop ==
    /\ BatchEvent
    /\ execution # AtRest
    /\ ~execution.stopping
    /\ execution' = [execution EXCEPT !.stopping = TRUE]
    /\ UNCHANGED <<creditVars, userVars, roundVars, policy, batches, lots, troubled>>

PolicyOf(r) == batches[r.batch].policy

\* failureExceeded; a threshold of 0 never stops a batch.
TooManyFailures(p, donors) ==
    LET failed == Cardinality({i \in DOMAIN donors : donors[i].status = "failed"})
    IN failed > 0 /\ p.threshold > 0 /\ failed * 100 >= p.threshold * Len(donors)

\* An entry is written back as it stands in memory; errors are ignored.
StoreEntry(i, entry) == batches' = [batches EXCEPT ![execution.batch].donors[i] = entry]

\* The loop goes on behind donor i, or is left for the given status.
AfterDonor(i, entry) ==
    LET donors == [execution.donors EXCEPT ![i] = entry]
        next == [execution EXCEPT !.donors = donors, !.row = i]
    IN execution' = IF entry.status # "skipped" /\ TooManyFailures(PolicyOf(execution), donors)
              THEN [next EXCEPT !.at = "abort", !.status = "failed"]
              ELSE [next EXCEPT !.at = "next"]

NextRow == execution.row + 1
Donating(at) == Running(at) /\ NextRow <= Len(execution.donors)

StopAtDonor ==
    /\ Donating("next")
    /\ execution.stopping
    /\ execution' = [execution EXCEPT !.at = "abort", !.status = "stopped"]
    /\ UNCHANGED <<creditVars, userVars, roundVars, batchHistory, policy, batches, lots>>

UserUnreadable ==
    /\ Donating("next")
    /\ ~execution.stopping
    /\ BatchEvent
    /\ LET entry == [execution.donors[NextRow] EXCEPT !.status = "failed"]
       IN AfterDonor(NextRow, entry) /\ StoreEntry(NextRow, entry)
    /\ UNCHANGED <<creditVars, userVars, roundVars, policy, lots, troubled>>

\* What the balance of the moment allows, and no more than was planned.
AmountNow(entry) == Min({ReclaimAmount(PolicyOf(execution), Balance(entry.user)), entry.planned})

TakeFromDonor ==
    /\ Donating("next")
    /\ ~execution.stopping
    /\ LET now == AmountNow(execution.donors[NextRow])
           entry == [execution.donors[NextRow] EXCEPT !.planned = now,
                                                !.status = IF now = 0 THEN "skipped" ELSE "processing"]
       IN /\ StoreEntry(NextRow, entry)
          /\ IF now = 0
             THEN AfterDonor(NextRow, entry) /\ UNCHANGED calls
             ELSE /\ execution' = [execution EXCEPT !.at = "pay", !.donors[NextRow] = entry]
                  /\ Credit!Call(Executor, [key |-> SlotOf(execution.batch, entry.user), delta |-> -now])
    /\ UNCHANGED <<final, applied, sent, userVars, roundVars, batchHistory, policy, lots>>

\* Mutant: a failed deduction counts all the same.
EntryAlwaysTaken(entry, pc) == [entry EXCEPT !.status = "success", !.actual = entry.planned]

EntryAfter(entry, pc) ==
    IF pc = "error" THEN [entry EXCEPT !.status = "failed"]
    ELSE [entry EXCEPT !.status = "success", !.actual = entry.planned]

ReclaimEnds ==
    LET pc == calls[Executor].pc
        entry == EntryAfter(execution.donors[NextRow], pc)
    IN /\ Running("pay")
       /\ Credit!Return(Executor)
       /\ AfterDonor(NextRow, entry)
       /\ \/ StoreEntry(NextRow, entry) /\ UNCHANGED batchEvents
          \/ BatchEvent /\ UNCHANGED batches
       /\ troubled' = IF pc = "error" THEN troubled \cup {SlotOf(execution.batch, entry.user)} ELSE troubled
       /\ UNCHANGED <<final, applied, sent, userVars, roundVars, policy, lots>>

Actual(donors) == SumFunctionOnSet([i \in DOMAIN donors |-> donors[i].actual], DOMAIN donors)
Finished(status) ==
    [batches EXCEPT ![execution.batch].status = status, ![execution.batch].reclaim = Actual(execution.donors)]

\* Stopped or failed: what was taken is written down and gets no lots.
Abort ==
    /\ Running("abort")
    /\ \/ batches' = Finished(execution.status) /\ UNCHANGED batchEvents
       \/ BatchEvent /\ UNCHANGED batches
    /\ EndRun
    /\ UNCHANGED <<creditVars, userVars, roundVars, policy, lots, troubled>>

Lot(i) ==
    [batch |-> execution.batch, user |-> execution.donors[i].user, amount |-> execution.donors[i].actual]

Lotless == {i \in DOMAIN execution.donors : execution.donors[i].actual > 0 /\ Lot(i) \notin lots}

Collected == Running("next") /\ NextRow > Len(execution.donors)

CreateLot ==
    /\ Collected
    /\ Lotless # {}
    /\ lots' = lots \cup {Lot(Min(Lotless))}
    /\ UNCHANGED <<creditVars, userVars, roundVars, batchHistory, policy, batches, execution>>

\* A lot or the end cannot be written: the batch stays running.
EndFails ==
    /\ Collected
    /\ BatchEvent
    /\ EndRun
    /\ UNCHANGED <<creditVars, userVars, roundVars, policy, batches, lots, troubled>>

Newer(b) == {c \in Present : c > b}

\* TrimRedistributionBatches, after the batch is finished.
TrimmedBatches == {b \in Present : Cardinality(Newer(b)) >= Keep /\ ~\E l \in lots : l.batch = b}

FinishBatch ==
    LET failed == \E i \in DOMAIN execution.donors : execution.donors[i].status = "failed"
        done == Finished(IF failed THEN "partial" ELSE "success")
    IN /\ Collected
       /\ Lotless = {}
       /\ \/ /\ batches' = [b \in BatchIds |-> IF b \in TrimmedBatches THEN Deleted ELSE done[b]]
             /\ UNCHANGED batchEvents
          \/ TrimmedBatches # {} /\ batches' = done /\ BatchEvent
       /\ EndRun
       /\ UNCHANGED <<creditVars, userVars, roundVars, policy, lots, troubled>>

-----------------------------------------------------------------------------
(***************************************************************************)
(* The scheduler, on one day: each minute the cron expression matches.      *)
(***************************************************************************)
\* Mutant: only a batch that succeeded keeps the next round away.
ScheduledDoneOnly == {b \in Present : batches[b].status = "success" /\ batches[b].trigger = "schedule"}

HasScheduled ==
    {b \in Present : batches[b].status \notin {"failed", "stopped"} /\ batches[b].trigger = "schedule"}

\* The error of the read is dropped, and a read that fails says that there is none.
Minute ==
    /\ BatchEvent
    /\ policy.enabled
    /\ policy.autoExecute
    /\ \/ HasScheduled = {} /\ blind' = (blind \/ due > 0)
       \/ HasScheduled # {} /\ blind' = TRUE
    /\ due' = due + 1
    /\ UNCHANGED <<creditVars, userVars, ready, policy, batches, lots, execution, troubled>>

PreviewScheduled ==
    /\ due > 0
    /\ due' = due - 1
    /\ \/ CreateBatch("schedule") /\ ready' = ready \cup {NextBatch} /\ UNCHANGED batchEvents
       \/ BatchEvent /\ UNCHANGED <<batches, ready>>
    /\ UNCHANGED <<creditVars, userVars, blind, policy, lots, execution, troubled>>

ExecuteScheduled(b) ==
    /\ b \in ready
    /\ ready' = ready \ {b}
    /\ Starts(b)
    /\ UNCHANGED <<creditVars, userVars, due, blind, policy, batches, lots, batchHistory>>

-----------------------------------------------------------------------------
Move(u) ==
    /\ BatchEvent
    /\ \/ income' = [income EXCEPT ![u] = @ + 1] /\ UNCHANGED spent
       \/ Balance(u) > 0 /\ spent' = [spent EXCEPT ![u] = @ + 1] /\ UNCHANGED income
    /\ UNCHANGED <<creditVars, roundVars, policy, batches, lots, execution, troubled>>

CreditStep ==
    /\ \/ Credit!Send(Executor) /\ UNCHANGED batchEvents
       \/ Credit!Succeed(Executor) /\ UNCHANGED batchEvents
       \/ Credit!Fail(Executor) /\ BatchEvent
    /\ UNCHANGED <<userVars, roundVars, troubled, policy, batches, lots, execution>>

Upstream ==
    /\ Credit!Upstream
    /\ UNCHANGED <<userVars, roundVars, batchHistory, policy, batches, lots, execution>>

BatchCrash ==
    /\ execution # AtRest \/ due > 0 \/ ready # {}
    /\ BatchEvent
    /\ Credit!Crash
    /\ execution' = AtRest
    /\ due' = 0
    /\ ready' = {}
    /\ troubled' = IF Running("pay") THEN troubled \cup {calls[Executor].req.key} ELSE troubled
    /\ UNCHANGED <<userVars, blind, policy, batches, lots>>

Admin ==
    \/ PreviewManual \/ SaveSettings \/ Stop
    \/ \E b \in BatchIds : CancelRedistributionBatch(b) \/ DeleteRedistributionBatch(b) \/ ExecuteManual(b)

Execution ==
    \/ MarkRunning \/ StopAtDonor \/ UserUnreadable \/ TakeFromDonor \/ ReclaimEnds
    \/ Abort \/ CreateLot \/ EndFails \/ FinishBatch

Scheduler == Minute \/ PreviewScheduled \/ \E b \in BatchIds : ExecuteScheduled(b)

BatchNext ==
    \/ Admin \/ Execution \/ Scheduler
    \/ \E u \in Users : Move(u)
    \/ CreditStep \/ Upstream \/ BatchCrash

BatchSpec == BatchInit /\ [][BatchNext]_batchVars

-----------------------------------------------------------------------------
LotsOf(b) == {l \in lots : l.batch = b}
TakenIn(b) == SumFunctionOnSet([u \in Users |-> TakenBy(b, u)], Users)
LotMoney(S) == SumFunctionOnSet([l \in S |-> l.amount], S)

\* RedistributionAvailablePool while nothing is drawn: recorded money without
\* lots, and the lots.
Pool ==
    LET legacy == SumFunctionOnSet([b \in Present |-> batches[b].reclaim], Present) - LotMoney(lots)
    IN Max({legacy, 0}) + LotMoney(lots)

\* The pool never shows money that was not taken from a donor.
PoolIsBacked == Pool <= SumFunctionOnSet([b \in BatchIds |-> TakenIn(b)], BatchIds)

\* Every deduction of a batch that ran to its end is the donor's lot, and no
\* lot is anything else, unless the deduction ended in an error.
FinishedBatchesAccount ==
    \A b \in Present : batches[b].status \in {"success", "partial"} =>
        \A u \in Users : SlotOf(b, u) \notin troubled =>
            LotMoney({l \in LotsOf(b) : l.user = u}) = TakenBy(b, u)

\* Once cancelled, a batch takes nothing, whoever was about to execute it.
CancelledTakesNothing ==
    \A b \in Present : batches[b].cancelled => TakenIn(b) = 0 /\ LotsOf(b) = {}

\* One live scheduled batch a day, as long as no round begins blind to another.
OneScheduledBatch == ~blind => Cardinality(HasScheduled) <= 1
=============================================================================
