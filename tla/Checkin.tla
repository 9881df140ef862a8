------------------------------ MODULE Checkin -------------------------------
(***************************************************************************)
(* The daily check-in: handler.go's Checkin, its row in checkin_records and *)
(* the payout that follows it, composed with Credit.  One calendar day is   *)
(* modelled: the record, the ledger key and the upstream key of a user are  *)
(* all checkin-<uid>-<date>, so the user stands for the three of them.      *)
(* Amounts count units of minRewardUnit.                                    *)
(*                                                                         *)
(* The record is inserted first and claims the day; the money follows; a    *)
(* failed payout deletes the record again.  Two requests of one user, and   *)
(* the requests of different users who share the day's budget, interleave   *)
(* at every statement.                                                      *)
(***************************************************************************)
EXTENDS Integers, FiniteSets, FiniteSetsExt, Functions

CONSTANTS
    Workers,        \* request goroutines
    Users,
    Rewards,        \* what PickReward plus the streak bonus may come to
    HardCap,        \* limit on one reward, 0 for none
    DailyBudget,    \* limit on the day's rewards, 0 for none
    BudgetAction,   \* "block" or "disable", when the budget is used up
    Lookalikes      \* users whose number reads like an idempotency hit

ASSUME CheckinAssumption ==
    /\ Rewards \subseteq Nat \ {0} /\ Rewards # {}
    /\ HardCap \in Nat
    /\ DailyBudget \in Nat
    /\ BudgetAction \in {"block", "disable"}
    /\ IsFiniteSet(Workers) /\ IsFiniteSet(Users)
    /\ Lookalikes \subseteq Users

VARIABLES
    ledger, applied, net, calls,    \* as in Credit
    records,    \* checkin_records: the amount of the user's row, 0 for no row
    enabled,    \* the check-in switch in the settings
    reqs,       \* per worker, the request it serves
    warned      \* history: users with a failed or interrupted request

creditVars == <<ledger, applied, net, calls>>
vars == <<ledger, applied, net, calls, records, enabled, reqs, warned>>

-----------------------------------------------------------------------------
Capped(r) == IF HardCap > 0 /\ r > HardCap THEN HardCap ELSE r

\* applyDailyBudget: what is left to pay of a reward, 0 when exhausted.
Clip(r, spent) ==
    IF DailyBudget = 0 THEN Capped(r)
    ELSE IF spent >= DailyBudget THEN 0
    ELSE IF Capped(r) > DailyBudget - spent THEN DailyBudget - spent
    ELSE Capped(r)

Amounts == {Clip(r, s) : r \in Rewards, s \in 0..DailyBudget} \ {0}

Credit == INSTANCE Credit WITH
    Keys <- Users, UpKeys <- Users, UpKeyOf <- [u \in Users |-> u],
    Requests <- [key : Users, delta : Amounts], Mistakable <- Lookalikes

Free == [at |-> "free"]
Request(at, u, amount) == [at |-> at, user |-> u, amount |-> amount]
Steps == {"lookup", "budget", "close", "insert", "credit", "undo", "success"}

TypeOK ==
    /\ Credit!TypeOK
    /\ records \in [Users -> Amounts \cup {0}]
    /\ enabled \in BOOLEAN
    /\ reqs \in [Workers -> {Free} \cup [at : Steps, user : Users, amount : Amounts \cup {0}]]
    /\ warned \subseteq Users

Init ==
    /\ Credit!Init
    /\ records = [u \in Users |-> 0]
    /\ enabled = TRUE
    /\ reqs = [w \in Workers |-> Free]
    /\ warned = {}

Goto(w, at) == reqs' = [reqs EXCEPT ![w].at = at]
Reply(w) == reqs' = [reqs EXCEPT ![w] = Free]
UserOf(w) == reqs[w].user

-----------------------------------------------------------------------------
(***************************************************************************)
(* One request, statement by statement.                                     *)
(***************************************************************************)
Begin(w, u) ==
    /\ reqs[w] = Free
    /\ enabled
    /\ reqs' = [reqs EXCEPT ![w] = Request("lookup", u, 0)]
    /\ UNCHANGED <<creditVars, records, enabled, warned>>

LookupRecord(w) ==
    /\ reqs[w].at = "lookup"
    /\ IF records[UserOf(w)] # 0 THEN Reply(w) ELSE Goto(w, "budget")
    /\ UNCHANGED <<creditVars, records, enabled, warned>>

\* Mutant: what the day has paid so far is not counted.
SpentIgnored(w) ==
    /\ reqs[w].at = "budget"
    /\ \E r \in Rewards : reqs' = [reqs EXCEPT ![w] = Request("insert", UserOf(w), Clip(r, 0))]
    /\ UNCHANGED <<creditVars, records, enabled, warned>>

\* SumAmountByDate, and the reward that still fits: both may be stale by the
\* time the record is inserted.
ReadSpent(w) ==
    /\ reqs[w].at = "budget"
    /\ \E r \in Rewards :
          LET amount == Clip(r, SumFunction(records))
          IN IF amount # 0
             THEN reqs' = [reqs EXCEPT ![w] = Request("insert", UserOf(w), amount)]
             ELSE IF BudgetAction = "disable" THEN Goto(w, "close") ELSE Reply(w)
    /\ UNCHANGED <<creditVars, records, enabled, warned>>

\* The budget is used up: settings.Update, whose error is ignored.
CloseCheckin(w) ==
    /\ reqs[w].at = "close"
    /\ enabled' \in {FALSE, enabled}
    /\ Reply(w)
    /\ UNCHANGED <<creditVars, records, warned>>

\* Mutant: no unique index on (user_id, checkin_date).
InsertWithoutIndex(w) ==
    /\ reqs[w].at = "insert"
    /\ records' = [records EXCEPT ![UserOf(w)] = reqs[w].amount]
    /\ Goto(w, "credit")
    /\ Credit!Call(w, [key |-> UserOf(w), delta |-> reqs[w].amount])
    /\ UNCHANGED <<ledger, applied, net, enabled, warned>>

\* TryInsert claims the day, and Grant begins.
InsertRecord(w) ==
    /\ reqs[w].at = "insert"
    /\ records[UserOf(w)] = 0
    /\ records' = [records EXCEPT ![UserOf(w)] = reqs[w].amount]
    /\ Goto(w, "credit")
    /\ Credit!Call(w, [key |-> UserOf(w), delta |-> reqs[w].amount])
    /\ UNCHANGED <<ledger, applied, net, enabled, warned>>

\* Mutant: a refused request cleans up by user and day, not by its own row id.
RefusedDeletes(w) ==
    /\ reqs[w].at = "insert"
    /\ records[UserOf(w)] # 0
    /\ records' = [records EXCEPT ![UserOf(w)] = 0]
    /\ Reply(w)
    /\ UNCHANGED <<creditVars, enabled, warned>>

\* ErrAlreadyCheckedIn: another request of the user was faster.
InsertRefused(w) ==
    /\ reqs[w].at = "insert"
    /\ records[UserOf(w)] # 0
    /\ Reply(w)
    /\ UNCHANGED <<creditVars, records, enabled, warned>>

StatementFails(w) ==
    /\ reqs[w].at \in {"lookup", "budget", "insert"}
    /\ Reply(w)
    /\ UNCHANGED <<creditVars, records, enabled, warned>>

CreditStep(w) ==
    /\ Credit!WorkerStep(w)
    /\ UNCHANGED <<records, enabled, reqs, warned>>

\* Mutant: the error of Grant is not looked at.
CreditedAnyway(w) ==
    /\ reqs[w].at = "credit"
    /\ calls[w].pc \in {"ok", "skipped", "error"}
    /\ Credit!Return(w)
    /\ Goto(w, "success")
    /\ UNCHANGED <<ledger, applied, net, records, enabled, warned>>

\* A skipped Grant (the key already has a final ledger row) counts as success.
Credited(w) ==
    /\ reqs[w].at = "credit"
    /\ calls[w].pc \in {"ok", "skipped"}
    /\ Credit!Return(w)
    /\ Goto(w, "success")
    /\ UNCHANGED <<ledger, applied, net, records, enabled, warned>>

CreditFailed(w) ==
    /\ reqs[w].at = "credit"
    /\ calls[w].pc = "error"
    /\ Credit!Return(w)
    /\ Goto(w, "undo")
    /\ UNCHANGED <<ledger, applied, net, records, enabled, warned>>

\* store.Delete by row id, its error ignored; only this request can hold the id.
Undo(w) ==
    /\ reqs[w].at = "undo"
    /\ \E deleted \in BOOLEAN :
          records' = IF deleted THEN [records EXCEPT ![UserOf(w)] = 0] ELSE records
    /\ warned' = warned \cup {UserOf(w)}
    /\ Reply(w)
    /\ UNCHANGED <<creditVars, enabled>>

ReplySuccess(w) ==
    /\ reqs[w].at = "success"
    /\ Reply(w)
    /\ UNCHANGED <<creditVars, records, enabled, warned>>

(***************************************************************************)
(* An administrator opens the check-in again.                               *)
(***************************************************************************)
Reopen ==
    /\ ~enabled
    /\ enabled' = TRUE
    /\ UNCHANGED <<creditVars, records, reqs, warned>>

(***************************************************************************)
(* The process dies and starts again.  Before it serves requests it runs    *)
(* BackfillLedgerFromLegacy: a success row for every record that has no     *)
(* final ledger row, until a statement fails.                               *)
(***************************************************************************)
Interrupted == {UserOf(w) : w \in {v \in Workers : reqs[v].at \in {"credit", "undo"}}}
Unbooked == {u \in Users : records[u] # 0 /\ ~Credit!Final(u)}
Backfilled(u) == [key |-> u, delta |-> records[u], status |-> "success"]

Restart ==
    /\ \E w \in Workers : reqs[w] # Free
    /\ reqs' = [w \in Workers |-> Free]
    /\ calls' = [w \in Workers |-> Credit!Idle]
    /\ warned' = warned \cup Interrupted
    /\ \E done \in SUBSET Unbooked : ledger' = ledger \cup {Backfilled(u) : u \in done}
    /\ UNCHANGED <<applied, net, records, enabled>>

-----------------------------------------------------------------------------
Step(w) ==
    \/ LookupRecord(w)
    \/ ReadSpent(w)
    \/ CloseCheckin(w)
    \/ InsertRecord(w)
    \/ InsertRefused(w)
    \/ StatementFails(w)
    \/ CreditStep(w)
    \/ Credited(w)
    \/ CreditFailed(w)
    \/ Undo(w)
    \/ ReplySuccess(w)

Upstream ==
    /\ Credit!Upstream
    /\ UNCHANGED <<records, enabled, reqs, warned>>

Next ==
    \/ \E w \in Workers, u \in Users : Begin(w, u)
    \/ \E w \in Workers : Step(w)
    \/ Upstream
    \/ Reopen
    \/ Restart

Spec == Init /\ [][Next]_vars

-----------------------------------------------------------------------------
\* Worker w is between its insert and its reply: it holds the user's day.
Holds(w, u) == reqs[w].at \in {"credit", "undo", "success"} /\ UserOf(w) = u
Held(u) == \E w \in Workers : Holds(w, u)

(***************************************************************************)
(* Safety: the unique index makes the record a lock.  However the requests  *)
(* of one user overlap, at most one of them is past its insert, and its row *)
(* is there with its amount until that request itself deletes it.           *)
(***************************************************************************)
DayIsHeldOnce ==
    \A w \in Workers, u \in Users : Holds(w, u) =>
        /\ records[u] = reqs[w].amount
        /\ \A v \in Workers : Holds(v, u) => v = w

\* The user got the amount, or Grant may have read so in an error.
PaidTo(u, amount) == applied[u] = amount \/ (applied[u] = 0 /\ u \in Lookalikes)

(***************************************************************************)
(* Safety: a user who is told of success got the amount shown.  The ledger  *)
(* has a success row of that amount, and upstream moved it, unless an       *)
(* earlier request of the day failed or was cut off; a user whose number    *)
(* reads like a hit may have got nothing.                                   *)
(***************************************************************************)
SuccessIsPaid ==
    \A w \in Workers : reqs[w].at = "success" =>
        /\ [key |-> UserOf(w), delta |-> reqs[w].amount, status |-> "success"] \in ledger
        /\ PaidTo(UserOf(w), reqs[w].amount) \/ UserOf(w) \in warned

(***************************************************************************)
(* Safety: records and upstream agree for every user nobody is working for  *)
(* and who never saw a failure: a record is paid in full, but for users     *)
(* whose number reads like a hit, and money without a record cannot exist.  *)
(***************************************************************************)
RecordsArePaid ==
    \A u \in Users \ warned : Held(u) \/ PaidTo(u, records[u])

(***************************************************************************)
(* Safety: reading the day's sum before inserting is a race, but a bounded  *)
(* one.  The budget is exceeded by at most one payment for each other       *)
(* request under way.                                                       *)
(***************************************************************************)
OvershootIsBounded ==
    DailyBudget > 0 =>
        SumFunction(records) <= DailyBudget + (Cardinality(Workers) - 1) * Max(Amounts)

-----------------------------------------------------------------------------
=============================================================================
