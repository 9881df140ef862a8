------------------------------ MODULE Campaign ------------------------------
(***************************************************************************)
(* A rank campaign and the settlement of one of its periods.  Settlements   *)
(* are started by administrators and, for a recurring campaign, by the      *)
(* scheduler; they are kept apart by the status of the period's row, which  *)
(* is looked at and written in different statements, and which stands for   *)
(* a dead settlement once it is thirty minutes old.  A settlement ranks the *)
(* users, pays them one after the other through Payout and writes an award  *)
(* row after each payment.                                                  *)
(***************************************************************************)
EXTENDS Integers, Sequences, FiniteSets, FiniteSetsExt, SequencesExt

CONSTANTS
    Workers,        \* goroutines that settle
    Users,
    Rankings,       \* what the board can show, a sequence of users each time
    RuleSets,       \* reward rules an administrator writes
    Caps,           \* limits an administrator writes for one period, 0 for none
    Lookalikes,     \* users whose number reads like an idempotency hit
    MaxEvents       \* bound: requests events and things that go wrong

NoRules == <<>>

\* Exact rules name one rank, range rules an interval.
Exact(rule) == rule.exact
Covers(rule, rank) == rule.from <= rank /\ rank <= rule.to

\* AmountForRank: an exact rule goes before a range, the last one wins.
AmountForRank(rules, rank) ==
    LET matching(exact) == {i \in DOMAIN rules : Exact(rules[i]) = exact /\ Covers(rules[i], rank)}
        last(s) == rules[Max(s)].amount
    IN IF matching(TRUE) # {} THEN last(matching(TRUE))
       ELSE IF matching(FALSE) # {} THEN last(matching(FALSE)) ELSE 0

ValidRules(rules) ==
    /\ rules # <<>>
    /\ \A i \in DOMAIN rules : rules[i].amount > 0 /\ 0 < rules[i].from /\ rules[i].from <= rules[i].to
    /\ \A i, j \in DOMAIN rules :
          i < j /\ Exact(rules[i]) = Exact(rules[j])
             => rules[i].to < rules[j].from \/ rules[j].to < rules[i].from

\* The handlers refuse other rules before they write a campaign.
ASSUME CampaignAssumption ==
    /\ \A rules \in RuleSets : ValidRules(rules)
    /\ RuleSets \subseteq Seq([exact : BOOLEAN, from : Nat, to : Nat, amount : Nat])
    /\ Rankings \subseteq Seq(Users)
    /\ IsFiniteSet(Users)
    /\ Caps \subseteq Nat
    /\ Lookalikes \subseteq Users
    /\ MaxEvents \in Nat

\* A board has one row for each user: the rewards board groups by user, and of
\* the consumption board the code takes it from Sub2API's list, unchecked.
ASSUME RankedOnce ==
    \A r \in Rankings : \A i, j \in DOMAIN r : r[i] = r[j] => i = j

VARIABLES
    final, applied, sent, calls,    \* as in Payout
    campaign,   \* its row in rank_campaigns: status, rules, cap, and whether it recurs
    period,     \* the period's row: its status, and whether it is 30 minutes old
    awards,     \* rank_campaign_awards of the period: users to status and amount
    settlers,   \* per worker, the settlement it runs
    expired,    \* scheduled settlements whose 30 minutes are over
    claimed,    \* campaignRuns: the scheduler has a settlement under way
    events,     \* requests events and things gone wrong so far, for the bound
    cancelling, \* a cancellation has read the status and not yet written
    caps,       \* history: the caps the row has had
    troubled    \* history: users with a failed payment or a lost award row,
                \* or paid while two settlements overlapped

creditVars == <<final, applied, sent, calls>>
adminVars == <<campaign, cancelling, caps>>
historyVars == <<events, troubled>>
vars == <<creditVars, adminVars, period, awards, settlers, expired, claimed, historyVars>>

Ranks == UNION {DOMAIN r : r \in Rankings}

\* The idempotency slot c<campaign>-p<period>-r<rank>-u<user>.
SlotKey(rank, u) == <<rank, u>>
Keys == {SlotKey(k, u) : k \in Ranks, u \in Users}
Amounts == {AmountForRank(rules, k) : rules \in RuleSets, k \in Ranks}

Credit == INSTANCE Payout WITH
    UpKeys <- Keys,
    UpKeyOf <- [k \in Keys |-> k],
    Requests <- [key : Keys, delta : Amounts],
    Mistakable <- {k \in Keys : k[2] \in Lookalikes}

Idle == [at |-> "idle"]

Init ==
    /\ Credit!Init
    /\ campaign = [status |-> "none", rules |-> NoRules, cap |-> 0, recurs |-> FALSE]
    /\ period = [status |-> "none", old |-> FALSE]
    /\ awards = [u \in {} |-> 0]
    /\ settlers = [w \in Workers |-> Idle]
    /\ expired = {}
    /\ claimed = FALSE
    /\ cancelling = FALSE
    /\ caps = {}
    /\ events = 0
    /\ troubled = {}

-----------------------------------------------------------------------------
(***************************************************************************)
(* The administrator's campaign.                                            *)
(***************************************************************************)
Event == events < MaxEvents /\ events' = events + 1

\* A statement or a payment of w goes wrong; once its time is over all of them do.
Fails(w) ==
    \/ w \in expired /\ UNCHANGED events
    \/ w \notin expired /\ Event

Editable == campaign.status \in {"draft", "active"}
Settleable == campaign.status \in {"draft", "active", "partial"}

Create ==
    /\ campaign.status = "none"
    /\ \E status \in {"draft", "active"}, rules \in RuleSets, cap \in Caps, recurs \in BOOLEAN :
          /\ campaign' = [status |-> status, rules |-> rules, cap |-> cap, recurs |-> recurs]
          /\ caps' = caps \cup {cap}
    /\ UNCHANGED <<creditVars, period, awards, settlers, expired, claimed, cancelling, historyVars>>

\* The update's own condition repeats the handler's check of the status.
Edit ==
    /\ Event
    /\ Editable
    /\ \E status \in {"draft", "active"}, rules \in RuleSets, cap \in Caps :
          /\ campaign' = [campaign EXCEPT !.status = status, !.rules = rules, !.cap = cap]
          /\ caps' = caps \cup {cap}
    /\ UNCHANGED <<creditVars, period, awards, settlers, expired, claimed, cancelling, troubled>>

BeginCancel ==
    /\ Event
    /\ Settleable
    /\ cancelling' = TRUE
    /\ UNCHANGED <<creditVars, campaign, caps, period, awards, settlers, expired, claimed, troubled>>

\* MarkCampaignStatus writes whatever the row says by now.
SetStatus(status) ==
    campaign' = IF campaign.status = "deleted" THEN campaign ELSE [campaign EXCEPT !.status = status]

Cancel ==
    /\ cancelling
    /\ cancelling' = FALSE
    /\ \/ SetStatus("cancelled") /\ UNCHANGED events
       \/ Event /\ UNCHANGED campaign
    /\ UNCHANGED <<creditVars, caps, period, awards, settlers, expired, claimed, troubled>>

\* One transaction, which counts the awards itself.
DeleteIfNoAwards ==
    /\ campaign.status \notin {"none", "deleted"}
    /\ DOMAIN awards = {}
    /\ campaign' = [campaign EXCEPT !.status = "deleted"]
    /\ period' = [status |-> "none", old |-> FALSE]
    /\ UNCHANGED <<creditVars, caps, awards, settlers, expired, claimed, cancelling, historyVars>>

-----------------------------------------------------------------------------
(***************************************************************************)
(* settleCampaignPeriod.                                                    *)
(***************************************************************************)
Settler(trigger) ==
    [at |-> "ensure", trigger |-> trigger, rules |-> campaign.rules, cap |-> campaign.cap,
     recurs |-> campaign.recurs, ranking |-> <<>>, existing |-> [u \in {} |-> 0], row |-> 0, spent |-> 0, failed |-> FALSE, result |-> "none"]

Goto(w, at) == settlers' = [settlers EXCEPT ![w].at = at]

\* Both kinds of settlement end like this; the scheduler's releases its claim.
EndSettlement(w) ==
    /\ settlers' = [settlers EXCEPT ![w] = Idle]
    /\ claimed' = (claimed /\ settlers[w].trigger # "schedule")
    /\ expired' = expired \ {w}

BeginManual(w) ==
    /\ settlers[w] = Idle
    /\ Event
    /\ Settleable
    /\ settlers' = [settlers EXCEPT ![w] = Settler("manual")]
    /\ UNCHANGED <<creditVars, adminVars, period, awards, expired, claimed, troubled>>

\* The minute's round over the campaigns, once the settlement time has come.
BeginScheduled(w) ==
    /\ settlers[w] = Idle
    /\ Event
    /\ campaign.recurs
    /\ campaign.status = "active"
    /\ period.status \notin {"settled", "empty"}
    /\ ~claimed
    /\ claimed' = TRUE
    /\ settlers' = [settlers EXCEPT ![w] = Settler("schedule")]
    /\ UNCHANGED <<creditVars, adminVars, period, awards, expired, troubled>>

\* A period that says running for thirty minutes is taken for dead.
ClosedTo(trigger) ==
    \/ period.status = "settled"
    \/ period.status = "empty" /\ trigger = "schedule"
    \/ period.status = "running" /\ ~period.old

EnsurePeriod(w) ==
    /\ settlers[w].at = "ensure"
    /\ w \notin expired
    /\ period' = IF period.status = "none" THEN [period EXCEPT !.status = "pending"] ELSE period
    /\ IF ClosedTo(settlers[w].trigger)
       THEN EndSettlement(w)
       ELSE Goto(w, "mark") /\ UNCHANGED <<claimed, expired>>
    /\ UNCHANGED <<creditVars, adminVars, awards, historyVars>>

MarkPeriod(status) ==
    period' = IF period.status = "none" THEN period ELSE [status |-> status, old |-> FALSE]

Paying(w) == settlers[w].at \in {"read", "pay", "award", "finish"}

\* From here on somebody else may be settling too; what is paid meanwhile is
\* not held against the period's bookkeeping.
MarkRunning(w) ==
    /\ settlers[w].at = "mark"
    /\ w \notin expired
    /\ MarkPeriod("running")
    /\ Goto(w, "read")
    /\ troubled' = IF \E v \in Workers : Paying(v) THEN Users ELSE troubled
    /\ UNCHANGED <<creditVars, adminVars, awards, expired, claimed, events>>

AmountAt(s, i) == AmountForRank(s.rules, i)

\* Mutant: a retry pays the users again that have their award.
AwardedNever(s, i) == FALSE

Awarded(s, i) ==
    /\ s.ranking[i] \in DOMAIN s.existing
    /\ s.existing[s.ranking[i]].status \in {"success", "skipped"}

CutByBudget(s, i) == s.cap > 0 /\ s.spent + AmountAt(s, i) > s.cap

Payable(s, i) == AmountAt(s, i) > 0 /\ ~Awarded(s, i) /\ ~CutByBudget(s, i)

\* The next row of the ranking that is paid, 0 if none is left.
NextRow(s) ==
    LET rows == {i \in (s.row + 1)..Len(s.ranking) : Payable(s, i)}
    IN IF rows = {} THEN 0 ELSE Min(rows)

\* Goes on with settlement s, that is, calls Grant for its next row.
Advance(w, s) ==
    IF NextRow(s) = 0
    THEN /\ settlers' = [settlers EXCEPT ![w] = [s EXCEPT !.at = "finish"]]
         /\ UNCHANGED calls
    ELSE LET next == [s EXCEPT !.at = "pay", !.row = NextRow(s)]
         IN /\ settlers' = [settlers EXCEPT ![w] = next]
            /\ Credit!Call(w, [key |-> SlotKey(next.row, next.ranking[next.row]),
                               delta |-> AmountAt(next, next.row)])

\* Mutant: a retry starts with the whole budget.
NothingSpent(existing) == 0

\* What the period's budget has paid already.
AlreadySpent(existing) ==
    SumFunction([u \in DOMAIN existing |->
                    IF existing[u].status = "success" THEN existing[u].amount ELSE 0])

\* The plan: today's ranking, which is whatever the board shows, against the
\* awards.  Without anything to pay the period ends as empty.
Plan(w) ==
    /\ settlers[w].at = "read"
    /\ w \notin expired
    /\ \E ranking \in Rankings :
          LET s == [settlers[w] EXCEPT !.ranking = ranking,
                                       !.existing = awards, !.spent = AlreadySpent(awards)]
          IN \/ NextRow(s) # 0 /\ Advance(w, s)
             \/ NextRow(s) = 0 /\ Goto(w, "empty") /\ UNCHANGED calls
    /\ UNCHANGED <<final, applied, sent, adminVars, period, awards, expired, claimed, historyVars>>

\* Ranking or awards could not be read.
ReadFails(w) ==
    /\ settlers[w].at = "read"
    /\ Fails(w)
    /\ Goto(w, "failed")
    /\ UNCHANGED <<creditVars, adminVars, period, awards, expired, claimed, troubled>>

MarkFailure(w) ==
    /\ settlers[w].at \in {"empty", "failed"}
    /\ \/ MarkPeriod(settlers[w].at) /\ UNCHANGED events
       \/ Event /\ UNCHANGED period
    /\ EndSettlement(w)
    /\ UNCHANGED <<creditVars, adminVars, awards, troubled>>

\* Mutant: the award says success whatever Grant answered.
ResultAlwaysOk(pc) == "success"

ResultOf(pc) ==
    CASE pc = "ok" -> "success"
      [] pc = "skipped" -> "skipped"
      [] OTHER -> "failed"

UserAt(w) == settlers[w].ranking[settlers[w].row]

GrantEnds(w) ==
    LET s == settlers[w]
    IN /\ s.at = "pay"
       /\ calls[w].pc \in Credit!Returned
       /\ Credit!Return(w)
       /\ settlers' = [settlers EXCEPT ![w] =
             [s EXCEPT !.at = "award",
                       !.result = ResultOf(calls[w].pc),
                       !.spent = IF calls[w].pc = "ok" THEN @ + AmountAt(s, s.row) ELSE @,
                       !.failed = @ \/ calls[w].pc = "error"]]
       /\ troubled' = IF calls[w].pc = "error" THEN troubled \cup {UserAt(w)} ELSE troubled
       /\ UNCHANGED <<final, applied, sent, adminVars, period, awards, expired, claimed, events>>

\* Update of the row that was read, or insert of a new one.  Errors are
\* ignored: that of the statement and that of UNIQUE(campaign, period, user).
WriteAward(w) ==
    LET s == settlers[w]
        u == UserAt(w)
        row == [status |-> s.result, amount |-> AmountAt(s, s.row)]
        taken == u \in DOMAIN awards /\ u \notin DOMAIN s.existing
        written == /\ w \notin expired
                   /\ ~taken
                   /\ awards' = [v \in DOMAIN awards \cup {u} |-> IF v = u THEN row ELSE awards[v]]
                   /\ UNCHANGED historyVars
        lost == /\ \/ taken /\ UNCHANGED events
                   \/ ~taken /\ Fails(w)
                /\ troubled' = troubled \cup {u}
                /\ UNCHANGED awards
    IN /\ s.at = "award"
       /\ written \/ lost
       /\ Advance(w, s)
       /\ UNCHANGED <<final, applied, sent, adminVars, period, expired, claimed>>

Finish(w) ==
    /\ settlers[w].at = "finish"
    /\ w \notin expired
    /\ MarkPeriod(IF settlers[w].failed THEN "partial" ELSE "settled")
    /\ IF settlers[w].recurs
       THEN EndSettlement(w)
       ELSE Goto(w, "close") /\ UNCHANGED <<claimed, expired>>
    /\ UNCHANGED <<creditVars, adminVars, awards, historyVars>>

\* A campaign that is settled once ends with its period.
CloseCampaign(w) ==
    /\ settlers[w].at = "close"
    /\ \/ SetStatus(IF settlers[w].failed THEN "partial" ELSE "settled") /\ UNCHANGED events
       \/ Fails(w) /\ UNCHANGED campaign
    /\ EndSettlement(w)
    /\ UNCHANGED <<creditVars, cancelling, caps, period, awards, troubled>>

\* A statement fails and the settlement ends where it stands.
SettlementFails(w) ==
    /\ settlers[w].at \in {"ensure", "mark", "finish"}
    /\ Fails(w)
    /\ EndSettlement(w)
    /\ UNCHANGED <<creditVars, adminVars, period, awards, troubled>>

-----------------------------------------------------------------------------
\* Thirty minutes after the period was marked running.
Age ==
    /\ period.status = "running"
    /\ ~period.old
    /\ Event
    /\ period' = [period EXCEPT !.old = TRUE]
    /\ expired' = {w \in Workers : settlers[w] # Idle /\ settlers[w].trigger = "schedule"}
    /\ UNCHANGED <<creditVars, adminVars, awards, settlers, claimed, troubled>>

CreditStep(w) ==
    /\ \/ Credit!Send(w) /\ UNCHANGED events
       \/ Credit!Succeed(w) /\ UNCHANGED events
       \/ Credit!Skip(w) /\ UNCHANGED events
       \/ Credit!Fail(w) /\ Fails(w)
    /\ UNCHANGED <<adminVars, period, awards, settlers, expired, claimed, troubled>>

Upstream ==
    /\ Credit!Upstream
    /\ UNCHANGED <<adminVars, period, awards, settlers, expired, claimed, historyVars>>

Crash ==
    /\ \E w \in Workers : settlers[w] # Idle
    /\ Event
    /\ Credit!Crash
    /\ settlers' = [w \in Workers |-> Idle]
    /\ troubled' = troubled \cup {UserAt(w) : w \in {v \in Workers : settlers[v].at \in {"pay", "award"}}}
    /\ expired' = {}
    /\ claimed' = FALSE
    /\ cancelling' = FALSE
    /\ UNCHANGED <<campaign, caps, period, awards>>

Admin == Create \/ Edit \/ BeginCancel \/ Cancel \/ DeleteIfNoAwards

SettlerStep(w) ==
    \/ EnsurePeriod(w) \/ MarkRunning(w) \/ Plan(w)
    \/ ReadFails(w) \/ MarkFailure(w) \/ GrantEnds(w) \/ WriteAward(w)
    \/ Finish(w) \/ CloseCampaign(w) \/ SettlementFails(w) \/ CreditStep(w)

Next ==
    \/ Admin
    \/ \E w \in Workers : BeginManual(w) \/ BeginScheduled(w) \/ SettlerStep(w)
    \/ Upstream \/ Age \/ Crash

Spec == Init /\ [][Next]_vars

-----------------------------------------------------------------------------
KeysOf(u) == {SlotKey(k, u) : k \in Ranks}
PaidTo(u) == SumFunctionOnSet(applied, KeysOf(u))

\* An award that says success or skipped was paid: the ledger has a final row
\* of the user in this campaign and upstream has moved the money, but for users
\* whose number reads like a hit.
AwardsArePaid ==
    \A u \in DOMAIN awards :
        awards[u].status # "failed" =>
            \E k \in KeysOf(u) : Credit!Final(k) /\ (applied[k] # 0 \/ u \in Lookalikes)

\* However often the period is settled, a user is paid under one rank, unless
\* the board moved between settlements and the user was part of a failure.
PaidForOneRank ==
    \A u \in Users \ troubled : Cardinality({k \in KeysOf(u) : applied[k] # 0}) <= 1

\* The users whose payments and award rows all went well are paid within the
\* cap, over all settlements of the period: within the largest of its caps, if
\* it was edited, as long as it always had one.
BudgetIsKept ==
    0 \notin caps =>
        \E cap \in caps \cup {0} :
            SumFunctionOnSet([u \in Users |-> PaidTo(u)], Users \ troubled) <= cap

=============================================================================
