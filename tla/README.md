# Specifications of sub2api-ext

`sub2api-ext` is a Go sidecar that adds check-ins, lotteries, tasks, rank
rewards, a redistribution of unused balance, account patrols, reports and a
creative studio to a Sub2API instance. Nearly every feature ends in the same
act: change a user's balance in Sub2API over HTTP, and remember in a local
SQLite database that it was done. These modules specify that act and the
features around it, check them with TLC on small instances, and prove the
properties that matter most with TLAPS for all instances. Sections 1 and 2 are
the inventory and the hazards, 3 to 6 what is modelled, checked, found and
proved, 7 what is left out, 8 what comes next.

Run from this directory:

    tlc -workers 2 -config MCPool.cfg MCPool.tla
    tlapm Pool_proofs.tla

## 1. The system

One process (`cmd/server/main.go`). HTTP handlers run one goroutine per
request; the campaign, redistribution, patrol, report, notification and
creative services run their own loops. They share

* one SQLite database, opened with `MaxOpenConns(1)` (`store.go:58`): statements
  and transactions of different goroutines never overlap, but everything between
  two statements does;
* one HTTP client to Sub2API with a timeout (`client.go:87`). Each balance change
  carries an `Idempotency-Key` made of scope, user and slot (`client.go:655`).
  Upstream applies a key at most once and answers a replay;
* `credit_ledger`, with a partial unique index: at most one `success` or
  `skipped` row per ledger key, any number of `failed` ones.

No transaction spans the two stores. A reply can be lost, a request can be
applied after its caller gave up, the process can die anywhere.

| component | state | operations | calls |
|---|---|---|---|
| credit service (`internal/credit`, `store/ledger.go`) | `credit_ledger`; the running calls | `Grant`, `Reclaim`; backfill at start | Sub2API |
| check-in (`handler.go`, `store.go`) | `checkin_records`, the on/off switch | `Checkin`, budget close, admin switch | credit, settings |
| lottery (`handler/lottery.go`, `store/lottery.go`) | `lottery_draws` | draw: reserve, pay, finalize or release | credit |
| task centre (`handler/tasks.go`, `store/task_claims.go`) | `task_claims` | claim: pay, then insert | credit |
| redistribution pool (`redistribution/service.go`, `store/redistribution.go`) | lots, draws, consumptions, refunds | `Draw`, `Recover`, `RefundExpired` each minute | credit |
| redistribution batches (same files, `engine.go`) | batches, entries, the `running` flag | preview, execute, cancel, delete, stop, trim, schedule | credit, pool lots |
| rank campaigns (`handler/campaign*.go`, `store/campaign*.go`) | campaigns, periods, awards | create, edit, cancel, delete, settle by scheduler or by hand | credit, boards |
| ranking boards (`store/ranking.go`, `sub2api/client.go`) | none of their own | list, place of a user, completeness | Sub2API |
| account patrol (`internal/patrol`) | runs, targets, failure streaks, the `running` flag | trigger, stop, cron, worker pool | Sub2API, notifier |
| notifier (`internal/notify`) | bounded queue, counters | publish, drop, deliver, retry | webhooks |
| daily report (`internal/report`) | last covered date | scheduled and manual send | notifier |
| creative studio (`internal/creative`) | jobs, media files, charges | request, poll, charge, refund, archive, open, delete | credit, providers |
| runtime settings (`internal/settings`, `handler/module_settings.go`) | settings rows and their copy in memory, the audit | update, switch, template, rollback, reload | store |
| maintenance commands (`cmd/*creative*`) | - | migrate media to WebDAV, recover videos | the studio's files and rows |
| rate limiter (`internal/ratelimit`) | counters per key | allow, sweep | - |

Configuration, metrics, the module registry, read-only and admin listings and
web pages keep no protocol and are not modelled.

What makes each correct:

* credit: the ledger shows success only for money that moved, a key is booked
  once, an `ok` can be relied on, money never moves without somebody owning or
  reporting it, every call ends;
* check-in: one reward per user and day, paid in the amount shown, the day's
  budget kept up to a bounded overshoot;
* lottery and tasks: one prize per draw, one reward per claim;
* pool: a lot pays out no more than it holds, what is set aside belongs to
  a draw or refund that exists, the books balance, what nobody draws goes back
  to its owner;
* batches: the pool shows no more than was reclaimed, every deduction becomes
  its donor's lot, a cancelled batch takes nothing, one scheduled batch a day;
* campaigns: an award is paid, a user is paid for one rank, the budget holds;
* patrol: one run at a time that gives its guard back, rows that tell which run
  is under way, no disposal of an account before its streak;
* notifier and report: every event delivered or counted, a date reported once by
  the scheduler and reported at last;
* creative: a refund follows a charge, a delivered work stays paid, a failed job
  stays due until it is refunded, its files are whole, reachable and removed
  with it;
* settings: a restart brings back what was in force, a switch or a rollback
  changes what it names and nothing else.

## 2. Hazards

`PROJECT.json` lists them at their lines. The recurring ones are: an ambiguous
answer from upstream taken for a failure, or the text of an error taken for a
success; a decision taken on one statement and
used after another (budget sums, status checks, idempotency lookups); a row
reserved by one goroutine and reset by another; a whole row written back from an
old copy; a crash between reservation, payout and completion; two ledger keys
that share an upstream key; amounts or ranks that change between a first attempt
and its retry; files and rows written in different steps; a queue at its limit; a read whose
error is dropped; a long sequence of partial updates of settings that
memory and rows see differently.

## 3. Modules

| module | models | composed with |
|---|---|---|
| `PayOnce` | what the payout promises at its most abstract: per upstream key the amount paid, and the keys booked; paid once, booked only after it was paid, or where an error can be taken for that | |
| `Payout` | `Grant`/`Reclaim` as callers see them: a call runs, sends, ends `ok`, `skipped` or `error` | |
| `Credit` | `internal/credit/credit.go`, `store/ledger.go`, the balance call of `sub2api/client.go`: a frame per worker, one step per statement, request and reply | implements `PayOnce` and `Payout` |
| `CreditAudit` | `Credit` plus a history of reported errors | `Credit` |
| `Checkin` | `handler.Checkin` with `store.TryInsert`, `applyDailyBudget`, backfill | `Credit` |
| `Rewards` | `LotteryDraw` with its store, and `TasksClaim` for the task "draw once today" | `Payout` |
| `Pool` | `Draw`, `Recover`, `RefundExpired` with their reserve, complete and reset transactions | `Payout` |
| `Batch` | plan, preview, cancel, delete, execute with stop and failure threshold, lots, trim, the scheduler's round | `Payout` |
| `Campaign` | one campaign and one of its periods: administration and settlement | `Payout` |
| `Periods`, `Boards` | which period is settled and under which key; which users are ranked and in which order | `Calendar`; evaluated in `MCCampaign` |
| `Creative` | the jobs of the studio: requests, charges, refunds, poller | `Payout` |
| `Media` | the studio's files in two stores, their rows, readers, deletion, both maintenance commands | |
| `Patrol` | callers, run, workers, streaks and the rows of runs | |
| `Cron` | five-field schedules of patrol and redistribution | `Calendar`; evaluated in `MCPatrol` |
| `Notifier`, `Report`, `Alerts` | queue and worker; schedule and manual send; both together | `Alerts` instantiates the other two |
| `ModuleSettings`, `CheckinSettings` | what an update and a start make of each module's settings | |
| `Settings` | editors, memory, rows, audit, restart | extends both |
| `Calendar` | the part of Go's `time` package that periods and schedules use (external) | |
| `MC*` | instances of the above for TLC | |
| `*_proofs` | theorems; each extends the module it is about, `Checkin_proofs` also `Settings`, `Background_proofs` all of `Patrol`, `Alerts` and `Batch`, `Creative_proofs` also `Media`. `Payout_proofs` holds the lemmas that every component composed with `Payout` shares | |

`Checkin` instantiates the whole of `Credit`: its workers are request
goroutines, `Credit!Call` is made in the step that inserts the record, and the
frame is popped by the step that reads the result. The same composition is out
of TLC's reach for the other components (both sides have several program
counters), hence `Payout`: `Credit` is checked and proved to implement it
(`ImplementsPayout`), and the others rely on nothing else. `Payout` keeps what
matters to a caller: an error says nothing about the money, a request may be
applied after the call has ended, a final ledger row makes the next call
`skipped`, and a request with a used upstream key changes nothing.

Credit. `calls[w].pc` is the place in `Grant`: `check` (`HasLedgerIdem`),
`zero` (skipped row), `send` and `wait` (one attempt), `lookup`
(`GetUserByAdmin` after an error that looks like an idempotency hit), `record`
(success row), `fail` (failure row). `hit` remembers that an attempt's error
looked like such a hit, `try` counts the two attempts of an addition. `net` holds
requests sent and not yet served: `Apply` may come before or after the client
has given up. An unsuccessful attempt is one of three steps. `ReplyDuplicate` is
an answer of upstream that says so; `ReplyError` any other error, a timeout
included; `ReplyMisread` an error that is no such answer but whose text reads like
one. `Grant` searches the text of both errors for "409", "already" and two more
(`credit.go:94`), and the text of a broken connection holds the URL
`/admin/users/<id>/balance` (`client.go:415`, `511`) and may hold addresses and
ports. `Mistakable` is the set of upstream keys this can happen to; a reclaim does
not look at the text. `StatementFails` stands for every database error, the violation of
the unique index included.

Check-in. The record, the ledger key and the upstream key of one day are
functions of the user, so a user stands for all three. `ReadSpent` and
`InsertRecord` are two steps because they are two statements; `Restart` is the
crash, followed by as much of the backfill as succeeded.

Rewards. `slots[u]` is the user's row of the day in `lottery_draws` (`NoRow`, or
its amount, which stays 0 between reservation and `Finalize`), `claims[u]` the
row in `task_claims`. The two handlers use the payout in opposite orders: a draw
reserves its row, pays, and finalizes or releases the row; a claim looks at the
progress and at the claim row, pays, and inserts the claim row. They meet in the
lottery row, which the task counts as done from the moment it is reserved.
`SumSpent` and `Reserve` are two steps because they are two statements; the wheel
turns in the step of the reservation, as nothing else happens in between. A
lookup of the claim that fails is ignored by the code, so `LookupClaim` may go on
to pay a user whose claim is there. Of the other task kinds only the progress
differs, a read of other tables.

Pool. `lots[l]` has the consumed and refunded amounts, `draws[u]` the draw row
of the day with its consumption rows (`takes`; index 0 is legacy money, deducted
by batches that made no lots), `refunds[l][k]` the row of each kind. A request
remembers the row id it holds as `row`: deleting the row takes it away from
every request that holds it. `ReserveDraw`, `ResetDraw`, `ReserveRefund` and
`ResetRefund` are transactions of the store and one step each. A request that
finds its draw still in progress pays it again with the same key, as the code
does. Two refunds of one lot have different ledger keys and the same upstream key
(`UpKeyOf`). `doubtful` turns true when a reset gives back an amount that was paid
or still can be: the row is no longer in progress, something was applied or is
under way under its key, or another request has a call for it (`GiveBack`).
`Crash` ends all requests and keeps all rows: nothing at start looks
for reservations left behind.

Batch. `batches[b]` is the row with its donor entries; deleted and trimmed rows
stay as status `deleted` so that ids are not used twice. `PlanOf` is the engine's
plan over the users in the order of their idle time; who is idle is a free
choice (`Orders`), balances move between plan and execution (`Move`). `execution` is
the run that is under way: `s.running`, `s.runBatchID` and the stop channel, with the place
between two donors. The scheduler's round is three steps because the query for
today's batch, the plan over all users and the execution lie far apart. The code
drops the error of that query and goes on as if there were no batch
(`service.go:839`); `blind` marks a round that ran without seeing the others,
because its query failed or because another round was on its way. The entries of a batch are
executed in the order of the query that lists them (`Listed`). A failed deduction counts against the policy's threshold; `Abort` is the end by
threshold or stop, `CreateLot` one lot, `EndFails` any statement of the end that
fails.

Campaign. `period` is the period's row with `old` for "marked running more than
thirty minutes ago", `awards` its award rows. A settlement (`settlers[w]`) ensures
the row, marks it running, reads the board and the awards (`Plan`), pays one user
after another and writes an award row after each payment, then closes the period
and, for a campaign without recurrence, the campaign. A user's key contains the
rank (`SlotKey`). An edit writes status, rules and `budget_cap`, a cap of 0 when
the request does not name one; `caps` collects the caps the row has had. A settlement
works with the row it has read. `claimed` is the scheduler's own guard (`campaignRuns`),
`expired` the contexts that end its settlements after thirty minutes. Board and rules may
change between any two settlements.

Creative. Whoever works on a job holds a copy of its row (`tasks[a].job`) and
writes the whole row back (`Written`), as `UpdateCreativeJob` does; a write may
get lost (`WrittenOrLost`). A request inserts the job, charges, saves the charge,
asks the provider and completes or fails; the poller takes the lists of submitted
videos and of due refunds one after the other, one job at a time. A video
without a request id is asked for by an empty id; the model assumes that the
provider has none there (`PassOver`).

Media. One work of two pictures or one video: `image` and `video` are the rows,
`files` what each store holds under each name (`none`, `short`, `whole`). A
picture's name contains the token of the attempt that archived it; the video's
name is fixed. `activity` is what everybody is doing: the request that makes the
work, the readers, the poller, a deletion and both commands. Readers archive a
work again under a lock when the file a row names is not there or not whole; the
poller archives videos; deletion marks the row and removes files one by one;
`Migrate` and `Recover` are the two commands beside the server. A token is drawn
at random in the code; the model draws one that no file, row, task, list or
`damaged` still mentions. A store that cannot tell the size of a picture makes a
reader archive the work again although all is there (`Restore`); a request for a
range is not measured (`Usable`), and neither is a video.

Patrol. Cron loop and administrator are two callers of `Trigger`. `run` is what
`s.running` guards, with its copy of the settings, its list and its workers;
`ending` holds runs that have given the guard back and are still being written
down, since the flag falls before the last statement. A disposal that is answered by an
error may have been carried out. `fails[a]` is the set of
runs that found the account failing since its last success.

Alerts. `Notifier` and `Report` keep their own variables and share the switch of
the notification centre and the budget of events; `Alerts` adds the crash that
takes both. `published` counts what was offered to the queue, dropped or not. It
calls their `events` and the report's `settings` by names of its own (`alerts`,
`reportSettings`), so that a module can extend it and `Patrol`. The deferred stops
of both are left out: `main` handles no signal, nobody calls `Shutdown`, and an
error of `ListenAndServe` ends in `log.Fatalf`, which skips deferred calls.

Settings. One of eight modules in each behaviour. An editor reads the copy in
memory, computes the next settings, stores them, puts them in force and writes
the audit, in five steps without a lock. A start stores what it clamped of the
check-in (`RowsAtStart`), so a default reward above the cap is a row after the
first start. The values, per module, are what the
code's normalisation and validation make of the offers in `MCSettings`.

## 4. Runs

| run | asks | bounds |
|---|---|---|
| `credit` | does the ledger tell the truth, can money move unseen, does every call end, does the service refine `PayOnce` and `Payout` | two workers, two keys, one of them mistakable; the other asked for an amount and for 0 |
| `checkin` | one reward per day, paid as shown; how far can the day's budget be exceeded | two requests, three users, one of them mistakable, a reward above the cap, a budget of one unit that closes the check-in |
| `rewards` | one prize per day and one reward per claim, both recorded and paid | two workers, two users, one of them mistakable, a miss and a prize above the hard cap, a budget of one unit |
| `pool` | does a lot pay at most what it holds, does what is set aside belong to somebody, do clean books balance | two workers, one user, two lots of one unit, the refund of the second mistakable, one unit of legacy money, draws of three units |
| `pool_refund` | a promise of the web page that the code does not keep (section 5) | two workers, one lot of two units |
| `batch` | is the pool backed, do batches account, is a cancelled one harmless, one scheduled batch a day | two batches, two donors, an `excess` and a `percent` policy, four events |
| `campaign` | are awards paid, nobody for two ranks, within the budget | two settlements, two users, one of them mistakable, a board before and after an overtaking, caps of one and two units, four events |
| `creative` | do refunds follow charges, do works stay paid, do failed jobs stay due, does what is due settle | two workers and the poller, two jobs, one of them mistakable, one request key, three events |
| `media` | are named files whole, readers served, deleted works removed, migrations complete | two readers, the request, the poller, a deletion, both commands; two pictures and two attempts, three requests, one thing that goes wrong |
| `patrol` | do rows tell which run is under way, is nobody disposed of too soon, do runs end | two runs of two workers, two overlapping groups, thresholds 1 and 2, two actions, one event |
| `alerts` | do the counters add up, is a date reported once and at last | a queue of one, two retries, three days, four events |
| `settings` | does a restart restore, a switch keep, a rollback bring back | eight modules, two editors, up to three edits, restarts or failures |

Why these bounds are enough. Workers interact only through rows of one key (or
one user's day, lot, job, period, or account) and through sums over rows, so one
or two of these with two workers show every race on them. Two users are needed
where a sum or an order is shared, and three in `checkin`: two workers may exceed
the budget of one by one, and only a third user can show that they do not exceed it by
more. Different amounts under one key matter because replays ignore the amount,
and zero has its own path; that two ledger keys share an upstream key is left to
`pool_refund` and to the theorems, which hold for every `UpKeyOf`. A draw of three
has to be put together from both lots and legacy money. Two pictures tell an
archive that broke off from a whole one, two attempts the files of one from
those of the other. Messages are a set: a request with the same key and amount
sent twice is one element, and a second application changes nothing anyway.
`Credit`, `Checkin`, `Rewards` and `Pool` have no counter; in the others an
`events` (`requests`, `trouble`) counter bounds what administrators ask for and
what goes wrong, so that a behaviour has some of each and every combination of
them within the bound; steps of the code are never counted.

Deadlock is checked where the system always has something left to do (`credit`,
`checkin`, `rewards`). Elsewhere a behaviour ends: every lot settled, every job
done, the events used up.

Fairness. All of it says that a goroutine that can go on does, and that waits
end: the client has a timeout, so an error is always a possible answer. Nobody
has to ask for anything.

* `Credit` (`CallsEnd`): nothing is assumed of upstream.
* `Creative` (`JobsSettle`): workers and the poller go on; a request that is on
  its way is applied and a provider's video ends. That is an assumption about
  the outside which the retries of the poller need: it is what they wait for.
* `Patrol` (`RunsEnd`): callers, the run and its workers go on.
* `Alerts` (`ReportArrives`): the report's scheduler ticks and its calls end.

Pure algorithms are checked by `ASSUME`s that TLC evaluates with the run:

* `MCCampaign`: the key of a settled period leads back to the period
  (`KeysNamePeriods`); the periods of successive days leave nothing out and do
  not overlap, over two years with a leap year and a year of 53 weeks
  (`PeriodsFollowEachOther`); every ISO week of 2019 to 2029 has its key and no
  other number is one (`YearsHaveTheirWeeks`); a campaign settles exactly the
  periods inside its dates (`PeriodsStayInside`); the rank a user is told is its
  place in the list that is paid (`RankIsThePlace`); a token board that is
  accepted has lost at most one token (`BoardsAreComplete`).
* `MCPatrol`: fields, steps and bounds of a schedule (`FieldsAreRead`), the rule
  for date and weekday (`DateOrWeekday`), the search for the next run
  (`NextIsFound`).

Each property of a passing run has a mutant: an operator next to the definition
it changes, marked "Mutant", with a plausible slip (a missing index, an ignored
error, a retry too many, a forgotten guard, a swapped order). Under the mutant
TLC finds the property violated.

What the history variables excuse. Many properties leave out what a failure made
unknowable: `troubled` (a payout or row update with an unclear outcome),
`unreset` and `unwritten` (a lost statement of the patrol), `excused` (a mark of
the report lost or overwritten), `torn` and `misread` (overlapping edits of
settings, a failed read at start), `leftovers` and `damaged` (a failed removal, a
file broken from outside), `blind` (a scheduler round that could not see the
others' batches), `doubtful` (an amount of the pool given back that was, or could
be, paid). They record exactly the step after which the code itself no longer keeps the promise,
and section 5 says what then happens. Everything else, races included, is covered.

Mistakable keys. The properties about money that was booked or promised leave out
the keys in `Mistakable` (the users, jobs or lots in `Lookalikes`), for which
`Grant` may say `ok` and write a success row with nothing paid. Every run of a
component that pays has such a key and one that is not, except `batch`, which
only reclaims, and `pool_refund`, where the violation must not be owed to a
misread error. The set is arbitrary in the theorems. A behaviour in which the errors
of some keys are in fact misread is one of the model in which exactly these are
`Mistakable`; so the theorems leave out no payout but those to which it happens.

## 5. Where documentation and code disagree

The run `pool_refund`: `tasks.html:508` promises that what nobody draws returns
to its owner. The second refund of a lot, or a retry with another amount, is a
replay upstream: it shows success and pays nothing.

The following come from the steps of the models and have no run of their own.

Payouts.

* `Grant` books additions that were never made. After two failed attempts it takes
  the words "409", "already", "duplicate" or "idempoten" anywhere in the two error
  texts for the sign of a replay, and a lookup of the user for its confirmation
  (`credit.go:94`). The text of a timeout holds the URL with the user's number: for
  user 1409, two timeouts and a working lookup make a success row, an `ok` to the
  caller and no payment. `ReplyMisread` is that step. `SuccessBacked`, `OkIsBooked`
  and what the features promise about money leave out the keys it can happen to.
* The comment at `ledger.go:338` says the backfill copies successful rows. After
  a crash between record and payout it books a success for money that never moved.
* The comment at `handler.go:421` says the check-in record is deleted only after a
  definite failure ("明确失败才删占坑"), but `CreditFailed` and `Undo` delete it
  after any error, timeouts included, and then upstream may have paid.
* `README.md:629` calls `daily_budget` an upper limit, but sum and insert are
  separate statements; `OvershootIsBounded` says what that can cost: one largest
  payment for each other request under way. The lottery's budget is read the
  same way. A tiny fixed amount rounds to 0 and the check-in pays nothing.
* `OPTIMIZATION_SUMMARY.md:169` promises that at most what was deducted is
  distributed. An ambiguous error returns a draw's amount to the lots although it
  may have been paid, and then the lot pays it twice although its counters stay in
  range: `LotsPayWhatTheyHold` compares a lot with what upstream has paid from it,
  and holds until an amount is given back that was paid or still can be. The
  reservation counts only draws in progress against the legacy money, so that the
  money of a successful draw is drawn again.
* A crash between reserving and completing a refund leaves it in progress for
  ever; its lot is never listed again (`tasks.html:508` once more).
* A draw in progress can be resumed by a second request: both pay (upstream pays
  once), one loses the race to the ledger's unique index and resets the draw, and
  the lots get back what the other completes; the model marks this, too, as
  `doubtful`.

Batches and campaigns.

* What a stopped or failed batch deducted becomes legacy money without an owner;
  trimming the batch's row makes it vanish. After a crash a batch is running for
  ever and its deductions are in no pool. Overlapping rounds of the scheduler, or a
  round whose query for today's batch fails, can make two scheduled batches a day
  (`service.go:839` drops the error).
* A settlement writes its final status over `cancelled`; the comment at
  `campaign.go:370` says that cancelling stops the display. Deleting a campaign
  that has no awards yet, while its first settlement pays, leaves paid awards of
  a deleted campaign.
* Any edit of a campaign that names no `budget_cap` sets it to 0, which means no cap.
* `admin.html:1227` ("每个结算周期最多发放") holds for one settlement of the period;
  two that overlap each count from what they read. A period whose whole window
  passed while the server was down is never settled automatically.
* A settlement may be paid by a ranking up to thirty seconds old, which undoing a
  check-in does not invalidate; the rewards board lists users with a total of 0;
  the completeness check of the token board is off when Sub2API reports no total.

Studio.

* `admin.html:3512` promises a refund when generation fails. A charge that ended in
  a timeout is not refunded. A crash between charge and completion leaves the
  picture's job processing and charged for ever; the same holds for a video that
  got no request id. The poller takes the twenty rows not updated for longest,
  so rows it cannot move hold up others.
* An upload to WebDAV that breaks off is taken for done on the retry, because the
  object is there (`creative/media.go:238`). A short object on WebDAV hides the
  whole local file behind it (`admin.html:1343`). Deleting a work removes its
  cached media (`admin.html:3730`), but a reader at the same time, or an
  administrator who opens the deleted work, archives it again; files in a store
  that was switched away stay.

Patrol, report, settings.

* The comment at `runner.go:500` says that a single hiccup disposes of nobody.
  A reset of the streak that could not be written makes the next failure count
  with the old ones. The hint of the next run looks eight days ahead, so a
  monthly schedule shows none.
* `README.md:264` says that a covered date is sent once ("同一覆盖日只会发一次"). A
  failed mark, a crash before it, or a manual send of another date makes the
  scheduler send it again.
* Overlapping edits leave memory and rows different and lose updates. A key that
  could not be read at the start keeps its default, and the next edit stores the
  default over it. A redistribution update that was stored is answered as an
  error, and not in force, when the row's time cannot be read back.
* Random ranges whose lower bound rounds to 0 are stored but refused later: every
  later update fails, closing the check-in by the budget included (`README.md:630`).
* Going from random ranges to fixed and back to random without ranges keeps the
  old ranges in the rows, and a restart brings them back. `README.md:404` offers a
  rollback to an audit record; a record without ranges, or with some that are not
  valid any more, leaves the present ones in force under the cap brought back, and
  in the random mode they decide the rewards (`settings.go:668`). `RollbackRestores`
  says which ranges count in either case.
* Media settings are probed with one copy of the settings and saved over another.

The passing properties say how far the damage goes. `LotsPayWhatTheyHold`: a lot
is paid out twice only by giving back what was, or could still be, paid.
`SetAsideForSomebody`: no amount is locked away without a row. `CleanBooksBalance`:
up to the same point the books balance exactly, through failed payouts and crashes. `PoolIsBacked`: the pool never shows more than
donors lost. `RefundsFollowCharges`: the studio gives nothing back that it did
not take. Lottery and tasks keep their promises: paying first and inserting the
claim second is safe, as the comment in `TasksClaim` says, and a prize is recorded
for every user none of whose payouts or statements failed; for users whose errors can be misread
both are recorded and possibly not paid.

## 6. What is proved

For any sets of workers, users, keys, lots, jobs, boards, accounts, days and
amounts (under the assumptions below):

| theorem | says |
|---|---|
| `Credit_proofs!TypeCorrect`, `CreditInvariant` | every reachable state is well formed and satisfies `CreditInv` |
| `SuccessRowsAreBacked`, `OkCallersAreBooked`, `KeysAreBookedOnce` | a success row is backed by money and an `ok` by money and a row, mistakable keys excepted; a key has one final row |
| `CreditRefinesPayOnce`, `CreditRefinesPayout` | every behaviour of `Credit` is one of `PayOnce`, and to its callers one of `Payout`; both let a mistakable key be booked unpaid |
| `MoneyIsNeverLostSilently`, `LateRequestsNeverSurprise` | money not booked is owned or was reported; so is a request still on its way |
| `Checkin_proofs!OneHolderOfTheDay` | at most one request of a user is past its insert, and its record stays |
| `Checkin_proofs!SuccessesArePaid`, `RecordsMatchMoney` | who is told of success has the ledger row and, unless mistakable, the amount shown; a record at rest of a user without a failure is paid, with the same exception, and there is no money without one |
| `Checkin_proofs!OvershootStaysBounded` | the daily budget is exceeded by at most one payment for each other worker |
| `Checkin_proofs!RestartAlwaysRestores` | a start brings back of every module's settings what was in force, unless the settings were torn or unreadable |
| `Checkin_proofs!SwitchesKeepTheRest`, `RollbacksRestore` | a switch changes nothing else; a rollback brings back what the audit entry said, the rewards it paid included, but for ranges the entry does not have |
| `Rewards_proofs!ClaimsArePaid`, `PaidTasksAreClaimed` | a claimed task has been booked and, unless mistakable, paid; a paid one, of a user without a failure, is claimed or about to be |
| `Rewards_proofs!PrizesAreRecorded` | a lottery row at rest shows what upstream has paid, or nothing was paid to a mistakable user |
| `Pool_proofs!LotsNeverPayTwice` | upstream pays no more from a lot than was put into it, until an amount is given back that was, or could be, paid |
| `Pool_proofs!NothingIsLockedAway`, `CleanBooksStayBalanced` | what a lot has set aside belongs to rows; as long as nothing was given back in that way it is exactly what they took, and users have what their draws say |
| `Campaign_proofs!AwardsAreAlwaysPaid` | an award that says success or skipped is in the ledger and, unless mistakable, paid upstream |
| `Campaign_proofs!UsersArePaidOnce`, `BudgetStaysKept` | a user is paid under one rank, and all together within the largest cap the campaign has had, if it always had one, failures and overlaps excepted |
| `Creative_proofs!RefundsAlwaysFollowCharges` | only what was charged is given back |
| `Creative_proofs!CompletedIsAlwaysPaid`, `FailedJobsStayDue` | a completed work is paid for; a failed one whose money was taken stays due for refund |
| `Creative_proofs!ArchivedFilesExist`, `MigrationLeavesNothing` | every file that the row of a visible work names is whole somewhere; after a migration that ended complete, in the new store |
| `Creative_proofs!NothingIsLeft`, `ReadersSeeWhatIsThere` | no file of a deleted work stays behind; a reader nothing disturbed is refused only if there is nothing to show |
| `Background_proofs!CancelledStayEmpty`, `OneScheduledADay` | a cancelled batch takes nothing and gets no lots; a day has one live scheduled batch, unless a round ran without seeing the others |
| `Background_proofs!FinishedBatchesAdd`, `PoolStaysBacked` | what a finished batch took is its donors' lots, errors excepted; the pool never shows more than was taken |
| `Background_proofs!RowsStayTrue`, `NobodyIsDisposedHastily` | a patrol row says running as long as its run does; an account is turned off only after enough failing runs in a row |
| `Background_proofs!EventsAccounted`, `ReportedOnce` | the notifier's counters account for every event, the dropped ones included; the scheduler delivers no date twice whose mark stayed |

Assumptions are the `ASSUME`s of the modules, and TLC evaluates them in every
run. Most say that amounts and prices are naturals, that deltas are integers and
that identifiers are numbered. Those the later proofs brought with them: workers
and users are finite sets where something is summed over them (check-in, pool,
campaign), accounts where they are listed (patrol); a check-in reward always
exists, since `PickReward` falls back on one; campaign amounts are whole units;
and a board names a user once (`RankedOnce`). The rewards board groups by user,
which gives the last one; the consumption board takes it from Sub2API's list,
and if that list named a user twice the user would be paid under two ranks.
What administrators may ask for is any set of offers with the types of the
handlers' structures (`OffersAssumption`); `Texts` is any set of texts with the
ones the code compares with or writes; and the largest prize is a whole number
of units and at least the default prizes (the code's cap is 10000, `MaxPrizeAmount`).

Together the theorems reach through the composition: `Credit` implements
`Payout` (proved), and the proofs about rewards, pool, campaigns and the studio
use of `Payout` nothing but its actions.

### The payout

`CreditInv` adds to the properties what a running call knows: only requests that
move money are sent, and a frame at `lookup`, `record` or `ok`, or with `hit`
set, belongs to a key that upstream has applied or that is mistakable. Without the last part a success
row could not be traced back to the reply that caused it. It is inductive
because upstream never takes back what it applied and rows are never removed.
`PayOnce` is implemented by the same invariant: writing a success row is the
abstract booking, applying a request the abstract payment, every other step a
stutter. `Payout` needs one fact more, that only a request for nothing gets to
`zero`; then every statement that writes a final row, every request sent and
every end of a call is the step of that name in `Payout`, and the rest is
invisible. The audit theorems strengthen the invariant by who is in charge of
each key.

`PayoutOK` (`Payout_proofs`) is what every component may use of the payout: a call
that ended `ok` or `skipped` has a final row, every final row has money behind it
or is of a mistakable key, as long as nobody asks for nothing, and what was applied or booked stays so. It is
preserved by every move of the payout and by calls and returns of its callers
(`PayoutStep`). Two notions carry the proofs about amounts: a key is *calm* when
something was applied under it or nothing is under way, so that it will not
change by itself, and it is *asked* for an amount when all that is applied or
under way is that amount. The module also holds the lemmas about sums over
finite sets, by induction over the subsets of a set or over the naturals (there
is always a smallest counterexample, `NatLessThanWellFounded`). Rewards, pool,
campaigns and creative instantiate it.

### Check-in, lottery and tasks

`DayInv` (check-in) says that a request past its insert has an amount, and that
the record of the user equals it; the unique index makes two holders impossible.
`PaidInv` adds the money. Check-in runs against `Credit` itself, since its list
of records looks into the ledger; so the invariant speaks of frames: a request
at `credit` has a call for the record's amount (`CallsOK`), every final row is
that of a record that is there (`LedgerOK`), and for a user nobody holds and
nothing happened to, the record equals what was applied and the key is calm
(`UserOK`). That a record is only deleted after a call that left no final row is
what makes `LedgerOK` inductive.

`BudgetInv` (check-in) is about two sums, what is recorded and what requests at
`insert` are about to record: together at most the budget and one largest payment
for each other worker. A request that reads the sum gets an amount that fits
beside what is recorded; the others at `insert` are at most all other workers.
Requests that move and records that appear shift weight between the sums.

`ClaimInv` (rewards) follows a call: a request waiting at `grant` has a call under
its task's key, and one at `claim` has been served. `RewardInv` says who has a
row in hand. Only the request that reserved a user's lottery row pays under its
key, and for the amount it then writes; while it has the row upstream shows
nothing or that amount, when nobody has it upstream shows the row (`PrizeOK`). A
task that nobody collects and that is not claimed is calm and unpaid (`TaskOK`).

### Settings

Each module has a set of settings at rest (`Settled`): what its normalisation and
validation let through. Four lemmas per module carry the proof: an accepted update
of settings at rest is at rest (`UpdateSettles`), a start reads any rows into
settings at rest (`ReloadSettles`), what was written is read back as what is in
force (`ReadsBack`, `UpdateReadsBack`), and an update that names only the switch
changes nothing else (`SwitchKeeps`). All but the check-in store every field at
every update, so that the rows are settings at rest or empty. The check-in stores
only what a request names, and there the argument is that the amounts and the cap
are always written together (`CheckinRows`): the rows a partial update leaves alone
still say what is in force, and the amounts read back fit the cap that clamps them.

`SettingsInv` has three parts. `SettingsTyped`: memory is at rest, rows are as
above, an audit entry can be brought back unchanged but for its ranges, and what an editor writes was
computed from settings at rest. `OneAtATime`: unless torn, one editor at most is
past its read, and what it carries is the update of what is in memory now.
`RowsAgree`: unless torn, the rows say what is in force, or what the one editor
past its write is about to put in force. A start that could not read its keys
suspends it, for the check-in until the next start, for the others until the next
update, which stores every field.

Two things came out of it. In the random mode the check-in's `reward_amount`, the
rounded middle that is only shown, can be zero or above the cap when the bounds are
below one unit, and a start reads it as neither; `InForce` therefore leaves it out
in that mode, and the run's offers now include such bounds. And normalising is
idempotent, which is what makes switches harmless: the prover has it for each
module, for lists of prizes, rules and tasks of any length (`PickedAll`: picking
all places of a list gives the list).

### Pool

`LotInv` says that rows are well formed and that a request past its reservation
finds the row it reserved, unless the row was deleted behind its back. Then every
step is local to a lot: a reservation takes at most what remains, and a reset
reads its amount from a row that is there and only lowers what is taken.

`AsideInv` measures, for draws and for refunds of a lot, the *gap* between what
rows took and what the lot counts as taken. Every step but a reset keeps both
gaps; a reset takes the row away and lowers the count by at most the row's
amount, because it floors at zero, so a gap stays at least zero.

`BooksInv` holds as long as nothing `doubtful` was given back. The gaps are zero;
every call, request and movement under the key of a draw is for the amount of the
draw's row (`PaidRight`), and under the key of a lot's refunds for no more than
its refund rows took (`RefundRight`). A reset that is not doubtful finds nothing
applied, sent or called under its key, so the row it takes away is missed by
nobody (`DrawGivenBack`, `RefundGivenBack`). What upstream has paid from a lot is
then, term by term, at most what its rows took; that is what the lot counts, and
the lot's counters stay within what was put into it (`CountersFit`, part of
`LotInv`).

### Campaigns

`AwardInv` says of a settlement that its place in the list is a place
(`SettlersOK`), that while it pays its call is under the key of that place's rank
and user, and that a result it is about to write is backed when it is not
`failed`; and of the awards that they are backed (`AwardsOK`). The board is frozen
in the settlement when it is read, which is why a board that moves cannot
confuse a payment that is under way.

`RankInv` ties money to what somebody remembers, for a user without a failure.
While no settlement pays the user, either nothing was paid and nothing is under
way, or there is an award and the money of one rank. A settlement that pays has
read every award of the users still to come, because nobody else pays at the
time (`Knows`); so it comes to a user only if nothing was paid. `CapInv` adds the
amounts: an award has the amount that was paid (`RightFor`), and a settlement at a
payment has counted at least what all other users without a failure were paid,
those of earlier settlements included, and one of the caps the row has had has
room for the next (`Capped`). Users with a failure leave the sum; they never enter it again.

### Studio

`ChargeInv` says that every row and every copy of a row whose charge is marked
taken or due for refund belongs to a job whose charge was applied (`RowsOK`,
`TasksOK`), and that every refund on its way, running or applied belongs to such
a job (`RefundsOK`). Marks on rows can be lost by writes of old copies, but none
appears without an `ok` of its charge, and only marked copies are refunded.

`StudioInv` says, for each job without a lost update or an unclear charge, what
every copy of its row may differ in. One request at a time works on a job, and
what it knows of the row follows from where it is (`Fits`); the poller's copies of
videos are current while the job is processing (`VideoCopy`), its copies for
refunds are of jobs that have failed (`RefundCopy`). That is why no copy that is
out of date can write a completed job back to failed, or clear a due refund.

### Batches

`BatchInv` follows the money of a batch by its key per donor: a key is *untouched*
while nothing has moved under it and nothing is on its way, and *quiet* once what
has moved is all that ever will. The keys of a batch nobody has begun are
untouched (`Unspent`), and so are those of a cancelled one, because only a draft
can be cancelled and only a draft is executed. In the batch that is executed each
entry in memory is settled, being charged or waiting, according to its place
(`RunInv`); donors are distinct, so the one running call can disturb no other
entry, and a settled one stays so. `DonorKept` is that step. Distinct donors come
from the plan, whose fold is shown to define what it should and to append each
user of the order at most once (`PlanningExists`, `PlanIsNew`). When the loop is
through, every deduction that nothing went wrong with has its lot (`AllInLots`),
and a lot is, for good, what upstream took under its donor's key. The pool is the
larger of two sums, what the rows say and what the lots are; each finds, term by
term, a deduction of its own (`SumInjective`), the lots batch by batch
(`SumByClass`). `RoundInv` says that, unless a round was `blind`, at most one round is on its
way and only while no scheduled batch lives.

### The archive

The two proofs about the studio share a module and nothing else: jobs and money
in `Creative`, files in `Media`. `Order` says who is where: of the request and
the readers one archives at a time, a reader with the lock and a completed work,
the request while its work is still in progress (`OneArchives`); the token of who
archives is not the row's (`TokensFresh`); and a deletion, the video's writers
and a migration hold what they have read of the row.

`Kept` makes `KeptFilesExist` inductive. What has been put so far under a new
token is whole somewhere, so that the row may name it; a video about to be linked
is; and a file that the migration is uploading is whole in the local directory,
so that a broken upload costs nothing. `MigratedSoFar` says the same of each name
already taken from the list. Files are only removed under tokens that no visible
row names, and this is where the first attempt failed: with more tokens than the
runs have, a token could be drawn again that a migration still had on its list, or
whose earlier file was counted as damaged. Random names do not come back; `Used`
now says so, and MediaAssumption that pictures and tokens are numbered from 1 and
readers named like nobody else.

`Tidy` (nothing is left) gives every picture file an owner: the row, who is
putting or cleaning it, or who is about to drop it, and an erased row's file its
deletion. `Served` goes through a reader's steps: who archives does so because the
pictures are not there; who is refused at first found neither them nor the
provider's links; who looks again finds them under the row's new token, since nobody puts
anything meanwhile, or the work is gone. It holds while the count of troubles
is the one of the reader's start.

### Patrol, notifier and report

`RowInv` says that the guard is taken by the caller that inserts the row or by the
run, and by no two (`Guarded`), and that rows are filled one after the other, the
last one being the run's (`Filled`): so trimming, which keeps the newest, cannot
touch it, whoever writes which earlier row meanwhile.

`StreakInv` relates the stored count of an account to the history of the runs that
found it failing. A run's id is newer than all the history knows. Its list names
an account once, and no two workers hold the same or one still on the list
(`Shared`); so an account is counted at most once in a run although groups
overlap (`Counted`), the count grows only with the history, and a worker at
`dispose` has counted enough. An account whose reset was lost is excused.

`NotifierInv` is types and the account itself: an event offered goes to the queue
or to the counter of drops, and each other step moves one from the queue to the
hand, or from the hand to one counter. `OnceInv` says, for each date
that is not excused, that it was delivered at most once, that it is then marked
or about to be marked, and that a scheduler about to send it has not delivered
it. Only the mark of another date
can come between its check and its mark, and that excuses the date. Notifier,
report and batches share no state with the patrol; their proofs only stand in the
same module.

### Model-checked only

Liveness (`CallsEnd`, `JobsSettle`, `RunsEnd`, `ReportArrives`):
fairness and `ENABLED` are beyond the prover. The pure modules (`Calendar`,
`Periods`, `Cron`, `Boards`) are checked on bounded inputs: they use recursion, or
state what a computation returns for each input. All other properties of the
passing runs are theorems. `RefundsReachTheOwner` does not hold (section 5).

## 7. Abstractions and limits

* Upstream is external. A key takes effect at most once, a replay is answered
  and ignores the amount, and an answer that looks like an idempotency hit means
  that the key was applied (an error that merely reads like one is modelled). If Sub2API refuses a key whose first request is still
  in progress with 409, `looksLikeIdempotentHit` (`client.go:693`) would count
  that as applied; its behaviour is not in this repository and not modelled.
* A failed statement has not taken effect. (A commit that succeeds and reports
  an error is not modelled.)
* Amounts are integers in the smallest unit. Settings round to the unit as the
  code does; elsewhere float rounding is left out.
* One calendar day per check-in record and draw row, one period per campaign; a
  new day is a new key. Changing a campaign's frequency, which moves it to
  another period key, is left out. Lots expire in the order of their ids.
* The sums that `RedistributionAvailablePool` reads in five statements are one
  step: they only choose the amount, and the reservation checks the lots again.
* Activity filters, draw rules, donors' idle times and weights of prizes are free
  choices within what they can give.
* Sizes of pictures are reported by the stores; a file is whole, short or absent.
* Texts, notes, display columns (`status` of a lot, `new_balance`) are left out.

Not modelled: recipients of batches (`Claim`, `Allocate`): they serve batches of
an earlier version, no batch has recipients any more (`RecipientCount` is always
0). The ranking cache: `Campaign` lets every settlement see any ranking, so its
staleness is covered there and only the endpoints' view is not. The studio's
conversation with providers, its encrypted credentials, model lists and the
cached media audit: one exchange or a view, no protocol with the rest. The rate
limiter: a counter under one lock. Configuration, metrics, module registry,
listings and web pages. The stops of patrol, notifier, report and server: the
program ends by being killed or by `log.Fatalf`, and reaches none of them.

## 8. What comes next

Models: the ranking cache against invalidation, composed with `Boards`; the
cached media audit.
