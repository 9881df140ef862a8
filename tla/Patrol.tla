------------------------------- MODULE Patrol -------------------------------
(***************************************************************************)
(* The account patrol: a cron loop and an administrator start runs, at most *)
(* one at a time; a run lists the accounts of its groups, some workers test *)
(* them, and an account that keeps failing is disabled or deleted.  A run   *)
(* can be stopped, and a finished run is still being written down when the  *)
(* next one begins.  Between listing and check nobody else changes the      *)
(* accounts, so their present state stands for the listed one.              *)
(***************************************************************************)
EXTENDS Integers, Sequences, FiniteSets, SequencesExt

CONSTANTS
    Accounts,
    FailedBefore,   \* accounts that failed in an earlier run
    Groups,         \* sequence of sets of accounts, the groups of the settings
    Models,         \* [Accounts -> Nat], how many models are tested on each
    Workers,        \* a run's goroutines
    Offered,        \* settings an administrator chooses from
    AtStart,        \* those of the first start
    KeepRuns,
    MaxRuns,        \* bound: rows
    MaxEvents       \* bound: things that go wrong, and settings updates

ASSUME PatrolAssumption ==
    /\ IsFiniteSet(Accounts)
    /\ Groups \in Seq(SUBSET Accounts)
    /\ Models \in [Accounts -> Nat]
    /\ FailedBefore \subseteq Accounts
    /\ KeepRuns \in Nat \ {0}
    /\ MaxRuns \in Nat
    /\ AtStart \in Offered
    /\ \A c \in Offered : c.threshold \in 1..10
                          /\ c.action \in {"disable", "delete", "none"}
                          /\ {c.onlySchedulable, c.autoEnable, c.stopOnFirst} \subseteq BOOLEAN

VARIABLES
    settings,
    callers,    \* Trigger as called by the cron loop and by the administrator
    running, stop,      \* runnerState: the guard, and whether stopCh is closed
    run,        \* the run that executes
    workers,
    ending,     \* runs past finish whose row is still to be written
    rows,       \* patrol_runs
    streak,     \* patrol_account_state.consecutive_fail
    accounts,   \* upstream
    events,
    fails,      \* history: the runs that found the account failing since it was last well
    unreset,    \* history: accounts with a success that was not written
    unwritten   \* history: runs with an end that was not written

runVars == <<run, workers>>
stateVars == <<streak, accounts, fails>>
historyVars == <<events, unreset, unwritten>>
vars == <<settings, callers, running, stop, runVars, ending, rows, stateVars, historyVars>>

Callers == {"cron", "manual"}
Ids == 1..MaxRuns
Idle == [at |-> "idle"]
NoRun == [at |-> "none"]
NoStats == [total |-> 0, checked |-> 0, ok |-> 0, failed |-> 0, skipped |-> 0, pending |-> 0, acted |-> 0]

Init ==
    /\ settings = AtStart
    /\ callers = [c \in Callers |-> Idle]
    /\ running = FALSE /\ stop = FALSE
    /\ run = NoRun
    /\ workers = [w \in Workers |-> Idle]
    /\ ending = {}
    /\ rows = [i \in Ids |-> "none"]
    /\ fails = [a \in Accounts |-> IF a \in FailedBefore THEN {0} ELSE {}]
    /\ streak = [a \in Accounts |-> Cardinality(fails[a])]
    /\ accounts = [a \in Accounts |-> "on"]
    /\ events = 0
    /\ unreset = {} /\ unwritten = {}

Event == events < MaxEvents /\ events' = events + 1

-----------------------------------------------------------------------------
(***************************************************************************)
(* Trigger and StopRun.                                                     *)
(***************************************************************************)
Update ==
    /\ Event
    /\ settings' \in Offered \ {settings}
    /\ UNCHANGED <<callers, running, stop, runVars, ending, rows, stateVars, unreset, unwritten>>

\* The cron loop asks in the minutes that match, which is at any time.  The
\* settings the run will use are read here, before the lock.
Ask(c) ==
    /\ callers[c] = Idle
    /\ callers' = [callers EXCEPT ![c] = [at |-> "lock", rt |-> settings]]
    /\ UNCHANGED <<settings, running, stop, runVars, ending, rows, stateVars, historyVars>>

Lock(c) ==
    /\ callers[c].at = "lock"
    /\ IF running
       THEN callers' = [callers EXCEPT ![c] = Idle] /\ UNCHANGED <<running, stop>>
       ELSE /\ callers' = [callers EXCEPT ![c].at = "insert"]
            /\ running' = TRUE
            /\ stop' = FALSE
    /\ UNCHANGED <<settings, runVars, ending, rows, stateVars, historyVars>>

NextId == 1 + Cardinality({i \in Ids : rows[i] # "none"})

InsertRun(c) ==
    /\ callers[c].at = "insert"
    /\ NextId \in Ids
    /\ rows' = [rows EXCEPT ![NextId] = "running"]
    /\ run' = [at |-> "list", id |-> NextId, rt |-> callers[c].rt, groups |-> Groups,
               list |-> <<>>, stats |-> NoStats]
    /\ callers' = [callers EXCEPT ![c] = Idle]
    /\ UNCHANGED <<settings, running, stop, workers, ending, stateVars, historyVars>>

\* Mutant: the error is returned and the guard stays taken.
KeepsRunning(b) == b

AfterFailedInsert(b) == FALSE

\* The request may also have been cancelled by its client.
InsertFails(c) ==
    /\ callers[c].at = "insert"
    /\ \/ Event
       \/ NextId \notin Ids /\ UNCHANGED events
    /\ running' = AfterFailedInsert(running)
    /\ callers' = [callers EXCEPT ![c] = Idle]
    /\ UNCHANGED <<settings, stop, runVars, ending, rows, stateVars, unreset, unwritten>>

StopRun ==
    /\ running /\ ~stop
    /\ stop' = TRUE
    /\ UNCHANGED <<settings, callers, running, runVars, ending, rows, stateVars, historyVars>>

-----------------------------------------------------------------------------
(***************************************************************************)
(* execute, up to the start of the workers.                                 *)
(***************************************************************************)
\* finish: the guard is free again, the row is written later.
FinishAs(status, stats) ==
    /\ running' = FALSE
    /\ ending' = ending \cup {[id |-> run.id, status |-> status, stats |-> stats]}
    /\ run' = NoRun
    /\ workers' = [w \in Workers |-> Idle]

\* De-duplicated by id.
Distinct(list) == SetToSeq(ToSet(list))

Existing(g) == SetToSeq({a \in g : accounts[a] # "gone"})

\* One group; the stop is looked at before each.
ListGroup ==
    /\ run.at = "list"
    /\ run.groups # <<>>
    /\ \/ /\ stop
          /\ FinishAs("stopped", run.stats)
          /\ UNCHANGED events
       \/ /\ ~stop
          /\ run' = [run EXCEPT !.groups = Tail(@), !.list = @ \o Existing(Head(run.groups))]
          /\ UNCHANGED <<workers, running, ending, events>>
       \/ /\ ~stop
          /\ Event
          /\ FinishAs("failed", run.stats)
    /\ UNCHANGED <<settings, callers, stop, rows, stateVars, unreset, unwritten>>

StartWorkers ==
    LET list == Distinct(run.list)
    IN /\ run.at = "list"
       /\ run.groups = <<>>
       /\ IF list = <<>>
          THEN FinishAs("success", run.stats)
          ELSE /\ run' = [run EXCEPT !.at = "work", !.list = list, !.stats.total = Len(list)]
               /\ workers' = [w \in Workers |-> [at |-> "loop"]]
               /\ UNCHANGED <<running, ending>>
       /\ UNCHANGED <<settings, callers, stop, rows, stateVars, historyVars>>

AllAreDone == \A w \in Workers : workers[w].at = "done"

\* wg.Wait and the verdict of the run.
Finish ==
    /\ run.at = "work"
    /\ AllAreDone
    /\ FinishAs(IF stop THEN "stopped" ELSE "success", run.stats)
    /\ UNCHANGED <<settings, callers, stop, rows, stateVars, historyVars>>

\* Mutant: rows are kept by the order in which the runs ended.
KeptFinished(R) == {i \in Ids : R[i] \notin {"none", "running"}
                                /\ Cardinality({j \in Ids : j > i /\ R[j] \notin {"none", "running"}}) < KeepRuns}

Kept(R) == {i \in Ids : Cardinality({j \in Ids : j > i /\ R[j] # "none"}) < KeepRuns}

Trimmed(R) == [i \in Ids |-> IF R[i] = "none" \/ i \in Kept(R) THEN R[i] ELSE "trimmed"]

\* persistRun and TrimPatrolRuns; errors of either are ignored.
Persist(e) ==
    LET written == IF rows[e.id] = "trimmed" THEN rows ELSE [rows EXCEPT ![e.id] = e.status]
    IN /\ e \in ending
       /\ ending' = ending \ {e}
       /\ \/ rows' = Trimmed(written) /\ UNCHANGED historyVars
          \/ rows' \in {rows, Trimmed(rows)} /\ Event /\ unwritten' = unwritten \cup {e.id} /\ UNCHANGED unreset
       /\ UNCHANGED <<settings, callers, running, stop, runVars, stateVars>>

-----------------------------------------------------------------------------
(***************************************************************************)
(* The workers: processAccount, escalate, handleFailure.                    *)
(***************************************************************************)
At(w, at) == run.at = "work" /\ workers[w].at = at
Acct(w) == workers[w].acct
Becomes(w, rec) == workers' = [workers EXCEPT ![w] = rec]
Goes(w, at) == workers' = [workers EXCEPT ![w].at = at]

\* The deferred incChecked, with one more counter.
CheckedIn(stats, counter) == [[stats EXCEPT !.checked = @ + 1] EXCEPT ![counter] = @ + 1]

CheckedAs(w, counter) ==
    /\ run' = [run EXCEPT !.stats = CheckedIn(@, counter)]
    /\ Becomes(w, [at |-> "loop"])

CheckedAfter(w) ==
    /\ run' = [run EXCEPT !.stats.checked = @ + 1]
    /\ Becomes(w, [at |-> "loop"])

Failing(w, rest) ==
    /\ run' = [run EXCEPT !.stats.failed = @ + 1, !.list = rest]
    /\ Becomes(w, [at |-> "escalate", acct |-> Head(run.list)])

NextAccount(w) ==
    /\ At(w, "loop")
    /\ IF stop \/ run.list = <<>>
       THEN Goes(w, "done") /\ UNCHANGED run
       ELSE LET a == Head(run.list)
                rest == Tail(run.list)
            IN \/ /\ run.rt.onlySchedulable /\ accounts[a] = "off"
                  /\ run' = [run EXCEPT !.list = rest, !.stats = CheckedIn(@, "skipped")]
                  /\ UNCHANGED workers
               \/ /\ ~(run.rt.onlySchedulable /\ accounts[a] = "off")
                  /\ IF Models[a] = 0
                     THEN Failing(w, rest)
                     ELSE /\ run' = [run EXCEPT !.list = rest]
                          /\ Becomes(w, [at |-> "check", acct |-> a, tested |-> 0, ok |-> TRUE])
    /\ UNCHANGED <<settings, callers, running, stop, ending, rows, stateVars, historyVars>>

MoreTests(w) ==
    /\ ~stop
    /\ workers[w].tested < Models[Acct(w)]
    /\ workers[w].ok \/ ~run.rt.stopOnFirst

Check(w) ==
    /\ At(w, "check")
    /\ \/ /\ MoreTests(w)
          /\ Goes(w, "test")
          /\ UNCHANGED run
       \/ /\ ~MoreTests(w)
          /\ \/ /\ workers[w].ok /\ stop /\ workers[w].tested < Models[Acct(w)]
                /\ CheckedAs(w, "skipped")
             \/ /\ workers[w].ok /\ ~(stop /\ workers[w].tested < Models[Acct(w)])
                /\ run' = [run EXCEPT !.stats.ok = @ + 1]
                /\ Becomes(w, [at |-> "reset", acct |-> Acct(w)])
             \/ /\ ~workers[w].ok
                /\ run' = [run EXCEPT !.stats.failed = @ + 1]
                /\ Becomes(w, [at |-> "escalate", acct |-> Acct(w)])
    /\ UNCHANGED <<settings, callers, running, stop, ending, rows, stateVars, historyVars>>

Test(w) ==
    /\ At(w, "test")
    /\ \E ok \in BOOLEAN :
          workers' = [workers EXCEPT ![w].at = "check", ![w].tested = @ + 1, ![w].ok = @ /\ ok]
    /\ UNCHANGED <<run, settings, callers, running, stop, ending, rows, stateVars, historyVars>>

\* Mutant: a success leaves the failures of the account counted.
StreakAsItWas(n) == n

StreakAfterOk(n) == 0

ResetOk(w) ==
    /\ At(w, "reset")
    /\ fails' = [fails EXCEPT ![Acct(w)] = {}]
    /\ \/ streak' = [streak EXCEPT ![Acct(w)] = StreakAfterOk(@)] /\ UNCHANGED historyVars
       \/ UNCHANGED <<streak, unwritten>> /\ Event /\ unreset' = unreset \cup {Acct(w)}
    /\ IF run.rt.autoEnable /\ accounts[Acct(w)] = "off"
       THEN Goes(w, "enable") /\ UNCHANGED run
       ELSE CheckedAfter(w)
    /\ UNCHANGED <<accounts, settings, callers, running, stop, ending, rows>>

Enable(w) ==
    /\ At(w, "enable")
    /\ \/ accounts' = [accounts EXCEPT ![Acct(w)] = "on"] /\ UNCHANGED events
       \/ Event /\ UNCHANGED accounts
    /\ CheckedAfter(w)
    /\ UNCHANGED <<streak, fails, settings, callers, running, stop, ending, rows, unreset, unwritten>>

Due(n) == n >= run.rt.threshold

\* The count is written and read back; if either fails nothing is done.
Escalate(w) ==
    LET counted == [streak EXCEPT ![Acct(w)] = @ + 1]
    IN /\ At(w, "escalate")
       /\ fails' = [fails EXCEPT ![Acct(w)] = @ \cup {run.id}]
       /\ \/ /\ streak' = counted
             /\ IF Due(counted[Acct(w)])
                THEN Goes(w, "dispose") /\ UNCHANGED run
                ELSE CheckedAs(w, "pending")
             /\ UNCHANGED events
          \/ /\ Event
             /\ streak' \in {streak, counted}
             /\ CheckedAs(w, "pending")
       /\ UNCHANGED <<accounts, settings, callers, running, stop, ending, rows, unreset, unwritten>>

Disposed == IF run.rt.action = "disable" THEN "off" ELSE "gone"

\* A call that is answered by an error may have been carried out.
Dispose(w) ==
    /\ At(w, "dispose")
    /\ \/ /\ run.rt.action = "disable"
          /\ accounts' = [accounts EXCEPT ![Acct(w)] = Disposed]
          /\ CheckedAs(w, "acted")
          /\ UNCHANGED <<streak, events>>
       \/ /\ run.rt.action = "delete"
          /\ accounts' = [accounts EXCEPT ![Acct(w)] = Disposed]
          /\ CheckedAs(w, "acted")
          /\ \/ streak' = [streak EXCEPT ![Acct(w)] = 0] /\ UNCHANGED events
             \/ Event /\ UNCHANGED streak
       \/ /\ \/ run.rt.action = "none" /\ UNCHANGED <<accounts, events>>
             \/ /\ run.rt.action # "none" /\ Event
                /\ accounts' \in {accounts, [accounts EXCEPT ![Acct(w)] = Disposed]}
          /\ CheckedAfter(w)
          /\ UNCHANGED streak
    /\ UNCHANGED <<fails, settings, callers, running, stop, ending, rows, unreset, unwritten>>

-----------------------------------------------------------------------------
\* The process dies and starts again: rows and streaks are all that is left.
Crash ==
    /\ running
    /\ Event
    /\ callers' = [c \in Callers |-> Idle]
    /\ running' = FALSE /\ stop' = FALSE
    /\ run' = NoRun
    /\ workers' = [w \in Workers |-> Idle]
    /\ unwritten' = unwritten \cup {e.id : e \in ending} \cup (IF run = NoRun THEN {} ELSE {run.id})
    /\ ending' = {}
    /\ UNCHANGED <<settings, rows, stateVars, unreset>>

CallerStep(c) == Lock(c) \/ InsertRun(c) \/ InsertFails(c)

WorkerStep(w) ==
    NextAccount(w) \/ Check(w) \/ Test(w) \/ ResetOk(w) \/ Enable(w) \/ Escalate(w) \/ Dispose(w)

RunStep == ListGroup \/ StartWorkers \/ Finish

Next ==
    \/ Update \/ StopRun \/ Crash
    \/ \E c \in Callers : Ask(c) \/ CallerStep(c)
    \/ RunStep
    \/ \E w \in Workers : WorkerStep(w)
    \/ \E e \in ending : Persist(e)

Spec == Init /\ [][Next]_vars

\* Goroutines run on, and every call of theirs has a timeout.
Fairness ==
    /\ \A c \in Callers : WF_vars(CallerStep(c))
    /\ WF_vars(RunStep)
    /\ \A w \in Workers : WF_vars(WorkerStep(w))

FairSpec == Spec /\ Fairness

-----------------------------------------------------------------------------
\* A healthy account is safe from a hiccup: it is disabled or deleted only
\* after as many failing runs in a row as the run's threshold says, however
\* groups overlap and runs follow each other.  Not so once a reset was lost.
NoHastyDisposal ==
    [][\A a \in Accounts :
          accounts'[a] # accounts[a] /\ accounts'[a] # "on"
              => Cardinality(fails[a]) >= run.rt.threshold \/ a \in unreset]_vars

\* A row says running as long as the run has not ended, and no longer, if its
\* last statement was not lost; the row of a run at work is never trimmed.
RowsTellTheTruth ==
    \A i \in Ids :
        /\ run # NoRun /\ run.id = i => rows[i] = "running"
        /\ rows[i] = "running"
              => i \in unwritten \/ (run # NoRun /\ run.id = i) \/ \E e \in ending : e.id = i

\* The guard is given back: every run ends.
RunsEnd == running ~> ~running

=============================================================================
