------------------------------- MODULE Alerts -------------------------------
(***************************************************************************)
(* Notifier and daily report together: they share the switch of the         *)
(* notification centre, and a crash takes both.                             *)
(***************************************************************************)
EXTENDS Integers, Sequences

CONSTANTS QueueSize, MaxRetries, MaxDay, MaxAlerts

VARIABLES
    notifying, alerts,
    queue, worker, counts, published,
    clock, reportSettings, senders, memory, marked, delivered, excused

notifierVars == <<queue, worker, counts, published>>
reportVars == <<clock, reportSettings, senders, memory, marked, delivered, excused>>
alertsVars == <<notifying, alerts, notifierVars, reportVars>>

N == INSTANCE Notifier WITH events <- alerts, MaxEvents <- MaxAlerts
R == INSTANCE Report WITH settings <- reportSettings, events <- alerts, MaxEvents <- MaxAlerts

AlertsInit == N!Init /\ R!Init

NotifierStep == (N!Publish \/ N!Switch \/ N!WorkerStep) /\ UNCHANGED reportVars

ReportStep ==
    /\ \/ R!SchedulerStep
       \/ R!Begin("manual") \/ R!SenderStep("manual")
       \/ R!Tick \/ R!Update
    /\ UNCHANGED notifierVars

\* All of the process goes; the queue with it.
AlertsCrash ==
    /\ R!Crash
    /\ queue' = <<>>
    /\ worker' = N!Looping
    /\ counts' = [sent |-> 0, failed |-> 0, dropped |-> 0]
    /\ published' = 0

AlertsNext == NotifierStep \/ ReportStep \/ AlertsCrash

AlertsSpec == AlertsInit /\ [][AlertsNext]_alertsVars

\* The scheduler ticks every half minute and its calls end.  The clock is under
\* no obligation: the last window stays open.
AlertsFairness == WF_alertsVars(R!SchedulerStep /\ UNCHANGED notifierVars)

AlertsFairSpec == AlertsSpec /\ AlertsFairness

-----------------------------------------------------------------------------
EventsAreAccounted == N!EventsAreAccounted
ScheduledOnce == R!ScheduledOnce

\* A report that is due is delivered at last, if it stays due and the
\* notification centre on.
ReportArrives ==
    \A d \in 0..MaxDay :
        (R!DueNow /\ R!CoverDate = d) ~>
            \/ \E s \in R!Senders : delivered[d][s] > 0
            \/ ~R!DueNow \/ R!CoverDate # d \/ ~notifying
=============================================================================
