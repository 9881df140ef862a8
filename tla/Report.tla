------------------------------- MODULE Report -------------------------------
(***************************************************************************)
(* The daily report: a scheduler that tries every half minute during the    *)
(* send window, and an administrator who may send at any time, deliver the  *)
(* digest of a date; the last date delivered is kept in memory and, so that *)
(* a restart does not repeat it, in the settings table.                     *)
(***************************************************************************)
EXTENDS Integers

CONSTANTS
    MaxDay,         \* bound: days the clock runs through
    MaxEvents       \* bound: manual sends, settings updates, failures, crashes

VARIABLES
    clock,      \* day, and whether the time is in the send window
    settings,   \* report settings: switch and covered day
    notifying,  \* the switch of the notification centre
    senders,    \* the scheduler and the administrator
    memory,     \* lastSentDate
    marked,     \* report_last_sent in app_settings
    events,
    delivered,  \* history: per date, deliveries by the scheduler, and whether by hand
    excused     \* history: dates whose mark was lost or overwritten

vars == <<clock, settings, notifying, senders, memory, marked, events, delivered, excused>>

Senders == {"scheduler", "manual"}
Dates == 0..MaxDay
Never == -1
Idle == [at |-> "idle"]

Init ==
    /\ clock = [day |-> 1, due |-> FALSE]
    /\ settings = [enabled |-> TRUE, cover |-> "yesterday"]
    /\ notifying = TRUE
    /\ senders = [s \in Senders |-> Idle]
    /\ memory = Never
    /\ marked = Never
    /\ events = 0
    /\ delivered = [d \in Dates |-> [s \in Senders |-> 0]]
    /\ excused = {}

Event == events < MaxEvents /\ events' = events + 1

\* The window opens; it ends, and with the next day begins another.
Tick ==
    /\ IF clock.due
       THEN clock.day < MaxDay /\ clock' = [day |-> clock.day + 1, due |-> FALSE]
       ELSE clock' = [clock EXCEPT !.due = TRUE]
    /\ UNCHANGED <<settings, notifying, senders, memory, marked, events, delivered, excused>>

Update ==
    /\ Event
    /\ settings' \in {[settings EXCEPT !.enabled = ~@],
                      [settings EXCEPT !.cover = IF @ = "today" THEN "yesterday" ELSE "today"]}
    /\ UNCHANGED <<clock, notifying, senders, memory, marked, delivered, excused>>

CoverDate == IF settings.cover = "today" THEN clock.day ELSE clock.day - 1

DueNow == settings.enabled /\ clock.due

\* SendNow does not look whether the date was sent.
Begin(s) ==
    /\ senders[s] = Idle
    /\ IF s = "scheduler" THEN DueNow /\ UNCHANGED events ELSE Event
    /\ senders' = [senders EXCEPT ![s] =
          [at |-> IF s = "scheduler" THEN "check" ELSE "send", date |-> CoverDate]]
    /\ UNCHANGED <<clock, settings, notifying, memory, marked, delivered, excused>>

Date(s) == senders[s].date
Goes(s, at) == senders' = [senders EXCEPT ![s].at = at]
Ends(s) == senders' = [senders EXCEPT ![s] = Idle]

\* Mutant: only memory is asked.
SentInThisProcess(d) == memory = d

SentBefore(d) == memory = d \/ marked = d

\* A failing read counts as not sent.
Check ==
    /\ senders["scheduler"].at = "check"
    /\ \/ /\ SentBefore(Date("scheduler"))
          /\ memory' = Date("scheduler")
          /\ Ends("scheduler")
          /\ UNCHANGED <<events, excused>>
       \/ /\ ~SentBefore(Date("scheduler"))
          /\ Goes("scheduler", "send")
          /\ UNCHANGED <<events, memory, excused>>
       \/ /\ memory # Date("scheduler")
          /\ Event
          /\ Goes("scheduler", "send")
          /\ excused' = excused \cup {Date("scheduler")}
          /\ UNCHANGED memory
    /\ UNCHANGED <<clock, settings, notifying, marked, delivered>>

\* Mutant: the mark is there before the delivery.
MarkedFirst(d) == d

MarkedAtSend(d) == marked

Sent(s) ==
    /\ senders[s].at = "send"
    /\ notifying
    /\ Goes(s, "mark")
    /\ delivered' = [delivered EXCEPT ![Date(s)][s] = IF s = "manual" THEN 1 ELSE @ + 1]
    /\ marked' = MarkedAtSend(Date(s))
    /\ UNCHANGED <<clock, settings, notifying, memory, events, excused>>

\* The digest cannot be built, or the centre is off, or the send fails.
SendFails(s) ==
    /\ senders[s].at = "send"
    /\ \/ Event
       \/ ~notifying /\ UNCHANGED events
    /\ Ends(s)
    /\ marked' = MarkedAtSend(Date(s))
    /\ UNCHANGED <<clock, settings, notifying, memory, delivered, excused>>

\* A failing write is logged, and memory must do.
Mark(s) ==
    /\ senders[s].at = "mark"
    /\ \/ /\ marked' = Date(s)
          /\ excused' = excused \cup ({marked} \ {Date(s), Never})
          /\ UNCHANGED events
       \/ Event /\ UNCHANGED <<marked, excused>>
    /\ Goes(s, "remember")
    /\ UNCHANGED <<clock, settings, notifying, memory, delivered>>

Remember(s) ==
    /\ senders[s].at = "remember"
    /\ memory' = Date(s)
    /\ Ends(s)
    /\ excused' = IF marked = Date(s) THEN excused ELSE excused \cup {Date(s)}
    /\ UNCHANGED <<clock, settings, notifying, marked, events, delivered>>

\* A restart: what was sent and not yet marked will be sent again.
Crash ==
    /\ Event
    /\ senders' = [s \in Senders |-> Idle]
    /\ memory' = Never
    /\ excused' = excused \cup {Date(s) : s \in {t \in Senders : senders[t].at \in {"mark", "remember"}}}
    /\ UNCHANGED <<clock, settings, notifying, marked, delivered>>

SenderStep(s) == Sent(s) \/ SendFails(s) \/ Mark(s) \/ Remember(s)
SchedulerStep == Begin("scheduler") \/ Check \/ SenderStep("scheduler")

Next ==
    \/ Tick \/ Update \/ Crash
    \/ SchedulerStep
    \/ Begin("manual") \/ SenderStep("manual")

Spec == Init /\ [][Next]_vars

-----------------------------------------------------------------------------
\* The scheduler delivers the report of a date once, through restarts and next
\* to manual sends, as long as the mark of that date was written and stayed.
ScheduledOnce == \A d \in Dates : delivered[d]["scheduler"] <= 1 \/ d \in excused

=============================================================================
