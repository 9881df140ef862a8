------------------------------ MODULE Notifier ------------------------------
(***************************************************************************)
(* The notifier: Publish puts an event into a bounded queue or drops it, and *)
(* one worker takes events off and sends each up to three times.  Its Stop  *)
(* is left out: only a deferred call of main leads there, and the server    *)
(* has no way to return from main.                                          *)
(***************************************************************************)
EXTENDS Integers, Sequences

CONSTANTS
    QueueSize,
    MaxRetries,     \* maxSendRetries
    MaxEvents       \* bound: events published and things that go wrong

VARIABLES
    notifying,  \* the switch of the notification centre
    queue,
    worker,
    counts,     \* the counters sent, failed and dropped
    events,
    published   \* history: events that were offered to the queue

vars == <<notifying, queue, worker, counts, events, published>>

Looping == [at |-> "loop"]

Init ==
    /\ notifying = TRUE
    /\ queue = <<>>
    /\ worker = Looping
    /\ counts = [sent |-> 0, failed |-> 0, dropped |-> 0]
    /\ events = 0
    /\ published = 0

Event == events < MaxEvents /\ events' = events + 1
Counted(c) == counts' = [counts EXCEPT ![c] = @ + 1]

\* An event that passes subscription and level.
Publish ==
    /\ Event
    /\ notifying
    /\ published' = published + 1
    /\ IF Len(queue) < QueueSize
       THEN queue' = Append(queue, published') /\ UNCHANGED counts
       ELSE Counted("dropped") /\ UNCHANGED queue
    /\ UNCHANGED <<notifying, worker>>

Switch ==
    /\ Event
    /\ notifying' = ~notifying
    /\ UNCHANGED <<queue, worker, counts, published>>

Take ==
    /\ worker = Looping
    /\ queue # <<>>
    /\ worker' = [at |-> "send", ev |-> Head(queue), attempt |-> 0]
    /\ queue' = Tail(queue)
    /\ UNCHANGED <<notifying, counts, events, published>>

SendOk ==
    /\ worker.at = "send"
    /\ Counted("sent")
    /\ worker' = Looping
    /\ UNCHANGED <<notifying, queue, events, published>>

\* Mutant: a failure is not counted.
GivenUpSilently(w, c) == w = Looping /\ c = counts

GivenUp(w, c) == w = Looping /\ c = [counts EXCEPT !.failed = @ + 1]

\* An error, whether the channel got the event or not.
SendFails ==
    /\ worker.at = "send"
    /\ Event
    /\ IF worker.attempt = MaxRetries
       THEN GivenUp(worker', counts')
       ELSE worker' = [worker EXCEPT !.at = "wait"] /\ UNCHANGED counts
    /\ UNCHANGED <<notifying, queue, published>>

\* One second, then two.
Retry ==
    /\ worker.at = "wait"
    /\ worker' = [worker EXCEPT !.at = "send", !.attempt = @ + 1]
    /\ UNCHANGED <<notifying, queue, counts, events, published>>

WorkerStep == Take \/ SendOk \/ SendFails \/ Retry

Next == Publish \/ Switch \/ WorkerStep

Spec == Init /\ [][Next]_vars

-----------------------------------------------------------------------------
InHand == IF worker.at \in {"send", "wait"} THEN 1 ELSE 0

\* What the counters say, the queue and the event in hand account for every
\* event that was published: none is lost without a count, none counted twice.
EventsAreAccounted ==
    counts.sent + counts.failed + counts.dropped + Len(queue) + InHand = published

=============================================================================
