------------------------------ MODULE Creative ------------------------------
(***************************************************************************)
(* Jobs of the creative studio: a request inserts a job, charges the user   *)
(* through Payout, asks the provider and stores the answer; a failed job is *)
(* refunded, at once or by the poller, which also follows the videos.       *)
(* Whoever works on a job holds a copy of its row and writes the whole row  *)
(* back, so a copy that is out of date can undo what others wrote.          *)
(***************************************************************************)
EXTENDS Integers, FiniteSets

CONSTANTS
    Workers,        \* goroutines that serve requests
    JobIds,         \* 1..n, the rows there can be
    RequestKeys,    \* request_key of one user
    Price,
    Lookalikes,     \* jobs of users whose number reads like an idempotency hit
    MaxEvents       \* bound: requests and things that go wrong

ASSUME CreativeAssumption ==
    /\ JobIds = 1..Cardinality(JobIds)
    /\ Price \in Nat \ {0}
    /\ Lookalikes \subseteq JobIds
    /\ MaxEvents \in Nat

VARIABLES
    final, applied, sent, calls,    \* as in Payout
    rows,       \* creative_jobs
    failures,   \* video_archive_failed events of each job
    tasks,      \* per worker and for the poller, the job it works on and its copy
    videos,     \* the provider's video of each job
    events,
    troubled    \* history: jobs with an unclear charge or a lost row update

creditVars == <<final, applied, sent, calls>>
historyVars == <<events, troubled>>
vars == <<creditVars, historyVars, rows, failures, tasks, videos>>

Poller == "poller"
Actors == Workers \cup {Poller}

ASSUME PollerIsNoWorker == Poller \notin Workers

\* One slot for the charge and one for the refund of each order.
ChargeKey(j) == <<"charge", j>>
RefundKey(j) == <<"refund", j>>
Keys == {"charge", "refund"} \X JobIds

Credit == INSTANCE Payout WITH
    Workers <- Actors,
    UpKeys <- Keys,
    UpKeyOf <- [k \in Keys |-> k],
    Requests <- [key : Keys, delta : {-Price, Price}],
    Mistakable <- {RefundKey(j) : j \in Lookalikes}   \* a charge adds nothing

Idle == [at |-> "idle"]
NoJob == [status |-> "none"]
Rows == {j \in JobIds : rows[j] # NoJob}

Init ==
    /\ Credit!Init
    /\ rows = [j \in JobIds |-> NoJob]
    /\ failures = [j \in JobIds |-> 0]
    /\ tasks = [a \in Actors |-> Idle]
    /\ videos = [j \in JobIds |-> "none"]
    /\ events = 0
    /\ troubled = {}

Event == events < MaxEvents /\ events' = events + 1

-----------------------------------------------------------------------------
(***************************************************************************)
(* What both kinds of actors do with a job.                                 *)
(***************************************************************************)
At(a, at) == tasks[a].at = at
Job(a) == tasks[a].job
Id(a) == tasks[a].id

\* On to the step at, with the given copy of the job.
Holding(a, at, job) == tasks' = [tasks EXCEPT ![a].at = at, ![a].job = job]

\* A request is answered; the poller takes its next job.
Leave(a) == tasks' = IF a = Poller THEN [tasks EXCEPT ![a].at = "next"] ELSE [tasks EXCEPT ![a] = Idle]

\* UpdateCreativeJob writes all of the copy.
Written(j, job) == rows' = [rows EXCEPT ![j] = job] /\ UNCHANGED historyVars
Lost(j) == Event /\ troubled' = troubled \cup {j} /\ UNCHANGED rows
WrittenOrLost(j, job) == Written(j, job) \/ Lost(j)

\* Mutant: a failed job is refunded whatever happened to its charge.
RefundAnything(job) == job.billed /\ ~job.refunded

NeedsRefund(job) == ~job.refunded /\ job.charge \in {"charged", "refund_pending"}

\* refundJob, of the given copy.
RefundJob(a, j, job) ==
    IF NeedsRefund(job)
    THEN Holding(a, "refunding", job) /\ Credit!Call(a, [key |-> RefundKey(j), delta |-> Price])
    ELSE Leave(a) /\ UNCHANGED calls

\* Mutant: the charge of a failed job stays as it was, for nobody to look at.
FailedAndForgotten(job) == [job EXCEPT !.status = "failed", !.charge = "pending"]

Failed(job) ==
    [job EXCEPT !.status = "failed",
                !.charge = IF @ = "charged" /\ ~job.refunded THEN "refund_pending" ELSE @]

FailAndRefund(a, job) ==
    /\ WrittenOrLost(Id(a), Failed(job))
    /\ RefundJob(a, Id(a), Failed(job))

RefundEnds(a) ==
    LET pc == calls[a].pc
        job == [Job(a) EXCEPT !.charge = "refunded", !.status = "refunded", !.refunded = TRUE]
    IN /\ At(a, "refunding")
       /\ Credit!Return(a)
       /\ \/ pc = "error" /\ UNCHANGED <<rows, historyVars>>
          \/ pc # "error" /\ WrittenOrLost(Id(a), job)
       /\ Leave(a)
       /\ UNCHANGED <<final, applied, sent, failures, videos>>

-----------------------------------------------------------------------------
(***************************************************************************)
(* GenerateImage and CreateVideo.                                           *)
(***************************************************************************)
HasKey(key) == \E j \in Rows : rows[j].key = key

NewJob(key, kind, billed) ==
    [key |-> key, kind |-> kind, billed |-> billed, refunded |-> FALSE, submitted |-> FALSE,
     charge |-> IF billed THEN "pending" ELSE "upstream",
     status |-> IF billed THEN "created" ELSE "processing"]

\* A request that passes its checks; its key may be one that was used already.
\* A pool provider bills the user's own API key.
Request(w) ==
    /\ tasks[w] = Idle
    /\ Event
    /\ \E key \in RequestKeys, kind \in {"image", "video"}, billed \in BOOLEAN :
          /\ ~HasKey(key)
          /\ tasks' = [tasks EXCEPT ![w] =
                [at |-> "insert", id |-> 0, job |-> NewJob(key, kind, billed)]]
    /\ UNCHANGED <<creditVars, rows, failures, videos, troubled>>

\* UNIQUE(user_id, request_key): of two requests that found no job one fails.
KeyTaken(key) == HasKey(key)

Insert(w) ==
    /\ At(w, "insert")
    /\ \/ /\ ~KeyTaken(Job(w).key)
          /\ \E j \in JobIds \ Rows :
                /\ \A i \in JobIds \ Rows : j <= i
                /\ rows' = [rows EXCEPT ![j] = Job(w)]
                /\ tasks' = [tasks EXCEPT ![w].id = j, ![w].at = IF Job(w).billed THEN "charging" ELSE "generate"]
                /\ IF Job(w).billed
                   THEN Credit!Call(w, [key |-> ChargeKey(j), delta |-> -Price])
                   ELSE UNCHANGED calls
          /\ UNCHANGED events
       \/ /\ \/ KeyTaken(Job(w).key) /\ UNCHANGED events
             \/ Event
          /\ Leave(w)
          /\ UNCHANGED <<rows, calls>>
    /\ UNCHANGED <<final, applied, sent, failures, videos, troubled>>

Charged(job) == [job EXCEPT !.charge = "charged", !.status = "processing"]

\* The charge went through and the row says so, or cannot be written.
ChargeSucceeds(w) ==
    /\ At(w, "charging")
    /\ calls[w].pc \in {"ok", "skipped"}
    /\ Credit!Return(w)
    /\ Holding(w, "charged", Charged(Job(w)))
    /\ UNCHANGED <<final, applied, sent, rows, failures, videos, historyVars>>

SaveCharge(w) ==
    /\ At(w, "charged")
    /\ \/ Written(Id(w), Job(w)) /\ Holding(w, "generate", Job(w))
       \/ Event /\ Holding(w, "fail", Job(w)) /\ UNCHANGED <<rows, troubled>>
    /\ UNCHANGED <<creditVars, failures, videos>>

\* Reclaim failed.  With a result, upstream has taken the money and only the
\* ledger row is missing; without one, nobody knows, and nothing is refunded.
ChargeFails(w) ==
    /\ At(w, "charging")
    /\ calls[w].pc = "error"
    /\ Credit!Return(w)
    /\ \/ /\ applied[ChargeKey(Id(w))] # 0
          /\ Holding(w, "fail", [Job(w) EXCEPT !.charge = "refund_pending"])
          /\ UNCHANGED <<rows, historyVars>>
       \/ /\ troubled' = troubled \cup {Id(w)}
          /\ \/ rows' = [rows EXCEPT ![Id(w)].status = "failed"] /\ UNCHANGED events
             \/ Event /\ UNCHANGED rows
          /\ Leave(w)
    /\ UNCHANGED <<final, applied, sent, failures, videos>>

Fail(w) ==
    /\ At(w, "fail")
    /\ FailAndRefund(w, Job(w))
    /\ UNCHANGED <<final, applied, sent, failures, videos>>

\* No answer, or one that cannot be used; it may have begun a video all the same.
ProviderFails(w) ==
    /\ At(w, "generate")
    /\ Event
    /\ Holding(w, "fail", Job(w))
    /\ \/ UNCHANGED videos
       \/ Job(w).kind = "video" /\ videos' = [videos EXCEPT ![Id(w)] = "running"]
    /\ UNCHANGED <<creditVars, rows, failures, troubled>>

\* The pictures are archived and recorded in one transaction with the row.
CompleteImage(w) ==
    /\ At(w, "generate")
    /\ Job(w).kind = "image"
    /\ \/ Written(Id(w), [Job(w) EXCEPT !.status = "completed"]) /\ Leave(w)
       \/ Event /\ Holding(w, "fail", Job(w)) /\ UNCHANGED <<rows, troubled>>
    /\ UNCHANGED <<creditVars, failures, videos>>

VideoAccepted(w) ==
    /\ At(w, "generate")
    /\ Job(w).kind = "video"
    /\ videos' = [videos EXCEPT ![Id(w)] = "running"]
    /\ Holding(w, "submitted", [Job(w) EXCEPT !.submitted = TRUE, !.status = "processing"])
    /\ UNCHANGED <<creditVars, rows, failures, historyVars>>

SaveSubmitted(w) ==
    /\ At(w, "submitted")
    /\ \/ Written(Id(w), Job(w)) /\ Leave(w)
       \/ Event /\ Holding(w, "fail", Job(w)) /\ UNCHANGED <<rows, troubled>>
    /\ UNCHANGED <<creditVars, failures, videos>>

-----------------------------------------------------------------------------
(***************************************************************************)
(* pollPending, one round at a time.                                        *)
(***************************************************************************)
Copies(S) == {[id |-> j, job |-> rows[j]] : j \in S}

\* Mutant: the poller also takes videos that have ended.
AnyVideo == {j \in Rows : rows[j].kind = "video" /\ rows[j].submitted}

PendingVideos == {j \in Rows : rows[j].kind = "video" /\ rows[j].status = "processing"}

\* Mutant: refunds are tried once, by the request.
NoRefunds == {}

PendingRefunds == {j \in Rows : rows[j].status = "failed" /\ NeedsRefund(rows[j])}

\* The lists, of at most twenty jobs each, are read once per round.
PollBegins ==
    /\ tasks[Poller] = Idle
    /\ PendingVideos \cup PendingRefunds # {}
    /\ tasks' = [tasks EXCEPT ![Poller] =
          [at |-> "next", phase |-> "videos", todo |-> Copies(PendingVideos), id |-> 0, job |-> NoJob]]
    /\ UNCHANGED <<creditVars, rows, failures, videos, historyVars>>

PhaseEnds ==
    /\ At(Poller, "next")
    /\ tasks[Poller].todo = {}
    /\ tasks' = IF tasks[Poller].phase = "videos"
                THEN [tasks EXCEPT ![Poller].phase = "refunds", ![Poller].todo = Copies(PendingRefunds)]
                ELSE [tasks EXCEPT ![Poller] = Idle]
    /\ UNCHANGED <<creditVars, rows, failures, videos, historyVars>>

\* The poller turns to its next job; RefundJob at once if it is a refund.
TakeJob ==
    /\ At(Poller, "next")
    /\ \E t \in tasks[Poller].todo :
          tasks' = [tasks EXCEPT ![Poller].at = IF tasks[Poller].phase = "videos" THEN "ask" ELSE "refund",
                                 ![Poller].todo = @ \ {t}, ![Poller].id = t.id, ![Poller].job = t.job]
    /\ UNCHANGED <<creditVars, rows, failures, videos, historyVars>>

RetryRefund ==
    /\ At(Poller, "refund")
    /\ RefundJob(Poller, Id(Poller), Job(Poller))
    /\ UNCHANGED <<final, applied, sent, rows, failures, videos, historyVars>>

\* No answer this time, or a retry of the archive has to wait.  Without its
\* request id no video is found: assumed of the provider, for one that answers
\* this with a success has the stale copy of the job written over its row.
PassOver ==
    /\ At(Poller, "ask")
    /\ \/ ~Job(Poller).submitted /\ UNCHANGED events
       \/ Event
    /\ Leave(Poller)
    /\ UNCHANGED <<creditVars, rows, failures, videos, troubled>>

Asks(answer) == At(Poller, "ask") /\ Job(Poller).submitted /\ videos[Id(Poller)] = answer

\* Errors of this update are of no consequence, the next round repeats it.
VideoRuns ==
    /\ Asks("running")
    /\ Written(Id(Poller), Job(Poller)) \/ Lost(Id(Poller))
    /\ Leave(Poller)
    /\ UNCHANGED <<creditVars, failures, videos>>

VideoDone ==
    /\ Asks("done")
    /\ WrittenOrLost(Id(Poller), [Job(Poller) EXCEPT !.status = "completed"])
    /\ Leave(Poller)
    /\ UNCHANGED <<creditVars, failures, videos>>

VideoFailed ==
    /\ Asks("failed")
    /\ FailAndRefund(Poller, Job(Poller))
    /\ UNCHANGED <<final, applied, sent, failures, videos>>

MaxArchiveFailures == 3

\* The third failure, or one half an hour after the first, ends the job.
ArchiveFails ==
    /\ Asks("done")
    /\ events < MaxEvents
    /\ failures' = [failures EXCEPT ![Id(Poller)] = @ + 1]
    /\ \/ /\ failures'[Id(Poller)] < MaxArchiveFailures
          /\ Event
          /\ rows' = [rows EXCEPT ![Id(Poller)] = Job(Poller)]
          /\ Leave(Poller)
          /\ UNCHANGED <<calls, troubled>>
       \/ /\ events' = events + 1
          /\ rows' = [rows EXCEPT ![Id(Poller)] = Failed(Job(Poller))]
          /\ RefundJob(Poller, Id(Poller), Failed(Job(Poller)))
          /\ UNCHANGED troubled
    /\ UNCHANGED <<final, applied, sent, videos>>

VideoEnds(j) ==
    /\ videos[j] = "running"
    /\ \E end \in {"done", "failed"} : videos' = [videos EXCEPT ![j] = end]
    /\ UNCHANGED <<creditVars, rows, failures, tasks, historyVars>>

-----------------------------------------------------------------------------
Succeed(a) == Credit!Succeed(a) /\ UNCHANGED <<rows, failures, tasks, videos, historyVars>>
Skip(a) == Credit!Skip(a) /\ UNCHANGED <<rows, failures, tasks, videos, historyVars>>
Send(a) == Credit!Send(a) /\ UNCHANGED <<rows, failures, tasks, videos, historyVars>>

CreditFails(a) == Credit!Fail(a) /\ Event /\ UNCHANGED <<rows, failures, tasks, videos, troubled>>

Apply(m) == Credit!Apply(m) /\ UNCHANGED <<rows, failures, tasks, videos, historyVars>>
Lose(m) == Credit!Lose(m) /\ Event /\ UNCHANGED <<rows, failures, tasks, videos, troubled>>

\* Every actor is gone; the poller starts again with the server.
Crash ==
    /\ \E a \in Actors : tasks[a] # Idle
    /\ Event
    /\ Credit!Crash
    /\ tasks' = [a \in Actors |-> Idle]
    /\ UNCHANGED <<rows, failures, videos, troubled>>

WorkerStep(w) ==
    \/ Insert(w) \/ ChargeSucceeds(w) \/ SaveCharge(w) \/ ChargeFails(w) \/ Fail(w)
    \/ ProviderFails(w) \/ CompleteImage(w) \/ VideoAccepted(w) \/ SaveSubmitted(w)

PollStep ==
    \/ PollBegins \/ PhaseEnds \/ TakeJob \/ RetryRefund \/ PassOver
    \/ VideoRuns \/ VideoDone \/ VideoFailed \/ ArchiveFails

Next ==
    \/ \E w \in Workers : Request(w) \/ WorkerStep(w)
    \/ PollStep
    \/ \E a \in Actors : RefundEnds(a) \/ Succeed(a) \/ Skip(a) \/ Send(a) \/ CreditFails(a)
    \/ \E m \in sent : Apply(m) \/ Lose(m)
    \/ \E j \in JobIds : VideoEnds(j)
    \/ Crash

Spec == Init /\ [][Next]_vars

\* Goroutines run on, requests reach upstream sooner or later, videos end.
Fairness ==
    /\ \A w \in Workers : WF_vars(WorkerStep(w))
    /\ WF_vars(PollStep)
    /\ \A a \in Actors : WF_vars(RefundEnds(a)) /\ WF_vars(Succeed(a) \/ Skip(a)) /\ WF_vars(Send(a))
    /\ \A k \in Keys, d \in {-Price, Price} : WF_vars(Apply([up |-> k, delta |-> d]))
    /\ \A j \in JobIds : WF_vars(VideoEnds(j))

FairSpec == Spec /\ Fairness

-----------------------------------------------------------------------------
Taken(j) == applied[ChargeKey(j)] # 0
GivenBack(j) == applied[RefundKey(j)] # 0
AtWork(j) == \E a \in Actors : tasks[a] # Idle /\ Id(a) = j

\* Only a charge that was taken is given back, whoever refunds and how often.
RefundsFollowCharges == \A j \in JobIds : GivenBack(j) => Taken(j)

\* A finished work is paid for and stays paid for, whatever copies are about.
CompletedIsPaid ==
    \A j \in Rows \ troubled :
        rows[j].status = "completed" /\ rows[j].billed => Taken(j) /\ ~GivenBack(j)

\* A failed job that was charged is on the poller's list until it is refunded,
\* as long as its charge was answered and its row could be written.
FailedJobsAreDue ==
    \A j \in Rows \ troubled :
        rows[j].status = "failed" /\ Taken(j) /\ ~AtWork(j) => j \in PendingRefunds

\* What was submitted or is due ends as a work or a refund.
JobsSettle ==
    \A j \in JobIds :
        j \in Rows /\ (rows[j].submitted \/ j \in PendingRefunds)
            ~> rows[j].status \in {"completed", "refunded"} \/ (rows[j].status = "failed" /\ ~rows[j].billed)

=============================================================================
