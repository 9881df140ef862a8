SPECIFICATION FairSpec
CONSTANTS
    w1 = w1
    w2 = w2
    Workers <- MCWorkers
    JobIds <- MCIds
    RequestKeys = {"k1"}
    Price = 1
    Lookalikes = {1}
    MaxEvents = 3
INVARIANTS RefundsFollowCharges CompletedIsPaid FailedJobsAreDue
PROPERTIES JobsSettle
CHECK_DEADLOCK FALSE
