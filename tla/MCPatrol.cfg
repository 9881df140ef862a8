SPECIFICATION FairSpec
CONSTANTS
    w1 = w1
    w2 = w2
    Accounts = {"a1", "a2"}
    FailedBefore = {"a1"}
    Groups <- MCGroups
    Models <- MCModels
    Workers <- MCWorkers
    Offered <- MCOffered
    AtStart <- MCAtStart
    KeepRuns = 1
    MaxRuns = 2
    MaxEvents = 1
INVARIANTS RowsTellTheTruth
PROPERTIES NoHastyDisposal RunsEnd
CHECK_DEADLOCK FALSE
