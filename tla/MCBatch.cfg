SPECIFICATION BatchSpec
CONSTANTS
    Users <- MCUsers
    Start <- MCStart
    BatchIds <- MCIds
    Policies <- MCPolicies
    Keep = 1
    MaxBatchEvents = 4
INVARIANTS PoolIsBacked FinishedBatchesAccount CancelledTakesNothing OneScheduledBatch
CHECK_DEADLOCK FALSE
