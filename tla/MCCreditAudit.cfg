SPECIFICATION FairAuditSpec
CONSTANTS
    Workers = {w1, w2}
    Keys = {"a", "b"}
    UpKeys = {"a", "b"}
    UpKeyOf <- MCUpKeyOf
    Requests <- MCRequests
    Mistakable = {"b"}
INVARIANTS
    SuccessBacked
    NoSilentLoss
PROPERTIES
    CallsEnd
    ImplementsPayOnce
    ImplementsPayout
