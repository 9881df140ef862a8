SPECIFICATION MediaSpec
CONSTANTS
    Readers = {r1, r2}
    Pictures = {1, 2}
    Tokens = {1, 2}
    MaxRequests = 3
    MaxTrouble = 1
SYMMETRY Symmetry
CHECK_DEADLOCK FALSE
INVARIANTS
    KeptFilesExist
    ReadersAreServed
    DeletedWorksAreRemoved
    MigrationIsComplete
