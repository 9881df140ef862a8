SPECIFICATION Spec
CONSTANTS
    Workers = {w1, w2}
    Users = {u1}
    Original <- OneLot
    OwnerOf <- SameOwner
    Legacy = 0
    DrawAmounts = {1}
    Lookalikes = {}
SYMMETRY Symmetry
INVARIANTS RefundsReachTheOwner
CHECK_DEADLOCK FALSE
