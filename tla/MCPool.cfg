SPECIFICATION Spec
CONSTANTS
    Workers = {w1, w2}
    Users = {u1}
    Original <- TwoLots
    OwnerOf <- SameOwner
    Legacy = 1
    DrawAmounts = {3}
    Lookalikes = {2}
SYMMETRY Symmetry
INVARIANTS LotsPayWhatTheyHold SetAsideForSomebody CleanBooksBalance
CHECK_DEADLOCK FALSE
