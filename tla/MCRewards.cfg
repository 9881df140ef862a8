SPECIFICATION Spec
CONSTANTS
    Workers = {w1, w2}
    Users = {u1, u2}
    Prizes = {0, 3}
    HardCap = 2
    DailyBudget = 1
    TaskRewards = {1}
    Lookalikes = {u2}
SYMMETRY Symmetry
INVARIANTS
    PrizeIsRecorded
    ClaimIsPaid
    PaidTaskIsClaimed
