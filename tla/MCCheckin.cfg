SPECIFICATION Spec
CONSTANTS
    Workers = {w1, w2}
    Users = {u1, u2, u3}
    Rewards = {3}
    HardCap = 1
    DailyBudget = 1
    BudgetAction = "disable"
    Lookalikes = {u3}
SYMMETRY Symmetry
INVARIANTS
    DayIsHeldOnce
    SuccessIsPaid
    RecordsArePaid
    OvershootIsBounded
