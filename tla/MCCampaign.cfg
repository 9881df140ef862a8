SPECIFICATION Spec
CONSTANTS
    w1 = w1
    w2 = w2
    Workers <- MCWorkers
    Users <- MCUsers
    Rankings <- MCRankings
    RuleSets <- MCRuleSets
    Caps = {1, 2}
    Lookalikes = {2}
    MaxEvents = 4
SYMMETRY Symmetry
INVARIANTS AwardsArePaid PaidForOneRank BudgetIsKept
CHECK_DEADLOCK FALSE
