\* Five histories, five blocks; a reorganisation, a fault or two, an observation.
SPECIFICATION FairSpec
CONSTANTS
    a = a
    b = b
    Holders = {a, b}
    Histories <- MCHistories
    ReorgSafety = 2
    Chunk = 2
    EndpointLags = {0, 2}
    ReorgDepths = {2, 4}
    MaxHeight = 5
    Budgets <- MCBudgets
CHECK_DEADLOCK FALSE
INVARIANTS
    TypeOK
    CursorLosesNothing
    RowsMatchChain
    AlertsAtMostOnce
PROPERTY EveryEventIndexed
