SPECIFICATION Spec
CONSTANTS
    t1 = t1
    t2 = t2
    c1 = c1
    c2 = c2
    i1 = i1
    i2 = i2
    i3 = i3
    None = None
    Turns <- MCTurns
    Calls <- MCCalls
    Items <- MCItems
    Usages <- MCUsages
    MaxUsage = 3
    MaxAcceptedTurns = 2
    MaxHistory = 4
    StepBound = 2
    EpochBound = 2
SYMMETRY Symmetry
INVARIANTS
    ActiveRunIsResolved
    DispatchAccounted
    LedgerSound
PROPERTIES
    HistoryAppendOnly
    RecordedFactsStand
CHECK_DEADLOCK FALSE
