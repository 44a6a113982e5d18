SPECIFICATION Spec
CONSTANTS
    t1 = t1
    t2 = t2
    c1 = c1
    i1 = i1
    i2 = i2
    th1 = th1
    th2 = th2
    th3 = th3
    k1 = k1
    k2 = k2
    None = None
    Turns <- MCTurns
    Calls <- MCCalls
    Items <- MCItems
    Usages <- MCUsages
    MaxUsage = 1
    MaxAcceptedTurns = 2
    MaxHistory = 3
    Threads <- MCThreads
    FirstThread = th1
    Callers <- MCCallers
    StepBound = 1
    EpochBound = 3
    RevisionBound = 11
SYMMETRY Symmetry
INVARIANTS
    WriterIsCurrent
    LeasesDistinct
    JournalSound
PROPERTIES
    SweepSparesProtected
    ImplementsLedger
CHECK_DEADLOCK FALSE
