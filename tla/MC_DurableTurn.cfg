SPECIFICATION Spec
CONSTANTS
    t1 = t1
    t2 = t2
    c1 = c1
    c2 = c2
    i1 = i1
    i2 = i2
    None = None
    Turns <- MCTurns
    Calls <- MCCalls
    Items <- MCItems
    Usages <- MCUsages
    ExclusiveCalls <- MCExclusive
    MaxUsage = 2
    MaxAcceptedTurns = 2
    MaxHistory = 5
    MaxSteps = 2
SYMMETRY Symmetry
INVARIANTS
    EffectsTrue
    EngineFaithful
PROPERTIES
    EffectsInRun
CHECK_DEADLOCK FALSE
