CONSTANTS
    c1 = c1
    First = s1
    Repeats = {s2}
    Cancellers = {c1}
    Kinds = {"persistent", "ephemeral"}
    ItemBound = 1
SPECIFICATION Spec
CHECK_DEADLOCK FALSE
INVARIANTS RunEndsAsTold WireInOrder
PROPERTIES StopEnds CloseEnds
