CONSTANTS
    c1 = c1
    First = s1
    Repeats = {}
    Cancellers = {c1}
    Kinds = {"ephemeral"}
    ItemBound = 1
SPECIFICATION Spec
CHECK_DEADLOCK FALSE
INVARIANT AckFindsPublicationFree
