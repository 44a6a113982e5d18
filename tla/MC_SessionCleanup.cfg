CONSTANTS
    NoOne = NoOne
    Owners = {o1, o2}
    Threads = {a}
    Creators = {c1, c2}
    Closers = {}
    Hangups = {h1, h2}
SPECIFICATION SessionsSpec
CHECK_DEADLOCK FALSE
SYMMETRY Symmetric
INVARIANTS
    OpenIsServed
