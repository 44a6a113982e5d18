SPECIFICATION LiveSpec
CONSTANTS
  Stoppers = {"c1", "c2"}
  Users = {"u1", "u2"}
  Raw = {"w1"}
INVARIANTS ClientAgrees RunsReachHandles NothingLeaked NobodyForgotten HandshakeFirst
PROPERTIES PacksEndOnce KeepsPromise CallsEnd
CHECK_DEADLOCK FALSE
