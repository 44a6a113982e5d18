SPECIFICATION LiveSpec
CONSTANTS
  Parts = {"asked", "approved", "retention", "call", "context", "catch_up", "closing",
           "pair", "stream", "request", "sessions"}
  Requests = {"h", "a"}
  Typed = {"a"}
  Hosted = {"h"}
  Responses = {"yes", "no", "bad"}
  Valid = {"yes", "no"}
  Responders = {"p1", "p2"}
  Doors = {"generic", "typed", "core"}
  Enabled = TRUE
  MaxPending = 2
  GenBound = 2
  x1 = x1
  x2 = x2
  Owners = {"o1"}
  Threads = {"a"}
  Creators = {"c1"}
  Closers = {"k1", "k2"}
  Hangups = {"h1", "h2"}
  NoOne = NoOne
  MaxEvents = 1
  MaxBytes = 8
  Writers = {}
  Values = {"v1"}
  Persistent = TRUE
  Oversized = TRUE
  QueueCap = 1
  SeqBound = 1
PROPERTIES DebtsPaid DisconnectDrains
CHECK_DEADLOCK FALSE
