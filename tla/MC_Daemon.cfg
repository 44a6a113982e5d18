SPECIFICATION Spec
CONSTANTS
  Parts = {"question", "approval", "refusal", "retention", "tool", "context",
           "catalog", "history", "sessions"}
  Requests = {"h", "a"}
  Typed = {"a"}
  Hosted = {"h"}
  Responses = {"yes", "no", "bad"}
  Valid = {"yes", "no"}
  Responders = {"p1", "p2"}
  Doors = {"generic", "typed", "core"}
  Enabled = TRUE
  MaxPending = 2
  GenBound = 2
  x1 = x1
  x2 = x2
  Owners = {x1, x2}
  Threads = {"a"}
  Creators = {"c1", "c2"}
  Closers = {"k1"}
  Hangups = {"h1", "h2"}
  NoOne = NoOne
  MaxEvents = 1
  MaxBytes = 8
  Writers = {"w1", "w2"}
  Values = {"v1"}
  Persistent = TRUE
  Oversized = TRUE
  QueueCap = 1
  SeqBound = 1
INVARIANTS OneAnswer RetainedRuns HostCallsEnd PagesExact OpenIsLive NothingLeft
PROPERTIES RetiresOldest LateAnswerIgnored
SYMMETRY Symmetric
CHECK_DEADLOCK FALSE
