SPECIFICATION Spec
CONSTANTS
  Parts = {"views", "reattach", "repeated", "projected", "metadata", "closing",
           "streams", "stream", "requests", "request"}
  Requests = {"h", "a"}
  Typed = {"a"}
  Hosted = {"h"}
  Responses = {"yes", "no", "bad"}
  Valid = {"yes", "no"}
  Responders = {"p1", "p2"}
  Doors = {"generic", "typed", "core"}
  Enabled = TRUE
  MaxPending = 2
  GenBound = 2
  x1 = x1
  x2 = x2
  Owners = {"o1"}
  Threads = {"a"}
  Creators = {"c1"}
  Closers = {"k1"}
  Hangups = {"h1"}
  NoOne = NoOne
  MaxEvents = 1
  MaxBytes = 8
  Writers = {"w1", "w2"}
  Values = {"v1"}
  Persistent = TRUE
  Oversized = TRUE
  QueueCap = 1
  SeqBound = 1
INVARIANTS ViewsInOrder ProjectionAgrees RecordAgrees StreamsInOrder
PROPERTIES NotifiesInOrder
SYMMETRY Symmetric
CHECK_DEADLOCK FALSE
