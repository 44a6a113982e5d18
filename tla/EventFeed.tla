------------------------------ MODULE EventFeed ------------------------------
(***************************************************************************)
(* The cursor feed that a session view keeps (session_views.rs; the V2     *)
(* view and the interactions keep the same): a cursor that counts the      *)
(* events of one attachment, a bounded journal of the latest of them, and  *)
(* the replay floor, the oldest cursor from which every later event can    *)
(* still be replayed.  A feed is a value here; the modules that extend     *)
(* this one keep it in a variable.                                         *)
(***************************************************************************)
EXTENDS Integers, Sequences, FiniteSets, Functions

CONSTANTS MaxEvents,    \* EventJournalLimits.max_events
          MaxBytes      \* EventJournalLimits.max_bytes

LimitsPositive == MaxEvents \in Nat \ {0} /\ MaxBytes \in Nat \ {0}

NoThrough == -1         \* a request for the first page of a window

-----------------------------------------------------------------------------
(* The journal. *)

Event(stream, seq, run, bytes) == [stream |-> stream, seq |-> seq, run |-> run, bytes |-> bytes]

Feed(stream, cursor, floor, journal) ==
    [stream |-> stream, cursor |-> cursor, floor |-> floor, journal |-> journal]

NewFeed(stream) == Feed(stream, 0, 0, <<>>)

Bytes(journal) == FoldFunction(LAMBDA e, sum : e.bytes + sum, 0, journal)

Drop(journal, k) == SubSeq(journal, k + 1, Len(journal))

\* The loop that evicts the oldest events stops at the first suffix within
\* the limits; the empty one always is.
Fits(journal, k) ==
    k = Len(journal) \/ (Len(journal) - k <= MaxEvents /\ Bytes(Drop(journal, k)) <= MaxBytes)

Evicted(journal) ==
    CHOOSE k \in 0..Len(journal) :
        Fits(journal, k) /\ \A j \in 0..Len(journal) : Fits(journal, j) => k <= j

\* Mutant: an oversized event is skipped without moving the floor.
RetainSkipsOversized(f, run, bytes) ==
    LET e == Event(f.stream, f.cursor + 1, run, bytes)
        long == Append(f.journal, e)
        k == Evicted(long)
    IN  IF bytes > MaxBytes
        THEN Feed(f.stream, e.seq, f.floor, f.journal)
        ELSE Feed(f.stream, e.seq, IF k = 0 THEN f.floor ELSE long[k].seq, Drop(long, k))

\* The next event of the feed.  One that alone exceeds the byte limit empties
\* the journal and puts the floor at its own cursor.
Retain(f, run, bytes) ==
    LET e == Event(f.stream, f.cursor + 1, run, bytes)
        long == Append(f.journal, e)
        k == Evicted(long)
    IN  IF bytes > MaxBytes
        THEN Feed(f.stream, e.seq, e.seq, <<>>)
        ELSE Feed(f.stream, e.seq, IF k = 0 THEN f.floor ELSE long[k].seq, Drop(long, k))

\* The journal without a retired run: everything up to its last event goes.
ScrubRun(f, run) ==
    LET mine == {i \in DOMAIN f.journal : f.journal[i].run = run}
        k == CHOOSE i \in mine : \A j \in mine : j <= i
    IN  IF mine = {} THEN f
        ELSE Feed(f.stream, f.cursor, f.journal[k].seq, Drop(f.journal, k))

-----------------------------------------------------------------------------
(* Replay.  A request names a stream, a cursor in it, the high watermark   *)
(* of the window (NoThrough on the first page) and a page limit.           *)

Request(stream, after, through, limit) ==
    [stream |-> stream, after |-> after, through |-> through, limit |-> limit]

Gap(f, reason, through) ==
    [kind |-> "gap", reason |-> reason, floor |-> f.floor, current |-> f.cursor, stream |-> f.stream,
     events |-> <<>>, resume |-> -1, through |-> through, more |-> FALSE]

Page(events, resume, through, more) ==
    [kind |-> "page", reason |-> "none", floor |-> 0, current |-> 0, stream |-> "none",
     events |-> events, resume |-> resume, through |-> through, more |-> more]

Refused ==
    [kind |-> "refused", reason |-> "none", floor |-> 0, current |-> 0, stream |-> "none",
     events |-> <<>>, resume |-> -1, through |-> -1, more |-> FALSE]

\* How many entries of the journal are at or before a cursor.  The journal is
\* in cursor order, so the entries in a window are a slice of it.
Upto(journal, seq) == Cardinality({i \in DOMAIN journal : journal[i].seq <= seq})

Smaller(a, b) == IF a <= b THEN a ELSE b

\* A request from another attachment is a gap, one ahead of the cursor is
\* refused, one below the floor is a gap, and the rest is a page of the
\* events after it, up to the fixed high watermark.
Replay(f, q) ==
    LET through == IF q.through = NoThrough THEN f.cursor ELSE q.through
        from == Upto(f.journal, q.after)
        upto == Upto(f.journal, through)
        n == Smaller(q.limit, upto - from)
        resume == IF n = 0 THEN q.after ELSE f.journal[from + n].seq
    IN  IF q.stream # f.stream THEN Gap(f, "stream_reset", f.cursor)
        ELSE IF q.after > f.cursor \/ through > f.cursor THEN Refused
        ELSE IF q.after < f.floor THEN Gap(f, "retention", through)
        ELSE Page(SubSeq(f.journal, from + 1, from + n), resume, through, resume < through)

-----------------------------------------------------------------------------
(* What the SDK demands of an answer before it uses it. *)

ValidGap(q, p) ==
    /\ p.floor <= p.current /\ p.events = <<>> /\ ~p.more
    /\ p.reason = "retention" =>
          /\ p.stream = q.stream /\ q.after < p.floor
          /\ IF q.through = NoThrough THEN p.through = p.current ELSE p.through = q.through
    /\ p.reason = "stream_reset" => p.stream # q.stream /\ p.through = p.current

ValidPage(q, p) ==
    /\ q.through # NoThrough => p.through = q.through
    /\ q.after <= p.through
    /\ Len(p.events) <= q.limit
    /\ \A i \in DOMAIN p.events :
          /\ p.events[i].stream = q.stream /\ p.events[i].seq = q.after + i
          /\ p.events[i].seq <= p.through
    /\ p.resume = q.after + Len(p.events)
    /\ p.more = (p.resume < p.through)
    /\ p.more => p.resume # q.after

ValidFor(q, p) ==
    /\ p.kind = "gap" => ValidGap(q, p)
    /\ p.kind = "page" => ValidPage(q, p)

SameStream(a, b) == a.stream = b.stream

IsNextCursor(previous, next) == SameStream(previous, next) /\ next.seq = previous.seq + 1

-----------------------------------------------------------------------------
\* The floor says the truth: the journal holds every event after the floor,
\* once each and in order, up to the cursor (JournalEntry, replay_floor:
\* "Oldest `after` cursor from which every later event remains replayable").
Contiguous(f) ==
    /\ f.floor \in Nat /\ f.cursor \in Nat /\ f.floor <= f.cursor
    /\ Len(f.journal) = f.cursor - f.floor
    /\ \A i \in DOMAIN f.journal : f.journal[i].seq = f.floor + i /\ f.journal[i].stream = f.stream
=============================================================================
