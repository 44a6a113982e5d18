---------------------------- MODULE SessionHistory ----------------------------
(***************************************************************************)
(* The canonical history of one session and its pages (session_history.rs  *)
(* of whale-daemon).  Finished runs append their items to an archive that  *)
(* keeps the latest within its limits; clients read it backwards, in pages *)
(* over the window that the first page froze.                              *)
(*                                                                         *)
(* Abstractions.  An item is its absolute index and its size.  The signed  *)
(* page cursor is its claims; the stream of the session does not change,   *)
(* because an attachment after a restart has a new thread.                 *)
(***************************************************************************)
EXTENDS Integers, Sequences, FiniteSets, Functions

CONSTANTS Sizes,        \* sizes of items
          MaxItems,     \* MAX_SESSION_MANAGEMENT_HISTORY_ITEMS
          MaxBytes,     \* max_bytes of the archive
          PageLimit,    \* GetSessionHistoryParams.limit
          PageBytes,    \* MAX_SESSION_MANAGEMENT_PAGE_BYTES
          ItemBound     \* bound: items ever appended

SessionHistoryAssumption ==
    /\ Sizes \subseteq Nat \ {0} /\ {MaxItems, PageLimit} \subseteq Nat \ {0}
    /\ {MaxBytes, PageBytes, ItemBound} \subseteq Nat

VARIABLES archive,      \* HistoryArchive
          walk          \* a client that reads the history backwards

vars == <<archive, walk>>

Item(index, bytes) == [index |-> index, bytes |-> bytes]

\* What the client has read so far, and the claims of its cursor.
NoWalk == [pc |-> "idle", through |-> 0, before |-> 0, got |-> <<>>, floor |-> 0]

Init == archive = [floor |-> 0, end |-> 0, items |-> <<>>] /\ walk = NoWalk

Bytes(items) == FoldFunction(LAMBDA item, sum : item.bytes + sum, 0, items)

-----------------------------------------------------------------------------
(* The archive. *)

\* The loop that evicts the oldest items.
Evict(a) ==
    LET Left(k) == SubSeq(a.items, k + 1, Len(a.items))
        Fits(k) == Len(Left(k)) <= MaxItems /\ Bytes(Left(k)) <= MaxBytes
        k == CHOOSE n \in 0..Len(a.items) : Fits(n) /\ \A m \in 0..(n - 1) : ~Fits(m)
    IN  [a EXCEPT !.floor = @ + k, !.items = Left(k)]

\* One item of append, which evicts item by item.
ArchiveAppend(a, bytes) == Evict([a EXCEPT !.end = @ + 1, !.items = Append(@, Item(a.end, bytes))])

\* prepare_append and its install: the items of a finished run, one or two.
AppendOne(b) ==
    /\ archive.end < ItemBound
    /\ archive' = ArchiveAppend(archive, b)
    /\ UNCHANGED walk

AppendTwo(b, c) ==
    /\ archive.end + 1 < ItemBound
    /\ archive' = ArchiveAppend(ArchiveAppend(archive, b), c)
    /\ UNCHANGED walk

-----------------------------------------------------------------------------
(* Pages. *)

Slice(from, to) == SubSeq(archive.items, from - archive.floor + 1, to - archive.floor)

\* Where the page that ends at "before" begins: the limit, the floor or the
\* bytes of the page stop it.
Start(before) ==
    LET Fits(n) == before - n >= archive.floor /\ n <= PageLimit /\ Bytes(Slice(before - n, before)) <= PageBytes
    IN  before - CHOOSE n \in 0..before : Fits(n) /\ ~Fits(n + 1)

\* Mutant: a boundary below the floor is moved to the floor.
PageFromFloor(w, before) ==
    LET from == IF before < archive.floor THEN archive.floor ELSE before
    IN  [w EXCEPT !.pc = IF Start(from) > archive.floor THEN "more" ELSE "done", !.before = Start(from),
                  !.got = Slice(Start(from), from) \o @, !.floor = archive.floor]

\* page and result, for a boundary within the archive.
Page(w, before) ==
    CASE before < archive.floor -> [NoWalk EXCEPT !.pc = "gap", !.floor = archive.floor, !.before = before]
      [] before > archive.floor /\ Start(before) = before -> [w EXCEPT !.pc = "too_large"]
      [] OTHER -> [w EXCEPT !.pc = IF Start(before) > archive.floor THEN "more" ELSE "done",
                            !.before = Start(before), !.got = Slice(Start(before), before) \o @, !.floor = archive.floor]

Ready == walk.pc # "more"

\* The first page, from the end or from an anchor of a snapshot.
FirstPage(anchor) ==
    /\ Ready
    /\ LET through == IF anchor <= archive.end THEN anchor ELSE archive.end
       IN  walk' = Page([NoWalk EXCEPT !.through = through], through)
    /\ UNCHANGED archive

\* A later page, by the cursor of the one before; the cursor may be too old.
NextPage ==
    /\ walk.pc = "more"
    /\ walk' \in {Page(walk, walk.before), [NoWalk EXCEPT !.pc = "cursor_invalid"]}
    /\ UNCHANGED archive

\* GetSessionHistoryResult::validate_for, on what both ends know.
ValidPage(w, next) ==
    next.pc \in {"more", "done"} =>
        /\ next.before <= w.before /\ w.before <= next.through /\ next.through <= archive.end
        /\ Len(next.got) - Len(w.got) = w.before - next.before
        /\ Len(next.got) - Len(w.got) <= PageLimit

Next ==
    \/ \E b \in Sizes : AppendOne(b)
    \/ \E b, c \in Sizes : AppendTwo(b, c)
    \/ \E anchor \in 0..ItemBound : FirstPage(anchor)
    \/ NextPage

Spec == Init /\ [][Next]_vars

-----------------------------------------------------------------------------
\* Types of the variables; the archive is within its limits.
TypeOK ==
    /\ archive.floor \in 0..ItemBound /\ archive.end \in 0..ItemBound
    /\ Len(archive.items) <= MaxItems /\ Bytes(archive.items) <= MaxBytes
    /\ walk.pc \in {"idle", "more", "done", "gap", "too_large", "cursor_invalid"}

\* The archive is the tail of the history, with nothing left out between the
\* floor and the end (append, debug_assert_eq).
ArchiveIsTail ==
    /\ Len(archive.items) = archive.end - archive.floor
    /\ \A i \in DOMAIN archive.items : archive.items[i].index = archive.floor + i - 1

\* The pages of a walk are the items below the frozen boundary, once each and
\* in order, down to where it stands: whatever was appended or evicted between
\* its pages, no item is left out in the middle
\* (docs/SESSION_VIEW_API.md:265).
PagesTile ==
    walk.pc \in {"more", "done"} =>
        /\ Len(walk.got) = walk.through - walk.before
        /\ \A i \in DOMAIN walk.got : walk.got[i].index = walk.before + i - 1

\* A walk that ends has everything that the archive had left when it ended, and
\* a gap is reported only when what was asked for is gone
\* (docs/SESSION_VIEW_API.md:265).
EndsAtFloor ==
    /\ walk.pc = "done" => walk.before = walk.floor
    /\ walk.pc = "gap" => walk.before < walk.floor

\* The SDK accepts every page (GetSessionHistoryResult::validate_for).
PagesValid ==
    walk' # walk =>
        ValidPage(IF walk.pc = "more" THEN walk ELSE [NoWalk EXCEPT !.before = walk'.through], walk')
=============================================================================
