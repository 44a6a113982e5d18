---------------------------- MODULE SessionCatalog ----------------------------
(***************************************************************************)
(* The catalogue of one owner's sessions (OwnerCatalog and prune_owner in  *)
(* session_management.rs, list cursors in session_catalog.rs).  Sessions   *)
(* get ascending ordinals; closed ones stay as tombstones until their time *)
(* is over or the owner has too many or too large ones, and each removal   *)
(* starts a new generation.  A client lists the sessions page by page,     *)
(* over the window that the first page froze.                              *)
(*                                                                         *)
(* Abstractions.  A record is its lifecycle and its size; the signed list  *)
(* cursor is its claims, which only the owner it was made for can use.     *)
(***************************************************************************)
EXTENDS Integers, Sequences, FiniteSets, SequencesExt

CONSTANTS Sessions,         \* thread ids, each used once
          Large,            \* sessions of two size units, the others have one
          MaxClosed,        \* max_closed_tombstones
          MaxBytes,         \* max_closed_tombstone_bytes
          Ttl,              \* closed_tombstone_ttl_ms
          CursorTtl,        \* SESSION_MANAGEMENT_CURSOR_TTL_MS
          PageLimit,        \* ListSessionsParams.limit
          PageBytes,        \* MAX_SESSION_MANAGEMENT_PAGE_BYTES
          ClockBound        \* bound: the last time

SessionCatalogAssumption ==
    /\ Large \subseteq Sessions /\ IsFiniteSet(Sessions)
    /\ MaxClosed \in Nat \ {0} /\ PageLimit \in Nat \ {0} /\ {MaxBytes, Ttl, CursorTtl, PageBytes, ClockBound} \subseteq Nat

VARIABLES
    life,       \* of each session
    ordinal,    \* catalog_ordinal of each session, or 0
    closedAt,   \* when it was closed
    publishing, \* sessions whose complete_closed awaits the terminal envelope
    next,       \* next_ordinal
    generation, expired, \* OwnerCatalogState
    now,
    walk        \* a client that lists the sessions

registry == <<life, ordinal, closedAt, publishing, next, generation, expired>>
vars == <<registry, now, walk>>

Total(S) == Cardinality(S) + Cardinality(S \cap Large)

NoWalk == [pc |-> "idle", generation |-> 0, after |-> 0, through |-> 0, due |-> 0, seen |-> <<>>, window |-> <<>>]

Init ==
    /\ life = [s \in Sessions |-> "new"] /\ ordinal = [s \in Sessions |-> 0] /\ closedAt = [s \in Sessions |-> 0]
    /\ publishing = {} /\ next = 1 /\ generation = 0 /\ expired = <<>>
    /\ now = 0 /\ walk = NoWalk

Tombstones == {s \in Sessions : life[s] = "closed"}

-----------------------------------------------------------------------------
(* prune_owner *)

\* The order in which tombstones are considered.
Older(s, t) == closedAt[s] < closedAt[t] \/ (closedAt[s] = closedAt[t] /\ ordinal[s] < ordinal[t])
ByAge(S) == SetToSortSeq(S, Older)

TimedOut(closed, protected) == {s \in closed \ protected : now - closedAt[s] >= Ttl}

Within(S) == Cardinality(S) <= MaxClosed /\ Total(S) <= MaxBytes

\* Mutant: one more goes than the limits ask for.
PressedOneMore(rest, protected) ==
    LET order == ByAge(rest \ protected)
        Left(k) == rest \ {order[i] : i \in 1..k}
        k == CHOOSE n \in 0..Len(order) : (Within(Left(n)) \/ n = Len(order)) /\ \A m \in 0..(n - 1) : ~Within(Left(m))
    IN  SubSeq(order, 1, IF k < Len(order) THEN k + 1 ELSE k)

\* The oldest go until the rest is within the limits.
Pressed(rest, protected) ==
    LET order == ByAge(rest \ protected)
        Left(k) == rest \ {order[i] : i \in 1..k}
        k == CHOOSE n \in 0..Len(order) : (Within(Left(n)) \/ n = Len(order)) /\ \A m \in 0..(n - 1) : ~Within(Left(m))
    IN  SubSeq(order, 1, k)

Pruned(closed, protected) ==
    LET old == TimedOut(closed, protected)
    IN  ByAge(old) \o Pressed(closed \ old, protected)

Remembered(names) ==
    SubSeq(names, IF Len(names) > 2 * MaxClosed THEN Len(names) - 2 * MaxClosed + 1 ELSE 1, Len(names))

\* prune_owner, with the lifecycles the caller leaves.
Prune(after, protected) ==
    LET gone == Pruned({s \in Sessions : after[s] = "closed"}, protected)
    IN  /\ life' = [s \in Sessions |-> IF s \in Range(gone) THEN "gone" ELSE after[s]]
        /\ expired' = Remembered(expired \o gone)
        /\ generation' = generation + Len(gone)

-----------------------------------------------------------------------------
(* The sessions. *)

Insert(s) ==
    /\ life[s] = "new"
    /\ life' = [life EXCEPT ![s] = "open"]
    /\ ordinal' = [ordinal EXCEPT ![s] = next] /\ next' = next + 1
    /\ UNCHANGED <<closedAt, publishing, generation, expired, now, walk>>

BeginClosing(s) ==
    /\ life[s] = "open"
    /\ Prune([life EXCEPT ![s] = "closing"], {})
    /\ UNCHANGED <<ordinal, closedAt, publishing, next, now, walk>>

\* complete_closed up to the terminal envelope: the record is protected from
\* its own prune.
CompleteClosed(s) ==
    /\ life[s] = "closing"
    /\ closedAt' = [closedAt EXCEPT ![s] = now]
    /\ Prune([life EXCEPT ![s] = "closed"], {s})
    /\ publishing' = publishing \cup {s}
    /\ UNCHANGED <<ordinal, next, now, walk>>

\* complete_closed after it.
FinishClose(s) ==
    /\ s \in publishing
    /\ publishing' = publishing \ {s}
    /\ Prune(life, {})
    /\ UNCHANGED <<ordinal, closedAt, next, now, walk>>

\* prune_closed, from the housekeeping of the daemon.
PruneClosed ==
    /\ Prune(life, {})
    /\ UNCHANGED <<ordinal, closedAt, publishing, next, now, walk>>

Tick ==
    /\ now < ClockBound /\ now' = now + 1
    /\ UNCHANGED <<registry, walk>>

\* What owned answers a request that reads one session.
Told(s) == IF life[s] # "gone" THEN "found"
           ELSE IF s \in Range(expired) THEN "expired" ELSE "unavailable"

\* owned prunes before it answers.
Read(s) ==
    /\ life[s] # "new"
    /\ Prune(life, {})
    /\ UNCHANGED <<ordinal, closedAt, publishing, next, now, walk>>

-----------------------------------------------------------------------------
(* list_sessions *)

Listed(after, through, lives) ==
    SetToSortSeq({s \in Sessions : lives[s] \notin {"new", "gone"} /\ ordinal[s] \in (after + 1)..through},
                 LAMBDA s, t : ordinal[s] < ordinal[t])

\* The longest page within the limit and the bytes.
PageOf(candidates) ==
    LET Fits(n) == n <= PageLimit /\ Total({candidates[i] : i \in 1..n}) <= PageBytes
        n == CHOOSE k \in 0..Len(candidates) : Fits(k) /\ (k = Len(candidates) \/ ~Fits(k + 1))
    IN  SubSeq(candidates, 1, n)

\* A page of the window; a session too large for any page is an error.
Answer(w, lives, gen) ==
    LET candidates == Listed(w.after, w.through, lives)
        page == PageOf(candidates)
        seen == w.seen \o page
        last == ordinal[page[Len(page)]]
    IN  IF candidates = <<>> THEN [w EXCEPT !.pc = "done"]
        ELSE IF page = <<>> THEN [NoWalk EXCEPT !.pc = "too_large"]
        ELSE IF Len(page) = Len(candidates) THEN [w EXCEPT !.pc = "done", !.seen = seen]
        ELSE [w EXCEPT !.pc = "more", !.generation = gen, !.after = last, !.due = now + CursorTtl, !.seen = seen]

\* The first page freezes the window at the last ordinal.
FirstPage ==
    /\ walk.pc \notin {"more"}
    /\ Prune(life, {})
    /\ LET w == [NoWalk EXCEPT !.through = next - 1, !.window = Listed(0, next - 1, life')]
       IN  walk' = Answer(w, life', generation')
    /\ UNCHANGED <<ordinal, closedAt, publishing, next, now>>

\* A cursor that is too old is refused before anything is pruned, one of an
\* earlier generation after it.
NextPage ==
    /\ walk.pc = "more"
    /\ IF now >= walk.due
       THEN walk' = [NoWalk EXCEPT !.pc = "expired"] /\ UNCHANGED <<life, expired, generation>>
       ELSE /\ Prune(life, {})
            /\ walk' = IF walk.generation # generation' THEN [NoWalk EXCEPT !.pc = "expired"]
                       ELSE Answer(walk, life', generation')
    /\ UNCHANGED <<ordinal, closedAt, publishing, next, now>>

-----------------------------------------------------------------------------
Next ==
    \/ \E s \in Sessions : Insert(s) \/ BeginClosing(s) \/ CompleteClosed(s) \/ FinishClose(s) \/ Read(s)
    \/ PruneClosed \/ Tick \/ FirstPage \/ NextPage

Spec == Init /\ [][Next]_vars

-----------------------------------------------------------------------------
\* Types of the variables; no two sessions have the same ordinal.
TypeOK ==
    /\ \A s \in Sessions : life[s] \in {"new", "open", "closing", "closed", "gone"} /\ ordinal[s] \in 0..(next - 1)
    /\ \A s, t \in Sessions : ordinal[s] = ordinal[t] => s = t \/ ordinal[s] = 0
    /\ publishing \subseteq Sessions /\ Len(expired) <= 2 * MaxClosed /\ generation \in 0..Cardinality(Sessions)
    /\ walk.pc \in {"idle", "more", "done", "too_large", "expired"}

\* A listing that is not refused is complete: its pages are, in order and once
\* each, the sessions that were there when the first page froze the window,
\* whatever was created, closed or pruned between the pages
\* (docs/PROTOCOL_SPEC.md:478).
ListExact == walk.pc = "done" => walk.seen = walk.window

\* The tombstones of an owner are within the limits, but for the one whose
\* terminal envelope is being published (prune_owner, complete_closed).
TombstonesBounded ==
    /\ Cardinality(Tombstones) <= MaxClosed
    /\ Total(Tombstones) <= MaxBytes \/ Tombstones \subseteq publishing

\* The steps of a prune: what goes is older than what stays, and goes because
\* its time is over or the limits would be exceeded with it; no session that
\* is open or closing goes (docs/SESSION_VIEW_API.md:282).
FairPrune ==
    LET gone == {s \in Sessions : life[s] # "gone" /\ life'[s] = "gone"}
        stay == {s \in Sessions : life'[s] = "closed"}
        shown == {s \in stay : life[s] = "closed"}
    IN  \A s \in gone :
            /\ life[s] = "closed"
            /\ \A t \in shown : Older(s, t)
            /\ now - closedAt[s] >= Ttl \/ ~Within(stay \cup {t \in gone : t = s \/ Older(s, t)})

\* A read of a session that was evicted says so
\* (docs/PROTOCOL_SPEC.md:484).
EvictionIsTold == \A s \in Sessions : Told(s) # "unavailable"
=============================================================================
