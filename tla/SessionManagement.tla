-------------------------- MODULE SessionManagement --------------------------
(***************************************************************************)
(* The V2 management record of one session (session_management.rs of       *)
(* whale-daemon): runs, metadata replacements and the close commit to its  *)
(* feed under the publication lane, drop the lane, and publish what they   *)
(* committed to the notifier.  The notifier puts the envelopes of its      *)
(* publishers in cursor order before they go to its queue; a queue that is *)
(* full is made up for by one slot that holds the latest envelope.  The    *)
(* close waits until the envelopes it published were written.              *)
(*                                                                         *)
(* Abstractions.  The payload of an event is its kind.  The runs of the    *)
(* session are one publisher, because a run holds its publication gate     *)
(* from the commit to the queue.  Oversized says that the closed record    *)
(* alone exceeds the owner's tombstone bytes.                              *)
(***************************************************************************)
EXTENDS EventFeed

CONSTANTS Writers,      \* clients of session.replace_metadata
          Values,       \* metadata maps
          Persistent,   \* SessionPersistenceV2::Persistent
          Oversized,    \* retained_record_bytes exceeds the owner's limit
          QueueCap,     \* DEFAULT_NOTIFICATION_QUEUE
          SeqBound      \* bound: events before the last run ends and the session closes

SessionManagementAssumption ==
    /\ Persistent \in BOOLEAN /\ Oversized \in BOOLEAN
    /\ QueueCap \in Nat \ {0} /\ SeqBound \in Nat /\ {"run", "close", "free"} \cap Writers = {}
ASSUME SessionManagementGiven == SessionManagementAssumption

VARIABLES
    projection,   \* ManagementProjection: cursor, journal, floor
    lifecycle,    \* snapshot.lifecycle
    meta,         \* snapshot.summary.metadata
    store,        \* the metadata the journal's store holds, if there is one and that is known
    lane,         \* who holds the publication lane over an await
    kept,         \* the record is in the registry
    running,      \* the session has an active run
    closeStep,    \* session.close
    pub,          \* what each publisher is doing
    order,        \* NotificationOrder
    backlog,      \* the notifier's queue
    latest,       \* the slot for the latest envelope, and if it is unread
    hand,         \* the work the notifier is writing
    lastSent,     \* last_sent
    on,           \* the notifier runs
    closedCursor, \* the cursor of Closed, or 0
    mishap        \* history: Closed was held back behind an envelope that is not
                  \* there yet, its record was removed before the close was
                  \* answered, and the last envelope that an older one replaced

record == <<projection, lifecycle, meta, store, lane, kept, running, closedCursor>>
notifier == <<backlog, latest, hand, lastSent, on, mishap>>
planeVars == <<record, closeStep, pub, order, notifier>>

Publishers == Writers \cup {"run", "close"}

Unheld == "free"
Nobody == "nobody"
Work(seq, who) == [seq |-> seq, who |-> who]
NoWork == Work(0, Nobody)

Holding(pc, seq) == [pc |-> pc, seq |-> seq, batch |-> <<>>, value |-> "none"]
Idle == Holding("idle", 0)

PlaneInit ==
    /\ projection = NewFeed(1) /\ lifecycle = "open"
    /\ meta = "none" /\ store = [value |-> "none", known |-> Persistent]
    /\ lane = Unheld /\ kept = TRUE /\ running = FALSE /\ closedCursor = 0 /\ closeStep = "idle"
    /\ pub = [p \in Publishers |-> Idle]
    /\ order = [enabled |-> FALSE, since |-> 0, next |-> 0, pending |-> {}]
    /\ backlog = <<>> /\ latest = [seq |-> 0, fresh |-> FALSE] /\ hand = NoWork /\ lastSent = 0 /\ on = TRUE
    /\ mishap = [held |-> FALSE, pruned |-> FALSE, replaced |-> 0]

-----------------------------------------------------------------------------
(* The record. *)

\* ManagementProjection::prepare and the install under the lane; the envelope
\* is then in the publisher's hands.
Commit(p, kind) ==
    /\ projection' = Retain(projection, kind, 1)
    /\ pub' = [pub EXCEPT ![p] = Holding("order", projection.cursor + 1)]

Bounded == projection.cursor < SeqBound

\* publish_run: begin, changed, event and finished.  A start is refused from
\* the moment the session is being closed.
RunCommit(active) ==
    /\ kept /\ lane = Unheld /\ pub["run"] = Idle /\ (active => Bounded)
    /\ running \/ (active /\ closeStep = "idle")
    /\ Commit("run", "run")
    /\ running' = active
    /\ UNCHANGED <<lifecycle, meta, store, lane, kept, closedCursor, closeStep, order, notifier>>

\* get_v2: a writer reads the revision it expects.
ReadRevision(w) ==
    /\ kept /\ pub[w].pc = "idle"
    /\ pub' = [pub EXCEPT ![w] = Holding("read", projection.cursor)]
    /\ UNCHANGED <<record, closeStep, order, notifier>>

CanReplace(w) == lifecycle = "open" /\ pub[w].seq = projection.cursor

\* replace_metadata: refused unless the session is open and the revision is
\* the current one.  A persistent session goes to its store first, with the
\* lane held.
Replace(w, v) ==
    /\ pub[w].pc = "read" /\ lane = Unheld
    /\ IF kept /\ CanReplace(w) /\ v # meta /\ Bounded
       THEN IF Persistent
            THEN /\ lane' = w
                 /\ pub' = [pub EXCEPT ![w].pc = "store", ![w].value = v]
                 /\ UNCHANGED <<projection, meta>>
            ELSE meta' = v /\ Commit(w, "meta") /\ UNCHANGED lane
       ELSE pub' = [pub EXCEPT ![w] = Idle] /\ UNCHANGED <<projection, meta, lane>>
    /\ UNCHANGED <<lifecycle, store, kept, running, closedCursor, closeStep, order, notifier>>

\* The store answers; a failure may or may not have reached it, and the
\* projection is installed only if it is still the one prepared from.
StoreAnswers(w, ok) ==
    /\ pub[w].pc = "store"
    /\ lane' = Unheld
    /\ store' \in IF ok THEN {[store EXCEPT !.value = pub[w].value]}
                  ELSE {[value |-> v, known |-> FALSE] : v \in {store.value, pub[w].value}}
    /\ IF ok /\ projection.cursor = pub[w].seq
       THEN meta' = pub[w].value /\ Commit(w, "meta")
       ELSE pub' = [pub EXCEPT ![w] = Idle] /\ UNCHANGED <<projection, meta>>
    /\ UNCHANGED <<lifecycle, kept, running, closedCursor, closeStep, order, notifier>>

-----------------------------------------------------------------------------
(* The close. *)

\* The close fences the session and commits Closing.
BeginClosing ==
    /\ closeStep = "idle" /\ kept /\ lane = Unheld /\ lifecycle = "open"
    /\ Commit("close", "closing")
    /\ lifecycle' = "closing" /\ closeStep' = "closing"
    /\ UNCHANGED <<meta, store, lane, kept, running, closedCursor, order, notifier>>

\* Mutant: the close does not wait for the session's run.
CompleteClosedEarly ==
    /\ closeStep = "closing" /\ pub["close"] = Idle /\ kept /\ lane = Unheld
    /\ Commit("close", "closed")
    /\ closedCursor' = projection.cursor + 1
    /\ lifecycle' = "closed" /\ closeStep' = "closed"
    /\ UNCHANGED <<meta, store, lane, kept, running, order, notifier>>

\* complete_closed, when the runs have settled.
CompleteClosed ==
    /\ closeStep = "closing" /\ pub["close"] = Idle /\ ~running /\ pub["run"] = Idle /\ kept /\ lane = Unheld
    /\ Commit("close", "closed")
    /\ closedCursor' = projection.cursor + 1
    /\ lifecycle' = "closed" /\ closeStep' = "closed"
    /\ UNCHANGED <<meta, store, lane, kept, running, order, notifier>>

\* complete_closed: the store of a persistent session does not let it go.
DetachRefused ==
    /\ Persistent /\ closeStep = "closing" /\ pub["close"] = Idle
    /\ ~running /\ pub["run"] = Idle /\ kept /\ lane = Unheld
    /\ closeStep' = "failed"
    /\ UNCHANGED <<record, pub, order, notifier>>

\* The removal of the record stops its notifier.
Removed == kept' = FALSE /\ on' = FALSE

\* The last prune_owner of complete_closed, and the answer.
AnswerClose ==
    /\ closeStep = "closed" /\ pub["close"] = Idle
    /\ closeStep' = "answered"
    /\ IF Oversized THEN Removed ELSE UNCHANGED <<kept, on>>
    /\ UNCHANGED <<projection, lifecycle, meta, store, lane, running, closedCursor, pub, order,
                   backlog, latest, hand, lastSent, mishap>>

\* prune_owner of any other request of the owner.
PruneOwner ==
    /\ kept /\ lifecycle = "closed" /\ Oversized
    /\ Removed
    /\ mishap' = [mishap EXCEPT !.pruned = @ \/ closeStep = "closed"]
    /\ UNCHANGED <<projection, lifecycle, meta, store, lane, running, closedCursor, closeStep, pub,
                   order, backlog, latest, hand, lastSent>>

\* remove_owner, when the connection is gone.
RemoveOwner ==
    /\ kept /\ lane = Unheld
    /\ Removed /\ closeStep' = "gone"
    /\ UNCHANGED <<projection, lifecycle, meta, store, lane, running, closedCursor, pub, order,
                   backlog, latest, hand, lastSent, mishap>>

-----------------------------------------------------------------------------
(* Publishing. *)

\* subscribe_v2 turns the notifier on at the cursor of the page it answers.
Activate ==
    /\ kept /\ ~order.enabled
    /\ order' = [enabled |-> TRUE, since |-> projection.cursor, next |-> projection.cursor + 1,
                 pending |-> {}]
    /\ UNCHANGED <<record, closeStep, pub, notifier>>

\* The envelopes that follow without a hole.
Ready(o) == {n \in o.pending : \A m \in o.next..n : m \in o.pending}

Batch(o) == [i \in 1..Cardinality(Ready(o)) |-> o.next + i - 1]

\* ordered.  publish_committed finds no record once it was removed.
Ordered(p) ==
    /\ pub[p].pc = "order"
    /\ IF order.enabled /\ pub[p].seq >= order.next /\ (p = "run" => kept)
       THEN LET o == [order EXCEPT !.pending = @ \cup {pub[p].seq}]
            IN  /\ order' = [o EXCEPT !.next = @ + Cardinality(Ready(o)), !.pending = @ \ Ready(o)]
                /\ pub' = [pub EXCEPT ![p].pc = IF Ready(o) = {} THEN "idle" ELSE "send",
                                      ![p].batch = Batch(o), ![p].seq = IF Ready(o) = {} THEN 0 ELSE @]
                /\ mishap' = [mishap EXCEPT !.held = @ \/ (pub[p].seq = closedCursor /\ Ready(o) = {})]
       ELSE pub' = [pub EXCEPT ![p] = Idle] /\ UNCHANGED <<order, mishap>>
    /\ UNCHANGED <<record, closeStep, backlog, latest, hand, lastSent, on>>

\* A publisher goes on with its batch, and is idle when it is done.
Advanced(r) == IF Len(r.batch) = 1 THEN Idle ELSE [r EXCEPT !.pc = "send", !.batch = Tail(@)]
Advance(p) == pub' = [pub EXCEPT ![p] = Advanced(@)]

\* publish: try_send.
TrySend(p) ==
    /\ p # "close" /\ pub[p].pc = "send"
    /\ IF ~on THEN Advance(p) /\ UNCHANGED backlog
       ELSE IF Len(backlog) < QueueCap
       THEN Advance(p) /\ backlog' = Append(backlog, Work(Head(pub[p].batch), Nobody))
       ELSE pub' = [pub EXCEPT ![p].pc = "full"] /\ UNCHANGED backlog
    /\ UNCHANGED <<record, closeStep, order, latest, hand, lastSent, on, mishap>>

\* publish: the queue was full, and the envelope is put in the slot, whatever
\* is in there.
SetLatest(p) ==
    /\ pub[p].pc = "full"
    /\ latest' = [seq |-> Head(pub[p].batch), fresh |-> TRUE]
    /\ mishap' = IF latest.fresh /\ Head(pub[p].batch) < latest.seq
                 THEN [mishap EXCEPT !.replaced = latest.seq] ELSE mishap
    /\ Advance(p)
    /\ UNCHANGED <<record, closeStep, order, backlog, hand, lastSent, on>>

\* publish_confirmed waits for room, and for its own envelope to be written.
SendConfirmed ==
    /\ pub["close"].pc = "send" /\ (on => Len(backlog) < QueueCap)
    /\ LET n == Head(pub["close"].batch)
           mine == n = pub["close"].seq
       IN  IF ~on THEN pub' = [pub EXCEPT !["close"] = Idle] /\ UNCHANGED backlog
           ELSE /\ backlog' = Append(backlog, Work(n, IF mine THEN "close" ELSE Nobody))
                /\ IF mine THEN pub' = [pub EXCEPT !["close"].pc = "await"] ELSE Advance("close")
    /\ UNCHANGED <<record, closeStep, order, latest, hand, lastSent, on, mishap>>

\* A notifier that stopped drops the confirmation.
Unconfirmed ==
    /\ pub["close"].pc = "await" /\ ~on
    /\ Advance("close")
    /\ UNCHANGED <<record, closeStep, order, notifier>>

-----------------------------------------------------------------------------
(* The notifier. *)

\* The confirmation of a piece of work reaches its publisher.
Confirm(work) == IF work.who = "close" /\ pub["close"].pc = "await" THEN Advance("close") ELSE UNCHANGED pub

\* Mutant: what was overtaken is written.
TakeAll(work) == hand' = work /\ UNCHANGED pub

\* What was written or overtaken is skipped.
Take(work) ==
    IF work.seq <= lastSent THEN Confirm(work) /\ UNCHANGED hand ELSE hand' = work /\ UNCHANGED pub

TakeQueue ==
    /\ on /\ hand = NoWork /\ backlog # <<>>
    /\ Take(Head(backlog))
    /\ backlog' = Tail(backlog)
    /\ UNCHANGED <<record, closeStep, order, latest, lastSent, on, mishap>>

\* The slot is read when the queue is empty.
TakeLatest ==
    /\ on /\ hand = NoWork /\ backlog = <<>> /\ latest.fresh
    /\ Take(Work(latest.seq, Nobody))
    /\ latest' = [latest EXCEPT !.fresh = FALSE]
    /\ UNCHANGED <<record, closeStep, order, backlog, lastSent, on, mishap>>

\* The envelope is on the wire; Closed ends the notifier.
Write ==
    /\ on /\ hand # NoWork
    /\ lastSent' = hand.seq /\ hand' = NoWork
    /\ on' = (hand.seq # closedCursor)
    /\ Confirm(hand)
    /\ UNCHANGED <<record, closeStep, order, backlog, latest, mishap>>

-----------------------------------------------------------------------------
PlaneNext ==
    \/ \E active \in BOOLEAN : RunCommit(active)
    \/ \E w \in Writers : \/ ReadRevision(w)
                         \/ \E v \in Values : Replace(w, v)
                         \/ \E ok \in BOOLEAN : StoreAnswers(w, ok)
    \/ BeginClosing \/ CompleteClosed \/ DetachRefused \/ AnswerClose \/ PruneOwner \/ RemoveOwner \/ Activate
    \/ \E p \in Publishers : Ordered(p) \/ TrySend(p) \/ SetLatest(p)
    \/ SendConfirmed \/ Unconfirmed \/ TakeQueue \/ TakeLatest \/ Write

PlaneSpec == PlaneInit /\ [][PlaneNext]_planeVars

-----------------------------------------------------------------------------
\* Types of the variables: those of the record, of the publishers and of the
\* notifier.
Pcs == {"idle", "read", "store", "order", "send", "full", "await"}
RecordTypes ==
    /\ projection.cursor \in Nat /\ lifecycle \in {"open", "closing", "closed"}
    /\ lane \in Writers \cup {Unheld}
    /\ kept \in BOOLEAN /\ running \in BOOLEAN /\ closedCursor \in Nat
    /\ meta \in Values \cup {"none"}
    /\ store \in [value : Values \cup {"none"}, known : BOOLEAN]
    /\ closeStep \in {"idle", "closing", "closed", "answered", "failed", "gone"}
Pub == [pc : Pcs, seq : Nat, batch : Seq(Nat), value : Values \cup {"none"}]
PublisherTypes ==
    /\ pub \in [Publishers -> Pub]
    /\ order \in [enabled : BOOLEAN, since : Nat, next : Nat, pending : SUBSET Nat]
Works == [seq : Nat, who : {"close", Nobody}]
NotifierTypes ==
    /\ backlog \in Seq(Works) /\ Len(backlog) <= QueueCap
    /\ latest \in [seq : Nat, fresh : BOOLEAN]
    /\ hand \in Works /\ lastSent \in Nat /\ on \in BOOLEAN
PlaneTypeOK == RecordTypes /\ PublisherTypes /\ NotifierTypes

\* The store and the view never tell different metadata, except while a
\* replacement is under way or after a failure whose outcome is unknown
\* (replace_metadata: the lane is held over the store).
StoreFollows == lane = Unheld /\ store.known => store.value = meta

\* Closed is the last event of a session, whoever publishes
\* (docs/SESSION_VIEW_API.md:276).
ClosedIsLast == closedCursor # 0 => projection.cursor = closedCursor

\* What the publication lane keeps: both of these, whoever commits
\* (SessionManagementRegistry, publication_lane).
RecordAgrees == StoreFollows /\ ClosedIsLast

\* The notifications are those of NotifiedFeed: committed events, in cursor
\* order, none twice, and none after Closed (ManagementNotifier::ordered,
\* spawn_notifier).
Abstract == INSTANCE NotifiedFeed WITH
    cursor <- projection.cursor, closedAt <- closedCursor, sent <- lastSent
NotifiesInOrder == Abstract!Spec

\* What a fair schedule ends: a client subscribed, and the latest event, or a
\* later one, is not notified yet, though queues overflow
\* (ManagementNotifier::publish, latest), except when an older envelope has
\* replaced that very event in the slot (session_management.rs:360); ...
TailUnsent ==
    /\ on /\ order.enabled /\ order.since < projection.cursor /\ lastSent < projection.cursor
    /\ mishap.replaced # projection.cursor

\* ... a close is not answered (begin_closing, complete_closed).
CloseUnanswered == closeStep \in {"closing", "closed"}

\* When the close is answered, Closed was notified to a client that had
\* subscribed before: "Closing -> remaining runs -> Closed -> close response"
\* (docs/SESSION_VIEW_API.md:276; complete_closed: "Preserve delivery of this
\* Session's terminal envelope").  There are two exceptions: Closed was held back
\* behind an earlier envelope, for which publish_confirmed does not wait
\* (session_management.rs:365), or another request of the owner pruned the record
\* first (session_management.rs:1284).
ClosedBeforeAnswer ==
    closeStep = "answered" /\ order.enabled /\ order.since < closedCursor /\ ~mishap.held /\ ~mishap.pruned =>
        lastSent = closedCursor
=============================================================================
