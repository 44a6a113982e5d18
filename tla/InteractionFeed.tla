---------------------------- MODULE InteractionFeed ----------------------------
(***************************************************************************)
(* The interaction streams of one session: the feed of the daemon          *)
(* (InteractionRecord, interactions.rs of whale-daemon) and the streams of *)
(* the SDK over it (interactions.rs of whale-sdk-rust).                    *)
(*                                                                         *)
(* An event says that an interaction was requested or removed; the         *)
(* application keeps the pending interactions by applying the events to a  *)
(* snapshot.  A cursor that fell out of the journal is answered with a gap *)
(* and a fresh snapshot, fetched by a second request.                      *)
(*                                                                         *)
(* Abstractions.  Every interaction is of a run of its own, so a run is    *)
(* named by it.  A request and its answer are one step.  The wire is in    *)
(* order, so a notification that was written is in the hub of the session. *)
(***************************************************************************)
EXTENDS EventFeed

CONSTANTS Subs,         \* the streams of the application
          Ids,          \* bound: the interactions
          HubCap,       \* INTERACTION_EVENT_HUB_CAPACITY
          OutCap,       \* InteractionSubscriptionOptions.output_capacity
          PageLimit     \* InteractionSubscriptionOptions.replay_page_limit

InteractionFeedAssumption ==
    /\ IsFiniteSet(Subs) /\ IsFiniteSet(Ids)
    /\ HubCap \in Nat \ {0} /\ OutCap \in Nat \ {0} /\ PageLimit \in Nat \ {0}

VARIABLES
    feed,       \* cursor, floor and journal of the InteractionRecord
    log,        \* the payload of every event, by its cursor
    pending,    \* InteractionSnapshot.pending
    retired,    \* the runs that retention has dropped
    present,    \* the record is in the registry
    sent,       \* the last cursor that was notified
    phase,      \* SessionLifecycle.phase in the SDK
    lost,       \* ClientState.closed
    worker,     \* run_subscription_worker of each stream
    rx,         \* what each stream holds of its hub
    out,        \* the channel of each stream
    app         \* the application's replica for each stream

daemon == <<feed, log, pending, retired, present, sent>>
vars == <<daemon, phase, lost, worker, rx, out, app>>

View(seq, ids) == [seq |-> seq, pending |-> ids]
Asleep == [pc |-> "none", seq |-> 0, through |-> NoThrough, events |-> <<>>, more |-> FALSE,
           error |-> "none", view |-> View(0, {})]
NoReceiver == [on |-> FALSE, ring |-> <<>>, lagged |-> FALSE, term |-> "none"]
NoReplica == [state |-> "none", view |-> View(0, {})]
ErrorItem == 0          \* in a channel, where an event is its cursor

Init ==
    /\ feed = NewFeed(1) /\ log = <<>> /\ pending = {} /\ retired = {} /\ present = TRUE /\ sent = 0
    /\ phase = "open" /\ lost = FALSE
    /\ worker = [s \in Subs |-> Asleep] /\ rx = [s \in Subs |-> NoReceiver]
    /\ out = [s \in Subs |-> <<>>] /\ app = [s \in Subs |-> NoReplica]

-----------------------------------------------------------------------------
(* The daemon. *)

Payload(kind, id) == [kind |-> kind, id |-> id]

\* InteractionSnapshot::apply, on the daemon's snapshot and on a replica.
ApplyPayload(ids, p) == IF p.kind = "requested" THEN ids \cup {p.id} ELSE ids \ {p.id}

\* InteractionRecord::commit.
CommitPayload(p) ==
    /\ present
    /\ feed' = Retain(feed, p.id, 1) /\ log' = Append(log, p) /\ pending' = ApplyPayload(pending, p)
    /\ UNCHANGED <<retired, present, sent, phase, lost, worker, rx, out, app>>

CommitRequested(id) ==
    /\ Payload("requested", id) \notin Range(log)
    /\ CommitPayload(Payload("requested", id))

CommitRemoved(id) == id \in pending /\ CommitPayload(Payload("removed", id))

\* InteractionRegistry::retire_run: not with a pending interaction.
RetireInteractions(id) ==
    /\ present /\ id \notin retired \cup pending /\ Payload("removed", id) \in Range(log)
    /\ feed' = ScrubRun(feed, id) /\ retired' = retired \cup {id}
    /\ UNCHANGED <<log, pending, present, sent, phase, lost, worker, rx, out, app>>

\* The end of InteractionRegistry::close_session: every run was cleared.
RemoveRecord ==
    /\ present /\ pending = {} /\ phase = "closing"
    /\ present' = FALSE
    /\ UNCHANGED <<feed, log, pending, retired, sent, phase, lost, worker, rx, out, app>>

Overflow(queue, cap) == IF Len(queue) > cap THEN Tail(queue) ELSE queue

Routed(s, n) ==
    [rx[s] EXCEPT !.ring = Overflow(Append(@, n), HubCap), !.lagged = @ \/ Len(rx[s].ring) = HubCap]

\* spawn_notifier and route_interaction_event.  A slow connection makes the
\* notifier skip the oldest events it holds; a send that timed out is repeated.
Notify(n) ==
    /\ ~lost /\ sent <= n
    /\ sent' = n
    /\ rx' = [s \in Subs |-> IF rx[s].on /\ rx[s].term = "none" THEN Routed(s, n) ELSE rx[s]]
    /\ UNCHANGED <<feed, log, pending, retired, present, phase, lost, worker, out, app>>

\* A drain of the notifier of a closed session that was aborted, or repeats
\* that end, need no step: nothing waits for them.
NotifyTail == sent < feed.cursor /\ Notify(feed.cursor)

-----------------------------------------------------------------------------
(* The session and the connection in the SDK. *)

\* close_session: the phase is closing before the request is sent.
CloseSession ==
    /\ phase = "open" /\ ~lost
    /\ phase' = "closing"
    /\ UNCHANGED <<daemon, lost, worker, rx, out, app>>

\* An explicit rejection opens the session again.
CloseRejected ==
    /\ phase = "closing" /\ ~lost /\ present
    /\ phase' = "open"
    /\ UNCHANGED <<daemon, lost, worker, rx, out, app>>

\* InteractionEventHub::close.
Terminate(reason) ==
    rx' = [s \in Subs |-> IF rx[s].on /\ rx[s].term = "none" THEN [rx[s] EXCEPT !.term = reason] ELSE rx[s]]

\* release_session: close_interaction_event_hub.
CloseAnswered ==
    /\ phase = "closing" /\ ~lost /\ ~present
    /\ phase' = "closed" /\ Terminate("closed")
    /\ UNCHANGED <<daemon, lost, worker, out, app>>

\* disconnect: close_all_interaction_event_hubs.
Disconnect ==
    /\ ~lost
    /\ lost' = TRUE /\ present' = FALSE /\ Terminate("lost")
    /\ UNCHANGED <<feed, log, pending, retired, sent, phase, worker, out, app>>

-----------------------------------------------------------------------------
(* The streams. *)

\* request_for_session: only of an open session of an open connection.
Reachable == present /\ phase = "open" /\ ~lost

\* subscribe_interaction_events: every stream that is alive holds the one hub
\* of the session, so its receiver stands for it.
Subscribe(s, pc, view) ==
    /\ phase = "open" /\ ~lost
    /\ rx' = [rx EXCEPT ![s] = [NoReceiver EXCEPT !.on = TRUE]]
    /\ worker' = [worker EXCEPT ![s] = [Asleep EXCEPT !.pc = pc, !.seq = view.seq]]
    /\ out' = [out EXCEPT ![s] = <<>>]
    /\ app' = [app EXCEPT ![s] = [state |-> "asked", view |-> view]]
    /\ UNCHANGED <<daemon, phase, lost>>

\* watch_interactions.
Watch(s) == app[s].state = "none" /\ Subscribe(s, "snapshot", View(0, {}))

\* subscribe_interactions_from the cursor of the replica, after an error or
\* with the snapshot of a gap.
SubscribeFrom(s) ==
    /\ app[s].state \in {"resync", "unavailable", "dropped"}
    /\ Subscribe(s, "ask", app[s].view)

\* get_interaction_snapshot of watch_interactions.
WatchSnapshot(s) ==
    /\ worker[s].pc = "snapshot"
    /\ IF Reachable
       THEN /\ worker' = [worker EXCEPT ![s].pc = "ask", ![s].seq = feed.cursor]
            /\ app' = [app EXCEPT ![s] = [state |-> "live", view |-> View(feed.cursor, pending)]]
       ELSE /\ worker' = [worker EXCEPT ![s].pc = "done"]
            /\ app' = [app EXCEPT ![s].state = "refused"]
    /\ UNCHANGED <<daemon, phase, lost, rx, out>>

\* get_interaction_replay_page, by the caller of subscribe_interactions_from
\* and then by the worker.
AskPage(s) ==
    /\ worker[s].pc = "ask" /\ rx[s].term = "none"
    /\ LET q == Request(1, worker[s].seq, worker[s].through, PageLimit)
           p == IF Reachable THEN Replay(feed, q) ELSE Refused
           pc == CASE p.kind = "page" /\ ValidFor(q, p) -> "page"
                   [] p.kind = "gap" /\ ValidFor(q, p) -> "gap"
                   [] OTHER -> "fail"
       IN  /\ worker' = [worker EXCEPT ![s].pc = IF pc = "fail" /\ app[s].state = "asked" THEN "done" ELSE pc,
                                       ![s].through = IF pc = "page" THEN p.through ELSE NoThrough,
                                       ![s].more = p.more,
                                       ![s].events = [i \in DOMAIN p.events |-> p.events[i].seq],
                                       ![s].error = IF pc # "fail" THEN "none"
                                                    ELSE IF p.kind = "refused" THEN "unavailable" ELSE "invalid"]
           /\ app' = [app EXCEPT ![s].state = CASE @ # "asked" -> @
                                                [] pc = "page" -> "live"
                                                [] pc = "fail" -> "unavailable"
                                                [] OTHER -> @]
    /\ UNCHANGED <<daemon, phase, lost, rx, out>>

\* Mutant: the snapshot of a resync is taken for the cursor of the gap.
GapSnapshotOld(s) ==
    /\ worker[s].pc = "gap"
    /\ worker' = [worker EXCEPT ![s].pc = IF app[s].state = "asked" THEN "done" ELSE "fail",
                                ![s].error = IF Reachable THEN "resync" ELSE "unavailable",
                                ![s].view = View(feed.floor, pending)]
    /\ app' = [app EXCEPT ![s] = CASE @.state # "asked" -> @
                                   [] Reachable -> [state |-> "resync", view |-> View(feed.floor, pending)]
                                   [] OTHER -> [@ EXCEPT !.state = "unavailable"]]
    /\ UNCHANGED <<daemon, phase, lost, rx, out>>

\* The snapshot of ResyncRequired: a second request, for which the worker does
\* not watch the termination.
GapSnapshot(s) ==
    /\ worker[s].pc = "gap"
    /\ worker' = [worker EXCEPT ![s].pc = IF app[s].state = "asked" THEN "done" ELSE "fail",
                                ![s].error = IF Reachable THEN "resync" ELSE "unavailable",
                                ![s].view = View(feed.cursor, pending)]
    /\ app' = [app EXCEPT ![s] = CASE @.state # "asked" -> @
                                   [] Reachable -> [state |-> "resync", view |-> View(feed.cursor, pending)]
                                   [] OTHER -> [@ EXCEPT !.state = "unavailable"]]
    /\ UNCHANGED <<daemon, phase, lost, rx, out>>

\* enqueue_event, when the channel has room.
Enqueue(s, n) == Len(out[s]) < OutCap /\ out' = [out EXCEPT ![s] = Append(@, n)]

\* replay_fixed_window.
ReplayEvent(s) ==
    /\ worker[s].pc = "page" /\ worker[s].events # <<>> /\ rx[s].term = "none"
    /\ LET n == Head(worker[s].events)
       IN  IF n = worker[s].seq + 1
           THEN Enqueue(s, n) /\ worker' = [worker EXCEPT ![s].seq = n, ![s].events = Tail(@)]
           ELSE worker' = [worker EXCEPT ![s].pc = "fail", ![s].error = "invalid"] /\ UNCHANGED out
    /\ UNCHANGED <<daemon, phase, lost, rx, app>>

PageDone(s) ==
    /\ worker[s].pc = "page" /\ worker[s].events = <<>> /\ rx[s].term = "none"
    /\ worker' = [worker EXCEPT ![s] = IF @.more THEN [@ EXCEPT !.pc = "ask"]
                                       ELSE [@ EXCEPT !.pc = "live", !.through = NoThrough]]
    /\ UNCHANGED <<daemon, phase, lost, rx, out, app>>

\* The live loop of run_subscription_worker.
LiveEvent(s) ==
    /\ worker[s].pc = "live" /\ rx[s].term = "none" /\ ~rx[s].lagged /\ rx[s].ring # <<>>
    /\ rx' = [rx EXCEPT ![s].ring = Tail(@)]
    /\ LET n == Head(rx[s].ring)
       IN  \/ /\ n <= worker[s].seq
              /\ UNCHANGED <<out, worker>>
           \/ /\ n = worker[s].seq + 1
              /\ Enqueue(s, n) /\ worker' = [worker EXCEPT ![s].seq = n]
           \/ /\ n > worker[s].seq + 1
              /\ worker' = [worker EXCEPT ![s].pc = "ask"] /\ UNCHANGED out
    /\ UNCHANGED <<daemon, phase, lost, app>>

LiveLagged(s) ==
    /\ worker[s].pc = "live" /\ rx[s].term = "none" /\ rx[s].lagged
    /\ rx' = [rx EXCEPT ![s].lagged = FALSE]
    /\ worker' = [worker EXCEPT ![s].pc = "ask"]
    /\ UNCHANGED <<daemon, phase, lost, out, app>>

\* send_worker_error.
WorkerFails(s) ==
    /\ worker[s].pc = "fail" /\ rx[s].term = "none"
    /\ Enqueue(s, ErrorItem)
    /\ worker' = [worker EXCEPT ![s].pc = "done"]
    /\ UNCHANGED <<daemon, phase, lost, rx, app>>

\* The termination ends the worker; a caller that has no stream yet gets an
\* error for the request it has under way.
WorkerStops(s) ==
    /\ rx[s].term # "none" /\ worker[s].pc \in {"ask", "page", "live", "fail"}
    /\ worker' = [worker EXCEPT ![s].pc = "done"]
    /\ app' = [app EXCEPT ![s].state = IF @ = "asked" THEN "unavailable" ELSE @]
    /\ UNCHANGED <<daemon, phase, lost, rx, out>>

\* InteractionEventStream::recv: the termination first.  None for a session
\* that was closed, an error for a connection that was lost.
Recv(s) ==
    /\ app[s].state = "live"
    /\ \/ /\ rx[s].term # "none"
          /\ app' = [app EXCEPT ![s].state = IF rx[s].term = "closed" THEN "ended" ELSE "lost"]
          /\ UNCHANGED out
       \/ /\ rx[s].term = "none" /\ out[s] # <<>> /\ Head(out[s]) # ErrorItem
          /\ app' = [app EXCEPT ![s].view = View(Head(out[s]), ApplyPayload(@.pending, log[Head(out[s])]))]
          /\ out' = [out EXCEPT ![s] = Tail(@)]
       \/ /\ rx[s].term = "none" /\ out[s] # <<>> /\ Head(out[s]) = ErrorItem
          /\ app' = [app EXCEPT ![s] = [state |-> worker[s].error,
                                        view |-> IF worker[s].error = "resync" THEN worker[s].view ELSE @.view]]
          /\ out' = [out EXCEPT ![s] = Tail(@)]
    /\ UNCHANGED <<daemon, phase, lost, worker, rx>>

\* A stream that is dropped aborts its worker; the application keeps the
\* cursor it has received last.
DropStream(s) ==
    /\ app[s].state = "live"
    /\ app' = [app EXCEPT ![s].state = "dropped"]
    /\ worker' = [worker EXCEPT ![s] = [Asleep EXCEPT !.pc = "done"]]
    /\ rx' = [rx EXCEPT ![s] = NoReceiver] /\ out' = [out EXCEPT ![s] = <<>>]
    /\ UNCHANGED <<daemon, phase, lost>>

-----------------------------------------------------------------------------
Work(s) ==
    \/ WatchSnapshot(s) \/ AskPage(s) \/ GapSnapshot(s) \/ ReplayEvent(s) \/ PageDone(s)
    \/ LiveEvent(s) \/ LiveLagged(s) \/ WorkerFails(s) \/ WorkerStops(s)

Next ==
    \/ \E id \in Ids : CommitRequested(id) \/ CommitRemoved(id) \/ RetireInteractions(id)
    \/ RemoveRecord \/ CloseSession \/ CloseRejected \/ CloseAnswered \/ Disconnect
    \/ \E n \in 1..feed.cursor : Notify(n)
    \/ \E s \in Subs : Watch(s) \/ SubscribeFrom(s) \/ Work(s) \/ Recv(s) \/ DropStream(s)

Spec == Init /\ [][Next]_vars

-----------------------------------------------------------------------------
\* Types of the variables.
TypeOK ==
    /\ Contiguous(feed) /\ Len(log) = feed.cursor /\ sent \in 0..feed.cursor
    /\ pending \subseteq Ids /\ retired \subseteq Ids /\ phase \in {"open", "closing", "closed"}
    /\ \A s \in Subs :
          /\ worker[s].pc \in {"none", "snapshot", "ask", "gap", "page", "live", "fail", "done"}
          /\ Len(rx[s].ring) <= HubCap /\ Len(out[s]) <= OutCap
          /\ app[s].state \in {"none", "asked", "refused", "live", "ended", "lost", "resync", "unavailable", "dropped"}

\* The interactions that are pending after the event at a cursor.
PendingAt(n) ==
    {id \in Ids : /\ \E i \in 1..n : log[i] = Payload("requested", id)
                  /\ ~\E i \in 1..n : log[i] = Payload("removed", id)}

\* The replica of an application, and the snapshot it is told to start again
\* from, is what was pending at its cursor: no request is missed, shown twice
\* or shown after its removal, whatever was dropped, repeated, retired or
\* replayed on the way, and no page of the daemon is taken for inconsistent
\* (run_subscription_worker; docs/INTERACTION_API.md:124, :129).
ReplicaExact ==
    \A s \in Subs : /\ app[s].view.pending = PendingAt(app[s].view.seq)
                    /\ worker[s].error # "invalid"

\* What is between the daemon and the application is the events after the
\* replica's cursor, once each and in order.
StreamInOrder ==
    \A s \in Subs : app[s].state = "live" =>
        LET events == SelectSeq(out[s], LAMBDA n : n # ErrorItem)
        IN  /\ worker[s].seq = app[s].view.seq + Len(events)
            /\ \A i \in DOMAIN events : events[i] = app[s].view.seq + i

\* What a fair schedule ends: a live stream lacks events that were committed
\* (docs/INTERACTION_API.md:124: a lost frame is replayed); ...
Behind == \E s \in Subs : app[s].state = "live" /\ app[s].view.seq < feed.cursor

\* ... the session is closed or the connection lost and a stream goes on
\* (docs/INTERACTION_API.md:197).
StreamOpen == (phase = "closed" \/ lost) /\ \E s \in Subs : app[s].state = "live"
=============================================================================
