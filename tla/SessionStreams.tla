---------------------------- MODULE SessionStreams ----------------------------
(***************************************************************************)
(* The V2 subscriptions of one session in the SDK (session_management.rs   *)
(* of whale-sdk-rust) over the daemon's management feed.                   *)
(*                                                                         *)
(* The daemon commits events to the feed, Closed last, and notifies them   *)
(* in order, some left out (NotifiedFeed).  The client finds the hub of    *)
(* the session in a map of weak references; all streams of the session     *)
(* share it.  Each stream has a worker that replays a fixed window first,  *)
(* then follows the hub, and replays again when it lags, misses an event   *)
(* or is nudged by the answer to session.close.  A worker that meets       *)
(* Closed takes the hub out of the map and ends.                           *)
(*                                                                         *)
(* Abstractions.  The payload of an event is whether it belongs to the run *)
(* that may be retired.  A request and its answer are one step; the wire   *)
(* is in order, so a notification that was written is in the hub.          *)
(***************************************************************************)
EXTENDS EventFeed

CONSTANTS Subs,         \* the streams of the application
          HubCap,       \* SESSION_EVENT_HUB_V2_CAPACITY
          OutCap,       \* SubscriptionOptions.buffer_capacity
          PageLimit,    \* SubscriptionOptions.replay_page_size
          SeqBound      \* bound: events before Closed

SessionStreamsAssumption ==
    /\ IsFiniteSet(Subs) /\ SeqBound \in Nat
    /\ HubCap \in Nat \ {0} /\ OutCap \in Nat \ {0} /\ PageLimit \in Nat \ {0}

VARIABLES
    feed,       \* ManagementProjection of the daemon
    closedAt,   \* the cursor of Closed, or 0
    run,        \* the run of the session: none, active, ended or retired
    present,    \* the record is in the daemon's registry
    active,     \* the notifier was turned on by a request for a page
    sent,       \* the last cursor that was notified
    answered,   \* session.close was answered to this client
    lost,       \* ClientState.closed
    registered, \* the hub in session_event_hubs_v2, or NoHub
    worker,     \* run_subscription_worker_v2 of each stream
    rx,         \* what each stream holds of its hub
    out,        \* the channel of each stream
    app         \* the application's side of each stream

daemon == <<feed, closedAt, run, present, active, sent>>
client == <<answered, lost, registered>>
vars == <<daemon, client, worker, rx, out, app>>

NoHub == 0
Asleep == [pc |-> "none", seq |-> 0, through |-> NoThrough, events |-> <<>>, more |-> FALSE, error |-> "none"]
NoReceiver == [hub |-> NoHub, ring |-> <<>>, lagged |-> FALSE, nudged |-> FALSE, term |-> FALSE]
ErrorItem == 0          \* in a channel, where an event is its cursor

Init ==
    /\ feed = NewFeed(1) /\ closedAt = 0 /\ run \in {"none", "active"} /\ present = TRUE /\ active = FALSE /\ sent = 0
    /\ answered = FALSE /\ lost = FALSE /\ registered = NoHub
    /\ worker = [s \in Subs |-> Asleep] /\ rx = [s \in Subs |-> NoReceiver]
    /\ out = [s \in Subs |-> <<>>] /\ app = [s \in Subs |-> [state |-> "none", seq |-> 0]]

-----------------------------------------------------------------------------
(* The daemon. *)

\* Runs and metadata; an event of the run that finishes it is the last of it.
CommitEvent(kind) ==
    /\ present /\ closedAt = 0 /\ feed.cursor < SeqBound
    /\ kind # "meta" => run = "active"
    /\ feed' = Retain(feed, IF kind = "meta" THEN kind ELSE "run", 1)
    /\ run' = IF kind = "finish" THEN "ended" ELSE run
    /\ UNCHANGED <<closedAt, present, active, sent, client, worker, rx, out, app>>

\* prepare_retire_run: not an active run, and only once.
RetireRun ==
    /\ present /\ run = "ended"
    /\ feed' = ScrubRun(feed, "run") /\ run' = "retired"
    /\ UNCHANGED <<closedAt, present, active, sent, client, worker, rx, out, app>>

CommitClosed ==
    /\ present /\ closedAt = 0 /\ run # "active"
    /\ feed' = Retain(feed, "meta", 1)
    /\ closedAt' = feed.cursor + 1
    /\ UNCHANGED <<run, present, active, sent, client, worker, rx, out, app>>

\* prune_owner: a tombstone goes, though Closed or the answer may not be sent yet.
Prune ==
    /\ present /\ closedAt # 0
    /\ present' = FALSE
    /\ UNCHANGED <<feed, closedAt, run, active, sent, client, worker, rx, out, app>>

Holders(h) == {s \in Subs : rx[s].hub = h}

Overflow(queue, cap) == IF Len(queue) > cap THEN Tail(queue) ELSE queue

Routed(s, n) ==
    [rx[s] EXCEPT !.ring = Overflow(Append(@, n), HubCap), !.lagged = @ \/ Len(rx[s].ring) = HubCap]

\* spawn_notifier, and route_session_event_v2: the hub in the map has it.
Notify(n) ==
    /\ present /\ active /\ ~lost /\ sent < n
    /\ sent' = n
    /\ rx' = [s \in Subs |-> IF registered # NoHub /\ s \in Holders(registered) THEN Routed(s, n) ELSE rx[s]]
    /\ UNCHANGED <<feed, closedAt, run, present, active, client, worker, out, app>>

-----------------------------------------------------------------------------
(* The client. *)

\* The answer to session.close, which may overtake Closed (SessionManagement,
\* ClosedBeforeAnswer); release_session nudges the hub in the map.
AnswerClose ==
    /\ closedAt # 0 /\ ~answered /\ ~lost
    /\ answered' = TRUE
    /\ rx' = [s \in Subs |-> IF registered # NoHub /\ s \in Holders(registered)
                             THEN [rx[s] EXCEPT !.nudged = TRUE] ELSE rx[s]]
    /\ UNCHANGED <<daemon, lost, registered, worker, out, app>>

\* disconnect: the hubs in the map are terminated, and the daemon drops what
\* the connection owned.
Disconnect ==
    /\ ~lost
    /\ lost' = TRUE /\ present' = FALSE /\ registered' = NoHub
    /\ rx' = [s \in Subs |-> IF registered # NoHub /\ s \in Holders(registered)
                             THEN [rx[s] EXCEPT !.term = TRUE] ELSE rx[s]]
    /\ UNCHANGED <<feed, closedAt, run, active, sent, answered, worker, out, app>>

\* subscribe_session_events_v2: the hub that is in the map and alive, or a new
\* one.
Subscribe(s, pc, from) ==
    /\ app[s].state = "none" /\ ~lost
    /\ LET alive == registered # NoHub /\ Holders(registered) # {}
           hub == IF alive THEN registered ELSE 1 + Cardinality({rx[t].hub : t \in Subs} \ {NoHub})
       IN  /\ registered' = hub
           /\ rx' = [rx EXCEPT ![s] = [NoReceiver EXCEPT !.hub = hub]]
    /\ worker' = [worker EXCEPT ![s] = [Asleep EXCEPT !.pc = pc, !.seq = from]]
    /\ app' = [app EXCEPT ![s] = [state |-> "asked", seq |-> from]]
    /\ UNCHANGED <<daemon, answered, lost, out>>

\* SessionViewHandle::watch, and subscribe_from a cursor of the session.
Watch(s) == Subscribe(s, "snapshot", 0)

SubscribeFrom(s) == \E from \in 0..feed.cursor : Subscribe(s, "ask", from)

\* get_session_snapshot_v2; after the failure the caller has no stream.
GetSnapshot(s) ==
    /\ worker[s].pc = "snapshot"
    /\ IF present
       THEN /\ worker' = [worker EXCEPT ![s].pc = "ask", ![s].seq = feed.cursor]
            /\ app' = [app EXCEPT ![s] = [state |-> "live", seq |-> feed.cursor]]
       ELSE /\ worker' = [worker EXCEPT ![s].pc = "done"]
            /\ app' = [app EXCEPT ![s].state = "refused"]
    /\ UNCHANGED <<daemon, client, rx, out>>

\* get_session_replay_page_v2: the request turns the notifier on.  A gap is
\* an invalid projection to the SDK.
AskPage(s) ==
    /\ worker[s].pc = "ask" /\ ~rx[s].term
    /\ LET q == Request(1, worker[s].seq, worker[s].through, PageLimit)
           p == IF present THEN Replay(feed, q) ELSE Refused
           error == CASE p.kind = "refused" -> "unavailable"
                      [] p.kind = "page" /\ ValidFor(q, p) -> "none"
                      [] p.kind = "gap" /\ ValidFor(q, p) -> "gap"
                      [] OTHER -> "invalid"
       IN  /\ worker' = [worker EXCEPT ![s] =
                  IF error = "none"
                  THEN [@ EXCEPT !.pc = "page", !.through = p.through, !.more = p.more,
                                 !.events = [i \in DOMAIN p.events |-> p.events[i].seq]]
                  ELSE [@ EXCEPT !.pc = IF app[s].state = "asked" THEN "done" ELSE "fail", !.error = error]]
           /\ app' = [app EXCEPT ![s].state = IF @ = "asked" /\ error # "none" THEN "refused" ELSE "live"]
           /\ active' = (active \/ present)
           /\ sent' = IF active \/ ~present THEN sent ELSE feed.cursor
    /\ UNCHANGED <<feed, closedAt, run, present, client, rx, out>>

Enqueue(s, n) == Len(out[s]) < OutCap /\ out' = [out EXCEPT ![s] = Append(@, n)]

\* replay_fixed_window_v2, for one event of the page.
ReplayEvent(s) ==
    /\ worker[s].pc = "page" /\ worker[s].events # <<>> /\ ~rx[s].term
    /\ LET n == Head(worker[s].events)
       IN  IF n = worker[s].seq + 1
           THEN Enqueue(s, n) /\ worker' = [worker EXCEPT ![s].seq = n, ![s].events = Tail(@)]
           ELSE worker' = [worker EXCEPT ![s].pc = "fail", ![s].error = "invalid"] /\ UNCHANGED out
    /\ UNCHANGED <<daemon, client, rx, app>>

\* lifecycle_at: Closed is the last event of the feed.
LifecycleAt(through) == IF closedAt # 0 /\ through = closedAt THEN "closed" ELSE "open"

\* remove_session_event_hub_v2_if_same, and the end of the worker.
Leave(s) ==
    /\ registered' = IF registered = rx[s].hub THEN NoHub ELSE registered
    /\ worker' = [worker EXCEPT ![s].pc = "done"]

\* replay_fixed_window_v2, at the end of the page.
PageDone(s) ==
    /\ worker[s].pc = "page" /\ worker[s].events = <<>> /\ ~rx[s].term
    /\ \/ /\ worker[s].more
          /\ worker' = [worker EXCEPT ![s].pc = "ask"] /\ UNCHANGED registered
       \/ /\ ~worker[s].more /\ LifecycleAt(worker[s].through) = "closed"
          /\ Leave(s)
       \/ /\ ~worker[s].more /\ LifecycleAt(worker[s].through) = "open"
          /\ worker' = [worker EXCEPT ![s].pc = "live", ![s].through = NoThrough] /\ UNCHANGED registered
    /\ UNCHANGED <<daemon, answered, lost, rx, out, app>>

CatchUp(s) == worker' = [worker EXCEPT ![s].pc = "ask", ![s].through = NoThrough]

\* The nudge comes before the events.
Nudged(s) ==
    /\ worker[s].pc = "live" /\ ~rx[s].term /\ rx[s].nudged
    /\ rx' = [rx EXCEPT ![s].nudged = FALSE]
    /\ CatchUp(s)
    /\ UNCHANGED <<daemon, client, out, app>>

\* The live loop of run_subscription_worker_v2.
LiveEvent(s) ==
    /\ worker[s].pc = "live" /\ ~rx[s].term /\ ~rx[s].nudged /\ ~rx[s].lagged /\ rx[s].ring # <<>>
    /\ rx' = [rx EXCEPT ![s].ring = Tail(@)]
    /\ LET n == Head(rx[s].ring)
       IN  \/ /\ n <= worker[s].seq
              /\ UNCHANGED <<out, worker, registered>>
           \/ /\ n = worker[s].seq + 1
              /\ Enqueue(s, n)
              /\ IF n = closedAt THEN registered' = (IF registered = rx[s].hub THEN NoHub ELSE registered)
                                 ELSE UNCHANGED registered
              /\ worker' = [worker EXCEPT ![s].seq = n, ![s].pc = IF n = closedAt THEN "done" ELSE "live"]
           \/ /\ n > worker[s].seq + 1
              /\ CatchUp(s) /\ UNCHANGED <<out, registered>>
    /\ UNCHANGED <<daemon, answered, lost, app>>

LiveLagged(s) ==
    /\ worker[s].pc = "live" /\ ~rx[s].term /\ ~rx[s].nudged /\ rx[s].lagged
    /\ rx' = [rx EXCEPT ![s].lagged = FALSE]
    /\ CatchUp(s)
    /\ UNCHANGED <<daemon, client, out, app>>

\* send_worker_error_v2.
WorkerFails(s) ==
    /\ worker[s].pc = "fail" /\ ~rx[s].term
    /\ Enqueue(s, ErrorItem)
    /\ worker' = [worker EXCEPT ![s].pc = "done"]
    /\ UNCHANGED <<daemon, client, rx, app>>

\* The termination ends the worker at its next await; a request that is under
\* way is answered with the loss of the connection.
WorkerStops(s) ==
    /\ rx[s].term /\ worker[s].pc \in {"snapshot", "ask", "page", "live", "fail"}
    /\ worker' = [worker EXCEPT ![s].pc = "done"]
    /\ app' = [app EXCEPT ![s].state = IF @ = "asked" THEN "refused" ELSE @]
    /\ UNCHANGED <<daemon, client, rx, out>>

\* SessionEventStreamV2::recv: the termination first, then the channel, and
\* None when the worker is gone and the channel empty.
Recv(s) ==
    /\ app[s].state = "live"
    /\ \/ /\ rx[s].term
          /\ app' = [app EXCEPT ![s].state = "lost"] /\ UNCHANGED out
       \/ /\ ~rx[s].term /\ out[s] # <<>>
          /\ app' = [app EXCEPT ![s] = IF Head(out[s]) = ErrorItem THEN [@ EXCEPT !.state = worker[s].error]
                                       ELSE [@ EXCEPT !.seq = Head(out[s])]]
          /\ out' = [out EXCEPT ![s] = Tail(@)]
       \/ /\ ~rx[s].term /\ out[s] = <<>> /\ worker[s].pc = "done"
          /\ app' = [app EXCEPT ![s].state = "ended"] /\ UNCHANGED out
    /\ UNCHANGED <<daemon, client, worker, rx>>

\* A stream is dropped: its worker is aborted, and the last one drops the hub
\* and takes it out of the map.
DropStream(s) ==
    /\ app[s].state \notin {"none", "asked", "dropped"}
    /\ app' = [app EXCEPT ![s].state = "dropped"]
    /\ worker' = [worker EXCEPT ![s] = [Asleep EXCEPT !.pc = "done"]]
    /\ rx' = [rx EXCEPT ![s] = NoReceiver] /\ out' = [out EXCEPT ![s] = <<>>]
    /\ registered' = IF Holders(rx[s].hub) = {s} /\ registered = rx[s].hub THEN NoHub ELSE registered
    /\ UNCHANGED <<daemon, answered, lost>>

-----------------------------------------------------------------------------
Work(s) ==
    \/ GetSnapshot(s) \/ AskPage(s) \/ ReplayEvent(s) \/ PageDone(s) \/ Nudged(s) \/ LiveEvent(s) \/ LiveLagged(s)
    \/ WorkerFails(s) \/ WorkerStops(s)

Next ==
    \/ \E kind \in {"meta", "run", "finish"} : CommitEvent(kind)
    \/ RetireRun \/ CommitClosed \/ Prune \/ AnswerClose \/ Disconnect
    \/ \E n \in 1..feed.cursor : Notify(n)
    \/ \E s \in Subs : Watch(s) \/ SubscribeFrom(s) \/ Work(s) \/ Recv(s) \/ DropStream(s)

Spec == Init /\ [][Next]_vars

-----------------------------------------------------------------------------
\* Types of the variables.
TypeOK ==
    /\ sent \in 0..feed.cursor /\ registered \in 0..Cardinality(Subs)
    /\ \A s \in Subs :
          /\ worker[s].pc \in {"none", "snapshot", "ask", "page", "live", "fail", "done"}
          /\ Len(rx[s].ring) <= HubCap /\ Len(out[s]) <= OutCap
          /\ app[s].state \in {"none", "asked", "refused", "live", "ended", "lost", "gap", "invalid", "unavailable", "dropped"}

\* Each stream delivers every event after the cursor it started from, once and
\* in order, and a page of the daemon is never taken for inconsistent
\* (run_subscription_worker_v2, replay_fixed_window_v2).
StreamInOrder ==
    \A s \in Subs : LET events == SelectSeq(out[s], LAMBDA n : n # ErrorItem)
                    IN  /\ worker[s].error # "invalid"
                        /\ app[s].state = "live" =>
                              /\ worker[s].seq = app[s].seq + Len(events)
                              /\ \A i \in DOMAIN events : events[i] = app[s].seq + i

\* A stream that ends without an error has delivered Closed
\* (docs/SESSION_VIEW_API.md:278).
EndsWithClosed == \A s \in Subs : app[s].state = "ended" => closedAt # 0 /\ app[s].seq = closedAt

\* A stream that waits on a hub that is not in the map any more: another stream
\* of the session, having read Closed, has removed it
\* (remove_session_event_hub_v2_if_same), and neither events, nor the nudge, nor
\* the termination reach it again.
Deaf(s) ==
    /\ worker[s].pc = "live" /\ rx[s].hub # registered
    /\ ~rx[s].term /\ ~rx[s].nudged /\ ~rx[s].lagged /\ rx[s].ring = <<>>

\* The session is closed or the connection lost and a stream goes on that can
\* still hear of it: it has yet to deliver Closed and end, or to end with an error
\* (docs/SESSION_VIEW_API.md:278, :243).
StreamOpen == (answered \/ lost) /\ \E s \in Subs : app[s].state = "live" /\ ~Deaf(s)
=============================================================================
