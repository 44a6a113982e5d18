---------------------------- MODULE SessionViews ----------------------------
(***************************************************************************)
(* The V1 view of one session, from the daemon's record to a subscriber's  *)
(* recv (session_views.rs of whale-daemon and of whale-sdk-rust).          *)
(*                                                                         *)
(* In the daemon, the events of the session's runs are committed to the    *)
(* record's feed one at a time; a run publishes what it committed later,   *)
(* in its own order, to the record's notifier, a broadcast ring whose      *)
(* overflow drops the oldest.  The notifier writes one frame at a time and *)
(* repeats it when the write times out, so the client may see it twice.    *)
(* In the client, a hub hands each frame to the live receiver of the       *)
(* subscription, a ring too.  The worker of the subscription replays fixed *)
(* windows by request and follows the live receiver in between; what it    *)
(* enqueues, the application receives.                                     *)
(*                                                                         *)
(* Abstractions.  The payload of an event is its run and its size.  The    *)
(* wire is in order, so a frame that was written is in the hub; a request  *)
(* and the computation of its answer are one step, and the answer is used  *)
(* in later ones.  One subscription is kept: subscriptions share nothing   *)
(* but the hub that feeds them.                                            *)
(***************************************************************************)
EXTENDS EventFeed

CONSTANTS Runs,         \* turn ids
          Sizes,        \* sizes of events
          RingCap,      \* DEFAULT_NOTIFICATION_QUEUE
          HubCap,       \* SESSION_EVENT_HUB_CAPACITY
          OutCap,       \* SubscriptionOptions.buffer_capacity
          PageLimit,    \* SubscriptionOptions.replay_page_size
          SeqBound,     \* bound: events of an attachment
          Streams,      \* bound: the attachments, in order 1, 2, ...
          DupBound      \* bound: frames written twice

SessionViewsAssumption ==
    /\ Sizes \subseteq Nat \ {0} /\ Streams \in Nat \ {0} /\ SeqBound \in Nat /\ DupBound \in Nat
    /\ RingCap \in Nat \ {0} /\ HubCap \in Nat \ {0} /\ OutCap \in Nat \ {0} /\ PageLimit \in Nat \ {0}

NoRun == "none"

VARIABLES
    feed,       \* the record's cursor, journal and floor
    present,    \* the record is in the registry
    active,     \* snapshot.active_run
    ids,        \* run_identities
    held,       \* what each run committed and did not publish yet
    ring,       \* the notifier's ring, its frame in flight included
    dups,       \* frames written twice so far
    hub,        \* the live receiver of the subscription
    lagged,     \* it overflowed
    worker,     \* run_subscription_worker
    out,        \* the channel from the worker to the application
    app,        \* the application: the cursor it has, and how its stream stands
    term        \* termination of the hub

daemon == <<feed, present, active, ids>>
wire == <<ring, dups, hub, lagged>>
client == <<worker, out, app, term>>
vars == <<daemon, held, wire, client>>

\* Outside the journal, an event is its cursor.
Cursor(stream, seq) == [stream |-> stream, seq |-> seq]
CursorOf(e) == Cursor(e.stream, e.seq)

\* "ask" precedes each request, "page" has its answer in hand.
Idle == [pc |-> "idle", stream |-> 0, seq |-> 0, through |-> NoThrough, events |-> <<>>, more |-> FALSE, error |-> "none"]

NoApp == [state |-> "none", stream |-> 0, seq |-> 0]

Init == /\ feed = NewFeed(1) /\ present = TRUE /\ active = NoRun /\ ids = {}
        /\ held = [r \in Runs |-> <<>>]
        /\ ring = <<>> /\ dups = 0 /\ hub = <<>> /\ lagged = FALSE
        /\ worker = Idle /\ out = <<>> /\ app = NoApp /\ term = "none"

-----------------------------------------------------------------------------
(* The daemon's record.  Every change of it runs under the session's       *)
(* publication lane, so that preparing and installing it are one step.     *)

\* prepare and install of one event of a run; commit_session_event keeps it
\* until its publication.
Commit(r, bytes) ==
    /\ present /\ feed.cursor < SeqBound
    /\ feed' = Retain(feed, r, bytes)
    /\ held' = [held EXCEPT ![r] = Append(@, Cursor(feed.stream, feed.cursor + 1))]
    /\ UNCHANGED <<present, wire, client>>

\* prepare_begin_run: a run is started when the session has none; its record
\* (the identity) is new.
BeginRun(r, bytes) ==
    /\ active = NoRun /\ r \notin ids
    /\ Commit(r, bytes)
    /\ active' = r /\ ids' = ids \cup {r}

\* prepare_run_event and prepare_run_changed while the run is active.
RunEvent(r, bytes) ==
    /\ active = r
    /\ Commit(r, bytes)
    /\ UNCHANGED <<active, ids>>

\* The Finished event clears the active run.
FinishRun(r, bytes) ==
    /\ active = r
    /\ Commit(r, bytes)
    /\ active' = NoRun /\ UNCHANGED ids

\* prepare_retire_run and install: not the active run, and only once.
RetireRun(r) ==
    /\ present /\ r \in ids /\ active # r
    /\ feed' = ScrubRun(feed, r)
    /\ ids' = ids \ {r}
    /\ UNCHANGED <<present, active, held, wire, client>>

Overflow(queue, cap) == IF Len(queue) > cap THEN Tail(queue) ELSE queue

\* publish_committed: the notifier's ring, if the record is still the same
\* attachment.
Publish(r) ==
    /\ held[r] # <<>>
    /\ ring' = IF present /\ Head(held[r]).stream = feed.stream
               THEN Overflow(Append(ring, Head(held[r])), RingCap) ELSE ring
    /\ held' = [held EXCEPT ![r] = Tail(@)]
    /\ UNCHANGED <<daemon, dups, hub, lagged, client>>

\* remove: the notifier is stopped; a frame it was writing may still arrive.
Remove ==
    /\ present
    /\ present' = FALSE
    /\ ring' \in {<<>>, SubSeq(ring, 1, Smaller(1, Len(ring)))}
    /\ UNCHANGED <<feed, active, ids, held, dups, hub, lagged, client>>

\* route_session_event: the hub has a receiver while a subscription lives.
Subscribed == worker.pc \notin {"idle", "done"} /\ term = "none"

\* insert: a new attachment of the session has a new stream.  The client
\* attaches again only after its last attachment is released.
Insert ==
    /\ ~present /\ feed.stream < Streams /\ ~Subscribed
    /\ feed' = NewFeed(feed.stream + 1)
    /\ present' = TRUE /\ active' = NoRun /\ ids' = {}
    /\ UNCHANGED <<held, wire, client>>

-----------------------------------------------------------------------------
(* The notifier and the client's hub. *)

\* spawn_notifier writes the frame; a write that timed out is repeated.
Notify(again) ==
    /\ ring # <<>>
    /\ again => dups < DupBound
    /\ dups' = IF again THEN dups + 1 ELSE dups
    /\ ring' = IF again THEN ring ELSE Tail(ring)
    /\ hub' = IF Subscribed THEN Overflow(Append(hub, Head(ring)), HubCap) ELSE hub
    /\ lagged' = (lagged \/ (Subscribed /\ Len(hub) = HubCap))
    /\ UNCHANGED <<daemon, held, client>>

\* release_session closes the hub after the answer to session.close, which
\* follows every frame; fail_all closes it when the connection is lost, and
\* takes the daemon's record with it.
Terminate(how) ==
    /\ term = "none"
    /\ how = "closed" => ~present /\ ring = <<>>
    /\ term' = how
    /\ present' = (present /\ how = "closed")
    /\ ring' = IF how = "lost" THEN <<>> ELSE ring
    /\ UNCHANGED <<feed, active, ids, held, dups, hub, lagged, worker, out, app>>

-----------------------------------------------------------------------------
(* The subscription. *)

\* A session that was attached again has a new hub.
CanStart == app.state \notin {"live", "asked"} /\ worker.pc \in {"idle", "done"} /\ present

\* The hub is subscribed first, so that no event falls between the snapshot
\* or the first page and the live receiver.
Start(pc, cursor) ==
    /\ CanStart
    /\ worker' = [Idle EXCEPT !.pc = pc, !.stream = cursor.stream, !.seq = cursor.seq]
    /\ out' = <<>> /\ hub' = <<>> /\ lagged' = FALSE /\ term' = "none"
    /\ app' = [state |-> "asked", stream |-> cursor.stream, seq |-> cursor.seq]
    /\ UNCHANGED <<daemon, held, ring, dups>>

\* watch_session_with_options and subscribe_session_from.
Watch == Start("snapshot", Cursor(0, 0))

SubscribeFrom == app.stream > 0 /\ Start("ask", app)

\* get_session_snapshot: the subscription starts at the snapshot's cursor.
GetSnapshot ==
    /\ worker.pc = "snapshot" /\ term = "none"
    /\ IF present
       THEN /\ worker' = [worker EXCEPT !.pc = "ask", !.stream = feed.stream, !.seq = feed.cursor]
            /\ app' = [state |-> "live", stream |-> feed.stream, seq |-> feed.cursor]
       ELSE worker' = Idle /\ app' = NoApp
    /\ UNCHANGED <<daemon, held, wire, out, term>>

\* request_replay_page: a session that is not there any more is answered with
\* invalid params, which the SDK takes for a bad cursor.  An error of the first
\* page is the answer of subscribe_session_from itself.
AskPage ==
    /\ worker.pc = "ask" /\ term = "none"
    /\ LET q == Request(worker.stream, worker.seq, worker.through, PageLimit)
           p == IF present THEN Replay(feed, q) ELSE Refused
           error == CASE p.kind = "refused" -> "invalid_cursor"
                      [] p.kind = "gap" /\ ValidFor(q, p) -> "resync"
                      [] p.kind = "page" /\ ValidFor(q, p) -> "none"
                      [] OTHER -> "invalid_projection"
       IN  /\ worker' = IF error = "none"
                     THEN [worker EXCEPT !.pc = "page", !.through = p.through,
                                              !.events = [i \in DOMAIN p.events |-> CursorOf(p.events[i])], !.more = p.more]
                     ELSE [worker EXCEPT !.pc = IF app.state = "asked" THEN "done" ELSE "fail", !.error = error]
           /\ app' = [app EXCEPT !.state = IF @ = "asked" /\ error # "none" THEN error ELSE "live"]
    /\ UNCHANGED <<daemon, held, wire, out, term>>

\* enqueue_event waits for room in the channel.
Enqueue(e) == Len(out) < OutCap /\ out' = Append(out, e)

\* replay_fixed_window, for one event of the page.
ReplayEvent ==
    /\ worker.pc = "page" /\ worker.events # <<>> /\ term = "none"
    /\ LET e == Head(worker.events)
       IN  IF IsNextCursor(worker, e)
           THEN /\ Enqueue(e)
                /\ worker' = [worker EXCEPT !.seq = e.seq, !.events = Tail(@)]
           ELSE worker' = [worker EXCEPT !.pc = "fail", !.error = "invalid_projection"] /\ UNCHANGED out
    /\ UNCHANGED <<daemon, held, wire, app, term>>

\* replay_fixed_window, at the end of the page.
PageDone ==
    /\ worker.pc = "page" /\ worker.events = <<>> /\ term = "none"
    /\ worker' = IF worker.more THEN [worker EXCEPT !.pc = "ask"]
                 ELSE [worker EXCEPT !.pc = "live", !.through = NoThrough]
    /\ UNCHANGED <<daemon, held, wire, out, app, term>>

CatchUp == worker' = [worker EXCEPT !.pc = "ask", !.through = NoThrough]

\* The live loop: an event already enqueued is ignored, the next one is
\* enqueued, and anything else is caught up with by a replay.
LiveEvent ==
    /\ worker.pc = "live" /\ term = "none" /\ ~lagged /\ hub # <<>>
    /\ LET e == Head(hub)
       IN  IF SameStream(e, worker) /\ e.seq <= worker.seq THEN UNCHANGED <<out, worker>>
           ELSE IF IsNextCursor(worker, e)
           THEN Enqueue(e) /\ worker' = [worker EXCEPT !.seq = e.seq]
           ELSE CatchUp /\ UNCHANGED out
    /\ hub' = Tail(hub)
    /\ UNCHANGED <<daemon, held, ring, dups, lagged, app, term>>

\* RecvError::Lagged: the events that were dropped are replayed.
LiveLagged ==
    /\ worker.pc = "live" /\ term = "none" /\ lagged
    /\ lagged' = FALSE
    /\ CatchUp
    /\ UNCHANGED <<daemon, held, ring, dups, hub, out, app, term>>

\* send_worker_error: the error follows the events, and the worker ends.
WorkerFails ==
    /\ worker.pc = "fail" /\ term = "none"
    /\ Enqueue(Cursor(worker.stream, 0))
    /\ worker' = [worker EXCEPT !.pc = "done"]
    /\ UNCHANGED <<daemon, held, wire, app, term>>

\* The worker returns at the next await once the hub is terminated.
WorkerStops ==
    /\ term # "none" /\ worker.pc \notin {"idle", "done"}
    /\ worker' = [worker EXCEPT !.pc = "done"]
    /\ app' = IF app.state = "asked" THEN NoApp ELSE app
    /\ UNCHANGED <<daemon, held, wire, out, term>>

\* SessionEventStream::recv: the termination comes first, then the channel.
Recv ==
    /\ app.state = "live"
    /\ \/ /\ term # "none"
          /\ app' = [app EXCEPT !.state = term]
          /\ UNCHANGED out
       \/ /\ term = "none" /\ out # <<>>
          /\ app' = IF Head(out).seq = 0 THEN [app EXCEPT !.state = worker.error]
                    ELSE [app EXCEPT !.seq = Head(out).seq]
          /\ out' = Tail(out)
    /\ UNCHANGED <<daemon, held, wire, worker, term>>

-----------------------------------------------------------------------------
Next ==
    \/ \E r \in Runs, b \in Sizes : BeginRun(r, b) \/ RunEvent(r, b) \/ FinishRun(r, b)
    \/ \E r \in Runs : RetireRun(r) \/ Publish(r)
    \/ Remove \/ Insert
    \/ \E again \in BOOLEAN : Notify(again)
    \/ \E how \in {"closed", "lost"} : Terminate(how)
    \/ Watch \/ SubscribeFrom \/ GetSnapshot \/ AskPage \/ ReplayEvent \/ PageDone
    \/ LiveEvent \/ LiveLagged \/ WorkerFails \/ WorkerStops \/ Recv

Spec == Init /\ [][Next]_vars

-----------------------------------------------------------------------------
\* Types: the queues are within their capacities and hold events of their
\* attachments.
TypeOK ==
    /\ feed.stream \in 1..Streams /\ feed.cursor \in 0..SeqBound /\ present \in BOOLEAN
    /\ active \in Runs \cup {NoRun} /\ ids \subseteq Runs
    /\ Len(ring) <= RingCap /\ Len(hub) <= HubCap /\ Len(out) <= OutCap
    /\ worker.pc \in {"idle", "snapshot", "ask", "page", "live", "fail", "done"}
    /\ app.state \in {"none", "asked", "live", "closed", "lost", "resync", "invalid_cursor", "invalid_projection"}

\* The replay floor says the truth: every event after it can be replayed, once
\* and in order (SessionViewRecord, retain_prepared and scrub_run).
JournalContiguous == Contiguous(feed)

\* A subscriber neither misses nor repeats an event: what waits in its channel
\* continues what it has received, cursor by cursor and up to what the worker
\* counts as enqueued, whatever was dropped, repeated or replayed on the way
\* (run_subscription_worker, replay_fixed_window).
SubscriberInOrder ==
    LET events == SelectSeq(out, LAMBDA e : e.seq # 0)
    IN  app.state = "live" /\ worker.pc # "snapshot" =>
            /\ worker.stream = app.stream /\ worker.seq = app.seq + Len(events)
            /\ \A i \in DOMAIN events : events[i].stream = app.stream /\ events[i].seq = app.seq + i

\* A subscription fails only for a reason: an answer of the daemon is never
\* refused as inconsistent, a resync is asked for only when events the
\* subscriber lacks are gone, and a cursor of this attachment is called
\* invalid only if the attachment is gone (replay, validate_for).
FailsForCause ==
    /\ worker.error # "invalid_projection"
    /\ worker.error = "resync" => feed.stream # worker.stream \/ worker.seq < feed.floor
    /\ worker.error = "invalid_cursor" => ~present \/ feed.stream # worker.stream

\* A retired run leaves nothing behind: no replay can return an event of a run
\* whose retention ended (prepare_retire_run).
RetiredIsScrubbed ==
    \A i \in DOMAIN feed.journal : feed.journal[i].run \in ids

\* A live subscriber lacks events of the session: what lagging receivers drop is
\* made up for by a replay, and the latest event is never dropped (the notifier,
\* the hub and run_subscription_worker), so this ends.
Behind == app.state = "live" /\ app.stream = feed.stream /\ app.seq < feed.cursor
=============================================================================
