-------------------------- MODULE SessionProjection --------------------------
(***************************************************************************)
(* What a session view shows: the reducer that daemon and client share     *)
(* (SessionSnapshot::apply in whale-protocol/src/session_views.rs), fed by *)
(* the three tasks that commit to it.  The run loop takes the engine's     *)
(* events, changes the run's snapshot under its lock, releases the lock    *)
(* and commits the event.  A responder removes an approval under the lock, *)
(* clones the snapshot and commits the clone.  A cancel commits while it   *)
(* holds the lock.                                                         *)
(*                                                                         *)
(* Abstractions.  The engine emits the items of one model step, then asks  *)
(* for approvals in parallel, then emits the results.  A draft is its item *)
(* id.  The delivery to a client is SessionViews'; here a client applies   *)
(* each event as it is committed, which is the state it has at the same    *)
(* cursor.                                                                 *)
(***************************************************************************)
EXTENDS Integers, Sequences, FiniteSets, SequencesExt

CONSTANTS ModelItems,   \* items of the model step, in the order it emits them
          Results,      \* results of the tools, in order
          Approvals,    \* approvals the tools ask for
          WindowCap,    \* history capacity of the daemon's view
          ClientCap,    \* history_limit of the client's snapshot
          ChanCap       \* capacity of the engine's event channel

SessionProjectionAssumption ==
    /\ ToSet(ModelItems) \cap ToSet(Results) = {}
    /\ ClientCap \in 1..WindowCap /\ ChanCap \in Nat \ {0}

VARIABLES
    engine,     \* the phase of the engine
    hist,       \* the session's own history of the run
    chan,       \* the engine's event channel
    asked,      \* approvals the engine asked for
    answered,   \* approvals whose answer was released to the tool
    unsent,     \* results of a failed turn still to be sent
    rec,        \* RunRecord.snapshot, and whether the run settled
    pend,       \* what the run loop is committing
    clone,      \* what each responder is committing
    view,       \* the daemon's SessionSnapshot
    replica,    \* a client's copy, or NoReplica
    lost,       \* an event of the run loop was refused by the view
    reverted    \* history: what an outdated clone took back from the view

core == <<engine, hist, chan, asked, answered, unsent>>
vars == <<core, rec, pend, clone, view, replica, lost, reverted>>

None == [kind |-> "none"]
NoReplica == [kind |-> "none"]

TurnStarted == [kind |-> "turn_started"]
ItemStarted(i) == [kind |-> "started", item |-> i]
Delta(i) == [kind |-> "delta", item |-> i]
ItemCompleted(i) == [kind |-> "completed", item |-> i]
ApprovalRequested(a) == [kind |-> "approval", approval |-> a]
Finished(snapshot) == [kind |-> "finished", run |-> snapshot]
RunChanged(snapshot, drafts) == [kind |-> "changed", run |-> snapshot, drafts |-> drafts]

Run(status, items, approvals) == [status |-> status, items |-> items, approvals |-> approvals]
Started == Run("running", <<>>, {})

Terminal == {"completed", "failed", "cancelled"}

-----------------------------------------------------------------------------
(* The reducer. *)

\* A window is its capacity, its items and the count of all items.
Window(cap, items, total) == [cap |-> cap, items |-> items, total |-> total]

Keep(items, cap) == IF Len(items) > cap THEN SubSeq(items, Len(items) - cap + 1, Len(items)) ELSE items

Snapshot(active, run, drafts, history, last) ==
    [active |-> active, run |-> run, drafts |-> drafts, history |-> history, last |-> last]

\* The window's validate: as many items as it can hold, each once.
ValidWindow(w) ==
    /\ Len(w.items) = (IF w.total < w.cap THEN w.total ELSE w.cap)
    /\ IsInjective(w.items)

\* append_unless_known.
AppendUnlessKnown(w, item, known) ==
    IF known \/ item \in ToSet(w.items) THEN w
    ELSE Window(w.cap, Keep(Append(w.items, item), w.cap), w.total + 1)

\* The loop over the items of a Finished event.
AppendNew(w, items, known) ==
    FoldLeft(LAMBDA acc, i : AppendUnlessKnown(acc, i, i \in known), w, items)

\* apply_payload and apply_stream_event refuse an event without its active
\* run, a delta without its draft and a Finished that is not terminal.
Accepts(v, e) ==
    CASE e.kind = "changed" -> TRUE
      [] e.kind = "delta" -> v.active /\ e.item \in v.drafts
      [] e.kind = "finished" -> v.active /\ e.run.status \in Terminal
      [] OTHER -> v.active

\* apply_stream_event.
ApplyStream(v, e) ==
    CASE e.kind = "turn_started" -> [v EXCEPT !.run.status = "running"]
      [] e.kind = "started" -> IF e.item \in ToSet(v.history.items) THEN v ELSE [v EXCEPT !.drafts = @ \cup {e.item}]
      [] e.kind = "delta" -> v
      [] e.kind = "completed" ->
            [v EXCEPT !.drafts = @ \ {e.item},
                      !.run.items = IF e.item \in ToSet(@) THEN @ ELSE Append(@, e.item),
                      !.history = AppendUnlessKnown(@, e.item, e.item \in ToSet(v.run.items))]
      [] e.kind = "approval" -> [v EXCEPT !.run.status = "waiting", !.run.approvals = @ \cup {e.approval}]

\* apply_payload.
ApplyPayload(v, e) ==
    CASE e.kind = "changed" -> Snapshot(TRUE, e.run, e.drafts, v.history, v.last)
      [] e.kind = "finished" ->
            Snapshot(FALSE, Started, {}, AppendNew(v.history, e.run.items, ToSet(v.run.items)), e.run.status)
      [] OTHER -> ApplyStream(v, e)

\* apply: the event is refused, and nothing changes, if it does not fit or
\* leaves an invalid snapshot.
Applies(v, e) == Accepts(v, e) /\ ValidWindow(ApplyPayload(v, e).history)

Apply(v, e) == IF Applies(v, e) THEN ApplyPayload(v, e) ELSE v

\* snapshot_with_history_limit.
WithHistoryLimit(v, limit) ==
    [v EXCEPT !.history = Window(limit, Keep(v.history.items, limit), v.history.total)]

-----------------------------------------------------------------------------
\* A run is accepted: prepare_begin_run has committed its first RunChanged.
Init == /\ engine = "start" /\ hist = <<>> /\ chan = <<>> /\ asked = {} /\ answered = {} /\ unsent = <<>>
        /\ rec = Started /\ pend = None /\ clone = [a \in Approvals |-> None]
        /\ view = Snapshot(TRUE, Started, {}, Window(WindowCap, <<>>, 0), "none")
        /\ replica = NoReplica /\ lost = FALSE /\ reverted = {}

\* What is committed is committed to the view and delivered to the client.
Committed(e) ==
    /\ view' = Apply(view, e)
    /\ replica' = IF replica = NoReplica \/ ~Applies(view, e) THEN replica ELSE Apply(replica, e)

-----------------------------------------------------------------------------
(* The engine. *)

Emit(e) == Len(chan) < ChanCap /\ chan' = Append(chan, e)

Store(i) == hist' = Append(hist, i)

Cancelled == rec.status \in {"cancelling"} \cup Terminal

EmitTurnStarted ==
    /\ engine = "start" /\ ~Cancelled
    /\ Emit(TurnStarted)
    /\ engine' = "model"
    /\ UNCHANGED <<hist, asked, answered, unsent, rec, pend, clone, view, replica, lost, reverted>>

NextItem == ModelItems[Len(hist) + 1]

\* The item is started, grows and is completed; it is in the history of the
\* session before its event is sent.
EmitDraft ==
    /\ engine = "model" /\ ~Cancelled /\ Len(hist) < Len(ModelItems)
    /\ Emit(ItemStarted(NextItem))
    /\ engine' = "delta"
    /\ UNCHANGED <<hist, asked, answered, unsent, rec, pend, clone, view, replica, lost, reverted>>

EmitDelta ==
    /\ engine = "delta" /\ ~Cancelled
    /\ Emit(Delta(NextItem))
    /\ engine' = "item"
    /\ UNCHANGED <<hist, asked, answered, unsent, rec, pend, clone, view, replica, lost, reverted>>

EmitItem ==
    /\ engine = "item" /\ ~Cancelled
    /\ Store(NextItem) /\ Emit(ItemCompleted(NextItem))
    /\ engine' = IF Len(hist) + 1 < Len(ModelItems) THEN "model" ELSE "tools"
    /\ UNCHANGED <<asked, answered, unsent, rec, pend, clone, view, replica, lost, reverted>>

\* The tools run in parallel and ask one by one.
EmitApproval(a) ==
    /\ engine = "tools" /\ ~Cancelled /\ a \notin asked
    /\ Emit(ApprovalRequested(a))
    /\ asked' = asked \cup {a}
    /\ UNCHANGED <<engine, hist, answered, unsent, rec, pend, clone, view, replica, lost, reverted>>

Open == SubSeq(Results, Len(hist) - Len(ModelItems) + 1, Len(Results))

\* The results, one by one, when every tool is done.
EmitResult ==
    /\ engine = "tools" /\ ~Cancelled /\ Open # <<>> /\ answered = Approvals
    /\ Store(Head(Open)) /\ Emit(ItemCompleted(Head(Open)))
    /\ UNCHANGED <<engine, asked, answered, unsent, rec, pend, clone, view, replica, lost, reverted>>

\* A turn that fails answers its open calls (close_unanswered_tool_calls) and
\* sends them as there is room.
ToolsFail ==
    /\ engine = "tools" /\ ~Cancelled
    /\ hist' = hist \o Open /\ unsent' = Open
    /\ engine' = "closing"
    /\ UNCHANGED <<chan, asked, answered, rec, pend, clone, view, replica, lost, reverted>>

EmitClosing ==
    /\ engine = "closing" /\ ~Cancelled /\ unsent # <<>>
    /\ Emit(ItemCompleted(Head(unsent)))
    /\ unsent' = Tail(unsent)
    /\ UNCHANGED <<engine, hist, asked, answered, rec, pend, clone, view, replica, lost, reverted>>

\* A cancelled turn answers them too, and sends what there is room for
\* (send_final_event), or nothing when it is dropped (TurnHistoryGuard).
CloseCancelled ==
    /\ engine \in {"tools", "closing"} /\ Cancelled
    /\ LET open == IF engine = "tools" THEN Open ELSE unsent
           room == ChanCap - Len(chan)
       IN  /\ hist' = IF engine = "tools" THEN hist \o open ELSE hist
           /\ \E n \in {0, IF Len(open) < room THEN Len(open) ELSE room} :
                 chan' = chan \o [k \in 1..n |-> ItemCompleted(open[k])]
    /\ engine' = "ended" /\ unsent' = <<>>
    /\ UNCHANGED <<asked, answered, rec, pend, clone, view, replica, lost, reverted>>

EngineEnds ==
    /\ \/ engine = "tools" /\ Open = <<>>
       \/ engine = "closing" /\ unsent = <<>>
       \/ engine \notin {"tools", "closing", "ended"} /\ Cancelled
    /\ engine' = "ended"
    /\ UNCHANGED <<hist, chan, asked, answered, unsent, rec, pend, clone, view, replica, lost, reverted>>

-----------------------------------------------------------------------------
(* The run loop. *)

\* publish_stream, under the snapshot's lock.
Take ==
    /\ pend = None /\ chan # <<>> /\ rec.status \notin Terminal
    /\ LET e == Head(chan)
       IN  /\ rec' = CASE e.kind = "completed" -> [rec EXCEPT !.items = Append(@, e.item)]
                       [] e.kind = "approval" /\ rec.status # "cancelling" ->
                             [rec EXCEPT !.status = "waiting", !.approvals = @ \cup {e.approval}]
                       [] OTHER -> rec
           /\ pend' = IF e.kind = "approval" /\ rec.status = "cancelling" THEN None ELSE e
    /\ chan' = Tail(chan)
    /\ UNCHANGED <<engine, hist, asked, answered, unsent, clone, view, replica, lost, reverted>>

\* The end of execute_run: the terminal snapshot.
Settle ==
    /\ pend = None /\ chan = <<>> /\ engine = "ended" /\ rec.status \notin Terminal
    /\ rec' \in {Run(status, hist, {}) : status \in IF rec.status = "cancelling" THEN {"cancelled"} ELSE {"completed", "failed"}}
    /\ pend' = Finished(rec')
    /\ UNCHANGED <<core, clone, view, replica, lost, reverted>>

\* commit_session_event of the run loop; a refusal is a warning.
CommitEvent ==
    /\ pend # None
    /\ Committed(pend)
    /\ lost' = (lost \/ ~Applies(view, pend))
    /\ pend' = None
    /\ UNCHANGED <<core, rec, clone, reverted>>

-----------------------------------------------------------------------------
(* The responders and the cancel. *)

\* finish_response_commit under the lock: the approval goes, and the snapshot
\* is cloned; one that is not listed yet needs no commit.
Respond(a) ==
    /\ a \in asked \ answered /\ clone[a] = None
    /\ IF a \in rec.approvals
       THEN LET left == rec.approvals \ {a}
            IN  /\ rec' = [rec EXCEPT !.approvals = left,
                                      !.status = IF left = {} /\ @ = "waiting" THEN "running" ELSE @]
                /\ clone' = [clone EXCEPT ![a] = [kind |-> "clone", run |-> rec']]
                /\ UNCHANGED answered
       ELSE answered' = answered \cup {a} /\ UNCHANGED <<rec, clone>>
    /\ UNCHANGED <<engine, hist, chan, asked, unsent, pend, view, replica, lost, reverted>>

\* Mutant: the view's drafts do not survive a changed run.
ChangedFresh(v, run) == RunChanged(run, {})

\* prepare_run_changed: the run with the drafts the view has.
Changed(v, run) == RunChanged(run, v.drafts)

\* What the view shows, and the run still has, that a clone does not know of.
Reverts(snapshot) ==
    {what \in {"approvals", "items"} :
        CASE what = "approvals" -> ~(view.run.approvals \cap rec.approvals \subseteq snapshot.approvals)
          [] what = "items" -> Len(view.run.items) > Len(snapshot.items)}

\* commit_session_event of the clone, refused when the run is over; either way
\* the tool goes on.  The lock is free by then, so the clone may be outdated.
CommitClone(a) ==
    /\ clone[a] # None
    /\ IF view.active
       THEN Committed(Changed(view, clone[a].run)) /\ reverted' = reverted \cup Reverts(clone[a].run)
       ELSE UNCHANGED <<view, replica, reverted>>
    /\ clone' = [clone EXCEPT ![a] = None]
    /\ answered' = answered \cup {a}
    /\ UNCHANGED <<engine, hist, chan, asked, unsent, rec, pend, lost>>

\* turn.cancel: the lock is held until the change is committed.
Cancel ==
    /\ rec.status \in {"running", "waiting"}
    /\ rec' = [rec EXCEPT !.status = "cancelling"]
    /\ Committed(Changed(view, rec'))
    /\ UNCHANGED <<core, pend, clone, lost, reverted>>

\* get_session: a client takes a snapshot with its own history limit.
GetSnapshot ==
    /\ replica = NoReplica
    /\ replica' = WithHistoryLimit(view, ClientCap)
    /\ UNCHANGED <<core, rec, pend, clone, view, lost, reverted>>

-----------------------------------------------------------------------------
Next ==
    \/ EmitTurnStarted \/ EmitDraft \/ EmitDelta \/ EmitItem \/ EmitResult \/ ToolsFail \/ EmitClosing
    \/ CloseCancelled \/ EngineEnds
    \/ \E a \in Approvals : EmitApproval(a) \/ Respond(a) \/ CommitClone(a)
    \/ Take \/ Settle \/ CommitEvent \/ Cancel \/ GetSnapshot

Spec == Init /\ [][Next]_vars

-----------------------------------------------------------------------------
\* Types of the variables.
TypeOK ==
    /\ engine \in {"start", "model", "delta", "item", "tools", "closing", "ended"}
    /\ ToSet(hist) \subseteq ToSet(ModelItems) \cup ToSet(Results) /\ Len(chan) <= ChanCap
    /\ answered \subseteq asked /\ asked \subseteq Approvals /\ lost \in BOOLEAN
    /\ rec.status \in {"running", "waiting", "cancelling"} \cup Terminal
    /\ view.history.cap = WindowCap /\ Len(view.history.items) <= WindowCap

\* No event of a run is lost to its view: whatever a responder or a cancel
\* commits in between, the view accepts what the run loop commits
\* (publish_stream only warns: "Failed to commit streamed Session projection").
EventsApply == ~lost

Quiet == pend = None /\ \A a \in Approvals : clone[a] = None

\* When nothing is being committed, an approval that the run waits for is
\* listed by its view: active_run is the current snapshot of the run
\* (docs/SESSION_VIEW_API.md:59), unless the outdated clone of another answer
\* has taken it off the view (interactions.rs:1359).
PendingIsShown ==
    Quiet /\ view.active /\ "approvals" \notin reverted => rec.approvals \subseteq view.run.approvals

\* A client that applies the events to the snapshot it took has what the
\* daemon would give it at the same cursor (docs/SESSION_VIEW_API.md:51), unless
\* such a clone has taken an item off the run that only the larger of the two
\* windows still shows.
ReplicaAgrees ==
    replica # NoReplica /\ "items" \notin reverted => replica = WithHistoryLimit(view, ClientCap)
=============================================================================
