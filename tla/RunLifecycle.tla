---------------------------- MODULE RunLifecycle ----------------------------
(***************************************************************************)
(* One run of the daemon from turn.start to the delivery of its terminal   *)
(* event (whale-daemon, server.rs): the tasks that handle turn.start and   *)
(* turn.cancel, the task that executes the run, the close of the session   *)
(* and the loss of the connection, each of which stops at every await.     *)
(*                                                                         *)
(* Two async mutexes order them.  The snapshot lock covers a cancel until  *)
(* it is published and the terminal commit until it is durable.  The       *)
(* publication lock covers one change of the session view and its          *)
(* notification.                                                           *)
(*                                                                         *)
(* Abstractions.  An event is the completion of one item, and items are    *)
(* numbered in the order the engine commits them.  Of a session view, only *)
(* the cursor, the items of the active run and the history are kept; the   *)
(* V2 view and the legacy event stream change in the same steps.           *)
(***************************************************************************)
EXTENDS Naturals, Sequences, FiniteSets

CONSTANTS First,        \* the turn.start that registered the run
          Repeats,      \* the same turn.start, sent again
          Cancellers,   \* turn.cancel requests
          Kinds,        \* the sessions checked, with or without a journal
          ItemBound     \* bound: items the engine commits

ASSUME LifecycleAssumption ==
    /\ Kinds \subseteq {"persistent", "ephemeral"} /\ ItemBound \in Nat
    /\ First \notin Repeats /\ IsFiniteSet(Repeats) /\ IsFiniteSet(Cancellers)
    /\ Cancellers \cap {"executor", "nobody"} = {}

Terminal == {"completed", "failed", "cancelled"}
Starters == {First} \cup Repeats
Executor == "executor"
Nobody   == "nobody"
Publishers == Cancellers \cup {Executor}

VARIABLES
    \* RunRecord
    status, items, seq,          \* the run's snapshot
    snapLock, pubLock,           \* who holds the snapshot and publication locks
    live, pending,               \* RunPublication: acknowledged, and held back until then
    cancel,                      \* the cancel channel
    acceptance, preparation,     \* what the two watch channels hold
    delivery,                    \* terminal_delivery
    \* the session
    view,                        \* its V1 view
    committed,                   \* cursor each publisher has committed and not yet published
    notified,                    \* cursors sent to the view's subscribers
    durable,                     \* status of the run in the journal, or "absent" without one
    history,                     \* items of this run in the session's history
    \* the tasks
    exec,                        \* execute_run
    queue, engine,               \* the engine and its event channel
    starter, canceller, answer,  \* the requests, and what a cancel was told
    closer, hangup,              \* session.close and disconnect_connection
    late,                        \* the deadline has passed
    wire                         \* frames the client received

snapshot == <<status, items, seq>>
gates    == <<cancel, acceptance, preparation>>
projection == <<view, committed, pubLock>>
outbox   == <<live, pending, notified>>
session  == <<delivery, durable, history>>
turn     == <<exec, queue, engine>>
requests == <<starter, canceller, answer>>
vars == <<snapshot, snapLock, gates, projection, outbox, session, turn, requests,
          closer, hangup, late, wire>>

Persistent == durable # "absent"

Init == /\ status = "running" /\ items = <<>> /\ seq = 0
        /\ snapLock = Nobody /\ pubLock = Nobody
        /\ live = FALSE /\ pending = <<>>
        /\ cancel = FALSE /\ acceptance = "open"
        /\ delivery = "open"
        /\ view = [cursor |-> 0, active |-> FALSE, items |-> {}, history |-> <<>>, last |-> "none"]
        /\ committed = [p \in Publishers |-> 0]
        /\ notified = <<>>
        /\ \E kind \in Kinds : durable = IF kind = "persistent" THEN "none" ELSE "absent"
        /\ preparation = IF Persistent THEN "open" ELSE "ok"
        /\ history = <<>>
        /\ exec = [pc |-> "begin", back |-> "none", outcome |-> "none", event |-> 0,
                   seq |-> 0, stored |-> "none"]
        /\ queue = <<>> /\ engine = "idle"
        /\ starter = [k \in Starters |-> "waiting"]
        /\ canceller = [k \in Cancellers |-> "idle"]
        /\ answer = [k \in Cancellers |-> "none"]
        /\ closer = "idle" /\ hangup = "none" /\ late = FALSE
        /\ wire = <<>>

(***************************************************************************)
(* The session view: prepare_begin_run, prepare_run_changed and            *)
(* prepare_run_event, which apply SessionSnapshot::apply_payload.          *)
(***************************************************************************)
Known(v, i) == i \in v.items \/ \E k \in DOMAIN v.history : v.history[k] = i

ViewBegin(v)      == [v EXCEPT !.cursor = @ + 1, !.active = TRUE, !.items = {}]
ViewChanged(v, s) == [v EXCEPT !.cursor = @ + 1, !.items = {s[k] : k \in DOMAIN s}]
ViewItem(v, i)    == [v EXCEPT !.cursor = @ + 1, !.items = @ \cup {i},
                               !.history = IF Known(v, i) THEN @ ELSE Append(@, i)]
ViewFinished(v, s, st) ==
    LET new[k \in 0..Len(s)] == IF k = 0 THEN <<>>
                                ELSE IF Known(v, s[k]) THEN new[k - 1]
                                ELSE Append(new[k - 1], s[k])
    IN  [v EXCEPT !.cursor = @ + 1, !.active = FALSE, !.items = {}, !.last = st,
                  !.history = @ \o new[Len(s)]]

(***************************************************************************)
(* commit_session_event.  Commit takes the publication lock and installs   *)
(* the next view; Notify publishes what was committed, or holds it back,   *)
(* and releases the lock.  A change of a run that the view does not show   *)
(* is an error: nothing is committed, and the caller only logs it.         *)
(***************************************************************************)
\* Mutant: the publication lock is not taken.
LockFreeAlways == TRUE

LockFree == pubLock = Nobody

Commit(p, v) ==
    /\ LockFree
    /\ pubLock' = p
    /\ view' = v
    /\ committed' = [committed EXCEPT ![p] = IF v = view THEN 0 ELSE v.cursor]

Notify(p) ==
    LET c == committed[p] IN
    /\ pubLock' = Nobody
    /\ notified' = IF c # 0 /\ live THEN Append(notified, c) ELSE notified
    /\ pending' = IF c # 0 /\ ~live THEN Append(pending, c) ELSE pending
    /\ committed' = [committed EXCEPT ![p] = 0]
    /\ UNCHANGED <<view, live>>

(***************************************************************************)
(* turn.start: the end of handle_start_turn, then of handle_message.       *)
(***************************************************************************)
At(pc) == exec.pc = pc

\* A repeat waits for the preparation channel.  Without a journal that one is
\* ready from the start, but the first request itself commits the projection.
Prepared(k) ==
    IF Persistent \/ k # First THEN preparation
    ELSE CASE At("removed") -> "failed"
           [] At("begin") \/ At("announce") \/ At("announcing") -> "open"
           [] OTHER -> "ok"

\* A reply that cannot be written ends the connection.
StartReply(k) ==
    /\ starter[k] = "waiting"
    /\ \/ /\ Prepared(k) = "failed"
          /\ starter' = [starter EXCEPT ![k] = "refused"]
          /\ UNCHANGED <<wire, hangup>>
       \/ /\ Prepared(k) = "ok"
          /\ starter' = [starter EXCEPT ![k] = "replied"]
          /\ wire' = Append(wire, [kind |-> "accepted", seq |-> 0])
          /\ UNCHANGED hangup
       \/ /\ Prepared(k) = "ok"
          /\ starter' = [starter EXCEPT ![k] = "undelivered"]
          /\ hangup' = IF hangup = "none" THEN "settle" ELSE hangup
          /\ UNCHANGED wire
    /\ UNCHANGED <<snapshot, snapLock, gates, projection, outbox, session, turn,
                   canceller, answer, closer, late>>

\* sort_by_key of the cursors held back.
ByCursor(s) ==
    LET place == CHOOSE f \in [DOMAIN s -> DOMAIN s] :
                   \A j, k \in DOMAIN s : j < k => f[j] # f[k] /\ s[f[j]] =< s[f[k]]
    IN  [k \in DOMAIN s |-> s[place[k]]]

\* deliver_acceptance: try_lock must succeed, or the task panics and the drop
\* of its guard abandons the run.
StartDelivered(k) ==
    /\ starter[k] = "replied"
    /\ IF LockFree
       THEN /\ starter' = [starter EXCEPT ![k] = "done"]
            /\ IF acceptance = "open"
               THEN /\ acceptance' = "yes"
                    /\ live' = TRUE
                    /\ notified' = notified \o ByCursor(pending)
                    /\ pending' = <<>>
               ELSE UNCHANGED <<acceptance, outbox>>
            /\ UNCHANGED cancel
       ELSE /\ starter' = [starter EXCEPT ![k] = "panicked"]
            /\ acceptance' = IF acceptance = "open" THEN "no" ELSE acceptance
            /\ cancel' = (cancel \/ acceptance = "open")
            /\ UNCHANGED outbox
    /\ UNCHANGED <<snapshot, snapLock, preparation, projection, session, turn,
                   canceller, answer, closer, hangup, late, wire>>

(***************************************************************************)
(* turn.cancel: handle_run_ref.  The snapshot lock is held until the       *)
(* change is published.                                                    *)
(***************************************************************************)
Cancellable == status \notin Terminal \cup {"cancelling"}

RequestCancel == /\ status' = IF Cancellable THEN "cancelling" ELSE status
                 /\ cancel' = (cancel \/ Cancellable)

CancelRequest(k) ==
    /\ canceller[k] = "idle"
    /\ ~At("removed") /\ closer \notin {"closed", "failed"}
    /\ snapLock = Nobody
    /\ RequestCancel
    /\ IF Cancellable
       THEN /\ canceller' = [canceller EXCEPT ![k] = "publish"]
            /\ snapLock' = k
            /\ UNCHANGED answer
       ELSE /\ canceller' = [canceller EXCEPT ![k] = "done"]
            /\ answer' = [answer EXCEPT ![k] = status]
            /\ UNCHANGED snapLock
    /\ UNCHANGED <<items, seq, acceptance, preparation, projection, outbox, session, turn,
                   starter, closer, hangup, late, wire>>

CancelCommit(k) ==
    /\ canceller[k] = "publish"
    /\ Commit(k, IF view.active THEN ViewChanged(view, items) ELSE view)
    /\ canceller' = [canceller EXCEPT ![k] = "notify"]
    /\ UNCHANGED <<snapshot, snapLock, gates, outbox, session, turn, starter, answer,
                   closer, hangup, late, wire>>

CancelNotify(k) ==
    /\ canceller[k] = "notify"
    /\ Notify(k)
    /\ snapLock' = Nobody
    /\ canceller' = [canceller EXCEPT ![k] = "done"]
    /\ answer' = [answer EXCEPT ![k] = status]
    /\ UNCHANGED <<snapshot, gates, session, turn, starter, closer, hangup, late, wire>>

(***************************************************************************)
(* The engine is polled by the select of the executing task.  It commits   *)
(* items to the session's history, sends an event for each, and returns.   *)
(* A cancel or a deadline can come after their arms were polled.           *)
(***************************************************************************)
EngineItem ==
    /\ At("select") /\ engine = "running"
    /\ Len(history) < ItemBound
    /\ history' = Append(history, Len(history) + 1)
    /\ queue' = Append(queue, Len(history) + 1)
    /\ UNCHANGED <<snapshot, snapLock, gates, projection, outbox, delivery, durable, exec,
                   engine, requests, closer, hangup, late, wire>>

EngineEnd ==
    /\ At("select") /\ engine = "running"
    /\ engine' \in {"completed", "failed"}
    /\ UNCHANGED <<snapshot, snapLock, gates, projection, outbox, session, exec, queue,
                   requests, closer, hangup, late, wire>>

Deadline ==
    /\ ~late /\ late' = TRUE
    /\ UNCHANGED <<snapshot, snapLock, gates, projection, outbox, session, turn, requests,
                   closer, hangup, wire>>

(***************************************************************************)
(* The executing task                                                      *)
(***************************************************************************)
Goto(pc) == exec' = [exec EXCEPT !.pc = pc]

\* Mutant: whoever waits for the terminal delivery is not woken.
WithdrawSilently == /\ Goto("removed")
                    /\ preparation' = "failed" /\ acceptance' = "no"
                    /\ UNCHANGED delivery

\* The run is removed before anybody was told of it.
Withdraw == /\ Goto("removed")
            /\ preparation' = "failed" /\ acceptance' = "no" /\ delivery' = "ok"

\* journal.begin_run.  A failed write may have happened all the same.
ExecBegin ==
    /\ At("begin") /\ snapLock = Nobody
    /\ \/ /\ Goto("announce")
          /\ durable' = IF Persistent THEN "active" ELSE durable
          /\ UNCHANGED <<preparation, acceptance, delivery>>
       \/ /\ Persistent
          /\ durable' \in {"none", "active"}
          /\ Withdraw
    /\ UNCHANGED <<snapshot, snapLock, cancel, projection, outbox, history, queue, engine,
                   requests, closer, hangup, late, wire>>

\* The V2 view of a session that is closing refuses a new run.  Without a
\* journal the request then removes the run and leaves its channels alone.
ExecAnnounce ==
    /\ At("announce") /\ LockFree
    /\ IF closer = "idle"
       THEN /\ Commit(Executor, ViewBegin(view))
            /\ Goto("announcing")
            /\ UNCHANGED <<preparation, acceptance, delivery>>
       ELSE /\ IF Persistent THEN Withdraw
               ELSE Goto("removed") /\ UNCHANGED <<preparation, acceptance, delivery>>
            /\ UNCHANGED projection
    /\ UNCHANGED <<snapshot, snapLock, cancel, outbox, durable, history, queue, engine,
                   requests, closer, hangup, late, wire>>

ExecAnnounced ==
    /\ At("announcing")
    /\ Notify(Executor)
    /\ preparation' = "ok"
    /\ Goto("gate")
    /\ UNCHANGED <<snapshot, snapLock, cancel, acceptance, session, queue, engine, requests,
                   closer, hangup, late, wire>>

\* Nothing runs before the acknowledgement is delivered.
ExecGate ==
    /\ At("gate") /\ acceptance # "open"
    /\ IF acceptance = "yes"
       THEN Goto("select") /\ engine' = "running"
       ELSE /\ exec' = [exec EXCEPT !.pc = "drain", !.outcome = "cancelled"]
            /\ UNCHANGED engine
    /\ UNCHANGED <<snapshot, snapLock, gates, projection, outbox, session, queue, requests,
                   closer, hangup, late, wire>>

\* Leaving the loop drops the engine.
Leave(outcome) == /\ exec' = [exec EXCEPT !.pc = "drain", !.outcome = outcome]
                  /\ engine' = "dropped"
                  /\ UNCHANGED queue

TakeEvent(back) == /\ queue # <<>>
                   /\ exec' = [exec EXCEPT !.pc = "event", !.back = back, !.event = Head(queue)]
                   /\ queue' = Tail(queue)
                   /\ UNCHANGED engine

ExecSelect ==
    /\ At("select")
    /\ \/ cancel /\ Leave("cancelled")
       \/ late /\ Leave("failed")
       \/ engine # "running" /\ Leave(engine)
       \/ TakeEvent("select")
    /\ UNCHANGED <<snapshot, snapLock, gates, projection, outbox, session, requests,
                   closer, hangup, late, wire>>

ExecDrain ==
    /\ At("drain")
    /\ \/ queue = <<>> /\ Goto("settle") /\ UNCHANGED <<queue, engine>>
       \/ TakeEvent("drain")
    /\ UNCHANGED <<snapshot, snapLock, gates, projection, outbox, session, requests,
                   closer, hangup, late, wire>>

\* publish_stream gives up the snapshot lock before it takes the other.
ExecEvent ==
    /\ At("event") /\ snapLock = Nobody
    /\ items' = Append(items, exec.event)
    /\ seq' = seq + 1
    /\ exec' = [exec EXCEPT !.pc = "publish", !.seq = seq + 1]
    /\ UNCHANGED <<status, snapLock, gates, projection, outbox, session, queue, engine,
                   requests, closer, hangup, late, wire>>

ExecPublish ==
    /\ At("publish")
    /\ Commit(Executor, IF view.active THEN ViewItem(view, exec.event) ELSE view)
    /\ Goto("publishing")
    /\ UNCHANGED <<snapshot, snapLock, gates, outbox, session, queue, engine, requests,
                   closer, hangup, late, wire>>

ExecPublished ==
    /\ At("publishing")
    /\ Notify(Executor)
    /\ Goto("send")
    /\ UNCHANGED <<snapshot, snapLock, gates, session, queue, engine, requests, closer,
                   hangup, late, wire>>

\* The send is given up on a cancel, at the deadline and after five seconds.
ExecSend ==
    /\ At("send")
    /\ Goto(exec.back)
    /\ \/ ~cancel /\ ~late /\ wire' = Append(wire, [kind |-> "stream", seq |-> exec.seq])
       \/ UNCHANGED wire
    /\ UNCHANGED <<snapshot, snapLock, gates, projection, outbox, session, queue, engine,
                   requests, closer, hangup, late>>

\* Mutant: the terminal commit does not look for a cancel again.
OutcomeDecided == exec.outcome

\* The terminal commit decides again between a cancel and the outcome.
Outcome == IF acceptance = "yes" /\ (status = "cancelling" \/ cancel) THEN "cancelled"
           ELSE exec.outcome

\* With a journal, the snapshot lock is held until the run is finalized.
ExecSettle ==
    /\ At("settle") /\ snapLock = Nobody
    /\ status' = Outcome
    /\ items' = history
    /\ seq' = seq + 1
    /\ IF Persistent THEN snapLock' = Executor /\ Goto("finalize")
                     ELSE Goto("finish") /\ UNCHANGED snapLock
    /\ UNCHANGED <<gates, projection, outbox, session, queue, engine, requests, closer,
                   hangup, late, wire>>

\* journal.finalize.  A failed write may have happened all the same.
ExecFinalize ==
    /\ At("finalize")
    /\ \/ /\ durable' = status /\ UNCHANGED status
          /\ exec' = [exec EXCEPT !.pc = "finish", !.stored = "yes"]
       \/ /\ durable' \in {durable, status} /\ status' = "failed"
          /\ exec' = [exec EXCEPT !.pc = "finish", !.stored = "failed"]
    /\ snapLock' = Nobody
    /\ UNCHANGED <<items, seq, gates, projection, outbox, delivery, history, queue, engine,
                   requests, closer, hangup, late, wire>>

\* Mutant: a run that was not accepted settles nothing.
ExecFinishSilently ==
    /\ At("finish")
    /\ IF acceptance = "yes"
       THEN /\ Commit(Executor, IF view.active THEN ViewFinished(view, items, status) ELSE view)
            /\ Goto("finishing")
       ELSE Goto("ended") /\ UNCHANGED projection
    /\ UNCHANGED <<snapshot, snapLock, gates, outbox, session, queue, engine, requests,
                   closer, hangup, late, wire>>

\* A run that was not accepted publishes no terminal event.
ExecFinish ==
    /\ At("finish")
    /\ IF acceptance = "yes"
       THEN /\ Commit(Executor, IF view.active THEN ViewFinished(view, items, status) ELSE view)
            /\ Goto("finishing")
            /\ UNCHANGED delivery
       ELSE /\ delivery' = "undelivered"
            /\ Goto("ended")
            /\ UNCHANGED projection
    /\ UNCHANGED <<snapshot, snapLock, gates, outbox, durable, history, queue, engine,
                   requests, closer, hangup, late, wire>>

ExecFinished ==
    /\ At("finishing")
    /\ Notify(Executor)
    /\ Goto("deliver")
    /\ UNCHANGED <<snapshot, snapLock, gates, session, queue, engine, requests, closer,
                   hangup, late, wire>>

ExecDeliver ==
    /\ At("deliver")
    /\ Goto("ended")
    /\ \/ /\ wire' = Append(wire, [kind |-> "finished", seq |-> seq])
          /\ delivery' = "ok"
       \/ delivery' = "undelivered" /\ UNCHANGED wire
    /\ UNCHANGED <<snapshot, snapLock, gates, projection, outbox, durable, history, queue,
                   engine, requests, closer, hangup, late>>

ExecStep == \/ ExecBegin \/ ExecAnnounce \/ ExecAnnounced \/ ExecGate \/ ExecSelect \/ ExecDrain
            \/ ExecEvent \/ ExecPublish \/ ExecPublished \/ ExecSend
            \/ ExecSettle \/ ExecFinalize \/ ExecFinish \/ ExecFinished \/ ExecDeliver

(***************************************************************************)
(* session.close, and disconnect_connection, which settles an acceptance   *)
(* nobody can receive any more.                                            *)
(***************************************************************************)
Unaccept == acceptance' = IF acceptance = "open" THEN "no" ELSE acceptance

\* begin_close and begin_closing
CloseRequest ==
    /\ closer = "idle"
    /\ closer' = "closing"
    /\ UNCHANGED <<snapshot, snapLock, gates, projection, outbox, session, turn, requests,
                   hangup, late, wire>>

\* A run that is not registered any more is not waited for.
CloseCancel ==
    /\ closer = "closing"
    /\ IF At("removed")
       THEN closer' = "closed" /\ UNCHANGED <<status, cancel, acceptance>>
       ELSE /\ snapLock = Nobody
            /\ RequestCancel
            /\ IF hangup # "none" THEN Unaccept ELSE UNCHANGED acceptance
            /\ closer' = "waiting"
    /\ UNCHANGED <<items, seq, snapLock, preparation, projection, outbox, session, turn,
                   requests, hangup, late, wire>>

\* The close fails if the terminal event was not delivered, or if the view
\* still shows the run.
CloseDone ==
    /\ closer = "waiting" /\ delivery # "open"
    /\ closer' = IF delivery = "ok" /\ ~view.active THEN "closed" ELSE "failed"
    /\ UNCHANGED <<snapshot, snapLock, gates, projection, outbox, session, turn, requests,
                   hangup, late, wire>>

\* The reader sees the end of the stream.
Disconnect ==
    /\ hangup = "none"
    /\ hangup' = "settle"
    /\ UNCHANGED <<snapshot, snapLock, gates, projection, outbox, session, turn, requests,
                   closer, late, wire>>

HangupSettle ==
    /\ hangup = "settle"
    /\ Unaccept
    /\ hangup' = "cancel"
    /\ UNCHANGED <<snapshot, snapLock, cancel, preparation, projection, outbox, session, turn,
                   requests, closer, late, wire>>

HangupCancel ==
    /\ hangup = "cancel" /\ snapLock = Nobody
    /\ RequestCancel
    /\ hangup' = "close"
    /\ UNCHANGED <<items, seq, snapLock, acceptance, preparation, projection, outbox, session,
                   turn, requests, closer, late, wire>>

HangupClose ==
    /\ hangup = "close"
    /\ hangup' = "done"
    /\ closer' = IF closer = "idle" THEN "closing" ELSE closer
    /\ UNCHANGED <<snapshot, snapLock, gates, projection, outbox, session, turn, requests,
                   late, wire>>

CloseStep == CloseCancel \/ CloseDone
HangupStep == HangupSettle \/ HangupCancel \/ HangupClose

Next == \/ ExecStep \/ CloseStep \/ HangupStep
        \/ \E k \in Starters : StartReply(k) \/ StartDelivered(k)
        \/ \E k \in Cancellers : CancelRequest(k) \/ CancelCommit(k) \/ CancelNotify(k)
        \/ EngineItem \/ EngineEnd \/ Deadline
        \/ CloseRequest \/ Disconnect

\* A task that is ready is polled: the runtime is work conserving.  Nothing
\* makes a client cancel, close or disconnect, a model answer, or a deadline
\* exist.
Fairness == /\ WF_vars(ExecStep) /\ WF_vars(CloseStep) /\ WF_vars(HangupStep)
            /\ \A k \in Starters : WF_vars(StartReply(k)) /\ WF_vars(StartDelivered(k))
            /\ \A k \in Cancellers : WF_vars(CancelCommit(k)) /\ WF_vars(CancelNotify(k))

Spec == Init /\ [][Next]_vars /\ Fairness

-----------------------------------------------------------------------------
Pcs == {"begin", "announce", "announcing", "gate", "select", "drain", "event", "publish",
        "publishing", "send", "settle", "finalize", "finish", "finishing", "deliver", "ended",
        "removed"}
Frame == [kind : {"accepted", "stream", "finished"}, seq : 0..(ItemBound + 1)]

\* Types: every lock is held by a task that can hold it, the view and the
\* snapshot hold items the engine committed, and each task is at a point of
\* its own.
TypeOK ==
    /\ status \in Terminal \cup {"running", "cancelling"}
    /\ items \in Seq(1..ItemBound) /\ history \in Seq(1..ItemBound)
    /\ seq \in 0..(ItemBound + 1)
    /\ snapLock \in Publishers \cup {Nobody} /\ pubLock \in Publishers \cup {Nobody}
    /\ live \in BOOLEAN /\ cancel \in BOOLEAN /\ late \in BOOLEAN
    /\ acceptance \in {"open", "yes", "no"} /\ preparation \in {"open", "ok", "failed"}
    /\ delivery \in {"open", "ok", "undelivered"}
    /\ view.cursor \in Nat /\ view.active \in BOOLEAN /\ view.items \subseteq 1..ItemBound
    /\ view.history \in Seq(1..ItemBound) /\ view.last \in Terminal \cup {"none"}
    /\ committed \in [Publishers -> Nat]
    /\ durable \in Terminal \cup {"absent", "none", "active"}
    /\ exec.pc \in Pcs
    /\ queue \in Seq(1..ItemBound)
    /\ engine \in {"idle", "running", "completed", "failed", "dropped"}
    /\ starter \in [Starters -> {"waiting", "replied", "refused", "undelivered", "done",
                                 "panicked"}]
    /\ canceller \in [Cancellers -> {"idle", "publish", "notify", "done"}]
    /\ answer \in [Cancellers -> Terminal \cup {"none", "cancelling"}]
    /\ closer \in {"idle", "closing", "waiting", "closed", "failed"}
    /\ hangup \in {"none", "settle", "cancel", "close", "done"}
    /\ wire \in Seq(Frame)

\* A cancel that was answered with "cancelling" wins: the run ends cancelled,
\* however late the cancel came, unless its terminal write failed (the second
\* decision of execute_run; docs/RUN_API.md, "Cancellation acceptance").
CancelHonoured ==
    \A k \in Cancellers :
        answer[k] = "cancelling" /\ status \in Terminal =>
            status = "cancelled" \/ exec.stored = "failed"

\* A terminal status that a cancel was answered with is the run's status from
\* then on: the answer never shows a status that a failed terminal write then
\* replaces (execute_run finalizes under the snapshot lock).
AnswerStands ==
    \A k \in Cancellers : answer[k] \in Terminal => answer[k] = status

Sent(kind) == {i \in DOMAIN wire : wire[i].kind = kind}

\* The acknowledgement is the first frame of the run that the client sees, no
\* view notification goes out before it, and the engine commits nothing before
\* it (the acceptance gate of execute_run, pending of RunPublication).
AckFirst ==
    /\ history # <<>> \/ notified # <<>> => Sent("accepted") # {}
    /\ wire # <<>> => wire[1].kind = "accepted"

\* The sequence numbers of a run's frames increase, only the last is terminal,
\* and its number is the snapshot's last_seq (docs/RUN_API.md).
WireOrdered ==
    \A i, j \in Sent("stream") \cup Sent("finished") :
        /\ i < j => wire[i].seq < wire[j].seq /\ wire[i].kind = "stream"
        /\ wire[i].kind = "finished" => wire[i].seq = seq

\* The subscribers of the session view see every cursor, in order: tasks that
\* publish concurrently do not overtake one another, and what was held back
\* until the acknowledgement goes out before what comes after it
\* (commit_session_event and deliver_acceptance).
NotifiedInOrder == \A i \in DOMAIN notified : notified[i] = i

\* The client is told of a run only once the journal holds it, and is never
\* told that a run completed which the journal does not hold as completed
\* (execute_run: "A failed commit is never observable as durable success").
ToldIsDurable ==
    Persistent => /\ Sent("accepted") # {} => durable # "none"
                  /\ view.last = "completed" => durable = "completed"
                  /\ \A k \in Cancellers : answer[k] = "completed" => durable = "completed"

\* session.close succeeds only after the run it waited for is over: its
\* terminal event is on the wire, the view shows no run, nothing is being
\* published (docs/SESSION_API.md, "emits the run's one terminal event before
\* acknowledging successful close").
ClosedIsQuiet ==
    closer = "closed" =>
        /\ exec.pc \in {"ended", "removed"}
        /\ ~view.active /\ pubLock # Executor
        /\ acceptance = "yes" /\ ~At("removed") => Sent("finished") # {}

\* A run ends as its clients were told, and they are told what is stored: a
\* cancel that was taken wins over the outcome, a status that was answered
\* stands, and nothing is told that a failed write takes back.
RunEndsAsTold == TypeOK /\ CancelHonoured /\ AnswerStands /\ ToldIsDurable

\* What the client and the subscribers receive is in order: the acknowledgement
\* before all else, every number once, nothing behind the terminal event, and
\* that one before the close of the session is answered.
WireInOrder == AckFirst /\ WireOrdered /\ NotifiedInOrder /\ ClosedIsQuiet

\* Once a run has to stop, it ends: its terminal delivery is settled whatever
\* the client does next (execute_run's gate, select and send timeouts), or it
\* was withdrawn before anybody was told of it.
StopEnds ==
    (cancel \/ (late /\ acceptance = "yes")) ~> (delivery # "open" \/ At("removed"))

\* The close of a session with a journal is answered: it cancels the run it
\* finds and the run settles (docs/SESSION_API.md:47).
CloseEnds == (Persistent /\ closer = "closing") ~> closer \in {"closed", "failed"}

\* The close of every session is answered (docs/SESSION_API.md:47).
EveryCloseEnds == closer = "closing" ~> closer \in {"closed", "failed"}

\* The acknowledgement of a run finds its publication lock free
\* (deliver_acceptance: "Run projection commit finishes before start
\* acknowledgement").
AckFindsPublicationFree == \A k \in Starters : starter[k] # "panicked"

\* When the view shows that the run ended, its history holds the items of the
\* run as the session's history does (docs/SESSION_VIEW_API.md:58).
ViewHistoryComplete == view.last # "none" => view.history = items
=============================================================================
