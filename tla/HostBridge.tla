----------------------------- MODULE HostBridge -----------------------------
(***************************************************************************)
(* The reverse calls of one run: the daemon asks the SDK process to execute *)
(* a host tool (tool.execute_host) or to build a model context              *)
(* (context.build_host), waits for the answer, and takes the question back  *)
(* when the run is cancelled first.                                         *)
(*                                                                          *)
(* Daemon (server.rs, context_bridge.rs): a call is registered in `pending` *)
(* and, for a tool, in `active` before its frame is queued; whatever ends   *)
(* the wait drops a guard that removes both entries and, when the call was  *)
(* still unanswered, spawns a task that sends the cancellation.  Every line *)
(* of the client is handled in a task of its own, so messages to the daemon *)
(* have no order; frames to the host keep theirs.                           *)
(*                                                                          *)
(* Host (contexts.rs, sessions.rs, lib.rs): one reader registers an         *)
(* invocation under the session's phase lock and schedules it; a spawned    *)
(* task runs the handler and drops a guard at its end.  Closing the session *)
(* or the client stops the handlers.                                        *)
(*                                                                          *)
(* One connection, one session, one run; the binding a call names is the    *)
(* subject of SdkClient.                                                    *)
(***************************************************************************)
EXTENDS Naturals, FiniteSets, Sequences, SequencesExt

CONSTANTS Tools,        \* correlation ids of host tool calls
          Contexts,     \* correlation ids of context builds
          Doors,        \* how the host answers a tool: "response", "result"
          HasDeadline   \* the run has a deadline

BridgeAssumption == /\ Tools \cap Contexts = {}
                    /\ Doors \subseteq {"response", "result"}
                    /\ HasDeadline \in BOOLEAN

Calls == Tools \cup Contexts

\* What a handler returns: a panic and an Err are both "error".
Outputs == {"ok", "error"}

VARIABLES
  runCancelled, \* the run's CancellationToken
  waiter,       \* the daemon's future of each call
  pending,      \* pending_host_tool_calls and pending_contexts
  active,       \* keys of active_invocations
  finished,     \* tools whose ToolContext was finished
  slot,         \* the oneshot channel of each call
  cancelTasks,  \* calls whose send_cancel task has not written yet
  toHost,       \* frames on their way to the host, in order
  toDaemon,     \* frames on their way to the daemon, unordered
  link,         \* the transport is up
  daemonSide,   \* the session in the daemon: "open", "closing", "closed"
  invocation,   \* the host's task of each call
  output,       \* what the handler of each call returned
  callbacks,    \* keys of tool_callbacks and context_callbacks
  cancelled,    \* calls whose CancellationSignal is set
  stopped,      \* calls whose stop signal is set
  hostLate,     \* the run's deadline has passed on the host's clock
  phase,        \* SessionPhase of the host
  client,       \* how far ClientState::disconnect has come
  progress,     \* the progress report of each tool (one each)
  stream,       \* tool events of the run, in order
  told          \* history: cancellations the host's reader has consumed

daemonVars == <<runCancelled, waiter, pending, active, finished, slot,
                cancelTasks, daemonSide, stream>>
hostVars == <<invocation, output, callbacks, cancelled, stopped, hostLate,
              phase, client, told>>
vars == <<daemonVars, hostVars, toHost, toDaemon, link, progress>>

Live == {"sending", "waiting"}
Over == {"answered", "failed", "dropped"}
Begun == {"registered", "running", "replying"}

TypeOK ==
  /\ runCancelled \in BOOLEAN /\ link \in BOOLEAN /\ hostLate \in BOOLEAN
  /\ waiter \in [Calls -> {"idle"} \cup Live \cup Over]
  /\ pending \subseteq Calls /\ active \subseteq Tools /\ finished \subseteq Tools
  /\ slot \in [Calls -> {"empty", "lost"} \cup Outputs]
  /\ cancelTasks \subseteq Calls
  /\ toHost \in Seq([kind : {"request", "cancel"}, call : Calls]
                      \cup [kind : {"closed"}])
  /\ toDaemon \subseteq [kind : {"response", "result"}, call : Calls, out : Outputs]
                          \cup [kind : {"close"}]
  /\ daemonSide \in {"open", "closing", "closed"}
  /\ invocation \in [Calls -> {"none", "admitted", "gone"} \cup Begun]
  /\ output \in [Calls -> {"none"} \cup Outputs]
  /\ callbacks \subseteq Calls /\ cancelled \subseteq Calls /\ stopped \subseteq Calls
  /\ phase \in {"open", "closing", "releasing", "closed"}
  /\ client \in {"up", "closed", "stopping", "cleared", "gone"}
  /\ progress \in [Tools -> {"none", "sent", "found", "checked",
                             "accepted", "refused"}]
  /\ stream \in Seq([kind : {"progress", "result"}, call : Tools])
  /\ told \subseteq Calls

Init ==
  /\ runCancelled = FALSE /\ link = TRUE /\ hostLate = FALSE
  /\ waiter = [c \in Calls |-> "idle"]
  /\ pending = {} /\ active = {} /\ finished = {} /\ cancelTasks = {}
  /\ slot = [c \in Calls |-> "empty"]
  /\ toHost = <<>> /\ toDaemon = {}
  /\ daemonSide = "open" /\ phase = "open" /\ client = "up"
  /\ invocation = [c \in Calls |-> "none"]
  /\ output = [c \in Calls |-> "none"]
  /\ callbacks = {} /\ cancelled = {} /\ stopped = {} /\ told = {}
  /\ progress = [c \in Tools |-> "none"]
  /\ stream = <<>>

(***************************************************************************)
(* The daemon's side of a call.                                             *)
(***************************************************************************)

\* ToolContext::is_active.
IsActive(c) == c \notin finished /\ ~runCancelled

\* A call is registered before its frame is queued; one of a run that is
\* already cancelled is refused.
Begin(c) ==
  /\ waiter[c] = "idle"
  /\ IF runCancelled
     THEN /\ waiter' = [waiter EXCEPT ![c] = "failed"]
          /\ UNCHANGED <<pending, active>>
     ELSE /\ waiter' = [waiter EXCEPT ![c] = "sending"]
          /\ pending' = pending \cup {c}
          /\ active' = active \cup ({c} \cap Tools)
  /\ UNCHANGED <<runCancelled, finished, slot, cancelTasks, daemonSide, stream,
                 hostVars, toHost, toDaemon, link, progress>>

Send(c) ==
  /\ waiter[c] = "sending" /\ link
  /\ toHost' = Append(toHost, [kind |-> "request", call |-> c])
  /\ waiter' = [waiter EXCEPT ![c] = "waiting"]
  /\ UNCHANGED <<runCancelled, pending, active, finished, slot, cancelTasks,
                 daemonSide, stream, hostVars, toDaemon, link, progress>>

\* The guards' drop: the active invocation is finished, and a call that is
\* still unanswered is taken back.
Cleanup(c, unanswered) ==
  /\ pending' = pending \ {c}
  /\ active' = active \ {c}
  /\ finished' = finished \cup ({c} \cap active)
  /\ cancelTasks' = cancelTasks \cup {d \in {c} : unanswered}

\* A frame that cannot be written fails the call.  The tool's entry is removed
\* by hand first, so only a context build still spawns a cancellation.
SendFails(c) ==
  /\ waiter[c] = "sending" /\ ~link
  /\ waiter' = [waiter EXCEPT ![c] = "failed"]
  /\ Cleanup(c, c \in Contexts \cap pending)
  /\ UNCHANGED <<runCancelled, slot, daemonSide, stream, hostVars, toHost,
                 toDaemon, link, progress>>

\* The answer, or the drop of its sender, wakes the wait.  A context build
\* looks at the cancellation first.
Receive(c) ==
  /\ waiter[c] = "waiting" /\ slot[c] # "empty"
  /\ c \in Contexts => ~runCancelled
  /\ waiter' = [waiter EXCEPT ![c] = IF slot[c] = "lost" THEN "failed"
                                     ELSE "answered"]
  /\ Cleanup(c, FALSE)
  /\ stream' = IF c \in Tools
               THEN Append(stream, [kind |-> "result", call |-> c]) ELSE stream
  /\ UNCHANGED <<runCancelled, slot, daemonSide, hostVars, toHost, toDaemon,
                 link, progress>>

\* The future of a cancelled run is dropped wherever it waits.  While the frame
\* is being queued the writer may or may not have taken it.
Dropped(c) ==
  /\ waiter[c] \in Live /\ runCancelled
  /\ \E queued \in BOOLEAN :
       toHost' = IF waiter[c] = "sending" /\ queued /\ link
                 THEN Append(toHost, [kind |-> "request", call |-> c])
                 ELSE toHost
  /\ waiter' = [waiter EXCEPT ![c] = "dropped"]
  /\ Cleanup(c, c \in pending)
  /\ UNCHANGED <<runCancelled, slot, daemonSide, stream, hostVars, toDaemon,
                 link, progress>>

\* send_cancel: the spawned task writes the notification, or loses it with the
\* connection.
SendCancel(c) ==
  /\ c \in cancelTasks
  /\ cancelTasks' = cancelTasks \ {c}
  /\ toHost' = IF link THEN Append(toHost, [kind |-> "cancel", call |-> c])
               ELSE toHost
  /\ UNCHANGED <<runCancelled, waiter, pending, active, finished, slot,
                 daemonSide, stream, hostVars, toDaemon, link, progress>>

\* Mutant: an answer is accepted for a call that waits no more.
SettleLate(m) ==
  /\ pending' = pending \ {m.call}
  /\ active' = active \ {m.call}
  /\ finished' = finished \cup ({m.call} \cap active)
  /\ slot' = [slot EXCEPT ![m.call] = m.out]

\* An answer is taken once, by the call that still waits for it; its context
\* is finished before the waiter hears of it.
Settle(m) ==
  IF m.call \in pending
  THEN /\ pending' = pending \ {m.call}
       /\ active' = active \ {m.call}
       /\ finished' = finished \cup ({m.call} \cap active)
       /\ slot' = [slot EXCEPT ![m.call] = m.out]
  ELSE UNCHANGED <<pending, active, finished, slot>>

\* handle_incoming_response, and handle_tool_execute_host_result for a host
\* that reports a tool's output with the request tool.execute_host_result.
HandleAnswer(m) ==
  /\ m \in toDaemon /\ m.kind \in {"response", "result"}
  /\ toDaemon' = toDaemon \ {m}
  /\ Settle(m)
  /\ UNCHANGED <<runCancelled, waiter, cancelTasks, daemonSide, stream, hostVars,
                 toHost, link, progress>>

\* handle_tool_progress: the report looks the invocation up, ...
ProgressFound(c) ==
  /\ progress[c] = "sent"
  /\ progress' = [progress EXCEPT ![c] = IF c \in active THEN "found"
                                         ELSE "refused"]
  /\ UNCHANGED <<daemonVars, hostVars, toHost, toDaemon, link>>

\* ... waits for room in the run's channel and looks whether it is active ...
ProgressChecked(c) ==
  /\ progress[c] = "found"
  /\ progress' = [progress EXCEPT ![c] = IF IsActive(c) THEN "checked"
                                         ELSE "refused"]
  /\ UNCHANGED <<daemonVars, hostVars, toHost, toDaemon, link>>

\* ... and only then sends the event.
ProgressSent(c) ==
  /\ progress[c] = "checked"
  /\ progress' = [progress EXCEPT ![c] = "accepted"]
  /\ stream' = Append(stream, [kind |-> "progress", call |-> c])
  /\ UNCHANGED <<runCancelled, waiter, pending, active, finished, slot,
                 cancelTasks, daemonSide, hostVars, toHost, toDaemon, link>>

\* The run is cancelled by a request or by its deadline.
CancelRun ==
  /\ ~runCancelled /\ runCancelled' = TRUE
  /\ UNCHANGED <<waiter, pending, active, finished, slot, cancelTasks,
                 daemonSide, stream, hostVars, toHost, toDaemon, link, progress>>

\* session.close, or the end of the connection, cancels the run.
StartClose ==
  /\ daemonSide = "open"
  /\ \/ /\ [kind |-> "close"] \in toDaemon
        /\ toDaemon' = toDaemon \ {[kind |-> "close"]}
     \/ ~link /\ UNCHANGED toDaemon
  /\ daemonSide' = "closing" /\ runCancelled' = TRUE
  /\ UNCHANGED <<waiter, pending, active, finished, slot, cancelTasks, stream,
                 hostVars, toHost, link, progress>>

\* The close waits for the run, whose end needs every call's; disconnect_connection
\* then drops what the connection's maps still hold.
FinishClose ==
  /\ daemonSide = "closing"
  /\ \A c \in Calls : waiter[c] \notin Live
  /\ daemonSide' = "closed"
  /\ toHost' = IF link THEN Append(toHost, [kind |-> "closed"]) ELSE toHost
  /\ IF link THEN UNCHANGED <<pending, active, finished, slot>>
     ELSE /\ slot' = [c \in Calls |-> IF c \in pending THEN "lost" ELSE slot[c]]
          /\ pending' = {} /\ active' = {}
          /\ finished' = finished \cup active
  /\ UNCHANGED <<runCancelled, waiter, cancelTasks, stream, hostVars, toDaemon,
                 link, progress>>

(***************************************************************************)
(* The host's side.                                                         *)
(***************************************************************************)

\* CancellationSignal::is_cancelled.
IsCancelled(c) == c \in cancelled \/ hostLate

Admitting == \E c \in Calls : invocation[c] = "admitted"

Reading(kind) == /\ link /\ ~Admitting
                 /\ toHost # <<>> /\ Head(toHost).kind = kind
                 /\ toHost' = Tail(toHost)

\* dispatch_request, dispatch_context: the reader looks up the handler and asks
\* for the session, under its phase lock; a session that is not open, or a
\* client that is closed, refuses.
Dispatch ==
  /\ Reading("request")
  /\ LET c == Head(toHost).call IN
     IF phase = "open" /\ client = "up"
     THEN /\ invocation' = [invocation EXCEPT ![c] = "admitted"]
          /\ UNCHANGED <<toDaemon, output>>
     ELSE /\ invocation' = [invocation EXCEPT ![c] = "gone"]
          /\ output' = [output EXCEPT ![c] = "error"]
          /\ toDaemon' = toDaemon \cup
                           {[kind |-> "response", call |-> c, out |-> "error"]}
  /\ UNCHANGED <<daemonVars, callbacks, cancelled, stopped, hostLate, phase,
                 client, told, link, progress>>

\* Mutant: the invocation is registered only by the task that runs it.
InstallLater(c) ==
  /\ invocation[c] = "admitted"
  /\ invocation' = [invocation EXCEPT ![c] = "registered"]
  /\ UNCHANGED <<daemonVars, output, callbacks, cancelled, stopped, hostLate,
                 phase, client, told, toHost, toDaemon, link, progress>>

\* insert_invocation, still on the reader; then the task is spawned.
Install(c) ==
  /\ invocation[c] = "admitted"
  /\ invocation' = [invocation EXCEPT ![c] = "registered"]
  /\ callbacks' = callbacks \cup {c}
  /\ UNCHANGED <<daemonVars, output, cancelled, stopped, hostLate, phase, client,
                 told, toHost, toDaemon, link, progress>>

\* handle_notification: only a registered invocation can be cancelled.
CancelHost ==
  /\ Reading("cancel")
  /\ LET c == Head(toHost).call IN
     /\ cancelled' = cancelled \cup ({c} \cap callbacks)
     /\ told' = told \cup {c}
  /\ UNCHANGED <<daemonVars, invocation, output, callbacks, stopped, hostLate,
                 phase, client, toDaemon, link, progress>>

\* Mutant: the guard does not leave the registry.
LeaveKeeps(c) == /\ invocation' = [invocation EXCEPT ![c] = "gone"]
                 /\ UNCHANGED callbacks

\* The task ends and its InvocationGuard leaves the registry.
Leave(c) == /\ invocation' = [invocation EXCEPT ![c] = "gone"]
            /\ callbacks' = callbacks \ {c}

Stopping(c) == c \in stopped \/ client \notin {"up", "closed"}

\* The task looks at the cancellation, the stop and the shutdown before it
\* enters the handler.
Start(c) ==
  /\ invocation[c] = "registered"
  /\ IF IsCancelled(c) \/ Stopping(c) THEN Leave(c)
     ELSE /\ invocation' = [invocation EXCEPT ![c] = "running"]
          /\ UNCHANGED callbacks
  /\ UNCHANGED <<daemonVars, output, cancelled, stopped, hostLate, phase, client,
                 told, toHost, toDaemon, link, progress>>

\* The handler returns; nobody hears of the output of a cancelled call.
Return(c) ==
  /\ invocation[c] = "running"
  /\ \E o \in Outputs : output' = [output EXCEPT ![c] = o]
  /\ IF IsCancelled(c) \/ client # "up" THEN Leave(c)
     ELSE /\ invocation' = [invocation EXCEPT ![c] = "replying"]
          /\ UNCHANGED callbacks
  /\ UNCHANGED <<daemonVars, cancelled, stopped, hostLate, phase, client, told,
                 toHost, toDaemon, link, progress>>

\* The handler's future is dropped at its next suspension point.
Stop(c) ==
  /\ invocation[c] = "running" /\ Stopping(c)
  /\ Leave(c)
  /\ UNCHANGED <<daemonVars, output, cancelled, stopped, hostLate, phase, client,
                 told, toHost, toDaemon, link, progress>>

\* The reply is queued, unless a stop wins the wait for a place in the queue.
Reply(c) ==
  /\ invocation[c] = "replying"
  /\ Leave(c)
  /\ \/ /\ link
        /\ \E door \in IF c \in Tools THEN Doors ELSE {"response"} :
             toDaemon' = toDaemon \cup
                           {[kind |-> door, call |-> c, out |-> output[c]]}
     \/ (~link \/ Stopping(c)) /\ UNCHANGED toDaemon
  /\ UNCHANGED <<daemonVars, output, cancelled, stopped, hostLate, phase, client,
                 told, toHost, link, progress>>

\* ToolContext::report_progress of a handler that is neither cancelled nor over.
ReportProgress(c) ==
  /\ invocation[c] = "running" /\ ~IsCancelled(c) /\ link /\ client = "up"
  /\ progress[c] = "none"
  /\ progress' = [progress EXCEPT ![c] = "sent"]
  /\ UNCHANGED <<daemonVars, hostVars, toHost, toDaemon, link>>

\* The run's deadline passes on the host's clock.
HostDeadline ==
  /\ HasDeadline /\ ~hostLate /\ hostLate' = TRUE
  /\ UNCHANGED <<daemonVars, invocation, output, callbacks, cancelled, stopped,
                 phase, client, told, toHost, toDaemon, link, progress>>

\* close_session: the phase changes under its lock, then the request is sent.
CloseSession ==
  /\ phase = "open" /\ client = "up" /\ ~Admitting /\ link
  /\ phase' = "closing"
  /\ toDaemon' = toDaemon \cup {[kind |-> "close"]}
  /\ UNCHANGED <<daemonVars, invocation, output, callbacks, cancelled, stopped,
                 hostLate, client, told, toHost, link, progress>>

\* The acknowledged close: release_session stops the session's callbacks ...
Release ==
  /\ Reading("closed")
  /\ phase' = "releasing"
  /\ cancelled' = cancelled \cup callbacks
  /\ stopped' = stopped \cup callbacks
  /\ UNCHANGED <<daemonVars, invocation, output, callbacks, hostLate, client,
                 told, toDaemon, link, progress>>

\* ... and waits until each has finished before the session is closed.
Released ==
  /\ phase = "releasing"
  /\ \A c \in stopped : invocation[c] \notin Begun
  /\ phase' = "closed"
  /\ UNCHANGED <<daemonVars, invocation, output, callbacks, cancelled, stopped,
                 hostLate, client, told, toHost, toDaemon, link, progress>>

\* ClientState::disconnect, called by the user or by the reader that lost the
\* connection.  Its steps interleave with the reader's registration: the flag,
Disconnect ==
  /\ client = "up" /\ client' = "closed"
  /\ UNCHANGED <<daemonVars, invocation, output, callbacks, cancelled, stopped,
                 hostLate, phase, told, toHost, toDaemon, link, progress>>

\* the shutdown signal and the stop of the callbacks that are registered,
Shutdown ==
  /\ client = "closed" /\ client' = "stopping"
  /\ cancelled' = cancelled \cup callbacks
  /\ stopped' = stopped \cup callbacks
  /\ UNCHANGED <<daemonVars, invocation, output, callbacks, hostLate, phase,
                 told, toHost, toDaemon, link, progress>>

\* the maps, ...
Clear ==
  /\ client = "stopping" /\ client' = "cleared"
  /\ callbacks' = {}
  /\ UNCHANGED <<daemonVars, invocation, output, cancelled, stopped, hostLate,
                 phase, told, toHost, toDaemon, link, progress>>

\* ... then the sessions' phases, under their locks, and the transport.
Drain ==
  /\ client = "cleared" /\ ~Admitting
  /\ client' = "gone" /\ phase' = "closed"
  /\ link' = FALSE /\ toHost' = <<>> /\ toDaemon' = {}
  /\ UNCHANGED <<daemonVars, invocation, output, callbacks, cancelled, stopped,
                 hostLate, told, progress>>

\* The connection breaks; lines the daemon has read are still handled.
LinkBreaks ==
  /\ link /\ link' = FALSE
  /\ toHost' = <<>> /\ toDaemon' \in SUBSET toDaemon
  /\ UNCHANGED <<daemonVars, hostVars, progress>>

Ended == /\ \A c \in Calls : waiter[c] \in {"idle"} \cup Over
         /\ UNCHANGED vars

\* The task of an invocation, the same for a tool and for a context build.
TaskStep(c) == Start(c) \/ Return(c) \/ Stop(c) \/ Reply(c)

CallStep(c) ==
  \/ Begin(c) \/ Send(c) \/ SendFails(c) \/ Receive(c) \/ Dropped(c)
  \/ SendCancel(c) \/ Install(c) \/ TaskStep(c)

ProgressStep(c) ==
  ReportProgress(c) \/ ProgressFound(c) \/ ProgressChecked(c) \/ ProgressSent(c)

ReaderStep == Dispatch \/ CancelHost \/ Release \/ Released

SessionStep ==
  \/ StartClose \/ FinishClose \/ Shutdown \/ Clear \/ Drain

Next ==
  \/ \E c \in Calls : CallStep(c)
  \/ \E c \in Tools : ProgressStep(c)
  \/ \E m \in toDaemon : HandleAnswer(m)
  \/ ReaderStep \/ SessionStep
  \/ CancelRun \/ HostDeadline \/ CloseSession \/ Disconnect \/ LinkBreaks
  \/ Ended

Spec == Init /\ [][Next]_vars

\* The steps of the tasks of a call that the runtime schedules.
Scheduled(step, c) ==
  CASE step = "send" -> Send(c) [] step = "fail" -> SendFails(c)
    [] step = "receive" -> Receive(c) [] step = "drop" -> Dropped(c)
    [] step = "cancel" -> SendCancel(c) [] step = "install" -> Install(c)
    [] step = "start" -> Start(c) [] step = "stop" -> Stop(c)
    [] step = "reply" -> Reply(c)
ScheduledSteps == {"send", "fail", "receive", "drop", "cancel", "install", "start",
                   "stop", "reply"}

(***************************************************************************)
(* Properties.                                                              *)
(***************************************************************************)

\* A call whose wait is over is in neither map of the daemon, whatever ended it
\* and whichever of the answer, the drop and the disconnect came first.
NothingPending ==
  \A c \in Calls : waiter[c] \in Over => c \notin pending \cup active

\* An answer that arrives after its call was cancelled, failed or answered
\* changes nothing: the call stays as it ended and its channel is not written.
LateAnswerIgnored ==
  \A c \in Calls : waiter[c] \in Over =>
    waiter'[c] = waiter[c] /\ slot'[c] = slot[c] /\ c \notin pending'

\* A cancellation the host has read is never lost: its call was refused or is
\* over, or its signal is set or the client is shutting down, so the handler is
\* not entered and does not reply.
CancelNotLost ==
  \A c \in told :
    /\ invocation[c] \in {"none", "gone"} \/ c \in cancelled \/ Stopping(c)
    /\ [kind |-> "request", call |-> c] \notin Range(toHost)

\* Once the close of a session is reported, none of its callbacks is running or
\* registered.
CloseDrains ==
  phase = "closed" /\ client = "up" =>
    /\ callbacks = {}
    /\ \A c \in Calls : invocation[c] \notin Begun \cup {"admitted"}

\* What a fair schedule ends: the daemon waits for a call; ...
Awaited == \E c \in Calls : waiter[c] \in Live

\* ... a call was dropped and its handler runs on, though nothing but its
\* cancellation is left to end it.
DroppedRuns == \E c \in Calls : waiter[c] = "dropped" /\ invocation[c] \notin {"none", "gone"}

\* The host's registry is empty and no handler runs.
HostQuiet == callbacks = {} /\ \A c \in Calls : invocation[c] \notin Begun

\* No progress of a tool call is published after the call's result.
ProgressBeforeResult ==
  \A i, j \in DOMAIN stream :
    i < j /\ stream[i].kind = "result" /\ stream[j].kind = "progress" =>
      stream[i].call # stream[j].call
=============================================================================
