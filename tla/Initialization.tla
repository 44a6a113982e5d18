---------------------------- MODULE Initialization ----------------------------
(***************************************************************************)
(* The handshake of a connection (initialization.rs of the SDK and of the    *)
(* daemon; the initialize arm of handle_message and the head of              *)
(* dispatch_request in server.rs).                                           *)
(*                                                                           *)
(* In the SDK every call first awaits one shared handshake, which a worker   *)
(* makes; a failure stops the connection, through the promise of Shutdown,   *)
(* and is published behind it.  In the daemon a connection is ready when the *)
(* acknowledgement has been written, and requests that come in meanwhile     *)
(* wait for that; the reader of the SDK drops what arrives before the        *)
(* handshake is published.                                                   *)
(***************************************************************************)
EXTENDS Shutdown, Naturals

CONSTANTS Users, \* calls of the SDK
          Raw    \* requests written to the connection without the SDK

ASSUME InitializationAssumption == Users \cap Raw = {}

VARIABLES
  clientClosed, \* ClientState::closed
  worker,       \* the task that makes the handshake
  asked,        \* initialize requests sent
  initReply,    \* their answer, on its way to the SDK
  result,       \* the published outcome
  caller,       \* where each call is
  connPhase,    \* the daemon's phase of the connection
  handler,      \* the daemon's task for the initialize request
  ackWritten,   \* the acknowledgement was written
  request,      \* the daemon's task for each request
  note          \* a notification that the request causes

sdk == <<clientClosed, worker, asked, result, caller>>
daemon == <<connPhase, handler, ackWritten, request>>
handshakeVars == <<shutdownVars, sdk, initReply, daemon, note>>

Requests == Users \cup Raw

HandshakeTypeOK ==
  /\ ShutdownTypeOK /\ clientClosed \in BOOLEAN
  /\ worker \in {"none", "asking", "waiting", "closing", "stopping", "done"}
  /\ asked \in 0 .. 1
  /\ initReply \in {None, "ok", "error"} /\ result \in {None, "ok", "failed"}
  /\ caller \in [Users -> {"idle", "initializing", "requested", "failed", "gone"}]
  /\ connPhase \in {"New", "Initializing", "Ready", "Failed", "Closed"}
  /\ handler \in {"none", "writing", "written", "done"} /\ ackWritten \in BOOLEAN
  /\ request \in [Requests -> {"none", "waiting", "executed", "refused"}]
  /\ note \in [Users -> {"none", "sent", "seen", "lost"}]

HandshakeInit ==
  /\ ShutdownInit /\ clientClosed = FALSE
  /\ worker = "none" /\ asked = 0 /\ initReply = None /\ result = None
  /\ caller = [u \in Users |-> "idle"]
  /\ connPhase = "New" /\ handler = "none" /\ ackWritten = FALSE
  /\ request = [r \in Requests |-> "none"] /\ note = [u \in Users |-> "none"]

(***************************************************************************)
(* The SDK.                                                                 *)
(***************************************************************************)

\* initialize: the first call spawns the worker, and all await its outcome.
Call(u) ==
  /\ caller[u] = "idle"
  /\ caller' = [caller EXCEPT ![u] = "initializing"]
  /\ worker' = IF worker = "none" THEN "asking" ELSE worker
  /\ UNCHANGED <<shutdownVars, clientClosed, asked, initReply, result, daemon, note>>

\* request_inner, which fails on a closed client.
Ask ==
  /\ worker = "asking"
  /\ IF clientClosed THEN worker' = "closing" /\ UNCHANGED asked
     ELSE worker' = "waiting" /\ asked' = asked + 1
  /\ UNCHANGED <<shutdownVars, clientClosed, initReply, result, caller, daemon, note>>

\* The answer: an acknowledgement that validates is the outcome, though the
\* client may be closed by now, which every call looks at again (Proceed);
\* anything else is a failure.
Answered ==
  /\ worker = "waiting" /\ initReply # None
  /\ \/ initReply = "ok" /\ result' = "ok" /\ worker' = "done"
     \/ worker' = "closing" /\ UNCHANGED result
  /\ UNCHANGED <<shutdownVars, clientClosed, asked, initReply, caller, daemon, note>>

\* The deadline passes, or the client is closed.
Interrupted ==
  /\ worker = "waiting"
  /\ worker' = "closing"
  /\ UNCHANGED <<shutdownVars, clientClosed, asked, initReply, result, caller, daemon, note>>

\* close: the state is disconnected and the owner asked to stop.
CloseOnFailure ==
  /\ worker = "closing" /\ worker' = "stopping"
  /\ clientClosed' = TRUE
  /\ UNCHANGED <<shutdownVars, asked, initReply, result, caller, daemon, note>>

\* The failure is published once the connection has stopped.
Fail ==
  /\ worker = "stopping" /\ stage = "stopped" /\ worker' = "done"
  /\ result' = "failed"
  /\ UNCHANGED <<shutdownVars, clientClosed, asked, initReply, caller, daemon, note>>

\* Mutant: a call goes on as soon as the answer is in.
ProceedEarly(u) ==
  /\ caller[u] = "initializing" /\ initReply = "ok" /\ ~clientClosed
  /\ caller' = [caller EXCEPT ![u] = "requested"]
  /\ request' = [request EXCEPT ![u] = "waiting"]
  /\ UNCHANGED <<shutdownVars, clientClosed, worker, asked, initReply, result, connPhase,
                 handler, ackWritten, note>>

\* A call whose handshake has an outcome sends its request, or fails.
Proceed(u) ==
  /\ caller[u] = "initializing" /\ result # None
  /\ IF result = "ok" /\ ~clientClosed
     THEN /\ caller' = [caller EXCEPT ![u] = "requested"]
          /\ request' = [request EXCEPT ![u] = "waiting"]
     ELSE caller' = [caller EXCEPT ![u] = "failed"] /\ UNCHANGED request
  /\ UNCHANGED <<shutdownVars, clientClosed, worker, asked, initReply, result, connPhase,
                 handler, ackWritten, note>>

\* A call is dropped while it waits; the worker goes on.
LeaveCall(u) ==
  /\ caller[u] = "initializing"
  /\ caller' = [caller EXCEPT ![u] = "gone"]
  /\ UNCHANGED <<shutdownVars, clientClosed, worker, asked, initReply, result, daemon, note>>

\* The application closes the client.
Close ==
  /\ ~clientClosed /\ clientClosed' = TRUE
  /\ UNCHANGED <<shutdownVars, worker, asked, initReply, result, caller, daemon, note>>

\* The owner of the connection stops it, when the client is closed or when the
\* reader meets the end of its input.
Cleanup ==
  /\ \/ BeginCleanup \/ Let \/ \E r \in Reports : Publish(r)
  /\ clientClosed' = TRUE
  /\ UNCHANGED <<worker, asked, initReply, result, caller, daemon, note>>

\* The reader: notifications are dropped before the handshake is published.
ReadNote(u) ==
  /\ note[u] = "sent" /\ ~clientClosed
  /\ note' = [note EXCEPT ![u] = IF result = "ok" THEN "seen" ELSE "lost"]
  /\ UNCHANGED <<shutdownVars, sdk, initReply, daemon>>

(***************************************************************************)
(* The daemon.                                                              *)
(***************************************************************************)

\* begin: a new connection whose parameters are valid and compatible starts to
\* initialize; anything else is rejected and leaves the phase alone.
TakeInit ==
  /\ asked = 1 /\ handler = "none"
  /\ \/ /\ connPhase = "New" /\ connPhase' = "Initializing"
        /\ handler' = "writing" /\ UNCHANGED initReply
     \/ UNCHANGED connPhase /\ handler' = "done" /\ initReply' = "error"
  /\ UNCHANGED <<shutdownVars, sdk, ackWritten, request, note>>

\* The acknowledgement is written; a failed write disconnects; a cancelled
\* initializer drops the guard, which gives the connection up.
WriteAck ==
  /\ handler = "writing"
  /\ \/ /\ handler' = "written" /\ initReply' = "ok" /\ ackWritten' = TRUE
        /\ UNCHANGED connPhase
     \/ /\ handler' = "done" /\ connPhase' = "Closed"
        /\ UNCHANGED <<initReply, ackWritten>>
     \/ /\ handler' = "done" /\ UNCHANGED <<initReply, ackWritten>>
        /\ connPhase' = IF connPhase = "Initializing" THEN "Failed" ELSE connPhase
  /\ UNCHANGED <<shutdownVars, sdk, request, note>>

\* InitializationAck::delivered.
Delivered ==
  /\ handler = "written" /\ handler' = "done"
  /\ connPhase' = IF connPhase = "Initializing" THEN "Ready" ELSE connPhase
  /\ UNCHANGED <<shutdownVars, sdk, initReply, ackWritten, request, note>>

\* disconnect_connection at the end of the daemon's input.
DaemonEof ==
  /\ connPhase # "Closed" /\ connPhase' = "Closed"
  /\ UNCHANGED <<shutdownVars, sdk, initReply, handler, ackWritten, request, note>>

\* dispatch_request: ready waits while the acknowledgement is under way, and
\* refuses the request on a connection that is new, failed or closed.
Dispatch(r) ==
  /\ request[r] = "waiting" /\ connPhase # "Initializing"
  /\ request' =
       [request EXCEPT ![r] = IF connPhase = "Ready" THEN "executed" ELSE "refused"]
  /\ note' = IF r \in Users /\ connPhase = "Ready" THEN [note EXCEPT ![r] = "sent"]
             ELSE note
  /\ UNCHANGED <<shutdownVars, sdk, initReply, connPhase, handler, ackWritten>>

\* A request that does not come from the SDK.
SendRaw(r) ==
  /\ request[r] = "none"
  /\ request' = [request EXCEPT ![r] = "waiting"]
  /\ UNCHANGED <<shutdownVars, sdk, initReply, connPhase, handler, ackWritten, note>>

WorkerStep == Ask \/ Answered \/ Interrupted \/ CloseOnFailure \/ Fail
HandlerStep == TakeInit \/ WriteAck \/ Delivered

HandshakeNext ==
  \/ \E u \in Users : Call(u) \/ Proceed(u) \/ LeaveCall(u) \/ ReadNote(u)
  \/ WorkerStep \/ Close \/ Cleanup
  \/ HandlerStep \/ DaemonEof
  \/ \E r \in Requests : Dispatch(r)
  \/ \E r \in Raw : SendRaw(r)

HandshakeSpec == HandshakeInit /\ [][HandshakeNext]_handshakeVars

(***************************************************************************)
(* Properties.                                                              *)
(***************************************************************************)

\* No request is executed before the acknowledgement of the handshake was
\* written (dispatch_request behind ready).
AcknowledgedFirst == (\E r \in Requests : request[r] = "executed") => ackWritten

\* The failure of the handshake is published behind the cleanup of the
\* connection, and no call sends a request then or had sent one.
FailureAfterCleanup ==
  result = "failed" => stage = "stopped" /\ \A u \in Users : caller[u] # "requested"

\* The gate of the reader drops nothing that a request of the SDK caused, though
\* the daemon answers while the handshake is still being published.
GateLosesNothing == \A u \in Users : note[u] # "lost"

\* Nothing is executed before the handshake is acknowledged, a failed handshake
\* is reported behind the cleanup, and no notification is lost at the gate
\* (runtime.rs of the SDK, server.rs of the daemon).
HandshakeFirst ==
  HandshakeTypeOK /\ AcknowledgedFirst /\ FailureAfterCleanup /\ GateLosesNothing

\* What a fair schedule ends: a call waits for the handshake, whatever the daemon
\* does; ...
Initializing == \E u \in Users : caller[u] = "initializing"

\* ... a request waits for the acknowledgement, also when the write fails or the
\* initializer is cancelled.
Gated == \E r \in Requests : request[r] = "waiting"
=============================================================================
