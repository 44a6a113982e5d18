--------------------------- MODULE ConnectionProofs ---------------------------
(***************************************************************************)
(* The connection of the SDK: its owner implements Shutdown and forgets    *)
(* nobody, and nothing comes before the handshake; for any callers, calls  *)
(* and requests.                                                           *)
(***************************************************************************)
EXTENDS ConnectionOwner, Initialization, TLAPS

(***************************************************************************)
(* The handshake                                                           *)
(***************************************************************************)
\* The worker asks once, and what it publishes is its last word.
WorkerInv ==
    /\ worker \in {"none", "asking"} => asked = 0
    /\ result # None => worker = "done"
    /\ result = "failed" => stage = "stopped"

\* The daemon is ready behind the acknowledgement.
AckInv == handler = "written" \/ connPhase = "Ready" => ackWritten

\* What the SDK has sent, and what that causes, comes behind the published
\* handshake.
SentInv ==
    \A u \in Users :
      /\ caller[u] = "requested" => result = "ok"
      /\ request[u] # "none" => caller[u] = "requested"
      /\ note[u] \in {"sent", "seen"} => request[u] = "executed"

HandshakeInv == HandshakeFirst /\ WorkerInv /\ AckInv /\ SentInv

LEMMA HandshakeStarts == HandshakeInit => HandshakeInv
<1> SUFFICES ASSUME HandshakeInit PROVE HandshakeInv
  OBVIOUS
<1>1. HandshakeTypeOK
  <2>1. ShutdownTypeOK
    BY DEF HandshakeInit, ShutdownTypeOK, ShutdownInit, None, Reports
  <2>2. /\ caller \in [Users -> {"idle", "initializing", "requested", "failed", "gone"}]
        /\ request \in [Requests -> {"none", "waiting", "executed", "refused"}]
        /\ note \in [Users -> {"none", "sent", "seen", "lost"}]
    BY DEF HandshakeInit
  <2>3. clientClosed \in BOOLEAN /\ ackWritten \in BOOLEAN
    BY DEF HandshakeInit
  <2>4. asked \in 0 .. 1
    BY DEF HandshakeInit
  <2>5. initReply \in {None, "ok", "error"} /\ result \in {None, "ok", "failed"}
    BY DEF HandshakeInit
  <2>6. /\ worker \in {"none", "asking", "waiting", "closing", "stopping", "done"}
        /\ connPhase \in {"New", "Initializing", "Ready", "Failed", "Closed"}
        /\ handler \in {"none", "writing", "written", "done"}
    BY DEF HandshakeInit
  <2>. QED
    BY <2>1, <2>2, <2>3, <2>4, <2>5, <2>6 DEF HandshakeTypeOK
<1>2. AcknowledgedFirst /\ AckInv
  BY DEF HandshakeInit, AcknowledgedFirst, AckInv
<1>3. FailureAfterCleanup /\ WorkerInv
  BY DEF HandshakeInit, FailureAfterCleanup, WorkerInv, None
<1>4. GateLosesNothing /\ SentInv
  BY DEF HandshakeInit, GateLosesNothing, SentInv, Requests
<1>. QED
  BY <1>1, <1>2, <1>3, <1>4 DEF HandshakeInv, HandshakeFirst

\* A call begins, and the worker with the first of them; a call is dropped.
LEMMA CallStep ==
    ASSUME HandshakeInv, NEW u \in Users, Call(u) \/ LeaveCall(u)
    PROVE  HandshakeInv'
BY DEF Call, LeaveCall, HandshakeInv, HandshakeFirst, HandshakeTypeOK, ShutdownTypeOK, shutdownVars,
       AcknowledgedFirst, FailureAfterCleanup, GateLosesNothing, WorkerInv, AckInv, SentInv, None,
       Reports, Requests, daemon

\* The worker asks, takes the answer, gives up and publishes.
LEMMA WorkerSteps ==
    ASSUME HandshakeInv, WorkerStep
    PROVE  HandshakeInv'
<1> USE DEF HandshakeInv, HandshakeFirst, HandshakeTypeOK, ShutdownTypeOK, shutdownVars,
            AcknowledgedFirst, FailureAfterCleanup, GateLosesNothing, WorkerInv, AckInv, SentInv, None,
            Reports, Requests, daemon
<1>1. CASE Ask
  BY <1>1 DEF Ask
<1>2. CASE Answered
  BY <1>2 DEF Answered
<1>3. CASE Interrupted
  BY <1>3 DEF Interrupted
<1>4. CASE CloseOnFailure
  BY <1>4 DEF CloseOnFailure
<1>5. CASE Fail
  BY <1>5 DEF Fail
<1>. QED
  BY <1>1, <1>2, <1>3, <1>4, <1>5 DEF WorkerStep

\* A call goes on behind the published outcome.
LEMMA ProceedStep ==
    ASSUME HandshakeInv, NEW u \in Users, Proceed(u)
    PROVE  HandshakeInv'
<1> USE DEF HandshakeInv, HandshakeFirst, HandshakeTypeOK, Requests
<1>1. u \in Requests
  OBVIOUS
<1>2. HandshakeTypeOK'
  BY <1>1 DEF Proceed, ShutdownTypeOK, shutdownVars, None, Reports
<1>3. AcknowledgedFirst' /\ AckInv'
  BY <1>1 DEF Proceed, AcknowledgedFirst, AckInv
<1>4. FailureAfterCleanup' /\ WorkerInv'
  BY DEF Proceed, FailureAfterCleanup, WorkerInv, shutdownVars, None
<1>5. GateLosesNothing'
  BY DEF Proceed, GateLosesNothing
<1>6. SentInv'
  <2> SUFFICES ASSUME NEW v \in Users
               PROVE  /\ (caller[v] = "requested" => result = "ok")'
                      /\ (request[v] # "none" => caller[v] = "requested")'
                      /\ (note[v] \in {"sent", "seen"} => request[v] = "executed")'
    BY DEF SentInv
  <2>1. v \in Requests
    OBVIOUS
  <2>2. CASE v = u
    BY <1>1, <2>1, <2>2 DEF Proceed, SentInv
  <2>3. CASE v # u
    BY <1>1, <2>1, <2>3 DEF Proceed, SentInv
  <2>. QED
    BY <2>2, <2>3
<1>. QED
  BY <1>2, <1>3, <1>4, <1>5, <1>6

\* The client is closed and the connection stops.
LEMMA CloseSteps ==
    ASSUME HandshakeInv, Close \/ Cleanup
    PROVE  HandshakeInv'
<1> USE DEF HandshakeInv, HandshakeFirst, HandshakeTypeOK, ShutdownTypeOK, shutdownVars,
            AcknowledgedFirst, FailureAfterCleanup, GateLosesNothing, WorkerInv, AckInv, SentInv, None,
            Reports, Requests, daemon
<1>1. CASE Close
  BY <1>1 DEF Close
<1>2. CASE Cleanup
  <2>1. ShutdownTypeOK' /\ (stage = "stopped" => stage' = "stopped")
    <3>1. CASE BeginCleanup
      BY <3>1 DEF BeginCleanup
    <3>2. CASE Let
      BY <3>2 DEF Let
    <3>3. ASSUME NEW r \in Reports, Publish(r)
          PROVE  ShutdownTypeOK' /\ (stage = "stopped" => stage' = "stopped")
      BY <3>3 DEF Publish
    <3>. QED
      BY <1>2, <3>1, <3>2, <3>3 DEF Cleanup
  <2>2. /\ clientClosed' = TRUE
        /\ UNCHANGED <<worker, asked, initReply, result, caller, daemon, note>>
    BY <1>2 DEF Cleanup
  <2>. QED
    BY <2>1, <2>2
<1>. QED
  BY <1>1, <1>2

\* The daemon takes the request, acknowledges it and is ready or gives up.
LEMMA HandlerSteps ==
    ASSUME HandshakeInv, HandlerStep \/ DaemonEof
    PROVE  HandshakeInv'
<1> USE DEF HandshakeInv, HandshakeFirst, HandshakeTypeOK, ShutdownTypeOK, shutdownVars,
            AcknowledgedFirst, FailureAfterCleanup, GateLosesNothing, WorkerInv, AckInv, SentInv, None,
            Reports, Requests, sdk
<1>1. CASE TakeInit
  BY <1>1 DEF TakeInit
<1>2. CASE WriteAck
  <2>1. HandshakeTypeOK'
    <3>1. ackWritten' \in BOOLEAN
      BY <1>2 DEF WriteAck
    <3>2. initReply' \in {None, "ok", "error"}
      BY <1>2 DEF WriteAck
    <3>3. connPhase' \in {"New", "Initializing", "Ready", "Failed", "Closed"}
      BY <1>2 DEF WriteAck
    <3>4. handler' \in {"none", "writing", "written", "done"}
      BY <1>2 DEF WriteAck
    <3>. QED
      BY <1>2, <3>1, <3>2, <3>3, <3>4 DEF WriteAck
  <2>4. AcknowledgedFirst'
    BY <1>2 DEF WriteAck
  <2>2. AckInv'
    BY <1>2 DEF WriteAck
  <2>3. FailureAfterCleanup' /\ GateLosesNothing' /\ WorkerInv' /\ SentInv'
    BY <1>2 DEF WriteAck
  <2>. QED
    BY <2>1, <2>2, <2>3, <2>4
<1>3. CASE Delivered
  BY <1>3 DEF Delivered
<1>4. CASE DaemonEof
  BY <1>4 DEF DaemonEof
<1>. QED
  BY <1>1, <1>2, <1>3, <1>4 DEF HandlerStep

\* A request is executed on a connection that is ready; the notification it
\* causes is sent.
LEMMA DispatchStep ==
    ASSUME HandshakeInv, NEW r \in Requests, Dispatch(r)
    PROVE  HandshakeInv'
<1> USE DEF HandshakeInv, HandshakeFirst, HandshakeTypeOK
<1>1. HandshakeTypeOK'
  BY DEF Dispatch, ShutdownTypeOK, shutdownVars, None, Reports, sdk
<1>2. AcknowledgedFirst' /\ AckInv'
  BY DEF Dispatch, AcknowledgedFirst, AckInv
<1>3. FailureAfterCleanup' /\ WorkerInv'
  BY DEF Dispatch, FailureAfterCleanup, WorkerInv, shutdownVars, None, sdk
<1>4. GateLosesNothing'
  BY DEF Dispatch, GateLosesNothing
<1>5. SentInv'
  <2> SUFFICES ASSUME NEW v \in Users
               PROVE  /\ (caller[v] = "requested" => result = "ok")'
                      /\ (request[v] # "none" => caller[v] = "requested")'
                      /\ (note[v] \in {"sent", "seen"} => request[v] = "executed")'
    BY DEF SentInv
  <2>1. v \in Requests
    BY DEF Requests
  <2>2. CASE v = r
    BY <2>1, <2>2 DEF Dispatch, SentInv, sdk
  <2>3. CASE v # r
    BY <2>1, <2>3 DEF Dispatch, SentInv, sdk
  <2>. QED
    BY <2>2, <2>3
<1>. QED
  BY <1>1, <1>2, <1>3, <1>4, <1>5

\* Raw requests are not those of the SDK; the reader reads what was sent.
LEMMA RawStep ==
    ASSUME HandshakeInv, NEW r \in Raw, SendRaw(r)
    PROVE  HandshakeInv'
BY InitializationAssumption
   DEF SendRaw, HandshakeInv, HandshakeFirst, HandshakeTypeOK, ShutdownTypeOK, shutdownVars,
       AcknowledgedFirst, FailureAfterCleanup, GateLosesNothing, WorkerInv, AckInv, SentInv, None,
       Reports, Requests, sdk

LEMMA NoteStep ==
    ASSUME HandshakeInv, NEW u \in Users, ReadNote(u)
    PROVE  HandshakeInv'
<1>1. result = "ok"
  BY DEF HandshakeInv, SentInv, ReadNote
<1>. QED
  BY <1>1 DEF ReadNote, HandshakeInv, HandshakeFirst, HandshakeTypeOK, ShutdownTypeOK, shutdownVars,
       AcknowledgedFirst, FailureAfterCleanup, GateLosesNothing, WorkerInv, AckInv, SentInv, None,
       Reports, Requests, sdk, daemon

LEMMA HandshakeInductive == HandshakeInv /\ [HandshakeNext]_handshakeVars => HandshakeInv'
<1> SUFFICES ASSUME HandshakeInv, [HandshakeNext]_handshakeVars PROVE HandshakeInv'
  OBVIOUS
<1>1. CASE HandshakeNext
  BY <1>1, CallStep, WorkerSteps, ProceedStep, CloseSteps, HandlerSteps, DispatchStep, RawStep, NoteStep
     DEF HandshakeNext
<1>2. CASE UNCHANGED handshakeVars
  BY <1>2 DEF handshakeVars, HandshakeInv, HandshakeFirst, HandshakeTypeOK, ShutdownTypeOK, shutdownVars,
       AcknowledgedFirst, FailureAfterCleanup, GateLosesNothing, WorkerInv, AckInv, SentInv, sdk, daemon
<1>. QED
  BY <1>1, <1>2

\* Nothing is executed before the acknowledgement, a failure is published behind
\* the cleanup and to calls that have sent nothing, and the gate of the reader
\* loses no notification that a request of the SDK caused.
THEOREM HandshakeAlwaysFirst == HandshakeSpec => []HandshakeFirst
<1>1. HandshakeInv => HandshakeFirst
  BY DEF HandshakeInv
<1>. QED
  BY <1>1, HandshakeStarts, HandshakeInductive, PTL DEF HandshakeSpec

(***************************************************************************)
(* The owner                                                               *)
(***************************************************************************)
\* The stages behind the one that joins a task; the child is joined last.
Behind(t) ==
    CASE t = "writer" -> {"reader", "server", "child", "publish", "done"}
      [] t = "reader" -> {"server", "child", "publish", "done"}
      [] OTHER        -> {"publish", "done"}

\* A connection has the task or the child of its endpoint and no other.
EndpointInv ==
    /\ endpoint # "embedded" => task["server"] = "none" /\ owner.stage # "server"
    /\ endpoint # "managed" => child = "none" /\ owner.stage # "child"

\* Without a failure what was joined has ended.
JoinedInv ==
    failure = NoOutcome =>
      /\ \A t \in Tasks : owner.stage \in Behind(t) => task[t] # "running"
      /\ owner.stage \in Behind("child") => child \in {"none", "reaped"}

\* A managed process that was joined is reaped, or somebody waits for it.
ReapInv ==
    endpoint = "managed" /\ owner.stage \in Behind("child") =>
      child = "reaped" \/ reaper = "running"

\* The report is there when the owner is done.
ReportInv == owner.stage = "done" <=> completion # NoOutcome

OwnerInv == OwnerTypeOK /\ EndpointInv /\ JoinedInv /\ ReapInv /\ ReportInv /\ OneOutcome

\* The steps of the owner are told apart by their stage and their force.
LEMMA OwnerStages ==
    ASSUME OwnerTypeOK
    PROVE  /\ owner.stage \in {"asleep", "publish", "done"} \cup Stages
           /\ owner = Asleep <=> owner.stage = "asleep"
           /\ owner = Publishing <=> owner.stage = "publish"
           /\ owner = Done <=> owner.stage = "done"
<1>1. CASE owner \in {Asleep, Publishing, Done}
  BY <1>1 DEF Asleep, Publishing, Done, Join, Stages, Tasks
<1>2. ASSUME NEW s \in Stages, owner = Join(s) \/ owner = Forcing(s)
      PROVE  owner.stage = s /\ owner \notin {Asleep, Publishing, Done}
  <2>1. owner.stage = s
    BY <1>2 DEF Join, Forcing
  <2>2. Asleep.stage = "asleep" /\ Publishing.stage = "publish" /\ Done.stage = "done"
    BY DEF Asleep, Publishing, Done, Join
  <2>3. s \notin {"asleep", "publish", "done"}
    BY DEF Stages, Tasks
  <2>. QED
    BY <2>1, <2>2, <2>3
<1>3. CASE \E s \in Stages : owner = Join(s) \/ owner = Forcing(s)
  BY <1>2, <1>3 DEF Stages, Tasks
<1>. QED
  BY <1>1, <1>3 DEF OwnerTypeOK, StepTypeOK

\* What is behind a stage.
LEMMA StageAfter ==
    ASSUME OwnerTypeOK, NEW s \in Stages
    PROVE  /\ After(s) \in {Join("reader"), Join("server"), Join("child"), Publishing}
           /\ s = "writer" => After(s).stage = "reader"
           /\ s = "reader" =>
                After(s).stage = IF endpoint = "embedded" THEN "server"
                                 ELSE IF endpoint = "managed" THEN "child" ELSE "publish"
           /\ s \in {"server", "child"} => After(s).stage = "publish"
BY DEF After, Join, Publishing, Stages, Tasks

\* A failure stays, and is none of the other outcomes.
LEMMA Recorded ==
    ASSUME OwnerTypeOK, NEW s \in Stages, NEW kind \in {"failed", "timeout"}, Record(s, kind)
    PROVE  failure' \in Failures
<1>1. [phase |-> s, kind |-> kind] \in Failures
  BY DEF Failures
<1>. QED
  BY <1>1 DEF Record, OwnerTypeOK, OutcomeTypeOK

LEMMA FailureIsSome ==
    ASSUME NEW f \in Failures
    PROVE  f # NoOutcome /\ f # Outcome("graceful") /\ f # Outcome("forced")
<1>1. f.phase \in Stages
  BY DEF Failures
<1>2. f.phase # "none"
  BY <1>1 DEF Stages, Tasks
<1>. QED
  BY <1>2 DEF NoOutcome, Outcome

LEMMA OwnerStarts == OwnerInit => OwnerInv
<1> SUFFICES ASSUME OwnerInit PROVE OwnerInv
  OBVIOUS
<1>1. OwnerTypeOK
  <2>1. ChannelTypeOK
    <3>1. senderHeld \in BOOLEAN /\ disconnected \in BOOLEAN
      BY DEF OwnerInit
    <3>. QED
      BY <3>1 DEF OwnerInit, ChannelTypeOK
  <2>5. clock \in 0 .. 2
    BY DEF OwnerInit
  <2>2. StepTypeOK /\ OutcomeTypeOK
    BY DEF OwnerInit, StepTypeOK, OutcomeTypeOK
  <2>3. ResourcesTypeOK
    <3>1. task \in [Tasks -> {"none", "running", "ok", "error", "cancelled"}]
      BY DEF OwnerInit, Tasks
    <3>2. killed \in BOOLEAN
      BY DEF OwnerInit
    <3>3. child \in {"none", "running", "exited", "reaped"}
      BY DEF OwnerInit
    <3>. QED
      BY <3>1, <3>2, <3>3 DEF OwnerInit, ResourcesTypeOK
  <2>4. CallersTypeOK
    BY DEF OwnerInit, CallersTypeOK
  <2>. QED
    BY <2>1, <2>2, <2>3, <2>4, <2>5 DEF OwnerTypeOK
<1>2. owner.stage = "asleep"
  BY DEF OwnerInit, Asleep, Join
<1>3. EndpointInv
  BY <1>2 DEF OwnerInit, EndpointInv
<1>4. JoinedInv /\ ReapInv
  BY <1>2 DEF JoinedInv, ReapInv, Behind, Tasks
<1>5. ReportInv /\ OneOutcome
  BY <1>2 DEF OwnerInit, ReportInv, OneOutcome
<1>. QED
  BY <1>1, <1>3, <1>4, <1>5 DEF OwnerInv

\* Those who stop the connection change nothing of it: the channel keeps what
\* it holds, and who is given an outcome is given the published one.
LEMMA CallerSteps ==
    ASSUME OwnerInv,
           \/ \E c \in Stoppers : Stop(c) \/ Return(c) \/ LeaveStop(c)
           \/ Disconnect \/ DropRuntime \/ DropConnection
    PROVE  OwnerInv'
<1>1. UNCHANGED <<endpoint, owner, clock, resources, outcome, completion>>
  BY DEF Stop, Return, LeaveStop, Disconnect, DropRuntime, DropConnection, conn
<1>2. ChannelTypeOK'
  BY DEF OwnerInv, OwnerTypeOK, ChannelTypeOK, Stop, Return, LeaveStop, Disconnect, DropRuntime,
         DropConnection, Send, conn
<1>3. CallersTypeOK'
  BY DEF OwnerInv, OwnerTypeOK, OutcomeTypeOK, CallersTypeOK, Stop, Return, LeaveStop, Disconnect,
         DropRuntime, DropConnection, callers
<1>4. OwnerTypeOK'
  BY <1>1, <1>2, <1>3
     DEF OwnerInv, OwnerTypeOK, StepTypeOK, ResourcesTypeOK, OutcomeTypeOK, resources, outcome
<1>5. EndpointInv' /\ JoinedInv' /\ ReapInv' /\ ReportInv'
  BY <1>1 DEF OwnerInv, EndpointInv, JoinedInv, ReapInv, ReportInv, resources, outcome
<1>6. OneOutcome'
  <2>1. ASSUME NEW c \in Stoppers, Stop(c)
        PROVE  OneOutcome'
    BY <2>1 DEF Stop, Send, OwnerInv, OwnerTypeOK, CallersTypeOK, OneOutcome, conn
  <2>2. ASSUME NEW c \in Stoppers, Return(c) \/ LeaveStop(c)
        PROVE  OneOutcome'
    BY <2>2 DEF Return, LeaveStop, OwnerInv, OwnerTypeOK, CallersTypeOK, OneOutcome, conn
  <2>3. CASE Disconnect \/ DropRuntime \/ DropConnection
    BY <2>3 DEF Disconnect, DropRuntime, DropConnection, Send, OwnerInv, OneOutcome, callers, conn
  <2>. QED
    BY <2>1, <2>2, <2>3
<1>. QED
  BY <1>4, <1>5, <1>6 DEF OwnerInv

\* What the connection owns only ends: a task that runs, the child, its reaper.
LEMMA ResourceSteps ==
    ASSUME OwnerInv,
           \/ ReaderEnds \/ ChildExits \/ BackgroundReap
           \/ \E t \in Tasks, how \in {"ok", "error", "cancelled"} : TaskEnds(t, how)
    PROVE  OwnerInv'
<1>1. UNCHANGED <<conn, disconnected, owner, clock, aborted, killed, outcome, completion, callers>>
  BY DEF ReaderEnds, ChildExits, BackgroundReap, TaskEnds
<1>2. command' \in {command, "reader finished"}
  BY DEF ReaderEnds, ChildExits, BackgroundReap, TaskEnds, Send
<1>3. /\ task' \in [Tasks -> {"none", "running", "ok", "error", "cancelled"}]
      /\ \A t \in Tasks : task[t] # "running" => task'[t] = task[t]
  BY DEF OwnerInv, OwnerTypeOK, ResourcesTypeOK, ReaderEnds, ChildExits, BackgroundReap, TaskEnds
<1>4. /\ child' \in {"none", "running", "exited", "reaped"}
      /\ reaper' \in {"none", "running", "done"}
      /\ child \in {"none", "reaped"} => child' = child
      /\ reaper = "running" => child' = "reaped" \/ reaper' = "running"
  BY DEF OwnerInv, OwnerTypeOK, ResourcesTypeOK, ReaderEnds, ChildExits, BackgroundReap, TaskEnds
<1>5. OwnerTypeOK'
  <2>1. ChannelTypeOK'
    BY <1>1, <1>2 DEF OwnerInv, OwnerTypeOK, ChannelTypeOK, conn
  <2>2. ResourcesTypeOK'
    BY <1>1, <1>3, <1>4 DEF OwnerInv, OwnerTypeOK, ResourcesTypeOK
  <2>. QED
    BY <1>1, <2>1, <2>2
       DEF OwnerInv, OwnerTypeOK, StepTypeOK, OutcomeTypeOK, CallersTypeOK, outcome, callers
<1>6. EndpointInv'
  <2>1. "server" \in Tasks
    BY DEF Tasks
  <2>. QED
    BY <1>1, <1>3, <1>4, <2>1 DEF OwnerInv, EndpointInv, conn
<1>7. JoinedInv' /\ ReapInv' /\ ReportInv'
  BY <1>1, <1>3, <1>4 DEF OwnerInv, JoinedInv, ReapInv, ReportInv, outcome, conn
<1>8. OneOutcome'
  BY <1>1, <1>2 DEF OwnerInv, OneOutcome, callers, conn
<1>. QED
  BY <1>5, <1>6, <1>7, <1>8 DEF OwnerInv

\* The owner wakes to the first stage, and its deadlines pass.
LEMMA WakeStep ==
    ASSUME OwnerInv, Wake
    PROVE  OwnerInv'
<1>1. owner' = Join("writer") /\ owner'.stage = "writer" /\ owner.stage = "asleep"
  BY DEF Wake, Join, Asleep
<1>2. "writer" \in Stages /\ "server" \in Tasks /\ "writer" \in Tasks
  BY DEF Stages, Tasks
<1>3. ResourcesTypeOK'
  BY <1>2 DEF OwnerInv, OwnerTypeOK, ResourcesTypeOK, Wake
<1>4. ChannelTypeOK'
  BY DEF OwnerInv, OwnerTypeOK, ChannelTypeOK, Wake, conn
<1>5. OwnerTypeOK'
  BY <1>1, <1>2, <1>3, <1>4
     DEF Wake, OwnerInv, OwnerTypeOK, StepTypeOK, OutcomeTypeOK, CallersTypeOK, outcome, callers
<1>6. EndpointInv' /\ ReportInv'
  BY <1>1, <1>2 DEF Wake, OwnerInv, OwnerTypeOK, ResourcesTypeOK, EndpointInv, ReportInv, conn
<1>7. JoinedInv' /\ ReapInv'
  BY <1>1 DEF JoinedInv, ReapInv, Behind, Tasks
<1>8. OneOutcome'
  <2>1. owner' # Asleep
    BY <1>1 DEF Asleep, Join
  <2>. QED
    BY <2>1 DEF Wake, OwnerInv, OneOutcome, callers
<1>. QED
  BY <1>5, <1>6, <1>7, <1>8 DEF OwnerInv

LEMMA TickStep ==
    ASSUME OwnerInv, Tick
    PROVE  OwnerInv'
<1>1. clock' \in 0 .. 2
  BY DEF Tick, OwnerInv, OwnerTypeOK
<1>2. UNCHANGED <<conn, command, disconnected, owner, resources, outcome, completion, callers>>
  BY DEF Tick
<1>3. OwnerTypeOK'
  <2>1. ChannelTypeOK' /\ StepTypeOK'
    BY <1>2 DEF OwnerInv, OwnerTypeOK, ChannelTypeOK, StepTypeOK, conn
  <2>2. ResourcesTypeOK'
    BY <1>2 DEF OwnerInv, OwnerTypeOK, ResourcesTypeOK, resources
  <2>3. OutcomeTypeOK' /\ CallersTypeOK'
    BY <1>2 DEF OwnerInv, OwnerTypeOK, OutcomeTypeOK, CallersTypeOK, outcome, callers
  <2>. QED
    BY <1>1, <2>1, <2>2, <2>3 DEF OwnerTypeOK
<1>. QED
  BY <1>2, <1>3 DEF OwnerInv, EndpointInv, JoinedInv, ReapInv, ReportInv, OneOutcome,
                    conn, resources, outcome, callers

\* The owner goes on to the stage behind the one it is at: what it joined has
\* ended, or the failure is recorded.
LEMMA Advance ==
    ASSUME OwnerInv, NEW s \in Stages, owner.stage = s, owner' = After(s),
           UNCHANGED <<conn, command, disconnected, clock, task, completion, callers>>,
           ResourcesTypeOK', OutcomeTypeOK',
           failure # NoOutcome => failure' # NoOutcome,
           failure' = NoOutcome => /\ s \in Tasks => task[s] # "running"
                                   /\ s = "child" => child' = "reaped",
           s # "child" => UNCHANGED <<child, reaper>>,
           s = "child" => child' = "reaped" \/ reaper' = "running"
    PROVE  OwnerInv'
<1>1. OwnerTypeOK /\ EndpointInv /\ JoinedInv /\ ReapInv /\ ReportInv /\ OneOutcome
  BY DEF OwnerInv
<1>2. /\ owner' \in {Join("reader"), Join("server"), Join("child"), Publishing}
      /\ owner'.stage \in {"reader", "server", "child", "publish"}
      /\ s = "writer" => owner'.stage = "reader"
      /\ s = "reader" =>
           owner'.stage = IF endpoint = "embedded" THEN "server"
                          ELSE IF endpoint = "managed" THEN "child" ELSE "publish"
      /\ s \in {"server", "child"} => owner'.stage = "publish"
  <2>1. s \in {"writer", "reader", "server", "child"}
    BY DEF Stages, Tasks
  <2>. QED
    BY <1>1, <2>1, StageAfter
<1>3. OwnerTypeOK'
  <2>1. StepTypeOK'
    BY <1>2 DEF StepTypeOK, Stages, Tasks
  <2>2. ChannelTypeOK' /\ CallersTypeOK'
    BY <1>1 DEF OwnerTypeOK, ChannelTypeOK, CallersTypeOK, conn, callers
  <2>. QED
    BY <1>1, <2>1, <2>2 DEF OwnerTypeOK
<1>4. s = "child" => endpoint = "managed"
  BY <1>1 DEF EndpointInv
<1>5. s = "server" => endpoint = "embedded"
  BY <1>1 DEF EndpointInv
<1>6. EndpointInv'
  BY <1>1, <1>2, <1>4, <1>5 DEF EndpointInv, conn, Stages, Tasks
<1>7. JoinedInv'
  <2> SUFFICES ASSUME failure' = NoOutcome
               PROVE  /\ \A t \in Tasks : owner'.stage \in Behind(t) => task[t] # "running"
                      /\ owner'.stage \in Behind("child") => child' \in {"none", "reaped"}
    BY DEF JoinedInv
  <2>1. \A t \in Tasks : s \in Behind(t) => task[t] # "running"
    BY <1>1 DEF JoinedInv
  <2>2. endpoint # "embedded" => task["server"] # "running"
    BY <1>1 DEF EndpointInv
  <2>3. endpoint \in {"embedded", "managed", "external"}
    BY <1>1 DEF OwnerTypeOK, ChannelTypeOK
  <2>4. ASSUME NEW t \in Tasks, owner'.stage \in Behind(t)
        PROVE  task[t] # "running"
    BY <1>2, <1>4, <2>1, <2>2, <2>3, <2>4 DEF Behind, Stages, Tasks
  <2>5. ASSUME owner'.stage \in Behind("child")
        PROVE  child' \in {"none", "reaped"}
    BY <1>1, <1>2, <1>5, <2>3, <2>5 DEF Behind, EndpointInv, Stages, Tasks
  <2>. QED
    BY <2>4, <2>5
<1>8. ReapInv'
  BY <1>1, <1>2, <1>5 DEF ReapInv, EndpointInv, Behind, Stages, Tasks, conn
<1>9. ReportInv'
  BY <1>1, <1>2 DEF ReportInv, Stages, Tasks
<1>10. OneOutcome'
  <2>1. owner' # Asleep
    BY <1>2 DEF Asleep, Join, Publishing
  <2>. QED
    BY <1>1, <2>1 DEF OneOutcome, callers
<1>. QED
  BY <1>3, <1>6, <1>7, <1>8, <1>9, <1>10 DEF OwnerInv

\* A task is joined, or left behind with a failure.
LEMMA JoinSteps ==
    ASSUME OwnerInv, NEW t \in Tasks, Joined(t) \/ DeadlineOver(t)
    PROVE  OwnerInv'
<1>1. t \in Stages /\ t # "child"
  BY DEF Stages, Tasks
<1>2. owner.stage = t /\ owner' = After(t)
  BY DEF Joined, DeadlineOver, Forcing
<1>3. OwnerTypeOK
  BY DEF OwnerInv
<1>4. UNCHANGED <<conn, command, disconnected, clock, resources, forced, completion, callers>>
  BY DEF Joined, DeadlineOver
<1>5. /\ failure' \in Failures \cup {NoOutcome}
      /\ failure # NoOutcome => failure' # NoOutcome
      /\ failure' = NoOutcome => task[t] # "running"
  <2>1. CASE Joined(t) /\ task[t] = "error"
    <3>1. failure' \in Failures
      BY <1>1, <1>3, <2>1, Recorded DEF Joined
    <3>. QED
      BY <2>1, <3>1, FailureIsSome
  <2>2. CASE Joined(t) /\ task[t] # "error"
    BY <1>3, <2>2 DEF Joined, OwnerTypeOK, OutcomeTypeOK
  <2>3. CASE DeadlineOver(t)
    <3>1. failure' \in Failures
      BY <1>1, <1>3, <2>3, Recorded DEF DeadlineOver
    <3>. QED
      BY <3>1, FailureIsSome
  <2>. QED
    BY <2>1, <2>2, <2>3
<1>6. ResourcesTypeOK' /\ OutcomeTypeOK'
  BY <1>3, <1>4, <1>5 DEF OwnerTypeOK, ResourcesTypeOK, OutcomeTypeOK, resources
<1>. QED
  BY <1>1, <1>2, <1>4, <1>5, <1>6, Advance DEF resources

\* The child is reaped, or left to a reaper with a failure.
LEMMA ChildSteps ==
    ASSUME OwnerInv, ChildJoined \/ ChildReaped \/ ChildLeft
    PROVE  OwnerInv'
<1>1. "child" \in Stages /\ "child" \notin Tasks
  BY DEF Stages, Tasks
<1>2. owner.stage = "child" /\ owner' = After("child")
  BY DEF ChildJoined, ChildReaped, ChildLeft, Join, Forcing
<1>3. OwnerTypeOK
  BY DEF OwnerInv
<1>4. UNCHANGED <<conn, command, disconnected, clock, task, aborted, killed, forced, completion, callers>>
  BY DEF ChildJoined, ChildReaped, ChildLeft, outcome
<1>5. /\ failure' \in Failures \cup {NoOutcome}
      /\ failure # NoOutcome => failure' # NoOutcome
      /\ failure' = NoOutcome => child' = "reaped"
  <2>1. CASE ChildJoined \/ ChildReaped
    BY <1>3, <2>1 DEF ChildJoined, ChildReaped, outcome, OwnerTypeOK, OutcomeTypeOK
  <2>2. CASE ChildLeft
    <3>1. \E kind \in {"failed", "timeout"} : Record("child", kind)
      BY <2>2 DEF ChildLeft
    <3>2. failure' \in Failures
      BY <1>1, <1>3, <3>1, Recorded
    <3>. QED
      BY <3>2, FailureIsSome
  <2>. QED
    BY <2>1, <2>2
<1>6. /\ child' \in {"none", "running", "exited", "reaped"}
      /\ reaper' \in {"none", "running", "done"}
      /\ child' = "reaped" \/ reaper' = "running"
  BY <1>3 DEF ChildJoined, ChildReaped, ChildLeft, OwnerTypeOK, ResourcesTypeOK
<1>7. ResourcesTypeOK' /\ OutcomeTypeOK'
  BY <1>3, <1>4, <1>5, <1>6 DEF OwnerTypeOK, ResourcesTypeOK, OutcomeTypeOK
<1>. QED
  BY <1>1, <1>2, <1>4, <1>5, <1>6, <1>7, Advance

\* The grace of a stage is over: the owner insists, and no stage is left by it.
LEMMA GraceSteps ==
    ASSUME OwnerInv, ForceChild \/ \E t \in Tasks : GraceOver(t)
    PROVE  OwnerInv'
<1>1. OwnerTypeOK /\ EndpointInv /\ JoinedInv /\ ReapInv /\ ReportInv /\ OneOutcome
  BY DEF OwnerInv
<1>2. PICK s \in Stages : owner = Join(s) /\ owner' = Forcing(s)
  BY DEF ForceChild, GraceOver, Stages
<1>3. owner.stage = s /\ owner'.stage = s
  BY <1>2 DEF Join, Forcing
<1>4. UNCHANGED <<conn, command, disconnected, clock, task, child, reaper, completion, callers>>
  BY DEF ForceChild, GraceOver
<1>5. /\ failure' \in Failures \cup {NoOutcome}
      /\ failure # NoOutcome => failure' = failure
  <2>1. CASE \E t \in Tasks : GraceOver(t)
    BY <1>1, <2>1 DEF GraceOver, OwnerTypeOK, OutcomeTypeOK
  <2>2. CASE ForceChild /\ UNCHANGED failure
    BY <1>1, <2>2 DEF OwnerTypeOK, OutcomeTypeOK
  <2>3. CASE ForceChild /\ Record("child", "failed")
    <3>1. "child" \in Stages
      BY DEF Stages
    <3>. QED
      BY <1>1, <2>3, <3>1, Recorded DEF Record
  <2>. QED
    BY <2>1, <2>2, <2>3 DEF ForceChild
<1>6. forced' \in BOOLEAN /\ killed' \in BOOLEAN
  BY <1>1 DEF ForceChild, GraceOver, OwnerTypeOK, ResourcesTypeOK
<1>7. aborted' \subseteq {"reader", "server"}
  BY <1>1 DEF ForceChild, GraceOver, OwnerTypeOK, ResourcesTypeOK, Tasks
<1>8. OwnerTypeOK'
  <2>1. StepTypeOK'
    BY <1>2 DEF StepTypeOK
  <2>2. ChannelTypeOK' /\ CallersTypeOK'
    BY <1>1, <1>4 DEF OwnerTypeOK, ChannelTypeOK, CallersTypeOK, conn, callers
  <2>3. ResourcesTypeOK'
    BY <1>1, <1>4, <1>6, <1>7 DEF OwnerTypeOK, ResourcesTypeOK
  <2>4. OutcomeTypeOK'
    BY <1>1, <1>4, <1>5, <1>6 DEF OwnerTypeOK, OutcomeTypeOK
  <2>. QED
    BY <1>1, <1>4, <2>1, <2>2, <2>3, <2>4 DEF OwnerTypeOK
<1>9. EndpointInv' /\ JoinedInv' /\ ReapInv' /\ ReportInv'
  BY <1>1, <1>3, <1>4, <1>5 DEF EndpointInv, JoinedInv, ReapInv, ReportInv, conn
<1>10. OneOutcome'
  <2>1. owner' # Asleep
    BY <1>2 DEF Asleep, Join, Forcing
  <2>. QED
    BY <1>1, <1>4, <2>1 DEF OneOutcome, callers
<1>. QED
  BY <1>8, <1>9, <1>10 DEF OwnerInv

\* What is published, and that it is a success only when no failure is recorded.
LEMMA Reported ==
    ASSUME OwnerTypeOK
    PROVE  /\ Report \in Outcomes /\ Report # NoOutcome
           /\ failure # NoOutcome => Report \in Failures
<1>1. Outcome("graceful") # NoOutcome /\ Outcome("forced") # NoOutcome
  BY DEF NoOutcome, Outcome
<1>2. failure \in Failures \cup {NoOutcome}
  BY DEF OwnerTypeOK, OutcomeTypeOK
<1>. QED
  BY <1>1, <1>2 DEF Report, Outcomes

LEMMA PublishStep ==
    ASSUME OwnerInv, PublishOutcome
    PROVE  OwnerInv'
<1>1. OwnerTypeOK /\ EndpointInv /\ JoinedInv /\ ReapInv /\ ReportInv /\ OneOutcome
  BY DEF OwnerInv
<1>2. /\ owner = Publishing /\ owner.stage = "publish"
      /\ owner' = Done /\ owner'.stage = "done" /\ owner' # Asleep
  BY DEF PublishOutcome, Publishing, Done, Asleep, Join
<1>3. completion = NoOutcome
  BY <1>1, <1>2 DEF ReportInv
<1>4. completion' \in Outcomes /\ completion' # NoOutcome
  BY <1>1, Reported DEF PublishOutcome
<1>5. UNCHANGED <<conn, command, disconnected, clock, resources, outcome, callers>>
  BY DEF PublishOutcome
<1>6. OwnerTypeOK'
  <2>1. StepTypeOK'
    BY <1>2 DEF StepTypeOK
  <2>2. ChannelTypeOK' /\ CallersTypeOK'
    BY <1>1, <1>5 DEF OwnerTypeOK, ChannelTypeOK, CallersTypeOK, conn, callers
  <2>3. ResourcesTypeOK'
    BY <1>1, <1>5 DEF OwnerTypeOK, ResourcesTypeOK, resources
  <2>4. OutcomeTypeOK'
    BY <1>1, <1>4, <1>5 DEF OwnerTypeOK, OutcomeTypeOK, outcome
  <2>. QED
    BY <1>1, <1>5, <2>1, <2>2, <2>3, <2>4 DEF OwnerTypeOK
<1>7. EndpointInv' /\ JoinedInv' /\ ReapInv'
  BY <1>1, <1>2, <1>5
     DEF EndpointInv, JoinedInv, ReapInv, Behind, Tasks, conn, resources, outcome
<1>8. ReportInv' /\ OneOutcome'
  BY <1>1, <1>2, <1>3, <1>4, <1>5 DEF ReportInv, OneOutcome, callers
<1>. QED
  BY <1>6, <1>7, <1>8 DEF OwnerInv

LEMMA OwnerInductive == OwnerInv /\ [OwnerNext]_ownerVars => OwnerInv'
<1> SUFFICES ASSUME OwnerInv, [OwnerNext]_ownerVars PROVE OwnerInv'
  OBVIOUS
<1>1. CASE OwnerNext
  <2>1. CASE OwnerStep
    BY <2>1, WakeStep, PublishStep, JoinSteps, GraceSteps, ChildSteps DEF OwnerStep
  <2>. QED
    BY <1>1, <2>1, CallerSteps, ResourceSteps, TickStep DEF OwnerNext
<1>2. CASE UNCHANGED ownerVars
  <2>1. ChannelTypeOK' /\ StepTypeOK' /\ ResourcesTypeOK'
    BY <1>2 DEF OwnerInv, OwnerTypeOK, ChannelTypeOK, StepTypeOK, ResourcesTypeOK, ownerVars, conn,
                resources
  <2>2. OutcomeTypeOK' /\ CallersTypeOK'
    BY <1>2 DEF OwnerInv, OwnerTypeOK, OutcomeTypeOK, CallersTypeOK, ownerVars, outcome, callers
  <2>3. OwnerTypeOK'
    BY <1>2, <2>1, <2>2 DEF OwnerInv, OwnerTypeOK, ownerVars
  <2>. QED
    BY <1>2, <2>3 DEF OwnerInv, EndpointInv, JoinedInv, ReapInv, ReportInv, OneOutcome, ownerVars,
                      conn, resources, outcome, callers
<1>. QED
  BY <1>1, <1>2

LEMMA OwnerAlways == OwnerSpec => []OwnerInv
BY OwnerStarts, OwnerInductive, PTL DEF OwnerSpec

\* The owner forgets nobody: a managed process whose connection has reported is
\* reaped or somebody waits for it, a caller that waits has woken the owner,
\* and everybody is given the one outcome.
THEOREM NobodyEverForgotten == OwnerSpec => []NobodyForgotten
<1>1. OwnerInv => NobodyForgotten
  <2> SUFFICES ASSUME OwnerInv PROVE NobodyForgotten
    OBVIOUS
  <2>1. NoOrphan
    BY DEF OwnerInv, ReapInv, ReportInv, NoOrphan, Behind
  <2>. QED
    BY <2>1 DEF OwnerInv, NobodyForgotten
<1>. QED
  BY <1>1, OwnerAlways, PTL

(***************************************************************************)
(* The owner implements Shutdown                                           *)
(***************************************************************************)
\* What a step other than the first and the last of the owner keeps.
Quiet ==
    /\ completion' = completion
    /\ (owner' = Asleep <=> owner = Asleep) /\ (owner' = Done <=> owner = Done)
    /\ \A t \in Tasks : task[t] # "running" => task'[t] # "running"
    /\ child \in {"none", "reaped"} => child' = child

\* The steps of the callers and of what is owned leave the owner where it is.
LEMMA OutsideQuiet ==
    ASSUME OwnerInv,
           \/ \E c \in Stoppers : Stop(c) \/ Return(c) \/ LeaveStop(c)
           \/ Disconnect \/ DropRuntime \/ DropConnection \/ Tick
           \/ ReaderEnds \/ ChildExits \/ BackgroundReap
           \/ \E t \in Tasks, how \in {"ok", "error", "cancelled"} : TaskEnds(t, how)
    PROVE  Quiet
<1>1. completion' = completion /\ owner' = owner
  BY DEF Stop, Return, LeaveStop, Disconnect, DropRuntime, DropConnection, Tick, ReaderEnds,
         ChildExits, BackgroundReap, TaskEnds
<1>2. task \in [Tasks -> {"none", "running", "ok", "error", "cancelled"}]
  BY DEF OwnerInv, OwnerTypeOK, ResourcesTypeOK
<1>3. /\ \A t \in Tasks : task[t] # "running" => task'[t] # "running"
      /\ child \in {"none", "reaped"} => child' = child
  BY <1>2 DEF Stop, Return, LeaveStop, Disconnect, DropRuntime, DropConnection, Tick, ReaderEnds,
              ChildExits, BackgroundReap, TaskEnds, resources
<1>. QED
  BY <1>1, <1>3 DEF Quiet

\* Between its first and its last step the owner goes from stage to stage.
LEMMA StagesQuiet ==
    ASSUME OwnerInv,
           \/ \E t \in Tasks : Joined(t) \/ GraceOver(t) \/ DeadlineOver(t)
           \/ ChildJoined \/ ForceChild \/ ChildReaped \/ ChildLeft
    PROVE  Quiet
<1>1. OwnerTypeOK
  BY DEF OwnerInv
<1>2. PICK s \in Stages : owner.stage = s /\ owner' \in {After(s), Forcing(s)}
  <2>1. "child" \in Stages /\ Tasks \subseteq Stages
    BY DEF Stages
  <2>. QED
    BY <2>1 DEF Joined, GraceOver, DeadlineOver, ChildJoined, ForceChild, ChildReaped, ChildLeft,
                Join, Forcing
<1>3. owner.stage \notin {"asleep", "done"}
  BY <1>2 DEF Stages, Tasks
<1>4. owner'.stage \notin {"asleep", "done"}
  <2>1. CASE owner' = After(s)
    BY <1>1, <2>1, StageAfter DEF Join, Publishing
  <2>2. CASE owner' = Forcing(s)
    BY <2>2 DEF Forcing, Stages, Tasks
  <2>. QED
    BY <1>2, <2>1, <2>2
<1>5. /\ owner \notin {Asleep, Done} /\ owner' \notin {Asleep, Done}
  BY <1>3, <1>4 DEF Asleep, Done, Join
<1>6. completion' = completion /\ task' = task /\ (child \in {"none", "reaped"} => child' = child)
  BY DEF Joined, GraceOver, DeadlineOver, ChildJoined, ForceChild, ChildReaped, ChildLeft, resources
<1>. QED
  BY <1>5, <1>6 DEF Quiet

\* A quiet step maps to the end of the last resource, or to a stutter.
LEMMA QuietMaps ==
    ASSUME OwnerInv, Quiet
    PROVE  [Promise!ShutdownNext]_(Promise!shutdownVars)
<1>1. Released => Released'
  BY DEF Quiet, Released
<1>2. CASE Released' = Released
  BY <1>2 DEF Quiet, Promise!shutdownVars
<1>3. CASE ~Released /\ Released'
  <2>1. owner # Asleep
    BY <1>3 DEF Quiet, Released
  <2>2. Promise!Let
    BY <1>3, <2>1 DEF Quiet, Promise!Let
  <2>. QED
    BY <2>2 DEF Promise!ShutdownNext
<1>. QED
  BY <1>1, <1>2, <1>3 DEF Released

\* Waking begins the cleanup: the close of the writer is still to come.
LEMMA WakeMaps ==
    ASSUME OwnerInv, Wake
    PROVE  Promise!BeginCleanup
<1>1. owner = Asleep /\ owner' # Asleep /\ owner' # Done
  BY DEF Wake, Asleep, Done, Join
<1>2. ~Released
  BY <1>1 DEF Released
<1>3. ~Released'
  <2>1. "writer" \in Tasks
    BY DEF Tasks
  <2>2. task'["writer"] = "running"
    BY <2>1 DEF Wake, OwnerInv, OwnerTypeOK, ResourcesTypeOK
  <2>. QED
    BY <2>1, <2>2 DEF Released
<1>4. completion' = completion
  BY DEF Wake
<1>5. Asleep # Done
  BY DEF Asleep, Done, Join
<1>6. Released' = Released
  BY <1>2, <1>3 DEF Released
<1>. QED
  BY <1>1, <1>4, <1>5, <1>6 DEF Promise!BeginCleanup

\* The report is published once, and it is a success only when everything that
\* the connection owned is released.
LEMMA PublishMaps ==
    ASSUME OwnerInv, PublishOutcome
    PROVE  Promise!ShutdownNext
<1>1. OwnerTypeOK /\ EndpointInv /\ JoinedInv /\ ReportInv
  BY DEF OwnerInv
<1>2. /\ owner = Publishing /\ owner' = Done /\ owner.stage = "publish"
      /\ owner # Asleep /\ owner # Done /\ owner' # Asleep
  BY DEF PublishOutcome, Publishing, Done, Asleep, Join
<1>3. Released' = Released
  BY <1>2 DEF PublishOutcome, Released, resources
<1>4. completion' = Report
  BY DEF PublishOutcome
<1>5. CASE completion' \in Failures
  <2>1. Promise!Publish("failure")
    BY <1>2, <1>3, <1>5 DEF Promise!Publish
  <2>. QED
    BY <2>1 DEF Promise!ShutdownNext, Promise!Reports
<1>6. CASE completion' \notin Failures
  <2>1. failure = NoOutcome
    BY <1>1, <1>4, <1>6, Reported
  <2>2. Released
    BY <1>1, <1>2, <2>1 DEF JoinedInv, Released, Behind, Tasks
  <2>3. completion'.kind \in {"graceful", "forced"}
    BY <1>4, <2>1 DEF Report, Outcome
  <2>4. Promise!Publish(completion'.kind)
    BY <1>2, <1>3, <1>6, <2>2 DEF Promise!Publish
  <2>. QED
    BY <2>3, <2>4 DEF Promise!ShutdownNext, Promise!Reports
<1>. QED
  BY <1>5, <1>6

LEMMA InitMaps == OwnerInit => Promise!ShutdownInit
<1> SUFFICES ASSUME OwnerInit PROVE Promise!ShutdownInit
  OBVIOUS
<1>1. completion = NoOutcome /\ completion \notin Failures
  BY FailureIsSome DEF OwnerInit
<1>2. completion.kind = "none"
  BY <1>1 DEF NoOutcome, Outcome
<1>3. owner = Asleep /\ ~Released
  BY DEF OwnerInit, Released
<1>. QED
  BY <1>1, <1>2, <1>3 DEF Promise!ShutdownInit, Promise!None

LEMMA StepMaps ==
    OwnerInv /\ [OwnerNext]_ownerVars => [Promise!ShutdownNext]_(Promise!shutdownVars)
<1> SUFFICES ASSUME OwnerInv, [OwnerNext]_ownerVars
             PROVE  [Promise!ShutdownNext]_(Promise!shutdownVars)
  OBVIOUS
<1>1. CASE OwnerNext
  <2>1. CASE Wake
    BY <2>1, WakeMaps DEF Promise!ShutdownNext
  <2>2. CASE PublishOutcome
    BY <2>2, PublishMaps
  <2>3. CASE ~Wake /\ ~PublishOutcome
    <3>1. Quiet
      BY <1>1, <2>3, OutsideQuiet, StagesQuiet DEF OwnerNext, OwnerStep
    <3>. QED
      BY <3>1, QuietMaps
  <2>. QED
    BY <2>1, <2>2, <2>3
<1>2. CASE UNCHANGED ownerVars
  <2>1. Quiet
    BY <1>2 DEF Quiet, ownerVars, resources
  <2>. QED
    BY <2>1, QuietMaps
<1>. QED
  BY <1>1, <1>2

\* The owner implements Shutdown: it cleans up once, publishes one report for
\* everybody, and reports a success only when writer, reader and endpoint are
\* released, whatever hangs, fails or is aborted.
THEOREM PromiseAlwaysKept == OwnerSpec => KeepsPromise
BY InitMaps, StepMaps, OwnerAlways, PTL DEF OwnerSpec, KeepsPromise, Promise!ShutdownSpec
=============================================================================
