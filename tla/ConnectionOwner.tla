--------------------------- MODULE ConnectionOwner ---------------------------
(***************************************************************************)
(* The owner of one connection of the SDK (connection.rs; shutdown and Drop  *)
(* of WhaleRuntime; close of WhaleClient).                                   *)
(*                                                                           *)
(* One task owns the reader, the writer and the endpoint: an embedded server *)
(* loop, a managed child, or nothing for an external daemon.  It sleeps on a *)
(* command channel of capacity one until somebody stops the connection, the  *)
(* reader ends, or the strong sender is dropped; then it closes the writer,  *)
(* joins the reader and joins the endpoint, each first until the graceful    *)
(* deadline and then, by force, until the total one, and publishes one       *)
(* outcome.  Timeouts are representable (validate_options).                  *)
(***************************************************************************)
EXTENDS Naturals

CONSTANT Stoppers  \* those who call shutdown or close and await the outcome

VARIABLES
  endpoint,     \* what the connection owns beside reader and writer
  senderHeld,   \* the strong sender of the command channel is held
  command,      \* the channel
  disconnected, \* ClientState::disconnect has run: the reader is told to stop
  owner,        \* the step of the owner task
  clock,        \* 0, 1 behind the graceful deadline, 2 behind the total one
  task,         \* writer close task, reader task, embedded server loop
  aborted,      \* tasks told to abort
  child,        \* the managed process
  killed,       \* it was sent the kill signal
  reaper,       \* the background task that waits for it
  forced,       \* outcome.forced
  failure,      \* outcome.failure
  completion,   \* the published outcome
  stopper,      \* where each caller is
  got           \* the outcome each caller was given

conn == <<endpoint, senderHeld>>
resources == <<task, aborted, child, killed, reaper>>
outcome == <<forced, failure>>
callers == <<stopper, got>>
ownerVars == <<conn, command, disconnected, owner, clock, resources, outcome,
               completion, callers>>

Tasks == {"writer", "reader", "server"}
Stages == Tasks \cup {"child"}
Failures == [phase : Stages, kind : {"failed", "timeout"}]
Outcome(kind) == [phase |-> "none", kind |-> kind]
NoOutcome == Outcome("none")
Outcomes == {Outcome("graceful"), Outcome("forced")} \cup Failures

\* At a stage the owner first joins and then, after the grace, forces.
Join(s) == [stage |-> s, force |-> FALSE]
Forcing(s) == [stage |-> s, force |-> TRUE]
Asleep == Join("asleep")
Publishing == Join("publish")
Done == Join("done")

ChannelTypeOK ==
  /\ endpoint \in {"embedded", "managed", "external"} /\ senderHeld \in BOOLEAN
  /\ command \in {"none", "requested", "reader finished"} /\ disconnected \in BOOLEAN
StepTypeOK ==
  owner \in {Asleep, Publishing, Done} \cup {Join(s) : s \in Stages}
              \cup {Forcing(s) : s \in Stages}
ResourcesTypeOK ==
  /\ task \in [Tasks -> {"none", "running", "ok", "error", "cancelled"}]
  /\ aborted \subseteq {"reader", "server"}
  /\ child \in {"none", "running", "exited", "reaped"}
  /\ killed \in BOOLEAN /\ reaper \in {"none", "running", "done"}
OutcomeTypeOK ==
  /\ forced \in BOOLEAN /\ failure \in Failures \cup {NoOutcome}
  /\ completion \in Outcomes \cup {NoOutcome}
CallersTypeOK ==
  /\ stopper \in [Stoppers -> {"idle", "waiting", "gone"}]
  /\ got \in [Stoppers -> Outcomes \cup {NoOutcome}]
OwnerTypeOK ==
  /\ ChannelTypeOK /\ StepTypeOK /\ clock \in 0 .. 2
  /\ ResourcesTypeOK /\ OutcomeTypeOK /\ CallersTypeOK

OwnerInit ==
  /\ endpoint \in {"embedded", "managed", "external"}
  /\ senderHeld = TRUE /\ command = "none" /\ disconnected = FALSE
  /\ owner = Asleep /\ clock = 0
  /\ task = [writer |-> "none", reader |-> "running",
             server |-> IF endpoint = "embedded" THEN "running" ELSE "none"]
  /\ aborted = {}
  /\ child = IF endpoint = "managed" THEN "running" ELSE "none"
  /\ killed = FALSE /\ reaper = "none"
  /\ forced = FALSE /\ failure = NoOutcome /\ completion = NoOutcome
  /\ stopper = [c \in Stoppers |-> "idle"] /\ got = [c \in Stoppers |-> NoOutcome]

(***************************************************************************)
(* Those who stop the connection.                                           *)
(***************************************************************************)

\* try_send: a full channel already holds a reason to stop; a weak sender whose
\* strong one is gone sends nothing.
Send(reason) == command' = IF senderHeld /\ command = "none" THEN reason ELSE command

\* Mutant: who finds the state disconnected takes the owner for awake.
StopFirst(c) ==
  /\ stopper[c] = "idle"
  /\ disconnected' = TRUE
  /\ IF completion # NoOutcome
     THEN /\ stopper' = [stopper EXCEPT ![c] = "gone"]
          /\ got' = [got EXCEPT ![c] = completion]
          /\ UNCHANGED command
     ELSE /\ stopper' = [stopper EXCEPT ![c] = "waiting"] /\ UNCHANGED got
          /\ IF disconnected THEN UNCHANGED command ELSE Send("requested")
  /\ UNCHANGED <<conn, owner, clock, resources, outcome, completion>>

\* shutdown of the runtime, or close of a client: the state is disconnected, a
\* cached outcome is returned at once, and otherwise the owner is asked.
Stop(c) ==
  /\ stopper[c] = "idle"
  /\ disconnected' = TRUE
  /\ IF completion # NoOutcome
     THEN /\ stopper' = [stopper EXCEPT ![c] = "gone"]
          /\ got' = [got EXCEPT ![c] = completion]
          /\ UNCHANGED command
     ELSE /\ stopper' = [stopper EXCEPT ![c] = "waiting"]
          /\ Send("requested") /\ UNCHANGED got
  /\ UNCHANGED <<conn, owner, clock, resources, outcome, completion>>

\* wait_for_shutdown.
Return(c) ==
  /\ stopper[c] = "waiting" /\ completion # NoOutcome
  /\ stopper' = [stopper EXCEPT ![c] = "gone"]
  /\ got' = [got EXCEPT ![c] = completion]
  /\ UNCHANGED <<conn, command, disconnected, owner, clock, resources, outcome,
                 completion>>

\* The caller stops waiting.
LeaveStop(c) ==
  /\ stopper[c] = "waiting"
  /\ stopper' = [stopper EXCEPT ![c] = "gone"]
  /\ UNCHANGED <<conn, command, disconnected, owner, clock, resources, outcome,
                 completion, got>>

\* The last client is dropped, or a message cannot be read: the state is
\* disconnected and it is the reader that tells the owner.
Disconnect ==
  /\ ~disconnected /\ disconnected' = TRUE
  /\ UNCHANGED <<conn, command, owner, clock, resources, outcome, completion,
                 callers>>

\* Drop of WhaleRuntime: the state is fenced and the owner asked, and then the
\* sender goes with the rest of the value.
DropRuntime ==
  /\ senderHeld /\ senderHeld' = FALSE
  /\ disconnected' = TRUE
  /\ Send("requested")
  /\ UNCHANGED <<endpoint, owner, clock, resources, outcome, completion, callers>>

\* Drop of a connection that never became a runtime: only the sender goes.
DropConnection ==
  /\ senderHeld /\ senderHeld' = FALSE
  /\ UNCHANGED <<endpoint, command, disconnected, owner, clock, resources, outcome,
                 completion, callers>>

(***************************************************************************)
(* The owned tasks and the child.                                           *)
(***************************************************************************)

\* The reader leaves its loop, at the end of its input or because the state is
\* disconnected, and tells the owner.
ReaderEnds ==
  /\ task["reader"] = "running"
  /\ task' = [task EXCEPT !["reader"] = "ok"]
  /\ Send("reader finished")
  /\ UNCHANGED <<conn, disconnected, owner, clock, aborted, child, killed, reaper,
                 outcome, completion, callers>>

\* A task ends by itself, fails, or stops at an abort.
TaskEnds(t, how) ==
  /\ task[t] = "running"
  /\ how = "ok" => t # "reader"
  /\ how = "cancelled" => t \in aborted
  /\ task' = [task EXCEPT ![t] = how]
  /\ UNCHANGED <<conn, command, disconnected, owner, clock, aborted, child, killed,
                 reaper, outcome, completion, callers>>

ChildExits ==
  /\ child = "running"
  /\ child' = "exited"
  /\ UNCHANGED <<conn, command, disconnected, owner, clock, task, aborted, killed,
                 reaper, outcome, completion, callers>>

\* continue_child_reap: the process is awaited behind the published outcome.
BackgroundReap ==
  /\ reaper = "running" /\ child = "exited"
  /\ reaper' = "done" /\ child' = "reaped"
  /\ UNCHANGED <<conn, command, disconnected, owner, clock, task, aborted, killed,
                 outcome, completion, callers>>

(***************************************************************************)
(* The owner task.                                                          *)
(***************************************************************************)

\* Mutant: the owner wakes only at a command.
WakeByCommand ==
  /\ owner = Asleep /\ command # "none"
  /\ command' = "none"
  /\ disconnected' = TRUE
  /\ task' = [task EXCEPT !["writer"] = "running"]
  /\ owner' = Join("writer")
  /\ UNCHANGED <<conn, clock, aborted, child, killed, reaper, outcome, completion,
                 callers>>

\* run_owner wakes at a command, or because nobody can send one any more; the
\* state is disconnected and the writer's close is spawned.
Wake ==
  /\ owner = Asleep /\ (command # "none" \/ ~senderHeld)
  /\ command' = "none"
  /\ disconnected' = TRUE
  /\ task' = [task EXCEPT !["writer"] = "running"]
  /\ owner' = Join("writer")
  /\ UNCHANGED <<conn, clock, aborted, child, killed, reaper, outcome, completion,
                 callers>>

\* The deadlines of the cleanup pass.
Tick ==
  /\ owner \notin {Asleep, Publishing, Done} /\ clock < 2
  /\ clock' = clock + 1
  /\ UNCHANGED <<conn, command, disconnected, owner, resources, outcome, completion,
                 callers>>

\* The stage behind s: the writer, the reader, the endpoint, the report.
After(s) ==
  CASE s = "writer" -> Join("reader")
    [] s = "reader" /\ endpoint = "embedded" -> Join("server")
    [] s = "reader" /\ endpoint = "managed" -> Join("child")
    [] OTHER -> Publishing

\* record_failure keeps the first failure.
Record(s, kind) ==
  failure' = IF failure = NoOutcome THEN [phase |-> s, kind |-> kind] ELSE failure

\* join_task_until: a task that has ended is joined whatever the time; one that
\* panicked, or a server loop that returns an error, is a failure.
Joined(t) ==
  /\ owner.stage = t /\ task[t] # "running"
  /\ owner' = After(t)
  /\ IF task[t] = "error" THEN Record(t, "failed") ELSE UNCHANGED failure
  /\ UNCHANGED <<conn, command, disconnected, clock, resources, forced, completion,
                 callers>>

\* The grace is over: reader and server are aborted, the writer's close goes on.
GraceOver(t) ==
  /\ owner = Join(t) /\ clock >= 1 /\ task[t] = "running"
  /\ owner' = Forcing(t)
  /\ forced' = TRUE
  /\ aborted' = aborted \cup ({t} \ {"writer"})
  /\ UNCHANGED <<conn, command, disconnected, clock, task, child, killed, reaper,
                 failure, completion, callers>>

\* Mutant: an abort that is not joined in time goes unreported.
DeadlineOverSilent(t) ==
  /\ owner = Forcing(t) /\ clock = 2 /\ task[t] = "running"
  /\ owner' = After(t)
  /\ UNCHANGED <<conn, command, disconnected, clock, resources, outcome, completion,
                 callers>>

\* The total deadline is over: the task is left behind.
DeadlineOver(t) ==
  /\ owner = Forcing(t) /\ clock = 2 /\ task[t] = "running"
  /\ owner' = After(t)
  /\ Record(t, "timeout")
  /\ UNCHANGED <<conn, command, disconnected, clock, resources, forced, completion,
                 callers>>

\* The child exits in time and is reaped.
ChildJoined ==
  /\ owner = Join("child") /\ child = "exited"
  /\ owner' = After("child")
  /\ child' = "reaped"
  /\ UNCHANGED <<conn, command, disconnected, clock, task, aborted, killed, reaper,
                 outcome, completion, callers>>

\* It does not, or waiting for it fails, or no time is left to look: it is
\* killed, which may fail.
ForceChild ==
  /\ owner = Join("child")
  /\ owner' = Forcing("child") /\ forced' = TRUE
  /\ \/ clock >= 1 /\ UNCHANGED failure
     \/ Record("child", "failed")
  /\ killed' \in BOOLEAN
  /\ UNCHANGED <<conn, command, disconnected, clock, task, aborted, child, reaper,
                 completion, callers>>

\* The killed child is reaped; a kill that raced with its exit does not matter.
ChildReaped ==
  /\ owner = Forcing("child") /\ child = "exited"
  /\ owner' = After("child")
  /\ child' = "reaped"
  /\ UNCHANGED <<conn, command, disconnected, clock, task, aborted, killed, reaper,
                 outcome, completion, callers>>

\* It is not reaped by the total deadline, or waiting for it fails: a background
\* task goes on waiting.
ChildLeft ==
  /\ owner = Forcing("child")
  /\ \/ clock = 2 /\ Record("child", IF killed THEN "timeout" ELSE "failed")
     \/ Record("child", "failed")
  /\ owner' = After("child")
  /\ reaper' = "running"
  /\ UNCHANGED <<conn, command, disconnected, clock, task, aborted, child, killed,
                 forced, completion, callers>>

\* map_shutdown.
Report == IF failure # NoOutcome THEN failure
          ELSE Outcome(IF forced THEN "forced" ELSE "graceful")

PublishOutcome ==
  /\ owner = Publishing
  /\ owner' = Done
  /\ completion' = Report
  /\ UNCHANGED <<conn, command, disconnected, clock, resources, outcome, callers>>

OwnerStep ==
  \/ Wake \/ PublishOutcome
  \/ \E t \in Tasks : Joined(t) \/ GraceOver(t) \/ DeadlineOver(t)
  \/ ChildJoined \/ ForceChild \/ ChildReaped \/ ChildLeft

OwnerNext ==
  \/ \E c \in Stoppers : Stop(c) \/ Return(c) \/ LeaveStop(c)
  \/ Disconnect \/ DropRuntime \/ DropConnection
  \/ ReaderEnds \/ ChildExits \/ BackgroundReap
  \/ \E t \in Tasks, how \in {"ok", "error", "cancelled"} : TaskEnds(t, how)
  \/ OwnerStep \/ Tick

OwnerSpec == OwnerInit /\ [][OwnerNext]_ownerVars

(***************************************************************************)
(* Properties.                                                              *)
(***************************************************************************)

\* Writer closed, reader gone, endpoint gone.
Released == /\ \A t \in Tasks : task[t] # "running"
            /\ owner # Asleep
            /\ child \in {"none", "reaped"}

\* The owner implements Shutdown: one cleanup, one report, and no report of
\* success before everything is released.  That a cleanup that was begun reports
\* is its fairness.
Promise == INSTANCE Shutdown WITH
  stage <- IF owner = Asleep THEN "open" ELSE IF owner = Done THEN "stopped"
           ELSE "stopping",
  report <- IF completion \in Failures THEN "failure" ELSE completion.kind,
  allReleased <- Released
KeepsPromise == Promise!ShutdownSpec

\* A managed process is never left without somebody who waits for it.
NoOrphan == endpoint = "managed" /\ completion # NoOutcome =>
              child = "reaped" \/ reaper = "running"

\* A caller that waits has woken the owner, whoever else stopped the connection
\* or dropped it meanwhile; everybody is given the same outcome.
OneOutcome ==
  \A c \in Stoppers :
    /\ stopper[c] = "waiting" => owner # Asleep \/ command # "none" \/ ~senderHeld
    /\ got[c] # NoOutcome => got[c] = completion

\* The owner of a connection forgets nobody (connection.rs): a process has
\* somebody who waits for it, a caller that waits has woken the owner, and
\* everybody is given the one outcome.
NobodyForgotten == OwnerTypeOK /\ NoOrphan /\ OneOutcome

\* A stop, the end of the reader or the drop of the owner calls for an outcome,
\* whatever hangs.
StopAsked == \/ task["reader"] = "ok" \/ ~senderHeld
             \/ \E c \in Stoppers : stopper[c] = "waiting"

\* A process was killed and is not reaped.
Zombie == killed /\ child # "reaped"
=============================================================================
