---------------------------- MODULE DurableTurn ----------------------------
(***************************************************************************)
(* One persistent session while its runs execute: the engine's loop over   *)
(* model steps (whale-core, engine.rs), the concurrent tool calls of a     *)
(* step (coordinator.rs), the queue of the session's journal worker        *)
(* (whale-store, runtime.rs) and a daemon that stops a run by dropping its *)
(* future, or crashes.                                                     *)
(*                                                                         *)
(* A command is sent before its sender waits, so a dropped sender leaves   *)
(* it in the queue and the worker applies it all the same.  What a command *)
(* does to the record is SessionState; how the worker writes it is         *)
(* SessionJournal, here one step that may fail.                            *)
(*                                                                         *)
(* Abstractions.  The model emits any new item.  Context construction, the *)
(* events of the run and approvals take no part in what is recorded.       *)
(***************************************************************************)
EXTENDS SessionState

CONSTANTS ExclusiveCalls,  \* calls of tools without supports_parallel
          MaxSteps         \* max_steps of a run

\* Both the daemon and the engine refuse a run without steps.
ASSUME TurnAssumption == /\ ExclusiveCalls \subseteq Calls
                         /\ MaxSteps \in Nat \ {0}
                         /\ Calls \cap {"run", "engine", "acknowledge"} = {}

VARIABLES
    ledger,   \* the stored record
    queue,    \* commands the journal worker has not handled
    poison,   \* whether the worker refuses every command
    reply,    \* what each sender waits for
    run,      \* the daemon's task: pc, turn and input
    engine,   \* run_inner: pc, item being committed, calls of the step, steps, usage
    task,     \* the future of each call
    token,    \* the cancellation token
    memory,   \* ThreadSession::history
    effect,   \* how often the handler of each call was entered
    up        \* whether the daemon runs and the session is attached

store    == <<ledger, poison>>
journal  == <<queue, reply>>
vars == <<store, journal, run, engine, task, token, memory, effect, up>>

Senders == {"run", "engine", "acknowledge"} \cup Calls

Idle     == [pc |-> "idle", turn |-> None, input |-> None]
NoEngine == [pc |-> "none", item |-> None, calls |-> <<>>, steps |-> 0, usage |-> 0]
NoTasks  == [c \in Calls |-> "none"]
NoReply  == [a \in Senders |-> "none"]

Init == /\ ledger = EmptyLedger /\ poison = FALSE
        /\ queue = <<>> /\ reply = NoReply
        /\ run = Idle /\ engine = NoEngine /\ task = NoTasks
        /\ token = FALSE
        /\ memory = <<>>
        /\ effect = [c \in Calls |-> 0]
        /\ up = TRUE

(***************************************************************************)
(* The journal                                                             *)
(***************************************************************************)
Send(who, op, arg) ==
    /\ queue' = Append(queue, [op |-> op, turn |-> run.turn, arg |-> arg, who |-> who])
    /\ reply' = [reply EXCEPT ![who] = "wait"]

Took(who) == /\ reply[who] = "ok"
             /\ reply' = [reply EXCEPT ![who] = "none"]
             /\ UNCHANGED queue

Can(g, m) ==
    CASE m.op = "begin"    -> CanBegin(g, m.turn, m.arg)
      [] m.op = "input"    -> CanModelInput(g, m.turn)
      [] m.op = "message"  -> CanModelMessage(g, m.turn, m.arg)
      [] m.op = "call"     -> CanModelCall(g, m.turn, m.arg)
      [] m.op = "finish"   -> CanModelStepFinished(g, m.turn, m.arg)
      [] m.op = "intent"   -> CanDispatchIntent(g, m.turn, m.who)
      [] m.op = "outcome"  -> CanToolOutcome(g, m.turn, m.who, m.arg)
      [] m.op = "batch"    -> /\ CanToolBatch(g, m.turn)
                              /\ {m.arg[k] : k \in DOMAIN m.arg} = Uncommitted(g, m.turn)
      [] m.op = "finalize" -> CanFinalize(g, m.turn)
      [] m.op = "acknowledge" -> CanAcknowledge(g)
      [] m.op = "detach"   -> CanRecover(g)

Do(g, m) ==
    CASE m.op = "begin"    -> Begin(g, m.turn, m.arg)
      [] m.op = "input"    -> ModelInput(g, m.turn)
      [] m.op = "message"  -> ModelMessage(g, m.turn, m.arg)
      [] m.op = "call"     -> ModelCall(g, m.turn, m.arg)
      [] m.op = "finish"   -> ModelStepFinished(g, m.turn, m.arg)
      [] m.op = "intent"   -> DispatchIntent(g, m.turn, m.who)
      [] m.op = "outcome"  -> ToolOutcome(g, m.turn, m.who, m.arg)
      [] m.op = "batch"    -> ToolBatch(g, m.turn)
      [] m.op = "finalize" -> Finalize(g, m.turn, m.arg)
      [] m.op = "acknowledge" -> Acknowledge(g)
      [] m.op = "detach"   -> Recover(g)

\* The answer reaches a sender that still waits for it.
Answer(m, r) == reply' = [reply EXCEPT ![m.who] = IF @ = "wait" THEN r ELSE @]

\* A load or a write may fail, and a failed write may have happened all the same.
Work == /\ queue # <<>>
        /\ queue' = Tail(queue)
        /\ LET m == Head(queue) IN
             \/ poison /\ Answer(m, "error") /\ UNCHANGED store
             \/ ~poison /\ ~Can(ledger, m) /\ Answer(m, "refused") /\ UNCHANGED store
             \/ /\ ~poison /\ Can(ledger, m)
                /\ ledger' = Do(ledger, m) /\ Answer(m, "ok")
                /\ UNCHANGED poison
             \/ /\ ~poison /\ Answer(m, "error") /\ poison' = TRUE
                /\ \/ UNCHANGED ledger
                   \/ Can(ledger, m) /\ ledger' = Do(ledger, m)
        /\ UNCHANGED <<run, engine, task, token, memory, effect, up>>

(***************************************************************************)
(* The daemon around the engine                                            *)
(***************************************************************************)
StartRun(t, i) ==
    /\ up /\ run.pc = "idle"
    /\ run' = [pc |-> "beginning", turn |-> t, input |-> i]
    /\ queue' = Append(queue, [op |-> "begin", turn |-> t, arg |-> i, who |-> "run"])
    /\ reply' = [reply EXCEPT !["run"] = "wait"]
    /\ UNCHANGED <<store, engine, task, token, memory, effect, up>>

\* run_inner starts by appending the input that begin_run has committed.
RunBegun ==
    /\ run.pc = "beginning"
    /\ Took("run")
    /\ run' = [run EXCEPT !.pc = "running"]
    /\ engine' = [NoEngine EXCEPT !.pc = "step"]
    /\ memory' = Append(memory, [kind |-> "user", id |-> run.input])
    /\ token' = FALSE
    /\ UNCHANGED <<store, task, effect, up>>

\* The run was cancelled, was due or lost its client before the engine began.
RunUnstarted ==
    /\ run.pc = "beginning"
    /\ Took("run")
    /\ run' = [run EXCEPT !.pc = "running"]
    /\ engine' = [NoEngine EXCEPT !.pc = "failed"]
    /\ token' = TRUE
    /\ UNCHANGED <<store, task, memory, effect, up>>

\* The session is closing and refuses the run's first projection.  Nobody
\* finalizes the run: the detach that follows does.
RunWithdrawn ==
    /\ run.pc = "beginning"
    /\ Took("run")
    /\ run' = [Idle EXCEPT !.pc = "closing"]
    /\ UNCHANGED <<store, engine, task, token, memory, effect, up>>

\* recovery.acknowledge, by a client that has read the unknown executions, at any
\* time before a close.
Acknowledging ==
    /\ up /\ run.pc \notin {"closing", "detaching"}
    /\ reply["acknowledge"] = "none" /\ Unresolved(ledger)
    /\ Send("acknowledge", "acknowledge", None)
    /\ UNCHANGED <<store, run, engine, task, token, memory, effect, up>>

\* turn.cancel, before the executing task notices.
CancelRun == /\ run.pc = "running" /\ ~token
             /\ token' = TRUE
             /\ UNCHANGED <<store, journal, run, engine, task, memory, effect, up>>

\* Mutant: handlers run in tasks of their own, which the drop does not reach.
StopSpawned ==
    /\ run.pc = "running" /\ engine.pc \notin {"completed", "failed"}
    /\ engine' = [engine EXCEPT !.pc = "failed"]
    /\ task' = [c \in Calls |-> IF task[c] = "started" THEN "started" ELSE "none"]
    /\ reply' = [a \in Senders |-> IF a \in {"run", "acknowledge"} THEN reply[a] ELSE "none"]
    /\ UNCHANGED <<store, queue, run, token, memory, effect, up>>

\* The engine's future ends without a result: a command or the model stream
\* failed, a limit was hit, or a select dropped it on a cancel or at the
\* deadline.  The futures of its calls are dropped with it.
Stop == /\ run.pc = "running" /\ engine.pc \notin {"completed", "failed"}
        /\ engine' = [engine EXCEPT !.pc = "failed"]
        /\ task' = NoTasks
        /\ token' = TRUE
        /\ reply' = [a \in Senders |-> IF a \in {"run", "acknowledge"} THEN reply[a] ELSE "none"]
        /\ UNCHANGED <<store, queue, run, memory, effect, up>>

Outcomes == IF engine.pc = "completed" THEN {"completed", "cancelled"} ELSE {"failed", "cancelled"}

Settle == /\ run.pc = "running" /\ engine.pc \in {"completed", "failed"}
          /\ \E s \in Outcomes : Send("run", "finalize", s)
          /\ run' = [run EXCEPT !.pc = "finalizing"]
          /\ UNCHANGED <<store, engine, task, token, memory, effect, up>>

\* The finalized history replaces the session's.
Settled == /\ run.pc = "finalizing"
           /\ Took("run")
           /\ memory' = ledger.history
           /\ run' = Idle /\ engine' = NoEngine
           /\ UNCHANGED <<store, task, token, effect, up>>

Acknowledged == /\ reply["acknowledge"] \in {"ok", "error", "refused"}
                /\ reply' = [reply EXCEPT !["acknowledge"] = "none"]
                /\ UNCHANGED <<store, queue, run, engine, task, token, memory, effect, up>>

\* A close waits for the run and detaches the journal.
Detaching == /\ up /\ run.pc \in {"idle", "closing"}
             /\ Send("run", "detach", None)
             /\ run' = [run EXCEPT !.pc = "detaching"]
             /\ UNCHANGED <<store, engine, task, token, memory, effect, up>>

Detached == /\ run.pc = "detaching"
            /\ Took("run")
            /\ run' = Idle /\ memory' = <<>> /\ up' = FALSE
            /\ UNCHANGED <<store, engine, task, token, effect>>

\* The daemon is told that its command failed, and gives up.
GiveUp == /\ reply["run"] \in {"error", "refused"}
          /\ reply' = [reply EXCEPT !["run"] = "none"]
          /\ run' = Idle /\ engine' = NoEngine
          /\ IF run.pc = "detaching" THEN up' = FALSE /\ memory' = <<>> ELSE UNCHANGED <<up, memory>>
          /\ UNCHANGED <<store, queue, task, token, effect>>

(***************************************************************************)
(* The engine: run_inner                                                   *)
(***************************************************************************)
In(pc) == run.pc = "running" /\ engine.pc = pc

EngineInput == /\ In("step")
               /\ Len(memory) =< MaxHistory
               /\ Send("engine", "input", None)
               /\ engine' = [engine EXCEPT !.pc = "input"]
               /\ UNCHANGED <<store, run, task, token, memory, effect, up>>

EngineStream == /\ In("input")
                /\ Took("engine")
                /\ engine' = [engine EXCEPT !.pc = "stream", !.calls = <<>>, !.steps = @ + 1]
                /\ UNCHANGED <<store, run, task, token, memory, effect, up>>

\* ModelStepState::observe refuses an id that the session's history holds.
New(item) == \A k \in DOMAIN memory : ~SameId(memory[k], item)

EngineItem ==
    /\ In("stream")
    /\ \E item \in [kind: {"message"}, id: Items] \cup [kind: {"call"}, id: Calls] :
         /\ New(item)
         /\ Send("engine", item.kind, item.id)
         /\ engine' = [engine EXCEPT !.pc = "item", !.item = item]
    /\ UNCHANGED <<store, run, task, token, memory, effect, up>>

EngineAppend ==
    /\ In("item")
    /\ Took("engine")
    /\ memory' = Append(memory, engine.item)
    /\ engine' = [engine EXCEPT !.pc = "stream", !.item = None,
                     !.calls = IF engine.item.kind = "call" THEN Append(@, engine.item.id) ELSE @]
    /\ UNCHANGED <<store, run, task, token, effect, up>>

\* checked_usage: the sum must fit before the step is committed.
EngineFinish(u) ==
    /\ In("stream")
    /\ engine.usage + u =< MaxUsage
    /\ Send("engine", "finish", u)
    /\ engine' = [engine EXCEPT !.pc = "finish", !.usage = @ + u]
    /\ UNCHANGED <<store, run, task, token, memory, effect, up>>

EngineDispatch ==
    /\ In("finish")
    /\ Took("engine")
    /\ Len(memory) =< MaxHistory
    /\ engine' = [engine EXCEPT !.pc = IF engine.calls = <<>> THEN "completed" ELSE "tools"]
    /\ task' = [c \in Calls |-> IF \E k \in DOMAIN engine.calls : engine.calls[k] = c
                                THEN "enter" ELSE "none"]
    /\ UNCHANGED <<store, run, token, memory, effect, up>>

\* Mutant: the batch is committed with the first outcome.
EngineBatchEarly ==
    /\ In("tools")
    /\ \E c \in Calls : task[c] = "done"
    /\ Send("engine", "batch", engine.calls)
    /\ engine' = [engine EXCEPT !.pc = "batch"]
    /\ UNCHANGED <<store, run, task, token, memory, effect, up>>

\* The batch names the calls of the step, in order.
EngineBatch ==
    /\ In("tools")
    /\ \A c \in Calls : task[c] \in {"none", "done"}
    /\ Send("engine", "batch", engine.calls)
    /\ engine' = [engine EXCEPT !.pc = "batch"]
    /\ UNCHANGED <<store, run, task, token, memory, effect, up>>

EngineResults ==
    /\ In("batch")
    /\ Took("engine")
    /\ memory' = memory \o [k \in DOMAIN engine.calls |->
                               [kind |-> "result", id |-> engine.calls[k]]]
    /\ engine' = [engine EXCEPT !.pc = IF engine.steps >= MaxSteps THEN "failed" ELSE "step"]
    /\ task' = NoTasks
    /\ UNCHANGED <<store, run, token, effect, up>>

(***************************************************************************)
(* The calls of a step: execute_single_call.  A call holds the barrier     *)
(* from its check to its return, shared or exclusively.                    *)
(***************************************************************************)
Goto(c, pc) == task' = [task EXCEPT ![c] = pc]
Holds(c) == task[c] \in {"check", "intent", "started", "running"}

BarrierFree(c) == \A d \in Calls \ {c} :
                     Holds(d) => c \notin ExclusiveCalls /\ d \notin ExclusiveCalls

Report(c, r) == Send(c, "outcome", r) /\ Goto(c, "outcome")

Others == <<store, run, engine, token, memory, up>>

\* An unknown tool, invalid arguments, a denied approval.
CallRejected(c) == /\ task[c] = "enter"
                   /\ Report(c, "error")
                   /\ UNCHANGED <<Others, effect>>

CallEnter(c) == /\ task[c] = "enter"
                /\ BarrierFree(c)
                /\ Goto(c, "check")
                /\ UNCHANGED <<Others, journal, effect>>

\* Mutant: the intent is sent but its commit is not awaited.
CallIntentUnawaited(c) ==
    /\ task[c] = "check"
    /\ IF token THEN Report(c, "error")
       ELSE Send(c, "intent", None) /\ Goto(c, "started")
    /\ UNCHANGED <<Others, effect>>

CallIntent(c) == /\ task[c] = "check"
                 /\ IF token THEN Report(c, "error")
                    ELSE Send(c, "intent", None) /\ Goto(c, "intent")
                 /\ UNCHANGED <<Others, effect>>

CallStarted(c) == /\ task[c] = "intent"
                  /\ Took(c)
                  /\ Goto(c, "started")
                  /\ UNCHANGED <<Others, effect>>

\* The handler is skipped when the run is cancelled or its event stream closed.
CallExecute(c) == /\ task[c] = "started"
                  /\ \/ Report(c, "error") /\ UNCHANGED effect
                     \/ /\ ~token /\ Goto(c, "running")
                        /\ effect' = [effect EXCEPT ![c] = @ + 1]
                        /\ UNCHANGED journal
                  /\ UNCHANGED Others

CallReturn(c) == /\ task[c] = "running"
                 /\ \E r \in Reported : Report(c, r)
                 /\ UNCHANGED <<Others, effect>>

CallRecorded(c) == /\ task[c] = "outcome"
                   /\ Took(c)
                   /\ Goto(c, "done")
                   /\ UNCHANGED <<Others, effect>>

(***************************************************************************)
(* A crash, and the reopening of the store with a new attachment           *)
(***************************************************************************)
Crash == /\ up /\ up' = FALSE
         /\ queue' = <<>> /\ reply' = NoReply /\ poison' = FALSE
         /\ run' = Idle /\ engine' = NoEngine /\ task' = NoTasks
         /\ token' = FALSE /\ memory' = <<>>
         /\ UNCHANGED <<ledger, effect>>

\* A new attachment, and before it the recovery by StoreRuntime::open, which
\* finds nothing to do in a session that was detached.
Reopen == /\ ~up /\ up' = TRUE
          /\ CanRecover(ledger)
          /\ ledger' = Recover(ledger)
          /\ memory' = Recover(ledger).history
          /\ poison' = FALSE
          /\ UNCHANGED <<journal, run, engine, task, token, effect>>

Daemon == \/ \E t \in Turns, i \in Items : StartRun(t, i)
          \/ RunBegun \/ RunUnstarted \/ RunWithdrawn \/ Acknowledging \/ Detaching
          \/ Detached \/ CancelRun \/ Stop \/ Settle \/ Settled \/ Acknowledged \/ GiveUp

Engine == \/ EngineInput \/ EngineStream \/ EngineItem \/ EngineAppend
          \/ \E u \in Usages : EngineFinish(u)
          \/ EngineDispatch \/ EngineBatch \/ EngineResults

CallStep(c) == \/ CallRejected(c) \/ CallEnter(c) \/ CallIntent(c) \/ CallStarted(c)
               \/ CallExecute(c) \/ CallReturn(c) \/ CallRecorded(c)

Next == Work \/ Daemon \/ Engine \/ (\E c \in Calls : CallStep(c)) \/ Crash \/ Reopen

Spec == Init /\ [][Next]_vars

-----------------------------------------------------------------------------
\* Types, and the bound on the model steps of a run.
TypeOK ==
    /\ poison \in BOOLEAN /\ token \in BOOLEAN /\ up \in BOOLEAN
    /\ reply \in [Senders -> {"none", "wait", "ok", "error", "refused"}]
    /\ run.pc \in {"idle", "beginning", "running", "finalizing", "closing", "detaching"}
    /\ engine.pc \in {"none", "step", "input", "stream", "item", "finish", "tools", "batch",
                      "completed", "failed"}
    /\ task \in [Calls -> {"none", "enter", "check", "intent", "started", "running", "outcome",
                           "done"}]
    /\ engine.steps \in 0..MaxSteps
    /\ memory \in Seq(Item)
    /\ effect \in [Calls -> Nat]

\* A handler is entered at most once per call, over crashes, retries and later
\* runs, and only once its intent is durable (execute_single_call: "A committed
\* intent is required before any host-side effect").
EffectsIntended ==
    \A c \in Calls : effect[c] =< IF ledger.call[c].intent THEN 1 ELSE 0

\* An effect happens only within its run: never once the run's end is durable
\* or its terminal write is on its way.
EffectsInRun ==
    [][\A c \in Calls : effect'[c] # effect[c] =>
          /\ ledger.call[c].turn = run.turn
          /\ ledger.run[run.turn].status = "active"
          /\ \A k \in DOMAIN queue : queue[k].op # "finalize"]_vars

\* A stored output is the output of a handler that ran, and a call that is
\* stored as not dispatched never reached its handler.
ResultsTrue ==
    \A c \in Calls : /\ ledger.call[c].outcome = "output" => effect[c] = 1
                     /\ ledger.call[c].outcome = "undispatched" => effect[c] = 0

\* The record never refuses what the engine and the coordinator send, nor the
\* end of a run, an acknowledgement or a detach: its checks and theirs agree,
\* also after a run was dropped with commands under way.
CommandsConform ==
    \A a \in Senders : reply[a] = "refused" =>
        a = "run" /\ run.pc = "beginning"

\* The history in memory never runs ahead of the stored one, and is the stored
\* one between runs, unless the journal is poisoned and accepts no run.
MemoryFollows ==
    up => /\ IsPrefixOf(memory, ledger.history)
          /\ run.pc = "idle" /\ ~poison => memory = ledger.history

\* An exclusive tool runs alone.
ExclusiveAlone ==
    \A c, d \in Calls : c # d /\ task[c] = "running" /\ task[d] = "running" =>
        c \notin ExclusiveCalls

\* What tools do to the world is what the store tells of it: an effect needs its
\* durable intent and happens once, a result is of an effect that happened, and
\* an exclusive tool has no company (execute_calls and execute_single_call).
EffectsTrue == TypeOK /\ EffectsIntended /\ ResultsTrue /\ ExclusiveAlone

\* Engine and store agree on the run, command for command and item for item,
\* whatever was interrupted: the store refuses none of the engine's commands,
\* and the engine's memory is the stored history.
EngineFaithful == CommandsConform /\ MemoryFollows
=============================================================================
