------------------------- MODULE DurableTurnProofs -------------------------
(***************************************************************************)
(* What tools do to the world is what the store tells of it: the safety of *)
(* DurableTurn, for any sets of turns, calls and items and any limits.     *)
(***************************************************************************)
EXTENDS DurableTurn, SessionStateProofs

(***************************************************************************)
(* The inductive invariant                                                 *)
(***************************************************************************)

\* A command names its sender and carries what state.rs expects of it.
WellFormed(m) ==
    \/ m.op = "begin" /\ m.who = "run" /\ m.turn \in Turns /\ m.arg \in Items
    \/ m.op = "input" /\ m.who = "engine" /\ m.turn \in Turns
    \/ m.op = "message" /\ m.who = "engine" /\ m.turn \in Turns /\ m.arg \in Items
    \/ m.op = "call" /\ m.who = "engine" /\ m.turn \in Turns /\ m.arg \in Calls
    \/ m.op = "finish" /\ m.who = "engine" /\ m.turn \in Turns /\ m.arg \in Usages
    \/ m.op = "intent" /\ m.who \in Calls /\ m.turn \in Turns
    \/ m.op = "outcome" /\ m.who \in Calls /\ m.turn \in Turns /\ m.arg \in Reported
    \/ m.op = "batch" /\ m.who = "engine" /\ m.turn \in Turns
    \/ m.op = "finalize" /\ m.who = "run" /\ m.turn \in Turns /\ m.arg \in Terminal
    \/ m.op = "acknowledge" /\ m.who = "acknowledge"
    \/ m.op = "detach" /\ m.who = "run"

\* The queue is a sequence; what its commands carry is of no one type.
Queue(q) == q \in Seq({q[k] : k \in 1..Len(q)}) /\ \A k \in 1..Len(q) : WellFormed(q[k])

EngineItems == [kind: {"message"}, id: Items] \cup [kind: {"call"}, id: Calls]

Typed ==
    /\ TypeOK
    /\ run = [pc |-> run.pc, turn |-> run.turn, input |-> run.input]
    /\ engine = [pc |-> engine.pc, item |-> engine.item, calls |-> engine.calls,
                 steps |-> engine.steps, usage |-> engine.usage]
    /\ engine.calls \in Seq(Calls)
    /\ engine.usage \in Nat
    /\ Queue(queue)
    /\ Good(ledger) /\ Sound(ledger)

\* The engine executes.
Live == run.pc = "running" /\ engine.pc \notin {"completed", "failed"}

\* Where the daemon, the engine and the calls can be together.
Phases ==
    /\ run.pc \in {"idle", "closing", "beginning", "detaching"} => engine.pc = "none"
    /\ run.pc = "running" => engine.pc # "none"
    /\ run.pc = "finalizing" => engine.pc \in {"completed", "failed"}
    /\ run.pc \in {"beginning", "running", "finalizing"} => run.turn \in Turns
    /\ run.pc = "beginning" => run.input \in Items
    /\ ~up => run.pc = "idle"
    /\ engine.pc \in {"step", "input"} => engine.steps < MaxSteps
    /\ engine.pc = "item" => engine.item \in EngineItems
    /\ \A c \in Calls : /\ task[c] # "none" => engine.pc \in {"tools", "batch"}
                        /\ engine.pc = "batch" => task[c] \in {"none", "done"}
                        /\ reply[c] # "none" => task[c] \in {"intent", "outcome"}
    /\ reply["engine"] # "none" => engine.pc \in {"input", "item", "finish", "batch"}
    /\ reply["run"] # "none" => run.pc \in {"beginning", "finalizing", "detaching"}

\* The daemon's task sends one command at a time and waits for it: only
\* acknowledgements are behind it, and nothing else is left once it is answered.
RunLast ==
    \A k \in 1..Len(queue) :
        /\ queue[k].who = "run" =>
             /\ reply["run"] = "wait"
             /\ run.pc = "beginning" => queue[k].op = "begin"
             /\ run.pc = "finalizing" => queue[k].op = "finalize"
             /\ run.pc = "detaching" => queue[k].op = "detach"
             /\ queue[k].turn = run.turn
             /\ \A j \in 1..Len(queue) : j > k => queue[j].who = "acknowledge"
        /\ run.pc # "running" /\ reply["run"] # "wait" => queue[k].who = "acknowledge"

\* While the engine executes, a command of it or of a call is the one its
\* sender waits for.
Awaited(m) ==
    /\ m.turn = run.turn
    /\ m.who = "engine" =>
         /\ reply["engine"] = "wait"
         /\ engine.pc = "input"  => m.op = "input"
         /\ engine.pc = "item"   => m.op = engine.item.kind /\ m.arg = engine.item.id
         /\ engine.pc = "finish" => m.op = "finish"
         /\ engine.pc = "batch"  => m.op = "batch" /\ m.arg = engine.calls
    /\ m.who \in Calls => reply[m.who] = "wait" /\ m.op = task[m.who]
Handshake ==
    Live => \A k \in 1..Len(queue) : queue[k].who # "acknowledge" =>
        /\ Awaited(queue[k])
        /\ \A j \in 1..Len(queue) : j # k => queue[j].who # queue[k].who

\* A call of this run that is committed and not yet dispatched.
Fresh(c) == /\ ledger.call[c].turn = run.turn
            /\ ~ledger.call[c].intent
            /\ ledger.call[c].outcome = None

ActiveInv ==
    Live \/ (run.pc = "beginning" /\ reply["run"] = "ok")
        => ledger.run[run.turn].status = "active"

CallsFresh ==
    /\ engine.pc \in {"stream", "item", "finish"} =>
         \A k \in 1..Len(engine.calls) : Fresh(engine.calls[k])
    /\ engine.pc = "item" /\ reply["engine"] = "ok" /\ engine.item.kind = "call"
         => Fresh(engine.item.id)

\* What a task has reached, in the store and in the world.
TaskInv(c) ==
    /\ task[c] \in {"enter", "check"} => Fresh(c)
    /\ task[c] \in {"intent", "started", "running"} => ledger.call[c].turn = run.turn
    /\ task[c] \in {"intent", "started"} =>
         ledger.call[c].outcome = None /\ effect[c] = 0
    /\ task[c] = "intent" /\ reply[c] = "ok" => ledger.call[c].intent
    /\ task[c] \in {"started", "running"} => ledger.call[c].intent
    /\ task[c] = "running" => effect[c] = 1

\* The output that a call sends is that of its handler.
OutputsTrue == \A k \in 1..Len(queue) :
    queue[k].op = "outcome" /\ queue[k].arg = "output" => effect[queue[k].who] = 1

Barrier == \A c, d \in Calls : c # d /\ Holds(c) /\ Holds(d) => c \notin ExclusiveCalls

Control == Typed /\ Phases /\ RunLast /\ Handshake
World   == /\ ActiveInv /\ CallsFresh /\ (\A c \in Calls : TaskInv(c)) /\ OutputsTrue
           /\ EffectsIntended /\ ResultsTrue /\ Barrier
TurnInv == Control /\ World

(***************************************************************************)
(* The queue                                                               *)
(***************************************************************************)

\* q2 is q with the command m behind the others, or in front of them.
Pushed(q, q2, m) == /\ Len(q) \in Nat /\ Len(q2) = Len(q) + 1
                    /\ \A k \in 1..Len(q) : q2[k] = q[k]
                    /\ q2[Len(q) + 1] = m
Popped(q, q2, m) == /\ Len(q) \in Nat \ {0} /\ Len(q2) = Len(q) - 1
                    /\ \A k \in 1..Len(q2) : q2[k] = q[k + 1]
                    /\ q[1] = m

LEMMA QueuePushed ==
  ASSUME NEW q, Queue(q), NEW m, WellFormed(m)
  PROVE  Queue(Append(q, m)) /\ Pushed(q, Append(q, m), m)
<1> DEFINE S == {q[k] : k \in 1..Len(q)} \cup {m}
           q2 == Append(q, m)
<1>1. q \in Seq(S) /\ m \in S
  BY DEF Queue
<1> HIDE DEF S
<1>2. /\ q2 \in Seq(S) /\ Len(q2) = Len(q) + 1 /\ Len(q) \in Nat
      /\ \A k \in 1..Len(q) : q2[k] = q[k]
      /\ q2[Len(q) + 1] = m
  BY <1>1, AppendProperties, LenProperties
<1> HIDE DEF q2
<1>3. q2 \in Seq({q2[k] : k \in 1..Len(q2)})
  <2>1. q2 = [k \in 1..Len(q2) |-> q2[k]] /\ Len(q2) \in Nat
    BY <1>2, LenProperties
  <2>2. QED
    BY <2>1, IsASeq
<1>4. \A k \in 1..Len(q2) : WellFormed(q2[k])
  BY <1>2 DEF Queue
<1>5. QED
  BY <1>2, <1>3, <1>4 DEF Queue, Pushed, q2

LEMMA QueuePopped ==
  ASSUME NEW q, Queue(q), q # <<>>
  PROVE  /\ Queue(Tail(q)) /\ Popped(q, Tail(q), Head(q))
         /\ WellFormed(Head(q))
<1> DEFINE S == {q[k] : k \in 1..Len(q)}
           q2 == Tail(q)
<1>1. q \in Seq(S)
  BY DEF Queue
<1> HIDE DEF S
<1>2. /\ q2 \in Seq(S) /\ Len(q2) = Len(q) - 1 /\ Len(q) \in Nat \ {0}
      /\ \A k \in 1..Len(q2) : q2[k] = q[k + 1]
      /\ Head(q) = q[1]
  BY <1>1, HeadTailProperties, LenProperties, EmptySeq
<1> HIDE DEF q2
<1>3. q2 \in Seq({q2[k] : k \in 1..Len(q2)})
  <2>1. q2 = [k \in 1..Len(q2) |-> q2[k]] /\ Len(q2) \in Nat
    BY <1>2, LenProperties
  <2>2. QED
    BY <2>1, IsASeq
<1>4. \A k \in 1..Len(q2) : WellFormed(q2[k])
  <2>1. \A k \in 1..Len(q2) : k + 1 \in 1..Len(q)
    BY <1>2
  <2>2. QED
    BY <1>2, <2>1 DEF Queue
<1>5. WellFormed(Head(q))
  BY <1>2 DEF Queue
<1>6. QED
  BY <1>2, <1>3, <1>4, <1>5 DEF Queue, Popped, q2

LEMMA QueueEmpty == Queue(<<>>) /\ Len(<<>>) = 0
BY EmptySeq DEF Queue

(***************************************************************************)
(* What the control invariant says while the engine executes               *)
(***************************************************************************)
LEMMA TaskRuns ==
  ASSUME Typed, Phases, NEW c \in Calls, task[c] # "none"
  PROVE  /\ run.pc = "running" /\ engine.pc \in {"tools", "batch"} /\ Live
         /\ run.turn \in Turns /\ reply["run"] = "none"
BY DEF Typed, TypeOK, Phases, Live, Senders

LEMMA LiveSenders ==
  ASSUME Control, Live, NEW k \in 1..Len(queue)
  PROVE  queue[k].who \in {"engine", "acknowledge"} \cup Calls
<1>1. WellFormed(queue[k])
  BY DEF Control, Typed, Queue
<1>2. reply["run"] # "wait"
  BY DEF Control, Phases, Live
<1>3. queue[k].who # "run"
  BY <1>2 DEF Control, RunLast
<1>4. QED
  BY <1>1, <1>3 DEF WellFormed

\* Nobody has sent anything: an engine that does not wait works alone.
LEMMA EngineAlone ==
  ASSUME Control, Live, \A c \in Calls : reply[c] # "wait", reply["engine"] # "wait",
         NEW k \in 1..Len(queue)
  PROVE  queue[k].who = "acknowledge"
BY LiveSenders DEF Control, Handshake, Awaited


(***************************************************************************)
(* The daemon's steps keep the invariant                                   *)
(***************************************************************************)
LEMMA StartRunInv ==
  ASSUME TurnInv, NEW t \in Turns, NEW i \in Items, StartRun(t, i)
  PROVE  TurnInv'
<1> USE TurnAssumption DEF TurnInv, Control, World
<1> DEFINE m == [op |-> "begin", turn |-> t, arg |-> i, who |-> "run"]
<1>1. Queue(queue') /\ Pushed(queue, queue', m)
  BY QueuePushed DEF StartRun, store, journal, Typed, Phases, WellFormed, EngineItems
<1>2. Typed'
  BY <1>1 DEF StartRun, store, journal, Typed, Phases, TypeOK, Senders
<1>3. Phases'
  BY <1>1 DEF StartRun, store, journal, Phases, Typed, TypeOK, Senders
<1>4. RunLast'
  BY <1>1 DEF StartRun, RunLast, Phases, Typed, TypeOK, Senders, Pushed
<1>5. Handshake'
  BY <1>1 DEF StartRun, store, journal, Handshake, Awaited, Live, RunLast, Phases, Typed, TypeOK, Senders, Pushed
<1>6. ActiveInv' /\ CallsFresh'
  BY <1>1 DEF StartRun, store, journal, ActiveInv, CallsFresh, Fresh, Phases, Live, Typed, TypeOK, Senders
<1>7. \A d \in Calls : TaskInv(d)'
  BY <1>1 DEF StartRun, store, journal, TaskInv, Fresh, Phases, Typed, TypeOK, Senders
<1>8. OutputsTrue'
  BY <1>1 DEF StartRun, store, journal, OutputsTrue, Pushed
<1>9. EffectsIntended' /\ ResultsTrue' /\ Barrier'
  BY <1>1 DEF StartRun, store, journal, EffectsIntended, ResultsTrue, Barrier, Holds, TypeOK, Typed
<1>10. QED
  BY <1>2, <1>3, <1>4, <1>5, <1>6, <1>7, <1>8, <1>9

LEMMA RunBegunInv ==
  ASSUME TurnInv, RunBegun
  PROVE  TurnInv'
<1> USE TurnAssumption DEF TurnInv, Control, World
<1>2. Typed'
  <2>1. memory' \in Seq(Item)
    BY DEF RunBegun, Phases, Typed, TypeOK, Item
  <2>2. engine' = [pc |-> "step", item |-> None, calls |-> <<>>, steps |-> 0, usage |-> 0]
    BY DEF RunBegun, NoEngine
  <2>3. run' = [pc |-> "running", turn |-> run.turn, input |-> run.input]
    BY DEF RunBegun, Typed
  <2>4. /\ reply' = [reply EXCEPT !["run"] = "none"] /\ token' = FALSE
        /\ UNCHANGED <<poison, up, task, effect>>
    BY DEF RunBegun, store, Took
  <2>5. TypeOK'
    <3>1. engine'.steps \in 0..MaxSteps
      BY <2>2
    <3>2. reply' \in [Senders -> {"none", "wait", "ok", "error", "refused"}]
      BY <2>4 DEF Typed, TypeOK, Senders
    <3>3. QED
      BY <2>1, <2>2, <2>3, <2>4, <3>1, <3>2 DEF Typed, TypeOK
  <2>6. engine'.calls \in Seq(Calls) /\ engine'.usage \in Nat
    BY <2>2
  <2>7. QED
    BY <2>2, <2>3, <2>5, <2>6 DEF RunBegun, store, Took, Typed
<1>3. Phases'
  BY DEF RunBegun, store, journal, Took, NoEngine, Phases, Typed, TypeOK, Senders
<1>4. RunLast'
  BY DEF RunBegun, store, journal, Took, RunLast, Phases, Typed, TypeOK, Senders
<1>5. Handshake'
  BY DEF RunBegun, store, journal, Took, Handshake, Awaited, Live, RunLast, Phases, Typed, TypeOK, Senders
<1>6. ActiveInv' /\ CallsFresh'
  BY DEF RunBegun, store, journal, Took, ActiveInv, CallsFresh, Fresh, Phases, Live, Typed, TypeOK, Senders
<1>7. \A d \in Calls : TaskInv(d)'
  BY DEF RunBegun, store, journal, Took, TaskInv, Fresh, Phases, Typed, TypeOK, Senders
<1>8. OutputsTrue'
  BY DEF RunBegun, store, journal, Took, OutputsTrue
<1>9. EffectsIntended' /\ ResultsTrue' /\ Barrier'
  BY DEF RunBegun, store, journal, Took, EffectsIntended, ResultsTrue, Barrier, Holds, TypeOK, Typed
<1>10. QED
  BY <1>2, <1>3, <1>4, <1>5, <1>6, <1>7, <1>8, <1>9

LEMMA RunUnstartedInv ==
  ASSUME TurnInv, RunUnstarted
  PROVE  TurnInv'
<1> USE TurnAssumption DEF TurnInv, Control, World
<1>2. Typed'
  <2>1. engine' = [pc |-> "failed", item |-> None, calls |-> <<>>, steps |-> 0, usage |-> 0]
    BY DEF RunUnstarted, NoEngine
  <2>2. run' = [pc |-> "running", turn |-> run.turn, input |-> run.input]
    BY DEF RunUnstarted, Typed
  <2>3. TypeOK'
    BY <2>1, <2>2 DEF RunUnstarted, store, Took, Typed, TypeOK, Senders
  <2>4. engine'.calls \in Seq(Calls) /\ engine'.usage \in Nat
    BY <2>1
  <2>5. QED
    BY <2>1, <2>2, <2>3, <2>4 DEF RunUnstarted, store, Took, Typed
<1>3. Phases'
  BY DEF RunUnstarted, store, journal, Took, Phases, Typed, TypeOK, Senders
<1>4. RunLast'
  BY DEF RunUnstarted, store, journal, Took, RunLast, Phases, Typed, TypeOK, Senders
<1>5. Handshake'
  BY DEF RunUnstarted, store, journal, Took, Handshake, Awaited, Live, RunLast, Phases, Typed, TypeOK, Senders
<1>6. ActiveInv' /\ CallsFresh'
  BY DEF RunUnstarted, store, journal, Took, ActiveInv, CallsFresh, Fresh, Phases, Live, Typed, TypeOK, Senders
<1>7. \A d \in Calls : TaskInv(d)'
  BY DEF RunUnstarted, store, journal, Took, TaskInv, Fresh, Phases, Typed, TypeOK, Senders
<1>8. OutputsTrue'
  BY DEF RunUnstarted, store, journal, Took, OutputsTrue
<1>9. EffectsIntended' /\ ResultsTrue' /\ Barrier'
  BY DEF RunUnstarted, store, journal, Took, EffectsIntended, ResultsTrue, Barrier, Holds, TypeOK, Typed
<1>10. QED
  BY <1>2, <1>3, <1>4, <1>5, <1>6, <1>7, <1>8, <1>9

LEMMA RunWithdrawnInv ==
  ASSUME TurnInv, RunWithdrawn
  PROVE  TurnInv'
<1> USE TurnAssumption DEF TurnInv, Control, World
<1>2. Typed'
  BY DEF RunWithdrawn, store, journal, Took, Idle, Typed, Phases, TypeOK, Senders
<1>3. Phases'
  BY DEF RunWithdrawn, store, journal, Took, Idle, Phases, Typed, TypeOK, Senders
<1>4. RunLast'
  BY DEF RunWithdrawn, store, journal, Took, Idle, RunLast, Phases, Typed, TypeOK, Senders
<1>5. Handshake'
  BY DEF RunWithdrawn, store, journal, Took, Idle, Handshake, Awaited, Live, RunLast, Phases, Typed, TypeOK, Senders
<1>6. ActiveInv' /\ CallsFresh'
  BY DEF RunWithdrawn, store, journal, Took, Idle, ActiveInv, CallsFresh, Fresh, Phases, Live, Typed, TypeOK, Senders
<1>7. \A d \in Calls : TaskInv(d)'
  BY DEF RunWithdrawn, store, journal, Took, Idle, TaskInv, Fresh, Phases, Typed, TypeOK, Senders
<1>8. OutputsTrue'
  BY DEF RunWithdrawn, store, journal, Took, Idle, OutputsTrue
<1>9. EffectsIntended' /\ ResultsTrue' /\ Barrier'
  BY DEF RunWithdrawn, store, journal, Took, Idle, EffectsIntended, ResultsTrue, Barrier, Holds, TypeOK, Typed
<1>10. QED
  BY <1>2, <1>3, <1>4, <1>5, <1>6, <1>7, <1>8, <1>9

LEMMA AcknowledgingInv ==
  ASSUME TurnInv, Acknowledging
  PROVE  TurnInv'
<1> USE TurnAssumption DEF TurnInv, Control, World
<1> DEFINE m == [op |-> "acknowledge", turn |-> run.turn, arg |-> None, who |-> "acknowledge"]
<1>1. Queue(queue') /\ Pushed(queue, queue', m)
  BY QueuePushed DEF Acknowledging, store, journal, Send, Typed, Phases, WellFormed, EngineItems
<1>2. Typed'
  BY <1>1 DEF Acknowledging, store, journal, Send, Typed, Phases, TypeOK, Senders
<1>3. Phases'
  BY <1>1 DEF Acknowledging, store, journal, Send, Phases, Typed, TypeOK, Senders
<1>4. RunLast'
  BY <1>1 DEF Acknowledging, store, journal, Send, RunLast, Phases, Typed, TypeOK, Senders, Pushed
<1>5. Handshake'
  BY <1>1 DEF Acknowledging, store, journal, Send, Handshake, Awaited, Live, RunLast, Phases, Typed, TypeOK, Senders, Pushed
<1>6. ActiveInv' /\ CallsFresh'
  BY <1>1 DEF Acknowledging, store, journal, Send, ActiveInv, CallsFresh, Fresh, Phases, Live, Typed, TypeOK, Senders
<1>7. \A d \in Calls : TaskInv(d)'
  BY <1>1 DEF Acknowledging, store, journal, Send, TaskInv, Fresh, Phases, Typed, TypeOK, Senders
<1>8. OutputsTrue'
  BY <1>1 DEF Acknowledging, store, journal, Send, OutputsTrue, Pushed
<1>9. EffectsIntended' /\ ResultsTrue' /\ Barrier'
  BY <1>1 DEF Acknowledging, store, journal, Send, EffectsIntended, ResultsTrue, Barrier, Holds, TypeOK, Typed
<1>10. QED
  BY <1>2, <1>3, <1>4, <1>5, <1>6, <1>7, <1>8, <1>9

LEMMA CancelRunInv ==
  ASSUME TurnInv, CancelRun
  PROVE  TurnInv'
<1> USE TurnAssumption DEF TurnInv, Control, World
<1>2. Typed'
  BY DEF CancelRun, store, journal, Typed, Phases, TypeOK, Senders
<1>3. Phases'
  BY DEF CancelRun, store, journal, Phases, Typed, TypeOK, Senders
<1>4. RunLast'
  BY DEF CancelRun, store, journal, RunLast, Phases, Typed, TypeOK, Senders
<1>5. Handshake'
  BY DEF CancelRun, store, journal, Handshake, Awaited, Live, RunLast, Phases, Typed, TypeOK, Senders
<1>6. ActiveInv' /\ CallsFresh'
  BY DEF CancelRun, store, journal, ActiveInv, CallsFresh, Fresh, Phases, Live, Typed, TypeOK, Senders
<1>7. \A d \in Calls : TaskInv(d)'
  BY DEF CancelRun, store, journal, TaskInv, Fresh, Phases, Typed, TypeOK, Senders
<1>8. OutputsTrue'
  BY DEF CancelRun, store, journal, OutputsTrue
<1>9. EffectsIntended' /\ ResultsTrue' /\ Barrier'
  BY DEF CancelRun, store, journal, EffectsIntended, ResultsTrue, Barrier, Holds, TypeOK, Typed
<1>10. QED
  BY <1>2, <1>3, <1>4, <1>5, <1>6, <1>7, <1>8, <1>9

LEMMA StopInv ==
  ASSUME TurnInv, Stop
  PROVE  TurnInv'
<1> USE TurnAssumption DEF TurnInv, Control, World
<1>2. Typed'
  BY DEF Stop, store, journal, NoTasks, Typed, Phases, TypeOK, Senders
<1>3. Phases'
  BY DEF Stop, store, journal, NoTasks, Phases, Typed, TypeOK, Senders
<1>4. RunLast'
  BY DEF Stop, store, journal, NoTasks, RunLast, Phases, Typed, TypeOK, Senders
<1>5. Handshake'
  BY DEF Stop, store, journal, NoTasks, Handshake, Awaited, Live, RunLast, Phases, Typed, TypeOK, Senders
<1>6. ActiveInv' /\ CallsFresh'
  BY DEF Stop, store, journal, NoTasks, ActiveInv, CallsFresh, Fresh, Phases, Live, Typed, TypeOK, Senders
<1>7. \A d \in Calls : TaskInv(d)'
  BY DEF Stop, store, journal, NoTasks, TaskInv, Fresh, Phases, Typed, TypeOK, Senders
<1>8. OutputsTrue'
  BY DEF Stop, store, journal, NoTasks, OutputsTrue
<1>9. EffectsIntended' /\ ResultsTrue' /\ Barrier'
  BY DEF Stop, store, journal, NoTasks, EffectsIntended, ResultsTrue, Barrier, Holds, TypeOK, Typed
<1>10. QED
  BY <1>2, <1>3, <1>4, <1>5, <1>6, <1>7, <1>8, <1>9

LEMMA SettleInv ==
  ASSUME TurnInv, Settle
  PROVE  TurnInv'
<1> USE TurnAssumption DEF TurnInv, Control, World
<1>0. PICK s \in Terminal : queue' = Append(queue, [op |-> "finalize", turn |-> run.turn, arg |-> s, who |-> "run"])
  BY DEF Settle, store, journal, Send, Outcomes, Terminal, EngineItems
<1> DEFINE m == [op |-> "finalize", turn |-> run.turn, arg |-> s, who |-> "run"]
<1>1. Queue(queue') /\ Pushed(queue, queue', m)
  BY <1>0, QueuePushed DEF Settle, store, journal, Send, Outcomes, Terminal, Typed, Phases, WellFormed, EngineItems
<1>2. Typed'
  BY <1>1 DEF Settle, store, Send, Typed, Phases, TypeOK, Senders
<1>3. Phases'
  BY <1>0, <1>1 DEF Settle, store, journal, Send, Outcomes, Terminal, Phases, Typed, TypeOK, Senders
<1>4. RunLast'
  BY <1>0, <1>1 DEF Settle, store, journal, Send, Outcomes, Terminal, RunLast, Phases, Typed, TypeOK, Senders, Pushed
<1>5. Handshake'
  BY <1>0, <1>1 DEF Settle, store, journal, Send, Outcomes, Terminal, Handshake, Awaited, Live, RunLast, Phases, Typed, TypeOK, Senders, Pushed
<1>6. ActiveInv' /\ CallsFresh'
  BY <1>0, <1>1 DEF Settle, store, journal, Send, Outcomes, Terminal, ActiveInv, CallsFresh, Fresh, Phases, Live, Typed, TypeOK, Senders
<1>7. \A d \in Calls : TaskInv(d)'
  BY <1>0, <1>1 DEF Settle, store, journal, Send, Outcomes, Terminal, TaskInv, Fresh, Phases, Typed, TypeOK, Senders
<1>8. OutputsTrue'
  BY <1>0, <1>1 DEF Settle, store, journal, Send, Outcomes, Terminal, OutputsTrue, Pushed
<1>9. EffectsIntended' /\ ResultsTrue' /\ Barrier'
  BY <1>0, <1>1 DEF Settle, store, journal, Send, Outcomes, Terminal, EffectsIntended, ResultsTrue, Barrier, Holds, TypeOK, Typed
<1>10. QED
  BY <1>2, <1>3, <1>4, <1>5, <1>6, <1>7, <1>8, <1>9

LEMMA SettledInv ==
  ASSUME TurnInv, Settled
  PROVE  TurnInv'
<1> USE TurnAssumption DEF TurnInv, Control, World
<1>2. Typed'
  <2>1. memory' \in Seq(Item)
    BY DEF Settled, Typed, Sound, LedgerType
  <2>2. QED
    BY <2>1 DEF Settled, store, journal, Took, Idle, NoEngine, Typed, Phases, TypeOK, Senders
<1>3. Phases'
  BY DEF Settled, store, journal, Took, Idle, NoEngine, Phases, Typed, TypeOK, Senders
<1>4. RunLast'
  BY DEF Settled, store, journal, Took, Idle, NoEngine, RunLast, Phases, Typed, TypeOK, Senders
<1>5. Handshake'
  BY DEF Settled, store, journal, Took, Idle, NoEngine, Handshake, Awaited, Live, RunLast, Phases, Typed, TypeOK, Senders
<1>6. ActiveInv' /\ CallsFresh'
  BY DEF Settled, store, journal, Took, Idle, NoEngine, ActiveInv, CallsFresh, Fresh, Phases, Live, Typed, TypeOK, Senders
<1>7. \A d \in Calls : TaskInv(d)'
  BY DEF Settled, store, journal, Took, Idle, NoEngine, TaskInv, Fresh, Phases, Typed, TypeOK, Senders
<1>8. OutputsTrue'
  BY DEF Settled, store, journal, Took, Idle, NoEngine, OutputsTrue
<1>9. EffectsIntended' /\ ResultsTrue' /\ Barrier'
  BY DEF Settled, store, journal, Took, Idle, NoEngine, EffectsIntended, ResultsTrue, Barrier, Holds, TypeOK, Typed
<1>10. QED
  BY <1>2, <1>3, <1>4, <1>5, <1>6, <1>7, <1>8, <1>9

LEMMA AcknowledgedInv ==
  ASSUME TurnInv, Acknowledged
  PROVE  TurnInv'
<1> USE TurnAssumption DEF TurnInv, Control, World
<1>2. Typed'
  BY DEF Acknowledged, store, journal, Typed, Phases, TypeOK, Senders
<1>3. Phases'
  BY DEF Acknowledged, store, journal, Phases, Typed, TypeOK, Senders
<1>4. RunLast'
  BY DEF Acknowledged, store, journal, RunLast, Phases, Typed, TypeOK, Senders
<1>5. Handshake'
  BY DEF Acknowledged, store, journal, Handshake, Awaited, Live, RunLast, Phases, Typed, TypeOK, Senders
<1>6. ActiveInv' /\ CallsFresh'
  BY DEF Acknowledged, store, journal, ActiveInv, CallsFresh, Fresh, Phases, Live, Typed, TypeOK, Senders
<1>7. \A d \in Calls : TaskInv(d)'
  BY DEF Acknowledged, store, journal, TaskInv, Fresh, Phases, Typed, TypeOK, Senders
<1>8. OutputsTrue'
  BY DEF Acknowledged, store, journal, OutputsTrue
<1>9. EffectsIntended' /\ ResultsTrue' /\ Barrier'
  BY DEF Acknowledged, store, journal, EffectsIntended, ResultsTrue, Barrier, Holds, TypeOK, Typed
<1>10. QED
  BY <1>2, <1>3, <1>4, <1>5, <1>6, <1>7, <1>8, <1>9

LEMMA DetachingInv ==
  ASSUME TurnInv, Detaching
  PROVE  TurnInv'
<1> USE TurnAssumption DEF TurnInv, Control, World
<1> DEFINE m == [op |-> "detach", turn |-> run.turn, arg |-> None, who |-> "run"]
<1>1. Queue(queue') /\ Pushed(queue, queue', m)
  BY QueuePushed DEF Detaching, store, journal, Send, Typed, Phases, WellFormed, EngineItems
<1>2. Typed'
  BY <1>1 DEF Detaching, store, journal, Send, Typed, Phases, TypeOK, Senders
<1>3. Phases'
  BY <1>1 DEF Detaching, store, journal, Send, Phases, Typed, TypeOK, Senders
<1>4. RunLast'
  BY <1>1 DEF Detaching, store, journal, Send, RunLast, Phases, Typed, TypeOK, Senders, Pushed
<1>5. Handshake'
  BY <1>1 DEF Detaching, store, journal, Send, Handshake, Awaited, Live, RunLast, Phases, Typed, TypeOK, Senders, Pushed
<1>6. ActiveInv' /\ CallsFresh'
  BY <1>1 DEF Detaching, store, journal, Send, ActiveInv, CallsFresh, Fresh, Phases, Live, Typed, TypeOK, Senders
<1>7. \A d \in Calls : TaskInv(d)'
  BY <1>1 DEF Detaching, store, journal, Send, TaskInv, Fresh, Phases, Typed, TypeOK, Senders
<1>8. OutputsTrue'
  BY <1>1 DEF Detaching, store, journal, Send, OutputsTrue, Pushed
<1>9. EffectsIntended' /\ ResultsTrue' /\ Barrier'
  BY <1>1 DEF Detaching, store, journal, Send, EffectsIntended, ResultsTrue, Barrier, Holds, TypeOK, Typed
<1>10. QED
  BY <1>2, <1>3, <1>4, <1>5, <1>6, <1>7, <1>8, <1>9

LEMMA DetachedInv ==
  ASSUME TurnInv, Detached
  PROVE  TurnInv'
<1> USE TurnAssumption DEF TurnInv, Control, World
<1>2. Typed'
  <2>1. memory' \in Seq(Item)
    BY DEF Detached
  <2>2. QED
    BY <2>1 DEF Detached, store, journal, Took, Idle, NoEngine, Typed, Phases, TypeOK, Senders
<1>3. Phases'
  BY DEF Detached, store, journal, Took, Idle, Phases, Typed, TypeOK, Senders
<1>4. RunLast'
  BY DEF Detached, store, journal, Took, Idle, RunLast, Phases, Typed, TypeOK, Senders
<1>5. Handshake'
  BY DEF Detached, store, journal, Took, Idle, Handshake, Awaited, Live, RunLast, Phases, Typed, TypeOK, Senders
<1>6. ActiveInv' /\ CallsFresh'
  BY DEF Detached, store, journal, Took, Idle, ActiveInv, CallsFresh, Fresh, Phases, Live, Typed, TypeOK, Senders
<1>7. \A d \in Calls : TaskInv(d)'
  BY DEF Detached, store, journal, Took, Idle, TaskInv, Fresh, Phases, Typed, TypeOK, Senders
<1>8. OutputsTrue'
  BY DEF Detached, store, journal, Took, Idle, OutputsTrue
<1>9. EffectsIntended' /\ ResultsTrue' /\ Barrier'
  BY DEF Detached, store, journal, Took, Idle, EffectsIntended, ResultsTrue, Barrier, Holds, TypeOK, Typed
<1>10. QED
  BY <1>2, <1>3, <1>4, <1>5, <1>6, <1>7, <1>8, <1>9

LEMMA GiveUpInv ==
  ASSUME TurnInv, GiveUp
  PROVE  TurnInv'
<1> USE TurnAssumption DEF TurnInv, Control, World
<1>2. Typed'
  <2>1. memory' \in Seq(Item) /\ up' \in BOOLEAN
    <3>1. CASE run.pc = "detaching"
      <4>1. memory' = <<>> /\ up' = FALSE
        BY <3>1 DEF GiveUp
      <4>2. QED
        BY <4>1, EmptySeq
    <3>2. CASE run.pc # "detaching"
      BY <3>2 DEF GiveUp, Typed, TypeOK
    <3>3. QED
      BY <3>1, <3>2
  <2>2. QED
    BY <2>1 DEF GiveUp, store, journal, Idle, NoEngine, Typed, Phases, TypeOK, Senders
<1>3. Phases'
  BY DEF GiveUp, store, journal, Idle, NoEngine, Phases, Typed, TypeOK, Senders
<1>4. RunLast'
  BY DEF GiveUp, store, journal, Idle, NoEngine, RunLast, Phases, Typed, TypeOK, Senders
<1>5. Handshake'
  BY DEF GiveUp, store, journal, Idle, NoEngine, Handshake, Awaited, Live, RunLast, Phases, Typed, TypeOK, Senders
<1>6. ActiveInv' /\ CallsFresh'
  BY DEF GiveUp, store, journal, Idle, NoEngine, ActiveInv, CallsFresh, Fresh, Phases, Live, Typed, TypeOK, Senders
<1>7. \A d \in Calls : TaskInv(d)'
  BY DEF GiveUp, store, journal, Idle, NoEngine, TaskInv, Fresh, Phases, Typed, TypeOK, Senders
<1>8. OutputsTrue'
  BY DEF GiveUp, store, journal, Idle, NoEngine, OutputsTrue
<1>9. EffectsIntended' /\ ResultsTrue' /\ Barrier'
  BY DEF GiveUp, store, journal, Idle, NoEngine, EffectsIntended, ResultsTrue, Barrier, Holds, TypeOK, Typed
<1>10. QED
  BY <1>2, <1>3, <1>4, <1>5, <1>6, <1>7, <1>8, <1>9


(***************************************************************************)
(* The engine's steps                                                      *)
(***************************************************************************)
LEMMA EngineInputInv ==
  ASSUME TurnInv, EngineInput
  PROVE  TurnInv'
<1> USE TurnAssumption DEF TurnInv, Control, World
<1> DEFINE m == [op |-> "input", turn |-> run.turn, arg |-> None, who |-> "engine"]
<1>1. Queue(queue') /\ Pushed(queue, queue', m)
  BY QueuePushed DEF EngineInput, store, journal, Send, In, Typed, Phases, WellFormed, EngineItems
<1>2. Typed'
  BY <1>1 DEF EngineInput, store, journal, Send, In, Typed, Phases, TypeOK, Senders
<1>3. Phases'
  BY <1>1 DEF EngineInput, store, journal, Send, In, Phases, Typed, TypeOK, Senders
<1>4. RunLast'
  BY <1>1 DEF EngineInput, store, journal, Send, In, RunLast, Phases, Typed, TypeOK, Senders, Pushed
<1>5. Handshake'
  BY <1>1 DEF EngineInput, store, journal, Send, In, Handshake, Awaited, Live, RunLast, Phases, Typed, TypeOK, Senders, Pushed
<1>6. ActiveInv' /\ CallsFresh'
  BY <1>1 DEF EngineInput, store, journal, Send, In, ActiveInv, CallsFresh, Fresh, Phases, Live, Typed, TypeOK, Senders
<1>7. \A d \in Calls : TaskInv(d)'
  BY <1>1 DEF EngineInput, store, journal, Send, In, TaskInv, Fresh, Phases, Typed, TypeOK, Senders
<1>8. OutputsTrue'
  BY <1>1 DEF EngineInput, store, journal, Send, In, OutputsTrue, Pushed
<1>9. EffectsIntended' /\ ResultsTrue' /\ Barrier'
  BY <1>1 DEF EngineInput, store, journal, Send, In, EffectsIntended, ResultsTrue, Barrier, Holds, TypeOK, Typed
<1>10. QED
  BY <1>2, <1>3, <1>4, <1>5, <1>6, <1>7, <1>8, <1>9

LEMMA EngineStreamInv ==
  ASSUME TurnInv, EngineStream
  PROVE  TurnInv'
<1> USE TurnAssumption DEF TurnInv, Control, World
<1>2. Typed'
  <2>1. engine'.steps \in 0..MaxSteps
    BY DEF EngineStream, In, Typed, Phases, TypeOK
  <2>2. engine' = [pc |-> "stream", item |-> engine.item, calls |-> <<>>,
                   steps |-> engine'.steps, usage |-> engine.usage]
    BY DEF EngineStream, Typed
  <2>3. <<>> \in Seq(Calls)
    OBVIOUS
  <2>4. QED
    BY <2>1, <2>2, <2>3 DEF EngineStream, store, journal, Took, Typed, TypeOK, Senders
<1>3. Phases'
  BY DEF EngineStream, store, journal, Took, In, Phases, Typed, TypeOK, Senders
<1>4. RunLast'
  BY DEF EngineStream, store, journal, Took, In, RunLast, Phases, Typed, TypeOK, Senders
<1>5. Handshake'
  BY DEF EngineStream, store, journal, Took, In, Handshake, Awaited, Live, RunLast, Phases, Typed, TypeOK, Senders
<1>6. ActiveInv' /\ CallsFresh'
  BY DEF EngineStream, store, journal, Took, In, ActiveInv, CallsFresh, Fresh, Phases, Live, Typed, TypeOK, Senders
<1>7. \A d \in Calls : TaskInv(d)'
  BY DEF EngineStream, store, journal, Took, In, TaskInv, Fresh, Phases, Typed, TypeOK, Senders
<1>8. OutputsTrue'
  BY DEF EngineStream, store, journal, Took, In, OutputsTrue
<1>9. EffectsIntended' /\ ResultsTrue' /\ Barrier'
  BY DEF EngineStream, store, journal, Took, In, EffectsIntended, ResultsTrue, Barrier, Holds, TypeOK, Typed
<1>10. QED
  BY <1>2, <1>3, <1>4, <1>5, <1>6, <1>7, <1>8, <1>9

LEMMA EngineItemInv ==
  ASSUME TurnInv, EngineItem
  PROVE  TurnInv'
<1> USE TurnAssumption DEF TurnInv, Control, World
<1>0. PICK item \in EngineItems :
         /\ queue' = Append(queue, [op |-> item.kind, turn |-> run.turn, arg |-> item.id,
                                    who |-> "engine"])
         /\ engine' = [engine EXCEPT !.pc = "item", !.item = item]
  BY DEF EngineItem, Send, EngineItems
<1> DEFINE m == [op |-> item.kind, turn |-> run.turn, arg |-> item.id, who |-> "engine"]
<1>1. Queue(queue') /\ Pushed(queue, queue', m)
  BY <1>0, QueuePushed DEF EngineItem, store, journal, Send, In, Typed, Phases, WellFormed, EngineItems
<1>2. Typed'
  BY <1>0, <1>1 DEF EngineItem, store, journal, Send, In, Typed, Phases, TypeOK, Senders
<1>3. Phases'
  <2>1. engine'.pc = "item" /\ engine'.item = item
    BY <1>0 DEF Typed
  <2>2. reply' = [reply EXCEPT !["engine"] = "wait"] /\ UNCHANGED <<run, task, up>>
    BY DEF EngineItem, Send
  <2>3. \A c \in Calls : task[c] = "none"
    BY DEF EngineItem, In, Phases
  <2>4. QED
    BY <2>1, <2>2, <2>3 DEF EngineItem, In, Phases, Typed, TypeOK, Senders
<1>4. RunLast'
  BY <1>0, <1>1 DEF EngineItem, store, journal, Send, In, RunLast, Phases, Typed, TypeOK, Senders, Pushed
<1>5. Handshake'
  BY <1>0, <1>1 DEF EngineItem, store, journal, Send, In, Handshake, Awaited, Live, RunLast, Phases, Typed, TypeOK, Senders, Pushed
<1>6. ActiveInv' /\ CallsFresh'
  BY <1>0, <1>1 DEF EngineItem, store, journal, Send, In, ActiveInv, CallsFresh, Fresh, Phases, Live, Typed, TypeOK, Senders
<1>7. \A d \in Calls : TaskInv(d)'
  BY <1>0, <1>1 DEF EngineItem, store, journal, Send, In, TaskInv, Fresh, Phases, Typed, TypeOK, Senders
<1>8. OutputsTrue'
  BY <1>0, <1>1 DEF EngineItem, store, journal, Send, In, OutputsTrue, Pushed
<1>9. EffectsIntended' /\ ResultsTrue' /\ Barrier'
  BY <1>0, <1>1 DEF EngineItem, store, journal, Send, In, EffectsIntended, ResultsTrue, Barrier, Holds, TypeOK, Typed
<1>10. QED
  BY <1>2, <1>3, <1>4, <1>5, <1>6, <1>7, <1>8, <1>9

LEMMA EngineAppendInv ==
  ASSUME TurnInv, EngineAppend
  PROVE  TurnInv'
<1> USE TurnAssumption DEF TurnInv, Control, World
<1>2. Typed'
  <2>1. engine.item \in Item /\ (engine.item.kind = "call" => engine.item.id \in Calls)
    BY DEF EngineAppend, In, Phases, EngineItems, Item
  <2>2. memory' \in Seq(Item)
    BY <2>1 DEF EngineAppend, Typed, TypeOK
  <2>3. engine'.calls \in Seq(Calls)
    BY <2>1 DEF EngineAppend, Typed
  <2>4. QED
    BY <2>2, <2>3 DEF EngineAppend, In, store, journal, Took, Typed, Phases, TypeOK, Senders
<1>3. Phases'
  BY DEF EngineAppend, store, journal, Took, In, Phases, Typed, TypeOK, Senders
<1>4. RunLast'
  BY DEF EngineAppend, store, journal, Took, In, RunLast, Phases, Typed, TypeOK, Senders
<1>5. Handshake'
  BY DEF EngineAppend, store, journal, Took, In, Handshake, Awaited, Live, RunLast, Phases, Typed, TypeOK, Senders
<1>6. ActiveInv' /\ CallsFresh'
  BY DEF EngineAppend, store, journal, Took, In, ActiveInv, CallsFresh, Fresh, Phases, Live, Typed, TypeOK, Senders
<1>7. \A d \in Calls : TaskInv(d)'
  BY DEF EngineAppend, store, journal, Took, In, TaskInv, Fresh, Phases, Typed, TypeOK, Senders
<1>8. OutputsTrue'
  BY DEF EngineAppend, store, journal, Took, In, OutputsTrue
<1>9. EffectsIntended' /\ ResultsTrue' /\ Barrier'
  BY DEF EngineAppend, store, journal, Took, In, EffectsIntended, ResultsTrue, Barrier, Holds, TypeOK, Typed
<1>10. QED
  BY <1>2, <1>3, <1>4, <1>5, <1>6, <1>7, <1>8, <1>9

LEMMA EngineFinishInv ==
  ASSUME TurnInv, NEW u \in Usages, EngineFinish(u)
  PROVE  TurnInv'
<1> USE TurnAssumption DEF TurnInv, Control, World
<1> DEFINE m == [op |-> "finish", turn |-> run.turn, arg |-> u, who |-> "engine"]
<1>1. Queue(queue') /\ Pushed(queue, queue', m)
  BY QueuePushed DEF EngineFinish, store, journal, Send, In, Typed, Phases, WellFormed, EngineItems
<1>2. Typed'
  <2>1. engine'.usage \in Nat
    BY StateAssumption DEF EngineFinish, Typed
  <2>2. QED
    BY <1>1, <2>1 DEF EngineFinish, In, Send, store, journal, Typed, Phases, TypeOK, Senders
<1>3. Phases'
  BY <1>1 DEF EngineFinish, store, journal, Send, In, Phases, Typed, TypeOK, Senders
<1>4. RunLast'
  BY <1>1 DEF EngineFinish, store, journal, Send, In, RunLast, Phases, Typed, TypeOK, Senders, Pushed
<1>5. Handshake'
  BY <1>1 DEF EngineFinish, store, journal, Send, In, Handshake, Awaited, Live, RunLast, Phases, Typed, TypeOK, Senders, Pushed
<1>6. ActiveInv' /\ CallsFresh'
  BY <1>1 DEF EngineFinish, store, journal, Send, In, ActiveInv, CallsFresh, Fresh, Phases, Live, Typed, TypeOK, Senders
<1>7. \A d \in Calls : TaskInv(d)'
  BY <1>1 DEF EngineFinish, store, journal, Send, In, TaskInv, Fresh, Phases, Typed, TypeOK, Senders
<1>8. OutputsTrue'
  BY <1>1 DEF EngineFinish, store, journal, Send, In, OutputsTrue, Pushed
<1>9. EffectsIntended' /\ ResultsTrue' /\ Barrier'
  BY <1>1 DEF EngineFinish, store, journal, Send, In, EffectsIntended, ResultsTrue, Barrier, Holds, TypeOK, Typed
<1>10. QED
  BY <1>2, <1>3, <1>4, <1>5, <1>6, <1>7, <1>8, <1>9

LEMMA EngineDispatchInv ==
  ASSUME TurnInv, EngineDispatch
  PROVE  TurnInv'
<1> USE TurnAssumption DEF TurnInv, Control, World
<1>2. Typed'
  BY DEF EngineDispatch, store, journal, Took, In, Typed, Phases, TypeOK, Senders
<1>0. /\ engine'.pc \in {"completed", "tools"}
      /\ engine'.calls = engine.calls
      /\ engine'.pc = "completed" => engine.calls = <<>>
      /\ \A c \in Calls : task'[c] \in {"none", "enter"}
      /\ \A c \in Calls : task'[c] = "enter" =>
           \E k \in DOMAIN engine.calls : engine.calls[k] = c
      /\ reply["engine"] = "ok" /\ reply' = [reply EXCEPT !["engine"] = "none"]
      /\ Live /\ engine.pc = "finish"
  BY DEF EngineDispatch, Took, In, Live, Typed
<1>1. \A c \in Calls : reply[c] = "none"
  BY <1>0 DEF Phases, Typed, TypeOK, Senders
<1>a. \A k \in 1..Len(queue) : queue[k].who = "acknowledge"
  BY <1>0, <1>1, EngineAlone
<1>b. DOMAIN engine.calls = 1..Len(engine.calls)
  BY LenProperties DEF Typed
<1>3. Phases'
  <2>1. \A c \in Calls : task'[c] # "none" => engine'.pc = "tools"
    BY <1>0, <1>b
  <2>2. QED
    BY <1>0, <1>1, <2>1 DEF EngineDispatch, In, Phases, Typed, TypeOK, Senders
<1>4. RunLast'
  BY DEF EngineDispatch, store, journal, Took, In, RunLast, Phases, Typed, TypeOK, Senders
<1>5. Handshake'
  BY <1>a DEF EngineDispatch, Took, journal, Handshake
<1>6. ActiveInv' /\ CallsFresh'
  BY DEF EngineDispatch, store, journal, Took, In, ActiveInv, CallsFresh, Fresh, Phases, Live, Typed, TypeOK, Senders
<1>7. \A d \in Calls : TaskInv(d)'
  <2>1. \A d \in Calls : task'[d] = "enter" => Fresh(d)
    BY <1>0, <1>b DEF CallsFresh
  <2>2. QED
    BY <1>0, <2>1 DEF EngineDispatch, store, TaskInv, Fresh
<1>8. OutputsTrue'
  BY DEF EngineDispatch, store, journal, Took, In, OutputsTrue
<1>9. EffectsIntended' /\ ResultsTrue' /\ Barrier'
  BY DEF EngineDispatch, store, journal, Took, In, EffectsIntended, ResultsTrue, Barrier, Holds, TypeOK, Typed
<1>10. QED
  BY <1>2, <1>3, <1>4, <1>5, <1>6, <1>7, <1>8, <1>9

LEMMA EngineBatchInv ==
  ASSUME TurnInv, EngineBatch
  PROVE  TurnInv'
<1> USE TurnAssumption DEF TurnInv, Control, World
<1> DEFINE m == [op |-> "batch", turn |-> run.turn, arg |-> engine.calls, who |-> "engine"]
<1>1. Queue(queue') /\ Pushed(queue, queue', m)
  BY QueuePushed DEF EngineBatch, store, journal, Send, In, Typed, Phases, WellFormed, EngineItems
<1>2. Typed'
  BY <1>1 DEF EngineBatch, store, journal, Send, In, Typed, Phases, TypeOK, Senders
<1>3. Phases'
  BY <1>1 DEF EngineBatch, store, journal, Send, In, Phases, Typed, TypeOK, Senders
<1>4. RunLast'
  BY <1>1 DEF EngineBatch, store, journal, Send, In, RunLast, Phases, Typed, TypeOK, Senders, Pushed
<1>5. Handshake'
  BY <1>1 DEF EngineBatch, store, journal, Send, In, Handshake, Awaited, Live, RunLast, Phases, Typed, TypeOK, Senders, Pushed
<1>6. ActiveInv' /\ CallsFresh'
  BY <1>1 DEF EngineBatch, store, journal, Send, In, ActiveInv, CallsFresh, Fresh, Phases, Live, Typed, TypeOK, Senders
<1>7. \A d \in Calls : TaskInv(d)'
  BY <1>1 DEF EngineBatch, store, journal, Send, In, TaskInv, Fresh, Phases, Typed, TypeOK, Senders
<1>8. OutputsTrue'
  BY <1>1 DEF EngineBatch, store, journal, Send, In, OutputsTrue, Pushed
<1>9. EffectsIntended' /\ ResultsTrue' /\ Barrier'
  BY <1>1 DEF EngineBatch, store, journal, Send, In, EffectsIntended, ResultsTrue, Barrier, Holds, TypeOK, Typed
<1>10. QED
  BY <1>2, <1>3, <1>4, <1>5, <1>6, <1>7, <1>8, <1>9

LEMMA EngineResultsInv ==
  ASSUME TurnInv, EngineResults
  PROVE  TurnInv'
<1> USE TurnAssumption DEF TurnInv, Control, World
<1>2. Typed'
  <2> DEFINE r == [k \in DOMAIN engine.calls |-> [kind |-> "result", id |-> engine.calls[k]]]
  <2>1. r \in Seq(Item)
    <3>1. DOMAIN engine.calls = 1..Len(engine.calls) /\ Len(engine.calls) \in Nat
      BY LenProperties DEF Typed
    <3>2. \A k \in 1..Len(engine.calls) : [kind |-> "result", id |-> engine.calls[k]] \in Item
      BY ElementOfSeq DEF Typed, Item
    <3>3. QED
      BY <3>1, <3>2, IsASeq
  <2>2. memory' \in Seq(Item)
    BY <2>1, ConcatProperties DEF EngineResults, Typed, TypeOK
  <2>3. QED
    BY <2>2 DEF EngineResults, In, store, journal, Took, NoTasks, Typed, Phases, TypeOK, Senders
<1>0. /\ engine'.pc \in {"failed", "step"}
      /\ engine'.pc = "step" => engine'.steps < MaxSteps
      /\ \A c \in Calls : task'[c] = "none"
      /\ reply["engine"] = "ok" /\ reply' = [reply EXCEPT !["engine"] = "none"]
      /\ Live /\ engine.pc = "batch"
  BY DEF EngineResults, Took, In, Live, Typed, TypeOK, NoTasks
<1>1. \A c \in Calls : reply[c] = "none"
  BY <1>0 DEF Phases, Typed, TypeOK, Senders
<1>a. \A k \in 1..Len(queue) : queue[k].who = "acknowledge"
  BY <1>0, <1>1, EngineAlone
<1>3. Phases'
  BY <1>0, <1>1 DEF EngineResults, In, Phases, Typed, TypeOK, Senders
<1>4. RunLast'
  BY DEF EngineResults, store, journal, Took, In, NoTasks, RunLast, Phases, Typed, TypeOK, Senders
<1>5. Handshake'
  BY <1>a DEF EngineResults, Took, journal, Handshake
<1>6. ActiveInv' /\ CallsFresh'
  BY DEF EngineResults, store, journal, Took, In, NoTasks, ActiveInv, CallsFresh, Fresh, Phases, Live, Typed, TypeOK, Senders
<1>7. \A d \in Calls : TaskInv(d)'
  BY DEF EngineResults, store, journal, Took, In, NoTasks, TaskInv, Fresh, Phases, Typed, TypeOK, Senders
<1>8. OutputsTrue'
  BY DEF EngineResults, store, journal, Took, In, NoTasks, OutputsTrue
<1>9. EffectsIntended' /\ ResultsTrue' /\ Barrier'
  BY DEF EngineResults, store, journal, Took, In, NoTasks, EffectsIntended, ResultsTrue, Barrier, Holds, TypeOK, Typed
<1>10. QED
  BY <1>2, <1>3, <1>4, <1>5, <1>6, <1>7, <1>8, <1>9


(***************************************************************************)
(* The steps of a call                                                     *)
(***************************************************************************)
LEMMA ReportInv ==
  ASSUME TurnInv, NEW c \in Calls, NEW r \in Reported,
         task[c] \in {"enter", "check", "started", "running"},
         r = "output" => task[c] = "running",
         Report(c, r), UNCHANGED <<Others, effect>>
  PROVE  TurnInv'
<1> USE TurnAssumption DEF TurnInv, Control, World, Others, store
<1>1. /\ run.pc = "running" /\ engine.pc = "tools" /\ Live
      /\ run.turn \in Turns /\ reply["run"] = "none" /\ reply["engine"] = "none"
      /\ reply[c] = "none"
  BY TaskRuns DEF Phases, Typed, TypeOK, Senders
<1>m. PICK m : m = [op |-> "outcome", turn |-> run.turn, arg |-> r, who |-> c]
  OBVIOUS
<1>2. /\ queue' = Append(queue, m)
      /\ reply' = [reply EXCEPT ![c] = "wait"]
      /\ task' = [task EXCEPT ![c] = "outcome"]
  BY <1>m DEF Report, Send, Goto
<1>3. Queue(queue') /\ Pushed(queue, queue', m)
  BY <1>1, <1>2, <1>m, QueuePushed DEF Typed, WellFormed
<1>4. m.op = "outcome" /\ m.turn = run.turn /\ m.arg = r /\ m.who = c
  BY <1>m
<1>5. Typed'
  BY <1>2, <1>3 DEF Typed, TypeOK, Senders
<1>6. Phases'
  BY <1>1, <1>2 DEF Phases, Typed, TypeOK, Senders
<1>7. RunLast'
  BY <1>1, <1>2, <1>3, <1>4 DEF RunLast, Typed, TypeOK, Senders, Pushed
<1>8. Handshake'
  <2>1. \A k \in 1..Len(queue) : queue[k].who # c
    BY <1>1 DEF Handshake, Awaited
  <2>2. \A k \in 1..Len(queue) : queue[k].who # "acknowledge" => Awaited(queue[k])'
    BY <1>1, <1>2, <2>1 DEF Handshake, Awaited, Typed, TypeOK, Senders
  <2>3. Awaited(m)'
    BY <1>1, <1>2, <1>4 DEF Awaited, Typed, TypeOK, Senders
  <2>4. QED
    BY <1>1, <1>3, <1>4, <2>1, <2>2, <2>3 DEF Handshake, Pushed, Live, Awaited
<1>9. ActiveInv' /\ CallsFresh'
  BY <1>1, <1>2 DEF ActiveInv, CallsFresh, Live
<1>10. \A d \in Calls : TaskInv(d)'
  BY <1>1, <1>2 DEF TaskInv, Fresh, Typed, TypeOK, Senders
<1>11. OutputsTrue'
  BY <1>3, <1>4 DEF OutputsTrue, Pushed, TaskInv
<1>12. EffectsIntended' /\ ResultsTrue' /\ Barrier'
  BY <1>2 DEF EffectsIntended, ResultsTrue, Barrier, Holds, Typed, TypeOK
<1>13. QED
  BY <1>5, <1>6, <1>7, <1>8, <1>9, <1>10, <1>11, <1>12

LEMMA CallRejectedInv ==
  ASSUME TurnInv, NEW c \in Calls, CallRejected(c)
  PROVE  TurnInv'
BY ReportInv DEF CallRejected, Reported

LEMMA CallEnterInv ==
  ASSUME TurnInv, NEW c \in Calls, CallEnter(c)
  PROVE  TurnInv'
<1> USE TurnAssumption DEF TurnInv, Control, World, CallEnter, Goto, Others, store, journal
<1>1. Typed' /\ Phases' /\ RunLast'
  BY DEF Phases, Typed, TypeOK, Senders, RunLast
<1>2. Handshake'
  <2>1. Live /\ reply[c] = "none"
    BY TaskRuns DEF Phases, Typed, TypeOK, Senders
  <2>2. \A k \in 1..Len(queue) : queue[k].who # c
    BY <2>1 DEF Handshake, Awaited
  <2>3. \A k \in 1..Len(queue) : queue[k].who # "acknowledge" => Awaited(queue[k])'
    BY <2>1, <2>2 DEF Handshake, Awaited, Typed, TypeOK, Senders
  <2>4. QED
    BY <2>1, <2>2, <2>3 DEF Handshake
<1>3. ActiveInv' /\ CallsFresh' /\ OutputsTrue'
  BY DEF ActiveInv, CallsFresh, Fresh, Live, OutputsTrue
<1>4. \A d \in Calls : TaskInv(d)'
  BY DEF TaskInv, Fresh, Typed, TypeOK
<1>5. EffectsIntended' /\ ResultsTrue'
  BY DEF EffectsIntended, ResultsTrue
<1>6. Barrier'
  BY DEF Barrier, BarrierFree, Holds, Typed, TypeOK
<1>7. QED
  BY <1>1, <1>2, <1>3, <1>4, <1>5, <1>6

LEMMA CallIntentInv ==
  ASSUME TurnInv, NEW c \in Calls, CallIntent(c)
  PROVE  TurnInv'
<1>a. CASE token
  BY <1>a, ReportInv DEF CallIntent, Reported
<1>b. CASE ~token
  <2> USE TurnAssumption DEF TurnInv, Control, World, Others, store
  <2>1. /\ run.pc = "running" /\ engine.pc = "tools" /\ Live
        /\ run.turn \in Turns /\ reply["run"] = "none" /\ reply["engine"] = "none"
        /\ reply[c] = "none" /\ task[c] = "check"
    BY TaskRuns DEF CallIntent, Phases, Typed, TypeOK, Senders
  <2>m. PICK m : m = [op |-> "intent", turn |-> run.turn, arg |-> None, who |-> c]
    OBVIOUS
  <2>2. /\ queue' = Append(queue, m)
        /\ reply' = [reply EXCEPT ![c] = "wait"]
        /\ task' = [task EXCEPT ![c] = "intent"]
        /\ UNCHANGED <<ledger, poison, run, engine, token, memory, up, effect>>
    BY <1>b, <2>m DEF CallIntent, Send, Goto
  <2>3. Queue(queue') /\ Pushed(queue, queue', m)
    BY <2>1, <2>2, <2>m, QueuePushed DEF Typed, WellFormed
  <2>4. m.op = "intent" /\ m.turn = run.turn /\ m.who = c
    BY <2>m
  <2>5. Typed'
    BY <2>2, <2>3 DEF Typed, TypeOK, Senders
  <2>6. Phases'
    BY <2>1, <2>2 DEF Phases, Typed, TypeOK, Senders
  <2>7. RunLast'
    BY <2>1, <2>2, <2>3, <2>4 DEF RunLast, Typed, TypeOK, Senders, Pushed
  <2>8. Handshake'
    <3>1. \A k \in 1..Len(queue) : queue[k].who # c
      BY <2>1 DEF Handshake, Awaited
    <3>2. \A k \in 1..Len(queue) : queue[k].who # "acknowledge" => Awaited(queue[k])'
      BY <2>1, <2>2, <3>1 DEF Handshake, Awaited, Typed, TypeOK, Senders
    <3>3. Awaited(m)'
      BY <2>1, <2>2, <2>4 DEF Awaited, Typed, TypeOK, Senders
    <3>4. QED
      BY <2>1, <2>3, <2>4, <3>1, <3>2, <3>3 DEF Handshake, Pushed, Live, Awaited
  <2>9. ActiveInv' /\ CallsFresh'
    BY <2>1, <2>2 DEF ActiveInv, CallsFresh, Live
  <2>10. effect[c] = 0
    <3>1. ~ledger.call[c].intent /\ effect[c] \in Nat
      BY <2>1 DEF TaskInv, Fresh, Typed, TypeOK
    <3>2. QED
      BY <3>1 DEF EffectsIntended
  <2>11. \A d \in Calls : TaskInv(d)'
    BY <2>1, <2>2, <2>10 DEF TaskInv, Fresh, Typed, TypeOK, Senders
  <2>12. OutputsTrue'
    BY <2>2, <2>3, <2>4 DEF OutputsTrue, Pushed
  <2>13. EffectsIntended' /\ ResultsTrue' /\ Barrier'
    BY <2>1, <2>2 DEF EffectsIntended, ResultsTrue, Barrier, Holds, Typed, TypeOK
  <2>14. QED
    BY <2>5, <2>6, <2>7, <2>8, <2>9, <2>11, <2>12, <2>13
<1>c. QED
  BY <1>a, <1>b

LEMMA CallExecuteInv ==
  ASSUME TurnInv, NEW c \in Calls, CallExecute(c)
  PROVE  TurnInv'
<1>a. CASE Report(c, "error") /\ UNCHANGED effect
  BY <1>a, ReportInv DEF CallExecute, Reported
<1>b. CASE /\ Goto(c, "running") /\ effect' = [effect EXCEPT ![c] = @ + 1]
           /\ UNCHANGED journal
  <2> USE TurnAssumption DEF TurnInv, Control, World, Others, store, journal
  <2>1. Live /\ reply[c] = "none" /\ task[c] = "started"
    BY TaskRuns DEF CallExecute, Phases, Typed, TypeOK, Senders
  <2>2. /\ task' = [task EXCEPT ![c] = "running"]
        /\ effect' = [effect EXCEPT ![c] = @ + 1]
        /\ UNCHANGED <<ledger, poison, queue, reply, run, engine, token, memory, up>>
    BY <1>b DEF CallExecute, Goto
  <2>3. effect[c] = 0 /\ ledger.call[c].intent /\ ledger.call[c].outcome = None
    BY <2>1 DEF TaskInv
  <2>4. Typed'
    BY <2>2, <2>3 DEF Typed, TypeOK, Senders
  <2>5. Phases' /\ RunLast'
    BY <2>1, <2>2 DEF Phases, Typed, TypeOK, Senders, RunLast
  <2>6. \A k \in 1..Len(queue) : queue[k].who # c
    BY <2>1 DEF Handshake, Awaited
  <2>7. Handshake'
    <3>1. \A k \in 1..Len(queue) : queue[k].who # "acknowledge" => Awaited(queue[k])'
      BY <2>1, <2>2, <2>6 DEF Handshake, Awaited, Typed, TypeOK, Senders
    <3>2. QED
      BY <2>1, <2>2, <3>1 DEF Handshake
  <2>8. ActiveInv' /\ CallsFresh'
    BY <2>1, <2>2 DEF ActiveInv, CallsFresh, Fresh, Live
  <2>9. \A d \in Calls : TaskInv(d)'
    BY <2>1, <2>2, <2>3 DEF TaskInv, Fresh, Typed, TypeOK, Senders
  <2>10. OutputsTrue'
    <3>1. \A k \in 1..Len(queue) : queue[k].op = "outcome" => queue[k].who \in Calls
      BY DEF Typed, Queue, WellFormed
    <3>2. QED
      BY <2>2, <2>6, <3>1 DEF OutputsTrue, Typed, TypeOK
  <2>11. EffectsIntended' /\ ResultsTrue'
    BY <2>2, <2>3, NoneAssumption DEF EffectsIntended, ResultsTrue, Typed, TypeOK, Reported, Synthetic
  <2>12. Barrier'
    BY <2>1, <2>2 DEF Barrier, Holds, Typed, TypeOK
  <2>13. QED
    BY <2>4, <2>5, <2>7, <2>8, <2>9, <2>10, <2>11, <2>12
<1>c. QED
  BY <1>a, <1>b DEF CallExecute

LEMMA CallReturnInv ==
  ASSUME TurnInv, NEW c \in Calls, CallReturn(c)
  PROVE  TurnInv'
BY ReportInv DEF CallReturn

LEMMA CallStartedInv ==
  ASSUME TurnInv, NEW c \in Calls, CallStarted(c)
  PROVE  TurnInv'
<1> USE TurnAssumption DEF TurnInv, Control, World
<1>2. Typed'
  BY DEF CallStarted, store, journal, Took, Goto, Others, Typed, Phases, TypeOK, Senders
<1>3. Phases'
  BY DEF CallStarted, store, journal, Took, Goto, Others, Phases, Typed, TypeOK, Senders
<1>4. RunLast'
  BY DEF CallStarted, store, journal, Took, Goto, Others, RunLast, Phases, Typed, TypeOK, Senders
<1>5. Handshake'
  BY DEF CallStarted, store, journal, Took, Goto, Others, Handshake, Awaited, Live, RunLast, Phases, Typed, TypeOK, Senders
<1>6. ActiveInv' /\ CallsFresh'
  BY DEF CallStarted, store, journal, Took, Goto, Others, ActiveInv, CallsFresh, Fresh, Phases, Live, Typed, TypeOK, Senders
<1>7. \A d \in Calls : TaskInv(d)'
  BY DEF CallStarted, store, journal, Took, Goto, Others, TaskInv, Fresh, Phases, Typed, TypeOK, Senders
<1>8. OutputsTrue'
  BY DEF CallStarted, store, journal, Took, Goto, Others, OutputsTrue
<1>9. EffectsIntended' /\ ResultsTrue' /\ Barrier'
  BY DEF CallStarted, store, journal, Took, Goto, Others, EffectsIntended, ResultsTrue, Barrier, Holds, TypeOK, Typed
<1>10. QED
  BY <1>2, <1>3, <1>4, <1>5, <1>6, <1>7, <1>8, <1>9

LEMMA CallRecordedInv ==
  ASSUME TurnInv, NEW c \in Calls, CallRecorded(c)
  PROVE  TurnInv'
<1> USE TurnAssumption DEF TurnInv, Control, World
<1>2. Typed'
  BY DEF CallRecorded, store, journal, Took, Goto, Others, Typed, Phases, TypeOK, Senders
<1>3. Phases'
  BY DEF CallRecorded, store, journal, Took, Goto, Others, Phases, Typed, TypeOK, Senders
<1>4. RunLast'
  BY DEF CallRecorded, store, journal, Took, Goto, Others, RunLast, Phases, Typed, TypeOK, Senders
<1>5. Handshake'
  BY DEF CallRecorded, store, journal, Took, Goto, Others, Handshake, Awaited, Live, RunLast, Phases, Typed, TypeOK, Senders
<1>6. ActiveInv' /\ CallsFresh'
  BY DEF CallRecorded, store, journal, Took, Goto, Others, ActiveInv, CallsFresh, Fresh, Phases, Live, Typed, TypeOK, Senders
<1>7. \A d \in Calls : TaskInv(d)'
  BY DEF CallRecorded, store, journal, Took, Goto, Others, TaskInv, Fresh, Phases, Typed, TypeOK, Senders
<1>8. OutputsTrue'
  BY DEF CallRecorded, store, journal, Took, Goto, Others, OutputsTrue
<1>9. EffectsIntended' /\ ResultsTrue' /\ Barrier'
  BY DEF CallRecorded, store, journal, Took, Goto, Others, EffectsIntended, ResultsTrue, Barrier, Holds, TypeOK, Typed
<1>10. QED
  BY <1>2, <1>3, <1>4, <1>5, <1>6, <1>7, <1>8, <1>9


(***************************************************************************)
(* The journal worker                                                      *)
(***************************************************************************)

\* What the command m does to the calls and to the runs, from g to h.
CallsMove(g, h, m) ==
    \A c \in Calls :
        /\ \/ h.call[c].turn = g.call[c].turn
           \/ g.call[c].turn = None /\ m.op = "call" /\ m.arg = c
        /\ m.op = "call" /\ m.arg = c =>
             h.call[c].turn = m.turn /\ ~h.call[c].intent /\ h.call[c].outcome = None
        /\ \/ h.call[c].intent = g.call[c].intent
           \/ m.op = "intent" /\ m.who = c
        /\ m.op = "intent" /\ m.who = c => h.call[c].intent
        /\ m.op = "outcome" /\ m.who = c => h.call[c].outcome = m.arg
        /\ \/ h.call[c].outcome = g.call[c].outcome
           \/ m.op = "outcome" /\ m.who = c /\ h.call[c].outcome = m.arg
           \/ /\ m.op \in {"finalize", "detach"} /\ g.call[c].outcome = None
              /\ h.call[c].outcome = IF g.call[c].intent THEN "unknown" ELSE "undispatched"
RunsMove(g, h, m) ==
    /\ m.op \notin {"finalize", "detach"} =>
         \A t \in Turns : g.run[t].status = "active" => h.run[t].status = "active"
    /\ m.op = "begin" => h.run[m.turn].status = "active"
Moves(g, h, m) == Follows(g, h) /\ CallsMove(g, h, m) /\ RunsMove(g, h, m)

LEMMA MutatedMoves ==
  ASSUME NEW g, Good(g), Sound(g), NEW t \in Turns, NEW h, NEW s, NEW m,
         m.op \notin {"begin", "call", "intent", "outcome", "finalize", "detach"}
  PROVE  /\ CallsMove(g, Mutated(g, t, h, s, g.call), m)
         /\ RunsMove(g, Mutated(g, t, h, s, g.call), m)
<1>1. g.run \in [Turns -> Run]
  BY DEF Sound, LedgerType
<1>2. QED
  BY <1>1 DEF Mutated, LedgerOf, RunOf, CallsMove, RunsMove

LEMMA DoMoves ==
  ASSUME NEW g, Good(g), Sound(g), NEW m, WellFormed(m), Can(g, m)
  PROVE  Moves(g, Do(g, m), m)
<1>0. g.run \in [Turns -> Run] /\ g.call \in [Calls -> Call]
  BY DEF Sound, LedgerType
<1>1. CASE m.op = "begin"
  <2>1. m.turn \in Turns /\ m.arg \in Items /\ CanBegin(g, m.turn, m.arg)
        /\ Do(g, m) = Begin(g, m.turn, m.arg)
    BY <1>1 DEF WellFormed, Can, Do
  <2>2. Follows(g, Begin(g, m.turn, m.arg))
    BY <2>1, BeginFollows
  <2>3. CallsMove(g, Begin(g, m.turn, m.arg), m) /\ RunsMove(g, Begin(g, m.turn, m.arg), m)
    BY <1>0, <1>1, <2>1 DEF CallsMove, RunsMove, Begin, LedgerOf, RunOf
  <2>4. QED
    BY <2>1, <2>2, <2>3 DEF Moves
<1>2. CASE m.op = "input"
  <2>1. m.turn \in Turns /\ CanModelInput(g, m.turn) /\ Do(g, m) = ModelInput(g, m.turn)
    BY <1>2 DEF WellFormed, Can, Do
  <2>2. CallsMove(g, ModelInput(g, m.turn), m) /\ RunsMove(g, ModelInput(g, m.turn), m)
    BY <1>2, <2>1, MutatedMoves DEF ModelInput
  <2>3. QED
    BY <2>1, <2>2, ModelInputFollows DEF Moves
<1>3. CASE m.op = "message"
  <2>1. /\ m.turn \in Turns /\ m.arg \in Items /\ CanModelMessage(g, m.turn, m.arg)
        /\ Do(g, m) = ModelMessage(g, m.turn, m.arg)
    BY <1>3 DEF WellFormed, Can, Do
  <2>2. /\ CallsMove(g, ModelMessage(g, m.turn, m.arg), m)
        /\ RunsMove(g, ModelMessage(g, m.turn, m.arg), m)
    BY <1>3, <2>1, MutatedMoves DEF ModelMessage
  <2>3. QED
    BY <2>1, <2>2, ModelMessageFollows DEF Moves
<1>4. CASE m.op = "call"
  <2>1. /\ m.turn \in Turns /\ m.arg \in Calls /\ CanModelCall(g, m.turn, m.arg)
        /\ Do(g, m) = ModelCall(g, m.turn, m.arg)
    BY <1>4 DEF WellFormed, Can, Do
  <2>2. g.call[m.arg].turn = None /\ ~g.call[m.arg].intent /\ g.call[m.arg].outcome = None
    BY <2>1 DEF CanModelCall, Good, Accounted
  <2>3. /\ CallsMove(g, ModelCall(g, m.turn, m.arg), m)
        /\ RunsMove(g, ModelCall(g, m.turn, m.arg), m)
    BY <1>0, <1>4, <2>1, <2>2
       DEF CallsMove, RunsMove, ModelCall, Mutated, LedgerOf, RunOf, CallOf, Call
  <2>4. QED
    BY <2>1, <2>3, ModelCallFollows DEF Moves
<1>5. CASE m.op = "finish"
  <2>1. /\ m.turn \in Turns /\ m.arg \in Usages /\ CanModelStepFinished(g, m.turn, m.arg)
        /\ Do(g, m) = ModelStepFinished(g, m.turn, m.arg)
    BY <1>5 DEF WellFormed, Can, Do
  <2>2. /\ CallsMove(g, ModelStepFinished(g, m.turn, m.arg), m)
        /\ RunsMove(g, ModelStepFinished(g, m.turn, m.arg), m)
    BY <1>5, <2>1, MutatedMoves DEF ModelStepFinished
  <2>3. QED
    BY <2>1, <2>2, StepFinishedFollows DEF Moves
<1>6. CASE m.op = "intent"
  <2>1. /\ m.turn \in Turns /\ m.who \in Calls /\ CanDispatchIntent(g, m.turn, m.who)
        /\ Do(g, m) = DispatchIntent(g, m.turn, m.who)
    BY <1>6 DEF WellFormed, Can, Do
  <2>2. /\ CallsMove(g, DispatchIntent(g, m.turn, m.who), m)
        /\ RunsMove(g, DispatchIntent(g, m.turn, m.who), m)
    BY <1>0, <1>6, <2>1
       DEF CallsMove, RunsMove, DispatchIntent, Mutated, LedgerOf, RunOf, CallOf, Call
  <2>3. QED
    BY <2>1, <2>2, IntentFollows DEF Moves
<1>7. CASE m.op = "outcome"
  <2>1. /\ m.turn \in Turns /\ m.who \in Calls /\ m.arg \in Reported
        /\ CanToolOutcome(g, m.turn, m.who, m.arg)
        /\ Do(g, m) = ToolOutcome(g, m.turn, m.who, m.arg)
    BY <1>7 DEF WellFormed, Can, Do
  <2>2. /\ CallsMove(g, ToolOutcome(g, m.turn, m.who, m.arg), m)
        /\ RunsMove(g, ToolOutcome(g, m.turn, m.who, m.arg), m)
    BY <1>0, <1>7, <2>1
       DEF CallsMove, RunsMove, ToolOutcome, Mutated, LedgerOf, RunOf, CallOf, Call
  <2>3. QED
    BY <2>1, <2>2, OutcomeFollows DEF Moves
<1>8. CASE m.op = "batch"
  <2>1. /\ m.turn \in Turns /\ CanToolBatch(g, m.turn)
        /\ Do(g, m) = ToolBatch(g, m.turn)
    BY <1>8 DEF WellFormed, Can, Do
  <2>2. /\ CallsMove(g, ToolBatch(g, m.turn), m)
        /\ RunsMove(g, ToolBatch(g, m.turn), m)
    BY <1>0, <1>8, <2>1
       DEF CallsMove, RunsMove, ToolBatch, Mutated, LedgerOf, RunOf, CallOf, Call, Answered
  <2>3. QED
    BY <2>1, <2>2, BatchFollows DEF Moves
<1>9. CASE m.op = "finalize"
  <2>1. /\ m.turn \in Turns /\ m.arg \in Terminal /\ g.run[m.turn].status = "active"
        /\ Do(g, m) = Finalize(g, m.turn, m.arg)
    BY <1>9 DEF WellFormed, Can, Do, CanFinalize
  <2>2. CallsMove(g, Finalize(g, m.turn, m.arg), m)
    BY <1>0, <1>9, <2>1 DEF CallsMove, Finalize, LedgerOf, CallOf, Call, Closed
  <2>3. RunsMove(g, Finalize(g, m.turn, m.arg), m)
    BY <1>9 DEF RunsMove
  <2>4. QED
    BY <2>1, <2>2, <2>3, FinalizeFollows DEF Moves
<1>10. CASE m.op = "acknowledge"
  <2>1. CanAcknowledge(g) /\ Do(g, m) = Acknowledge(g)
    BY <1>10 DEF Can, Do
  <2>2. CallsMove(g, Acknowledge(g), m) /\ RunsMove(g, Acknowledge(g), m)
    BY <1>10 DEF CallsMove, RunsMove, Acknowledge, LedgerOf
  <2>3. QED
    BY <2>1, <2>2, AcknowledgeFollows DEF Moves
<1>11. CASE m.op = "detach"
  <2>1. Do(g, m) = Recover(g)
    BY <1>11 DEF Do
  <2>2. CASE Active(g)
    <3>1. PICK t \in ActiveTurns(g) : Recover(g) = Finalize(g, t, "failed")
      BY <2>2 DEF Recover, Active
    <3>2. CallsMove(g, Finalize(g, t, "failed"), m)
      BY <1>0, <1>11, <3>1 DEF CallsMove, Finalize, LedgerOf, CallOf, Call, Closed
    <3>3. RunsMove(g, Recover(g), m)
      BY <1>11 DEF RunsMove
    <3>4. QED
      BY <2>1, <3>1, <3>2, <3>3, RecoverFollows DEF Moves
  <2>3. CASE ~Active(g)
    BY <1>11, <2>1, <2>3, SameFollows DEF Recover, Moves, CallsMove, RunsMove
  <2>4. QED
    BY <2>2, <2>3
<1>12. QED
  BY <1>1, <1>2, <1>3, <1>4, <1>5, <1>6, <1>7, <1>8, <1>9, <1>10, <1>11 DEF WellFormed

LEMMA FreshKept ==
  ASSUME NEW c \in Calls, Fresh(c), NEW m, WellFormed(m), Moves(ledger, ledger', m),
         UNCHANGED run, m.who \notin {c, "run"}, m.who = "engine" => m.turn = run.turn
  PROVE  Fresh(c)'
BY DEF Fresh, Moves, CallsMove, WellFormed

LEMMA WorkInv ==
  ASSUME TurnInv, Work
  PROVE  TurnInv'
<1> USE TurnAssumption DEF TurnInv, Control, World
<1>1. PICK m : m = Head(queue)
  OBVIOUS
<1>2. WellFormed(m) /\ Queue(queue') /\ Popped(queue, queue', m)
  BY <1>1, QueuePopped DEF Work, Typed
<1>3. /\ m.who \in Senders
      /\ UNCHANGED <<run, engine, task, token, memory, effect, up>>
  BY <1>2 DEF Work, WellFormed, Senders
<1>4. PICK r \in {"ok", "error", "refused"} :
         /\ reply' = [reply EXCEPT ![m.who] = IF reply[m.who] = "wait" THEN r
                                              ELSE reply[m.who]]
         /\ r = "ok" => Can(ledger, m) /\ ledger' = Do(ledger, m)
         /\ UNCHANGED ledger \/ (Can(ledger, m) /\ ledger' = Do(ledger, m))
         /\ poison' \in BOOLEAN
  BY <1>1 DEF Work, Answer, store, Typed, TypeOK
<1>5. /\ r = "ok" => Moves(ledger, ledger', m)
      /\ UNCHANGED ledger \/ Moves(ledger, ledger', m)
  BY <1>2, <1>4, DoMoves DEF Typed
<1>6. Good(ledger') /\ Sound(ledger')
  BY <1>5 DEF Typed, Moves, Follows
<1>7. reply' \in [Senders -> {"none", "wait", "ok", "error", "refused"}]
  BY <1>3, <1>4 DEF Typed, TypeOK
<1>8. \A a \in Senders : /\ a # m.who => reply'[a] = reply[a]
                         /\ reply'[a] # "none" => reply[a] # "none"
                         /\ reply[a] # "wait" => reply'[a] = reply[a]
                         /\ a = m.who /\ reply[a] = "wait" => reply'[a] = r
  BY <1>3, <1>4 DEF Typed, TypeOK
<1>9. /\ 1 \in 1..Len(queue) /\ queue[1] = m
      /\ \A k \in 1..Len(queue') : k + 1 \in 1..Len(queue) /\ queue'[k] = queue[k + 1]
  BY <1>2 DEF Popped
<1>10. /\ {"run", "engine", "acknowledge"} \subseteq Senders
       /\ Calls \subseteq Senders
  BY DEF Senders
<1>11. Typed'
  BY <1>2, <1>3, <1>4, <1>6, <1>7 DEF Typed, TypeOK
<1>12. Phases'
  BY <1>3, <1>8, <1>10 DEF Phases
<1>13. RunLast'
  <2> SUFFICES ASSUME NEW k \in 1..Len(queue')
               PROVE  /\ queue'[k].who = "run" =>
                           /\ reply'["run"] = "wait"
                           /\ run.pc = "beginning" => queue'[k].op = "begin"
                           /\ run.pc = "finalizing" => queue'[k].op = "finalize"
                           /\ run.pc = "detaching" => queue'[k].op = "detach"
                           /\ queue'[k].turn = run.turn
                           /\ \A j \in 1..Len(queue') : j > k => queue'[j].who = "acknowledge"
                      /\ run.pc # "running" /\ reply'["run"] # "wait"
                           => queue'[k].who = "acknowledge"
    BY <1>3 DEF RunLast
  <2>1. k \in Nat /\ k + 1 > 1 /\ k + 1 \in 1..Len(queue) /\ queue'[k] = queue[k + 1]
    BY <1>9
  <2>2. m.who = "run" => queue'[k].who = "acknowledge"
    BY <1>9, <2>1 DEF RunLast
  <2>3. ASSUME queue'[k].who = "run"
        PROVE  \A j \in 1..Len(queue') : j > k => queue'[j].who = "acknowledge"
    <3> SUFFICES ASSUME NEW j \in 1..Len(queue'), j > k
                 PROVE  queue'[j].who = "acknowledge"
      OBVIOUS
    <3>1. j + 1 \in 1..Len(queue) /\ queue'[j] = queue[j + 1] /\ j + 1 > k + 1
      BY <1>9, <2>1
    <3>2. QED
      BY <2>1, <2>3, <3>1 DEF RunLast
  <2>4. QED
    BY <1>8, <1>10, <2>1, <2>2, <2>3 DEF RunLast
<1>14. Handshake'
  <2> SUFFICES ASSUME Live, NEW k \in 1..Len(queue'), queue'[k].who # "acknowledge"
               PROVE  /\ Awaited(queue[k])'
                      /\ \A j \in 1..Len(queue') : j # k => queue'[j].who # queue'[k].who
    BY <1>3 DEF Handshake, Live
  <2>1. k + 1 # 1 /\ k + 1 \in 1..Len(queue) /\ queue'[k] = queue[k + 1]
    BY <1>9
  <2>2. queue'[k].who # m.who /\ Awaited(queue[k + 1])
    BY <1>9, <2>1 DEF Handshake
  <2>3. Awaited(queue[k])'
    BY <1>3, <1>8, <1>10, <2>1, <2>2 DEF Awaited
  <2>4. \A j \in 1..Len(queue') : j # k => queue'[j].who # queue'[k].who
    BY <1>9, <2>1 DEF Handshake
  <2>5. QED
    BY <2>3, <2>4
<1>15. ASSUME Live
       PROVE  /\ m.who # "run" /\ m.op \notin {"finalize", "detach", "begin"}
              /\ m.who # "acknowledge" => Awaited(m)
  <2>1. m.who # "run"
    BY <1>9, <1>15, LiveSenders
  <2>2. QED
    BY <1>2, <1>9, <1>15, <2>1 DEF Handshake, WellFormed
<1>16. ActiveInv'
  <2>1. CASE Live
    BY <1>3, <1>5, <1>15, <2>1 DEF ActiveInv, Live, Moves, RunsMove, Phases
  <2>2. CASE run.pc = "beginning" /\ reply'["run"] = "ok"
    <3>1. run.turn \in Turns
      BY <2>2 DEF Phases
    <3>2. CASE reply["run"] = "wait"
      <4>1. m.who = "run" /\ r = "ok"
        BY <1>8, <1>10, <2>2, <3>2
      <4>2. m.op = "begin" /\ m.turn = run.turn
        BY <1>9, <2>2, <4>1 DEF RunLast
      <4>3. QED
        BY <1>3, <1>5, <4>1, <4>2 DEF ActiveInv, Moves, RunsMove
    <3>3. CASE reply["run"] # "wait"
      <4>1. reply["run"] = "ok" /\ m.who = "acknowledge"
        BY <1>8, <1>9, <1>10, <2>2, <3>3 DEF RunLast
      <4>2. m.op = "acknowledge"
        BY <1>2, <4>1 DEF WellFormed
      <4>3. QED
        BY <1>3, <1>5, <2>2, <3>1, <4>1, <4>2 DEF ActiveInv, Moves, RunsMove
    <3>4. QED
      BY <3>2, <3>3
  <2>3. QED
    BY <1>3, <2>1, <2>2 DEF ActiveInv, Live
<1>17. CallsFresh'
  <2> SUFFICES ASSUME engine.pc \in {"stream", "item", "finish"} PROVE CallsFresh'
    BY <1>3 DEF CallsFresh
  <2>1. Live /\ m.who \notin Calls
    <3>1. Live
      BY DEF Phases, Live, Typed, TypeOK
    <3>2. QED
      BY <1>10, <1>15, <3>1 DEF Phases, Awaited, Typed, TypeOK
  <2>2. m.who = "engine" => m.turn = run.turn
    BY <1>15, <2>1 DEF Awaited
  <2>3. ASSUME NEW c \in Calls, Fresh(c)
        PROVE  Fresh(c)'
    <3>1. CASE UNCHANGED ledger
      BY <1>3, <2>3, <3>1 DEF Fresh
    <3>2. CASE Moves(ledger, ledger', m)
      BY <1>2, <1>3, <1>15, <2>1, <2>2, <2>3, <3>2, FreshKept
    <3>3. QED
      BY <1>5, <3>1, <3>2
  <2>4. \A k \in 1..Len(engine.calls) : Fresh(engine.calls[k])'
    <3>1. \A k \in 1..Len(engine.calls) : engine.calls[k] \in Calls /\ Fresh(engine.calls[k])
      BY ElementOfSeq DEF CallsFresh, Typed
    <3>2. QED
      BY <1>3, <2>3, <3>1 DEF Fresh
  <2>5. ASSUME engine.pc = "item", reply'["engine"] = "ok", engine.item.kind = "call"
        PROVE  Fresh(engine.item.id)'
    <3>1. engine.item.id \in Calls
      BY <2>5 DEF Phases, EngineItems
    <3>2. CASE reply["engine"] = "ok"
      BY <1>3, <2>3, <2>5, <3>1, <3>2 DEF CallsFresh, Fresh
    <3>3. CASE reply["engine"] # "ok"
      <4>1. m.who = "engine" /\ r = "ok"
        BY <1>8, <1>10, <2>5, <3>3
      <4>2. m.op = "call" /\ m.arg = engine.item.id
        BY <1>15, <2>1, <2>5, <4>1 DEF Awaited
      <4>3. QED
        BY <1>3, <1>5, <2>2, <3>1, <4>1, <4>2 DEF Fresh, Moves, CallsMove
    <3>4. QED
      BY <3>2, <3>3
  <2>6. QED
    BY <1>3, <2>4, <2>5 DEF CallsFresh
<1>18. ASSUME NEW c \in Calls
       PROVE  TaskInv(c)'
  <2> SUFFICES ASSUME task[c] # "none" PROVE TaskInv(c)'
    BY <1>3 DEF TaskInv
  <2>1. Live /\ run.turn \in Turns
    BY TaskRuns
  <2>2. /\ m.op \notin {"finalize", "detach"}
        /\ m.who = "engine" => m.turn = run.turn
        /\ m.who = c => m.op = task[c] /\ task[c] \in {"intent", "outcome"}
    BY <1>2, <1>15, <2>1 DEF Awaited, WellFormed
  <2>3. CASE UNCHANGED ledger
    <3>1. task[c] = "intent" /\ reply'[c] = "ok" => ledger'.call[c].intent
      BY <1>3, <1>5, <1>8, <1>10, <2>2, <2>3 DEF TaskInv, Moves, CallsMove
    <3>2. QED
      BY <1>3, <2>3, <3>1 DEF TaskInv, Fresh
  <2>4. CASE Moves(ledger, ledger', m)
    <3>1. task[c] \in {"enter", "check"} => Fresh(c)'
      BY <1>2, <1>3, <1>15, <2>1, <2>2, <2>4, FreshKept DEF TaskInv
    <3>2. task[c] = "intent" /\ reply'[c] = "ok" => ledger'.call[c].intent
      BY <1>3, <1>8, <1>10, <2>2, <2>4 DEF TaskInv, Moves, CallsMove
    <3>3. QED
      BY <1>3, <2>1, <2>2, <2>4, <3>1, <3>2, StateAssumption DEF TaskInv, Moves, CallsMove
  <2>5. QED
    BY <1>5, <2>3, <2>4
<1>19. OutputsTrue'
  BY <1>3, <1>9 DEF OutputsTrue
<1>20. EffectsIntended' /\ ResultsTrue'
  <2>1. CASE UNCHANGED ledger
    BY <1>3, <2>1 DEF EffectsIntended, ResultsTrue
  <2>2. CASE Moves(ledger, ledger', m)
    <3>1. m.op = "outcome" => m.arg \in Reported /\ (m.arg = "output" => effect[m.who] = 1)
      BY <1>2, <1>9 DEF WellFormed, OutputsTrue
    <3>2. \A c \in Calls : effect[c] \in Nat
      BY DEF Typed, TypeOK
    <3>3. EffectsIntended'
      BY <1>3, <2>2, <3>2 DEF EffectsIntended, Moves, CallsMove
    <3>4. ResultsTrue'
      BY <1>3, <2>2, <3>1, <3>2 DEF ResultsTrue, EffectsIntended, Moves, CallsMove, Reported
    <3>5. QED
      BY <3>3, <3>4
  <2>3. QED
    BY <1>5, <2>1, <2>2
<1>21. Barrier'
  BY <1>3 DEF Barrier, Holds
<1>22. QED
  BY <1>11, <1>12, <1>13, <1>14, <1>16, <1>17, <1>18, <1>19, <1>20, <1>21

(***************************************************************************)
(* Start, crash and reopening                                              *)
(***************************************************************************)
LEMMA InitInv ==
  ASSUME Init
  PROVE  TurnInv
<1> USE TurnAssumption DEF Init
<1>1. Typed
  <2>1. engine = [pc |-> "none", item |-> None, calls |-> <<>>, steps |-> 0, usage |-> 0]
        /\ run = [pc |-> "idle", turn |-> None, input |-> None]
    BY DEF NoEngine, Idle
  <2>2. <<>> \in Seq(Item) /\ <<>> \in Seq(Calls)
    BY EmptySeq
  <2>3. TypeOK
    <3>1. engine.steps \in 0..MaxSteps
      BY <2>1
    <3>2. effect \in [Calls -> Nat]
      OBVIOUS
    <3>a. reply \in [Senders -> {"none", "wait", "ok", "error", "refused"}]
      BY DEF NoReply
    <3>b. task \in [Calls -> {"none", "enter", "check", "intent", "started", "running", "outcome",
                         "done"}]
      BY DEF NoTasks
    <3>c. memory \in Seq(Item)
      BY <2>2
    <3>d. poison \in BOOLEAN /\ token \in BOOLEAN /\ up \in BOOLEAN
      OBVIOUS
    <3>e. run.pc = "idle" /\ engine.pc = "none"
      BY <2>1
    <3> HIDE DEF Init
    <3>3. QED
      BY <3>1, <3>2, <3>a, <3>b, <3>c, <3>d, <3>e DEF TypeOK
  <2>4. QED
    BY <2>1, <2>2, <2>3, QueueEmpty, EmptyGood, EmptySound DEF Typed
<1>2. Len(queue) = 0 /\ run.pc = "idle" /\ engine.pc = "none" /\ \A c \in Calls : task[c] = "none"
  BY QueueEmpty DEF Idle, NoEngine, NoTasks
<1>3. Phases
  BY <1>2 DEF Phases, NoReply, Senders
<1>4. RunLast /\ Handshake /\ OutputsTrue
  BY <1>2 DEF RunLast, Handshake, OutputsTrue
<1>5. ActiveInv /\ CallsFresh /\ \A c \in Calls : TaskInv(c)
  BY <1>2 DEF ActiveInv, Live, CallsFresh, TaskInv
<1>6. EffectsIntended /\ ResultsTrue /\ Barrier
  BY <1>2, NoneAssumption
     DEF EffectsIntended, ResultsTrue, Barrier, Holds, EmptyLedger, LedgerOf, NoCall, CallOf,
         Reported, Synthetic
<1>7. QED
  BY <1>1, <1>3, <1>4, <1>5, <1>6 DEF TurnInv, Control, World

LEMMA CrashInv ==
  ASSUME TurnInv, Crash
  PROVE  TurnInv'
<1> USE TurnAssumption DEF TurnInv, Control, World, Crash
<1>1. Typed'
  <2>1. engine' = [pc |-> "none", item |-> None, calls |-> <<>>, steps |-> 0, usage |-> 0]
        /\ run' = [pc |-> "idle", turn |-> None, input |-> None]
    BY DEF NoEngine, Idle
  <2>2. <<>> \in Seq(Item) /\ <<>> \in Seq(Calls)
    BY EmptySeq
  <2>3. TypeOK'
    <3>1. engine'.steps \in 0..MaxSteps
      BY <2>1
    <3>a. reply' \in [Senders -> {"none", "wait", "ok", "error", "refused"}]
      BY DEF NoReply
    <3>b. task' \in [Calls -> {"none", "enter", "check", "intent", "started", "running", "outcome",
                         "done"}]
      BY DEF NoTasks
    <3>c. memory' \in Seq(Item)
      BY <2>2
    <3>2. effect' \in [Calls -> Nat]
      BY DEF Typed, TypeOK
    <3>d. poison' \in BOOLEAN /\ token' \in BOOLEAN /\ up' \in BOOLEAN
      OBVIOUS
    <3>e. run'.pc = "idle" /\ engine'.pc = "none"
      BY <2>1
    <3> HIDE DEF Crash
    <3>3. QED
      BY <3>1, <3>2, <3>a, <3>b, <3>c, <3>d, <3>e DEF TypeOK
  <2>4. QED
    BY <2>1, <2>2, <2>3, QueueEmpty DEF Typed
<1>2. /\ Len(queue') = 0 /\ run'.pc = "idle" /\ engine'.pc = "none"
      /\ \A c \in Calls : task'[c] = "none"
  BY QueueEmpty DEF Idle, NoEngine, NoTasks
<1>3. Phases'
  BY <1>2 DEF Phases, NoReply, Senders
<1>4. RunLast' /\ Handshake' /\ OutputsTrue'
  BY <1>2 DEF RunLast, Handshake, OutputsTrue
<1>5. ActiveInv' /\ CallsFresh' /\ \A c \in Calls : TaskInv(c)'
  BY <1>2 DEF ActiveInv, Live, CallsFresh, TaskInv
<1>6. EffectsIntended' /\ ResultsTrue' /\ Barrier'
  BY <1>2 DEF EffectsIntended, ResultsTrue, Barrier, Holds
<1>7. QED
  BY <1>1, <1>3, <1>4, <1>5, <1>6

\* Reopening closes the active run the way a detach does.
LEMMA ReopenInv ==
  ASSUME TurnInv, Reopen
  PROVE  TurnInv'
<1> USE TurnAssumption DEF TurnInv, Control, World
<1>1. PICK m : m = [op |-> "detach", turn |-> None, arg |-> None, who |-> "run"]
  OBVIOUS
<1>2. Moves(ledger, ledger', m)
  <2>1. WellFormed(m) /\ Can(ledger, m) /\ ledger' = Do(ledger, m)
    BY <1>1 DEF Reopen, WellFormed, Can, Do
  <2>2. QED
    BY <2>1, DoMoves DEF Typed
<1>3. run.pc = "idle" /\ engine.pc = "none" /\ \A c \in Calls : task[c] = "none"
  BY DEF Reopen, Phases
<1>4. /\ UNCHANGED <<queue, reply, run, engine, task, token, effect>>
      /\ up' = TRUE /\ poison' = FALSE /\ memory' = ledger'.history
  BY DEF Reopen, journal
<1>5. Typed'
  <2>1. Good(ledger') /\ Sound(ledger') /\ memory' \in Seq(Item)
    BY <1>2, <1>4 DEF Moves, Follows, Sound, LedgerType
  <2>2. QED
    BY <1>4, <2>1 DEF Typed, TypeOK
<1>6. Phases' /\ RunLast' /\ Handshake' /\ OutputsTrue' /\ Barrier'
  BY <1>3, <1>4 DEF Phases, RunLast, Handshake, Awaited, Live, OutputsTrue, Barrier, Holds
<1>7. ActiveInv' /\ CallsFresh' /\ \A c \in Calls : TaskInv(c)'
  BY <1>3, <1>4 DEF ActiveInv, Live, CallsFresh, TaskInv
<1>8. EffectsIntended' /\ ResultsTrue'
  <2>1. m.op = "detach" /\ \A c \in Calls : effect[c] \in Nat
    BY <1>1 DEF Typed, TypeOK
  <2>2. QED
    BY <1>2, <1>4, <2>1 DEF EffectsIntended, ResultsTrue, Moves, CallsMove
<1>9. QED
  BY <1>5, <1>6, <1>7, <1>8

LEMMA NextInv == TurnInv /\ [Next]_vars => TurnInv'
<1> SUFFICES ASSUME TurnInv, [Next]_vars PROVE TurnInv'
  OBVIOUS
<1>1. CASE UNCHANGED vars
  BY <1>1 DEF vars, store, journal, TurnInv, Control, World, Typed, TypeOK, Phases, RunLast,
     Handshake, Awaited, Live, ActiveInv, CallsFresh, Fresh, TaskInv, OutputsTrue,
     EffectsIntended, ResultsTrue, Barrier, Holds
<1>2. CASE Daemon
  BY <1>2, StartRunInv, RunBegunInv, RunUnstartedInv, RunWithdrawnInv, AcknowledgingInv,
     DetachingInv, DetachedInv, CancelRunInv, StopInv, SettleInv, SettledInv, AcknowledgedInv,
     GiveUpInv DEF Daemon
<1>3. CASE Engine
  BY <1>3, EngineInputInv, EngineStreamInv, EngineItemInv, EngineAppendInv, EngineFinishInv,
     EngineDispatchInv, EngineBatchInv, EngineResultsInv DEF Engine
<1>4. ASSUME NEW c \in Calls, CallStep(c) PROVE TurnInv'
  BY <1>4, CallRejectedInv, CallEnterInv, CallIntentInv, CallStartedInv, CallExecuteInv,
     CallReturnInv, CallRecordedInv DEF CallStep
<1>5. QED
  BY <1>1, <1>2, <1>3, <1>4, WorkInv, CrashInv, ReopenInv DEF Next

(***************************************************************************)
(* Theorems                                                                *)
(***************************************************************************)
LEMMA TurnInvariance == Spec => []TurnInv
<1>1. Init => TurnInv
  BY InitInv
<1>2. QED
  BY <1>1, NextInv, PTL DEF Spec

\* Whatever is interrupted, dropped, cancelled or lost in a crash, and in
\* whatever order the tasks of a step and the journal worker run: a handler is
\* entered at most once per call and only behind its durable intent, a stored
\* result tells what happened, and an exclusive tool runs alone
\* (execute_calls and execute_single_call).
THEOREM EffectsAlwaysTrue == Spec => []EffectsTrue
<1>1. TurnInv => EffectsTrue
  <2>1. Barrier => ExclusiveAlone
    BY DEF Barrier, Holds, ExclusiveAlone
  <2>2. QED
    BY <2>1 DEF TurnInv, Control, World, Typed, EffectsTrue
<1>2. QED
  BY <1>1, TurnInvariance, PTL

\* A handler is entered only while the run it belongs to is active in the
\* store and nothing that ends the run has been sent.
THEOREM EffectsOnlyInRun == Spec => EffectsInRun
<1> DEFINE P == \A c \in Calls : effect'[c] # effect[c] =>
                  /\ ledger.call[c].turn = run.turn
                  /\ ledger.run[run.turn].status = "active"
                  /\ \A k \in DOMAIN queue : queue[k].op # "finalize"
<1>1. ASSUME TurnInv, Next, NEW c \in Calls, effect'[c] # effect[c]
      PROVE  task[c] = "started"
  <2>1. PICK d \in Calls : CallStep(d)
    BY <1>1 DEF Next, Work, Daemon, StartRun, RunBegun, RunUnstarted, RunWithdrawn,
       Acknowledging, Detaching, Detached, CancelRun, Stop, Settle, Settled, Acknowledged, GiveUp,
       Engine, EngineInput, EngineStream, EngineItem, EngineAppend, EngineFinish,
       EngineDispatch, EngineBatch, EngineResults, Crash, Reopen
  <2>2. task[d] = "started" /\ effect' = [effect EXCEPT ![d] = @ + 1]
    BY <1>1, <2>1 DEF CallStep, CallRejected, CallEnter, CallIntent, CallStarted, CallExecute,
       CallReturn, CallRecorded
  <2>3. QED
    BY <1>1, <2>2 DEF TurnInv, Control, Typed, TypeOK
<1>2. ASSUME TurnInv, Next PROVE P
  <2> SUFFICES ASSUME NEW c \in Calls, effect'[c] # effect[c]
               PROVE  /\ ledger.call[c].turn = run.turn
                      /\ ledger.run[run.turn].status = "active"
                      /\ \A k \in DOMAIN queue : queue[k].op # "finalize"
    OBVIOUS
  <2>1. task[c] = "started"
    BY <1>1, <1>2
  <2>2. Live
    BY <1>2, <2>1, TaskRuns DEF TurnInv, Control
  <2>3. DOMAIN queue = 1..Len(queue)
    BY <1>2, LenProperties DEF TurnInv, Control, Typed, Queue
  <2>4. ASSUME NEW k \in 1..Len(queue)
        PROVE  queue[k].op # "finalize"
    BY <1>2, <2>2, LiveSenders, TurnAssumption DEF TurnInv, Control, Typed, Queue, WellFormed
  <2>5. QED
    BY <1>2, <2>1, <2>2, <2>3, <2>4 DEF TurnInv, World, TaskInv, ActiveInv
<1>3. TurnInv /\ [Next]_vars => [P]_vars
  BY <1>2
<1>4. QED
  BY <1>3, TurnInvariance, PTL DEF Spec, EffectsInRun

(***************************************************************************)
(* Engine and store agree on a run, command for command and item for item. *)
(***************************************************************************)
(***************************************************************************)
(* What a command does to the results that a run owes                      *)
(***************************************************************************)

\* Two histories that make the same calls of U and V among their first j items
\* are answered alike.
SameAnswers(h, h2, U, V, j) ==
    \A k \in 1..j : h2[k] = h[k] /\ (h[k].kind = "call" => (h[k].id \in U <=> h[k].id \in V))

LEMMA AnswersAgree ==
  ASSUME NEW h, NEW h2, NEW U, NEW V, NEW n \in Nat, NEW m \in Nat, NEW f, NEW e,
         IsAnswers(f, h, U, n), IsAnswers(e, h2, V, m), NEW j \in Nat, j =< n, j =< m,
         SameAnswers(h, h2, U, V, j)
  PROVE  e[j] = f[j]
<1> DEFINE S == {k \in Nat : k =< j => e[k] = f[k]}
<1>1. 0 \in S
  BY DEF IsAnswers
<1>2. ASSUME NEW k \in Nat, k \in S
      PROVE  k + 1 \in S
  <2> SUFFICES ASSUME k + 1 =< j
               PROVE  e[k + 1] = f[k + 1]
    OBVIOUS
  <2>1. e[k] = f[k] /\ h2[k + 1] = h[k + 1]
        /\ (h[k + 1].kind = "call" => (h[k + 1].id \in U <=> h[k + 1].id \in V))
    BY <1>2 DEF SameAnswers
  <2>2. k + 1 \in 0..n /\ k + 1 \in 0..m /\ k + 1 # 0 /\ (k + 1) - 1 = k
    OBVIOUS
  <2>3. f[k + 1] = IF h[k + 1].kind = "call" /\ h[k + 1].id \in U
                   THEN Append(f[k], ResultItem(h[k + 1].id)) ELSE f[k]
    BY <2>2 DEF IsAnswers
  <2>4. e[k + 1] = IF h2[k + 1].kind = "call" /\ h2[k + 1].id \in V
                   THEN Append(e[k], ResultItem(h2[k + 1].id)) ELSE e[k]
    BY <2>2 DEF IsAnswers
  <2>5. QED
    BY <2>1, <2>3, <2>4
<1> HIDE DEF S
<1>3. j \in S
  BY <1>1, <1>2, SetInduction
<1>4. QED
  BY <1>3 DEF S

\* The results owed depend only on the history and on the open calls.
LEMMA ResultItemsSame ==
  ASSUME NEW g, NEW h, NEW t, g.history \in Seq(Item), h.history = g.history,
         Uncommitted(h, t) = Uncommitted(g, t)
  PROVE  ResultItems(h, t) = ResultItems(g, t)
<1> DEFINE n == Len(g.history)
<1>1. n \in Nat
  BY LenProperties
<1>2. PICK f : /\ IsAnswers(f, g.history, Uncommitted(g, t), n) /\ ResultItems(g, t) = f[n]
  BY <1>1, ResultItemsAnswer
<1>3. PICK e : /\ IsAnswers(e, g.history, Uncommitted(g, t), n) /\ ResultItems(h, t) = e[n]
  BY <1>1, ResultItemsAnswer
<1>4. SameAnswers(g.history, g.history, Uncommitted(g, t), Uncommitted(g, t), n)
  BY DEF SameAnswers
<1>5. e[n] = f[n]
  BY <1>1, <1>2, <1>3, <1>4, AnswersAgree
<1>6. QED
  BY <1>2, <1>3, <1>5

\* A message adds no result, and a call adds its own behind the others.
LEMMA ResultItemsAppend ==
  ASSUME NEW g, NEW h, NEW t, g.history \in Seq(Item), NEW x \in Item,
         h.history = Append(g.history, x),
         \A c : CallItem(c) # x => (c \in Uncommitted(h, t) <=> c \in Uncommitted(g, t)),
         ~Has(g.history, x)
  PROVE  ResultItems(h, t) = IF x.kind = "call" /\ x.id \in Uncommitted(h, t)
                             THEN Append(ResultItems(g, t), ResultItem(x.id))
                             ELSE ResultItems(g, t)
<1> DEFINE n == Len(g.history)
           U == Uncommitted(g, t)
           V == Uncommitted(h, t)
<1>1. n \in Nat
  BY LenProperties
<1>2. /\ Len(h.history) = n + 1 /\ h.history[n + 1] = x
      /\ \A k \in 1..n : h.history[k] = g.history[k]
  BY AppendProperties
<1>3. PICK f : /\ IsAnswers(f, g.history, U, n) /\ ResultItems(g, t) = f[n]
  BY <1>1, ResultItemsAnswer
<1>4. PICK e : /\ IsAnswers(e, h.history, V, n + 1) /\ ResultItems(h, t) = e[n + 1]
  <2>1. Len(h.history) \in Nat
    BY <1>1, <1>2
  <2>2. PICK e : /\ IsAnswers(e, h.history, V, Len(h.history))
                 /\ ResultItems(h, t) = e[Len(h.history)]
    BY <2>1, ResultItemsAnswer, Zenon
  <2>3. QED
    BY <1>2, <2>2
<1>5. SameAnswers(g.history, h.history, U, V, n)
  <2> SUFFICES ASSUME NEW k \in 1..n, g.history[k].kind = "call"
               PROVE  g.history[k].id \in U <=> g.history[k].id \in V
    BY <1>2 DEF SameAnswers
  <2>1. g.history[k] \in Item
    BY ElementOfSeq
  <2>2. g.history[k] = CallItem(g.history[k].id)
    BY <2>1 DEF Item, CallItem
  <2>3. g.history[k] # x
    BY DEF Has
  <2>4. QED
    BY <2>2, <2>3
<1> HIDE DEF U, V
<1>6. e[n] = f[n]
  BY <1>1, <1>3, <1>4, <1>5, AnswersAgree
<1>7. e[n + 1] = IF h.history[n + 1].kind = "call" /\ h.history[n + 1].id \in V
                 THEN Append(e[n], ResultItem(h.history[n + 1].id)) ELSE e[n]
  <2>1. n + 1 \in 0..(n + 1) /\ n + 1 # 0 /\ (n + 1) - 1 = n
    BY <1>1
  <2>2. QED
    BY <1>4, <2>1 DEF IsAnswers
<1>8. QED
  BY <1>2, <1>3, <1>4, <1>6, <1>7 DEF V

LEMMA SoundCallsDistinct ==
  ASSUME NEW g, Sound(g)
  PROVE  g.history \in Seq(Item) /\ CallsDistinct(g.history)
<1>1. g.history \in Seq(Item) /\ IdsDistinct(g.history)
  BY DEF Sound, LedgerType, Paired
<1>2. CallsDistinct(g.history)
  BY <1>1 DEF CallsDistinct, IdsDistinct, SameId
<1>3. QED
  BY <1>1, <1>2

LEMMA ResultItemsNone ==
  ASSUME NEW g, Sound(g), NEW t, Uncommitted(g, t) = {}
  PROVE  ResultItems(g, t) = <<>>
<1>1. Answering(ResultItems(g, t), g.history, {}, Len(g.history))
  BY SoundCallsDistinct, ResultItemsAnswering
<1>2. ResultItems(g, t) \in Seq([kind: {"result"}, id: {}])
  BY <1>1 DEF Answering
<1>3. Len(ResultItems(g, t)) = 0
  BY <1>2, ElementOfSeq, LenProperties
<1>4. QED
  BY <1>2, <1>3, EmptySeq

\* The results of the calls s, in order.
Results(s) == [k \in 1..Len(s) |-> ResultItem(s[k])]

LEMMA ResultsAppend ==
  ASSUME NEW s \in Seq(Calls), NEW c \in Calls
  PROVE  Results(Append(s, c)) = Append(Results(s), ResultItem(c))
BY DEF Results

LEMMA ResultsEmpty == Results(<<>>) = <<>>
BY DEF Results

\* The calls whose results are owed are the open ones.
LEMMA ResultItemsIds ==
  ASSUME NEW g, Sound(g), NEW t \in Turns, NEW s \in Seq(Calls), ResultItems(g, t) = Results(s)
  PROVE  {s[k] : k \in 1..Len(s)} = Uncommitted(g, t)
<1> DEFINE r == Results(s)
           U == Uncommitted(g, t)
<1>1. Answering(r, g.history, U, Len(g.history))
  BY SoundCallsDistinct, ResultItemsAnswering
<1>2. Len(r) = Len(s) /\ Len(s) \in Nat /\ \A k \in 1..Len(s) : r[k] = ResultItem(s[k])
  BY LenProperties DEF Results
<1> HIDE DEF r
<1>3. ASSUME NEW k \in 1..Len(s)
      PROVE  s[k] \in U
  <2>1. r[k] \in [kind: {"result"}, id: U]
    BY <1>1, <1>2, ElementOfSeq DEF Answering
  <2>2. r[k].id \in U /\ r[k] = ResultItem(s[k])
    BY <1>2, <2>1
  <2>3. ResultItem(s[k]).id = s[k]
    BY DEF ResultItem
  <2>4. QED
    BY <2>2, <2>3
<1>4. ASSUME NEW c \in U
      PROVE  \E k \in 1..Len(s) : s[k] = c
  <2>1. c \in Calls /\ g.call[c].turn # None
    BY StateAssumption DEF Uncommitted
  <2>2. PICK k \in 1..Len(g.history) : g.history[k] = CallItem(c)
    BY <2>1 DEF Sound, Paired, CallsMade, Has
  <2>3. g.history[k].kind = "call" /\ g.history[k].id = c
    BY <2>2 DEF CallItem
  <2>4. PICK j \in 1..Len(r) : r[j] = ResultItem(c)
    BY <1>1, <2>3 DEF Answering
  <2>5. j \in 1..Len(s) /\ ResultItem(s[j]) = ResultItem(c)
    BY <1>2, <2>4
  <2>6. s[j] = c
    BY <2>5 DEF ResultItem
  <2>7. QED
    BY <2>5, <2>6
<1>5. QED
  BY <1>3, <1>4

(***************************************************************************)
(* What a command does to the run it names                                 *)
(***************************************************************************)
StepsOf(g, t) == g.run[t].steps
\* The run goes on with the same history, steps and open calls.
Keeps(g, h, t) == /\ h.history = g.history
                  /\ StepsOf(h, t) = StepsOf(g, t)
                  /\ ResultItems(h, t) = ResultItems(g, t)

LEMMA SoundSteps ==
  ASSUME NEW g, Sound(g), NEW t \in Turns
  PROVE  /\ StepsOf(g, t) \in Seq(Step) /\ g.history \in Seq(Item)
         /\ g.run \in [Turns -> Run] /\ g.call \in [Calls -> Call]
         /\ UsageSum(StepsOf(g, t)) \in Nat
<1>1. /\ StepsOf(g, t) \in Seq(Step) /\ g.history \in Seq(Item)
      /\ g.run \in [Turns -> Run] /\ g.call \in [Calls -> Call]
  BY DEF StepsOf, Sound, LedgerType, Run
<1>2. [completed |-> FALSE, usage |-> 0] \in Step
  BY DEF Step
<1>3. QED
  BY <1>1, <1>2, UsageSumAppend

LEMMA BeginDoes ==
  ASSUME NEW g, Good(g), Sound(g), NEW t \in Turns, NEW i \in Items, CanBegin(g, t, i), NEW h,
         h = Begin(g, t, i), Sound(h)
  PROVE  /\ h.history = Append(g.history, [kind |-> "user", id |-> i])
         /\ StepsOf(h, t) = <<>> /\ Uncommitted(h, t) = {}
<1>1. /\ h.history = Append(g.history, [kind |-> "user", id |-> i])
      /\ StepsOf(h, t) = <<>> /\ h.call = g.call
  BY SoundSteps DEF Begin, LedgerOf, RunOf, StepsOf
<1>2. Uncommitted(g, t) = {}
  BY StateAssumption DEF Uncommitted, CanBegin, Sound, Paired, OpenIsCurrent
<1>3. QED
  BY <1>1, <1>2 DEF Uncommitted

LEMMA InputDoes ==
  ASSUME NEW g, Good(g), Sound(g), NEW t \in Turns, CanModelInput(g, t), NEW h,
         h = ModelInput(g, t)
  PROVE  /\ h.history = g.history
         /\ LastStepOpen(h.run[t])
         /\ UsageSum(StepsOf(h, t)) = UsageSum(StepsOf(g, t))
         /\ ResultItems(h, t) = ResultItems(g, t)
<1> DEFINE x == [completed |-> FALSE, usage |-> 0]
<1>1. /\ StepsOf(g, t) \in Seq(Step) /\ g.history \in Seq(Item)
      /\ g.run \in [Turns -> Run] /\ g.call \in [Calls -> Call] /\ x \in Step
  BY SoundSteps DEF Step
<1>2. h.history = g.history /\ h.call = g.call /\ StepsOf(h, t) = Append(StepsOf(g, t), x)
  BY <1>1 DEF ModelInput, Mutated, LedgerOf, RunOf, StepsOf
<1>3. LastStepOpen(h.run[t])
  BY <1>1, <1>2, AppendProperties, LenProperties DEF LastStepOpen, StepsOf
<1>4. Uncommitted(h, t) = Uncommitted(g, t)
  BY <1>2 DEF Uncommitted
<1>5. UsageSum(StepsOf(h, t)) = UsageSum(StepsOf(g, t))
  BY <1>1, <1>2, UsageSumAppend
<1>6. QED
  BY <1>1, <1>2, <1>3, <1>4, <1>5, ResultItemsSame

LEMMA MessageDoes ==
  ASSUME NEW g, Good(g), Sound(g), NEW t \in Turns, NEW i \in Items, CanModelMessage(g, t, i),
         NEW h, h = ModelMessage(g, t, i)
  PROVE  /\ h.history = Append(g.history, [kind |-> "message", id |-> i])
         /\ StepsOf(h, t) = StepsOf(g, t)
         /\ ResultItems(h, t) = ResultItems(g, t)
<1> DEFINE x == [kind |-> "message", id |-> i]
<1>1. /\ StepsOf(g, t) \in Seq(Step) /\ g.history \in Seq(Item)
      /\ g.run \in [Turns -> Run] /\ g.call \in [Calls -> Call]
  BY SoundSteps
<1>2. h.history = Append(g.history, x) /\ h.call = g.call /\ StepsOf(h, t) = StepsOf(g, t)
  BY <1>1 DEF ModelMessage, Mutated, LedgerOf, RunOf, StepsOf
<1>3. ~Has(g.history, x)
  <2>1. DOMAIN g.history = 1..Len(g.history)
    BY <1>1, LenProperties
  <2>2. QED
    BY <2>1 DEF Has, CanModelMessage, KnownItem
<1>4. Uncommitted(h, t) = Uncommitted(g, t)
  BY <1>2 DEF Uncommitted
<1>5. x \in Item /\ x.kind # "call"
  BY DEF Item
<1> HIDE DEF x
<1>6. ResultItems(h, t) = ResultItems(g, t)
  BY <1>1, <1>2, <1>3, <1>4, <1>5, ResultItemsAppend
<1>7. QED
  BY <1>2, <1>6 DEF x

LEMMA CallDoes ==
  ASSUME NEW g, Good(g), Sound(g), NEW t \in Turns, NEW c \in Calls, CanModelCall(g, t, c),
         NEW h, h = ModelCall(g, t, c)
  PROVE  /\ h.history = Append(g.history, CallItem(c))
         /\ StepsOf(h, t) = StepsOf(g, t)
         /\ ResultItems(h, t) = Append(ResultItems(g, t), ResultItem(c))
<1> DEFINE x == CallItem(c)
<1>1. /\ StepsOf(g, t) \in Seq(Step) /\ g.history \in Seq(Item)
      /\ g.run \in [Turns -> Run] /\ g.call \in [Calls -> Call]
  BY SoundSteps
<1>2. /\ h.history = Append(g.history, x) /\ StepsOf(h, t) = StepsOf(g, t)
      /\ h.call[c].turn = t /\ ~h.call[c].committed
      /\ \A d \in Calls \ {c} : h.call[d] = g.call[d]
  BY <1>1 DEF ModelCall, Mutated, LedgerOf, RunOf, CallOf, StepsOf, CallItem
<1>3. ~Has(g.history, x)
  BY DEF CanModelCall, Sound, Paired, CallsMade
<1>4. x \in Item /\ x.kind = "call" /\ x.id = c
  BY DEF Item, CallItem
<1>5. \A d : CallItem(d) # x => (d \in Uncommitted(h, t) <=> d \in Uncommitted(g, t))
  BY <1>2 DEF Uncommitted
<1>6. c \in Uncommitted(h, t)
  BY <1>2 DEF Uncommitted
<1> HIDE DEF x
<1>7. ResultItems(h, t) = Append(ResultItems(g, t), ResultItem(c))
  BY <1>1, <1>2, <1>3, <1>4, <1>5, <1>6, ResultItemsAppend
<1>8. QED
  BY <1>2, <1>7 DEF x

LEMMA FinishDoes ==
  ASSUME NEW g, Good(g), Sound(g), NEW t \in Turns, NEW u \in Usages,
         CanModelStepFinished(g, t, u), NEW h, h = ModelStepFinished(g, t, u)
  PROVE  /\ h.history = g.history
         /\ ~LastStepOpen(h.run[t])
         /\ UsageSum(StepsOf(h, t)) = UsageSum(StepsOf(g, t)) + u
         /\ ResultItems(h, t) = ResultItems(g, t)
<1> DEFINE x == [completed |-> TRUE, usage |-> u]
           s == StepsOf(g, t)
<1>1. /\ s \in Seq(Step) /\ g.history \in Seq(Item)
      /\ g.run \in [Turns -> Run] /\ g.call \in [Calls -> Call] /\ x \in Step
  BY SoundSteps, StateAssumption DEF Step
<1>2. h.history = g.history /\ h.call = g.call /\ StepsOf(h, t) = [s EXCEPT ![Len(s)] = x]
  BY <1>1 DEF ModelStepFinished, Mutated, LedgerOf, RunOf, StepsOf
<1>3. s # <<>> /\ ~s[Len(s)].completed /\ Len(s) \in 1..Len(s)
  BY <1>1, EmptySeq, LenProperties DEF CanModelStepFinished, LastStepOpen, StepsOf
<1>4. s[Len(s)].usage = 0
  BY <1>3 DEF Sound, Summed, StepsCount, StepsOf
<1>5. UsageSum(StepsOf(h, t)) = UsageSum(s) + x.usage
  BY <1>1, <1>2, <1>3, <1>4, UsageSumFinish
<1>6. ~LastStepOpen(h.run[t])
  <2>1. Len(StepsOf(h, t)) = Len(s) /\ StepsOf(h, t)[Len(s)] = x
    BY <1>1, <1>2, <1>3, ExceptSeq
  <2>2. QED
    BY <2>1 DEF LastStepOpen, StepsOf
<1>7. Uncommitted(h, t) = Uncommitted(g, t)
  BY <1>2 DEF Uncommitted
<1>8. QED
  BY <1>1, <1>2, <1>5, <1>6, <1>7, ResultItemsSame

LEMMA IntentDoes ==
  ASSUME NEW g, Good(g), Sound(g), NEW t \in Turns, NEW c \in Calls,
         NEW h, h = DispatchIntent(g, t, c)
  PROVE  Keeps(g, h, t)
<1>1. /\ StepsOf(g, t) \in Seq(Step) /\ g.history \in Seq(Item)
      /\ g.run \in [Turns -> Run] /\ g.call \in [Calls -> Call]
  BY SoundSteps
<1>2. /\ h.history = g.history /\ StepsOf(h, t) = StepsOf(g, t)
      /\ \A d \in Calls : /\ h.call[d].turn = g.call[d].turn
                          /\ h.call[d].committed = g.call[d].committed
  BY <1>1 DEF DispatchIntent, Mutated, LedgerOf, RunOf, CallOf, StepsOf, Call
<1>3. Uncommitted(h, t) = Uncommitted(g, t)
  BY <1>2 DEF Uncommitted
<1>4. QED
  BY <1>1, <1>2, <1>3, ResultItemsSame DEF Keeps

LEMMA OutcomeDoes ==
  ASSUME NEW g, Good(g), Sound(g), NEW t \in Turns, NEW c \in Calls, NEW r,
         NEW h, h = ToolOutcome(g, t, c, r)
  PROVE  Keeps(g, h, t)
<1>1. /\ StepsOf(g, t) \in Seq(Step) /\ g.history \in Seq(Item)
      /\ g.run \in [Turns -> Run] /\ g.call \in [Calls -> Call]
  BY SoundSteps
<1>2. /\ h.history = g.history /\ StepsOf(h, t) = StepsOf(g, t)
      /\ \A d \in Calls : /\ h.call[d].turn = g.call[d].turn
                          /\ h.call[d].committed = g.call[d].committed
  BY <1>1 DEF ToolOutcome, Mutated, LedgerOf, RunOf, CallOf, StepsOf, Call
<1>3. Uncommitted(h, t) = Uncommitted(g, t)
  BY <1>2 DEF Uncommitted
<1>4. QED
  BY <1>1, <1>2, <1>3, ResultItemsSame DEF Keeps

LEMMA BatchDoes ==
  ASSUME NEW g, Good(g), Sound(g), NEW t \in Turns, NEW h, h = ToolBatch(g, t), Sound(h)
  PROVE  /\ h.history = g.history \o ResultItems(g, t)
         /\ StepsOf(h, t) = StepsOf(g, t)
         /\ ResultItems(h, t) = <<>>
<1>1. /\ StepsOf(g, t) \in Seq(Step) /\ g.history \in Seq(Item)
      /\ g.run \in [Turns -> Run] /\ g.call \in [Calls -> Call]
  BY SoundSteps
<1>2. /\ h.history = g.history \o ResultItems(g, t) /\ StepsOf(h, t) = StepsOf(g, t)
      /\ \A c \in Calls : h.call[c] = IF c \in Uncommitted(g, t) THEN Answered(g.call[c])
                                      ELSE g.call[c]
  BY <1>1 DEF ToolBatch, Mutated, LedgerOf, RunOf, StepsOf
<1>3. Uncommitted(h, t) = {}
  <2>1. ASSUME NEW c \in Calls, h.call[c].turn = t
        PROVE  h.call[c].committed
    <3>1. CASE c \in Uncommitted(g, t)
      <4>1. h.call[c] = Answered(g.call[c])
        BY <1>2, <3>1
      <4>2. Answered(g.call[c]).committed
        BY DEF Answered, CallOf
      <4>3. QED
        BY <4>1, <4>2
    <3>2. CASE c \notin Uncommitted(g, t)
      BY <1>2, <2>1, <3>2 DEF Uncommitted
    <3>3. QED
      BY <3>1, <3>2
  <2>2. QED
    BY <2>1 DEF Uncommitted
<1>4. QED
  BY <1>2, <1>3, ResultItemsNone

\* A record with unknown executions accepts nothing but their acknowledgement:
\* a detach finds nothing to recover.
LEMMA UnresolvedBlocks ==
  ASSUME NEW g, Good(g), Unresolved(g), NEW m, WellFormed(m), Can(g, m),
         m.op # "acknowledge"
  PROVE  Do(g, m) = g
<1>1. ~Active(g)
  BY DEF Good, Resolved
<1>2. \A t \in Turns : g.run[t].status # "active"
  BY <1>1 DEF Active, ActiveTurns
<1>3. m.op = "detach"
  BY <1>2 DEF WellFormed, Can, CanBegin, CanModelInput, CanModelMessage, CanModelCall,
     CanModelStepFinished, CanDispatchIntent, CanToolOutcome, CanToolBatch, CanFinalize
<1>4. QED
  BY <1>1, <1>3 DEF Do, Recover

LEMMA AcknowledgeKeepsHistory ==
  ASSUME NEW g
  PROVE  Acknowledge(g).history = g.history
BY DEF Acknowledge, LedgerOf

(***************************************************************************)
(* The inductive invariant                                                 *)
(***************************************************************************)

\* The run that executes, or whose end is on its way, is active in the store.
RunsOn == run.pc = "running" \/ (run.pc = "finalizing" /\ reply["run"] = "wait")
             => ledger.run[run.turn].status = "active"

\* A run begins in a queue without commands of an earlier one.
BeginAlone == \A k \in 1..Len(queue) : run.pc = "beginning" =>
    /\ queue[k].who \in {"run", "acknowledge"}
    /\ queue[k].who = "run" => queue[k].arg = run.input

\* An acknowledgement on its way has something to acknowledge, so that no run
\* can begin before it.
AckInv == \A k \in 1..Len(queue) : queue[k].who = "acknowledge" =>
    /\ Unresolved(ledger)
    /\ reply["acknowledge"] = "wait"
    /\ \A j \in 1..Len(queue) : j # k => queue[j].who # "acknowledge"

\* A poisoned journal has told one of the senders of the run.
Blamed ==
    /\ Live /\ poison => \E a \in {"engine"} \cup Calls : reply[a] = "error"
    /\ \A a \in Senders : a # "acknowledge" /\ reply[a] = "error" => poison
    /\ run.pc = "beginning" /\ reply["run"] = "ok" => ~poison

At(pc, r) == engine.pc = pc /\ reply["engine"] = r

\* The store is ahead of the engine by the command the engine has not taken the
\* answer of.
HistoryAgrees ==
    ledger.history = IF At("item", "ok") THEN Append(memory, engine.item)
                     ELSE IF At("batch", "ok") THEN memory \o Results(engine.calls)
                     ELSE memory
StepAgrees ==
    LastStepOpen(ledger.run[run.turn]) <=>
        \/ engine.pc \in {"stream", "item"}
        \/ At("input", "ok")
        \/ engine.pc = "finish" /\ reply["engine"] # "ok"
CallsAgree ==
    ResultItems(ledger, run.turn) =
        IF engine.pc \in {"step", "input"} \/ At("batch", "ok") THEN <<>>
        ELSE IF At("item", "ok") /\ engine.item.kind = "call"
        THEN Append(Results(engine.calls), ResultItem(engine.item.id))
        ELSE Results(engine.calls)
UsageAgrees ==
    /\ engine.usage =< MaxUsage
    /\ ~At("finish", "wait") => UsageSum(StepsOf(ledger, run.turn)) = engine.usage
    /\ At("finish", "wait") => \A k \in 1..Len(queue) :
         queue[k].who = "engine" =>
            UsageSum(StepsOf(ledger, run.turn)) + queue[k].arg = engine.usage

\* What the engine has checked and not yet used.
EngineChecked ==
    /\ At("item", "wait") => New(engine.item)
    /\ engine.pc \in {"input", "tools"} => Len(memory) =< MaxHistory
    /\ engine.pc = "tools" => \A k \in 1..Len(engine.calls) : task[engine.calls[k]] # "none"
    /\ engine.pc = "batch" => \A k \in 1..Len(engine.calls) : task[engine.calls[k]] = "done"
TaskAgrees(c) ==
    /\ task[c] = "intent" /\ reply[c] = "wait" => ~ledger.call[c].intent
    /\ task[c] # "none" => ledger.call[c].turn = run.turn
    /\ task[c] = "running" \/ (task[c] = "outcome" /\ reply[c] = "wait")
         => ledger.call[c].outcome = None
    /\ task[c] = "done" \/ (task[c] = "outcome" /\ reply[c] = "ok")
         => ledger.call[c].outcome # None
Agrees == /\ HistoryAgrees /\ StepAgrees /\ CallsAgree /\ UsageAgrees /\ EngineChecked
          /\ \A c \in Calls : TaskAgrees(c)
Agreement == Live /\ ~poison => Agrees

MemoryInv ==
    /\ run.pc = "beginning" /\ reply["run"] = "ok" =>
         /\ ledger.history = Append(memory, [kind |-> "user", id |-> run.input])
         /\ StepsOf(ledger, run.turn) = <<>>
         /\ ResultItems(ledger, run.turn) = <<>>
    /\ up /\ ~poison /\ (run.pc = "idle" \/ (run.pc = "beginning" /\ reply["run"] # "ok"))
         => memory = ledger.history
    /\ up => Begins(memory, ledger.history)

FaithInv == /\ RunsOn /\ BeginAlone /\ AckInv /\ Blamed /\ Agreement /\ MemoryInv
            /\ CommandsConform

\* While the engine executes there is nothing to acknowledge.
LEMMA LiveCommands ==
  ASSUME TurnInv, FaithInv, Live, NEW k \in 1..Len(queue)
  PROVE  queue[k].who \in {"engine"} \cup Calls /\ Awaited(queue[k])
<1>1. run.turn \in Turns /\ ledger.run[run.turn].status = "active"
  BY DEF TurnInv, Control, World, Phases, ActiveInv, Live
<1>2. ~Unresolved(ledger)
  BY <1>1 DEF TurnInv, Control, Typed, Good, Resolved, Active, ActiveTurns
<1>3. queue[k].who # "acknowledge"
  BY <1>2 DEF FaithInv, AckInv
<1>4. queue[k].who \in {"engine"} \cup Calls
  BY <1>3, LiveSenders DEF TurnInv
<1>5. QED
  BY <1>3, <1>4 DEF TurnInv, Control, Handshake

\* The engine that has taken its answer, or not asked, has an empty queue.
LEMMA EngineOnly ==
  ASSUME TurnInv, FaithInv, Live, engine.pc # "tools"
  PROVE  /\ \A c \in Calls : task[c] \in {"none", "done"} /\ reply[c] = "none"
         /\ \A k \in 1..Len(queue) : queue[k].who = "engine" /\ reply["engine"] = "wait"
         /\ reply["engine"] \in {"none", "wait", "ok"} => ~poison
<1>1. \A c \in Calls : task[c] \in {"none", "done"} /\ reply[c] = "none"
  BY DEF TurnInv, Control, Phases, Typed, TypeOK, Senders
<1>2. \A k \in 1..Len(queue) : queue[k].who = "engine" /\ reply["engine"] = "wait"
  BY <1>1, LiveCommands DEF Awaited
<1>3. reply["engine"] \in {"none", "wait", "ok"} => ~poison
  BY <1>1 DEF FaithInv, Blamed
<1>4. QED
  BY <1>1, <1>2, <1>3

LEMMA BeginsSelf ==
  ASSUME NEW g, Sound(g)
  PROVE  Begins(g.history, g.history)
BY LenProperties DEF Sound, LedgerType, Begins

LEMMA FaithImplies ==
  ASSUME TurnInv, FaithInv
  PROVE  EngineFaithful
<1>1. up => IsPrefixOf(memory, ledger.history)
  BY BeginsIsPrefix DEF FaithInv, MemoryInv
<1>2. QED
  BY <1>1 DEF FaithInv, MemoryInv, EngineFaithful, MemoryFollows

(***************************************************************************)
(* The daemon's steps keep the invariant                                   *)
(***************************************************************************)
LEMMA StartRunFaith ==
  ASSUME TurnInv, FaithInv, TurnInv', NEW t \in Turns, NEW i \in Items, StartRun(t, i)
  PROVE  FaithInv'
<1> USE TurnAssumption DEF TurnInv, Control, World, FaithInv
<1>1. PICK m : m = [op |-> "begin", turn |-> t, arg |-> i, who |-> "run"] /\ Pushed(queue, queue', m)
  <2>1. Queue(queue) /\ WellFormed([op |-> "begin", turn |-> t, arg |-> i, who |-> "run"])
    BY DEF StartRun, store, journal, Typed, Phases, WellFormed, EngineItems
  <2>2. queue' = Append(queue, [op |-> "begin", turn |-> t, arg |-> i, who |-> "run"])
    BY DEF StartRun, store, journal
  <2>3. QED
    BY <2>1, <2>2, QueuePushed
<1>2. RunsOn'
  BY DEF StartRun, store, journal, RunsOn, ActiveInv, Live, Phases, Typed, TypeOK, Senders
<1>3. BeginAlone'
  BY <1>1 DEF StartRun, store, journal, Pushed, BeginAlone, RunLast, Phases, Typed, TypeOK, Senders
<1>4. AckInv'
  BY <1>1 DEF StartRun, store, journal, Pushed, AckInv, Phases, Typed, TypeOK, Senders
<1>5. Blamed'
  BY DEF StartRun, store, journal, Blamed, Live, Phases, Typed, TypeOK, Senders
<1>6. Agreement'
  BY DEF StartRun, store, journal, Agreement, Live, Phases, Typed, TypeOK, Senders
<1>7. MemoryInv'
  BY DEF StartRun, store, journal, MemoryInv, CommandsConform, Blamed, Phases, Typed, TypeOK, Senders
<1>8. CommandsConform'
  BY DEF StartRun, store, journal, CommandsConform, Phases, Typed, TypeOK, Senders
<1>9. QED
  BY <1>2, <1>3, <1>4, <1>5, <1>6, <1>7, <1>8

LEMMA RunBegunFaith ==
  ASSUME TurnInv, FaithInv, TurnInv', RunBegun
  PROVE  FaithInv'
<1> USE TurnAssumption DEF TurnInv, Control, World, FaithInv
<1>2. RunsOn'
  BY DEF RunBegun, store, journal, Took, NoEngine, RunsOn, ActiveInv, Live, Phases, Typed, TypeOK, Senders
<1>3. BeginAlone'
  BY DEF RunBegun, store, journal, Took, NoEngine, BeginAlone, RunLast, Phases, Typed, TypeOK, Senders
<1>4. AckInv'
  BY DEF RunBegun, store, journal, Took, NoEngine, AckInv, Phases, Typed, TypeOK, Senders
<1>5. Blamed'
  BY DEF RunBegun, store, journal, Took, NoEngine, Blamed, Live, Phases, Typed, TypeOK, Senders
<1>6. Agreement'
  <2> SUFFICES ASSUME Live', ~poison' PROVE Agrees'
    BY DEF Agreement
  <2>1. /\ engine' = [NoEngine EXCEPT !.pc = "step"] /\ UNCHANGED <<ledger, task>>
        /\ run'.turn = run.turn
        /\ memory' = Append(memory, [kind |-> "user", id |-> run.input])
        /\ run.pc = "beginning" /\ reply["run"] = "ok"
    BY DEF RunBegun, store, Took, Typed
  <2>2. /\ engine'.pc = "step" /\ engine'.usage = 0
        /\ ledger'.history = memory'
        /\ StepsOf(ledger, run.turn) = <<>> /\ ResultItems(ledger, run.turn) = <<>>
        /\ \A c \in Calls : task'[c] = "none"
    BY <2>1 DEF NoEngine, MemoryInv, Phases
  <2>3. HistoryAgrees' /\ CallsAgree' /\ EngineChecked' /\ \A c \in Calls : TaskAgrees(c)'
    BY <2>1, <2>2 DEF HistoryAgrees, CallsAgree, EngineChecked, TaskAgrees, At
  <2>4. StepAgrees'
    BY <2>1, <2>2 DEF StepAgrees, At, LastStepOpen, StepsOf
  <2>5. UsageAgrees'
    BY <2>1, <2>2, UsageSumEmpty, StateAssumption DEF UsageAgrees, At
  <2>6. QED
    BY <2>3, <2>4, <2>5 DEF Agrees
<1>7. MemoryInv'
  <2>1. /\ UNCHANGED <<ledger, up>> /\ memory' = ledger.history /\ run'.pc = "running"
    BY DEF RunBegun, store, Took, MemoryInv, Typed
  <2>2. QED
    BY <2>1, BeginsSelf DEF MemoryInv, Typed
<1>8. CommandsConform'
  BY DEF RunBegun, store, journal, Took, NoEngine, CommandsConform, Phases, Typed, TypeOK, Senders
<1>9. QED
  BY <1>2, <1>3, <1>4, <1>5, <1>6, <1>7, <1>8

LEMMA RunUnstartedFaith ==
  ASSUME TurnInv, FaithInv, TurnInv', RunUnstarted
  PROVE  FaithInv'
<1> USE TurnAssumption DEF TurnInv, Control, World, FaithInv
<1>2. RunsOn'
  BY DEF RunUnstarted, store, journal, Took, NoEngine, RunsOn, ActiveInv, Live, Phases, Typed, TypeOK, Senders
<1>3. BeginAlone'
  BY DEF RunUnstarted, store, journal, Took, NoEngine, BeginAlone, RunLast, Phases, Typed, TypeOK, Senders
<1>4. AckInv'
  BY DEF RunUnstarted, store, journal, Took, NoEngine, AckInv, Phases, Typed, TypeOK, Senders
<1>5. Blamed'
  BY DEF RunUnstarted, store, journal, Took, NoEngine, Blamed, Live, Phases, Typed, TypeOK, Senders
<1>6. Agreement'
  BY DEF RunUnstarted, store, journal, Took, NoEngine, Agreement, Live, Phases, Typed, TypeOK, Senders
<1>7. MemoryInv'
  BY DEF RunUnstarted, store, journal, Took, NoEngine, MemoryInv, CommandsConform, Blamed, Phases, Typed, TypeOK, Senders
<1>8. CommandsConform'
  BY DEF RunUnstarted, store, journal, Took, NoEngine, CommandsConform, Phases, Typed, TypeOK, Senders
<1>9. QED
  BY <1>2, <1>3, <1>4, <1>5, <1>6, <1>7, <1>8

LEMMA RunWithdrawnFaith ==
  ASSUME TurnInv, FaithInv, TurnInv', RunWithdrawn
  PROVE  FaithInv'
<1> USE TurnAssumption DEF TurnInv, Control, World, FaithInv
<1>2. RunsOn'
  BY DEF RunWithdrawn, store, journal, Took, Idle, RunsOn, ActiveInv, Live, Phases, Typed, TypeOK, Senders
<1>3. BeginAlone'
  BY DEF RunWithdrawn, store, journal, Took, Idle, BeginAlone, RunLast, Phases, Typed, TypeOK, Senders
<1>4. AckInv'
  BY DEF RunWithdrawn, store, journal, Took, Idle, AckInv, Phases, Typed, TypeOK, Senders
<1>5. Blamed'
  BY DEF RunWithdrawn, store, journal, Took, Idle, Blamed, Live, Phases, Typed, TypeOK, Senders
<1>6. Agreement'
  BY DEF RunWithdrawn, store, journal, Took, Idle, Agreement, Live, Phases, Typed, TypeOK, Senders
<1>7. MemoryInv'
  BY DEF RunWithdrawn, store, journal, Took, Idle, MemoryInv, CommandsConform, Blamed, Phases, Typed, TypeOK, Senders
<1>8. CommandsConform'
  BY DEF RunWithdrawn, store, journal, Took, Idle, CommandsConform, Phases, Typed, TypeOK, Senders
<1>9. QED
  BY <1>2, <1>3, <1>4, <1>5, <1>6, <1>7, <1>8

LEMMA AcknowledgingFaith ==
  ASSUME TurnInv, FaithInv, TurnInv', Acknowledging
  PROVE  FaithInv'
<1> USE TurnAssumption DEF TurnInv, Control, World, FaithInv
<1>1. PICK m : m = [op |-> "acknowledge", turn |-> run.turn, arg |-> None, who |-> "acknowledge"] /\ Pushed(queue, queue', m)
  <2>1. Queue(queue) /\ WellFormed([op |-> "acknowledge", turn |-> run.turn, arg |-> None, who |-> "acknowledge"])
    BY DEF Acknowledging, store, journal, Send, Typed, Phases, WellFormed, EngineItems
  <2>2. queue' = Append(queue, [op |-> "acknowledge", turn |-> run.turn, arg |-> None, who |-> "acknowledge"])
    BY DEF Acknowledging, store, journal, Send
  <2>3. QED
    BY <2>1, <2>2, QueuePushed
<1>2. RunsOn'
  BY DEF Acknowledging, store, journal, Send, RunsOn, ActiveInv, Live, Phases, Typed, TypeOK, Senders
<1>3. BeginAlone'
  BY <1>1 DEF Acknowledging, store, journal, Send, Pushed, BeginAlone, RunLast, Phases, Typed, TypeOK, Senders
<1>4. AckInv'
  BY <1>1 DEF Acknowledging, store, journal, Send, Pushed, AckInv, Phases, Typed, TypeOK, Senders
<1>5. Blamed'
  BY DEF Acknowledging, store, journal, Send, Blamed, Live, Phases, Typed, TypeOK, Senders
<1>6. Agreement'
  <2> SUFFICES ASSUME Live, ~poison, Agrees PROVE Agrees'
    BY DEF Acknowledging, store, Send, Agreement, Live
  <2>1. /\ UNCHANGED <<ledger, run, engine, task, memory>>
        /\ reply'["engine"] = reply["engine"] /\ \A c \in Calls : reply'[c] = reply[c]
    BY DEF Acknowledging, store, Send, Typed, TypeOK, Senders
  <2>2. HistoryAgrees' /\ StepAgrees' /\ CallsAgree'
    BY <2>1 DEF Agrees, HistoryAgrees, StepAgrees, CallsAgree, At
  <2>3. UsageAgrees'
    BY <1>1, <2>1 DEF Agrees, UsageAgrees, At, Pushed
  <2>4. EngineChecked' /\ \A c \in Calls : TaskAgrees(c)'
    BY <2>1 DEF Agrees, EngineChecked, TaskAgrees, At, New
  <2>5. QED
    BY <2>2, <2>3, <2>4 DEF Agrees
<1>7. MemoryInv'
  BY DEF Acknowledging, store, journal, Send, MemoryInv, CommandsConform, Blamed, Phases, Typed, TypeOK, Senders
<1>8. CommandsConform'
  BY DEF Acknowledging, store, journal, Send, CommandsConform, Phases, Typed, TypeOK, Senders
<1>9. QED
  BY <1>2, <1>3, <1>4, <1>5, <1>6, <1>7, <1>8

LEMMA CancelRunFaith ==
  ASSUME TurnInv, FaithInv, TurnInv', CancelRun
  PROVE  FaithInv'
<1> USE TurnAssumption DEF TurnInv, Control, World, FaithInv
<1>2. RunsOn'
  BY DEF CancelRun, store, journal, RunsOn, ActiveInv, Live, Phases, Typed, TypeOK, Senders
<1>3. BeginAlone'
  BY DEF CancelRun, store, journal, BeginAlone, RunLast, Phases, Typed, TypeOK, Senders
<1>4. AckInv'
  BY DEF CancelRun, store, journal, AckInv, Phases, Typed, TypeOK, Senders
<1>5. Blamed'
  BY DEF CancelRun, store, journal, Blamed, Live, Phases, Typed, TypeOK, Senders
<1>6. Agreement'
  <2> SUFFICES ASSUME Live, ~poison, Agrees PROVE Agrees'
    BY DEF CancelRun, store, journal, Agreement, Live
  <2>1. /\ UNCHANGED <<ledger, run, engine, task, memory>>
        /\ reply'["engine"] = reply["engine"] /\ \A c \in Calls : reply'[c] = reply[c]
    BY DEF CancelRun, store, journal, Typed, TypeOK, Senders
  <2>2. HistoryAgrees' /\ StepAgrees' /\ CallsAgree'
    BY <2>1 DEF Agrees, HistoryAgrees, StepAgrees, CallsAgree, At
  <2>3. UsageAgrees'
    BY <2>1 DEF Agrees, UsageAgrees, At, CancelRun, store, journal
  <2>4. EngineChecked' /\ \A c \in Calls : TaskAgrees(c)'
    BY <2>1 DEF Agrees, EngineChecked, TaskAgrees, At, New
  <2>5. QED
    BY <2>2, <2>3, <2>4 DEF Agrees
<1>7. MemoryInv'
  BY DEF CancelRun, store, journal, MemoryInv, CommandsConform, Blamed, Phases, Typed, TypeOK, Senders
<1>8. CommandsConform'
  BY DEF CancelRun, store, journal, CommandsConform, Phases, Typed, TypeOK, Senders
<1>9. QED
  BY <1>2, <1>3, <1>4, <1>5, <1>6, <1>7, <1>8

LEMMA StopFaith ==
  ASSUME TurnInv, FaithInv, TurnInv', Stop
  PROVE  FaithInv'
<1> USE TurnAssumption DEF TurnInv, Control, World, FaithInv
<1>2. RunsOn'
  BY DEF Stop, store, journal, NoTasks, RunsOn, ActiveInv, Live, Phases, Typed, TypeOK, Senders
<1>3. BeginAlone'
  BY DEF Stop, store, journal, NoTasks, BeginAlone, RunLast, Phases, Typed, TypeOK, Senders
<1>4. AckInv'
  BY DEF Stop, store, journal, NoTasks, AckInv, Phases, Typed, TypeOK, Senders
<1>5. Blamed'
  BY DEF Stop, store, journal, NoTasks, Blamed, Live, Phases, Typed, TypeOK, Senders
<1>6. Agreement'
  BY DEF Stop, store, journal, NoTasks, Agreement, Live, Phases, Typed, TypeOK, Senders
<1>7. MemoryInv'
  BY DEF Stop, store, journal, NoTasks, MemoryInv, CommandsConform, Blamed, Phases, Typed, TypeOK, Senders
<1>8. CommandsConform'
  BY DEF Stop, store, journal, NoTasks, CommandsConform, Phases, Typed, TypeOK, Senders
<1>9. QED
  BY <1>2, <1>3, <1>4, <1>5, <1>6, <1>7, <1>8

LEMMA SettleFaith ==
  ASSUME TurnInv, FaithInv, TurnInv', Settle
  PROVE  FaithInv'
<1> USE TurnAssumption DEF TurnInv, Control, World, FaithInv
<1>1. PICK m : m.who = "run" /\ Pushed(queue, queue', m)
  <2>1. PICK s \in Outcomes :
            queue' = Append(queue, [op |-> "finalize", turn |-> run.turn, arg |-> s, who |-> "run"])
    BY DEF Settle, Send
  <2>2. WellFormed([op |-> "finalize", turn |-> run.turn, arg |-> s, who |-> "run"])
    BY <2>1 DEF Settle, Outcomes, Terminal, WellFormed, Phases
  <2>3. QED
    BY <2>1, <2>2, QueuePushed DEF Typed
<1>2. RunsOn'
  BY DEF Settle, store, journal, Send, Outcomes, RunsOn, ActiveInv, Live, Phases, Typed, TypeOK, Senders
<1>3. BeginAlone'
  BY <1>1 DEF Settle, store, journal, Send, Outcomes, Pushed, BeginAlone, RunLast, Phases, Typed, TypeOK, Senders
<1>4. AckInv'
  BY <1>1 DEF Settle, store, journal, Send, Outcomes, Pushed, AckInv, Phases, Typed, TypeOK, Senders
<1>5. Blamed'
  BY DEF Settle, store, journal, Send, Outcomes, Blamed, Live, Phases, Typed, TypeOK, Senders
<1>6. Agreement'
  BY DEF Settle, store, journal, Send, Outcomes, Agreement, Live, Phases, Typed, TypeOK, Senders
<1>7. MemoryInv'
  BY DEF Settle, store, journal, Send, Outcomes, MemoryInv, CommandsConform, Blamed, Phases, Typed, TypeOK, Senders
<1>8. CommandsConform'
  BY DEF Settle, store, journal, Send, Outcomes, CommandsConform, Phases, Typed, TypeOK, Senders
<1>9. QED
  BY <1>2, <1>3, <1>4, <1>5, <1>6, <1>7, <1>8

LEMMA SettledFaith ==
  ASSUME TurnInv, FaithInv, TurnInv', Settled
  PROVE  FaithInv'
<1> USE TurnAssumption DEF TurnInv, Control, World, FaithInv
<1>2. RunsOn'
  BY DEF Settled, store, journal, Took, Idle, NoEngine, RunsOn, ActiveInv, Live, Phases, Typed, TypeOK, Senders
<1>3. BeginAlone'
  BY DEF Settled, store, journal, Took, Idle, NoEngine, BeginAlone, RunLast, Phases, Typed, TypeOK, Senders
<1>4. AckInv'
  BY DEF Settled, store, journal, Took, Idle, NoEngine, AckInv, Phases, Typed, TypeOK, Senders
<1>5. Blamed'
  BY DEF Settled, store, journal, Took, Idle, NoEngine, Blamed, Live, Phases, Typed, TypeOK, Senders
<1>6. Agreement'
  BY DEF Settled, store, journal, Took, Idle, NoEngine, Agreement, Live, Phases, Typed, TypeOK, Senders
<1>7. MemoryInv'
  <2>1. /\ UNCHANGED <<ledger, up>> /\ memory' = ledger.history /\ run'.pc = "idle"
    BY DEF Settled, store, Idle
  <2>2. QED
    BY <2>1, BeginsSelf DEF MemoryInv, Typed
<1>8. CommandsConform'
  BY DEF Settled, store, journal, Took, Idle, NoEngine, CommandsConform, Phases, Typed, TypeOK, Senders
<1>9. QED
  BY <1>2, <1>3, <1>4, <1>5, <1>6, <1>7, <1>8

LEMMA AcknowledgedFaith ==
  ASSUME TurnInv, FaithInv, TurnInv', Acknowledged
  PROVE  FaithInv'
<1> USE TurnAssumption DEF TurnInv, Control, World, FaithInv
<1>2. RunsOn'
  BY DEF Acknowledged, store, journal, RunsOn, ActiveInv, Live, Phases, Typed, TypeOK, Senders
<1>3. BeginAlone'
  BY DEF Acknowledged, store, journal, BeginAlone, RunLast, Phases, Typed, TypeOK, Senders
<1>4. AckInv'
  BY DEF Acknowledged, store, journal, AckInv, Phases, Typed, TypeOK, Senders
<1>5. Blamed'
  BY DEF Acknowledged, store, journal, Blamed, Live, Phases, Typed, TypeOK, Senders
<1>6. Agreement'
  <2> SUFFICES ASSUME Live, ~poison, Agrees PROVE Agrees'
    BY DEF Acknowledged, store, Agreement, Live
  <2>1. /\ UNCHANGED <<ledger, run, engine, task, memory>>
        /\ reply'["engine"] = reply["engine"] /\ \A c \in Calls : reply'[c] = reply[c]
    BY DEF Acknowledged, store, Typed, TypeOK, Senders
  <2>2. HistoryAgrees' /\ StepAgrees' /\ CallsAgree'
    BY <2>1 DEF Agrees, HistoryAgrees, StepAgrees, CallsAgree, At
  <2>3. UsageAgrees'
    BY <2>1 DEF Agrees, UsageAgrees, At, Acknowledged, store
  <2>4. EngineChecked' /\ \A c \in Calls : TaskAgrees(c)'
    BY <2>1 DEF Agrees, EngineChecked, TaskAgrees, At, New
  <2>5. QED
    BY <2>2, <2>3, <2>4 DEF Agrees
<1>7. MemoryInv'
  BY DEF Acknowledged, store, journal, MemoryInv, CommandsConform, Blamed, Phases, Typed, TypeOK, Senders
<1>8. CommandsConform'
  BY DEF Acknowledged, store, journal, CommandsConform, Phases, Typed, TypeOK, Senders
<1>9. QED
  BY <1>2, <1>3, <1>4, <1>5, <1>6, <1>7, <1>8

LEMMA DetachingFaith ==
  ASSUME TurnInv, FaithInv, TurnInv', Detaching
  PROVE  FaithInv'
<1> USE TurnAssumption DEF TurnInv, Control, World, FaithInv
<1>1. PICK m : m = [op |-> "detach", turn |-> run.turn, arg |-> None, who |-> "run"] /\ Pushed(queue, queue', m)
  <2>1. Queue(queue) /\ WellFormed([op |-> "detach", turn |-> run.turn, arg |-> None, who |-> "run"])
    BY DEF Detaching, store, journal, Send, Typed, Phases, WellFormed, EngineItems
  <2>2. queue' = Append(queue, [op |-> "detach", turn |-> run.turn, arg |-> None, who |-> "run"])
    BY DEF Detaching, store, journal, Send
  <2>3. QED
    BY <2>1, <2>2, QueuePushed
<1>2. RunsOn'
  BY DEF Detaching, store, journal, Send, RunsOn, ActiveInv, Live, Phases, Typed, TypeOK, Senders
<1>3. BeginAlone'
  BY <1>1 DEF Detaching, store, journal, Send, Pushed, BeginAlone, RunLast, Phases, Typed, TypeOK, Senders
<1>4. AckInv'
  BY <1>1 DEF Detaching, store, journal, Send, Pushed, AckInv, Phases, Typed, TypeOK, Senders
<1>5. Blamed'
  BY DEF Detaching, store, journal, Send, Blamed, Live, Phases, Typed, TypeOK, Senders
<1>6. Agreement'
  BY DEF Detaching, store, journal, Send, Agreement, Live, Phases, Typed, TypeOK, Senders
<1>7. MemoryInv'
  BY DEF Detaching, store, journal, Send, MemoryInv, CommandsConform, Blamed, Phases, Typed, TypeOK, Senders
<1>8. CommandsConform'
  BY DEF Detaching, store, journal, Send, CommandsConform, Phases, Typed, TypeOK, Senders
<1>9. QED
  BY <1>2, <1>3, <1>4, <1>5, <1>6, <1>7, <1>8

LEMMA DetachedFaith ==
  ASSUME TurnInv, FaithInv, TurnInv', Detached
  PROVE  FaithInv'
<1> USE TurnAssumption DEF TurnInv, Control, World, FaithInv
<1>2. RunsOn'
  BY DEF Detached, store, journal, Took, Idle, RunsOn, ActiveInv, Live, Phases, Typed, TypeOK, Senders
<1>3. BeginAlone'
  BY DEF Detached, store, journal, Took, Idle, BeginAlone, RunLast, Phases, Typed, TypeOK, Senders
<1>4. AckInv'
  BY DEF Detached, store, journal, Took, Idle, AckInv, Phases, Typed, TypeOK, Senders
<1>5. Blamed'
  BY DEF Detached, store, journal, Took, Idle, Blamed, Live, Phases, Typed, TypeOK, Senders
<1>6. Agreement'
  BY DEF Detached, store, journal, Took, Idle, Agreement, Live, Phases, Typed, TypeOK, Senders
<1>7. MemoryInv'
  BY DEF Detached, store, journal, Took, Idle, MemoryInv, CommandsConform, Blamed, Phases, Typed, TypeOK, Senders
<1>8. CommandsConform'
  BY DEF Detached, store, journal, Took, Idle, CommandsConform, Phases, Typed, TypeOK, Senders
<1>9. QED
  BY <1>2, <1>3, <1>4, <1>5, <1>6, <1>7, <1>8

LEMMA GiveUpFaith ==
  ASSUME TurnInv, FaithInv, TurnInv', GiveUp
  PROVE  FaithInv'
<1> USE TurnAssumption DEF TurnInv, Control, World, FaithInv
<1>2. RunsOn'
  BY DEF GiveUp, store, journal, Idle, NoEngine, RunsOn, ActiveInv, Live, Phases, Typed, TypeOK, Senders
<1>3. BeginAlone'
  BY DEF GiveUp, store, journal, Idle, NoEngine, BeginAlone, RunLast, Phases, Typed, TypeOK, Senders
<1>4. AckInv'
  BY DEF GiveUp, store, journal, Idle, NoEngine, AckInv, Phases, Typed, TypeOK, Senders
<1>5. Blamed'
  BY DEF GiveUp, store, journal, Idle, NoEngine, Blamed, Live, Phases, Typed, TypeOK, Senders
<1>6. Agreement'
  BY DEF GiveUp, store, journal, Idle, NoEngine, Agreement, Live, Phases, Typed, TypeOK, Senders
<1>7. MemoryInv'
  BY DEF GiveUp, store, journal, Idle, NoEngine, MemoryInv, CommandsConform, Blamed, Phases, Typed, TypeOK, Senders
<1>8. CommandsConform'
  BY DEF GiveUp, store, journal, Idle, NoEngine, CommandsConform, Phases, Typed, TypeOK, Senders
<1>9. QED
  BY <1>2, <1>3, <1>4, <1>5, <1>6, <1>7, <1>8

(***************************************************************************)
(* The engine's steps                                                      *)
(***************************************************************************)
LEMMA EngineInputFaith ==
  ASSUME TurnInv, FaithInv, TurnInv', EngineInput
  PROVE  FaithInv'
<1> USE TurnAssumption DEF TurnInv, Control, World, FaithInv
<1>1. PICK m : m = [op |-> "input", turn |-> run.turn, arg |-> None, who |-> "engine"] /\ Pushed(queue, queue', m)
  <2>1. Queue(queue) /\ WellFormed([op |-> "input", turn |-> run.turn, arg |-> None, who |-> "engine"])
    BY DEF EngineInput, store, journal, In, Send, Typed, Phases, WellFormed, EngineItems
  <2>2. queue' = Append(queue, [op |-> "input", turn |-> run.turn, arg |-> None, who |-> "engine"])
    BY DEF EngineInput, store, journal, In, Send
  <2>3. QED
    BY <2>1, <2>2, QueuePushed
<1>2. RunsOn'
  BY DEF EngineInput, store, journal, In, Send, RunsOn, ActiveInv, Live, Phases, Typed, TypeOK, Senders
<1>3. BeginAlone'
  BY <1>1 DEF EngineInput, store, journal, In, Send, Pushed, BeginAlone, RunLast, Phases, Typed, TypeOK, Senders
<1>4. AckInv'
  BY <1>1 DEF EngineInput, store, journal, In, Send, Pushed, AckInv, Phases, Typed, TypeOK, Senders
<1>5. Blamed'
  BY DEF EngineInput, store, journal, In, Send, Blamed, Live, Phases, Typed, TypeOK, Senders
<1>6. Agreement'
  <2> SUFFICES ASSUME Live', ~poison' PROVE Agrees'
    BY DEF Agreement
  <2>1. Agrees /\ Live /\ UNCHANGED <<ledger, run>>
    BY DEF EngineInput, store, In, Agreement, Live
  <2>2. /\ engine.pc = "step" /\ reply["engine"] = "none"
        /\ engine'.pc = "input" /\ reply'["engine"] = "wait"
        /\ \A c \in Calls : reply'[c] = reply[c]
        /\ UNCHANGED <<memory, task>> /\ engine'.usage = engine.usage
        /\ Len(memory) =< MaxHistory
    BY DEF EngineInput, In, Send, Took, Live, Typed, TypeOK, Senders, Phases
  <2>3. HistoryAgrees'
    BY <2>1, <2>2 DEF Agrees, HistoryAgrees, At
  <2>4. StepAgrees'
    BY <2>1, <2>2 DEF Agrees, StepAgrees, At
  <2>5. CallsAgree'
    BY <2>1, <2>2 DEF Agrees, CallsAgree, At
  <2>6. UsageAgrees'
    BY <2>1, <2>2 DEF Agrees, UsageAgrees, At
  <2>7. EngineChecked'
    BY <2>1, <2>2 DEF Agrees, EngineChecked, At, New
  <2>8. \A c \in Calls : TaskAgrees(c)'
    BY <2>1, <2>2 DEF Agrees, TaskAgrees
  <2>9. QED
    BY <2>3, <2>4, <2>5, <2>6, <2>7, <2>8 DEF Agrees
<1>7. MemoryInv'
  BY DEF EngineInput, store, journal, In, Send, MemoryInv, CommandsConform, Blamed, Phases, Typed, TypeOK, Senders
<1>8. CommandsConform'
  BY DEF EngineInput, store, journal, In, Send, CommandsConform, Phases, Typed, TypeOK, Senders
<1>9. QED
  BY <1>2, <1>3, <1>4, <1>5, <1>6, <1>7, <1>8

LEMMA EngineStreamFaith ==
  ASSUME TurnInv, FaithInv, TurnInv', EngineStream
  PROVE  FaithInv'
<1> USE TurnAssumption DEF TurnInv, Control, World, FaithInv
<1>2. RunsOn'
  BY DEF EngineStream, store, journal, In, Took, RunsOn, ActiveInv, Live, Phases, Typed, TypeOK, Senders
<1>3. BeginAlone'
  BY DEF EngineStream, store, journal, In, Took, BeginAlone, RunLast, Phases, Typed, TypeOK, Senders
<1>4. AckInv'
  BY DEF EngineStream, store, journal, In, Took, AckInv, Phases, Typed, TypeOK, Senders
<1>5. Blamed'
  BY DEF EngineStream, store, journal, In, Took, Blamed, Live, Phases, Typed, TypeOK, Senders
<1>6. Agreement'
  <2> SUFFICES ASSUME Live', ~poison' PROVE Agrees'
    BY DEF Agreement
  <2>1. Agrees /\ Live /\ UNCHANGED <<ledger, run>>
    BY DEF EngineStream, store, In, Agreement, Live
  <2>2. /\ engine.pc = "input" /\ reply["engine"] = "ok"
        /\ engine'.pc = "stream" /\ reply'["engine"] = "none"
        /\ \A c \in Calls : reply'[c] = reply[c]
        /\ UNCHANGED <<memory, task>> /\ engine'.usage = engine.usage /\ engine'.calls = <<>>
    BY DEF EngineStream, In, Send, Took, Live, Typed, TypeOK, Senders, Phases
  <2>3. HistoryAgrees'
    BY <2>1, <2>2 DEF Agrees, HistoryAgrees, At
  <2>4. StepAgrees'
    BY <2>1, <2>2 DEF Agrees, StepAgrees, At
  <2>5. CallsAgree'
    BY <2>1, <2>2, ResultsEmpty DEF Agrees, CallsAgree, At
  <2>6. UsageAgrees'
    BY <2>1, <2>2 DEF Agrees, UsageAgrees, At
  <2>7. EngineChecked'
    BY <2>1, <2>2 DEF Agrees, EngineChecked, At, New
  <2>8. \A c \in Calls : TaskAgrees(c)'
    BY <2>1, <2>2 DEF Agrees, TaskAgrees
  <2>9. QED
    BY <2>3, <2>4, <2>5, <2>6, <2>7, <2>8 DEF Agrees
<1>7. MemoryInv'
  BY DEF EngineStream, store, journal, In, Took, MemoryInv, CommandsConform, Blamed, Phases, Typed, TypeOK, Senders
<1>8. CommandsConform'
  BY DEF EngineStream, store, journal, In, Took, CommandsConform, Phases, Typed, TypeOK, Senders
<1>9. QED
  BY <1>2, <1>3, <1>4, <1>5, <1>6, <1>7, <1>8

LEMMA EngineItemFaith ==
  ASSUME TurnInv, FaithInv, TurnInv', EngineItem
  PROVE  FaithInv'
<1> USE TurnAssumption DEF TurnInv, Control, World, FaithInv
<1>1. PICK m : m.who = "engine" /\ Pushed(queue, queue', m)
  <2>1. PICK item \in EngineItems : queue' = Append(queue,
            [op |-> item.kind, turn |-> run.turn, arg |-> item.id, who |-> "engine"])
    BY DEF EngineItem, Send, EngineItems
  <2>2. WellFormed([op |-> item.kind, turn |-> run.turn, arg |-> item.id, who |-> "engine"])
    BY <2>1 DEF EngineItem, In, EngineItems, WellFormed, Phases
  <2>3. QED
    BY <2>1, <2>2, QueuePushed DEF Typed
<1>2. RunsOn'
  BY DEF EngineItem, store, journal, In, Send, RunsOn, ActiveInv, Live, Phases, Typed, TypeOK, Senders
<1>3. BeginAlone'
  BY <1>1 DEF EngineItem, store, journal, In, Send, Pushed, BeginAlone, RunLast, Phases, Typed, TypeOK, Senders
<1>4. AckInv'
  BY <1>1 DEF EngineItem, store, journal, In, Send, Pushed, AckInv, Phases, Typed, TypeOK, Senders
<1>5. Blamed'
  BY DEF EngineItem, store, journal, In, Send, Blamed, Live, Phases, Typed, TypeOK, Senders
<1>6. Agreement'
  <2> SUFFICES ASSUME Live', ~poison' PROVE Agrees'
    BY DEF Agreement
  <2>1. Agrees /\ Live /\ UNCHANGED <<ledger, run>>
    BY DEF EngineItem, store, In, Agreement, Live
  <2>2. /\ engine.pc = "stream" /\ reply["engine"] = "none"
        /\ engine'.pc = "item" /\ reply'["engine"] = "wait"
        /\ \A c \in Calls : reply'[c] = reply[c]
        /\ UNCHANGED <<memory, task>> /\ engine'.usage = engine.usage /\ engine'.calls = engine.calls
        /\ New(engine'.item)
    BY DEF EngineItem, In, Send, Took, Live, Typed, TypeOK, Senders, Phases
  <2>3. HistoryAgrees'
    BY <2>1, <2>2 DEF Agrees, HistoryAgrees, At
  <2>4. StepAgrees'
    BY <2>1, <2>2 DEF Agrees, StepAgrees, At
  <2>5. CallsAgree'
    BY <2>1, <2>2 DEF Agrees, CallsAgree, At
  <2>6. UsageAgrees'
    BY <2>1, <2>2 DEF Agrees, UsageAgrees, At
  <2>7. EngineChecked'
    BY <2>1, <2>2 DEF Agrees, EngineChecked, At, New
  <2>8. \A c \in Calls : TaskAgrees(c)'
    BY <2>1, <2>2 DEF Agrees, TaskAgrees
  <2>9. QED
    BY <2>3, <2>4, <2>5, <2>6, <2>7, <2>8 DEF Agrees
<1>7. MemoryInv'
  BY DEF EngineItem, store, journal, In, Send, MemoryInv, CommandsConform, Blamed, Phases, Typed, TypeOK, Senders
<1>8. CommandsConform'
  BY DEF EngineItem, store, journal, In, Send, CommandsConform, Phases, Typed, TypeOK, Senders
<1>9. QED
  BY <1>2, <1>3, <1>4, <1>5, <1>6, <1>7, <1>8

LEMMA EngineAppendFaith ==
  ASSUME TurnInv, FaithInv, TurnInv', EngineAppend
  PROVE  FaithInv'
<1> USE TurnAssumption DEF TurnInv, Control, World, FaithInv
<1>2. RunsOn'
  BY DEF EngineAppend, store, journal, In, Took, RunsOn, ActiveInv, Live, Phases, Typed, TypeOK, Senders
<1>3. BeginAlone'
  BY DEF EngineAppend, store, journal, In, Took, BeginAlone, RunLast, Phases, Typed, TypeOK, Senders
<1>4. AckInv'
  BY DEF EngineAppend, store, journal, In, Took, AckInv, Phases, Typed, TypeOK, Senders
<1>5. Blamed'
  BY DEF EngineAppend, store, journal, In, Took, Blamed, Live, Phases, Typed, TypeOK, Senders
<1>6. Agreement'
  <2> SUFFICES ASSUME Live', ~poison' PROVE Agrees'
    BY DEF Agreement
  <2>1. Agrees /\ Live /\ UNCHANGED <<ledger, run>>
    BY DEF EngineAppend, store, In, Agreement, Live
  <2>2. /\ engine.pc = "item" /\ reply["engine"] = "ok"
        /\ engine'.pc = "stream" /\ reply'["engine"] = "none"
        /\ \A c \in Calls : reply'[c] = reply[c]
        /\ UNCHANGED task /\ engine'.usage = engine.usage /\ memory' = Append(memory, engine.item)
        /\ engine'.calls = IF engine.item.kind = "call" THEN Append(engine.calls, engine.item.id)
                          ELSE engine.calls
        /\ engine.item \in EngineItems /\ engine.calls \in Seq(Calls)
    BY DEF EngineAppend, In, Send, Took, Live, Typed, TypeOK, Senders, Phases
  <2>3. HistoryAgrees'
    BY <2>1, <2>2 DEF Agrees, HistoryAgrees, At
  <2>4. StepAgrees'
    BY <2>1, <2>2 DEF Agrees, StepAgrees, At
  <2>a. engine.item.kind = "call" =>
           Results(engine'.calls) = Append(Results(engine.calls), ResultItem(engine.item.id))
    BY <2>2, ResultsAppend DEF EngineItems
  <2>5. CallsAgree'
    BY <2>1, <2>2, <2>a DEF Agrees, CallsAgree, At
  <2>6. UsageAgrees'
    BY <2>1, <2>2 DEF Agrees, UsageAgrees, At
  <2>7. EngineChecked'
    BY <2>1, <2>2 DEF Agrees, EngineChecked, At, New
  <2>8. \A c \in Calls : TaskAgrees(c)'
    BY <2>1, <2>2 DEF Agrees, TaskAgrees
  <2>9. QED
    BY <2>3, <2>4, <2>5, <2>6, <2>7, <2>8 DEF Agrees
<1>7. MemoryInv'
  <2>1. /\ UNCHANGED <<ledger, up, run>> /\ run.pc = "running"
        /\ memory' = Append(memory, engine.item) /\ At("item", "ok") /\ Live
    BY DEF EngineAppend, store, Took, In, At, Live
  <2>2. HistoryAgrees
    BY <2>1, EngineOnly DEF Agreement, Agrees, At
  <2>3. memory' = ledger.history
    BY <2>1, <2>2 DEF HistoryAgrees
  <2>4. QED
    BY <2>1, <2>3, BeginsSelf DEF MemoryInv, Typed
<1>8. CommandsConform'
  BY DEF EngineAppend, store, journal, In, Took, CommandsConform, Phases, Typed, TypeOK, Senders
<1>9. QED
  BY <1>2, <1>3, <1>4, <1>5, <1>6, <1>7, <1>8

LEMMA EngineFinishFaith ==
  ASSUME TurnInv, FaithInv, TurnInv', NEW u \in Usages, EngineFinish(u)
  PROVE  FaithInv'
<1> USE TurnAssumption DEF TurnInv, Control, World, FaithInv
<1>1. PICK m : m = [op |-> "finish", turn |-> run.turn, arg |-> u, who |-> "engine"] /\ Pushed(queue, queue', m)
  <2>1. Queue(queue) /\ WellFormed([op |-> "finish", turn |-> run.turn, arg |-> u, who |-> "engine"])
    BY DEF EngineFinish, store, journal, In, Send, Typed, Phases, WellFormed, EngineItems
  <2>2. queue' = Append(queue, [op |-> "finish", turn |-> run.turn, arg |-> u, who |-> "engine"])
    BY DEF EngineFinish, store, journal, In, Send
  <2>3. QED
    BY <2>1, <2>2, QueuePushed
<1>2. RunsOn'
  BY DEF EngineFinish, store, journal, In, Send, RunsOn, ActiveInv, Live, Phases, Typed, TypeOK, Senders
<1>3. BeginAlone'
  BY <1>1 DEF EngineFinish, store, journal, In, Send, Pushed, BeginAlone, RunLast, Phases, Typed, TypeOK, Senders
<1>4. AckInv'
  BY <1>1 DEF EngineFinish, store, journal, In, Send, Pushed, AckInv, Phases, Typed, TypeOK, Senders
<1>5. Blamed'
  BY DEF EngineFinish, store, journal, In, Send, Blamed, Live, Phases, Typed, TypeOK, Senders
<1>6. Agreement'
  <2> SUFFICES ASSUME Live', ~poison' PROVE Agrees'
    BY DEF Agreement
  <2>1. Agrees /\ Live /\ UNCHANGED <<ledger, run>>
    BY DEF EngineFinish, store, In, Agreement, Live
  <2>2. /\ engine.pc = "stream" /\ reply["engine"] = "none"
        /\ engine'.pc = "finish" /\ reply'["engine"] = "wait"
        /\ \A c \in Calls : reply'[c] = reply[c]
        /\ UNCHANGED <<memory, task>> /\ engine'.usage = engine.usage + u /\ engine'.calls = engine.calls
        /\ engine.usage + u =< MaxUsage
    BY DEF EngineFinish, In, Send, Took, Live, Typed, TypeOK, Senders, Phases
  <2>3. HistoryAgrees'
    BY <2>1, <2>2 DEF Agrees, HistoryAgrees, At
  <2>4. StepAgrees'
    BY <2>1, <2>2 DEF Agrees, StepAgrees, At
  <2>5. CallsAgree'
    BY <2>1, <2>2 DEF Agrees, CallsAgree, At
  <2>6. UsageAgrees'
    BY <2>1, <2>2, <1>1, EngineOnly DEF Agrees, UsageAgrees, At, Pushed
  <2>7. EngineChecked'
    BY <2>1, <2>2 DEF Agrees, EngineChecked, At, New
  <2>8. \A c \in Calls : TaskAgrees(c)'
    BY <2>1, <2>2 DEF Agrees, TaskAgrees
  <2>9. QED
    BY <2>3, <2>4, <2>5, <2>6, <2>7, <2>8 DEF Agrees
<1>7. MemoryInv'
  BY DEF EngineFinish, store, journal, In, Send, MemoryInv, CommandsConform, Blamed, Phases, Typed, TypeOK, Senders
<1>8. CommandsConform'
  BY DEF EngineFinish, store, journal, In, Send, CommandsConform, Phases, Typed, TypeOK, Senders
<1>9. QED
  BY <1>2, <1>3, <1>4, <1>5, <1>6, <1>7, <1>8

LEMMA EngineDispatchFaith ==
  ASSUME TurnInv, FaithInv, TurnInv', EngineDispatch
  PROVE  FaithInv'
<1> USE TurnAssumption DEF TurnInv, Control, World, FaithInv
<1>2. RunsOn'
  BY DEF EngineDispatch, store, journal, In, Took, RunsOn, ActiveInv, Live, Phases, Typed, TypeOK, Senders
<1>3. BeginAlone'
  BY DEF EngineDispatch, store, journal, In, Took, BeginAlone, RunLast, Phases, Typed, TypeOK, Senders
<1>4. AckInv'
  BY DEF EngineDispatch, store, journal, In, Took, AckInv, Phases, Typed, TypeOK, Senders
<1>5. Blamed'
  BY DEF EngineDispatch, store, journal, In, Took, Blamed, Live, Phases, Typed, TypeOK, Senders
<1>6. Agreement'
  <2> SUFFICES ASSUME Live', ~poison' PROVE Agrees'
    BY DEF Agreement
  <2>1. Agrees /\ Live /\ UNCHANGED <<ledger, run>>
    BY DEF EngineDispatch, store, In, Agreement, Live
  <2>0. /\ DOMAIN engine.calls = 1..Len(engine.calls)
        /\ \A k \in 1..Len(engine.calls) : engine.calls[k] \in Calls
    BY LenProperties, ElementOfSeq DEF Typed
  <2>2. /\ engine.pc = "finish" /\ reply["engine"] = "ok"
        /\ engine'.pc = "tools" /\ reply'["engine"] = "none"
        /\ \A c \in Calls : reply'[c] = reply[c]
        /\ UNCHANGED memory /\ engine'.usage = engine.usage /\ engine'.calls = engine.calls
        /\ Len(memory) =< MaxHistory
        /\ \A k \in 1..Len(engine.calls) : engine.calls[k] \in Calls /\ Fresh(engine.calls[k])
        /\ task' = [c \in Calls |-> IF \E k \in 1..Len(engine.calls) : engine.calls[k] = c
                                   THEN "enter" ELSE "none"]
    BY <2>0 DEF EngineDispatch, CallsFresh, In, Send, Took, Live, Typed, TypeOK, Senders, Phases
  <2>3. HistoryAgrees'
    BY <2>1, <2>2 DEF Agrees, HistoryAgrees, At
  <2>4. StepAgrees'
    BY <2>1, <2>2 DEF Agrees, StepAgrees, At
  <2>5. CallsAgree'
    BY <2>1, <2>2 DEF Agrees, CallsAgree, At
  <2>6. UsageAgrees'
    BY <2>1, <2>2 DEF Agrees, UsageAgrees, At
  <2>7. EngineChecked'
    BY <2>1, <2>2 DEF Agrees, EngineChecked, At, New
  <2>a. \A c \in Calls : /\ task'[c] \in {"enter", "none"}
                           /\ task'[c] = "enter" => ledger.call[c].turn = run.turn
    BY <2>2 DEF Fresh
  <2>8. \A c \in Calls : TaskAgrees(c)'
    BY <2>1, <2>2, <2>a DEF Agrees, TaskAgrees
  <2>9. QED
    BY <2>3, <2>4, <2>5, <2>6, <2>7, <2>8 DEF Agrees
<1>7. MemoryInv'
  BY DEF EngineDispatch, store, journal, In, Took, MemoryInv, CommandsConform, Blamed, Phases, Typed, TypeOK, Senders
<1>8. CommandsConform'
  BY DEF EngineDispatch, store, journal, In, Took, CommandsConform, Phases, Typed, TypeOK, Senders
<1>9. QED
  BY <1>2, <1>3, <1>4, <1>5, <1>6, <1>7, <1>8

LEMMA EngineBatchFaith ==
  ASSUME TurnInv, FaithInv, TurnInv', EngineBatch
  PROVE  FaithInv'
<1> USE TurnAssumption DEF TurnInv, Control, World, FaithInv
<1>1. PICK m : m = [op |-> "batch", turn |-> run.turn, arg |-> engine.calls, who |-> "engine"] /\ Pushed(queue, queue', m)
  <2>1. Queue(queue) /\ WellFormed([op |-> "batch", turn |-> run.turn, arg |-> engine.calls, who |-> "engine"])
    BY DEF EngineBatch, store, journal, In, Send, Typed, Phases, WellFormed, EngineItems
  <2>2. queue' = Append(queue, [op |-> "batch", turn |-> run.turn, arg |-> engine.calls, who |-> "engine"])
    BY DEF EngineBatch, store, journal, In, Send
  <2>3. QED
    BY <2>1, <2>2, QueuePushed
<1>2. RunsOn'
  BY DEF EngineBatch, store, journal, In, Send, RunsOn, ActiveInv, Live, Phases, Typed, TypeOK, Senders
<1>3. BeginAlone'
  BY <1>1 DEF EngineBatch, store, journal, In, Send, Pushed, BeginAlone, RunLast, Phases, Typed, TypeOK, Senders
<1>4. AckInv'
  BY <1>1 DEF EngineBatch, store, journal, In, Send, Pushed, AckInv, Phases, Typed, TypeOK, Senders
<1>5. Blamed'
  BY DEF EngineBatch, store, journal, In, Send, Blamed, Live, Phases, Typed, TypeOK, Senders
<1>6. Agreement'
  <2> SUFFICES ASSUME Live', ~poison' PROVE Agrees'
    BY DEF Agreement
  <2>1. Agrees /\ Live /\ UNCHANGED <<ledger, run>>
    BY DEF EngineBatch, store, In, Agreement, Live
  <2>2. /\ engine.pc = "tools" /\ reply["engine"] = "none"
        /\ engine'.pc = "batch" /\ reply'["engine"] = "wait"
        /\ \A c \in Calls : reply'[c] = reply[c]
        /\ UNCHANGED <<memory, task>> /\ engine'.usage = engine.usage /\ engine'.calls = engine.calls
        /\ (\A c \in Calls : task[c] \in {"none", "done"})
        /\ \A k \in 1..Len(engine.calls) : engine.calls[k] \in Calls
    BY ElementOfSeq DEF EngineBatch, In, Send, Took, Live, Typed, TypeOK, Senders, Phases
  <2>3. HistoryAgrees'
    BY <2>1, <2>2 DEF Agrees, HistoryAgrees, At
  <2>4. StepAgrees'
    BY <2>1, <2>2 DEF Agrees, StepAgrees, At
  <2>5. CallsAgree'
    BY <2>1, <2>2 DEF Agrees, CallsAgree, At
  <2>6. UsageAgrees'
    BY <2>1, <2>2 DEF Agrees, UsageAgrees, At
  <2>7. EngineChecked'
    BY <2>1, <2>2 DEF Agrees, EngineChecked, At, New
  <2>8. \A c \in Calls : TaskAgrees(c)'
    BY <2>1, <2>2 DEF Agrees, TaskAgrees
  <2>9. QED
    BY <2>3, <2>4, <2>5, <2>6, <2>7, <2>8 DEF Agrees
<1>7. MemoryInv'
  BY DEF EngineBatch, store, journal, In, Send, MemoryInv, CommandsConform, Blamed, Phases, Typed, TypeOK, Senders
<1>8. CommandsConform'
  BY DEF EngineBatch, store, journal, In, Send, CommandsConform, Phases, Typed, TypeOK, Senders
<1>9. QED
  BY <1>2, <1>3, <1>4, <1>5, <1>6, <1>7, <1>8

LEMMA EngineResultsFaith ==
  ASSUME TurnInv, FaithInv, TurnInv', EngineResults
  PROVE  FaithInv'
<1> USE TurnAssumption DEF TurnInv, Control, World, FaithInv
<1>2. RunsOn'
  BY DEF EngineResults, store, journal, In, Took, NoTasks, RunsOn, ActiveInv, Live, Phases, Typed, TypeOK, Senders
<1>3. BeginAlone'
  BY DEF EngineResults, store, journal, In, Took, NoTasks, BeginAlone, RunLast, Phases, Typed, TypeOK, Senders
<1>4. AckInv'
  BY DEF EngineResults, store, journal, In, Took, NoTasks, AckInv, Phases, Typed, TypeOK, Senders
<1>5. Blamed'
  BY DEF EngineResults, store, journal, In, Took, NoTasks, Blamed, Live, Phases, Typed, TypeOK, Senders
<1>6. Agreement'
  <2> SUFFICES ASSUME Live', ~poison' PROVE Agrees'
    BY DEF Agreement
  <2>1. Agrees /\ Live /\ UNCHANGED <<ledger, run>>
    BY DEF EngineResults, store, In, Agreement, Live
  <2>0. Results(engine.calls) = [k \in DOMAIN engine.calls |->
                                    [kind |-> "result", id |-> engine.calls[k]]]
    BY LenProperties DEF Results, ResultItem, Typed
  <2>2. /\ engine.pc = "batch" /\ reply["engine"] = "ok"
        /\ engine'.pc = "step" /\ reply'["engine"] = "none"
        /\ \A c \in Calls : reply'[c] = reply[c]
        /\ engine'.usage = engine.usage /\ task' = [c \in Calls |-> "none"]
        /\ memory' = memory \o Results(engine.calls)
    BY <2>0 DEF EngineResults, NoTasks, In, Send, Took, Live, Typed, TypeOK, Senders, Phases
  <2>3. HistoryAgrees'
    BY <2>1, <2>2 DEF Agrees, HistoryAgrees, At
  <2>4. StepAgrees'
    BY <2>1, <2>2 DEF Agrees, StepAgrees, At
  <2>5. CallsAgree'
    BY <2>1, <2>2 DEF Agrees, CallsAgree, At
  <2>6. UsageAgrees'
    BY <2>1, <2>2 DEF Agrees, UsageAgrees, At
  <2>7. EngineChecked'
    BY <2>1, <2>2 DEF Agrees, EngineChecked, At, New
  <2>8. \A c \in Calls : TaskAgrees(c)'
    BY <2>1, <2>2 DEF Agrees, TaskAgrees
  <2>9. QED
    BY <2>3, <2>4, <2>5, <2>6, <2>7, <2>8 DEF Agrees
<1>7. MemoryInv'
  <2>1. /\ UNCHANGED <<ledger, up, run>> /\ run.pc = "running" /\ At("batch", "ok") /\ Live
    BY DEF EngineResults, store, Took, In, At, Live
  <2>2. Results(engine.calls) = [k \in DOMAIN engine.calls |->
                                    [kind |-> "result", id |-> engine.calls[k]]]
    BY LenProperties DEF Results, ResultItem, Typed
  <2>3. HistoryAgrees
    BY <2>1, EngineOnly DEF Agreement, Agrees, At
  <2>4. memory' = ledger.history
    BY <2>1, <2>2, <2>3 DEF HistoryAgrees, EngineResults, At
  <2>5. QED
    BY <2>1, <2>4, BeginsSelf DEF MemoryInv, Typed
<1>8. CommandsConform'
  BY DEF EngineResults, store, journal, In, Took, NoTasks, CommandsConform, Phases, Typed, TypeOK, Senders
<1>9. QED
  BY <1>2, <1>3, <1>4, <1>5, <1>6, <1>7, <1>8

(***************************************************************************)
(* The steps of a call.  A call moves to q, sends or takes nothing but its *)
(* own commands, and leaves what the engine agrees on alone.               *)
(***************************************************************************)
Steps(c, q, r) ==
    /\ UNCHANGED <<ledger, poison, run, engine, memory, up>>
    /\ task[c] \notin {"none", "done"} /\ q # "none" /\ task' = [task EXCEPT ![c] = q]
    /\ reply[c] \notin {"error", "wait"} /\ reply' = [reply EXCEPT ![c] = r]
    /\ queue' = queue \/ \E m : m.who = c /\ Pushed(queue, queue', m)

LEMMA StepsFaith ==
  ASSUME TurnInv, FaithInv, NEW c \in Calls, NEW q, NEW r \in {"none", "wait", "ok"},
         Steps(c, q, r), TaskAgrees(c) => TaskAgrees(c)'
  PROVE  FaithInv'
<1> USE TurnAssumption DEF TurnInv, Control, FaithInv
<1>1. /\ run.pc = "running" /\ Live /\ engine.pc = "tools"
  BY TaskRuns DEF Steps, Phases
<1>2. /\ UNCHANGED <<ledger, poison, run, engine, memory, up>>
      /\ \A d \in Calls \ {c} : task'[d] = task[d]
      /\ \A d \in Calls : task[d] # "none" => task'[d] # "none"
      /\ \A a \in Senders \ {c} : reply'[a] = reply[a]
      /\ reply[c] \notin {"error", "wait"} /\ reply'[c] = r /\ c \in Senders
  BY DEF Steps, Typed, TypeOK, Senders
<1>3. /\ reply'["run"] = reply["run"] /\ reply'["engine"] = reply["engine"]
      /\ reply'["acknowledge"] = reply["acknowledge"]
  BY <1>2 DEF Senders
<1>4. \A k \in 1..Len(queue') : queue'[k].who = c \/ (k \in 1..Len(queue) /\ queue'[k] = queue[k])
  BY DEF Steps, Pushed
<1>5. RunsOn' /\ BeginAlone'
  BY <1>1, <1>2 DEF RunsOn, BeginAlone
<1>6. AckInv'
  BY <1>2, <1>3, <1>4 DEF AckInv
<1>7. Blamed'
  BY <1>1, <1>2, <1>3 DEF Blamed, Live, Senders
<1>8. Agreement'
  <2> SUFFICES ASSUME ~poison, Agrees PROVE Agrees'
    BY <1>1, <1>2 DEF Agreement
  <2>1. HistoryAgrees' /\ StepAgrees' /\ CallsAgree' /\ UsageAgrees'
    BY <1>1, <1>2, <1>3 DEF Agrees, HistoryAgrees, StepAgrees, CallsAgree, UsageAgrees, At
  <2>2. EngineChecked'
    <3>1. \A k \in 1..Len(engine.calls) : engine.calls[k] \in Calls
      BY ElementOfSeq DEF Typed
    <3>2. QED
      BY <1>1, <1>2, <1>3, <3>1 DEF Agrees, EngineChecked, At
  <2>3. ASSUME NEW d \in Calls \ {c} PROVE TaskAgrees(d)'
    <3>1. TaskAgrees(d) /\ d \in Senders
      BY DEF Agrees, Senders
    <3>2. QED
      BY <1>2, <3>1 DEF TaskAgrees
  <2>4. TaskAgrees(c)'
    BY DEF Agrees
  <2>5. QED
    BY <2>1, <2>2, <2>3, <2>4 DEF Agrees
<1>9. MemoryInv'
  BY <1>1, <1>2 DEF MemoryInv
<1>10. CommandsConform'
  BY <1>2 DEF CommandsConform
<1>11. QED
  BY <1>5, <1>6, <1>7, <1>8, <1>9, <1>10

LEMMA CallSendFaith ==
  ASSUME TurnInv, FaithInv, NEW c \in Calls, NEW p \in {"intent", "outcome"}, NEW a,
         p = "outcome" => a \in Reported, task[c] \in {"enter", "check", "started", "running"},
         Send(c, p, a), Goto(c, p), UNCHANGED <<ledger, poison, run, engine, memory, up>>,
         TaskAgrees(c) => \/ p = "outcome" /\ ledger.call[c].outcome = None
                          \/ p = "intent" /\ ~ledger.call[c].intent
  PROVE  FaithInv'
<1> USE TurnAssumption DEF TurnInv, Control
<1>1. PICK m : m = [op |-> p, turn |-> run.turn, arg |-> a, who |-> c]
  OBVIOUS
<1>2. m.who = c /\ Pushed(queue, queue', m)
  <2>1. WellFormed(m) /\ queue' = Append(queue, m)
    BY <1>1, TaskRuns DEF WellFormed, Send
  <2>2. QED
    BY <1>1, <2>1, QueuePushed DEF Typed
<1>3. Steps(c, p, "wait")
  BY <1>2 DEF Steps, Send, Goto, Phases, Typed, TypeOK, Senders
<1>4. TaskAgrees(c) => TaskAgrees(c)'
  BY DEF TaskAgrees, Send, Goto, Typed, TypeOK, Senders
<1>5. QED
  BY <1>3, <1>4, StepsFaith

LEMMA CallGoesFaith ==
  ASSUME TurnInv, FaithInv, NEW c \in Calls, NEW q \in {"check", "started", "running", "done"},
         task[c] \in {"enter", "intent", "started", "outcome"}, Goto(c, q),
         \/ UNCHANGED <<queue, reply>> /\ reply[c] = "none"
         \/ Took(c),
         UNCHANGED <<ledger, poison, run, engine, memory, up>>,
         q = "running" => task[c] = "started", q = "done" => task[c] = "outcome" /\ Took(c)
  PROVE  FaithInv'
<1> USE TurnAssumption DEF TurnInv, Control
<1>1. Steps(c, q, "none")
  BY DEF Steps, Took, Goto, Phases, Typed, TypeOK, Senders
<1>2. TaskAgrees(c) => TaskAgrees(c)'
  BY DEF TaskAgrees, Took, Goto, Typed, TypeOK, Senders, World, TaskInv
<1>3. QED
  BY <1>1, <1>2, StepsFaith

LEMMA CallStepFaith ==
  ASSUME TurnInv, FaithInv, NEW c \in Calls, CallStep(c)
  PROVE  FaithInv'
<1> USE DEF Others, store, journal
<1>0. TaskInv(c) /\ {"error", "output"} \subseteq Reported
      /\ (reply[c] # "none" => task[c] \in {"intent", "outcome"})
  BY DEF TurnInv, World, Reported, Control, Phases
<1>1. CASE CallRejected(c)
  BY <1>0, <1>1, CallSendFaith DEF CallRejected, Report, TaskInv, Fresh
<1>2. CASE CallEnter(c)
  BY <1>0, <1>2, CallGoesFaith DEF CallEnter
<1>3. CASE CallIntent(c)
  BY <1>0, <1>3, CallSendFaith DEF CallIntent, Report, TaskInv, Fresh
<1>4. CASE CallStarted(c)
  BY <1>0, <1>4, CallGoesFaith DEF CallStarted
<1>5. CASE CallExecute(c)
  <2>1. CASE Report(c, "error")
    <3>1. /\ Send(c, "outcome", "error") /\ Goto(c, "outcome") /\ task[c] = "started"
          /\ UNCHANGED <<ledger, poison, run, engine, memory, up>>
          /\ ledger.call[c].outcome = None
      BY <1>0, <1>5, <2>1 DEF CallExecute, Report, TaskInv
    <3>2. QED
      BY <1>0, <3>1, CallSendFaith
  <2>2. CASE Goto(c, "running") /\ UNCHANGED journal
    BY <1>0, <1>5, <2>2, CallGoesFaith DEF CallExecute
  <2>3. QED
    BY <1>5, <2>1, <2>2 DEF CallExecute
<1>6. CASE CallReturn(c)
  <2>1. PICK r \in Reported : Send(c, "outcome", r) /\ Goto(c, "outcome")
    BY <1>6 DEF CallReturn, Report
  <2>2. task[c] = "running" /\ UNCHANGED <<ledger, poison, run, engine, memory, up>>
    BY <1>6 DEF CallReturn
  <2>3. TaskAgrees(c) => ledger.call[c].outcome = None
    BY <2>2 DEF TaskAgrees
  <2>4. QED
    BY <2>1, <2>2, <2>3, CallSendFaith
<1>7. CASE CallRecorded(c)
  BY <1>0, <1>7, CallGoesFaith DEF CallRecorded
<1>8. QED
  BY <1>1, <1>2, <1>3, <1>4, <1>5, <1>6, <1>7 DEF CallStep

(***************************************************************************)
(* Start, crash and reopening                                              *)
(***************************************************************************)
LEMMA InitFaith ==
  ASSUME Init
  PROVE  FaithInv
<1>1. /\ Len(queue) = 0 /\ run.pc = "idle" /\ poison = FALSE
      /\ \A a \in Senders : reply[a] = "none"
      /\ ledger.history = <<>> /\ memory = <<>>
  BY QueueEmpty DEF Init, Idle, NoReply, EmptyLedger, LedgerOf
<1>2. RunsOn /\ BeginAlone /\ AckInv /\ Blamed /\ Agreement /\ CommandsConform
  BY <1>1 DEF RunsOn, BeginAlone, AckInv, Blamed, Live, Agreement, CommandsConform
<1>3. MemoryInv
  BY <1>1, EmptySeq DEF MemoryInv, Begins
<1>4. QED
  BY <1>2, <1>3 DEF FaithInv

LEMMA CrashFaith ==
  ASSUME TurnInv, FaithInv, Crash
  PROVE  FaithInv'
<1>1. /\ Len(queue') = 0 /\ run'.pc = "idle" /\ poison' = FALSE /\ up' = FALSE
      /\ \A a \in Senders : reply'[a] = "none"
  BY QueueEmpty DEF Crash, Idle, NoReply
<1>2. RunsOn' /\ BeginAlone' /\ AckInv' /\ Blamed' /\ Agreement' /\ CommandsConform' /\ MemoryInv'
  BY <1>1 DEF RunsOn, BeginAlone, AckInv, Blamed, Live, Agreement, CommandsConform, MemoryInv
<1>3. QED
  BY <1>2 DEF FaithInv

LEMMA ReopenFaith ==
  ASSUME TurnInv, FaithInv, TurnInv', Reopen
  PROVE  FaithInv'
<1> USE DEF TurnInv, Control, FaithInv
<1>1. run.pc = "idle" /\ \A a \in Senders \ {"acknowledge"} : reply[a] = "none"
  BY DEF Reopen, Phases, Typed, TypeOK, Senders
<1>2. /\ UNCHANGED <<queue, reply, run, engine, task>>
      /\ up' = TRUE /\ poison' = FALSE /\ memory' = ledger'.history /\ ledger' = Recover(ledger)
  BY DEF Reopen, journal
<1>3. Unresolved(ledger) => UNCHANGED ledger
  BY <1>2 DEF Typed, Good, Resolved, Recover
<1>4. RunsOn' /\ BeginAlone' /\ Blamed' /\ Agreement' /\ CommandsConform'
  BY <1>1, <1>2 DEF RunsOn, BeginAlone, Blamed, Live, Agreement, CommandsConform
<1>5. AckInv'
  BY <1>2, <1>3 DEF AckInv
<1>6. MemoryInv'
  BY <1>1, <1>2, BeginsSelf DEF MemoryInv, Typed
<1>7. QED
  BY <1>4, <1>5, <1>6

(***************************************************************************)
(* The journal worker.  The record accepts what the engine and its calls   *)
(* send while the engine executes.                                         *)
(***************************************************************************)
LEMMA EngineWaits ==
  ASSUME TurnInv, FaithInv, Live, NEW k \in 1..Len(queue), queue[k].who = "engine"
  PROVE  /\ reply["engine"] = "wait" /\ engine.pc # "tools"
         /\ engine.pc = queue[k].op \/ (engine.pc = "item" /\ queue[k].op = engine.item.kind)
<1>1. Awaited(queue[k])
  BY LiveCommands
<1>2. reply["engine"] = "wait" /\ engine.pc \in {"input", "item", "finish", "batch"}
  BY <1>1 DEF Awaited, TurnInv, Control, Phases
<1>3. QED
  BY <1>1, <1>2 DEF Awaited

LEMMA CallsDone ==
  ASSUME NEW g, Sound(g), NEW t \in Turns, ~LastStepOpen(g.run[t]), NEW c \in Calls,
         g.call[c].turn = t, g.call[c].outcome = None
  PROVE  StepCompleted(g, c)
<1>1. /\ g.run[t].steps \in Seq(Step) /\ t # None
      /\ DOMAIN g.run[t].steps = 1..Len(g.run[t].steps)
  BY SoundSteps, LenProperties, StateAssumption DEF StepsOf
<1>2. g.call[c].step \in 1..Len(g.run[t].steps) /\ g.call[c].step = Len(g.run[t].steps)
  BY <1>1 DEF Sound, Paired, StepsKnown, CommittedHasOutcome, OpenIsCurrent
<1>3. g.run[t].steps[Len(g.run[t].steps)].completed
  BY <1>1, <1>2, EmptySeq DEF LastStepOpen
<1>4. QED
  BY <1>1, <1>2, <1>3 DEF StepCompleted

LEMMA EngineCan ==
  ASSUME TurnInv, FaithInv, Live, ~poison, NEW k \in 1..Len(queue), queue[k].who = "engine"
  PROVE  Can(ledger, queue[k])
<1> USE TurnAssumption DEF TurnInv, Control, FaithInv
<1>1. PICK m : m = queue[k]
  OBVIOUS
<1>2. /\ WellFormed(m) /\ Awaited(m) /\ m.who = "engine" /\ reply["engine"] = "wait"
      /\ engine.pc # "tools"
      /\ engine.pc = m.op \/ (engine.pc = "item" /\ m.op = engine.item.kind)
  BY <1>1, LiveCommands, EngineWaits DEF Typed, Queue
<1>3. PICK t \in Turns : /\ t = run.turn /\ m.turn = t /\ ledger.run[t].status = "active"
  BY <1>2 DEF Live, Phases, World, ActiveInv, Awaited
<1>4. /\ Agrees /\ Sound(ledger) /\ engine.calls \in Seq(Calls)
      /\ DOMAIN engine.calls = 1..Len(engine.calls)
  BY LenProperties DEF Agreement, Typed
<1>5. ledger.history = memory /\ DOMAIN memory = 1..Len(memory)
  <2>1. ledger.history = memory
    BY <1>2, <1>4 DEF Agrees, HistoryAgrees, At
  <2>2. QED
    BY <2>1, <1>4, LenProperties DEF Sound, LedgerType
<1>6. CASE m.op = "input"
  <2>1. engine.pc = "input"
    BY <1>2, <1>6 DEF Phases, EngineItems
  <2>2. Len(ledger.history) =< MaxHistory /\ ~LastStepOpen(ledger.run[t])
    BY <1>2, <1>3, <1>4, <1>5, <2>1 DEF Agrees, EngineChecked, StepAgrees, At
  <2>3. PICK s \in Seq(Calls) : Len(s) = 0 /\ ResultItems(ledger, t) = Results(s)
    BY <1>2, <1>3, <1>4, <2>1, ResultsEmpty, EmptySeq DEF Agrees, CallsAgree
  <2>4. Uncommitted(ledger, t) = {}
    <3>1. {s[j] : j \in 1..Len(s)} = Uncommitted(ledger, t)
      BY <1>4, <2>3, ResultItemsIds
    <3>2. QED
      BY <2>3, <3>1
  <2>5. QED
    BY <1>1, <1>3, <1>6, <2>2, <2>4 DEF Can, CanModelInput
<1>7. CASE m.op = "message" \/ m.op = "call"
  <2>1. /\ engine.pc = "item" /\ engine.item \in EngineItems
        /\ m.op = engine.item.kind /\ m.arg = engine.item.id
    BY <1>2, <1>7 DEF Awaited, Phases, Typed, TypeOK
  <2>2. LastStepOpen(ledger.run[t])
    BY <1>3, <1>4, <2>1 DEF Agrees, StepAgrees
  <2>3. \A j \in 1..Len(ledger.history) : ~SameId(ledger.history[j], engine.item)
    BY <1>2, <1>4, <1>5, <2>1 DEF Agrees, EngineChecked, At, New
  <2>4. CASE m.op = "message"
    <3>1. ~KnownItem(ledger, m.arg)
      BY <1>5, <2>1, <2>3, <2>4 DEF KnownItem, SameId
    <3>2. QED
      BY <1>1, <1>3, <2>2, <2>4, <3>1 DEF Can, CanModelMessage
  <2>5. CASE m.op = "call"
    <3>1. m.arg \in Calls /\ ~Has(ledger.history, CallItem(m.arg))
      BY <2>1, <2>3, <2>5 DEF EngineItems, Has, CallItem, SameId
    <3>2. ledger.call[m.arg].turn = None
      BY <1>4, <3>1 DEF Sound, Paired, CallsMade
    <3>3. QED
      BY <1>1, <1>3, <2>2, <2>5, <3>2 DEF Can, CanModelCall
  <2>6. QED
    BY <1>7, <2>4, <2>5
<1>8. CASE m.op = "finish"
  <2>1. engine.pc = "finish"
    BY <1>2, <1>8 DEF Phases, EngineItems
  <2>2. LastStepOpen(ledger.run[t])
    BY <1>2, <1>3, <1>4, <2>1 DEF Agrees, StepAgrees
  <2>3. UsageSum(ledger.run[t].steps) + m.arg =< MaxUsage
    BY <1>1, <1>2, <1>3, <1>4, <2>1 DEF Agrees, UsageAgrees, At, StepsOf
  <2>4. QED
    BY <1>1, <1>3, <1>8, <2>2, <2>3 DEF Can, CanModelStepFinished
<1>9. CASE m.op = "batch"
  <2>1. engine.pc = "batch" /\ m.arg = engine.calls
    BY <1>2, <1>9 DEF Phases, EngineItems, Awaited
  <2>2. ResultItems(ledger, t) = Results(engine.calls)
    BY <1>2, <1>3, <1>4, <2>1 DEF Agrees, CallsAgree, At
  <2>3. {engine.calls[j] : j \in 1..Len(engine.calls)} = Uncommitted(ledger, t)
    BY <1>4, <2>2, ResultItemsIds
  <2>4. ASSUME NEW c \in Uncommitted(ledger, t)
        PROVE  ledger.call[c].outcome # None
    <3>1. c \in Calls /\ task[c] = "done"
      BY <1>4, <2>1, <2>3 DEF Agrees, EngineChecked, Uncommitted
    <3>2. QED
      BY <1>4, <3>1 DEF Agrees, TaskAgrees
  <2>5. QED
    BY <1>1, <1>3, <1>4, <1>9, <2>1, <2>3, <2>4 DEF Can, CanToolBatch
<1>10. QED
  BY <1>2, <1>6, <1>7, <1>8, <1>9 DEF WellFormed

LEMMA CallCan ==
  ASSUME TurnInv, FaithInv, Live, ~poison, NEW k \in 1..Len(queue), queue[k].who \in Calls
  PROVE  /\ Can(ledger, queue[k]) /\ engine.pc = "tools"
         /\ queue[k].op = task[queue[k].who] /\ task[queue[k].who] \in {"intent", "outcome"}
<1> USE TurnAssumption DEF TurnInv, Control, FaithInv
<1>1. PICK m : m = queue[k]
  OBVIOUS
<1>2. PICK c \in Calls : c = m.who
  BY <1>1
<1>3. WellFormed(m) /\ Awaited(m) /\ m.op \in {"intent", "outcome"}
  <2>1. WellFormed(m) /\ Awaited(m)
    BY <1>1, LiveCommands DEF Typed, Queue
  <2>2. QED
    BY <1>2, <2>1 DEF WellFormed
<1>4. /\ m.turn = run.turn /\ m.op = task[c] /\ reply[c] = "wait" /\ engine.pc = "tools"
  BY <1>2, <1>3 DEF Awaited, Phases
<1>5. PICK t \in Turns : /\ t = run.turn /\ m.turn = t /\ ledger.run[t].status = "active"
  BY <1>4 DEF Live, Phases, World, ActiveInv
<1>6. Agrees /\ Sound(ledger)
  BY DEF Agreement, Typed
<1>7. /\ ledger.history = memory /\ Len(memory) =< MaxHistory /\ ~LastStepOpen(ledger.run[t])
      /\ ledger.call[c].turn = t /\ ledger.call[c].outcome = None
      /\ m.op = "intent" => ~ledger.call[c].intent
  BY <1>3, <1>4, <1>5, <1>6
     DEF Agrees, HistoryAgrees, StepAgrees, EngineChecked, TaskAgrees, At, World, TaskInv
<1>8. StepCompleted(ledger, c)
  BY <1>6, <1>7, CallsDone
<1>9. Can(ledger, m)
  BY <1>2, <1>3, <1>5, <1>7, <1>8 DEF Can, CanDispatchIntent, CanToolOutcome
<1>10. QED
  BY <1>1, <1>2, <1>3, <1>4, <1>9

\* The worker has taken m, has done it, and m's sender knows.
Done(m) ==
    /\ WellFormed(m) /\ Awaited(m) /\ m.who \in {"engine"} \cup Calls
    /\ Can(ledger, m) /\ ledger' = Do(ledger, m)
    /\ Good(ledger') /\ Sound(ledger') /\ Moves(ledger, ledger', m)
    /\ reply'[m.who] = "ok" /\ \A a \in Senders \ {m.who} : reply'[a] = reply[a]
    /\ UNCHANGED <<run, engine, task, memory>>

LEMMA TasksAgree ==
  ASSUME TurnInv, Live, Agrees, NEW m, Done(m), NEW c \in Calls
  PROVE  TaskAgrees(c)'
<1> USE TurnAssumption
<1>1. run.turn \in Turns /\ run.turn # None
  BY StateAssumption DEF TurnInv, Control, Phases, Live
<1>2. m.op \notin {"finalize", "detach", "begin"} /\ c \in Senders
  BY DEF Done, WellFormed, Senders
<1>3. /\ m.who = c => m.op = task[c] /\ reply'[c] = "ok"
      /\ m.who # c => reply'[c] = reply[c]
      /\ m.op = "outcome" => m.arg \in Reported /\ m.arg # None
      /\ m.op \in {"outcome", "intent"} => m.who \in Calls
  BY <1>2, NoneAssumption DEF Done, Awaited, WellFormed
<1>4. TaskAgrees(c) /\ CallsMove(ledger, ledger', m) /\ UNCHANGED <<run, task>>
  BY DEF Agrees, Done, Moves
<1>5. task[c] # "none" => ledger'.call[c].turn = run.turn
  BY <1>1, <1>4 DEF TaskAgrees, CallsMove
<1>6. task[c] = "intent" /\ reply'[c] = "wait" => ~ledger'.call[c].intent
  BY <1>3, <1>4 DEF TaskAgrees, CallsMove
<1>7. /\ task[c] = "running" \/ (task[c] = "outcome" /\ reply'[c] = "wait")
           => ledger'.call[c].outcome = None
      /\ task[c] = "done" \/ (task[c] = "outcome" /\ reply'[c] = "ok")
           => ledger'.call[c].outcome # None
  BY <1>2, <1>3, <1>4 DEF TaskAgrees, CallsMove
<1>8. QED
  BY <1>4, <1>5, <1>6, <1>7 DEF TaskAgrees

LEMMA EngineDone ==
  ASSUME TurnInv, FaithInv, Live, ~poison, NEW k \in 1..Len(queue), NEW m, m = queue[k],
         m.who = "engine", Done(m)
  PROVE  HistoryAgrees' /\ StepAgrees' /\ CallsAgree' /\ UsageAgrees' /\ EngineChecked'
<1> USE TurnAssumption DEF TurnInv, Control, FaithInv
<1>1. /\ WellFormed(m) /\ Awaited(m) /\ reply["engine"] = "wait" /\ engine.pc # "tools"
      /\ engine.pc = m.op \/ (engine.pc = "item" /\ m.op = engine.item.kind)
  BY EngineWaits DEF Done
<1>2. PICK t \in Turns : t = run.turn /\ m.turn = t
  BY <1>1 DEF Live, Phases, Awaited
<1>3. /\ Agrees /\ Sound(ledger) /\ Good(ledger)
  BY DEF Agreement, Typed
<1>4. /\ UNCHANGED <<run, engine, task, memory>> /\ reply'["engine"] = "ok"
      /\ Can(ledger, m) /\ ledger' = Do(ledger, m) /\ Sound(ledger')
  BY DEF Done
<1>5. EngineChecked'
  BY <1>3, <1>4 DEF Agrees, EngineChecked, At
<1>6. CASE m.op = "input"
  <2>1. engine.pc = "input"
    BY <1>1, <1>6 DEF Phases, EngineItems
  <2>2. /\ ledger'.history = ledger.history /\ LastStepOpen(ledger'.run[t])
        /\ UsageSum(StepsOf(ledger', t)) = UsageSum(StepsOf(ledger, t))
        /\ ResultItems(ledger', t) = ResultItems(ledger, t)
    <3>1. CanModelInput(ledger, t) /\ ledger' = ModelInput(ledger, t)
      BY <1>2, <1>4, <1>6 DEF Can, Do
    <3>2. QED
      BY <1>3, <3>1, InputDoes
  <2>3. QED
    BY <1>1, <1>2, <1>3, <1>4, <1>5, <2>1, <2>2
       DEF Agrees, HistoryAgrees, StepAgrees, CallsAgree, UsageAgrees, At
<1>7. CASE m.op = "message"
  <2>1. /\ engine.pc = "item" /\ engine.item.kind = "message" /\ m.arg = engine.item.id
        /\ m.arg \in Items /\ engine.item = [kind |-> "message", id |-> m.arg]
    BY <1>1, <1>7 DEF Awaited, Phases, Typed, TypeOK, EngineItems, WellFormed
  <2>2. /\ ledger'.history = Append(ledger.history, engine.item)
        /\ StepsOf(ledger', t) = StepsOf(ledger, t)
        /\ ResultItems(ledger', t) = ResultItems(ledger, t)
    <3>1. CanModelMessage(ledger, t, m.arg) /\ ledger' = ModelMessage(ledger, t, m.arg)
      BY <1>2, <1>4, <1>7 DEF Can, Do
    <3>2. QED
      BY <1>3, <2>1, <3>1, MessageDoes
  <2>3. HistoryAgrees' /\ CallsAgree' /\ UsageAgrees'
    BY <1>1, <1>2, <1>3, <1>4, <2>1, <2>2
       DEF Agrees, HistoryAgrees, CallsAgree, UsageAgrees, At
  <2>4. StepAgrees'
    BY <1>1, <1>2, <1>3, <1>4, <2>1, <2>2 DEF Agrees, StepAgrees, At, LastStepOpen, StepsOf
  <2>5. QED
    BY <1>5, <2>3, <2>4
<1>8. CASE m.op = "call"
  <2>1. /\ engine.pc = "item" /\ engine.item.kind = "call" /\ m.arg = engine.item.id
        /\ m.arg \in Calls /\ engine.item = CallItem(m.arg)
    BY <1>1, <1>8 DEF Awaited, Phases, Typed, TypeOK, EngineItems, WellFormed, CallItem
  <2>2. /\ ledger'.history = Append(ledger.history, engine.item)
        /\ StepsOf(ledger', t) = StepsOf(ledger, t)
        /\ ResultItems(ledger', t) = Append(ResultItems(ledger, t), ResultItem(m.arg))
    <3>1. CanModelCall(ledger, t, m.arg) /\ ledger' = ModelCall(ledger, t, m.arg)
      BY <1>2, <1>4, <1>8 DEF Can, Do
    <3>2. /\ ledger'.history = Append(ledger.history, CallItem(m.arg))
          /\ StepsOf(ledger', t) = StepsOf(ledger, t)
          /\ ResultItems(ledger', t) = Append(ResultItems(ledger, t), ResultItem(m.arg))
      <4>1. m.arg \in Calls
        BY <2>1
      <4>2. QED
        BY <1>3, <3>1, <4>1, CallDoes
    <3>3. QED
      BY <2>1, <3>2
  <2>3. HistoryAgrees' /\ CallsAgree' /\ UsageAgrees'
    BY <1>1, <1>2, <1>3, <1>4, <2>1, <2>2
       DEF Agrees, HistoryAgrees, CallsAgree, UsageAgrees, At
  <2>4. StepAgrees'
    BY <1>1, <1>2, <1>3, <1>4, <2>1, <2>2 DEF Agrees, StepAgrees, At, LastStepOpen, StepsOf
  <2>5. QED
    BY <1>5, <2>3, <2>4
<1>9. CASE m.op = "finish"
  <2>1. engine.pc = "finish" /\ m.arg \in Usages
    BY <1>1, <1>9 DEF Phases, EngineItems, WellFormed
  <2>2. /\ ledger'.history = ledger.history /\ ~LastStepOpen(ledger'.run[t])
        /\ UsageSum(StepsOf(ledger', t)) = UsageSum(StepsOf(ledger, t)) + m.arg
        /\ ResultItems(ledger', t) = ResultItems(ledger, t)
    <3>1. CanModelStepFinished(ledger, t, m.arg) /\ ledger' = ModelStepFinished(ledger, t, m.arg)
      BY <1>2, <1>4, <1>9 DEF Can, Do
    <3>2. QED
      BY <1>3, <2>1, <3>1, FinishDoes
  <2>3. HistoryAgrees' /\ StepAgrees' /\ CallsAgree'
    BY <1>1, <1>2, <1>3, <1>4, <2>1, <2>2
       DEF Agrees, HistoryAgrees, StepAgrees, CallsAgree, At
  <2>4. UsageAgrees'
    BY <1>1, <1>2, <1>3, <1>4, <2>1, <2>2 DEF Agrees, UsageAgrees, At
  <2>5. QED
    BY <1>5, <2>3, <2>4
<1>10. CASE m.op = "batch"
  <2>1. engine.pc = "batch"
    BY <1>1, <1>10 DEF Phases, EngineItems
  <2>2. /\ ledger'.history = ledger.history \o ResultItems(ledger, t)
        /\ StepsOf(ledger', t) = StepsOf(ledger, t)
        /\ ResultItems(ledger', t) = <<>>
    <3>1. ledger' = ToolBatch(ledger, t)
      BY <1>2, <1>4, <1>10 DEF Do
    <3>2. QED
      BY <1>3, <1>4, <3>1, BatchDoes
  <2>3. HistoryAgrees' /\ CallsAgree' /\ UsageAgrees'
    BY <1>1, <1>2, <1>3, <1>4, <2>1, <2>2
       DEF Agrees, HistoryAgrees, CallsAgree, UsageAgrees, At
  <2>4. StepAgrees'
    BY <1>1, <1>2, <1>3, <1>4, <2>1, <2>2 DEF Agrees, StepAgrees, At, LastStepOpen, StepsOf
  <2>5. QED
    BY <1>5, <2>3, <2>4
<1>11. QED
  BY <1>1, <1>6, <1>7, <1>8, <1>9, <1>10 DEF WellFormed

LEMMA CallDone ==
  ASSUME TurnInv, FaithInv, Live, ~poison, NEW k \in 1..Len(queue), NEW m, m = queue[k],
         m.who \in Calls, Done(m)
  PROVE  HistoryAgrees' /\ StepAgrees' /\ CallsAgree' /\ UsageAgrees' /\ EngineChecked'
<1> USE TurnAssumption DEF TurnInv, Control, FaithInv
<1>1. engine.pc = "tools" /\ m.op \in {"intent", "outcome"} /\ Awaited(m) /\ WellFormed(m)
  BY CallCan DEF Done
<1>2. PICK t \in Turns : t = run.turn /\ m.turn = t
  BY <1>1 DEF Live, Phases, Awaited
<1>3. /\ Agrees /\ Sound(ledger) /\ Good(ledger)
  BY DEF Agreement, Typed
<1>4. /\ UNCHANGED <<run, engine, task, memory>>
      /\ Can(ledger, m) /\ ledger' = Do(ledger, m)
  BY DEF Done
<1>5. Keeps(ledger, ledger', t)
  <2>1. ledger' = DispatchIntent(ledger, t, m.who) \/ ledger' = ToolOutcome(ledger, t, m.who, m.arg)
    BY <1>1, <1>2, <1>4 DEF Do
  <2>2. QED
    BY <1>3, <2>1, IntentDoes, OutcomeDoes
<1>6. HistoryAgrees' /\ CallsAgree' /\ UsageAgrees'
  BY <1>1, <1>2, <1>3, <1>4, <1>5
     DEF Agrees, HistoryAgrees, CallsAgree, UsageAgrees, At, Keeps
<1>7. StepAgrees'
  BY <1>1, <1>2, <1>3, <1>4, <1>5 DEF Agrees, StepAgrees, At, Keeps, LastStepOpen, StepsOf
<1>8. EngineChecked'
  BY <1>1, <1>3, <1>4 DEF Agrees, EngineChecked, At
<1>9. QED
  BY <1>6, <1>7, <1>8

\* What the worker makes of the command m at the head of the queue: r is the
\* answer to its sender.
Works(m, r) ==
    /\ m = queue[1] /\ 1 \in 1..Len(queue) /\ WellFormed(m) /\ m.who \in Senders
    /\ \A k \in 1..Len(queue') :
         k + 1 \in 1..Len(queue) /\ k + 1 # 1 /\ queue'[k] = queue[k + 1]
    /\ UNCHANGED <<run, engine, task, memory, up>>
    /\ \A a \in Senders : /\ a # m.who => reply'[a] = reply[a]
                          /\ reply[a] # "wait" => reply'[a] = reply[a]
                          /\ a = m.who /\ reply[a] = "wait" => reply'[a] = r
    /\ r \in {"ok", "error", "refused"}
    /\ poison => poison'
    /\ poison' => poison \/ r = "error"
    /\ r = "error" => poison'
    /\ r = "ok" => ~poison /\ Can(ledger, m) /\ ledger' = Do(ledger, m)
    /\ r = "refused" => ~poison /\ ~Can(ledger, m) /\ UNCHANGED ledger
    /\ UNCHANGED ledger \/ (Can(ledger, m) /\ ledger' = Do(ledger, m))
    /\ r = "ok" => Moves(ledger, ledger', m)
    /\ UNCHANGED ledger \/ Moves(ledger, ledger', m)

LEMMA WorkWorks ==
  ASSUME TurnInv, Work
  PROVE  \E m, r : Works(m, r)
<1> USE TurnAssumption DEF TurnInv, Control
<1>1. PICK m : m = Head(queue)
  OBVIOUS
<1>2. WellFormed(m) /\ Popped(queue, queue', m)
  BY <1>1, QueuePopped DEF Work, Typed
<1>3. m.who \in Senders /\ UNCHANGED <<run, engine, task, memory, up>>
  BY <1>2 DEF Work, WellFormed, Senders
<1>4. PICK r \in {"ok", "error", "refused"} :
         /\ reply' = [reply EXCEPT ![m.who] = IF reply[m.who] = "wait" THEN r
                                              ELSE reply[m.who]]
         /\ poison => poison'
         /\ poison' => poison \/ r = "error"
         /\ r = "error" => poison'
         /\ r = "ok" => ~poison /\ Can(ledger, m) /\ ledger' = Do(ledger, m)
         /\ r = "refused" => ~poison /\ ~Can(ledger, m) /\ UNCHANGED ledger
         /\ UNCHANGED ledger \/ (Can(ledger, m) /\ ledger' = Do(ledger, m))
  BY <1>1 DEF Work, Answer, store
<1>5. /\ r = "ok" => Moves(ledger, ledger', m)
      /\ UNCHANGED ledger \/ Moves(ledger, ledger', m)
  BY <1>2, <1>4, DoMoves DEF Typed
<1>6. \A a \in Senders : /\ a # m.who => reply'[a] = reply[a]
                         /\ reply[a] # "wait" => reply'[a] = reply[a]
                         /\ a = m.who /\ reply[a] = "wait" => reply'[a] = r
  BY <1>3, <1>4 DEF Typed, TypeOK
<1>7. /\ 1 \in 1..Len(queue) /\ queue[1] = m
      /\ \A k \in 1..Len(queue') :
           k + 1 \in 1..Len(queue) /\ k + 1 # 1 /\ queue'[k] = queue[k + 1]
  BY <1>2 DEF Popped
<1>8. Works(m, r)
  BY <1>2, <1>3, <1>4, <1>5, <1>6, <1>7 DEF Works
<1>9. QED
  BY <1>8

\* The acknowledgement waits for a record without an active run.
LEMMA AckAlone ==
  ASSUME TurnInv, FaithInv, NEW k \in 1..Len(queue), queue[k].who = "acknowledge"
  PROVE  /\ ~Active(ledger) /\ ~Live /\ reply["acknowledge"] = "wait"
         /\ ~(run.pc = "beginning" /\ reply["run"] = "ok")
<1>1. Unresolved(ledger) /\ reply["acknowledge"] = "wait"
  BY DEF FaithInv, AckInv
<1>2. ~Active(ledger)
  BY <1>1 DEF TurnInv, Control, Typed, Good, Resolved
<1>3. QED
  BY <1>1, <1>2 DEF TurnInv, Control, World, Phases, ActiveInv, Live, Active, ActiveTurns

LEMMA WorkRecord ==
  ASSUME TurnInv, FaithInv, NEW m, NEW r, Works(m, r)
  PROVE  RunsOn' /\ BeginAlone' /\ AckInv' /\ Blamed'
<1> USE TurnAssumption DEF TurnInv, Control, FaithInv
<1>0. /\ {"run", "engine", "acknowledge"} \subseteq Senders /\ Calls \subseteq Senders
      /\ Good(ledger)
  BY DEF Senders, Typed
<1>1. UNCHANGED <<run, engine, task, memory, up>>
  BY DEF Works
<1>2. RunsOn'
  <2> SUFFICES ASSUME run.pc = "running" \/ (run.pc = "finalizing" /\ reply'["run"] = "wait")
               PROVE  ledger'.run[run.turn].status = "active"
    BY <1>1 DEF RunsOn
  <2>1. m.who # "run"
    <3>1. m.who = "run" => reply["run"] = "wait" /\ reply'["run"] # "wait"
      BY <1>0 DEF Works, RunLast
    <3>2. QED
      BY <3>1 DEF Phases
  <2>2. run.pc = "running" \/ (run.pc = "finalizing" /\ reply["run"] = "wait")
    BY <1>0, <2>1 DEF Works
  <2>3. m.op \notin {"finalize", "detach"}
    BY <2>1 DEF Works, WellFormed
  <2>4. ledger.run[run.turn].status = "active" /\ run.turn \in Turns
    BY <2>2 DEF RunsOn, Phases
  <2>5. QED
    BY <2>3, <2>4 DEF Works, Moves, RunsMove
<1>3. BeginAlone'
  BY <1>1 DEF Works, BeginAlone
<1>4. AckInv'
  <2> SUFFICES ASSUME NEW k \in 1..Len(queue'), queue'[k].who = "acknowledge"
               PROVE  /\ Unresolved(ledger') /\ reply'["acknowledge"] = "wait"
                      /\ \A j \in 1..Len(queue') : j # k => queue'[j].who # "acknowledge"
    BY DEF AckInv
  <2>1. /\ k + 1 \in 1..Len(queue) /\ k + 1 # 1 /\ 1 \in 1..Len(queue)
        /\ queue[k + 1].who = "acknowledge" /\ queue[1] = m
    BY DEF Works
  <2>2. /\ Unresolved(ledger) /\ reply["acknowledge"] = "wait"
        /\ \A j \in 1..Len(queue) : j # k + 1 => queue[j].who # "acknowledge"
    BY <2>1 DEF AckInv
  <2>3. m.who # "acknowledge" /\ m.op # "acknowledge"
    BY <2>1, <2>2 DEF Works, WellFormed
  <2>4. UNCHANGED ledger
    BY <1>0, <2>2, <2>3, UnresolvedBlocks DEF Works
  <2>5. reply'["acknowledge"] = "wait"
    BY <1>0, <2>2, <2>3 DEF Works
  <2>6. \A j \in 1..Len(queue') : j # k => queue'[j].who # "acknowledge"
    BY <2>2 DEF Works
  <2>7. QED
    BY <2>2, <2>4, <2>5, <2>6
<1>5. Blamed'
  <2>1. ASSUME Live, poison'
        PROVE  \E a \in {"engine"} \cup Calls : reply'[a] = "error"
    <3>1. CASE poison
      BY <1>0, <2>1, <3>1 DEF Blamed, Works
    <3>2. CASE ~poison
      <4>1. r = "error" /\ m.who \in {"engine"} \cup Calls /\ Awaited(m)
        BY <2>1, <3>2, LiveCommands DEF Works
      <4>2. reply[m.who] = "wait"
        BY <4>1 DEF Awaited
      <4>3. QED
        BY <1>0, <4>1, <4>2 DEF Works
    <3>3. QED
      BY <3>1, <3>2
  <2>2. ASSUME NEW a \in Senders, a # "acknowledge", reply'[a] = "error"
        PROVE  poison'
    BY <2>2 DEF Blamed, Works
  <2>3. ASSUME run.pc = "beginning", reply'["run"] = "ok"
        PROVE  ~poison'
    <3>1. m.who = "run"
      <4>1. CASE m.who # "run"
        <5>1. reply["run"] = "ok"
          BY <1>0, <2>3, <4>1 DEF Works
        <5>2. m.who = "acknowledge"
          BY <2>3, <5>1 DEF Works, RunLast
        <5>3. QED
          BY <2>3, <5>1, <5>2, AckAlone DEF Works
      <4>2. QED
        BY <4>1
    <3>2. reply["run"] = "wait"
      BY <3>1 DEF Works, RunLast
    <3>3. r = "ok"
      BY <1>0, <2>3, <3>1, <3>2 DEF Works
    <3>4. QED
      BY <3>3 DEF Works
  <2>4. QED
    BY <1>1, <2>1, <2>2, <2>3 DEF Blamed, Live
<1>6. QED
  BY <1>2, <1>3, <1>4, <1>5

LEMMA WorkAgreement ==
  ASSUME TurnInv, FaithInv, NEW m, NEW r, Works(m, r)
  PROVE  Agreement'
<1> USE TurnAssumption DEF TurnInv, Control, FaithInv
<1> SUFFICES ASSUME Live', ~poison' PROVE Agrees'
  BY DEF Agreement
<1>1. Live /\ ~poison /\ r # "error"
  BY DEF Works, Live
<1>2. m.who \in {"engine"} \cup Calls /\ Awaited(m) /\ 1 \in 1..Len(queue) /\ m = queue[1]
  BY <1>1, LiveCommands DEF Works
<1>3. Can(ledger, m)
  BY <1>1, <1>2, EngineCan, CallCan
<1>4. r = "ok" /\ reply[m.who] = "wait"
  BY <1>1, <1>2, <1>3 DEF Works, Awaited
<1>5. Done(m)
  BY <1>2, <1>3, <1>4 DEF Done, Works, Moves, Follows
<1>6. HistoryAgrees' /\ StepAgrees' /\ CallsAgree' /\ UsageAgrees' /\ EngineChecked'
  BY <1>1, <1>2, <1>5, EngineDone, CallDone
<1>7. Agrees
  BY <1>1 DEF Agreement
<1>8. \A c \in Calls : TaskAgrees(c)'
  BY <1>1, <1>5, <1>7, TasksAgree
<1>9. QED
  BY <1>6, <1>8 DEF Agrees

LEMMA BeginsOn ==
  ASSUME NEW s, NEW h, NEW h2, Begins(s, h), Begins(h, h2)
  PROVE  Begins(s, h2)
<1>1. Len(s) \in Nat /\ Len(h) \in Nat /\ Len(h2) \in Nat
  BY LenProperties DEF Begins
<1>2. QED
  BY <1>1 DEF Begins

LEMMA WorkMemory ==
  ASSUME TurnInv, FaithInv, TurnInv', NEW m, NEW r, Works(m, r)
  PROVE  MemoryInv'
<1> USE TurnAssumption DEF TurnInv, Control, FaithInv
<1>0. /\ {"run", "engine", "acknowledge"} \subseteq Senders /\ 1 \in 1..Len(queue) /\ m = queue[1]
      /\ Good(ledger) /\ Sound(ledger) /\ Sound(ledger') /\ WellFormed(m)
      /\ UNCHANGED <<run, memory, up>>
  BY DEF Senders, Typed, Works
<1>1. m.who = "run" => reply["run"] = "wait"
  BY <1>0 DEF RunLast
<1>2. m.who = "acknowledge" => ledger'.history = ledger.history
  <2>1. m.who = "acknowledge" => m.op = "acknowledge"
    BY <1>0 DEF WellFormed
  <2>2. m.op = "acknowledge" => Do(ledger, m) = Acknowledge(ledger)
    BY DEF Do
  <2>3. QED
    BY <2>1, <2>2, AcknowledgeKeepsHistory DEF Works
<1>3. ASSUME run.pc = "beginning", reply'["run"] = "ok"
      PROVE  /\ ledger'.history = Append(memory, [kind |-> "user", id |-> run.input])
             /\ StepsOf(ledger', run.turn) = <<>>
             /\ ResultItems(ledger', run.turn) = <<>>
  <2>1. m.who = "run"
    <3>1. CASE m.who # "run"
      <4>1. reply["run"] = "ok"
        BY <1>0, <1>3, <3>1 DEF Works
      <4>2. m.who = "acknowledge"
        BY <1>0, <1>3, <4>1 DEF RunLast
      <4>3. QED
        BY <1>0, <1>3, <4>1, <4>2, AckAlone
    <3>2. QED
      BY <3>1
  <2>2. r = "ok" /\ m.op = "begin" /\ m.turn = run.turn /\ m.arg = run.input
    BY <1>0, <1>1, <1>3, <2>1 DEF Works, RunLast, BeginAlone
  <2>3. PICK t \in Turns, i \in Items : t = run.turn /\ i = run.input
    BY <1>3 DEF Phases
  <2>4. CanBegin(ledger, t, i) /\ ledger' = Begin(ledger, t, i) /\ ~poison
    BY <2>2, <2>3 DEF Works, Can, Do
  <2>5. /\ ledger'.history = Append(ledger.history, [kind |-> "user", id |-> i])
        /\ StepsOf(ledger', t) = <<>> /\ Uncommitted(ledger', t) = {}
    BY <1>0, <2>4, BeginDoes
  <2>6. ledger.history = memory
    BY <1>1, <1>3, <2>1, <2>4 DEF MemoryInv, Phases
  <2>7. ResultItems(ledger', t) = <<>>
    BY <1>0, <2>5, ResultItemsNone
  <2>8. QED
    BY <2>3, <2>5, <2>6, <2>7
<1>4. ASSUME up, ~poison', run.pc = "idle" \/ (run.pc = "beginning" /\ reply'["run"] # "ok")
      PROVE  memory = ledger'.history
  <2>1. CASE m.who = "acknowledge"
    <3>1. run.pc = "beginning" => reply["run"] # "ok"
      BY <1>0, <1>4, <2>1 DEF Works
    <3>2. QED
      BY <1>2, <1>4, <2>1, <3>1 DEF MemoryInv, Works
  <2>2. CASE m.who # "acknowledge"
    <3>1. m.who = "run" /\ reply["run"] = "wait" /\ run.pc = "beginning"
      BY <1>0, <1>1, <1>4, <2>2 DEF RunLast, BeginAlone, Phases
    <3>2. r = "refused"
      BY <1>0, <1>4, <3>1 DEF Works
    <3>3. QED
      BY <1>4, <3>1, <3>2 DEF Works, MemoryInv
  <2>3. QED
    BY <2>1, <2>2
<1>5. up => Begins(memory, ledger'.history)
  <2>1. CASE UNCHANGED ledger
    BY <2>1 DEF MemoryInv
  <2>2. CASE Moves(ledger, ledger', m)
    BY <2>2, BeginsOn DEF MemoryInv, Moves, Follows
  <2>3. QED
    BY <2>1, <2>2 DEF Works
<1>6. QED
  BY <1>0, <1>3, <1>4, <1>5 DEF MemoryInv

\* The record refuses at most the beginning of a run.
LEMMA WorkConforms ==
  ASSUME TurnInv, FaithInv, NEW m, NEW r, Works(m, r)
  PROVE  CommandsConform'
<1> USE TurnAssumption DEF TurnInv, Control, FaithInv
<1>0. /\ {"run", "engine", "acknowledge"} \subseteq Senders /\ 1 \in 1..Len(queue) /\ m = queue[1]
      /\ Good(ledger) /\ Sound(ledger) /\ WellFormed(m) /\ UNCHANGED run
  BY DEF Senders, Typed, Works
<1> SUFFICES ASSUME NEW a \in Senders, reply'[a] = "refused"
             PROVE  a = "run" /\ run.pc = "beginning"
  BY <1>0 DEF CommandsConform
<1>1. CASE reply[a] # "wait"
  BY <1>1 DEF CommandsConform, Works
<1>2. CASE reply[a] = "wait"
  <2>1. a = m.who /\ r = "refused"
    BY <1>2 DEF Works
  <2>2. ~poison /\ ~Can(ledger, m)
    BY <2>1 DEF Works
  <2>3. \A t \in Turns : ledger.run[t].status = "active" => CanFinalize(ledger, t)
    BY <1>0 DEF Sound, Summed, CanFinalize
  <2>4. a # "acknowledge"
    <3>1. a = "acknowledge" => m.op = "acknowledge" /\ ~Active(ledger)
      BY <1>0, <2>1, AckAlone DEF WellFormed
    <3>2. QED
      BY <2>2, <3>1 DEF Can, CanAcknowledge
  <2>5. a \notin {"engine"} \cup Calls
    <3>1. ASSUME a \in {"engine"} \cup Calls PROVE Live
      BY <1>2, <3>1, TaskRuns DEF Phases, Live, Typed, TypeOK
    <3>2. QED
      BY <1>0, <2>1, <2>2, <3>1, EngineCan, CallCan
  <2>6. a = "run"
    BY <2>4, <2>5 DEF Senders
  <2>7. run.pc \notin {"finalizing", "detaching"}
    <3>1. ASSUME run.pc = "finalizing" PROVE FALSE
      <4>1. m.op = "finalize" /\ m.turn = run.turn /\ run.turn \in Turns
        BY <1>0, <2>1, <2>6, <3>1 DEF RunLast, Phases
      <4>2. ledger.run[run.turn].status = "active"
        BY <1>2, <2>6, <3>1 DEF RunsOn
      <4>3. QED
        BY <2>2, <2>3, <4>1, <4>2 DEF Can
    <3>2. ASSUME run.pc = "detaching" PROVE FALSE
      <4>1. m.op = "detach"
        BY <1>0, <2>1, <2>6, <3>2 DEF RunLast
      <4>2. QED
        BY <2>2, <2>3, <4>1 DEF Can, CanRecover, ActiveTurns
    <3>3. QED
      BY <3>1, <3>2
  <2>8. QED
    BY <1>2, <2>6, <2>7 DEF Phases
<1>3. QED
  BY <1>1, <1>2

LEMMA WorkFaith ==
  ASSUME TurnInv, FaithInv, TurnInv', Work
  PROVE  FaithInv'
<1>1. PICK m, r : Works(m, r)
  BY WorkWorks
<1>2. QED
  BY <1>1, WorkRecord, WorkAgreement, WorkMemory, WorkConforms DEF FaithInv

LEMMA StutterFaith ==
  ASSUME FaithInv, UNCHANGED vars
  PROVE  FaithInv'
<1> USE DEF vars, store, journal, FaithInv
<1>1. RunsOn' /\ BeginAlone' /\ AckInv' /\ Blamed' /\ CommandsConform'
  BY DEF RunsOn, BeginAlone, AckInv, Blamed, Live, CommandsConform
<1>2. MemoryInv'
  BY DEF MemoryInv
<1>3. Agreement'
  BY DEF Agreement, Live, Agrees, HistoryAgrees, StepAgrees, CallsAgree, UsageAgrees,
     EngineChecked, TaskAgrees, At, New
<1>4. QED
  BY <1>1, <1>2, <1>3

LEMMA NextFaith == TurnInv /\ FaithInv /\ [Next]_vars => FaithInv'
<1> SUFFICES ASSUME TurnInv, FaithInv, [Next]_vars PROVE FaithInv'
  OBVIOUS
<1>0. TurnInv'
  BY NextInv
<1>1. CASE UNCHANGED vars
  BY <1>1, StutterFaith
<1>2. CASE Daemon
  BY <1>0, <1>2, StartRunFaith, RunBegunFaith, RunUnstartedFaith, RunWithdrawnFaith,
     AcknowledgingFaith, DetachingFaith, DetachedFaith, CancelRunFaith, StopFaith, SettleFaith,
     SettledFaith, AcknowledgedFaith, GiveUpFaith DEF Daemon
<1>3. CASE Engine
  BY <1>0, <1>3, EngineInputFaith, EngineStreamFaith, EngineItemFaith, EngineAppendFaith,
     EngineFinishFaith, EngineDispatchFaith, EngineBatchFaith, EngineResultsFaith DEF Engine
<1>4. QED
  BY <1>0, <1>1, <1>2, <1>3, CallStepFaith, WorkFaith, CrashFaith, ReopenFaith DEF Next

(***************************************************************************)
(* Theorem                                                                 *)
(***************************************************************************)

\* The store refuses none of the commands that the engine, its calls and the end
\* of a run send it, and ThreadSession::history is always a beginning of the
\* stored history, all of it between runs: whatever was cancelled, dropped with
\* commands under way, poisoned by a failed write or lost in a crash
\* (run_inner against the checks of state.rs).
THEOREM EngineAlwaysFaithful == Spec => []EngineFaithful
<1>1. Init => FaithInv
  BY InitFaith
<1>2. TurnInv /\ FaithInv => EngineFaithful
  BY FaithImplies
<1>3. QED
  BY <1>1, <1>2, NextFaith, TurnInvariance, PTL DEF Spec
=============================================================================
