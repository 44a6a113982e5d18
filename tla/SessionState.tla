---------------------------- MODULE SessionState ----------------------------
(***************************************************************************)
(* The durable part of a whale session: conversation history, runs, model  *)
(* steps, tool calls and unknown executions (whale-store, state.rs), and   *)
(* the commands that change it.                                            *)
(*                                                                         *)
(* A command that state.rs rejects leaves the record as it was: Can... is  *)
(* the conjunction of the checks of a command, the operator without Can    *)
(* its effect on the ledger g.                                             *)
(*                                                                         *)
(* Abstractions.  An item is a kind and an identity.  A step id is the     *)
(* index of the step.  Call ids are unique in a history (ModelItem checks  *)
(* it), so the calls of all runs are one function, in the order of their   *)
(* items in the history.  Bytes of history are counted as items, the five  *)
(* usage counters as one.                                                  *)
(***************************************************************************)
EXTENDS Naturals, Sequences, FiniteSets

CONSTANTS Turns,             \* turn ids, chosen by the client
          Calls,             \* tool call ids, chosen by the model
          Items,             \* ids of user messages and model messages
          Usages,            \* usage a model step may report
          None,              \* an absent optional value
          MaxUsage,          \* u64::MAX of a usage counter
          MaxAcceptedTurns,  \* SessionLimits.max_accepted_turns
          MaxHistory         \* SessionLimits.max_history_bytes

ASSUME StateAssumption ==
    /\ None \notin Turns
    /\ Usages \subseteq Nat
    /\ {MaxUsage, MaxAcceptedTurns, MaxHistory} \subseteq Nat

(***************************************************************************)
(* Data                                                                    *)
(***************************************************************************)

\* Results a tool task reports, and the two that finalize makes up.
Reported  == {"output", "error"}
Synthetic == {"undispatched", "unknown"}
Terminal  == {"completed", "failed", "cancelled"}

\* None is a value of its own, not the name of a result.
ASSUME NoneAssumption == None \notin Reported \cup Synthetic

Item == [kind: {"user", "message"}, id: Items]
            \cup [kind: {"call", "result"}, id: Calls]
Step == [completed: BOOLEAN, usage: Nat]
Run  == [status: {"none", "active"} \cup Terminal,
         start: Nat, stop: Nat, steps: Seq(Step)]
Call == [turn: Turns \cup {None}, step: Nat, intent: BOOLEAN,
         outcome: Reported \cup Synthetic \cup {None}, committed: BOOLEAN]

RunOf(status, start, stop, steps) ==
    [status |-> status, start |-> start, stop |-> stop, steps |-> steps]
CallOf(turn, step, intent, outcome, committed) ==
    [turn |-> turn, step |-> step, intent |-> intent, outcome |-> outcome,
     committed |-> committed]
LedgerOf(history, run, call, unknown) ==
    [history |-> history, run |-> run, call |-> call, unknown |-> unknown]

NoRun  == RunOf("none", 0, 0, <<>>)
NoCall == CallOf(None, 0, FALSE, None, FALSE)
EmptyLedger == LedgerOf(<<>>, [t \in Turns |-> NoRun], [c \in Calls |-> NoCall],
                        [c \in Calls |-> "none"])

ActiveTurns(g) == {t \in Turns : g.run[t].status = "active"}
Active(g)      == ActiveTurns(g) # {}
UnresolvedCalls(g) == {c \in Calls : g.unknown[c] = "unresolved"}
Unresolved(g)  == UnresolvedCalls(g) # {}
Accepted(g)    == {t \in Turns : g.run[t].status # "none"}
KnownItem(g, i) == \E k \in DOMAIN g.history :
                      g.history[k].kind \in {"user", "message"} /\ g.history[k].id = i

LastStepOpen(run) == run.steps # <<>> /\ ~run.steps[Len(run.steps)].completed
StepCompleted(g, c) == LET run == g.run[g.call[c].turn]
                       IN  /\ g.call[c].step \in DOMAIN run.steps
                           /\ run.steps[g.call[c].step].completed

\* checked_usage: the sum over the completed steps, which must fit a u64.
UsageSum(steps) == LET sum[k \in 0..Len(steps)] ==
                         IF k = 0 THEN 0 ELSE sum[k - 1] + steps[k].usage
                   IN  sum[Len(steps)]

\* Results of turn t's uncommitted calls, in the order the calls were made.
Uncommitted(g, t) == {c \in Calls : g.call[c].turn = t /\ ~g.call[c].committed}
ResultItems(g, t) ==
    LET pending(i) == i.kind = "call" /\ i.id \in Uncommitted(g, t)
        upTo[k \in 0..Len(g.history)] ==
            IF k = 0 THEN <<>>
            ELSE IF pending(g.history[k])
            THEN Append(upTo[k - 1], [kind |-> "result", id |-> g.history[k].id])
            ELSE upTo[k - 1]
    IN  upTo[Len(g.history)]

(***************************************************************************)
(* Commands                                                                *)
(***************************************************************************)

\* Mutant: begin does not look at unknown executions.
CanBeginOnUnknown(g, t, i) == /\ g.run[t].status = "none"
                              /\ ~Active(g)
                              /\ Cardinality(Accepted(g)) < MaxAcceptedTurns
                              /\ Len(g.history) + 1 =< MaxHistory
                              /\ ~KnownItem(g, i)

\* A known turn id is answered without a change (Ok(false) or Conflict).
CanBegin(g, t, i) == /\ g.run[t].status = "none"
                     /\ ~Active(g)
                     /\ ~Unresolved(g)
                     /\ Cardinality(Accepted(g)) < MaxAcceptedTurns
                     /\ Len(g.history) + 1 =< MaxHistory
                     /\ ~KnownItem(g, i)

Begin(g, t, i) ==
    LedgerOf(Append(g.history, [kind |-> "user", id |-> i]),
             [g.run EXCEPT ![t] = RunOf("active", Len(g.history), Len(g.history) + 1, <<>>)],
             g.call, g.unknown)

\* Mutant: mutate does not refresh the run's items.
MutatedStale(g, t, history, steps, call) ==
    LedgerOf(history, [g.run EXCEPT ![t] = RunOf(@.status, @.start, @.stop, steps)],
             call, g.unknown)

\* mutate ends by refreshing the run's items from history_start on.
Mutated(g, t, history, steps, call) ==
    LedgerOf(history, [g.run EXCEPT ![t] = RunOf(@.status, @.start, Len(history), steps)],
             call, g.unknown)

CanModelInput(g, t) == /\ Len(g.history) =< MaxHistory
                       /\ g.run[t].status = "active"
                       /\ ~LastStepOpen(g.run[t])
                       /\ Uncommitted(g, t) = {}

ModelInput(g, t) ==
    Mutated(g, t, g.history, Append(g.run[t].steps, [completed |-> FALSE, usage |-> 0]), g.call)

CanModelMessage(g, t, i) == /\ g.run[t].status = "active"
                            /\ LastStepOpen(g.run[t])
                            /\ ~KnownItem(g, i)

ModelMessage(g, t, i) ==
    Mutated(g, t, Append(g.history, [kind |-> "message", id |-> i]), g.run[t].steps, g.call)

CanModelCall(g, t, c) == /\ g.run[t].status = "active"
                         /\ LastStepOpen(g.run[t])
                         /\ g.call[c].turn = None

ModelCall(g, t, c) ==
    Mutated(g, t, Append(g.history, [kind |-> "call", id |-> c]), g.run[t].steps,
            [g.call EXCEPT ![c] = CallOf(t, Len(g.run[t].steps), FALSE, None, FALSE)])

CanModelStepFinished(g, t, u) == /\ g.run[t].status = "active"
                                 /\ LastStepOpen(g.run[t])
                                 /\ UsageSum(g.run[t].steps) + u =< MaxUsage

ModelStepFinished(g, t, u) ==
    Mutated(g, t, g.history,
            [g.run[t].steps EXCEPT ![Len(g.run[t].steps)] = [completed |-> TRUE, usage |-> u]],
            g.call)

CanDispatchIntent(g, t, c) == /\ Len(g.history) =< MaxHistory
                              /\ g.run[t].status = "active"
                              /\ g.call[c].turn = t
                              /\ ~g.call[c].intent
                              /\ g.call[c].outcome = None
                              /\ StepCompleted(g, c)

DispatchIntent(g, t, c) ==
    Mutated(g, t, g.history, g.run[t].steps,
            [g.call EXCEPT ![c] = CallOf(@.turn, @.step, TRUE, @.outcome, @.committed)])

\* Mutant: a second, different result replaces the first.
CanToolOutcomeAgain(g, t, c, r) == /\ g.run[t].status = "active"
                                   /\ g.call[c].turn = t
                                   /\ StepCompleted(g, c)

\* The same result may be reported again, a different one may not.
CanToolOutcome(g, t, c, r) == /\ g.run[t].status = "active"
                              /\ g.call[c].turn = t
                              /\ StepCompleted(g, c)
                              /\ g.call[c].outcome \in {None, r}

ToolOutcome(g, t, c, r) ==
    Mutated(g, t, g.history, g.run[t].steps,
            [g.call EXCEPT ![c] = CallOf(@.turn, @.step, @.intent, r, @.committed)])

\* The caller names the uncommitted calls, all of them and in order.
CanToolBatch(g, t) == /\ g.run[t].status = "active"
                      /\ \A c \in Uncommitted(g, t) : g.call[c].outcome # None

Answered(call) == CallOf(call.turn, call.step, call.intent, call.outcome, TRUE)

ToolBatch(g, t) ==
    Mutated(g, t, g.history \o ResultItems(g, t), g.run[t].steps,
            [c \in Calls |-> IF c \in Uncommitted(g, t) THEN Answered(g.call[c]) ELSE g.call[c]])

\* A terminal run is returned as it is.  The sum of the recorded usages is
\* computed once more, and finalize fails if it overflows.
CanFinalize(g, t) == /\ g.run[t].status = "active"
                     /\ UsageSum(g.run[t].steps) =< MaxUsage

\* A call without a result gets one that says whether it was dispatched.
Unanswered(g, t) == {c \in Calls : g.call[c].turn = t /\ g.call[c].outcome = None}

\* Mutant: finalize does not look at the intent.
ClosedBlindly(call) ==
    CallOf(call.turn, call.step, call.intent,
           IF call.outcome # None THEN call.outcome ELSE "undispatched", TRUE)

Closed(call) == LET outcome == IF call.outcome # None THEN call.outcome
                               ELSE IF call.intent THEN "unknown" ELSE "undispatched"
                IN  CallOf(call.turn, call.step, call.intent, outcome, TRUE)

\* Mutant: finalize drops the items of the run.
FinalizeTruncated(g, t, status) ==
    LET history == SubSeq(g.history, 1, g.run[t].start) \o ResultItems(g, t)
        final   == IF Unanswered(g, t) # {} /\ status = "completed" THEN "failed" ELSE status
    IN  LedgerOf(history,
                 [g.run EXCEPT ![t] = RunOf(final, @.start, Len(history), @.steps)],
                 [c \in Calls |-> IF g.call[c].turn = t THEN Closed(g.call[c]) ELSE g.call[c]],
                 [c \in Calls |-> IF c \in Unanswered(g, t) /\ g.call[c].intent
                                  THEN "unresolved" ELSE g.unknown[c]])

Finalize(g, t, status) ==
    LET history == g.history \o ResultItems(g, t)
        final   == IF Unanswered(g, t) # {} /\ status = "completed" THEN "failed" ELSE status
    IN  LedgerOf(history,
                 [g.run EXCEPT ![t] = RunOf(final, @.start, Len(history), @.steps)],
                 [c \in Calls |-> IF g.call[c].turn = t THEN Closed(g.call[c]) ELSE g.call[c]],
                 [c \in Calls |-> IF c \in Unanswered(g, t) /\ g.call[c].intent
                                  THEN "unresolved" ELSE g.unknown[c]])

\* recover finalizes the active run as failed (RECOVERY_INTERRUPTED); begin
\* allows one active run at a time.
CanRecover(g) == \A t \in ActiveTurns(g) : CanFinalize(g, t)

Recover(g) == IF Active(g)
              THEN Finalize(g, CHOOSE t \in ActiveTurns(g) : TRUE, "failed")
              ELSE g

\* The caller names the exact unresolved set.
CanAcknowledge(g) == ~Active(g)

Acknowledge(g) ==
    LedgerOf(g.history, g.run, g.call,
             [c \in Calls |-> IF g.unknown[c] = "unresolved" THEN "acknowledged"
                              ELSE g.unknown[c]])

(***************************************************************************)
(* SessionRecord::validate, the part about the ledger.  User and model     *)
(* messages share one space of ids.                                        *)
(***************************************************************************)
SameId(i, j) == /\ i.id = j.id
                /\ i.kind = j.kind \/ {i.kind, j.kind} = {"user", "message"}

ValidLedger(g) ==
    /\ \A k, l \in DOMAIN g.history : k # l => ~SameId(g.history[k], g.history[l])
    /\ \A t \in Accepted(g) : g.run[t].start =< Len(g.history)
    /\ \A c \in Calls : g.call[c].turn # None =>
         /\ g.call[c].step \in DOMAIN g.run[g.call[c].turn].steps
         /\ \E k \in DOMAIN g.history : g.history[k] = [kind |-> "call", id |-> c]
         /\ g.call[c].committed =>
              /\ g.call[c].outcome # None
              /\ \E k \in DOMAIN g.history : g.history[k] = [kind |-> "result", id |-> c]
    /\ \A c \in Calls : g.unknown[c] # "none" =>
         g.call[c].turn # None /\ g.call[c].intent /\ g.call[c].outcome # None

(***************************************************************************)
(* validate_replace, the part about the ledger: what is committed stands.  *)
(***************************************************************************)
IsPrefixOf(s, u) == Len(s) =< Len(u) /\ s = SubSeq(u, 1, Len(s))

LedgerExtends(old, new) ==
    /\ IsPrefixOf(old.history, new.history)
    /\ \A t \in Accepted(old) :
         /\ new.run[t].status # "none"
         /\ new.run[t].start = old.run[t].start
         /\ old.run[t].status \in Terminal =>
              /\ new.run[t].status = old.run[t].status
              /\ new.run[t].stop = old.run[t].stop
    /\ \A c \in Calls : old.call[c].turn # None =>
         /\ new.call[c].turn = old.call[c].turn
         /\ new.call[c].step = old.call[c].step
         /\ old.call[c].intent => new.call[c].intent
         /\ old.call[c].outcome # None => new.call[c].outcome = old.call[c].outcome
         /\ old.call[c].committed => new.call[c].committed

\* Which of the recorded facts stand, from one ledger to a later one.
FactsStand(old, new) ==
    /\ \A c \in Calls :
        /\ old.call[c].turn # None => /\ new.call[c].turn = old.call[c].turn
                                     /\ new.call[c].step = old.call[c].step
        /\ old.call[c].intent => new.call[c].intent
        /\ old.call[c].outcome # None => new.call[c].outcome = old.call[c].outcome
        /\ old.call[c].committed => new.call[c].committed
        /\ \/ new.unknown[c] = old.unknown[c]
           \/ old.unknown[c] = "none" /\ new.unknown[c] = "unresolved"
           \/ old.unknown[c] = "unresolved" /\ new.unknown[c] = "acknowledged" /\ ~Active(old)
    /\ \A t \in Turns : old.run[t].status \in Terminal => new.run[t] = old.run[t]
=============================================================================
