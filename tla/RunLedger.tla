------------------------------ MODULE RunLedger ------------------------------
(***************************************************************************)
(* What whale-store promises of one session: the ledger changes only by    *)
(* whole commands of the one attached owner, an attachment ends by         *)
(* recovering the ledger, and a detached session is attached again or      *)
(* retired for good.  Every command is atomic here; SessionJournal, which  *)
(* reads and writes the stored row in separate steps, implements this      *)
(* specification.                                                          *)
(***************************************************************************)
EXTENDS SessionState

CONSTANTS StepBound,   \* bound: model steps of a run
          EpochBound   \* bound: attachments of the session

ASSUME BoundAssumption == {StepBound, EpochBound} \subseteq Nat /\ EpochBound >= 1

VARIABLES ledger,   \* history, runs, calls and unknown executions
          lease,    \* "attached", "detached" or "retired"
          epoch     \* attachments made so far

ledgerVars == <<ledger, lease, epoch>>

(***************************************************************************)
(* The atomic specification                                                *)
(***************************************************************************)

Init == /\ ledger = EmptyLedger
        /\ lease = "attached"
        /\ epoch = 1

Commit(g) == /\ lease = "attached"
             /\ ledger' = g
             /\ UNCHANGED <<lease, epoch>>

CommitBegin == \E t \in Turns, i \in Items :
    CanBegin(ledger, t, i) /\ Commit(Begin(ledger, t, i))
CommitModelInput == \E t \in Turns :
    /\ Len(ledger.run[t].steps) < StepBound
    /\ CanModelInput(ledger, t)
    /\ Commit(ModelInput(ledger, t))
CommitModelMessage == \E t \in Turns, i \in Items :
    CanModelMessage(ledger, t, i) /\ Commit(ModelMessage(ledger, t, i))
CommitModelCall == \E t \in Turns, c \in Calls :
    CanModelCall(ledger, t, c) /\ Commit(ModelCall(ledger, t, c))
CommitModelStepFinished == \E t \in Turns, u \in Usages :
    CanModelStepFinished(ledger, t, u) /\ Commit(ModelStepFinished(ledger, t, u))
CommitDispatchIntent == \E t \in Turns, c \in Calls :
    CanDispatchIntent(ledger, t, c) /\ Commit(DispatchIntent(ledger, t, c))
CommitToolOutcome == \E t \in Turns, c \in Calls, r \in Reported :
    CanToolOutcome(ledger, t, c, r) /\ Commit(ToolOutcome(ledger, t, c, r))
CommitToolBatch == \E t \in Turns :
    CanToolBatch(ledger, t) /\ Commit(ToolBatch(ledger, t))
CommitFinalize == \E t \in Turns, s \in Terminal :
    CanFinalize(ledger, t) /\ Commit(Finalize(ledger, t, s))
CommitAcknowledge ==
    CanAcknowledge(ledger) /\ Commit(Acknowledge(ledger))

\* A detach, and the recovery of an attached record when the store is opened.
Detach == /\ lease = "attached"
          /\ CanRecover(ledger)
          /\ ledger' = Recover(ledger)
          /\ lease' = "detached"
          /\ UNCHANGED epoch

Attach == /\ lease = "detached"
          /\ epoch < EpochBound
          /\ lease' = "attached"
          /\ epoch' = epoch + 1
          /\ UNCHANGED ledger

\* An explicit forget, which unknown executions do not prevent, and
\* retirement by a sweep, which they do.
Retire == /\ lease = "detached"
          /\ lease' = "retired"
          /\ ledger' = EmptyLedger
          /\ UNCHANGED epoch

Command == \/ CommitBegin
           \/ CommitModelInput
           \/ CommitModelMessage
           \/ CommitModelCall
           \/ CommitModelStepFinished
           \/ CommitDispatchIntent
           \/ CommitToolOutcome
           \/ CommitToolBatch
           \/ CommitFinalize
           \/ CommitAcknowledge

Next == Command \/ Detach \/ Attach \/ Retire

Spec == Init /\ [][Next]_ledgerVars

(***************************************************************************)
(* Properties                                                              *)
(***************************************************************************)

\* Type invariant of the record that whale-store keeps for a session.
TypeOK ==
    /\ ledger \in [history: Seq(Item), run: [Turns -> Run], call: [Calls -> Call],
                   unknown: [Calls -> {"none", "unresolved", "acknowledged"}]]
    /\ lease \in {"attached", "detached", "retired"}
    /\ epoch \in 1..EpochBound

\* A session has at most one active run, only while it is attached, and none
\* while an unknown execution waits for its acknowledgement: no turn starts
\* or continues on top of a side effect nobody has accounted for.
ActiveRunIsResolved ==
    /\ \A t, u \in ActiveTurns(ledger) : t = u
    /\ Active(ledger) => lease = "attached" /\ ~Unresolved(ledger)

\* Every durable dispatch intent is accounted for once its run has ended:
\* either the reported result is stored or the call is listed as an unknown
\* execution, and nothing else ever is.
DispatchAccounted ==
    \A c \in Calls : LET call == ledger.call[c] IN
        /\ ledger.unknown[c] # "none" <=> call.outcome = "unknown"
        /\ call.outcome = "unknown" => call.intent
        /\ call.outcome = "undispatched" => ~call.intent
        /\ call.turn # None /\ ledger.run[call.turn].status \in Terminal
              => call.outcome # None /\ call.committed

\* The history is a transcript a provider accepts: a call appears once, is
\* answered at most once and after it was made, and is answered before the
\* next model input of its run and before its run ends.
Positions(kind, c) == {k \in DOMAIN ledger.history : ledger.history[k] = [kind |-> kind, id |-> c]}
TranscriptPaired ==
    \A c \in Calls : LET call == ledger.call[c] IN
        /\ Cardinality(Positions("call", c)) = IF call.turn = None THEN 0 ELSE 1
        /\ Cardinality(Positions("result", c)) = IF call.committed THEN 1 ELSE 0
        /\ \A k \in Positions("call", c), l \in Positions("result", c) : k < l
        /\ call.turn # None /\ ~call.committed
              => /\ ledger.run[call.turn].status = "active"
                 /\ call.step = Len(ledger.run[call.turn].steps)

\* The items reported for the runs tile the history: no item is in two runs'
\* results, none is lost between them, and the active run's items reach the
\* end of the history.
Segment(t) == (ledger.run[t].start + 1)..ledger.run[t].stop
SegmentsTile ==
    /\ UNION {Segment(t) : t \in Accepted(ledger)} = DOMAIN ledger.history
    /\ \A t, u \in Accepted(ledger) : t # u => Segment(t) \cap Segment(u) = {}
    /\ \A t \in ActiveTurns(ledger) : ledger.run[t].stop = Len(ledger.history)

\* Recovery of a stored record never fails: finalize's sum of the recorded
\* usages fits, so one session cannot keep the store from opening.
RecoveryNeverFails == CanRecover(ledger)

\* The stored record of a session is sound: its calls pair with their results,
\* its runs share out its history, and recovery can always read it
\* (whale-store/src/lib.rs).
LedgerSound == TypeOK /\ TranscriptPaired /\ SegmentsTile /\ RecoveryNeverFails

\* The committed history is append-only until the session is retired.
HistoryAppendOnly ==
    [][lease' # "retired" => IsPrefixOf(ledger.history, ledger'.history)]_ledgerVars

\* What a session has durably recorded stands until it is retired: intents and
\* outcomes are never taken back, a finished run never changes, an unknown
\* execution is only ever acknowledged, and that in the absence of a run.
RecordedFactsStand == [][lease' # "retired" => FactsStand(ledger, ledger')]_ledgerVars
=============================================================================
