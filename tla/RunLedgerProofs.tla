--------------------------- MODULE RunLedgerProofs ---------------------------
(***************************************************************************)
(* Theorems of RunLedger, for any sets of turns, calls and items and any   *)
(* limits: what a session promises about its runs and its dispatched calls *)
(* through crashes, detaches and attaches.                                 *)
(***************************************************************************)
EXTENDS RunLedger, SessionStateProofs

IndInv == Good(ledger) /\ (Active(ledger) => lease = "attached")

\* What a command writes is a good ledger in which the recorded facts stand.
LEMMA CommandGood ==
  ASSUME IndInv, Command
  PROVE  Good(ledger') /\ FactsStand(ledger, ledger') /\ lease = "attached" /\ lease' = lease
<1> USE DEF IndInv, Commit
<1>1. CASE CommitBegin
  BY <1>1, BeginGood DEF CommitBegin
<1>2. CASE CommitModelInput
  BY <1>2, ModelGood DEF CommitModelInput, CanModelInput, ModelInput
<1>3. CASE CommitModelMessage
  BY <1>3, ModelGood DEF CommitModelMessage, CanModelMessage, ModelMessage
<1>4. CASE CommitModelCall
  BY <1>4, ModelCallGood DEF CommitModelCall
<1>5. CASE CommitModelStepFinished
  BY <1>5, ModelGood DEF CommitModelStepFinished, CanModelStepFinished, ModelStepFinished
<1>6. CASE CommitDispatchIntent
  BY <1>6, IntentGood DEF CommitDispatchIntent
<1>7. CASE CommitToolOutcome
  BY <1>7, OutcomeGood DEF CommitToolOutcome
<1>8. CASE CommitToolBatch
  BY <1>8, BatchGood DEF CommitToolBatch
<1>9. CASE CommitFinalize
  BY <1>9, FinalizeGood DEF CommitFinalize, CanFinalize
<1>10. CASE CommitAcknowledge
  BY <1>10, AcknowledgeGood DEF CommitAcknowledge
<1>11. QED
  BY <1>1, <1>2, <1>3, <1>4, <1>5, <1>6, <1>7, <1>8, <1>9, <1>10 DEF Command

LEMMA StepGood ==
  IndInv /\ [Next]_ledgerVars =>
      IndInv' /\ (lease' # "retired" => FactsStand(ledger, ledger'))
<1> SUFFICES ASSUME IndInv, [Next]_ledgerVars
             PROVE  IndInv' /\ (lease' # "retired" => FactsStand(ledger, ledger'))
  OBVIOUS
<1>1. CASE Command
  BY <1>1, CommandGood DEF IndInv
<1>2. CASE Detach
  BY <1>2, RecoverGood DEF Detach, IndInv
<1>3. CASE Attach \/ UNCHANGED ledgerVars
  <2>1. FactsStand(ledger, ledger)
    BY DEF FactsStand
  <2>2. ledger' = ledger /\ (Active(ledger) => lease' = "attached")
    BY <1>3 DEF Attach, ledgerVars, IndInv
  <2>3. QED
    BY <2>1, <2>2 DEF IndInv
<1>4. CASE Retire
  BY <1>4, EmptyGood DEF Retire, IndInv
<1>5. QED
  BY <1>1, <1>2, <1>3, <1>4 DEF Next

\* IndInv is an invariant of the ledger under every command of state.rs.
THEOREM Invariance == Spec => []IndInv
<1>1. Init => IndInv
  BY EmptyGood DEF Init, IndInv
<1>2. QED
  BY <1>1, StepGood, PTL DEF Spec

\* The record is sound, and the attachments are counted.
SoundInv == /\ Sound(ledger)
            /\ lease \in {"attached", "detached", "retired"}
            /\ epoch \in 1..EpochBound

\* A command continues the history and keeps the record sound.
LEMMA CommandSound ==
  ASSUME IndInv, Sound(ledger), Command
  PROVE  Sound(ledger') /\ Begins(ledger.history, ledger'.history)
<1> USE DEF IndInv, Commit
<1>1. CASE CommitBegin
  BY <1>1, BeginSound DEF CommitBegin
<1>2. CASE CommitModelInput
  BY <1>2, ModelInputSound DEF CommitModelInput
<1>3. CASE CommitModelMessage
  BY <1>3, ModelMessageSound DEF CommitModelMessage
<1>4. CASE CommitModelCall
  BY <1>4, ModelCallSound DEF CommitModelCall
<1>5. CASE CommitModelStepFinished
  BY <1>5, StepFinishedSound DEF CommitModelStepFinished
<1>6. CASE CommitDispatchIntent
  BY <1>6, IntentSound DEF CommitDispatchIntent
<1>7. CASE CommitToolOutcome
  BY <1>7, OutcomeSound DEF CommitToolOutcome
<1>8. CASE CommitToolBatch
  BY <1>8, BatchSound DEF CommitToolBatch
<1>9. CASE CommitFinalize
  BY <1>9, FinalizeSound DEF CommitFinalize, CanFinalize
<1>10. CASE CommitAcknowledge
  BY <1>10, AcknowledgeSound DEF CommitAcknowledge
<1>11. QED
  BY <1>1, <1>2, <1>3, <1>4, <1>5, <1>6, <1>7, <1>8, <1>9, <1>10 DEF Command

LEMMA StepSound ==
  IndInv /\ SoundInv /\ [Next]_ledgerVars =>
      SoundInv' /\ (lease' # "retired" => IsPrefixOf(ledger.history, ledger'.history))
<1> SUFFICES ASSUME IndInv, SoundInv, [Next]_ledgerVars
             PROVE  SoundInv' /\ (lease' # "retired" => IsPrefixOf(ledger.history, ledger'.history))
  OBVIOUS
<1>1. Sound(ledger) /\ Good(ledger)
  BY DEF SoundInv, IndInv
<1>2. CASE Command
  <2>1. Sound(ledger') /\ Begins(ledger.history, ledger'.history)
    BY <1>1, <1>2, CommandSound
  <2>2. lease' = lease /\ epoch' = epoch
    BY <1>2 DEF Command, Commit, CommitBegin, CommitModelInput, CommitModelMessage,
                CommitModelCall, CommitModelStepFinished, CommitDispatchIntent,
                CommitToolOutcome, CommitToolBatch, CommitFinalize, CommitAcknowledge
  <2>3. QED
    BY <2>1, <2>2, BeginsIsPrefix DEF SoundInv
<1>3. CASE Detach
  <2>1. Sound(ledger') /\ Begins(ledger.history, ledger'.history)
    BY <1>1, <1>3, RecoverSound DEF Detach
  <2>2. QED
    BY <1>3, <2>1, BeginsIsPrefix DEF SoundInv, Detach
<1>4. CASE Attach \/ UNCHANGED ledgerVars
  <2>1. Begins(ledger.history, ledger.history)
    BY <1>1 DEF Begins, Sound, LedgerType
  <2>2. IsPrefixOf(ledger.history, ledger.history)
    BY <2>1, BeginsIsPrefix
  <2>3. ledger' = ledger /\ lease' \in {"attached", "detached", "retired"} /\ epoch' \in 1..EpochBound
    BY <1>4, BoundAssumption DEF Attach, ledgerVars, SoundInv
  <2>4. QED
    BY <1>1, <2>2, <2>3 DEF SoundInv
<1>5. CASE Retire
  BY <1>5, EmptySound DEF Retire, SoundInv
<1>6. QED
  BY <1>2, <1>3, <1>4, <1>5 DEF Next

\* The stored record stays well formed: SoundInv is an invariant under every
\* command of state.rs.
THEOREM SoundInvariance == Spec => []SoundInv
<1>1. Init => SoundInv
  BY EmptySound, BoundAssumption DEF Init, SoundInv
<1>2. QED
  BY <1>1, StepSound, Invariance, PTL DEF Spec

\* An item is at one position of the history, or at none.
LEMMA PositionsCounted ==
  ASSUME Sound(ledger), NEW c \in Calls, NEW kind \in {"call", "result"}
  PROVE  Cardinality(Positions(kind, c)) = IF Has(ledger.history, [kind |-> kind, id |-> c])
                                           THEN 1 ELSE 0
<1> DEFINE item == [kind |-> kind, id |-> c]
           h == ledger.history
<1>1. DOMAIN h = 1..Len(h)
  BY LenProperties DEF Sound, LedgerType
<1>2. ASSUME NEW k \in 1..Len(h), NEW l \in 1..Len(h), h[k] = item, h[l] = item
      PROVE  k = l
  BY <1>2 DEF Sound, Paired, IdsDistinct, SameId
<1>3. CASE Has(h, item)
  <2>1. PICK k \in 1..Len(h) : h[k] = item
    BY <1>3 DEF Has
  <2>2. Positions(kind, c) = {k}
    BY <1>1, <1>2, <2>1 DEF Positions
  <2>3. QED
    BY <1>3, <2>2, FS_Singleton
<1>4. CASE ~Has(h, item)
  <2>1. Positions(kind, c) = {}
    BY <1>1, <1>4 DEF Positions, Has
  <2>2. QED
    BY <1>4, <2>1, FS_EmptySet
<1>5. QED
  BY <1>3, <1>4

\* The stored record is sound at all times: every call is paired with its result
\* in the transcript, the runs share out the history, and the usages that
\* recovery adds up fit.
THEOREM LedgerAlwaysSound == Spec => []LedgerSound
<1>1. SoundInv => TypeOK
  BY DEF SoundInv, Sound, LedgerType, TypeOK
<1>2. SoundInv => TranscriptPaired
  <2> SUFFICES ASSUME SoundInv, NEW c \in Calls
               PROVE  LET call == ledger.call[c] IN
                      /\ Cardinality(Positions("call", c)) = IF call.turn = None THEN 0 ELSE 1
                      /\ Cardinality(Positions("result", c)) = IF call.committed THEN 1 ELSE 0
                      /\ \A k \in Positions("call", c), l \in Positions("result", c) : k < l
                      /\ call.turn # None /\ ~call.committed
                           => /\ ledger.run[call.turn].status = "active"
                              /\ call.step = Len(ledger.run[call.turn].steps)
    BY DEF TranscriptPaired
  <2>1. Sound(ledger) /\ Paired(ledger) /\ DOMAIN ledger.history = 1..Len(ledger.history)
    BY LenProperties DEF SoundInv, Sound, LedgerType
  <2>2. Cardinality(Positions("call", c)) = IF ledger.call[c].turn = None THEN 0 ELSE 1
    BY <2>1, PositionsCounted DEF Paired, CallsMade, CallItem
  <2>3. Cardinality(Positions("result", c)) = IF ledger.call[c].committed THEN 1 ELSE 0
    BY <2>1, PositionsCounted DEF Paired, CallsAnswered, ResultItem
  <2>4. \A k \in Positions("call", c), l \in Positions("result", c) : k < l
    BY <2>1 DEF Positions, Paired, AnsweredAfter, CallItem, ResultItem
  <2>5. QED
    BY <2>1, <2>2, <2>3, <2>4 DEF Paired, OpenIsCurrent
<1>3. SoundInv => SegmentsTile
  <2> SUFFICES ASSUME SoundInv
               PROVE  SegmentsTile
    OBVIOUS
  <2>1. /\ Tiled(ledger) /\ DOMAIN ledger.history = 1..Len(ledger.history)
        /\ Len(ledger.history) \in Nat
        /\ \A t \in Turns : ledger.run[t].start \in Nat /\ ledger.run[t].stop \in Nat
    BY LenProperties DEF SoundInv, Sound, LedgerType, Run
  <2>2. ASSUME NEW t \in Accepted(ledger), NEW k
        PROVE  k \in Segment(t) <=> k \in 1..Len(ledger.history) /\ Within(ledger, t, k)
    BY <2>1 DEF Segment, Within, Tiled, Accepted
  <2>3. UNION {Segment(t) : t \in Accepted(ledger)} = DOMAIN ledger.history
    BY <2>1, <2>2 DEF Tiled
  <2>4. \A t, u \in Accepted(ledger) : t # u => Segment(t) \cap Segment(u) = {}
    BY <2>1, <2>2 DEF Tiled
  <2>5. QED
    BY <2>1, <2>3, <2>4 DEF SegmentsTile, Tiled
<1>4. SoundInv => RecoveryNeverFails
  BY DEF SoundInv, Sound, Summed, RecoveryNeverFails, CanRecover, CanFinalize, ActiveTurns
<1>5. QED
  BY <1>1, <1>2, <1>3, <1>4, SoundInvariance, PTL DEF LedgerSound

\* The committed history is only ever continued, until the session is retired.
THEOREM HistoryOnlyAppended == Spec => HistoryAppendOnly
BY Invariance, SoundInvariance, StepSound, PTL DEF Spec, HistoryAppendOnly

\* One run at a time, only while attached, and never on top of an unknown
\* execution that nobody has acknowledged.
THEOREM ActiveRunAlwaysResolved == Spec => []ActiveRunIsResolved
<1>1. IndInv => ActiveRunIsResolved
  BY DEF IndInv, Good, OneActive, Resolved, ActiveRunIsResolved
<1>2. QED
  BY <1>1, Invariance, PTL

\* Every durable dispatch intent of a finished run has its reported result
\* stored or is listed as unknown, and nothing else is listed.
THEOREM DispatchAlwaysAccounted == Spec => []DispatchAccounted
<1>1. IndInv => DispatchAccounted
  BY DEF IndInv, Good, Accounted, DispatchAccounted
<1>2. QED
  BY <1>1, Invariance, PTL

\* Recorded intents, outcomes, finished runs and unknown executions stand
\* until the session is retired.
THEOREM FactsAlwaysStand == Spec => RecordedFactsStand
BY Invariance, StepGood, PTL DEF Spec, RecordedFactsStand
=============================================================================
