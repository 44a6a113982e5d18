------------------------ MODULE SessionJournalProofs ------------------------
(***************************************************************************)
(* Theorems of SessionJournal, for any number of threads, callers, turns,  *)
(* calls and items.                                                        *)
(***************************************************************************)
EXTENDS SessionJournal, SessionStateProofs

LEMMA InitInv == Init => IndInv
<1> SUFFICES ASSUME Init PROVE IndInv
  OBVIOUS
<1> USE JournalAssumption DEF Init, NewRow, Row, Journal, NoJournal, Spawned, NoCaller
<1>1. TypeOK
  BY DEF TypeOK, RowType
<1>2. WriterInv /\ CallerInv /\ DownInv
  BY DEF WriterInv, CallerInv, DownInv, Loaded
<1>3. LeasesDistinct
  BY DEF LeasesDistinct
<1>4. QED
  BY <1>1, <1>2, <1>3 DEF IndInv

\* Every replacement is a row of the next revision.
LEMMA WrittenRow ==
  ASSUME NEW row, RowType(row), NEW g
  PROVE  /\ RowType(Written(row, g))
         /\ Written(row, g).revision = row.revision + 1
         /\ Written(row, g).epoch = row.epoch
         /\ Written(row, g).thread = row.thread
         /\ Written(row, g).retired = row.retired
         /\ Written(row, g).ledger = g
BY DEF RowType, Written, Row

LEMMA DetachedRow ==
  ASSUME NEW row, RowType(row)
  PROVE  /\ RowType(Detached(row))
         /\ Detached(row).revision = row.revision + 1
         /\ Detached(row).epoch = row.epoch
         /\ Detached(row).thread = None
         /\ Detached(row).retired = row.retired
         /\ Detached(row).ledger = Recover(row.ledger)
BY DEF RowType, Detached, Row

LEMMA AttachedRow ==
  ASSUME NEW row, RowType(row), NEW th \in Threads
  PROVE  /\ RowType(AttachedTo(row, th))
         /\ AttachedTo(row, th).revision = row.revision + 1
         /\ AttachedTo(row, th).epoch = row.epoch + 1
         /\ AttachedTo(row, th).thread = th
         /\ AttachedTo(row, th).retired = row.retired
         /\ AttachedTo(row, th).ledger = row.ledger
BY DEF RowType, AttachedTo, Row

LEMMA RetiredRow ==
  ASSUME NEW row, RowType(row), NEW why \in {"explicit_forget", "retention"}
  PROVE  /\ RowType(Retired(row, why))
         /\ Retired(row, why).revision = row.revision + 1
         /\ Retired(row, why).epoch = row.epoch
         /\ Retired(row, why).thread = row.thread
         /\ Retired(row, why).retired = why
         /\ Retired(row, why).ledger = EmptyLedger
BY DEF RowType, Retired, Row

\* A worker's write preserves the invariant, whichever command made the row:
\* it holds the lease, so nobody else has the current record loaded.
LEMMA WriteInv ==
  ASSUME IndInv, NEW th \in Threads, NEW row, RowType(row),
         row.revision = db.revision + 1, row.epoch = db.epoch, Write(th, row)
  PROVE  IndInv'
<1> USE JournalAssumption DEF IndInv
<1>1. HoldsLease(th, db) /\ Loaded(th)
  BY DEF Write, WriterInv, Loaded
<1>2. \A o \in Threads \ {th} : ~Loaded(o)
  BY <1>1 DEF WriterInv, HoldsLease
<1>0. PICK p \in {"no", "io", "refused"} : Back(th, p)
  BY DEF Write
<1>3. /\ \A o \in Threads : journal'[o].epoch = journal[o].epoch
      /\ \A o \in Threads \ {th} : journal'[o] = journal[o]
      /\ journal'[th].pc = "idle"
  BY <1>0 DEF Back, Journal, TypeOK
<1>4. db' \in {db, row} /\ UNCHANGED <<caller, up>> /\ up
  BY DEF Write
<1>5. TypeOK'
  BY <1>0, <1>4 DEF TypeOK, Back, Journal
<1>6. WriterInv'
  BY <1>2, <1>3 DEF WriterInv, Loaded
<1>7. CallerInv'
  BY <1>4 DEF CallerInv, TypeOK, RowType, Attached, Forgotten
<1>8. DownInv'
  BY <1>4 DEF DownInv
<1>9. LeasesDistinct'
  BY <1>3, <1>4 DEF LeasesDistinct
<1>10. QED
  BY <1>5, <1>6, <1>7, <1>8, <1>9

\* What a worker writes.
LEMMA WorkerWrites ==
  ASSUME IndInv, NEW th \in Threads, Worker(th)
  PROVE  \/ Load(th) \/ Refuse(th)
         \/ \E g : Write(th, Written(db, g))
         \/ Write(th, Detached(db))
<1>1. Loaded(th) => Base(th) = db
  BY DEF IndInv, WriterInv
<1>2. QED
  BY <1>1 DEF Worker, Put, WriteBegin, WriteModelInput, WriteModelMessage, WriteModelCall,
       WriteModelStepFinished, WriteDispatchIntent, WriteToolOutcome, WriteToolBatch,
       WriteFinalize, WriteAcknowledge, WriteUnchanged, WriteDetach

\* A caller's write succeeds only on the record it loaded.
LEMMA CallerCurrent ==
  ASSUME IndInv, NEW k \in Callers, caller[k].pc = "loaded", NEW row, CallWrite(k, row)
  PROVE  caller[k].base = db /\ ~Attached(db) /\ ~Forgotten(db) /\ RowType(db)
BY DEF IndInv, CallerInv, CallWrite, ValidReplace

\* A caller's write: the row was detached, so no worker has it loaded, and
\* every other caller's record is now of an earlier revision.
LEMMA CallWriteInv ==
  ASSUME IndInv, NEW k \in Callers, caller[k].pc = "loaded", NEW row, RowType(row),
         row.revision = db.revision + 1, CallWrite(k, row)
  PROVE  /\ CallerInv' /\ DownInv' /\ db' = row
         /\ caller' = [j \in Callers |-> caller'[j]]
         /\ \A j \in Callers : caller'[j].pc \in {"idle", "loaded"}
         /\ up' \in BOOLEAN
         /\ \A th \in Threads : ~Loaded(th)
<1> USE JournalAssumption DEF IndInv
<1>1. db' = row /\ up /\ up' = up /\ caller' = [caller EXCEPT ![k] = NoCaller]
  BY DEF CallWrite, CallEnds
<1>2. CallerInv'
  BY <1>1 DEF CallerInv, TypeOK, RowType, Attached, Forgotten, NoCaller
<1>3. \A th \in Threads : ~Loaded(th)
  BY CallerCurrent DEF WriterInv, HoldsLease, Attached
<1>4. QED
  BY <1>1, <1>2, <1>3 DEF DownInv, TypeOK, NoCaller

LEMMA RetireInv ==
  ASSUME IndInv, NEW k \in Callers, caller[k].pc = "loaded",
         NEW why \in {"explicit_forget", "retention"},
         CallWrite(k, Retired(caller[k].base, why)), UNCHANGED journal
  PROVE  IndInv'
<1> DEFINE row == Retired(db, why)
<1>1. caller[k].base = db /\ RowType(db)
  BY CallerCurrent
<1>2. RowType(row) /\ row.revision = db.revision + 1 /\ row.epoch = db.epoch
  BY <1>1, RetiredRow
<1>3. CallWrite(k, row)
  BY <1>1
<1> HIDE DEF row
<1>4. /\ CallerInv' /\ DownInv' /\ db' = row
      /\ caller' = [j \in Callers |-> caller'[j]]
      /\ \A j \in Callers : caller'[j].pc \in {"idle", "loaded"}
      /\ up' \in BOOLEAN
      /\ \A th \in Threads : ~Loaded(th)
  BY <1>2, <1>3, CallWriteInv
<1>5. TypeOK'
  BY <1>2, <1>4 DEF IndInv, TypeOK, RowType
<1>6. WriterInv' /\ LeasesDistinct'
  BY <1>2, <1>4 DEF IndInv, WriterInv, LeasesDistinct, Loaded
<1>7. QED
  BY <1>4, <1>5, <1>6 DEF IndInv

LEMMA AttachInv ==
  ASSUME IndInv, NEW k \in Callers, NEW th \in Threads, Attach(k, th)
  PROVE  IndInv'
<1> DEFINE row == AttachedTo(db, th)
<1>1. caller[k].pc = "loaded" /\ caller[k].base = db /\ RowType(db)
  BY CallerCurrent DEF Attach
<1>2. RowType(row) /\ row.revision = db.revision + 1 /\ row.epoch = db.epoch + 1
  BY <1>1, AttachedRow
<1>3. /\ CallWrite(k, row)
      /\ \/ journal' = [journal EXCEPT ![th] = Spawned(row.epoch)]
         \/ UNCHANGED journal
  BY <1>1 DEF Attach
<1> HIDE DEF row
<1>4. /\ CallerInv' /\ DownInv' /\ db' = row
      /\ caller' = [j \in Callers |-> caller'[j]]
      /\ \A j \in Callers : caller'[j].pc \in {"idle", "loaded"}
      /\ up' \in BOOLEAN
      /\ \A o \in Threads : ~Loaded(o)
  BY <1>1, <1>2, <1>3, CallWriteInv
<1>5. db.epoch \in Nat
  BY <1>1 DEF RowType
<1>6. TypeOK'
  BY <1>2, <1>3, <1>4, <1>5 DEF IndInv, TypeOK, RowType, Spawned, Journal
<1>7. WriterInv'
  BY <1>2, <1>3, <1>4 DEF IndInv, TypeOK, WriterInv, Loaded, Spawned, Journal
<1>8. LeasesDistinct'
  BY <1>2, <1>3, <1>4, <1>5 DEF IndInv, TypeOK, LeasesDistinct, Spawned, Journal
<1>9. QED
  BY <1>4, <1>6, <1>7, <1>8 DEF IndInv

\* Every step preserves the invariant.
LEMMA NextInv == IndInv /\ [Next]_vars => IndInv'
<1> SUFFICES ASSUME IndInv, [Next]_vars PROVE IndInv'
  OBVIOUS
<1> USE JournalAssumption
<1>1. CASE UNCHANGED vars
  BY <1>1 DEF vars, IndInv, TypeOK, RowType, WriterInv, CallerInv, DownInv, LeasesDistinct,
              Loaded, Base, HoldsLease, Attached, Forgotten
<1>2. ASSUME NEW th \in Threads, Load(th) PROVE IndInv'
  <2>1. /\ up /\ UNCHANGED <<db, caller, up>>
        /\ \/ /\ HoldsLease(th, db)
              /\ journal' = [journal EXCEPT ![th] = Journal(@.epoch, "loaded", db, "no")]
           \/ journal' = [journal EXCEPT ![th] = Journal(@.epoch, "idle", None, "io")]
    BY <1>2 DEF Load
  <2>2. TypeOK' /\ CallerInv' /\ DownInv'
    BY <2>1 DEF IndInv, TypeOK, CallerInv, DownInv, Journal
  <2>3. WriterInv'
    BY <2>1 DEF IndInv, TypeOK, WriterInv, Loaded, Base, HoldsLease, Journal
  <2>4. LeasesDistinct'
    BY <2>1 DEF IndInv, TypeOK, LeasesDistinct, Journal
  <2>5. QED
    BY <2>2, <2>3, <2>4 DEF IndInv
<1>3. ASSUME NEW th \in Threads, Refuse(th) PROVE IndInv'
  <2>1. /\ up /\ UNCHANGED <<db, caller, up>>
        /\ journal' = [journal EXCEPT ![th] = Journal(@.epoch, "idle", None, "no")]
    BY <1>3 DEF Refuse, Back
  <2>2. TypeOK' /\ CallerInv' /\ DownInv'
    BY <2>1 DEF IndInv, TypeOK, CallerInv, DownInv, Journal
  <2>3. WriterInv' /\ LeasesDistinct'
    BY <2>1 DEF IndInv, TypeOK, WriterInv, LeasesDistinct, Loaded, Base, HoldsLease, Journal
  <2>4. QED
    BY <2>2, <2>3 DEF IndInv
<1>4. ASSUME NEW th \in Threads, Worker(th) PROVE IndInv'
  <2>1. RowType(db)
    BY DEF IndInv, TypeOK
  <2>2. ASSUME NEW g, Write(th, Written(db, g)) PROVE IndInv'
    BY <2>1, <2>2, WrittenRow, WriteInv
  <2>3. ASSUME Write(th, Detached(db)) PROVE IndInv'
    BY <2>1, <2>3, DetachedRow, WriteInv
  <2>4. QED
    BY <1>2, <1>3, <1>4, <2>2, <2>3, WorkerWrites
<1>5. ASSUME NEW k \in Callers, CallLoad(k) PROVE IndInv'
  <2>1. /\ up /\ UNCHANGED <<db, journal, up>> /\ ~Forgotten(db) /\ ~Attached(db)
        /\ caller' = [caller EXCEPT ![k] = [pc |-> "loaded", base |-> db]]
    BY <1>5 DEF CallLoad
  <2>2. TypeOK' /\ WriterInv' /\ LeasesDistinct' /\ DownInv'
    BY <2>1 DEF IndInv, TypeOK, WriterInv, LeasesDistinct, DownInv, Loaded, Base, HoldsLease
  <2>3. CallerInv'
    BY <2>1 DEF IndInv, TypeOK, CallerInv, RowType
  <2>4. QED
    BY <2>2, <2>3 DEF IndInv
<1>6. ASSUME NEW k \in Callers, CallFails(k) PROVE IndInv'
  <2>1. /\ up /\ UNCHANGED <<db, journal, up>>
        /\ caller' = [caller EXCEPT ![k] = NoCaller]
    BY <1>6 DEF CallFails, CallEnds
  <2>2. TypeOK' /\ WriterInv' /\ LeasesDistinct' /\ DownInv' /\ CallerInv'
    BY <2>1 DEF IndInv, TypeOK, WriterInv, LeasesDistinct, DownInv, CallerInv, NoCaller,
                Loaded, Base, HoldsLease
  <2>3. QED
    BY <2>2 DEF IndInv
<1>7. ASSUME NEW k \in Callers, Forget(k) \/ SweepRetire(k) PROVE IndInv'
  BY <1>7, RetireInv DEF Forget, SweepRetire
<1>8. ASSUME Crash PROVE IndInv'
  <2>1. /\ up' = FALSE /\ db' = db
        /\ journal' = [th \in Threads |-> NoJournal]
        /\ caller' = [k \in Callers |-> NoCaller]
    BY <1>8 DEF Crash
  <2>2. RowType(db)'
    BY <2>1 DEF IndInv, TypeOK, RowType
  <2>3. /\ \A th \in Threads : journal'[th] = NoJournal
        /\ \A k \in Callers : caller'[k] = NoCaller
    BY <2>1
  <2>4. TypeOK'
    BY <2>1, <2>2, <2>3 DEF TypeOK, NoJournal, NoCaller, Journal
  <2>5. WriterInv' /\ CallerInv' /\ DownInv' /\ LeasesDistinct'
    BY <2>1, <2>3 DEF WriterInv, CallerInv, DownInv, LeasesDistinct, Loaded, NoJournal,
                      NoCaller, Journal
  <2>6. QED
    BY <2>4, <2>5 DEF IndInv
<1>9. ASSUME Open PROVE IndInv'
  <2>1. /\ ~up /\ up' /\ UNCHANGED <<journal, caller>>
        /\ db' \in {db, Detached(db)}
    BY <1>9 DEF Open
  <2>2. /\ \A th \in Threads : journal[th] = NoJournal
        /\ \A k \in Callers : caller[k] = NoCaller
    BY <2>1 DEF IndInv, DownInv
  <2>3. RowType(db')
    BY <2>1, DetachedRow DEF IndInv, TypeOK
  <2>4. TypeOK'
    BY <1>9, <2>1, <2>3 DEF IndInv, TypeOK, RowType, Open
  <2>5. WriterInv' /\ CallerInv' /\ DownInv' /\ LeasesDistinct'
    BY <2>1, <2>2 DEF WriterInv, CallerInv, DownInv, LeasesDistinct, Loaded, NoJournal,
                      NoCaller, Journal
  <2>6. QED
    BY <2>4, <2>5 DEF IndInv
<1>10. QED
  BY <1>1, <1>4, <1>5, <1>6, <1>7, <1>8, <1>9, AttachInv DEF Next, CallStep

\* The holder of the lease is the only writer: IndInv is an invariant of the
\* workers, the callers and the crashes.
THEOREM Invariance == Spec => []IndInv
BY InitInv, NextInv, PTL DEF Spec

\* TypeOK is an invariant of the store's writers.
THEOREM TypeCorrect == Spec => []TypeOK
BY Invariance, PTL DEF IndInv

\* A journal worker that has loaded the record still has the stored one when
\* it writes, for any number of attaches, forgets and sweeps in flight.
THEOREM WriterIsCurrentAlways == Spec => []WriterIsCurrent
<1>1. IndInv => WriterIsCurrent
  BY DEF IndInv, WriterInv, WriterIsCurrent
<1>2. QED
  BY <1>1, Invariance, PTL

\* Leases are handed out one at a time.
THEOREM LeasesAlwaysDistinct == Spec => []LeasesDistinct
BY Invariance, PTL DEF IndInv

\* A sweep never retires a session that is attached, has an active run or has
\* unknown executions at the moment of the write.
THEOREM SweepAlwaysSpares == Spec => SweepSparesProtected
<1>1. ASSUME IndInv, Next, ~Forgotten(db), db'.retired = "retention"
      PROVE  ~Attached(db) /\ ~Active(db.ledger) /\ ~Unresolved(db.ledger)
  <2>1. RowType(db) /\ db.retired = "no"
    BY <1>1 DEF IndInv, TypeOK, Forgotten
  <2>2. ASSUME NEW th \in Threads, Worker(th) PROVE FALSE
    <3>1. ASSUME NEW g, Write(th, Written(db, g)) PROVE FALSE
      BY <1>1, <2>1, <3>1, WrittenRow DEF Write
    <3>2. ASSUME Write(th, Detached(db)) PROVE FALSE
      BY <1>1, <2>1, <3>2, DetachedRow DEF Write
    <3>3. QED
      BY <1>1, <2>1, <2>2, <3>1, <3>2, WorkerWrites DEF Load, Refuse
  <2>3. ASSUME NEW k \in Callers, SweepRetire(k)
        PROVE  ~Attached(db) /\ ~Active(db.ledger) /\ ~Unresolved(db.ledger)
    BY <1>1, <2>3, CallerCurrent DEF SweepRetire
  <2>4. ASSUME NEW k \in Callers, Forget(k) PROVE FALSE
    BY <1>1, <2>4, CallerCurrent, RetiredRow DEF Forget, CallWrite
  <2>5. ASSUME NEW k \in Callers, NEW th \in Threads, Attach(k, th) PROVE FALSE
    <3>1. caller[k].base = db /\ db' = AttachedTo(db, th)
      BY <1>1, <2>5, CallerCurrent DEF Attach, CallWrite
    <3>2. QED
      BY <1>1, <2>1, <3>1, AttachedRow
  <2>6. ASSUME NEW k \in Callers, CallLoad(k) \/ CallFails(k) PROVE FALSE
    BY <1>1, <2>1, <2>6 DEF CallLoad, CallFails
  <2>7. ASSUME Crash \/ Open PROVE FALSE
    BY <1>1, <2>1, <2>7, DetachedRow DEF Crash, Open
  <2>8. QED
    BY <1>1, <2>2, <2>3, <2>4, <2>5, <2>6, <2>7 DEF Next, CallStep
<1>2. IndInv /\ [Next]_vars =>
        [~Forgotten(db) /\ db'.retired = "retention"
           => ~Attached(db) /\ ~Active(db.ledger) /\ ~Unresolved(db.ledger)]_vars
  BY <1>1
<1>3. QED
  BY <1>2, Invariance, PTL DEF Spec, SweepSparesProtected

(***************************************************************************)
(* No journal is poisoned by a command it accepted                         *)
(***************************************************************************)

\* The stored row passes SessionRecord::validate, and for a good reason.
RowSound(row) ==
    /\ Good(row.ledger) /\ Sound(row.ledger)
    /\ row.revision >= 1 /\ row.epoch >= 1
    /\ Forgotten(row) => ~Attached(row) /\ row.ledger = EmptyLedger
    /\ Attached(row) => row.thread \in row.threads
    /\ Active(row.ledger) => Attached(row)

SoundInv == RowSound(db) /\ NeverSelfPoisoned

LEMMA RowSoundValid ==
  ASSUME NEW row, RowSound(row)
  PROVE  ValidRow(row)
BY SoundIsValid DEF RowSound, ValidRow

\* A ledger that follows the stored one is accepted by compare_exchange ...
LEMMA WrittenAccepted ==
  ASSUME RowType(db), RowSound(db), Attached(db), ~Forgotten(db),
         NEW g, Follows(db.ledger, g)
  PROVE  /\ RowSound(Written(db, g))
         /\ ValidReplace(db, db.revision, Written(db, g))
<1> DEFINE row == Written(db, g)
<1>1. /\ row.revision = db.revision + 1 /\ row.epoch = db.epoch /\ row.thread = db.thread
      /\ row.retired = db.retired /\ row.ledger = g /\ row.threads = db.threads
  BY DEF Written, Row
<1>2. db.revision \in Nat /\ db.epoch \in Nat
  BY DEF RowType
<1> HIDE DEF row
<1>3. RowSound(row)
  BY <1>1, <1>2 DEF RowSound, Follows, Attached, Forgotten
<1>4. ValidRow(row)
  BY <1>3, RowSoundValid
<1>5. ValidReplace(db, db.revision, row)
  BY <1>1, <1>2, <1>4 DEF ValidReplace, Follows, Forgotten
<1>6. QED
  BY <1>3, <1>5 DEF row

\* ... and so is the recovered ledger of a detach.
LEMMA DetachedAccepted ==
  ASSUME RowType(db), RowSound(db), Attached(db), ~Forgotten(db)
  PROVE  /\ RowSound(Detached(db))
         /\ ValidReplace(db, db.revision, Detached(db))
<1> DEFINE row == Detached(db)
           g == Recover(db.ledger)
<1>1. /\ row.revision = db.revision + 1 /\ row.epoch = db.epoch /\ row.thread = None
      /\ row.retired = db.retired /\ row.ledger = g /\ row.threads = db.threads
  BY DEF Detached, Row
<1>2. db.revision \in Nat /\ db.epoch \in Nat
  BY DEF RowType
<1>3. Follows(db.ledger, g) /\ ~Active(g)
  BY RecoverFollows DEF RowSound
<1> HIDE DEF row, g
<1>4. RowSound(row)
  BY <1>1, <1>2, <1>3 DEF RowSound, Follows, Attached, Forgotten
<1>5. ValidRow(row)
  BY <1>4, RowSoundValid
<1>6. ValidReplace(db, db.revision, row)
  BY <1>1, <1>2, <1>3, <1>5 DEF ValidReplace, Follows, Forgotten, Attached
<1>7. QED
  BY <1>4, <1>6 DEF row

\* Every command writes a ledger that follows the one its worker has loaded.
LEMMA WorkerFollows ==
  ASSUME IndInv, RowSound(db), NEW th \in Threads, Worker(th)
  PROVE  \/ Load(th) \/ Refuse(th)
         \/ \E g : Follows(db.ledger, g) /\ Write(th, Written(db, g))
         \/ Write(th, Detached(db))
<1> DEFINE g == db.ledger
           Done == \E m : Follows(g, m) /\ Write(th, Written(db, m))
<1>1. Loaded(th) => Base(th) = db /\ Stored(th) = g
  BY DEF IndInv, WriterInv, Stored
<1>2. Good(g) /\ Sound(g)
  BY DEF RowSound
<1> HIDE DEF g
<1>a. ASSUME NEW m, Loaded(th), Follows(g, m), Put(th, m)
      PROVE  Done
  BY <1>1, <1>a DEF Put
<1> HIDE DEF Done
<1>3. CASE WriteBegin(th)
  <2>1. PICK t \in Turns, i \in Items : CanBegin(g, t, i) /\ Put(th, Begin(g, t, i))
    BY <1>1, <1>3 DEF WriteBegin
  <2>2. Follows(g, Begin(g, t, i))
    BY <1>2, <2>1, BeginFollows
  <2>3. Loaded(th)
    BY <1>3 DEF WriteBegin
  <2>4. Done
    BY <1>a, <2>1, <2>2, <2>3
  <2>5. QED
    BY <2>4 DEF Done, g
<1>4. CASE WriteModelInput(th)
  <2>1. PICK t \in Turns : CanModelInput(g, t) /\ Put(th, ModelInput(g, t))
    BY <1>1, <1>4 DEF WriteModelInput
  <2>2. Follows(g, ModelInput(g, t))
    BY <1>2, <2>1, ModelInputFollows
  <2>3. Loaded(th)
    BY <1>4 DEF WriteModelInput
  <2>4. Done
    BY <1>a, <2>1, <2>2, <2>3
  <2>5. QED
    BY <2>4 DEF Done, g
<1>5. CASE WriteModelMessage(th)
  <2>1. PICK t \in Turns, i \in Items : CanModelMessage(g, t, i) /\ Put(th, ModelMessage(g, t, i))
    BY <1>1, <1>5 DEF WriteModelMessage
  <2>2. Follows(g, ModelMessage(g, t, i))
    BY <1>2, <2>1, ModelMessageFollows
  <2>3. Loaded(th)
    BY <1>5 DEF WriteModelMessage
  <2>4. Done
    BY <1>a, <2>1, <2>2, <2>3
  <2>5. QED
    BY <2>4 DEF Done, g
<1>6. CASE WriteModelCall(th)
  <2>1. PICK t \in Turns, c \in Calls : CanModelCall(g, t, c) /\ Put(th, ModelCall(g, t, c))
    BY <1>1, <1>6 DEF WriteModelCall
  <2>2. Follows(g, ModelCall(g, t, c))
    BY <1>2, <2>1, ModelCallFollows
  <2>3. Loaded(th)
    BY <1>6 DEF WriteModelCall
  <2>4. Done
    BY <1>a, <2>1, <2>2, <2>3
  <2>5. QED
    BY <2>4 DEF Done, g
<1>7. CASE WriteModelStepFinished(th)
  <2>1. PICK t \in Turns, u \in Usages : CanModelStepFinished(g, t, u) /\ Put(th, ModelStepFinished(g, t, u))
    BY <1>1, <1>7 DEF WriteModelStepFinished
  <2>2. Follows(g, ModelStepFinished(g, t, u))
    BY <1>2, <2>1, StepFinishedFollows
  <2>3. Loaded(th)
    BY <1>7 DEF WriteModelStepFinished
  <2>4. Done
    BY <1>a, <2>1, <2>2, <2>3
  <2>5. QED
    BY <2>4 DEF Done, g
<1>8. CASE WriteDispatchIntent(th)
  <2>1. PICK t \in Turns, c \in Calls : CanDispatchIntent(g, t, c) /\ Put(th, DispatchIntent(g, t, c))
    BY <1>1, <1>8 DEF WriteDispatchIntent
  <2>2. Follows(g, DispatchIntent(g, t, c))
    BY <1>2, <2>1, IntentFollows
  <2>3. Loaded(th)
    BY <1>8 DEF WriteDispatchIntent
  <2>4. Done
    BY <1>a, <2>1, <2>2, <2>3
  <2>5. QED
    BY <2>4 DEF Done, g
<1>9. CASE WriteToolOutcome(th)
  <2>1. PICK t \in Turns, c \in Calls, r \in Reported : CanToolOutcome(g, t, c, r) /\ Put(th, ToolOutcome(g, t, c, r))
    BY <1>1, <1>9 DEF WriteToolOutcome
  <2>2. Follows(g, ToolOutcome(g, t, c, r))
    BY <1>2, <2>1, OutcomeFollows
  <2>3. Loaded(th)
    BY <1>9 DEF WriteToolOutcome
  <2>4. Done
    BY <1>a, <2>1, <2>2, <2>3
  <2>5. QED
    BY <2>4 DEF Done, g
<1>10. CASE WriteToolBatch(th)
  <2>1. PICK t \in Turns : CanToolBatch(g, t) /\ Put(th, ToolBatch(g, t))
    BY <1>1, <1>10 DEF WriteToolBatch
  <2>2. Follows(g, ToolBatch(g, t))
    BY <1>2, <2>1, BatchFollows
  <2>3. Loaded(th)
    BY <1>10 DEF WriteToolBatch
  <2>4. Done
    BY <1>a, <2>1, <2>2, <2>3
  <2>5. QED
    BY <2>4 DEF Done, g
<1>11. CASE WriteFinalize(th)
  <2>1. PICK t \in Turns, s \in Terminal : CanFinalize(g, t) /\ Put(th, Finalize(g, t, s))
    BY <1>1, <1>11 DEF WriteFinalize
  <2>2. Follows(g, Finalize(g, t, s))
    BY <1>2, <2>1, FinalizeFollows DEF CanFinalize
  <2>3. Loaded(th)
    BY <1>11 DEF WriteFinalize
  <2>4. Done
    BY <1>a, <2>1, <2>2, <2>3
  <2>5. QED
    BY <2>4 DEF Done, g
<1>12. CASE WriteAcknowledge(th)
  <2>1. CanAcknowledge(g) /\ Put(th, Acknowledge(g))
    BY <1>1, <1>12 DEF WriteAcknowledge
  <2>2. Follows(g, Acknowledge(g))
    BY <1>2, <2>1, AcknowledgeFollows
  <2>3. Loaded(th)
    BY <1>12 DEF WriteAcknowledge
  <2>4. Done
    BY <1>a, <2>1, <2>2, <2>3
  <2>5. QED
    BY <2>4 DEF Done, g
<1>13. CASE WriteUnchanged(th)
  <2>1. Put(th, g)
    BY <1>1, <1>13 DEF WriteUnchanged
  <2>2. Follows(g, g)
    BY <1>2, <2>1, SameFollows
  <2>3. Loaded(th)
    BY <1>13 DEF WriteUnchanged
  <2>4. Done
    BY <1>a, <2>1, <2>2, <2>3
  <2>5. QED
    BY <2>4 DEF Done, g
<1>14. CASE WriteDetach(th)
  BY <1>1, <1>14 DEF WriteDetach
<1>15. QED
  BY <1>3, <1>4, <1>5, <1>6, <1>7, <1>8, <1>9, <1>10, <1>11, <1>12, <1>13, <1>14
     DEF Worker

\* A write of an acceptable row is not refused.
LEMMA WriteSound ==
  ASSUME IndInv, SoundInv, NEW th \in Threads, NEW row, Write(th, row), RowSound(row),
         ValidReplace(db, db.revision, row)
  PROVE  SoundInv'
<1>1. journal[th].base = db
  BY DEF Write, IndInv, WriterInv, Loaded, Base
<1>2. PICK p \in {"no", "io"} : Back(th, p)
  BY <1>1 DEF Write
<1>3. db' \in {db, row}
  BY DEF Write
<1>4. NeverSelfPoisoned'
  BY <1>2 DEF Back, Journal, IndInv, TypeOK, SoundInv, NeverSelfPoisoned
<1>5. QED
  BY <1>3, <1>4 DEF SoundInv

LEMMA NextSound == IndInv /\ SoundInv /\ [Next]_vars => SoundInv'
<1> SUFFICES ASSUME IndInv, SoundInv, [Next]_vars
             PROVE  SoundInv'
  OBVIOUS
<1>0. RowType(db) /\ RowSound(db) /\ NeverSelfPoisoned
  BY DEF IndInv, TypeOK, SoundInv
<1>1. CASE UNCHANGED vars
  BY <1>1 DEF vars, SoundInv, NeverSelfPoisoned
<1>2. ASSUME NEW th \in Threads, Load(th) \/ Refuse(th)
      PROVE  SoundInv'
  BY <1>0, <1>2 DEF Load, Refuse, Back, Journal, IndInv, TypeOK, SoundInv, NeverSelfPoisoned
<1>3. ASSUME NEW th \in Threads, Worker(th)
      PROVE  SoundInv'
  <2>1. ASSUME NEW g, Follows(db.ledger, g), Write(th, Written(db, g))
        PROVE  SoundInv'
    <3>1. Attached(db) /\ ~Forgotten(db)
      BY <2>1, JournalAssumption DEF Write, IndInv, WriterInv, Loaded, HoldsLease, Attached
    <3>2. QED
      BY <1>0, <2>1, <3>1, WrittenAccepted, WriteSound
  <2>2. ASSUME Write(th, Detached(db))
        PROVE  SoundInv'
    <3>1. Attached(db) /\ ~Forgotten(db)
      BY <2>2, JournalAssumption DEF Write, IndInv, WriterInv, Loaded, HoldsLease, Attached
    <3>2. QED
      BY <1>0, <2>2, <3>1, DetachedAccepted, WriteSound
  <2>3. QED
    BY <1>0, <1>2, <1>3, <2>1, <2>2, WorkerFollows
<1>4. ASSUME NEW k \in Callers, CallLoad(k) \/ CallFails(k)
      PROVE  SoundInv'
  BY <1>4 DEF CallLoad, CallFails, SoundInv, NeverSelfPoisoned
<1>5. ASSUME NEW k \in Callers, NEW th \in Threads, Attach(k, th)
      PROVE  SoundInv'
  <2> DEFINE row == AttachedTo(db, th)
  <2>1. /\ caller[k].base = db /\ ~Forgotten(db)
        /\ db' = row
        /\ \/ journal' = [journal EXCEPT ![th] = Spawned(row.epoch)]
           \/ UNCHANGED journal
    BY <1>5, CallerCurrent DEF Attach, CallWrite
  <2>2. /\ row.revision = db.revision + 1 /\ row.epoch = db.epoch + 1 /\ row.thread = th
        /\ row.retired = db.retired /\ row.ledger = db.ledger /\ th \in row.threads
    BY DEF AttachedTo, Row
  <2>3. db.revision \in Nat /\ db.epoch \in Nat /\ th # None
    BY <1>0, JournalAssumption DEF RowType
  <2> HIDE DEF row
  <2>4. RowSound(row)
    BY <1>0, <2>1, <2>2, <2>3 DEF RowSound, Attached, Forgotten
  <2>5. NeverSelfPoisoned'
    BY <1>0, <2>1 DEF IndInv, TypeOK, NeverSelfPoisoned, Spawned, Journal
  <2>6. QED
    BY <2>1, <2>4, <2>5 DEF SoundInv
<1>6. ASSUME NEW k \in Callers, NEW why \in {"explicit_forget", "retention"},
             caller[k].pc = "loaded", CallWrite(k, Retired(caller[k].base, why)),
             UNCHANGED journal
      PROVE  SoundInv'
  <2> DEFINE row == Retired(db, why)
  <2>1. caller[k].base = db /\ ~Attached(db) /\ db' = row
    BY <1>6, CallerCurrent DEF CallWrite
  <2>2. /\ row.revision = db.revision + 1 /\ row.epoch = db.epoch /\ row.thread = db.thread
        /\ row.ledger = EmptyLedger
    BY DEF Retired, Row
  <2>3. db.revision \in Nat /\ db.epoch \in Nat
    BY <1>0 DEF RowType
  <2> HIDE DEF row
  <2>4. RowSound(row)
    BY <1>0, <2>1, <2>2, <2>3, EmptyGood, EmptySound DEF RowSound, Attached
  <2>5. QED
    BY <1>0, <1>6, <2>1, <2>4 DEF SoundInv, NeverSelfPoisoned
<1>7. ASSUME NEW k \in Callers, Forget(k) \/ SweepRetire(k)
      PROVE  SoundInv'
  BY <1>6, <1>7 DEF Forget, SweepRetire
<1>8. CASE Crash
  BY <1>0, <1>8 DEF Crash, SoundInv, NeverSelfPoisoned, NoJournal, Journal
<1>9. CASE Open
  <2>1. /\ db' = (IF Attached(db) THEN Detached(db) ELSE db)
        /\ UNCHANGED journal
    BY <1>9 DEF Open
  <2>2. Attached(db) => ~Forgotten(db)
    BY <1>0 DEF RowSound
  <2>3. RowSound(db')
    BY <1>0, <2>1, <2>2, DetachedAccepted
  <2>4. QED
    BY <1>0, <2>1, <2>3 DEF SoundInv, NeverSelfPoisoned
<1>10. QED
  BY <1>1, <1>3, <1>4, <1>5, <1>7, <1>8, <1>9 DEF Next, CallStep

LEMMA InitSound == Init => SoundInv
<1> SUFFICES ASSUME Init
             PROVE  SoundInv
  OBVIOUS
<1>1. RowSound(NewRow)
  BY EmptyGood, EmptySound, JournalAssumption DEF NewRow, Row, RowSound, Forgotten, Attached
<1>2. NeverSelfPoisoned
  BY DEF Init, NeverSelfPoisoned, Spawned, NoJournal, Journal
<1>3. QED
  BY <1>1, <1>2 DEF Init, SoundInv

\* Neither validate nor validate_replace ever refuses what a journal worker has
\* accepted, whatever attaches, forgets, sweeps and crashes happen around it.
THEOREM JournalAlwaysSound == Spec => []JournalSound
<1>1. IndInv /\ SoundInv => JournalSound
  BY DEF IndInv, SoundInv, JournalSound
<1>2. QED
  BY <1>1, InitInv, NextInv, InitSound, NextSound, PTL DEF Spec

(***************************************************************************)
(* SessionJournal implements RunLedger: a load, a local computation and a  *)
(* compare and exchange act on the session like one atomic command.        *)
(***************************************************************************)
\* The operators of RunLedger, instantiated, are those of SessionState.
LEMMA SameHelpers ==
  ASSUME NEW g, NEW t
  PROVE  /\ Ledger!Active(g) = Active(g)
         /\ Ledger!ActiveTurns(g) = ActiveTurns(g)
         /\ Ledger!ResultItems(g, t) = ResultItems(g, t)
         /\ Ledger!Uncommitted(g, t) = Uncommitted(g, t)
         /\ \A steps : Ledger!UsageSum(steps) = UsageSum(steps)
         /\ \A run : Ledger!LastStepOpen(run) = LastStepOpen(run)
         /\ \A h, s, f : Ledger!Mutated(g, t, h, s, f) = Mutated(g, t, h, s, f)
<1>1. Ledger!Active(g) = Active(g) /\ Ledger!ActiveTurns(g) = ActiveTurns(g)
  BY Zenon DEF Ledger!Active, Active, Ledger!ActiveTurns, ActiveTurns
<1>2. Ledger!ResultItems(g, t) = ResultItems(g, t)
  BY Zenon DEF Ledger!ResultItems, ResultItems, Ledger!Uncommitted, Uncommitted
<1>3. Ledger!Uncommitted(g, t) = Uncommitted(g, t)
  BY Zenon DEF Ledger!Uncommitted, Uncommitted
<1>4. \A steps : Ledger!UsageSum(steps) = UsageSum(steps)
  BY Zenon DEF Ledger!UsageSum, UsageSum
<1>5. \A run : Ledger!LastStepOpen(run) = LastStepOpen(run)
  BY Zenon DEF Ledger!LastStepOpen, LastStepOpen
<1>6. \A h, s, f : Ledger!Mutated(g, t, h, s, f) = Mutated(g, t, h, s, f)
  BY Zenon DEF Ledger!Mutated, Mutated, Ledger!LedgerOf, LedgerOf, Ledger!RunOf, RunOf
<1>7. QED
  BY <1>1, <1>2, <1>3, <1>4, <1>5, <1>6

LEMMA SameBegin ==
  ASSUME NEW g, NEW t, NEW i
  PROVE  /\ CanBegin(g, t, i) => Ledger!CanBegin(g, t, i)
         /\ Ledger!Begin(g, t, i) = Begin(g, t, i)
BY Zenon DEF Ledger!CanBegin, CanBegin, Ledger!Begin, Begin, Ledger!Active, Active,
     Ledger!ActiveTurns, ActiveTurns, Ledger!KnownItem, KnownItem, Ledger!Cardinality,
     Cardinality, Ledger!Accepted, Accepted, Ledger!Unresolved, Unresolved,
     Ledger!UnresolvedCalls, UnresolvedCalls, Ledger!LedgerOf, LedgerOf, Ledger!RunOf, RunOf

LEMMA SameModelInput ==
  ASSUME NEW g, NEW t
  PROVE  /\ CanModelInput(g, t) => Ledger!CanModelInput(g, t)
         /\ Ledger!ModelInput(g, t) = ModelInput(g, t)
BY SameHelpers, Zenon DEF Ledger!CanModelInput, CanModelInput, Ledger!ModelInput, ModelInput

LEMMA SameModelItem ==
  ASSUME NEW g, NEW t, NEW x
  PROVE  /\ CanModelMessage(g, t, x) => Ledger!CanModelMessage(g, t, x)
         /\ Ledger!ModelMessage(g, t, x) = ModelMessage(g, t, x)
         /\ CanModelCall(g, t, x) => Ledger!CanModelCall(g, t, x)
         /\ Ledger!ModelCall(g, t, x) = ModelCall(g, t, x)
BY SameHelpers, Zenon DEF Ledger!CanModelMessage, CanModelMessage, Ledger!ModelMessage,
     ModelMessage, Ledger!CanModelCall, CanModelCall, Ledger!ModelCall, ModelCall,
     Ledger!KnownItem, KnownItem, Ledger!CallOf, CallOf

LEMMA SameModelStepFinished ==
  ASSUME NEW g, NEW t, NEW u
  PROVE  /\ CanModelStepFinished(g, t, u) => Ledger!CanModelStepFinished(g, t, u)
         /\ Ledger!ModelStepFinished(g, t, u) = ModelStepFinished(g, t, u)
BY SameHelpers, Zenon DEF Ledger!CanModelStepFinished, CanModelStepFinished,
     Ledger!ModelStepFinished, ModelStepFinished

LEMMA SameTool ==
  ASSUME NEW g, NEW t, NEW c, NEW r
  PROVE  /\ CanDispatchIntent(g, t, c) => Ledger!CanDispatchIntent(g, t, c)
         /\ Ledger!DispatchIntent(g, t, c) = DispatchIntent(g, t, c)
         /\ CanToolOutcome(g, t, c, r) => Ledger!CanToolOutcome(g, t, c, r)
         /\ Ledger!ToolOutcome(g, t, c, r) = ToolOutcome(g, t, c, r)
         /\ CanToolBatch(g, t) => Ledger!CanToolBatch(g, t)
         /\ Ledger!ToolBatch(g, t) = ToolBatch(g, t)
<1>1. Ledger!StepCompleted(g, c) = StepCompleted(g, c)
  BY Zenon DEF Ledger!StepCompleted, StepCompleted
<1>2. /\ CanDispatchIntent(g, t, c) => Ledger!CanDispatchIntent(g, t, c)
      /\ Ledger!DispatchIntent(g, t, c) = DispatchIntent(g, t, c)
  BY <1>1, SameHelpers, Zenon DEF Ledger!CanDispatchIntent, CanDispatchIntent,
       Ledger!DispatchIntent, DispatchIntent, Ledger!CallOf, CallOf
<1>3. /\ CanToolOutcome(g, t, c, r) => Ledger!CanToolOutcome(g, t, c, r)
      /\ Ledger!ToolOutcome(g, t, c, r) = ToolOutcome(g, t, c, r)
  BY <1>1, SameHelpers, Zenon DEF Ledger!CanToolOutcome, CanToolOutcome,
       Ledger!ToolOutcome, ToolOutcome, Ledger!CallOf, CallOf
<1>4. CanToolBatch(g, t) => Ledger!CanToolBatch(g, t)
  BY SameHelpers, Zenon DEF Ledger!CanToolBatch, CanToolBatch
<1>5. Ledger!ToolBatch(g, t) = ToolBatch(g, t)
  BY Zenon DEF Ledger!ToolBatch, ToolBatch, Ledger!Answered, Answered, Ledger!CallOf, CallOf,
       Ledger!ResultItems, ResultItems, Ledger!Uncommitted, Uncommitted, Ledger!Mutated,
       Mutated, Ledger!LedgerOf, LedgerOf, Ledger!RunOf, RunOf
<1>6. QED
  BY <1>2, <1>3, <1>4, <1>5

LEMMA SameFinalize ==
  ASSUME NEW g, NEW t, NEW s
  PROVE  /\ CanFinalize(g, t) => Ledger!CanFinalize(g, t)
         /\ Ledger!Finalize(g, t, s) = Finalize(g, t, s)
<1>1. CanFinalize(g, t) => Ledger!CanFinalize(g, t)
  BY SameHelpers, Zenon DEF Ledger!CanFinalize, CanFinalize
<1>2. Ledger!Finalize(g, t, s) = Finalize(g, t, s)
  BY SameHelpers, Zenon DEF Ledger!Finalize, Finalize, Ledger!Unanswered, Unanswered,
       Ledger!Closed, Closed, Ledger!LedgerOf, LedgerOf, Ledger!RunOf, RunOf, Ledger!CallOf, CallOf
<1>3. QED
  BY <1>1, <1>2

LEMMA SameRecover ==
  ASSUME NEW g
  PROVE  /\ CanRecover(g) => Ledger!CanRecover(g)
         /\ Ledger!Recover(g) = Recover(g)
<1>1. CanRecover(g) => Ledger!CanRecover(g)
  BY SameHelpers, SameFinalize, Zenon DEF Ledger!CanRecover, CanRecover
<1>2. Ledger!Recover(g) = Recover(g)
  <2>1. \A t : Ledger!Finalize(g, t, "failed") = Finalize(g, t, "failed")
    BY SameFinalize
  <2>2. QED
    BY <2>1, Zenon DEF Ledger!Recover, Recover, Ledger!Active, Active,
         Ledger!ActiveTurns, ActiveTurns
<1>3. QED
  BY <1>1, <1>2

LEMMA SameAcknowledge ==
  ASSUME NEW g
  PROVE  /\ CanAcknowledge(g) => Ledger!CanAcknowledge(g)
         /\ Ledger!Acknowledge(g) = Acknowledge(g)
BY SameHelpers, Zenon DEF Ledger!CanAcknowledge, CanAcknowledge, Ledger!Acknowledge,
     Acknowledge, Ledger!LedgerOf, LedgerOf

LEMMA SameEmptyLedger == Ledger!EmptyLedger = EmptyLedger
BY Zenon DEF Ledger!EmptyLedger, EmptyLedger, Ledger!NoRun, NoRun, Ledger!NoCall, NoCall,
     Ledger!LedgerOf, LedgerOf, Ledger!RunOf, RunOf, Ledger!CallOf, CallOf

\* A write under the lease is a command, a detach or no step of the ledger.
LEMMA CommitStep ==
  ASSUME IndInv, NEW th \in Threads, Loaded(th), NEW g, Put(th, g)
  PROVE  Ledger!Commit(g) \/ UNCHANGED <<db.ledger, LeaseOf(db), db.epoch>>
<1>1. Base(th) = db /\ HoldsLease(th, db) /\ RowType(db)
  BY DEF IndInv, WriterInv, TypeOK
<1>2. db' \in {db, Written(db, g)}
  BY <1>1 DEF Put, Write
<1>3. CASE db' = db
  BY <1>3 DEF LeaseOf, Attached, Forgotten
<1>4. CASE db' = Written(db, g)
  <2>1. /\ db'.ledger = g /\ db'.epoch = db.epoch /\ db'.thread = db.thread
        /\ db'.retired = db.retired
    BY <1>1, <1>4, WrittenRow
  <2>2. LeaseOf(db) = "attached" /\ LeaseOf(db)' = "attached"
    BY <1>1, <2>1, JournalAssumption DEF LeaseOf, Attached, Forgotten, HoldsLease
  <2>3. QED
    BY <2>1, <2>2 DEF Ledger!Commit
<1>5. QED
  BY <1>2, <1>3, <1>4

LEMMA DetachStep ==
  ASSUME RowType(db), Attached(db), ~Forgotten(db), CanRecover(db.ledger), db' = Detached(db)
  PROVE  Ledger!Detach
<1>1. /\ db'.ledger = Recover(db.ledger) /\ db'.epoch = db.epoch /\ db'.thread = None
      /\ db'.retired = db.retired
  BY DetachedRow
<1>2. LeaseOf(db) = "attached" /\ LeaseOf(db)' = "detached"
  BY <1>1 DEF LeaseOf, Attached, Forgotten
<1>3. QED
  BY <1>1, <1>2, SameRecover DEF Ledger!Detach

\* A worker's step is a command or a detach of the ledger, or leaves it alone.
LEMMA WorkerStep ==
  ASSUME IndInv, NEW th \in Threads, Worker(th)
  PROVE  Ledger!Next \/ UNCHANGED <<db.ledger, LeaseOf(db), db.epoch>>
<1> DEFINE Same == UNCHANGED <<db.ledger, LeaseOf(db), db.epoch>>
<1>0. /\ RowType(db)
      /\ Loaded(th) => Base(th) = db /\ Stored(th) = db.ledger /\ HoldsLease(th, db)
  BY DEF IndInv, WriterInv, TypeOK, Stored
<1>1. CASE Load(th) \/ Refuse(th)
  BY <1>1 DEF Load, Refuse, LeaseOf, Attached, Forgotten
<1>2. CASE WriteBegin(th)
  <2>1. PICK t \in Turns, i \in Items :
          /\ Loaded(th) /\ CanBegin(db.ledger, t, i) /\ Put(th, Begin(db.ledger, t, i))
    BY <1>0, <1>2 DEF WriteBegin
  <2>2. Ledger!Commit(Begin(db.ledger, t, i)) \/ Same
    BY <2>1, CommitStep
  <2>3. QED
    BY <2>1, <2>2, SameBegin DEF Ledger!Next, Ledger!Command, Ledger!CommitBegin
<1>3. CASE WriteModelInput(th)
  <2>1. PICK t \in Turns :
          /\ Loaded(th) /\ Len(db.ledger.run[t].steps) < StepBound
          /\ CanModelInput(db.ledger, t) /\ Put(th, ModelInput(db.ledger, t))
    BY <1>0, <1>3 DEF WriteModelInput
  <2>2. Ledger!Commit(ModelInput(db.ledger, t)) \/ Same
    BY <2>1, CommitStep
  <2>3. QED
    BY <2>1, <2>2, SameModelInput DEF Ledger!Next, Ledger!Command, Ledger!CommitModelInput
<1>4. CASE WriteModelMessage(th)
  <2>1. PICK t \in Turns, i \in Items :
          /\ Loaded(th) /\ CanModelMessage(db.ledger, t, i)
          /\ Put(th, ModelMessage(db.ledger, t, i))
    BY <1>0, <1>4 DEF WriteModelMessage
  <2>2. Ledger!Commit(ModelMessage(db.ledger, t, i)) \/ Same
    BY <2>1, CommitStep
  <2>3. QED
    BY <2>1, <2>2, SameModelItem DEF Ledger!Next, Ledger!Command, Ledger!CommitModelMessage
<1>5. CASE WriteModelCall(th)
  <2>1. PICK t \in Turns, c \in Calls :
          /\ Loaded(th) /\ CanModelCall(db.ledger, t, c) /\ Put(th, ModelCall(db.ledger, t, c))
    BY <1>0, <1>5 DEF WriteModelCall
  <2>2. Ledger!Commit(ModelCall(db.ledger, t, c)) \/ Same
    BY <2>1, CommitStep
  <2>3. QED
    BY <2>1, <2>2, SameModelItem DEF Ledger!Next, Ledger!Command, Ledger!CommitModelCall
<1>6. CASE WriteModelStepFinished(th)
  <2>1. PICK t \in Turns, u \in Usages :
          /\ Loaded(th) /\ CanModelStepFinished(db.ledger, t, u)
          /\ Put(th, ModelStepFinished(db.ledger, t, u))
    BY <1>0, <1>6 DEF WriteModelStepFinished
  <2>2. Ledger!Commit(ModelStepFinished(db.ledger, t, u)) \/ Same
    BY <2>1, CommitStep
  <2>3. QED
    BY <2>1, <2>2, SameModelStepFinished
       DEF Ledger!Next, Ledger!Command, Ledger!CommitModelStepFinished
<1>7. CASE WriteDispatchIntent(th)
  <2>1. PICK t \in Turns, c \in Calls :
          /\ Loaded(th) /\ CanDispatchIntent(db.ledger, t, c)
          /\ Put(th, DispatchIntent(db.ledger, t, c))
    BY <1>0, <1>7 DEF WriteDispatchIntent
  <2>2. Ledger!Commit(DispatchIntent(db.ledger, t, c)) \/ Same
    BY <2>1, CommitStep
  <2>3. QED
    BY <2>1, <2>2, SameTool DEF Ledger!Next, Ledger!Command, Ledger!CommitDispatchIntent
<1>8. CASE WriteToolOutcome(th)
  <2>1. PICK t \in Turns, c \in Calls, r \in Reported :
          /\ Loaded(th) /\ CanToolOutcome(db.ledger, t, c, r)
          /\ Put(th, ToolOutcome(db.ledger, t, c, r))
    BY <1>0, <1>8 DEF WriteToolOutcome
  <2>2. Ledger!Commit(ToolOutcome(db.ledger, t, c, r)) \/ Same
    BY <2>1, CommitStep
  <2>3. QED
    BY <2>1, <2>2, SameTool
       DEF Ledger!Next, Ledger!Command, Ledger!CommitToolOutcome, Ledger!Reported, Reported
<1>9. CASE WriteToolBatch(th)
  <2>1. PICK t \in Turns :
          /\ Loaded(th) /\ CanToolBatch(db.ledger, t) /\ Put(th, ToolBatch(db.ledger, t))
    BY <1>0, <1>9 DEF WriteToolBatch
  <2>2. Ledger!Commit(ToolBatch(db.ledger, t)) \/ Same
    BY <2>1, CommitStep
  <2>3. QED
    BY <2>1, <2>2, SameTool DEF Ledger!Next, Ledger!Command, Ledger!CommitToolBatch
<1>10. CASE WriteFinalize(th)
  <2>1. PICK t \in Turns, s \in Terminal :
          /\ Loaded(th) /\ CanFinalize(db.ledger, t) /\ Put(th, Finalize(db.ledger, t, s))
    BY <1>0, <1>10 DEF WriteFinalize
  <2>2. Ledger!Commit(Finalize(db.ledger, t, s)) \/ Same
    BY <2>1, CommitStep
  <2>3. QED
    BY <2>1, <2>2, SameFinalize
       DEF Ledger!Next, Ledger!Command, Ledger!CommitFinalize, Ledger!Terminal, Terminal
<1>11. CASE WriteAcknowledge(th)
  <2>1. Loaded(th) /\ CanAcknowledge(db.ledger) /\ Put(th, Acknowledge(db.ledger))
    BY <1>0, <1>11 DEF WriteAcknowledge
  <2>2. Ledger!Commit(Acknowledge(db.ledger)) \/ Same
    BY <2>1, CommitStep
  <2>3. QED
    BY <2>1, <2>2, SameAcknowledge DEF Ledger!Next, Ledger!Command, Ledger!CommitAcknowledge
<1>12. CASE WriteUnchanged(th)
  <2>1. Loaded(th) /\ Put(th, db.ledger)
    BY <1>0, <1>12 DEF WriteUnchanged
  <2>2. Ledger!Commit(db.ledger) \/ Same
    BY <2>1, CommitStep
  <2>3. QED
    BY <2>2 DEF Ledger!Commit
<1>13. CASE WriteDetach(th)
  <2>1. Loaded(th) /\ CanRecover(db.ledger) /\ db' \in {db, Detached(db)}
    BY <1>0, <1>13 DEF WriteDetach, Write
  <2>2. CASE db' = db
    BY <2>2 DEF LeaseOf, Attached, Forgotten
  <2>3. CASE db' = Detached(db)
    <3>1. Attached(db) /\ ~Forgotten(db)
      BY <1>0, <2>1, JournalAssumption DEF HoldsLease, Attached
    <3>2. QED
      BY <1>0, <2>1, <2>3, <3>1, DetachStep DEF Ledger!Next
  <2>4. QED
    BY <2>1, <2>2, <2>3
<1>14. QED
  BY <1>1, <1>2, <1>3, <1>4, <1>5, <1>6, <1>7, <1>8, <1>9, <1>10, <1>11, <1>12, <1>13 DEF Worker

LEMMA CallerStep ==
  ASSUME IndInv, NEW k \in Callers, CallStep(k)
  PROVE  Ledger!Next \/ UNCHANGED <<db.ledger, LeaseOf(db), db.epoch>>
<1>1. CASE CallLoad(k) \/ CallFails(k)
  BY <1>1 DEF CallLoad, CallFails, LeaseOf, Attached, Forgotten
<1>2. ASSUME NEW th \in Threads, Attach(k, th) PROVE Ledger!Next
  <2>1. /\ db' = AttachedTo(db, th) /\ RowType(db) /\ ~Attached(db) /\ ~Forgotten(db)
        /\ db.epoch < EpochBound
    BY <1>2, CallerCurrent DEF Attach, CallWrite
  <2>2. /\ db'.ledger = db.ledger /\ db'.epoch = db.epoch + 1 /\ db'.thread = th
        /\ db'.retired = db.retired
    BY <2>1, AttachedRow
  <2>3. LeaseOf(db) = "detached" /\ LeaseOf(db)' = "attached"
    BY <2>1, <2>2, JournalAssumption DEF LeaseOf, Attached, Forgotten
  <2>4. QED
    BY <2>1, <2>2, <2>3 DEF Ledger!Next, Ledger!Attach
<1>3. CASE Forget(k) \/ SweepRetire(k)
  <2>1. PICK why \in {"explicit_forget", "retention"} :
          caller[k].pc = "loaded" /\ CallWrite(k, Retired(caller[k].base, why))
    BY <1>3 DEF Forget, SweepRetire
  <2>2. db' = Retired(db, why) /\ RowType(db) /\ ~Attached(db) /\ ~Forgotten(db)
    BY <2>1, CallerCurrent DEF CallWrite
  <2>3. db'.ledger = EmptyLedger /\ db'.epoch = db.epoch /\ db'.retired = why
    BY <2>2, RetiredRow
  <2>4. LeaseOf(db) = "detached" /\ LeaseOf(db)' = "retired"
    BY <2>2, <2>3 DEF LeaseOf, Attached, Forgotten
  <2>5. QED
    BY <2>3, <2>4, SameEmptyLedger DEF Ledger!Next, Ledger!Retire
<1>4. QED
  BY <1>1, <1>2, <1>3 DEF CallStep

\* The row is always in a state, and always changes by a step, of RunLedger.
THEOREM Refinement == Spec => ImplementsLedger
<1>1. Init => Ledger!Init
  BY SameEmptyLedger, JournalAssumption
     DEF Init, NewRow, Row, Ledger!Init, LeaseOf, Attached, Forgotten
<1>2. IndInv /\ [Next]_vars => [Ledger!Next]_<<db.ledger, LeaseOf(db), db.epoch>>
  <2> SUFFICES ASSUME IndInv, [Next]_vars
               PROVE  Ledger!Next \/ UNCHANGED <<db.ledger, LeaseOf(db), db.epoch>>
    OBVIOUS
  <2>1. CASE UNCHANGED vars
    BY <2>1 DEF vars, LeaseOf, Attached, Forgotten
  <2>2. CASE Crash
    BY <2>2 DEF Crash, LeaseOf, Attached, Forgotten
  <2>3. CASE Open
    <3>1. CASE ~Attached(db)
      BY <2>3, <3>1 DEF Open, LeaseOf, Attached, Forgotten
    <3>2. CASE Attached(db)
      <4>1. /\ RowType(db) /\ CanRecover(db.ledger) /\ db' = Detached(db)
        BY <2>3, <3>2 DEF Open, IndInv, TypeOK
      <4>2. db # Detached(db)
        BY <4>1, <3>2, DetachedRow DEF Attached
      <4>3. ~Forgotten(db)
        BY <2>3, <3>2, <4>2 DEF Open, ValidReplace
      <4>4. QED
        BY <3>2, <4>1, <4>3, DetachStep DEF Ledger!Next
    <3>3. QED
      BY <3>1, <3>2
  <2>4. QED
    BY <2>1, <2>2, <2>3, WorkerStep, CallerStep DEF Next
<1>3. QED
  BY <1>1, <1>2, Invariance, PTL DEF Spec, ImplementsLedger, Ledger!Spec, Ledger!ledgerVars
=============================================================================
