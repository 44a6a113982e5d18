--------------------------- MODULE SessionJournal ---------------------------
(***************************************************************************)
(* One stored session row and everyone who writes it (whale-store,         *)
(* runtime.rs, backend.rs, retention.rs): the journal worker of each       *)
(* attachment, callers that attach, forget or retire the session, and the  *)
(* recovery done when the store is opened after a crash.  Each of them     *)
(* loads the row, computes a replacement and writes it with a compare and  *)
(* exchange on the revision; others run between the load and the write.    *)
(*                                                                         *)
(* An attachment is known by its thread id: the owner, the thread id and   *)
(* the epoch are set together, and a thread id is never used twice.  Only  *)
(* the set of a row's historical thread ids matters, not their order.      *)
(* Replies are left out, so a command that is refused, a Record command    *)
(* and a lookup that fails are all the same step: the worker goes back to  *)
(* its queue.  The command a worker carries out is chosen at the write:    *)
(* applying it to the loaded record is local to the worker.                *)
(***************************************************************************)
EXTENDS SessionState

CONSTANTS Threads,         \* thread ids, one per attachment
          FirstThread,     \* thread id of the attachment that created the row
          Callers,         \* tasks that attach, forget or sweep
          StepBound, EpochBound,
          RevisionBound    \* bound: revisions of the row

ASSUME JournalAssumption ==
    /\ FirstThread \in Threads
    /\ None \notin Threads
    /\ {StepBound, EpochBound, RevisionBound} \subseteq Nat
    /\ EpochBound >= 1

VARIABLES db,        \* the stored row
          journal,   \* the journal worker of each thread id
          caller,    \* calls to attach, forget or retire
          up         \* whether the daemon runs

vars == <<db, journal, caller, up>>

(***************************************************************************)
(* Rows                                                                    *)
(***************************************************************************)
Row(revision, epoch, thread, threads, retired, ledger) ==
    [revision |-> revision, epoch |-> epoch, thread |-> thread,
     threads |-> threads, retired |-> retired, ledger |-> ledger]
NewRow == Row(1, 1, FirstThread, {FirstThread}, "no", EmptyLedger)

Attached(row)  == row.thread # None
Forgotten(row) == row.retired # "no"

\* SessionRecord::validate
ValidRow(row) == /\ row.revision >= 1 /\ row.epoch >= 1
                 /\ Forgotten(row) => ~Attached(row) /\ row.ledger = EmptyLedger
                 /\ Attached(row) => row.thread \in row.threads
                 /\ Active(row.ledger) => Attached(row)
                 /\ ValidLedger(row.ledger)

\* validate_replace(old, expected, new)
ValidReplace(old, expected, new) ==
    /\ ValidRow(new)
    /\ old.revision = expected
    /\ new.revision = expected + 1
    /\ new.epoch >= old.epoch
    /\ ~Forgotten(old)
    /\ ~Forgotten(new) =>
         /\ LedgerExtends(old.ledger, new.ledger)
         /\ old.threads \subseteq new.threads
         /\ IF new.thread = old.thread THEN new.epoch = old.epoch
            ELSE IF Attached(new) THEN ~Attached(old) /\ new.epoch = old.epoch + 1
            ELSE new.epoch = old.epoch

\* apply(Begin | Commit | Finalize | Acknowledge | Replace | ReplaceMetadata)
\* replaces the ledger, Detach recovers it and gives up the attachment.
Written(r, g) == Row(r.revision + 1, r.epoch, r.thread, r.threads, r.retired, g)
Detached(r) == Row(r.revision + 1, r.epoch, None, r.threads, r.retired, Recover(r.ledger))
AttachedTo(r, th) ==
    Row(r.revision + 1, r.epoch + 1, th, r.threads \cup {th}, r.retired, r.ledger)
Retired(r, why) == Row(r.revision + 1, r.epoch, r.thread, {}, why, EmptyLedger)

(***************************************************************************)
(* State                                                                   *)
(***************************************************************************)
Journal(epoch, pc, base, poison) ==
    [epoch |-> epoch, pc |-> pc, base |-> base, poison |-> poison]
NoJournal  == Journal(0, "idle", None, "no")
Spawned(e) == Journal(e, "idle", None, "no")
NoCaller  == [pc |-> "idle", base |-> None]

Init == /\ db = NewRow
        /\ journal = [th \in Threads |-> IF th = FirstThread THEN Spawned(1)
                                         ELSE NoJournal]
        /\ caller = [k \in Callers |-> NoCaller]
        /\ up = TRUE

(***************************************************************************)
(* The journal worker                                                      *)
(***************************************************************************)
\* Mutant: a worker accepts the lease of another attachment.
HoldsAnyLease(th, row) == Attached(row) /\ ~Forgotten(row)

HoldsLease(th, row) == /\ row.epoch = journal[th].epoch
                       /\ row.thread = th
                       /\ ~Forgotten(row)

\* The worker takes a command and loads the row.  A row that is not its own
\* answers StaleLease; a load that fails poisons the worker.
Load(th) == /\ up
            /\ journal[th].epoch > 0
            /\ journal[th].pc = "idle"
            /\ journal[th].poison = "no"
            /\ \/ /\ HoldsLease(th, db)
                  /\ journal' = [journal EXCEPT ![th] = Journal(@.epoch, "loaded", db, "no")]
               \/ journal' = [journal EXCEPT ![th] = Journal(@.epoch, "idle", None, "io")]
            /\ UNCHANGED <<db, caller, up>>

Back(th, poison) == journal' = [journal EXCEPT ![th] = Journal(@.epoch, "idle", None, poison)]

\* A command that only reads or that apply refuses: nothing is written.
Refuse(th) == /\ up
              /\ journal[th].pc = "loaded"
              /\ Back(th, "no")
              /\ UNCHANGED <<db, caller, up>>

\* compare_exchange: refused, failed, carried out, or carried out with the
\* answer lost (the blocking task or the commit reports an error after it).
Write(th, row) ==
    /\ up
    /\ journal[th].pc = "loaded"
    /\ db.revision < RevisionBound
    /\ \/ /\ ValidReplace(db, journal[th].base.revision, row)
          /\ db' = row
          /\ \E p \in {"no", "io"} : Back(th, p)
       \/ /\ ~ValidReplace(db, journal[th].base.revision, row)
          /\ Back(th, "refused")
          /\ UNCHANGED db
       \/ /\ Back(th, "io")
          /\ UNCHANGED db
    /\ UNCHANGED <<caller, up>>

Base(th)    == journal[th].base
Stored(th)  == Base(th).ledger
Loaded(th)  == journal[th].pc = "loaded"
Put(th, g)  == Write(th, Written(Base(th), g))

WriteBegin(th) == Loaded(th) /\ \E t \in Turns, i \in Items :
    CanBegin(Stored(th), t, i) /\ Put(th, Begin(Stored(th), t, i))
WriteModelInput(th) == Loaded(th) /\ \E t \in Turns :
    /\ Len(Stored(th).run[t].steps) < StepBound
    /\ CanModelInput(Stored(th), t)
    /\ Put(th, ModelInput(Stored(th), t))
WriteModelMessage(th) == Loaded(th) /\ \E t \in Turns, i \in Items :
    CanModelMessage(Stored(th), t, i) /\ Put(th, ModelMessage(Stored(th), t, i))
WriteModelCall(th) == Loaded(th) /\ \E t \in Turns, c \in Calls :
    CanModelCall(Stored(th), t, c) /\ Put(th, ModelCall(Stored(th), t, c))
WriteModelStepFinished(th) == Loaded(th) /\ \E t \in Turns, u \in Usages :
    CanModelStepFinished(Stored(th), t, u) /\ Put(th, ModelStepFinished(Stored(th), t, u))
WriteDispatchIntent(th) == Loaded(th) /\ \E t \in Turns, c \in Calls :
    CanDispatchIntent(Stored(th), t, c) /\ Put(th, DispatchIntent(Stored(th), t, c))
WriteToolOutcome(th) == Loaded(th) /\ \E t \in Turns, c \in Calls, r \in Reported :
    CanToolOutcome(Stored(th), t, c, r) /\ Put(th, ToolOutcome(Stored(th), t, c, r))
WriteToolBatch(th) == Loaded(th) /\ \E t \in Turns :
    CanToolBatch(Stored(th), t) /\ Put(th, ToolBatch(Stored(th), t))
WriteFinalize(th) == Loaded(th) /\ \E t \in Turns, s \in Terminal :
    CanFinalize(Stored(th), t) /\ Put(th, Finalize(Stored(th), t, s))
WriteAcknowledge(th) == Loaded(th) /\
    CanAcknowledge(Stored(th)) /\ Put(th, Acknowledge(Stored(th)))
\* A repeated begin or finalize and a replaced configuration or metadata
\* write the ledger back as it was, under a new revision.
WriteUnchanged(th) == Loaded(th) /\ Put(th, Stored(th))
WriteDetach(th) == Loaded(th) /\
    CanRecover(Stored(th)) /\ Write(th, Detached(Base(th)))

Worker(th) == \/ Load(th) \/ Refuse(th)
              \/ WriteBegin(th) \/ WriteModelInput(th) \/ WriteModelMessage(th)
              \/ WriteModelCall(th) \/ WriteModelStepFinished(th)
              \/ WriteDispatchIntent(th) \/ WriteToolOutcome(th) \/ WriteToolBatch(th)
              \/ WriteFinalize(th) \/ WriteAcknowledge(th) \/ WriteUnchanged(th)
              \/ WriteDetach(th)

(***************************************************************************)
(* Callers.  attach, forget and retire_detached load the row, check that   *)
(* it is detached and not retired, and that it has the revision the caller *)
(* expects; then they write.  A refused or failed call changes nothing.    *)
(***************************************************************************)
CallLoad(k) == /\ up
               /\ caller[k].pc = "idle"
               /\ ~Forgotten(db) /\ ~Attached(db)
               /\ caller' = [caller EXCEPT ![k] = [pc |-> "loaded", base |-> db]]
               /\ UNCHANGED <<db, journal, up>>

CallEnds(k) == caller' = [caller EXCEPT ![k] = NoCaller]

CallFails(k) == /\ up
                /\ caller[k].pc = "loaded"
                /\ CallEnds(k)
                /\ UNCHANGED <<db, journal, up>>

CallWrite(k, row) == /\ up
                     /\ db.revision < RevisionBound
                     /\ ValidReplace(db, caller[k].base.revision, row)
                     /\ db' = row
                     /\ CallEnds(k)
                     /\ UNCHANGED up

\* Mutant: the journal is spawned from the record as it was before the attach.
AttachStale(k, th) == LET base == caller[k].base row == AttachedTo(base, th) IN
    /\ caller[k].pc = "loaded"
    /\ base.epoch < EpochBound
    /\ th \notin base.threads
    /\ CallWrite(k, row)
    /\ \/ journal' = [journal EXCEPT ![th] = Spawned(base.epoch)]
       \/ UNCHANGED journal

\* A journal is spawned only if the caller learns that the write succeeded.
Attach(k, th) == LET base == caller[k].base row == AttachedTo(base, th) IN
    /\ caller[k].pc = "loaded"
    /\ base.epoch < EpochBound
    /\ th \notin base.threads
    /\ CallWrite(k, row)
    /\ \/ journal' = [journal EXCEPT ![th] = Spawned(row.epoch)]
       \/ UNCHANGED journal

Forget(k) == /\ caller[k].pc = "loaded"
             /\ CallWrite(k, Retired(caller[k].base, "explicit_forget"))
             /\ UNCHANGED journal

\* Mutant: a sweep does not look at unknown executions.
SweepRetireUnknown(k) == LET base == caller[k].base IN
    /\ caller[k].pc = "loaded"
    /\ ~Active(base.ledger)
    /\ CallWrite(k, Retired(base, "retention"))
    /\ UNCHANGED journal

\* retirement_replacement also spares active and unresolved records.
SweepRetire(k) == LET base == caller[k].base IN
    /\ caller[k].pc = "loaded"
    /\ ~Active(base.ledger)
    /\ ~Unresolved(base.ledger)
    /\ CallWrite(k, Retired(base, "retention"))
    /\ UNCHANGED journal

(***************************************************************************)
(* Crash, and StoreRuntime::open                                           *)
(***************************************************************************)
Crash == /\ up
         /\ up' = FALSE
         /\ journal' = [th \in Threads |-> NoJournal]
         /\ caller' = [k \in Callers |-> NoCaller]
         /\ UNCHANGED db

\* Mutant: the lease of the former process is dropped, its run is not closed.
OpenUnrecovered ==
    /\ ~up
    /\ db.revision < RevisionBound
    /\ db' = IF Attached(db)
             THEN Row(db.revision + 1, db.epoch, None, db.threads, db.retired, db.ledger)
             ELSE db
    /\ up' = TRUE
    /\ UNCHANGED <<journal, caller>>

\* recover reports a change if the row was attached (only then can it hold
\* an active run); only a changed row is written.
Open == /\ ~up
        /\ CanRecover(db.ledger)
        /\ db.revision < RevisionBound
        /\ LET row == IF Attached(db) THEN Detached(db) ELSE db IN
             /\ row # db => ValidReplace(db, db.revision, row)
             /\ db' = row
        /\ up' = TRUE
        /\ UNCHANGED <<journal, caller>>

CallStep(k) == CallLoad(k) \/ CallFails(k) \/ (\E th \in Threads : Attach(k, th))
              \/ Forget(k) \/ SweepRetire(k)

Next == \/ \E th \in Threads : Worker(th)
        \/ \E k \in Callers : CallStep(k)
        \/ Crash
        \/ Open

Spec == Init /\ [][Next]_vars

(***************************************************************************)
(* Properties                                                              *)
(***************************************************************************)

\* Type invariant of the store's writers.  The type of a ledger is an
\* invariant of RunLedger, which this specification implements.
RowType(row) ==
    row \in [revision: Nat, epoch: Nat, thread: Threads \cup {None},
             threads: SUBSET Threads, retired: {"no", "explicit_forget", "retention"},
             ledger: {row.ledger}]
TypeOK ==
    /\ RowType(db)
    /\ journal = [th \in Threads |-> journal[th]]
    /\ \A th \in Threads : /\ journal[th].epoch \in Nat
                           /\ journal[th].pc \in {"idle", "loaded"}
                           /\ journal[th].poison \in {"no", "io", "refused"}
    /\ caller = [k \in Callers |-> caller[k]]
    /\ \A k \in Callers : caller[k].pc \in {"idle", "loaded"}
    /\ up \in BOOLEAN

\* The holder of the lease is the only writer: a record a journal worker has
\* loaded is still the stored one when it writes, whatever attaches, forgets
\* and sweeps are under way.  A live attachment therefore never loses a
\* compare and exchange.
WriterIsCurrent == \A th \in Threads : Loaded(th) => Base(th) = db

\* No command a worker accepts is refused by the backend: neither
\* validate_replace nor validate ever turns an accepted command into a
\* poisoned journal.
NeverSelfPoisoned == \A th \in Threads : journal[th].poison # "refused"

\* Journals and store are sound: every writer and caller is at a point of its
\* own, and no journal is poisoned by a command it accepted itself.
JournalSound == TypeOK /\ NeverSelfPoisoned

\* Two journals never hold the same lease, and none holds one of the future.
LeasesDistinct ==
    \A th \in Threads : journal[th].epoch > 0 =>
        /\ journal[th].epoch =< db.epoch
        /\ \A o \in Threads \ {th} : journal[o].epoch # journal[th].epoch

\* A retention sweep never retires a session with an active run or with
\* unknown executions, even if the record it checked is no longer the stored
\* one when it writes.
SweepSparesProtected ==
    [][~Forgotten(db) /\ db'.retired = "retention"
         => ~Attached(db) /\ ~Active(db.ledger) /\ ~Unresolved(db.ledger)]_vars

\* The inductive invariant behind the properties above: a loaded record of
\* the current revision is the stored record, for a worker it is its own
\* lease, for a caller a detached session; nobody works while the daemon is
\* down; and leases are handed out in order.
WriterInv == \A th \in Threads : Loaded(th) => Base(th) = db /\ HoldsLease(th, db)
CallerInv ==
    \A k \in Callers : caller[k].pc = "loaded" =>
        /\ RowType(caller[k].base)
        /\ ~Attached(caller[k].base) /\ ~Forgotten(caller[k].base)
        /\ caller[k].base.revision =< db.revision
        /\ caller[k].base.revision = db.revision => caller[k].base = db
DownInv == ~up => /\ \A th \in Threads : journal[th] = NoJournal
                  /\ \A k \in Callers : caller[k] = NoCaller
IndInv == TypeOK /\ WriterInv /\ CallerInv /\ DownInv /\ LeasesDistinct

\* The row is written only by whole commands of the attached owner, by
\* recovery, by one attachment at a time and by retirement of a detached
\* session; see RunLedger.
LeaseOf(row) == IF Forgotten(row) THEN "retired"
                ELSE IF Attached(row) THEN "attached" ELSE "detached"
Ledger == INSTANCE RunLedger WITH ledger <- db.ledger, lease <- LeaseOf(db), epoch <- db.epoch
ImplementsLedger == Ledger!Spec
=============================================================================
