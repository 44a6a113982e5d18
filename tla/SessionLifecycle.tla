-------------------------- MODULE SessionLifecycle --------------------------
(***************************************************************************)
(* The sessions of a daemon and the connections that own them              *)
(* (whale-daemon, session_lifecycle.rs and recovery.rs): creation and      *)
(* attachment, session.close and the clean-up of a lost connection, which  *)
(* join one another through the lifecycle registry.                        *)
(*                                                                         *)
(* The tasks are the requests that create sessions, session.close          *)
(* requests, one close job per session, and calls of disconnect_connection *)
(* of which there may be several for one connection: at the end of its     *)
(* input, after an answer that could not be written, after a close that    *)
(* could not be stored.                                                    *)
(*                                                                         *)
(* Abstractions.  One stored record that any connection may attach (its    *)
(* writers are SessionJournal).  The runs of a session are the time its    *)
(* close job takes (RunLifecycle).  A request that is refused without a    *)
(* change is no step; answers that cannot be written are those to the      *)
(* requests that create sessions.                                          *)
(***************************************************************************)
EXTENDS Naturals, FiniteSets, TLC

CONSTANTS Owners,      \* connections
          Threads,     \* session ids, which clients choose
          Creators,    \* requests that create or attach a session
          Closers,     \* session.close requests
          Hangups,     \* calls of disconnect_connection at one time
          NoOne

SessionsAssumption ==
    /\ NoOne \notin Owners \cup Threads
    /\ {"absent", "detached"} \cap Threads = {}
    /\ \A S \in {Owners, Threads, Creators, Closers, Hangups} : IsFiniteSet(S)
ASSUME SessionsGiven == SessionsAssumption

VARIABLES
    entry,         \* LifecycleState.sessions: owner, phase, whether its completion is settled
    disconnected,  \* LifecycleState.disconnected
    served,        \* DaemonServer.sessions
    journal,       \* DaemonServer.persistent_sessions, which have a journal
    row,           \* the thread id the stored record is attached to, or its state
    used,          \* historical_thread_ids of the record
    faulty,        \* a storage operation has failed
    creator, closeCall, job, hangup,  \* the tasks
    wanted,        \* calls of disconnect_connection that have not begun
    eof,           \* connections whose input has ended
    gone,          \* connections whose clean-up has finished once
    evicted        \* history: sessions that a later clean-up of such a connection removed

registry == <<entry, disconnected>>
stored   == <<row, used, faulty>>
server   == <<served, journal, evicted>>
sessionsVars == <<registry, server, stored, creator, closeCall, job, hangup, wanted, eof, gone>>

NoEntry   == [owner |-> NoOne, phase |-> "none", done |-> FALSE]
NoCreator == [pc |-> "idle", owner |-> NoOne, thread |-> NoOne]
NoCloser  == [pc |-> "idle", owner |-> NoOne, thread |-> NoOne]
NoJob     == [pc |-> "none", owner |-> NoOne, closed |-> FALSE, outcome |-> "ok"]
NoHangup  == [pc |-> "idle", owner |-> NoOne, threads |-> {}, first |-> {}, wait |-> {},
              thread |-> NoOne]

SessionsInit ==
    /\ entry = [t \in Threads |-> NoEntry] /\ disconnected = {}
    /\ served = [t \in Threads |-> NoOne] /\ journal = [t \in Threads |-> FALSE] /\ evicted = {}
    /\ row = "absent" /\ used = {} /\ faulty = FALSE
    /\ creator = [c \in Creators |-> NoCreator]
    /\ closeCall = [k \in Closers |-> NoCloser]
    /\ job = [t \in Threads |-> NoJob]
    /\ hangup = [h \in Hangups |-> NoHangup]
    /\ wanted = [o \in Owners |-> 0] /\ eof = {} /\ gone = {}

(***************************************************************************)
(* Completions.  Who waits for the completion of a session's close hears   *)
(* of it when it is set.                                                   *)
(***************************************************************************)
Heard(t, outcome) ==
    /\ closeCall' = [k \in Closers |-> IF closeCall[k].pc = "wait" /\ closeCall[k].thread = t
                                       THEN [closeCall[k] EXCEPT !.pc = outcome] ELSE closeCall[k]]
    /\ hangup' = [h \in Hangups |-> [hangup[h] EXCEPT !.wait = @ \ {t}]]

\* SessionLifecycle::complete
Tombstone(t, o) == IF entry[t].owner = o
                   THEN [entry EXCEPT ![t] = [owner |-> o, phase |-> "closed", done |-> TRUE]]
                   ELSE entry

\* Detach by the journal of thread t.  A journal that has lost its lease
\* changes nothing; a write that fails may have happened.
Detached(t) == row' = IF row = t THEN "detached" ELSE row
DetachOk(t) == Detached(t) /\ UNCHANGED <<used, faulty>>
DetachFails(t) == /\ row' = row \/ Detached(t)
                  /\ faulty' = TRUE /\ UNCHANGED used

(***************************************************************************)
(* Creation and attachment                                                 *)
(***************************************************************************)
CreatorAt(c, pc) == creator[c].pc = pc
Move(c, pc) == creator' = [creator EXCEPT ![c].pc = pc]
Asks(c, o, t, pc) == creator' = [creator EXCEPT ![c] = [pc |-> pc, owner |-> o, thread |-> t]]

Free(o, t) == o \notin disconnected /\ entry[t].phase = "none"

\* thread.start publishes a session without a journal under the registry lock.
StartThread(c, o, t) ==
    /\ CreatorAt(c, "idle")
    /\ Free(o, t)
    /\ entry' = [entry EXCEPT ![t] = [owner |-> o, phase |-> "open", done |-> FALSE]]
    /\ served' = [served EXCEPT ![t] = o] /\ evicted' = evicted \ {t}
    /\ Asks(c, o, t, "reply")
    /\ UNCHANGED <<disconnected, journal, stored, closeCall, job, hangup, wanted, eof, gone>>

Reserve(c, o, t) ==
    /\ CreatorAt(c, "idle")
    /\ Free(o, t)
    /\ entry' = [entry EXCEPT ![t] = [owner |-> o, phase |-> "preparing", done |-> FALSE]]
    /\ Asks(c, o, t, "store")
    /\ UNCHANGED <<disconnected, server, stored, closeCall, job, hangup, wanted, eof, gone>>

\* Mutant: a preparation that is dropped does not set its completion.
AbandonSilently(c, outcome) ==
    /\ entry' = Tombstone(creator[c].thread, creator[c].owner)
    /\ UNCHANGED <<closeCall, hangup>>
    /\ Move(c, "reply")

\* A preparation that is dropped, or failed, leaves a tombstone and settles its completion.
Abandon(c, outcome) ==
    /\ entry' = Tombstone(creator[c].thread, creator[c].owner)
    /\ Heard(creator[c].thread, outcome)
    /\ Move(c, "reply")

Attachable(t) == row \in {"absent", "detached"} /\ t \notin used

\* StoreRuntime::create or attach: done, rejected, or failed with the outcome open.
StoreDone(c) ==
    /\ CreatorAt(c, "store")
    /\ Attachable(creator[c].thread)
    /\ row' = creator[c].thread /\ used' = used \cup {creator[c].thread}
    /\ Move(c, "record")
    /\ UNCHANGED <<registry, server, faulty, closeCall, job, hangup, wanted, eof, gone>>

StoreRejected(c) ==
    /\ CreatorAt(c, "store")
    /\ Abandon(c, "ok")
    /\ UNCHANGED <<disconnected, server, stored, job, wanted, eof, gone>>

StoreFailed(c) ==
    /\ CreatorAt(c, "store")
    /\ \/ UNCHANGED <<row, used>>
       \/ /\ Attachable(creator[c].thread)
          /\ row' = creator[c].thread /\ used' = used \cup {creator[c].thread}
    /\ faulty' = TRUE
    /\ Abandon(c, "error")
    /\ UNCHANGED <<disconnected, server, job, wanted, eof, gone>>

\* journal.record and the stored configuration
Record(c) ==
    /\ CreatorAt(c, "record")
    /\ \E pc \in {"publish", "unreadable"} : Move(c, pc)
    /\ UNCHANGED <<registry, server, stored, closeCall, job, hangup, wanted, eof, gone>>

\* Preparation::publish, under the registry lock.  One of the inserts may fail.
Publishable(c) == /\ creator[c].owner \notin disconnected
                  /\ entry[creator[c].thread].owner = creator[c].owner
                  /\ entry[creator[c].thread].phase = "preparing"

Publish(c) ==
    /\ CreatorAt(c, "publish")
    /\ Publishable(c)
    /\ entry' = [entry EXCEPT ![creator[c].thread].phase = "open"]
    /\ served' = [served EXCEPT ![creator[c].thread] = creator[c].owner]
    /\ evicted' = evicted \ {creator[c].thread}
    /\ journal' = [journal EXCEPT ![creator[c].thread] = TRUE]
    /\ Move(c, "reply")
    /\ UNCHANGED <<disconnected, stored, closeCall, job, hangup, wanted, eof, gone>>

PublishRefused(c) ==
    /\ CreatorAt(c, "publish")
    /\ Move(c, "unpublished")
    /\ UNCHANGED <<registry, server, stored, closeCall, job, hangup, wanted, eof, gone>>

\* Mutant: the reservation is given up without the attachment.
UndoAttached(c) ==
    /\ creator[c].pc \in {"unreadable", "unpublished"}
    /\ Abandon(c, IF CreatorAt(c, "unpublished") THEN "ok" ELSE "error")
    /\ UNCHANGED <<disconnected, server, stored, job, wanted, eof, gone>>

\* The attachment that cannot be used is given up before its session is.
Undo(c) ==
    /\ creator[c].pc \in {"unreadable", "unpublished"}
    /\ \/ /\ DetachOk(creator[c].thread)
          /\ Abandon(c, IF CreatorAt(c, "unpublished") THEN "ok" ELSE "error")
       \/ /\ DetachFails(creator[c].thread)
          /\ Abandon(c, "error")
    /\ UNCHANGED <<disconnected, server, job, wanted, eof, gone>>

\* An answer that cannot be written ends the connection (RecoveryReplyGuard
\* calls disconnect_connection once more, when that is over and nothing left).
Reply(c) ==
    /\ CreatorAt(c, "reply")
    /\ Move(c, "done")
    /\ wanted' \in {wanted, [wanted EXCEPT ![creator[c].owner] = @ + 1]}
    /\ UNCHANGED <<registry, server, stored, closeCall, job, hangup, eof, gone>>

(***************************************************************************)
(* session.close                                                           *)
(***************************************************************************)
\* mark_closing: what becomes of an entry, and whether its completion is awaited.
Marked(e) == [e EXCEPT !.phase = CASE @ = "preparing" -> "doomed"
                                   [] @ = "open" -> "closing"
                                   [] OTHER -> @]
Pending(e) == e.phase \in {"preparing", "doomed", "open"} \/ (e.phase = "closing" /\ ~e.done)

NewJob(o) == [NoJob EXCEPT !.pc = "drain", !.owner = o]

\* The connection was there when the request was dispatched; it may be lost since.
CloseRequest(k, o, t) ==
    /\ closeCall[k].pc = "idle"
    /\ entry[t].owner = o
    /\ entry' = [entry EXCEPT ![t] = Marked(@)]
    /\ job' = IF entry[t].phase = "open" THEN [job EXCEPT ![t] = NewJob(o)] ELSE job
    /\ closeCall' = [closeCall EXCEPT ![k] =
                    [pc |-> IF Pending(entry[t]) THEN "wait"
                            ELSE IF entry[t].phase = "closed" THEN "ok" ELSE "error",
                     owner |-> o, thread |-> t]]
    /\ UNCHANGED <<disconnected, server, stored, creator, hangup, wanted, eof, gone>>

(***************************************************************************)
(* The close job: finish_session_close                                     *)
(***************************************************************************)
JobAt(t, pc) == job[t].pc = pc

\* begin_closing refuses: nothing is removed before the connection's clean-up.
JobRefused(t) ==
    /\ JobAt(t, "drain")
    /\ job' = [job EXCEPT ![t].pc = "settle", ![t].outcome = "error"]
    /\ UNCHANGED <<registry, server, stored, creator, closeCall, hangup, wanted, eof, gone>>

\* The runs have settled; the delivery of a terminal event may have failed.
JobDrain(t) ==
    /\ JobAt(t, "drain")
    /\ \E r \in {"ok", "error"} : job' = [job EXCEPT ![t].pc = "detach", ![t].outcome = r]
    /\ UNCHANGED <<registry, server, stored, creator, closeCall, hangup, wanted, eof, gone>>

\* complete_closed: the projection may refuse, the detach may fail.
JobDetach(t) ==
    /\ JobAt(t, "detach")
    /\ \/ /\ IF journal[t] THEN DetachOk(t) ELSE UNCHANGED stored
          /\ job' = [job EXCEPT ![t].pc = "remove", ![t].closed = TRUE]
       \/ /\ UNCHANGED stored
          /\ job' = [job EXCEPT ![t].pc = "remove", ![t].outcome = "error"]
       \/ /\ journal[t] /\ DetachFails(t)
          /\ job' = [job EXCEPT ![t].pc = "remove", ![t].outcome = "storage"]
    /\ UNCHANGED <<registry, server, creator, closeCall, hangup, wanted, eof, gone>>

JobRemove(t) ==
    /\ JobAt(t, "remove")
    /\ journal' = IF job[t].closed THEN [journal EXCEPT ![t] = FALSE] ELSE journal
    /\ served' = [served EXCEPT ![t] = NoOne]
    /\ job' = [job EXCEPT ![t].pc = "settle"]
    /\ UNCHANGED <<registry, evicted, stored, creator, closeCall, hangup, wanted, eof, gone>>

\* A close that could not be stored ends the connection.
JobSettle(t) ==
    /\ JobAt(t, "settle")
    /\ entry' = IF job[t].closed THEN Tombstone(t, job[t].owner)
                ELSE [entry EXCEPT ![t].done = TRUE]
    /\ Heard(t, IF job[t].outcome = "ok" THEN "ok" ELSE "error")
    /\ wanted' = IF job[t].outcome = "storage" /\ job[t].owner \notin disconnected
                 THEN [wanted EXCEPT ![job[t].owner] = @ + 1] ELSE wanted
    /\ job' = [job EXCEPT ![t] = NoJob]
    /\ UNCHANGED <<disconnected, server, stored, creator, eof, gone>>

(***************************************************************************)
(* disconnect_connection                                                   *)
(***************************************************************************)
HangupAt(h, pc) == hangup[h].pc = pc

EndOfInput(o) ==
    /\ o \notin eof
    /\ eof' = eof \cup {o}
    /\ wanted' = [wanted EXCEPT ![o] = @ + 1]
    /\ UNCHANGED <<registry, server, stored, creator, closeCall, job, hangup, gone>>

Owned(o) == {t \in Threads : entry[t].owner = o}

\* begin_disconnect
HangupBegin(h, o) ==
    /\ HangupAt(h, "idle") /\ wanted[o] > 0
    /\ wanted' = [wanted EXCEPT ![o] = @ - 1]
    /\ disconnected' = disconnected \cup {o}
    /\ entry' = [t \in Threads |-> IF t \in Owned(o) THEN Marked(entry[t]) ELSE entry[t]]
    /\ hangup' = [hangup EXCEPT ![h] =
                    [pc |-> "spawn", owner |-> o, threads |-> Owned(o),
                     first |-> {t \in Owned(o) : entry[t].phase = "open"},
                     wait |-> {t \in Owned(o) : Pending(entry[t])},
                     thread |-> NoOne]]
    /\ UNCHANGED <<server, stored, creator, closeCall, job, eof, gone>>

HangupSpawn(h) ==
    /\ HangupAt(h, "spawn")
    /\ job' = [t \in Threads |-> IF t \in hangup[h].first THEN NewJob(hangup[h].owner)
                                 ELSE job[t]]
    /\ hangup' = [hangup EXCEPT ![h].pc = "wait"]
    /\ UNCHANGED <<registry, server, stored, creator, closeCall, wanted, eof, gone>>

\* Mutant: the tombstone is dropped before the session has been removed.
HangupDetachForgets(h) ==
    /\ HangupAt(h, "wait") /\ hangup[h].wait = {}
    /\ \E t \in hangup[h].threads :
         /\ journal' = [journal EXCEPT ![t] = FALSE]
         /\ IF journal[t] THEN DetachOk(t) \/ DetachFails(t) ELSE UNCHANGED stored
         /\ hangup' = [hangup EXCEPT ![h].pc = "remove", ![h].thread = t]
         /\ entry' = [entry EXCEPT ![t] = NoEntry]
    /\ UNCHANGED <<disconnected, served, evicted, creator, closeCall, job, wanted, eof, gone>>

\* Once every completion is settled, the loop over the threads begins.
HangupDetach(h) ==
    /\ HangupAt(h, "wait") /\ hangup[h].wait = {}
    /\ \E t \in hangup[h].threads :
         /\ journal' = [journal EXCEPT ![t] = FALSE]
         /\ IF journal[t] THEN DetachOk(t) \/ DetachFails(t) ELSE UNCHANGED stored
         /\ hangup' = [hangup EXCEPT ![h].pc = "remove", ![h].thread = t]
    /\ UNCHANGED <<registry, served, evicted, creator, closeCall, job, wanted, eof, gone>>

\* The session goes by its id alone, whoever owns that id by now.
HangupRemove(h) ==
    /\ HangupAt(h, "remove")
    /\ served' = [served EXCEPT ![hangup[h].thread] = NoOne]
    /\ evicted' = IF hangup[h].owner \in gone THEN evicted \cup {hangup[h].thread} ELSE evicted
    /\ hangup' = [hangup EXCEPT ![h].pc = "wait", ![h].thread = NoOne,
                                ![h].threads = @ \ {hangup[h].thread}]
    /\ UNCHANGED <<registry, journal, stored, creator, closeCall, job, wanted, eof, gone>>

\* forget_owner
HangupForget(h) ==
    /\ HangupAt(h, "wait") /\ hangup[h].threads = {}
    /\ entry' = [t \in Threads |-> IF t \in Owned(hangup[h].owner) THEN NoEntry ELSE entry[t]]
    /\ gone' = gone \cup {hangup[h].owner}
    /\ hangup' = [hangup EXCEPT ![h] = NoHangup]
    /\ UNCHANGED <<disconnected, server, stored, creator, closeCall, job, wanted, eof>>

CreatorStep(c) == \/ StoreDone(c) \/ StoreRejected(c) \/ StoreFailed(c) \/ Record(c) \/ Publish(c)
                  \/ PublishRefused(c) \/ Undo(c) \/ Reply(c)
JobStep(t) == JobRefused(t) \/ JobDrain(t) \/ JobDetach(t) \/ JobRemove(t) \/ JobSettle(t)
HangupStep(h) == \/ \E o \in Owners : HangupBegin(h, o)
                 \/ HangupSpawn(h) \/ HangupDetach(h) \/ HangupRemove(h) \/ HangupForget(h)

SessionsNext ==
    \/ \E c \in Creators, o \in Owners, t \in Threads : StartThread(c, o, t) \/ Reserve(c, o, t)
    \/ \E c \in Creators : CreatorStep(c)
    \/ \E k \in Closers, o \in Owners, t \in Threads : CloseRequest(k, o, t)
    \/ \E t \in Threads : JobStep(t)
    \/ \E o \in Owners : EndOfInput(o)
    \/ \E h \in Hangups : HangupStep(h)

SessionsSpec == SessionsInit /\ [][SessionsNext]_sessionsVars

-----------------------------------------------------------------------------
\* Types: tasks are at points of their own, and a task that runs knows its
\* connection.
EntryTypes ==
    /\ entry \in [Threads -> [owner : Owners \cup {NoOne}, done : BOOLEAN,
                    phase : {"none", "preparing", "doomed", "open", "closing", "closed"}]]
    /\ \A t \in Threads : entry[t].owner = NoOne <=> entry[t].phase = "none"
CreatorTypes ==
    /\ creator \in [Creators -> [owner : Owners \cup {NoOne}, thread : Threads \cup {NoOne},
                      pc : {"idle", "store", "record", "unreadable", "publish", "unpublished",
                            "reply", "done"}]]
    /\ \A c \in Creators : creator[c].pc # "idle" =>
         creator[c].owner \in Owners /\ creator[c].thread \in Threads
CloserTypes ==
    /\ closeCall \in [Closers -> [owner : Owners \cup {NoOne}, thread : Threads \cup {NoOne},
                     pc : {"idle", "wait", "ok", "error"}]]
    /\ \A k \in Closers : closeCall[k].pc # "idle" =>
         closeCall[k].owner \in Owners /\ closeCall[k].thread \in Threads
JobTypes ==
    /\ job \in [Threads -> [pc : {"none", "drain", "detach", "remove", "settle"},
                  owner : Owners \cup {NoOne}, closed : BOOLEAN, outcome : {"ok", "error", "storage"}]]
    /\ \A t \in Threads : job[t].pc # "none" <=> job[t].owner \in Owners
HangupTypes ==
    /\ hangup \in [Hangups -> [pc : {"idle", "spawn", "wait", "remove"}, owner : Owners \cup {NoOne},
                     threads : SUBSET Threads, first : SUBSET Threads, wait : SUBSET Threads,
                     thread : Threads \cup {NoOne}]]
    /\ \A h \in Hangups : hangup[h].pc # "idle" => hangup[h].owner \in Owners
PlaceTypes ==
    /\ disconnected \subseteq Owners /\ eof \subseteq Owners /\ gone \subseteq disconnected
    /\ served \in [Threads -> Owners \cup {NoOne}] /\ journal \in [Threads -> BOOLEAN]
    /\ row \in Threads \cup {"absent", "detached"} /\ used \subseteq Threads
    /\ evicted \subseteq Threads
    /\ faulty \in BOOLEAN /\ wanted \in [Owners -> Nat]
SessionsTypeOK == EntryTypes /\ CreatorTypes /\ CloserTypes /\ JobTypes /\ HangupTypes /\ PlaceTypes

\* An open session is served for its owner, unless a clean-up removed it whose
\* connection another clean-up had already finished with: the tombstone of an id
\* keeps it from being used again before the first clean-up is over, but not
\* before the last (disconnect_connection, which removes by the id alone).
OpenIsLive ==
    \A t \in Threads : entry[t].phase = "open" /\ t \notin evicted => served[t] = entry[t].owner

\* The same without exception: the tombstone of a session keeps its id from
\* being used again "until that connection is cleaned up"
\* (session_lifecycle.rs:3), so no clean-up should meet a session of another
\* connection under an id that was its own.
OpenIsServed == \A t \in Threads : entry[t].phase = "open" => served[t] = entry[t].owner

\* Unless the storage has failed, an attachment of the stored record has a
\* session that is being made, used or closed: neither a lost answer, nor a
\* close or disconnect during the attachment, leaves one behind
\* (RecoveryReplyGuard, Preparation).
AttachmentOwned ==
    row \in Threads /\ ~faulty =>
        entry[row].phase \in {"preparing", "doomed", "open", "closing"}

\* Once a close succeeded, the session is closed for good: it does not come
\* to life again from a creation that was under way, and its record is free
\* for another attachment.
CloseStands ==
    \A k \in Closers : closeCall[k].pc = "ok" =>
        LET t == closeCall[k].thread IN
        /\ served[t] # closeCall[k].owner
        /\ entry[t].owner = closeCall[k].owner => entry[t].phase = "closed"
        /\ row = t /\ ~faulty => entry[t].owner # closeCall[k].owner

\* Nothing of a connection is left, or comes back, once its clean-up is over.
GoneIsGone ==
    \A t \in Threads : entry[t].owner \notin gone /\ served[t] \notin gone

\* What failed, closed or was lost leaves no attachment, session or
\* registration behind: all of these (session_lifecycle.rs, forget_owner).
NothingLeft == AttachmentOwned /\ CloseStands /\ GoneIsGone

\* A session.close that waits for its answer, also one that joined a close, a
\* clean-up or a preparation that was under way (CloseCompletion::wait).
CloseWaits == \E k \in Closers : closeCall[k].pc = "wait"

\* A lost connection that is not cleaned up yet: disconnect_connection may wait
\* for closes and preparations that others have begun.
CleanupOwed == eof \ gone # {}
=============================================================================
