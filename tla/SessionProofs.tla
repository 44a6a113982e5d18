---------------------------- MODULE SessionProofs ----------------------------
(***************************************************************************)
(* The sessions of the daemon.  They are owned: what SessionLifecycle      *)
(* promises of attachments, closes and clean-ups, for any connections,     *)
(* session ids and requests.  The V2 plane of one implements NotifiedFeed, *)
(* closes behind its last event and tells the metadata that is stored: the *)
(* safety of SessionManagement, for any writers, metadata and limits.      *)
(***************************************************************************)
EXTENDS SessionLifecycle, SessionManagement, SequenceTheorems, FiniteSetTheorems, TLAPS

(***************************************************************************)
(* Sessions: the inductive invariant                                       *)
(***************************************************************************)
\* The task that makes a session, and the one that holds its attachment.
Making(c)    == creator[c].pc \in {"store", "record", "unreadable", "publish", "unpublished"}
Attaching(c) == creator[c].pc \in {"record", "unreadable", "publish", "unpublished"}
Busy(h)      == hangup[h].pc # "idle"

\* A preparation has one task; nothing is served for its session yet.
Preparations ==
    /\ \A c \in Creators : Making(c) =>
         /\ entry[creator[c].thread].owner = creator[c].owner
         /\ entry[creator[c].thread].phase \in {"preparing", "doomed"}
    /\ \A c, d \in Creators :
         Making(c) /\ Making(d) /\ creator[c].thread = creator[d].thread => c = d

\* Where an entry is in its life: served sessions are open or being closed, and
\* a lost connection makes and opens none.
Entries ==
    \A t \in Threads :
      /\ served[t] # NoOne => served[t] = entry[t].owner /\ entry[t].phase \in {"open", "closing"}
      /\ entry[t].phase \in {"preparing", "open"} => entry[t].owner \notin disconnected
      /\ entry[t].phase \in {"preparing", "doomed", "open"} => ~entry[t].done
      /\ entry[t].owner \notin gone

\* Somebody will give the attachment of the record up: the task that made it,
\* or whoever finds the journal of its session.
Attachment ==
    row \in Threads /\ ~faulty =>
      \/ \E c \in Creators : Attaching(c) /\ creator[c].thread = row
      \/ journal[row] /\ entry[row].phase \in {"open", "closing"}

\* A close job is that of an entry whose completion is open, and what it says
\* is closed has been detached and removed.
Jobs ==
    \A t \in Threads : job[t].pc # "none" =>
      /\ entry[t].owner = job[t].owner /\ entry[t].phase = "closing" /\ ~entry[t].done
      /\ job[t].pc \in {"remove", "settle"} /\ job[t].outcome = "ok" => job[t].closed
      /\ job[t].closed => job[t].pc \in {"remove", "settle"} /\ (row = t => faulty)
      /\ job[t].closed /\ job[t].pc = "settle" => served[t] = NoOne

\* A clean-up knows every session of its connection: which are served, which
\* have a journal, and whose completion is open.
Cleanups ==
    \A h \in Hangups : Busy(h) =>
      /\ hangup[h].owner \in disconnected
      /\ \A t \in Threads :
           /\ served[t] = hangup[h].owner => t \in hangup[h].threads
           /\ entry[t].owner = hangup[h].owner =>
                /\ journal[t] => t \in hangup[h].threads
                /\ Pending(entry[t]) => t \in hangup[h].wait
      /\ hangup[h].wait \subseteq hangup[h].threads
      /\ hangup[h].pc = "remove" =>
           /\ hangup[h].wait = {} /\ hangup[h].thread \in hangup[h].threads
           /\ entry[hangup[h].thread].owner = hangup[h].owner => ~journal[hangup[h].thread]

\* The jobs that a clean-up is about to spawn are nobody else's.
Spawning ==
    /\ \A h \in Hangups : hangup[h].pc = "spawn" =>
         \A t \in hangup[h].first :
           /\ entry[t].owner = hangup[h].owner /\ entry[t].phase = "closing" /\ ~entry[t].done
           /\ job[t].pc = "none"
    /\ \A g, h \in Hangups :
         hangup[g].pc = "spawn" /\ hangup[h].pc = "spawn" /\ g # h =>
           hangup[g].first \cap hangup[h].first = {}

\* A session.close that waits has a completion to hear of, and one that
\* succeeded has left a tombstone, which goes with its connection.
Closes ==
    \A k \in Closers :
      /\ closeCall[k].pc = "wait" =>
           entry[closeCall[k].thread].owner = closeCall[k].owner /\ Pending(entry[closeCall[k].thread])
      /\ closeCall[k].pc = "ok" =>
           \/ closeCall[k].owner \in gone
           \/ /\ entry[closeCall[k].thread].owner = closeCall[k].owner
              /\ entry[closeCall[k].thread].phase = "closed"

OwnInv == /\ SessionsTypeOK /\ Preparations /\ Entries /\ Attachment /\ Jobs /\ Cleanups /\ Spawning
          /\ Closes

\* What a clean-up still has to remove is of its own connection, as long as no
\* other clean-up has finished with that connection.
HoldsOwn == \A h \in Hangups : Busy(h) =>
              hangup[h].owner \in gone \/ \A t \in hangup[h].threads : entry[t].owner = hangup[h].owner
LiveInv == OpenIsLive /\ HoldsOwn

LEMMA Names ==
  /\ NoOne \notin Owners /\ NoOne \notin Threads
  /\ "absent" \notin Threads /\ "detached" \notin Threads
BY SessionsGiven DEF SessionsAssumption

LEMMA InitOwn == SessionsInit => OwnInv
<1> USE Names DEF SessionsInit, NoEntry, NoCreator, NoCloser, NoJob, NoHangup
<1> SUFFICES ASSUME SessionsInit PROVE OwnInv
  OBVIOUS
<1>1. SessionsTypeOK
  BY DEF SessionsTypeOK, EntryTypes, CreatorTypes, CloserTypes, JobTypes, HangupTypes, PlaceTypes
<1>2. Preparations /\ Entries /\ Attachment
  BY DEF Preparations, Making, Entries, Attachment
<1>3. Jobs /\ Cleanups /\ Spawning /\ Closes
  BY DEF Jobs, Cleanups, Busy, Spawning, Closes
<1>4. QED
  BY <1>1, <1>2, <1>3 DEF OwnInv

\* Who waits for a completion hears of it, and nobody else changes.
LEMMA HeardFacts ==
  ASSUME CloserTypes, HangupTypes, NEW t \in Threads, NEW outcome \in {"ok", "error"},
         Heard(t, outcome)
  PROVE  /\ CloserTypes' /\ HangupTypes'
         /\ \A k \in Closers :
              /\ closeCall'[k].owner = closeCall[k].owner /\ closeCall'[k].thread = closeCall[k].thread
              /\ closeCall'[k].pc = IF closeCall[k].pc = "wait" /\ closeCall[k].thread = t THEN outcome
                                 ELSE closeCall[k].pc
         /\ \A h \in Hangups :
              /\ hangup'[h].pc = hangup[h].pc /\ hangup'[h].owner = hangup[h].owner
              /\ hangup'[h].threads = hangup[h].threads /\ hangup'[h].first = hangup[h].first
              /\ hangup'[h].thread = hangup[h].thread /\ hangup'[h].wait = hangup[h].wait \ {t}
<1>1. \A k \in Closers : closeCall[k] \in [owner : Owners \cup {NoOne}, thread : Threads \cup {NoOne},
                                        pc : {"idle", "wait", "ok", "error"}]
  BY DEF CloserTypes
<1>2. \A h \in Hangups : hangup[h] \in [pc : {"idle", "spawn", "wait", "remove"},
                            owner : Owners \cup {NoOne}, threads : SUBSET Threads,
                            first : SUBSET Threads, wait : SUBSET Threads,
                            thread : Threads \cup {NoOne}]
  BY DEF HangupTypes
<1>3. \A h \in Hangups : hangup[h].wait \ {t} \in SUBSET Threads
  BY <1>2
<1>4. /\ \A k \in Closers :
           /\ closeCall'[k].owner = closeCall[k].owner /\ closeCall'[k].thread = closeCall[k].thread
           /\ closeCall'[k].pc = IF closeCall[k].pc = "wait" /\ closeCall[k].thread = t THEN outcome
                              ELSE closeCall[k].pc
      /\ \A h \in Hangups :
           /\ hangup'[h].pc = hangup[h].pc /\ hangup'[h].owner = hangup[h].owner
           /\ hangup'[h].threads = hangup[h].threads /\ hangup'[h].first = hangup[h].first
           /\ hangup'[h].thread = hangup[h].thread /\ hangup'[h].wait = hangup[h].wait \ {t}
  BY <1>1, <1>2, <1>3 DEF Heard
<1>5. CloserTypes'
  BY <1>1, <1>4 DEF Heard, CloserTypes
<1>6. HangupTypes'
  <2>1. \A h \in Hangups : [hangup[h] EXCEPT !.wait = hangup[h].wait \ {t}] \in
                           [pc : {"idle", "spawn", "wait", "remove"},
                            owner : Owners \cup {NoOne}, threads : SUBSET Threads,
                            first : SUBSET Threads, wait : SUBSET Threads,
                            thread : Threads \cup {NoOne}]
    BY <1>2, <1>3
  <2>2. QED
    BY <1>4, <2>1 DEF Heard, HangupTypes
<1>7. QED
  BY <1>4, <1>5, <1>6

\* mark_closing keeps the owner and the completion of an entry.
LEMMA MarkedFacts ==
  ASSUME EntryTypes, NEW t \in Threads
  PROVE  /\ Marked(entry[t]) \in [owner : Owners \cup {NoOne}, done : BOOLEAN,
                    phase : {"none", "preparing", "doomed", "open", "closing", "closed"}]
         /\ Marked(entry[t]).owner = entry[t].owner /\ Marked(entry[t]).done = entry[t].done
         /\ Marked(entry[t]).phase =
              IF entry[t].phase = "preparing" THEN "doomed"
              ELSE IF entry[t].phase = "open" THEN "closing" ELSE entry[t].phase
<1>1. entry[t] \in [owner : Owners \cup {NoOne}, done : BOOLEAN,
                    phase : {"none", "preparing", "doomed", "open", "closing", "closed"}]
  BY DEF EntryTypes
<1>2. Marked(entry[t]) = [entry[t] EXCEPT !.phase =
              IF entry[t].phase = "preparing" THEN "doomed"
              ELSE IF entry[t].phase = "open" THEN "closing" ELSE entry[t].phase]
  BY <1>1 DEF Marked
<1>3. QED
  BY <1>1, <1>2

(***************************************************************************)
(* The steps: a lemma per action                                           *)
(***************************************************************************)
\* A preparation is given up, and its attachment with it unless the storage
\* has failed.
LEMMA AbandonOwn ==
  ASSUME OwnInv, NEW c \in Creators, Making(c), NEW outcome \in {"ok", "error"},
         Abandon(c, outcome), UNCHANGED <<disconnected, server, job, gone>>,
         row' = creator[c].thread => faulty',
         row' # row => row' \in {creator[c].thread, "detached"},
         faulty => faulty'
  PROVE  /\ EntryTypes' /\ CreatorTypes' /\ CloserTypes' /\ HangupTypes'
         /\ (Preparations /\ Entries /\ Attachment /\ Jobs /\ Cleanups /\ Spawning /\ Closes)'
<1> USE Names DEF OwnInv, SessionsTypeOK
<1> DEFINE t == creator[c].thread
           o == creator[c].owner
<1>1. /\ t \in Threads /\ o \in Owners
      /\ entry[t].owner = o /\ entry[t].phase \in {"preparing", "doomed"} /\ ~entry[t].done
  BY DEF Making, CreatorTypes, Preparations, Entries
<1>2. entry' = [entry EXCEPT ![t] = [owner |-> o, phase |-> "closed", done |-> TRUE]]
  BY <1>1 DEF Abandon, Tombstone
<1>3. /\ entry'[t].owner = o /\ entry'[t].phase = "closed" /\ entry'[t].done = TRUE
      /\ \A s \in Threads : s # t => entry'[s] = entry[s]
      /\ \A s \in Threads : entry'[s].owner = entry[s].owner
  BY <1>1, <1>2 DEF EntryTypes
<1>4. /\ creator'[c].pc = "reply" /\ creator'[c].owner = o /\ creator'[c].thread = t
      /\ \A d \in Creators \ {c} : creator'[d] = creator[d]
  BY DEF Abandon, Move, CreatorTypes
<1>5. /\ \A k \in Closers :
           /\ closeCall'[k].owner = closeCall[k].owner /\ closeCall'[k].thread = closeCall[k].thread
           /\ closeCall'[k].pc = IF closeCall[k].pc = "wait" /\ closeCall[k].thread = t THEN outcome
                              ELSE closeCall[k].pc
      /\ \A h \in Hangups :
           /\ hangup'[h].pc = hangup[h].pc /\ hangup'[h].owner = hangup[h].owner
           /\ hangup'[h].threads = hangup[h].threads /\ hangup'[h].first = hangup[h].first
           /\ hangup'[h].thread = hangup[h].thread /\ hangup'[h].wait = hangup[h].wait \ {t}
  BY <1>1, HeardFacts DEF Abandon
<1>6. served[t] = NoOne /\ job[t].pc = "none"
  BY <1>1 DEF Entries, Jobs
<1>7. EntryTypes'
  BY <1>1, <1>2, <1>3 DEF EntryTypes
<1>8. CreatorTypes'
  BY <1>1, <1>4 DEF Abandon, Move, CreatorTypes
<1>9. CloserTypes' /\ HangupTypes'
  BY <1>1, HeardFacts DEF Abandon
<1>11. \A d \in Creators : Making(d)' =>
         Making(d) /\ d # c /\ creator'[d] = creator[d] /\ creator[d].thread # t
  BY <1>4 DEF Making, Preparations
<1>12. \A d \in Creators : Making(d) => creator[d].thread \in Threads
  BY DEF Making, CreatorTypes
<1>13. Preparations'
  BY <1>3, <1>11, <1>12 DEF Preparations
<1>14. Entries'
  BY <1>1, <1>3, <1>6 DEF Entries, server
<1>15. Attachment'
  <2> SUFFICES ASSUME row' \in Threads, ~faulty'
               PROVE  \/ \E d \in Creators : Attaching(d)' /\ creator'[d].thread = row'
                      \/ journal'[row'] /\ entry'[row'].phase \in {"open", "closing"}
    BY DEF Attachment
  <2>1. row' = row /\ row # t /\ ~faulty
    OBVIOUS
  <2>2. entry'[row] = entry[row] /\ journal' = journal
    BY <1>3, <2>1 DEF server
  <2>3. CASE \E d \in Creators : Attaching(d) /\ creator[d].thread = row
    BY <1>4, <2>1, <2>3 DEF Attaching
  <2>4. QED
    BY <2>1, <2>2, <2>3 DEF Attachment
<1>16. Jobs'
  <2>1. \A s \in Threads : job[s].pc # "none" => s # t
    BY <1>6
  <2>2. QED
    BY <1>3, <2>1, Names DEF Jobs, server
<1>a. \A s \in Threads : Pending(entry'[s]) => Pending(entry[s]) /\ s # t
  BY <1>3 DEF Pending
<1>b. \A s \in Threads : s # t => Pending(entry'[s]) = Pending(entry[s])
  BY <1>3 DEF Pending
<1>17. Cleanups'
  <2>1. \A h \in Hangups : hangup[h].pc = "remove" => hangup[h].thread \in Threads
    BY DEF Cleanups, Busy, HangupTypes
  <2>2. QED
    BY <1>3, <1>5, <1>a, <2>1 DEF Cleanups, Busy, server
<1>18. Spawning'
  <2>1. \A h \in Hangups : hangup[h].pc = "spawn" => t \notin hangup[h].first
    BY <1>1 DEF Spawning
  <2>2. QED
    BY <1>3, <1>5, <2>1 DEF Spawning, HangupTypes
<1>19. Closes'
  <2>1. \A k \in Closers : closeCall[k].pc # "idle" => closeCall[k].thread \in Threads
    BY DEF CloserTypes
  <2>2. QED
    BY <1>1, <1>3, <1>5, <1>b, <2>1 DEF Closes
<1>20. QED
  BY <1>7, <1>8, <1>9, <1>13, <1>14, <1>15, <1>16, <1>17, <1>18, <1>19


LEMMA StartThreadOwn ==
  ASSUME OwnInv, NEW c \in Creators, NEW o \in Owners, NEW t \in Threads, StartThread(c, o, t)
  PROVE  OwnInv'
<1> USE Names DEF OwnInv, SessionsTypeOK
<1>1. EntryTypes'
  BY DEF StartThread, CreatorAt, Free, Asks, server, stored, registry, EntryTypes, NoEntry
<1>2. CreatorTypes'
  BY DEF StartThread, CreatorAt, Free, Asks, server, stored, registry, CreatorTypes
<1>3. CloserTypes'
  BY DEF StartThread, CreatorAt, Free, Asks, server, stored, registry, CloserTypes
<1>4. JobTypes'
  BY DEF StartThread, CreatorAt, Free, Asks, server, stored, registry, JobTypes, NoJob
<1>5. HangupTypes'
  BY DEF StartThread, CreatorAt, Free, Asks, server, stored, registry, HangupTypes, NoHangup
<1>6. PlaceTypes'
  BY DEF StartThread, CreatorAt, Free, Asks, server, stored, registry, PlaceTypes
<1>7. Preparations'
  BY DEF StartThread, CreatorAt, Free, Asks, server, stored, registry, EntryTypes, CreatorTypes,
         CloserTypes, JobTypes, HangupTypes, PlaceTypes, NoEntry, NoJob, NoHangup, Preparations,
         Making
<1>8. Entries'
  BY DEF StartThread, CreatorAt, Free, Asks, server, stored, registry, EntryTypes, CreatorTypes,
         CloserTypes, JobTypes, HangupTypes, PlaceTypes, NoEntry, NoJob, NoHangup, Entries
<1>9. Attachment'
  BY DEF StartThread, CreatorAt, Free, Asks, server, stored, registry, EntryTypes, CreatorTypes,
         CloserTypes, JobTypes, HangupTypes, PlaceTypes, NoEntry, NoJob, NoHangup, Attachment,
         Attaching
<1>10. Jobs'
  BY DEF StartThread, CreatorAt, Free, Asks, server, stored, registry, EntryTypes, CreatorTypes,
         CloserTypes, JobTypes, HangupTypes, PlaceTypes, NoEntry, NoJob, NoHangup, Jobs
<1>11. Cleanups'
  BY DEF StartThread, CreatorAt, Free, Asks, server, stored, registry, EntryTypes, CreatorTypes,
         CloserTypes, JobTypes, HangupTypes, PlaceTypes, NoEntry, NoJob, NoHangup, Cleanups,
         Busy, Pending
<1>12. Spawning'
  BY DEF StartThread, CreatorAt, Free, Asks, server, stored, registry, EntryTypes, CreatorTypes,
         CloserTypes, JobTypes, HangupTypes, PlaceTypes, NoEntry, NoJob, NoHangup, Spawning
<1>13. Closes'
  BY DEF StartThread, CreatorAt, Free, Asks, server, stored, registry, EntryTypes, CreatorTypes,
         CloserTypes, JobTypes, HangupTypes, PlaceTypes, NoEntry, NoJob, NoHangup, Closes,
         Pending
<1>14. QED
  BY <1>1, <1>2, <1>3, <1>4, <1>5, <1>6, <1>7, <1>8, <1>9, <1>10, <1>11, <1>12, <1>13

LEMMA ReserveOwn ==
  ASSUME OwnInv, NEW c \in Creators, NEW o \in Owners, NEW t \in Threads, Reserve(c, o, t)
  PROVE  OwnInv'
<1> USE Names DEF OwnInv, SessionsTypeOK
<1>1. EntryTypes'
  BY DEF Reserve, CreatorAt, Free, Asks, server, stored, registry, EntryTypes, NoEntry
<1>2. CreatorTypes'
  BY DEF Reserve, CreatorAt, Free, Asks, server, stored, registry, CreatorTypes
<1>3. CloserTypes'
  BY DEF Reserve, CreatorAt, Free, Asks, server, stored, registry, CloserTypes
<1>4. JobTypes'
  BY DEF Reserve, CreatorAt, Free, Asks, server, stored, registry, JobTypes, NoJob
<1>5. HangupTypes'
  BY DEF Reserve, CreatorAt, Free, Asks, server, stored, registry, HangupTypes, NoHangup
<1>6. PlaceTypes'
  BY DEF Reserve, CreatorAt, Free, Asks, server, stored, registry, PlaceTypes
<1>7. Preparations'
  BY DEF Reserve, CreatorAt, Free, Asks, server, stored, registry, EntryTypes, CreatorTypes,
         CloserTypes, JobTypes, HangupTypes, PlaceTypes, NoEntry, NoJob, NoHangup, Preparations,
         Making
<1>8. Entries'
  BY DEF Reserve, CreatorAt, Free, Asks, server, stored, registry, EntryTypes, CreatorTypes,
         CloserTypes, JobTypes, HangupTypes, PlaceTypes, NoEntry, NoJob, NoHangup, Entries
<1>9. Attachment'
  BY DEF Reserve, CreatorAt, Free, Asks, server, stored, registry, EntryTypes, CreatorTypes,
         CloserTypes, JobTypes, HangupTypes, PlaceTypes, NoEntry, NoJob, NoHangup, Attachment,
         Attaching
<1>10. Jobs'
  BY DEF Reserve, CreatorAt, Free, Asks, server, stored, registry, EntryTypes, CreatorTypes,
         CloserTypes, JobTypes, HangupTypes, PlaceTypes, NoEntry, NoJob, NoHangup, Jobs
<1>11. Cleanups'
  BY DEF Reserve, CreatorAt, Free, Asks, server, stored, registry, EntryTypes, CreatorTypes,
         CloserTypes, JobTypes, HangupTypes, PlaceTypes, NoEntry, NoJob, NoHangup, Cleanups,
         Busy, Pending
<1>12. Spawning'
  BY DEF Reserve, CreatorAt, Free, Asks, server, stored, registry, EntryTypes, CreatorTypes,
         CloserTypes, JobTypes, HangupTypes, PlaceTypes, NoEntry, NoJob, NoHangup, Spawning
<1>13. Closes'
  BY DEF Reserve, CreatorAt, Free, Asks, server, stored, registry, EntryTypes, CreatorTypes,
         CloserTypes, JobTypes, HangupTypes, PlaceTypes, NoEntry, NoJob, NoHangup, Closes,
         Pending
<1>14. QED
  BY <1>1, <1>2, <1>3, <1>4, <1>5, <1>6, <1>7, <1>8, <1>9, <1>10, <1>11, <1>12, <1>13

LEMMA StoreDoneOwn ==
  ASSUME OwnInv, NEW c \in Creators, StoreDone(c)
  PROVE  OwnInv'
<1> USE Names DEF OwnInv, SessionsTypeOK
<1>1. EntryTypes'
  BY DEF StoreDone, CreatorAt, Attachable, Move, server, stored, registry, EntryTypes, NoEntry
<1>2. CreatorTypes'
  BY DEF StoreDone, CreatorAt, Attachable, Move, server, stored, registry, CreatorTypes
<1>3. CloserTypes'
  BY DEF StoreDone, CreatorAt, Attachable, Move, server, stored, registry, CloserTypes
<1>4. JobTypes'
  BY DEF StoreDone, CreatorAt, Attachable, Move, server, stored, registry, JobTypes, NoJob
<1>5. HangupTypes'
  BY DEF StoreDone, CreatorAt, Attachable, Move, server, stored, registry, HangupTypes, NoHangup
<1>6. PlaceTypes'
  BY DEF StoreDone, CreatorAt, registry, server, CreatorTypes, PlaceTypes
<1>7. Preparations'
  BY DEF StoreDone, CreatorAt, Attachable, Move, server, stored, registry, EntryTypes,
         CreatorTypes, CloserTypes, JobTypes, HangupTypes, PlaceTypes, NoEntry, NoJob, NoHangup,
         Preparations, Making
<1>8. Entries'
  BY DEF StoreDone, CreatorAt, Attachable, Move, server, stored, registry, EntryTypes,
         CreatorTypes, CloserTypes, JobTypes, HangupTypes, PlaceTypes, NoEntry, NoJob, NoHangup,
         Entries
<1>9. Attachment'
  BY DEF StoreDone, CreatorAt, Attachable, Move, server, stored, registry, EntryTypes,
         CreatorTypes, CloserTypes, JobTypes, HangupTypes, PlaceTypes, NoEntry, NoJob, NoHangup,
         Attachment, Attaching
<1>10. Jobs'
  <2>1. creator[c].thread \in Threads /\ job[creator[c].thread].pc = "none"
    BY DEF StoreDone, CreatorAt, Making, Preparations, Jobs, CreatorTypes
  <2>2. UNCHANGED <<entry, served, job, faulty>> /\ row' = creator[c].thread
    BY DEF StoreDone, registry, server
  <2>3. QED
    BY <2>1, <2>2 DEF Jobs
<1>11. Cleanups'
  BY DEF StoreDone, CreatorAt, Attachable, Move, server, stored, registry, EntryTypes,
         CreatorTypes, CloserTypes, JobTypes, HangupTypes, PlaceTypes, NoEntry, NoJob, NoHangup,
         Cleanups, Busy, Pending
<1>12. Spawning'
  BY DEF StoreDone, CreatorAt, Attachable, Move, server, stored, registry, EntryTypes,
         CreatorTypes, CloserTypes, JobTypes, HangupTypes, PlaceTypes, NoEntry, NoJob, NoHangup,
         Spawning
<1>13. Closes'
  BY DEF StoreDone, CreatorAt, Attachable, Move, server, stored, registry, EntryTypes,
         CreatorTypes, CloserTypes, JobTypes, HangupTypes, PlaceTypes, NoEntry, NoJob, NoHangup,
         Closes, Pending
<1>14. QED
  BY <1>1, <1>2, <1>3, <1>4, <1>5, <1>6, <1>7, <1>8, <1>9, <1>10, <1>11, <1>12, <1>13

LEMMA StoreRejectedOwn ==
  ASSUME OwnInv, NEW c \in Creators, StoreRejected(c)
  PROVE  OwnInv'
<1> USE Names DEF OwnInv, SessionsTypeOK
<1>1. Making(c) /\ Abandon(c, "ok")
  BY DEF StoreRejected, CreatorAt, Making
<1>2. /\ UNCHANGED <<disconnected, server, job, gone, eof, wanted, row, used, faulty>>
  BY DEF StoreRejected, stored
<1>3. row = creator[c].thread => faulty
  <2>1. \A d \in Creators : Attaching(d) => Making(d) /\ d # c
    BY DEF StoreRejected, CreatorAt, Attaching, Making
  <2>2. creator[c].thread \in Threads
    BY <1>1 DEF Making, CreatorTypes
  <2>3. QED
    BY <1>1, <2>1, <2>2 DEF Preparations, Attachment
<1>4. /\ (Preparations /\ Entries /\ Attachment /\ Jobs /\ Cleanups /\ Spawning /\ Closes)'
      /\ EntryTypes' /\ CreatorTypes' /\ CloserTypes' /\ HangupTypes'
  BY <1>1, <1>2, <1>3, AbandonOwn
<1>5. JobTypes' /\ PlaceTypes'
  BY <1>2, <1>4 DEF server, JobTypes, PlaceTypes
<1>6. QED
  BY <1>4, <1>5

LEMMA StoreFailedOwn ==
  ASSUME OwnInv, NEW c \in Creators, StoreFailed(c)
  PROVE  OwnInv'
<1> USE Names DEF OwnInv, SessionsTypeOK
<1>1. Making(c) /\ Abandon(c, "error")
  BY DEF StoreFailed, CreatorAt, Making
<1>2. /\ UNCHANGED <<disconnected, server, job, gone, eof, wanted>>
      /\ faulty' = TRUE /\ row' \in {row, creator[c].thread}
      /\ used' \in {used, used \cup {creator[c].thread}}
  BY DEF StoreFailed
<1>3. creator[c].thread \in Threads
  BY <1>1 DEF Making, CreatorTypes
<1>4. /\ (Preparations /\ Entries /\ Attachment /\ Jobs /\ Cleanups /\ Spawning /\ Closes)'
      /\ EntryTypes' /\ CreatorTypes' /\ CloserTypes' /\ HangupTypes'
  BY <1>1, <1>2, AbandonOwn
<1>5. JobTypes' /\ PlaceTypes'
  BY <1>2, <1>3, <1>4 DEF server, JobTypes, PlaceTypes
<1>6. QED
  BY <1>4, <1>5

LEMMA RecordOwn ==
  ASSUME OwnInv, NEW c \in Creators, Record(c)
  PROVE  OwnInv'
<1> USE Names DEF OwnInv, SessionsTypeOK
<1>1. EntryTypes'
  BY DEF Record, CreatorAt, Move, server, stored, registry, EntryTypes, NoEntry
<1>2. CreatorTypes'
  BY DEF Record, CreatorAt, Move, server, stored, registry, CreatorTypes
<1>3. CloserTypes'
  BY DEF Record, CreatorAt, Move, server, stored, registry, CloserTypes
<1>4. JobTypes'
  BY DEF Record, CreatorAt, Move, server, stored, registry, JobTypes, NoJob
<1>5. HangupTypes'
  BY DEF Record, CreatorAt, Move, server, stored, registry, HangupTypes, NoHangup
<1>6. PlaceTypes'
  BY DEF Record, CreatorAt, Move, server, stored, registry, PlaceTypes
<1>7. Preparations'
  BY DEF Record, CreatorAt, Move, server, stored, registry, EntryTypes, CreatorTypes,
         CloserTypes, JobTypes, HangupTypes, PlaceTypes, NoEntry, NoJob, NoHangup, Preparations,
         Making
<1>8. Entries'
  BY DEF Record, CreatorAt, Move, server, stored, registry, EntryTypes, CreatorTypes,
         CloserTypes, JobTypes, HangupTypes, PlaceTypes, NoEntry, NoJob, NoHangup, Entries
<1>9. Attachment'
  BY DEF Record, CreatorAt, Move, server, stored, registry, EntryTypes, CreatorTypes,
         CloserTypes, JobTypes, HangupTypes, PlaceTypes, NoEntry, NoJob, NoHangup, Attachment,
         Attaching
<1>10. Jobs'
  BY DEF Record, CreatorAt, Move, server, stored, registry, EntryTypes, CreatorTypes,
         CloserTypes, JobTypes, HangupTypes, PlaceTypes, NoEntry, NoJob, NoHangup, Jobs
<1>11. Cleanups'
  BY DEF Record, CreatorAt, Move, server, stored, registry, EntryTypes, CreatorTypes,
         CloserTypes, JobTypes, HangupTypes, PlaceTypes, NoEntry, NoJob, NoHangup, Cleanups,
         Busy, Pending
<1>12. Spawning'
  BY DEF Record, CreatorAt, Move, server, stored, registry, EntryTypes, CreatorTypes,
         CloserTypes, JobTypes, HangupTypes, PlaceTypes, NoEntry, NoJob, NoHangup, Spawning
<1>13. Closes'
  BY DEF Record, CreatorAt, Move, server, stored, registry, EntryTypes, CreatorTypes,
         CloserTypes, JobTypes, HangupTypes, PlaceTypes, NoEntry, NoJob, NoHangup, Closes,
         Pending
<1>14. QED
  BY <1>1, <1>2, <1>3, <1>4, <1>5, <1>6, <1>7, <1>8, <1>9, <1>10, <1>11, <1>12, <1>13

LEMMA PublishOwn ==
  ASSUME OwnInv, NEW c \in Creators, Publish(c)
  PROVE  OwnInv'
<1> USE Names DEF OwnInv, SessionsTypeOK
<1>1. EntryTypes'
  BY DEF Publish, CreatorAt, Publishable, Move, server, stored, registry, EntryTypes, NoEntry
<1>2. CreatorTypes'
  BY DEF Publish, CreatorAt, Publishable, Move, server, stored, registry, CreatorTypes
<1>3. CloserTypes'
  BY DEF Publish, CreatorAt, Publishable, Move, server, stored, registry, CloserTypes
<1>4. JobTypes'
  BY DEF Publish, CreatorAt, Publishable, Move, server, stored, registry, JobTypes, NoJob
<1>5. HangupTypes'
  BY DEF Publish, CreatorAt, Publishable, Move, server, stored, registry, HangupTypes, NoHangup
<1>6. PlaceTypes'
  BY DEF Publish, CreatorAt, stored, CreatorTypes, PlaceTypes
<1>7. Preparations'
  BY DEF Publish, CreatorAt, Publishable, Move, server, stored, registry, EntryTypes,
         CreatorTypes, CloserTypes, JobTypes, HangupTypes, PlaceTypes, NoEntry, NoJob, NoHangup,
         Preparations, Making
<1>8. Entries'
  BY DEF Publish, CreatorAt, Publishable, Move, server, stored, registry, EntryTypes,
         CreatorTypes, CloserTypes, JobTypes, HangupTypes, PlaceTypes, NoEntry, NoJob, NoHangup,
         Entries
<1>9. Attachment'
  BY DEF Publish, CreatorAt, Publishable, Move, server, stored, registry, EntryTypes,
         CreatorTypes, CloserTypes, JobTypes, HangupTypes, PlaceTypes, NoEntry, NoJob, NoHangup,
         Attachment, Attaching
<1>10. Jobs'
  BY DEF Publish, CreatorAt, Publishable, Move, server, stored, registry, EntryTypes,
         CreatorTypes, CloserTypes, JobTypes, HangupTypes, PlaceTypes, NoEntry, NoJob, NoHangup,
         Jobs
<1>11. Cleanups'
  <2> DEFINE t == creator[c].thread
  <2>1. /\ t \in Threads /\ creator[c].owner \notin disconnected
        /\ entry'[t].owner = creator[c].owner /\ entry[t].owner = creator[c].owner
        /\ served'[t] = creator[c].owner /\ UNCHANGED <<hangup, disconnected>>
    BY DEF Publish, CreatorAt, Publishable, CreatorTypes, EntryTypes, PlaceTypes
  <2>2. \A s \in Threads : s # t =>
          entry'[s] = entry[s] /\ served'[s] = served[s] /\ journal'[s] = journal[s]
    BY DEF Publish, EntryTypes, PlaceTypes
  <2>3. \A h \in Hangups : hangup[h].pc = "remove" => hangup[h].thread \in Threads
    BY DEF Cleanups, Busy, HangupTypes
  <2>4. \A h \in Hangups : Busy(h) =>
          hangup[h].owner # creator[c].owner /\ hangup[h].owner # entry'[t].owner
    BY <2>1 DEF Cleanups
  <2>5. QED
    BY <2>1, <2>2, <2>3, <2>4 DEF Cleanups, Busy
<1>12. Spawning'
  BY DEF Publish, CreatorAt, Publishable, Move, server, stored, registry, EntryTypes,
         CreatorTypes, CloserTypes, JobTypes, HangupTypes, PlaceTypes, NoEntry, NoJob, NoHangup,
         Spawning
<1>13. Closes'
  BY DEF Publish, CreatorAt, Publishable, Move, server, stored, registry, EntryTypes,
         CreatorTypes, CloserTypes, JobTypes, HangupTypes, PlaceTypes, NoEntry, NoJob, NoHangup,
         Closes, Pending
<1>14. QED
  BY <1>1, <1>2, <1>3, <1>4, <1>5, <1>6, <1>7, <1>8, <1>9, <1>10, <1>11, <1>12, <1>13

LEMMA PublishRefusedOwn ==
  ASSUME OwnInv, NEW c \in Creators, PublishRefused(c)
  PROVE  OwnInv'
<1> USE Names DEF OwnInv, SessionsTypeOK
<1>1. EntryTypes'
  BY DEF PublishRefused, CreatorAt, Move, server, stored, registry, EntryTypes, NoEntry
<1>2. CreatorTypes'
  BY DEF PublishRefused, CreatorAt, Move, server, stored, registry, CreatorTypes
<1>3. CloserTypes'
  BY DEF PublishRefused, CreatorAt, Move, server, stored, registry, CloserTypes
<1>4. JobTypes'
  BY DEF PublishRefused, CreatorAt, Move, server, stored, registry, JobTypes, NoJob
<1>5. HangupTypes'
  BY DEF PublishRefused, CreatorAt, Move, server, stored, registry, HangupTypes, NoHangup
<1>6. PlaceTypes'
  BY DEF PublishRefused, CreatorAt, Move, server, stored, registry, PlaceTypes
<1>7. Preparations'
  BY DEF PublishRefused, CreatorAt, Move, server, stored, registry, EntryTypes, CreatorTypes,
         CloserTypes, JobTypes, HangupTypes, PlaceTypes, NoEntry, NoJob, NoHangup, Preparations,
         Making
<1>8. Entries'
  BY DEF PublishRefused, CreatorAt, Move, server, stored, registry, EntryTypes, CreatorTypes,
         CloserTypes, JobTypes, HangupTypes, PlaceTypes, NoEntry, NoJob, NoHangup, Entries
<1>9. Attachment'
  BY DEF PublishRefused, CreatorAt, Move, server, stored, registry, EntryTypes, CreatorTypes,
         CloserTypes, JobTypes, HangupTypes, PlaceTypes, NoEntry, NoJob, NoHangup, Attachment,
         Attaching
<1>10. Jobs'
  BY DEF PublishRefused, CreatorAt, Move, server, stored, registry, EntryTypes, CreatorTypes,
         CloserTypes, JobTypes, HangupTypes, PlaceTypes, NoEntry, NoJob, NoHangup, Jobs
<1>11. Cleanups'
  BY DEF PublishRefused, CreatorAt, Move, server, stored, registry, EntryTypes, CreatorTypes,
         CloserTypes, JobTypes, HangupTypes, PlaceTypes, NoEntry, NoJob, NoHangup, Cleanups,
         Busy, Pending
<1>12. Spawning'
  BY DEF PublishRefused, CreatorAt, Move, server, stored, registry, EntryTypes, CreatorTypes,
         CloserTypes, JobTypes, HangupTypes, PlaceTypes, NoEntry, NoJob, NoHangup, Spawning
<1>13. Closes'
  BY DEF PublishRefused, CreatorAt, Move, server, stored, registry, EntryTypes, CreatorTypes,
         CloserTypes, JobTypes, HangupTypes, PlaceTypes, NoEntry, NoJob, NoHangup, Closes,
         Pending
<1>14. QED
  BY <1>1, <1>2, <1>3, <1>4, <1>5, <1>6, <1>7, <1>8, <1>9, <1>10, <1>11, <1>12, <1>13

LEMMA UndoOwn ==
  ASSUME OwnInv, NEW c \in Creators, Undo(c)
  PROVE  OwnInv'
<1> USE Names DEF OwnInv, SessionsTypeOK
<1>1. Making(c) /\ creator[c].thread \in Threads
  BY DEF Undo, Making, CreatorTypes
<1>2. PICK outcome \in {"ok", "error"} : Abandon(c, outcome)
  BY DEF Undo
<1>3. /\ UNCHANGED <<disconnected, server, job, gone, eof, wanted, used>>
      /\ row' = creator[c].thread => faulty'
      /\ row' # row => row' \in {creator[c].thread, "detached"}
      /\ faulty => faulty'
  BY <1>1 DEF Undo, DetachOk, DetachFails, Detached
<1>4. /\ (Preparations /\ Entries /\ Attachment /\ Jobs /\ Cleanups /\ Spawning /\ Closes)'
      /\ EntryTypes' /\ CreatorTypes' /\ CloserTypes' /\ HangupTypes'
  BY <1>1, <1>2, <1>3, AbandonOwn
<1>5. JobTypes' /\ PlaceTypes'
  BY <1>1, <1>3 DEF Undo, DetachOk, DetachFails, Detached, server, JobTypes, PlaceTypes
<1>6. QED
  BY <1>4, <1>5

LEMMA ReplyOwn ==
  ASSUME OwnInv, NEW c \in Creators, Reply(c)
  PROVE  OwnInv'
<1> USE Names DEF OwnInv, SessionsTypeOK
<1>1. EntryTypes'
  BY DEF Reply, CreatorAt, Move, server, stored, registry, EntryTypes, NoEntry
<1>2. CreatorTypes'
  BY DEF Reply, CreatorAt, Move, server, stored, registry, CreatorTypes
<1>3. CloserTypes'
  BY DEF Reply, CreatorAt, Move, server, stored, registry, CloserTypes
<1>4. JobTypes'
  BY DEF Reply, CreatorAt, Move, server, stored, registry, JobTypes, NoJob
<1>5. HangupTypes'
  BY DEF Reply, CreatorAt, Move, server, stored, registry, HangupTypes, NoHangup
<1>6. PlaceTypes'
  BY DEF Reply, CreatorAt, Move, server, stored, registry, PlaceTypes
<1>7. Preparations'
  BY DEF Reply, CreatorAt, Move, server, stored, registry, EntryTypes, CreatorTypes, CloserTypes,
         JobTypes, HangupTypes, PlaceTypes, NoEntry, NoJob, NoHangup, Preparations, Making
<1>8. Entries'
  BY DEF Reply, CreatorAt, Move, server, stored, registry, EntryTypes, CreatorTypes, CloserTypes,
         JobTypes, HangupTypes, PlaceTypes, NoEntry, NoJob, NoHangup, Entries
<1>9. Attachment'
  BY DEF Reply, CreatorAt, Move, server, stored, registry, EntryTypes, CreatorTypes, CloserTypes,
         JobTypes, HangupTypes, PlaceTypes, NoEntry, NoJob, NoHangup, Attachment, Attaching
<1>10. Jobs'
  BY DEF Reply, CreatorAt, Move, server, stored, registry, EntryTypes, CreatorTypes, CloserTypes,
         JobTypes, HangupTypes, PlaceTypes, NoEntry, NoJob, NoHangup, Jobs
<1>11. Cleanups'
  BY DEF Reply, CreatorAt, Move, server, stored, registry, EntryTypes, CreatorTypes, CloserTypes,
         JobTypes, HangupTypes, PlaceTypes, NoEntry, NoJob, NoHangup, Cleanups, Busy, Pending
<1>12. Spawning'
  BY DEF Reply, CreatorAt, Move, server, stored, registry, EntryTypes, CreatorTypes, CloserTypes,
         JobTypes, HangupTypes, PlaceTypes, NoEntry, NoJob, NoHangup, Spawning
<1>13. Closes'
  BY DEF Reply, CreatorAt, Move, server, stored, registry, EntryTypes, CreatorTypes, CloserTypes,
         JobTypes, HangupTypes, PlaceTypes, NoEntry, NoJob, NoHangup, Closes, Pending
<1>14. QED
  BY <1>1, <1>2, <1>3, <1>4, <1>5, <1>6, <1>7, <1>8, <1>9, <1>10, <1>11, <1>12, <1>13

LEMMA CloseRequestOwn ==
  ASSUME OwnInv, NEW k \in Closers, NEW o \in Owners, NEW t \in Threads, CloseRequest(k, o, t)
  PROVE  OwnInv'
<1> USE Names DEF OwnInv, SessionsTypeOK
<1>a. /\ entry'[t].owner = entry[t].owner /\ entry[t].owner = o /\ entry'[t].done = entry[t].done
      /\ entry'[t].phase = IF entry[t].phase = "preparing" THEN "doomed"
                           ELSE IF entry[t].phase = "open" THEN "closing" ELSE entry[t].phase
      /\ \A s \in Threads : s # t => entry'[s] = entry[s]
  BY MarkedFacts DEF CloseRequest, EntryTypes
<1>1. EntryTypes'
  BY DEF CloseRequest, Marked, NewJob, server, stored, registry, EntryTypes, NoEntry
<1>2. CreatorTypes'
  BY DEF CloseRequest, Marked, NewJob, server, stored, registry, CreatorTypes
<1>3. CloserTypes'
  BY DEF CloseRequest, Marked, NewJob, server, stored, registry, CloserTypes
<1>4. JobTypes'
  BY DEF CloseRequest, Marked, NewJob, server, stored, registry, JobTypes, NoJob
<1>5. HangupTypes'
  BY DEF CloseRequest, Marked, NewJob, server, stored, registry, HangupTypes, NoHangup
<1>6. PlaceTypes'
  BY DEF CloseRequest, Marked, NewJob, server, stored, registry, PlaceTypes
<1>7. Preparations'
  BY DEF CloseRequest, Marked, NewJob, server, stored, registry, EntryTypes, CreatorTypes,
         CloserTypes, JobTypes, HangupTypes, PlaceTypes, NoEntry, NoJob, NoHangup, Preparations,
         Making
<1>8. Entries'
  BY DEF CloseRequest, Marked, NewJob, server, stored, registry, EntryTypes, CreatorTypes,
         CloserTypes, JobTypes, HangupTypes, PlaceTypes, NoEntry, NoJob, NoHangup, Entries
<1>9. Attachment'
  BY DEF CloseRequest, Marked, NewJob, server, stored, registry, EntryTypes, CreatorTypes,
         CloserTypes, JobTypes, HangupTypes, PlaceTypes, NoEntry, NoJob, NoHangup, Attachment,
         Attaching
<1>10. Jobs'
  <2>1. \A s \in Threads : s # t => job'[s] = job[s]
    BY DEF CloseRequest, JobTypes
  <2>2. entry[t].phase # "open" => job' = job
    BY DEF CloseRequest
  <2>3. entry[t].phase = "open" =>
          job'[t].pc = "drain" /\ job'[t].owner = o /\ job'[t].closed = FALSE
    BY DEF CloseRequest, NewJob, NoJob, JobTypes
  <2>4. UNCHANGED <<row, faulty, served>>
    BY DEF CloseRequest, stored, server
  <2>5. ~entry[t].done \/ entry[t].phase # "open"
    BY DEF Entries
  <2>6. \A s \in Threads : s # t => (job'[s].pc # "none" =>
          /\ entry'[s].owner = job'[s].owner /\ entry'[s].phase = "closing" /\ ~entry'[s].done
          /\ job'[s].pc \in {"remove", "settle"} /\ job'[s].outcome = "ok" => job'[s].closed
          /\ job'[s].closed => job'[s].pc \in {"remove", "settle"} /\ (row' = s => faulty')
          /\ job'[s].closed /\ job'[s].pc = "settle" => served'[s] = NoOne)
    BY <1>a, <2>1, <2>4 DEF Jobs
  <2>7. CASE entry[t].phase = "open"
    BY <1>a, <2>3, <2>4, <2>5, <2>6, <2>7 DEF Jobs
  <2>8. CASE entry[t].phase # "open"
    BY <1>a, <2>2, <2>4, <2>6, <2>8 DEF Jobs
  <2>9. QED
    BY <2>7, <2>8
<1>11. Cleanups'
  BY DEF CloseRequest, Marked, NewJob, server, stored, registry, EntryTypes, CreatorTypes,
         CloserTypes, JobTypes, HangupTypes, PlaceTypes, NoEntry, NoJob, NoHangup, Cleanups,
         Busy, Pending
<1>12. Spawning'
  BY DEF CloseRequest, Marked, NewJob, server, stored, registry, EntryTypes, CreatorTypes,
         CloserTypes, JobTypes, HangupTypes, PlaceTypes, NoEntry, NoJob, NoHangup, Spawning
<1>13. Closes'
  <2>1. /\ closeCall'[k].owner = o /\ closeCall'[k].thread = t
        /\ closeCall'[k].pc = IF Pending(entry[t]) THEN "wait"
                           ELSE IF entry[t].phase = "closed" THEN "ok" ELSE "error"
        /\ \A j \in Closers : j # k => closeCall'[j] = closeCall[j]
    BY DEF CloseRequest, CloserTypes
  <2>2. Pending(entry[t]) => Pending(entry'[t])
    BY <1>a DEF Pending, Entries
  <2>3. \A s \in Threads : Pending(entry[s]) => Pending(entry'[s])
    BY <1>a, <2>2 DEF Pending
  <2>4. gone' = gone /\ \A j \in Closers : closeCall[j].pc # "idle" => closeCall[j].thread \in Threads
    BY DEF CloseRequest, CloserTypes
  <2>5. \A s \in Threads : entry'[s].owner = entry[s].owner
    BY <1>a
  <2>6. \A s \in Threads : entry[s].phase = "closed" => entry'[s].phase = "closed"
    BY <1>a
  <2>7. QED
    BY <1>a, <2>1, <2>2, <2>3, <2>4, <2>5, <2>6 DEF Closes
<1>14. QED
  BY <1>1, <1>2, <1>3, <1>4, <1>5, <1>6, <1>7, <1>8, <1>9, <1>10, <1>11, <1>12, <1>13

LEMMA JobRefusedOwn ==
  ASSUME OwnInv, NEW t \in Threads, JobRefused(t)
  PROVE  OwnInv'
<1> USE Names DEF OwnInv, SessionsTypeOK
<1>1. EntryTypes'
  BY DEF JobRefused, JobAt, server, stored, registry, EntryTypes, NoEntry
<1>2. CreatorTypes'
  BY DEF JobRefused, JobAt, server, stored, registry, CreatorTypes
<1>3. CloserTypes'
  BY DEF JobRefused, JobAt, server, stored, registry, CloserTypes
<1>4. JobTypes'
  BY DEF JobRefused, JobAt, server, stored, registry, JobTypes, NoJob
<1>5. HangupTypes'
  BY DEF JobRefused, JobAt, server, stored, registry, HangupTypes, NoHangup
<1>6. PlaceTypes'
  BY DEF JobRefused, JobAt, server, stored, registry, PlaceTypes
<1>7. Preparations'
  BY DEF JobRefused, JobAt, server, stored, registry, EntryTypes, CreatorTypes, CloserTypes,
         JobTypes, HangupTypes, PlaceTypes, NoEntry, NoJob, NoHangup, Preparations, Making
<1>8. Entries'
  BY DEF JobRefused, JobAt, server, stored, registry, EntryTypes, CreatorTypes, CloserTypes,
         JobTypes, HangupTypes, PlaceTypes, NoEntry, NoJob, NoHangup, Entries
<1>9. Attachment'
  BY DEF JobRefused, JobAt, server, stored, registry, EntryTypes, CreatorTypes, CloserTypes,
         JobTypes, HangupTypes, PlaceTypes, NoEntry, NoJob, NoHangup, Attachment, Attaching
<1>10. Jobs'
  BY DEF JobRefused, JobAt, server, stored, registry, EntryTypes, CreatorTypes, CloserTypes,
         JobTypes, HangupTypes, PlaceTypes, NoEntry, NoJob, NoHangup, Jobs
<1>11. Cleanups'
  BY DEF JobRefused, JobAt, server, stored, registry, EntryTypes, CreatorTypes, CloserTypes,
         JobTypes, HangupTypes, PlaceTypes, NoEntry, NoJob, NoHangup, Cleanups, Busy, Pending
<1>12. Spawning'
  BY DEF JobRefused, JobAt, server, stored, registry, EntryTypes, CreatorTypes, CloserTypes,
         JobTypes, HangupTypes, PlaceTypes, NoEntry, NoJob, NoHangup, Spawning
<1>13. Closes'
  BY DEF JobRefused, JobAt, server, stored, registry, EntryTypes, CreatorTypes, CloserTypes,
         JobTypes, HangupTypes, PlaceTypes, NoEntry, NoJob, NoHangup, Closes, Pending
<1>14. QED
  BY <1>1, <1>2, <1>3, <1>4, <1>5, <1>6, <1>7, <1>8, <1>9, <1>10, <1>11, <1>12, <1>13

LEMMA JobDrainOwn ==
  ASSUME OwnInv, NEW t \in Threads, JobDrain(t)
  PROVE  OwnInv'
<1> USE Names DEF OwnInv, SessionsTypeOK
<1>1. EntryTypes'
  BY DEF JobDrain, JobAt, server, stored, registry, EntryTypes, NoEntry
<1>2. CreatorTypes'
  BY DEF JobDrain, JobAt, server, stored, registry, CreatorTypes
<1>3. CloserTypes'
  BY DEF JobDrain, JobAt, server, stored, registry, CloserTypes
<1>4. JobTypes'
  <2>1. PICK r \in {"ok", "error"} : job' = [job EXCEPT ![t].pc = "detach", ![t].outcome = r]
    BY DEF JobDrain
  <2> DEFINE Records == [pc : {"none", "drain", "detach", "remove", "settle"},
                         owner : Owners \cup {NoOne}, closed : BOOLEAN,
                         outcome : {"ok", "error", "storage"}]
  <2>2. job \in [Threads -> Records] /\ job[t] \in Records /\ job[t].pc # "none"
    BY DEF JobTypes, JobDrain, JobAt
  <2>3. job[t].owner \in Owners BY <2>2 DEF JobTypes
  <2>4. [job[t] EXCEPT !.pc = "detach", !.outcome = r] \in Records BY <2>2
  <2>5. job' = [job EXCEPT ![t] = [job[t] EXCEPT !.pc = "detach", !.outcome = r]] BY <2>1, <2>2
  <2>6. /\ job' \in [Threads -> Records]
        /\ job'[t].pc = "detach" /\ job'[t].owner = job[t].owner
        /\ \A u \in Threads : u # t => job'[u] = job[u]
    <3> HIDE DEF Records
    <3>1. job' \in [Threads -> Records] /\ (\A u \in Threads : u # t => job'[u] = job[u])
          /\ job'[t] = [job[t] EXCEPT !.pc = "detach", !.outcome = r]
      BY <2>2, <2>4, <2>5
    <3> USE DEF Records
    <3>2. QED BY <3>1, <2>2
  <2>7. QED
    BY <2>2, <2>3, <2>6 DEF JobTypes
<1>5. HangupTypes'
  BY DEF JobDrain, JobAt, server, stored, registry, HangupTypes, NoHangup
<1>6. PlaceTypes'
  BY DEF JobDrain, JobAt, server, stored, registry, PlaceTypes
<1>7. Preparations'
  BY DEF JobDrain, JobAt, server, stored, registry, EntryTypes, CreatorTypes, CloserTypes,
         JobTypes, HangupTypes, PlaceTypes, NoEntry, NoJob, NoHangup, Preparations, Making
<1>8. Entries'
  BY DEF JobDrain, JobAt, server, stored, registry, EntryTypes, CreatorTypes, CloserTypes,
         JobTypes, HangupTypes, PlaceTypes, NoEntry, NoJob, NoHangup, Entries
<1>9. Attachment'
  BY DEF JobDrain, JobAt, server, stored, registry, EntryTypes, CreatorTypes, CloserTypes,
         JobTypes, HangupTypes, PlaceTypes, NoEntry, NoJob, NoHangup, Attachment, Attaching
<1>10. Jobs'
  BY DEF JobDrain, JobAt, server, stored, registry, EntryTypes, CreatorTypes, CloserTypes,
         JobTypes, HangupTypes, PlaceTypes, NoEntry, NoJob, NoHangup, Jobs
<1>11. Cleanups'
  BY DEF JobDrain, JobAt, server, stored, registry, EntryTypes, CreatorTypes, CloserTypes,
         JobTypes, HangupTypes, PlaceTypes, NoEntry, NoJob, NoHangup, Cleanups, Busy, Pending
<1>12. Spawning'
  BY DEF JobDrain, JobAt, server, stored, registry, EntryTypes, CreatorTypes, CloserTypes,
         JobTypes, HangupTypes, PlaceTypes, NoEntry, NoJob, NoHangup, Spawning
<1>13. Closes'
  BY DEF JobDrain, JobAt, server, stored, registry, EntryTypes, CreatorTypes, CloserTypes,
         JobTypes, HangupTypes, PlaceTypes, NoEntry, NoJob, NoHangup, Closes, Pending
<1>14. QED
  BY <1>1, <1>2, <1>3, <1>4, <1>5, <1>6, <1>7, <1>8, <1>9, <1>10, <1>11, <1>12, <1>13

LEMMA JobDetachOwn ==
  ASSUME OwnInv, NEW t \in Threads, JobDetach(t)
  PROVE  OwnInv'
<1> USE Names DEF OwnInv, SessionsTypeOK
<1>a. /\ job'[t].owner = job[t].owner /\ job'[t].pc = "remove" /\ job[t].pc = "detach"
      /\ \A s \in Threads : s # t => job'[s] = job[s]
      /\ faulty => faulty'
      /\ row' = row \/ row' = "detached"
      /\ \/ job'[t].closed /\ (journal[t] /\ row = t => row' = "detached")
         \/ job'[t].closed = job[t].closed /\ job'[t].outcome # "ok"
  BY DEF JobDetach, JobAt, JobTypes, DetachOk, DetachFails, Detached, stored
<1>b. UNCHANGED <<entry, served, journal, creator, hangup>>
  BY DEF JobDetach, registry, server
<1>1. EntryTypes'
  BY DEF JobDetach, JobAt, DetachOk, DetachFails, Detached, server, stored, registry, EntryTypes,
         NoEntry
<1>2. CreatorTypes'
  BY DEF JobDetach, JobAt, DetachOk, DetachFails, Detached, server, stored, registry,
         CreatorTypes
<1>3. CloserTypes'
  BY DEF JobDetach, JobAt, DetachOk, DetachFails, Detached, server, stored, registry, CloserTypes
<1>4. JobTypes'
  BY DEF JobDetach, JobAt, DetachOk, DetachFails, Detached, server, stored, registry, JobTypes,
         NoJob
<1>5. HangupTypes'
  BY DEF JobDetach, JobAt, DetachOk, DetachFails, Detached, server, stored, registry,
         HangupTypes, NoHangup
<1>6. PlaceTypes'
  BY DEF JobDetach, JobAt, DetachOk, DetachFails, Detached, server, stored, registry, PlaceTypes
<1>7. Preparations'
  BY DEF JobDetach, JobAt, DetachOk, DetachFails, Detached, server, stored, registry, EntryTypes,
         CreatorTypes, CloserTypes, JobTypes, HangupTypes, PlaceTypes, NoEntry, NoJob, NoHangup,
         Preparations, Making
<1>8. Entries'
  BY DEF JobDetach, JobAt, DetachOk, DetachFails, Detached, server, stored, registry, EntryTypes,
         CreatorTypes, CloserTypes, JobTypes, HangupTypes, PlaceTypes, NoEntry, NoJob, NoHangup,
         Entries
<1>9. Attachment'
  BY DEF JobDetach, JobAt, DetachOk, DetachFails, Detached, server, stored, registry, EntryTypes,
         CreatorTypes, CloserTypes, JobTypes, HangupTypes, PlaceTypes, NoEntry, NoJob, NoHangup,
         Attachment, Attaching
<1>10. Jobs'
  <2>1. /\ entry[t].owner = job[t].owner /\ entry[t].phase = "closing" /\ ~entry[t].done
        /\ ~job[t].closed
    BY <1>a DEF Jobs
  <2>2. row = t => faulty \/ journal[t]
    <3>1. \A d \in Creators : Attaching(d) => creator[d].thread # t
      BY <2>1 DEF Attaching, Making, Preparations
    <3>2. QED
      BY <3>1 DEF Attachment
  <2>3. job'[t].closed => (row' = t => faulty')
    BY <1>a, <2>1, <2>2
  <2>4. \A s \in Threads : (row = s => faulty) => (row' = s => faulty')
    BY <1>a
  <2>5. \A s \in Threads : s # t => (job'[s].pc # "none" =>
          /\ entry'[s].owner = job'[s].owner /\ entry'[s].phase = "closing" /\ ~entry'[s].done
          /\ job'[s].pc \in {"remove", "settle"} /\ job'[s].outcome = "ok" => job'[s].closed
          /\ job'[s].closed => job'[s].pc \in {"remove", "settle"} /\ (row' = s => faulty')
          /\ job'[s].closed /\ job'[s].pc = "settle" => served'[s] = NoOne)
    BY <1>a, <1>b, <2>4 DEF Jobs
  <2>6. QED
    BY <1>a, <1>b, <2>1, <2>3, <2>5 DEF Jobs
<1>11. Cleanups'
  BY DEF JobDetach, JobAt, DetachOk, DetachFails, Detached, server, stored, registry, EntryTypes,
         CreatorTypes, CloserTypes, JobTypes, HangupTypes, PlaceTypes, NoEntry, NoJob, NoHangup,
         Cleanups, Busy, Pending
<1>12. Spawning'
  BY <1>a, <1>b DEF Spawning, HangupTypes
<1>13. Closes'
  BY DEF JobDetach, JobAt, DetachOk, DetachFails, Detached, server, stored, registry, EntryTypes,
         CreatorTypes, CloserTypes, JobTypes, HangupTypes, PlaceTypes, NoEntry, NoJob, NoHangup,
         Closes, Pending
<1>14. QED
  BY <1>1, <1>2, <1>3, <1>4, <1>5, <1>6, <1>7, <1>8, <1>9, <1>10, <1>11, <1>12, <1>13

LEMMA JobRemoveOwn ==
  ASSUME OwnInv, NEW t \in Threads, JobRemove(t)
  PROVE  OwnInv'
<1> USE Names DEF OwnInv, SessionsTypeOK
<1>1. EntryTypes'
  BY DEF JobRemove, JobAt, server, stored, registry, EntryTypes, NoEntry
<1>2. CreatorTypes'
  BY DEF JobRemove, JobAt, server, stored, registry, CreatorTypes
<1>3. CloserTypes'
  BY DEF JobRemove, JobAt, server, stored, registry, CloserTypes
<1>4. JobTypes'
  BY DEF JobRemove, JobAt, server, stored, registry, JobTypes, NoJob
<1>5. HangupTypes'
  BY DEF JobRemove, JobAt, server, stored, registry, HangupTypes, NoHangup
<1>6. PlaceTypes'
  BY DEF JobRemove, JobAt, server, stored, registry, PlaceTypes
<1>7. Preparations'
  BY DEF JobRemove, JobAt, server, stored, registry, EntryTypes, CreatorTypes, CloserTypes,
         JobTypes, HangupTypes, PlaceTypes, NoEntry, NoJob, NoHangup, Preparations, Making
<1>8. Entries'
  BY DEF JobRemove, JobAt, server, stored, registry, EntryTypes, CreatorTypes, CloserTypes,
         JobTypes, HangupTypes, PlaceTypes, NoEntry, NoJob, NoHangup, Entries
<1>9. Attachment'
  <2>1. row = t /\ job[t].closed => faulty
    BY DEF JobRemove, JobAt, Jobs
  <2>2. \A s \in Threads : journal[s] => journal'[s] \/ (s = t /\ job[t].closed)
    BY DEF JobRemove, PlaceTypes
  <2>3. UNCHANGED <<entry, row, faulty, creator>>
    BY DEF JobRemove, registry, stored
  <2>4. QED
    BY <2>1, <2>2, <2>3 DEF Attachment, Attaching
<1>10. Jobs'
  BY DEF JobRemove, JobAt, server, stored, registry, EntryTypes, CreatorTypes, CloserTypes,
         JobTypes, HangupTypes, PlaceTypes, NoEntry, NoJob, NoHangup, Jobs
<1>11. Cleanups'
  BY DEF JobRemove, JobAt, server, stored, registry, EntryTypes, CreatorTypes, CloserTypes,
         JobTypes, HangupTypes, PlaceTypes, NoEntry, NoJob, NoHangup, Cleanups, Busy, Pending
<1>12. Spawning'
  BY DEF JobRemove, JobAt, server, stored, registry, EntryTypes, CreatorTypes, CloserTypes,
         JobTypes, HangupTypes, PlaceTypes, NoEntry, NoJob, NoHangup, Spawning
<1>13. Closes'
  BY DEF JobRemove, JobAt, server, stored, registry, EntryTypes, CreatorTypes, CloserTypes,
         JobTypes, HangupTypes, PlaceTypes, NoEntry, NoJob, NoHangup, Closes, Pending
<1>14. QED
  BY <1>1, <1>2, <1>3, <1>4, <1>5, <1>6, <1>7, <1>8, <1>9, <1>10, <1>11, <1>12, <1>13

LEMMA JobSettleOwn ==
  ASSUME OwnInv, NEW t \in Threads, JobSettle(t)
  PROVE  OwnInv'
<1> USE Names DEF OwnInv, SessionsTypeOK
<1>a. /\ entry[t].owner = job[t].owner /\ entry[t].phase = "closing" /\ ~entry[t].done
      /\ job[t].owner \in Owners /\ job[t].pc = "settle"
      /\ job[t].closed => served[t] = NoOne /\ (row = t => faulty)
      /\ job[t].outcome = "ok" => job[t].closed
  BY DEF JobSettle, JobAt, Jobs, JobTypes
<1>b. /\ entry'[t].owner = entry[t].owner /\ entry'[t].done = TRUE
      /\ entry'[t].phase = IF job[t].closed THEN "closed" ELSE "closing"
      /\ \A s \in Threads : s # t => entry'[s] = entry[s]
      /\ \A s \in Threads : entry'[s].owner = entry[s].owner
      /\ EntryTypes'
  BY <1>a DEF JobSettle, Tombstone, EntryTypes
<1>c. PICK outcome \in {"ok", "error"} : Heard(t, outcome) /\ (outcome = "ok" => job[t].closed)
  BY <1>a DEF JobSettle
<1>d. /\ CloserTypes' /\ HangupTypes'
      /\ \A k \in Closers :
           /\ closeCall'[k].owner = closeCall[k].owner /\ closeCall'[k].thread = closeCall[k].thread
           /\ closeCall'[k].pc = IF closeCall[k].pc = "wait" /\ closeCall[k].thread = t THEN outcome
                              ELSE closeCall[k].pc
      /\ \A h \in Hangups :
           /\ hangup'[h].pc = hangup[h].pc /\ hangup'[h].owner = hangup[h].owner
           /\ hangup'[h].threads = hangup[h].threads /\ hangup'[h].first = hangup[h].first
           /\ hangup'[h].thread = hangup[h].thread /\ hangup'[h].wait = hangup[h].wait \ {t}
  BY <1>c, HeardFacts
<1>e. UNCHANGED <<disconnected, served, journal, evicted, row, used, faulty, creator, eof, gone>>
  BY DEF JobSettle, server, stored
<1>f. job'[t].pc = "none" /\ \A s \in Threads : s # t => job'[s] = job[s]
  BY DEF JobSettle, JobTypes, NoJob
<1>g. \A c \in Creators : Making(c) => creator[c].thread \in Threads \ {t}
  BY <1>a DEF Making, CreatorTypes, Preparations
<1>h. \A s \in Threads : Pending(entry'[s]) => Pending(entry[s]) /\ s # t
  BY <1>b DEF Pending
<1>i. \A s \in Threads : s # t => Pending(entry'[s]) = Pending(entry[s])
  BY <1>b DEF Pending
<1>1. EntryTypes'
  BY <1>b
<1>2. CreatorTypes'
  BY DEF JobSettle, JobAt, Tombstone, Heard, server, stored, registry, CreatorTypes
<1>3. CloserTypes'
  BY <1>d
<1>4. JobTypes'
  BY DEF JobSettle, JobAt, Tombstone, Heard, server, stored, registry, JobTypes, NoJob
<1>5. HangupTypes'
  BY <1>d
<1>6. PlaceTypes'
  BY <1>a, <1>e DEF JobSettle, PlaceTypes
<1>7. Preparations'
  BY <1>b, <1>e, <1>g DEF Preparations, Making
<1>8. Entries'
  BY <1>a, <1>b, <1>e DEF Entries
<1>9. Attachment'
  <2>1. \A s \in Threads : s # t \/ ~job[t].closed =>
          (entry[s].phase \in {"open", "closing"} => entry'[s].phase \in {"open", "closing"})
    BY <1>b
  <2>2. QED
    BY <1>a, <1>e, <2>1 DEF Attachment, Attaching
<1>10. Jobs'
  BY <1>b, <1>e, <1>f DEF Jobs
<1>11. Cleanups'
  <2>1. \A h \in Hangups : hangup[h].pc = "remove" => hangup[h].thread \in Threads
    BY DEF Cleanups, Busy, HangupTypes
  <2>2. QED
    BY <1>b, <1>d, <1>e, <1>h, <2>1 DEF Cleanups, Busy
<1>12. Spawning'
  <2>1. \A h \in Hangups : hangup[h].pc = "spawn" => t \notin hangup[h].first
    BY <1>a DEF Spawning
  <2>2. QED
    BY <1>b, <1>d, <1>f, <2>1 DEF Spawning, HangupTypes
<1>13. Closes'
  <2>1. \A k \in Closers : closeCall[k].pc # "idle" => closeCall[k].thread \in Threads
    BY DEF CloserTypes
  <2>2. QED
    BY <1>a, <1>b, <1>c, <1>d, <1>e, <1>i, <2>1 DEF Closes
<1>14. QED
  BY <1>1, <1>2, <1>3, <1>4, <1>5, <1>6, <1>7, <1>8, <1>9, <1>10, <1>11, <1>12, <1>13

LEMMA EndOfInputOwn ==
  ASSUME OwnInv, NEW o \in Owners, EndOfInput(o)
  PROVE  OwnInv'
<1> USE Names DEF OwnInv, SessionsTypeOK
<1>1. EntryTypes'
  BY DEF EndOfInput, server, stored, registry, EntryTypes, NoEntry
<1>2. CreatorTypes'
  BY DEF EndOfInput, server, stored, registry, CreatorTypes
<1>3. CloserTypes'
  BY DEF EndOfInput, server, stored, registry, CloserTypes
<1>4. JobTypes'
  BY DEF EndOfInput, server, stored, registry, JobTypes, NoJob
<1>5. HangupTypes'
  BY DEF EndOfInput, server, stored, registry, HangupTypes, NoHangup
<1>6. PlaceTypes'
  BY DEF EndOfInput, server, stored, registry, PlaceTypes
<1>7. Preparations'
  BY DEF EndOfInput, server, stored, registry, EntryTypes, CreatorTypes, CloserTypes, JobTypes,
         HangupTypes, PlaceTypes, NoEntry, NoJob, NoHangup, Preparations, Making
<1>8. Entries'
  BY DEF EndOfInput, server, stored, registry, EntryTypes, CreatorTypes, CloserTypes, JobTypes,
         HangupTypes, PlaceTypes, NoEntry, NoJob, NoHangup, Entries
<1>9. Attachment'
  BY DEF EndOfInput, server, stored, registry, EntryTypes, CreatorTypes, CloserTypes, JobTypes,
         HangupTypes, PlaceTypes, NoEntry, NoJob, NoHangup, Attachment, Attaching
<1>10. Jobs'
  BY DEF EndOfInput, server, stored, registry, EntryTypes, CreatorTypes, CloserTypes, JobTypes,
         HangupTypes, PlaceTypes, NoEntry, NoJob, NoHangup, Jobs
<1>11. Cleanups'
  BY DEF EndOfInput, server, stored, registry, EntryTypes, CreatorTypes, CloserTypes, JobTypes,
         HangupTypes, PlaceTypes, NoEntry, NoJob, NoHangup, Cleanups, Busy, Pending
<1>12. Spawning'
  BY DEF EndOfInput, server, stored, registry, EntryTypes, CreatorTypes, CloserTypes, JobTypes,
         HangupTypes, PlaceTypes, NoEntry, NoJob, NoHangup, Spawning
<1>13. Closes'
  BY DEF EndOfInput, server, stored, registry, EntryTypes, CreatorTypes, CloserTypes, JobTypes,
         HangupTypes, PlaceTypes, NoEntry, NoJob, NoHangup, Closes, Pending
<1>14. QED
  BY <1>1, <1>2, <1>3, <1>4, <1>5, <1>6, <1>7, <1>8, <1>9, <1>10, <1>11, <1>12, <1>13

LEMMA HangupBeginOwn ==
  ASSUME OwnInv, NEW h \in Hangups, NEW o \in Owners, HangupBegin(h, o)
  PROVE  OwnInv'
<1> USE Names DEF OwnInv, SessionsTypeOK
<1>a. /\ \A s \in Threads :
           /\ entry'[s].owner = entry[s].owner /\ entry'[s].done = entry[s].done
           /\ entry[s].owner # o => entry'[s] = entry[s]
           /\ entry[s].owner = o => entry'[s].phase =
                IF entry[s].phase = "preparing" THEN "doomed"
                ELSE IF entry[s].phase = "open" THEN "closing" ELSE entry[s].phase
  BY MarkedFacts DEF HangupBegin, Owned
<1>b. /\ hangup[h].pc = "idle"
      /\ hangup'[h].pc = "spawn" /\ hangup'[h].owner = o
      /\ hangup'[h].threads = {t \in Threads : entry[t].owner = o}
      /\ hangup'[h].first = {t \in Threads : entry[t].owner = o /\ entry[t].phase = "open"}
      /\ hangup'[h].wait = {t \in Threads : entry[t].owner = o /\ Pending(entry[t])}
      /\ \A g \in Hangups : g # h => hangup'[g] = hangup[g]
  BY DEF HangupBegin, HangupAt, Owned, HangupTypes
<1>c. /\ disconnected' = disconnected \cup {o}
      /\ UNCHANGED <<served, journal, row, faulty, job, closeCall, gone>>
  BY DEF HangupBegin, server, stored
<1>d. \A s \in Threads : Pending(entry'[s]) = Pending(entry[s])
  BY <1>a DEF Pending, Entries
<1>1. EntryTypes'
  BY DEF HangupBegin, HangupAt, Owned, Marked, server, stored, registry, EntryTypes, NoEntry
<1>2. CreatorTypes'
  BY DEF HangupBegin, HangupAt, Owned, Marked, server, stored, registry, CreatorTypes
<1>3. CloserTypes'
  BY DEF HangupBegin, HangupAt, Owned, Marked, server, stored, registry, CloserTypes
<1>4. JobTypes'
  BY DEF HangupBegin, HangupAt, Owned, Marked, server, stored, registry, JobTypes, NoJob
<1>5. HangupTypes'
  BY DEF HangupBegin, HangupAt, Owned, Marked, server, stored, registry, HangupTypes, NoHangup
<1>6. PlaceTypes'
  BY DEF HangupBegin, HangupAt, Owned, Marked, server, stored, registry, PlaceTypes
<1>7. Preparations'
  BY DEF HangupBegin, HangupAt, Owned, Marked, server, stored, registry, EntryTypes,
         CreatorTypes, CloserTypes, JobTypes, HangupTypes, PlaceTypes, NoEntry, NoJob, NoHangup,
         Preparations, Making
<1>8. Entries'
  BY DEF HangupBegin, HangupAt, Owned, Marked, server, stored, registry, EntryTypes,
         CreatorTypes, CloserTypes, JobTypes, HangupTypes, PlaceTypes, NoEntry, NoJob, NoHangup,
         Entries
<1>9. Attachment'
  BY DEF HangupBegin, HangupAt, Owned, Marked, server, stored, registry, EntryTypes,
         CreatorTypes, CloserTypes, JobTypes, HangupTypes, PlaceTypes, NoEntry, NoJob, NoHangup,
         Attachment, Attaching
<1>10. Jobs'
  BY DEF HangupBegin, HangupAt, Owned, Marked, server, stored, registry, EntryTypes,
         CreatorTypes, CloserTypes, JobTypes, HangupTypes, PlaceTypes, NoEntry, NoJob, NoHangup,
         Jobs
<1>11. Cleanups'
  <2>1. \A g \in Hangups : hangup[g].pc = "remove" => hangup[g].thread \in Threads
    BY DEF Cleanups, Busy, HangupTypes
  <2>2. \A t \in Threads : served[t] = o => entry[t].owner = o
    BY DEF Entries
  <2>3. \A g \in Hangups : g # h => (Busy(g)' => Busy(g))
    BY <1>b DEF Busy
  <2>4. QED
    BY <1>a, <1>b, <1>c, <1>d, <2>1, <2>2, <2>3 DEF Cleanups, Busy
<1>12. Spawning'
  <2>1. \A t \in Threads : entry[t].phase = "open" => ~entry[t].done /\ job[t].pc = "none"
    BY DEF Entries, Jobs
  <2>2. \A g \in Hangups : g # h /\ hangup[g].pc = "spawn" =>
                           hangup[g].first \cap hangup'[h].first = {}
    BY <1>b DEF Spawning
  <2>3. \A g \in Hangups : hangup[g].first \subseteq Threads
    BY DEF HangupTypes
  <2>4. QED
    BY <1>a, <1>b, <1>c, <2>1, <2>2, <2>3 DEF Spawning
<1>13. Closes'
  <2>1. \A k \in Closers : closeCall[k].pc # "idle" => closeCall[k].thread \in Threads
    BY DEF CloserTypes
  <2>2. QED
    BY <1>a, <1>c, <1>d, <2>1 DEF Closes
<1>14. QED
  BY <1>1, <1>2, <1>3, <1>4, <1>5, <1>6, <1>7, <1>8, <1>9, <1>10, <1>11, <1>12, <1>13

LEMMA HangupSpawnOwn ==
  ASSUME OwnInv, NEW h \in Hangups, HangupSpawn(h)
  PROVE  OwnInv'
<1> USE Names DEF OwnInv, SessionsTypeOK
<1>a. /\ hangup[h].pc = "spawn" /\ hangup[h].first \subseteq Threads /\ hangup[h].owner \in Owners
      /\ \A t \in Threads \ hangup[h].first : job'[t] = job[t]
      /\ \A t \in hangup[h].first : job'[t] = [pc |-> "drain", owner |-> hangup[h].owner,
                                              closed |-> FALSE, outcome |-> "ok"]
  BY DEF HangupSpawn, HangupAt, NewJob, NoJob, HangupTypes
<1>1. EntryTypes'
  BY DEF HangupSpawn, HangupAt, NewJob, server, stored, registry, EntryTypes, NoEntry
<1>2. CreatorTypes'
  BY DEF HangupSpawn, HangupAt, NewJob, server, stored, registry, CreatorTypes
<1>3. CloserTypes'
  BY DEF HangupSpawn, HangupAt, NewJob, server, stored, registry, CloserTypes
<1>4. JobTypes'
  <2>1. \A t \in Threads : job'[t] \in
          [pc : {"none", "drain", "detach", "remove", "settle"}, owner : Owners \cup {NoOne},
           closed : BOOLEAN, outcome : {"ok", "error", "storage"}]
    <3>1. [pc |-> "drain", owner |-> hangup[h].owner, closed |-> FALSE, outcome |-> "ok"] \in
            [pc : {"none", "drain", "detach", "remove", "settle"}, owner : Owners \cup {NoOne},
             closed : BOOLEAN, outcome : {"ok", "error", "storage"}]
      BY <1>a
    <3>2. \A t \in Threads : job[t] \in
            [pc : {"none", "drain", "detach", "remove", "settle"}, owner : Owners \cup {NoOne},
             closed : BOOLEAN, outcome : {"ok", "error", "storage"}]
      BY DEF JobTypes
    <3>3. QED
      BY <1>a, <3>1, <3>2
  <2>2. \A t \in Threads : job'[t].pc # "none" <=> job'[t].owner \in Owners
    BY <1>a DEF JobTypes
  <2>3. job' = [t \in Threads |-> job'[t]]
    BY DEF HangupSpawn
  <2>4. QED
    BY <2>1, <2>2, <2>3 DEF JobTypes
<1>5. HangupTypes'
  BY DEF HangupSpawn, HangupAt, NewJob, server, stored, registry, HangupTypes, NoHangup
<1>6. PlaceTypes'
  BY DEF HangupSpawn, HangupAt, NewJob, server, stored, registry, PlaceTypes
<1>7. Preparations'
  BY DEF HangupSpawn, HangupAt, NewJob, server, stored, registry, EntryTypes, CreatorTypes,
         CloserTypes, JobTypes, HangupTypes, PlaceTypes, NoEntry, NoJob, NoHangup, Preparations,
         Making
<1>8. Entries'
  BY DEF HangupSpawn, HangupAt, NewJob, server, stored, registry, EntryTypes, CreatorTypes,
         CloserTypes, JobTypes, HangupTypes, PlaceTypes, NoEntry, NoJob, NoHangup, Entries
<1>9. Attachment'
  BY DEF HangupSpawn, HangupAt, NewJob, server, stored, registry, EntryTypes, CreatorTypes,
         CloserTypes, JobTypes, HangupTypes, PlaceTypes, NoEntry, NoJob, NoHangup, Attachment,
         Attaching
<1>10. Jobs'
  <2>1. UNCHANGED <<entry, served, row, faulty>>
    BY DEF HangupSpawn, registry, server, stored
  <2>2. QED
    BY <1>a, <2>1 DEF Jobs, Spawning
<1>11. Cleanups'
  BY DEF HangupSpawn, HangupAt, NewJob, server, stored, registry, EntryTypes, CreatorTypes,
         CloserTypes, JobTypes, HangupTypes, PlaceTypes, NoEntry, NoJob, NoHangup, Cleanups,
         Busy, Pending
<1>12. Spawning'
  BY DEF HangupSpawn, HangupAt, NewJob, server, stored, registry, EntryTypes, CreatorTypes,
         CloserTypes, JobTypes, HangupTypes, PlaceTypes, NoEntry, NoJob, NoHangup, Spawning
<1>13. Closes'
  BY DEF HangupSpawn, HangupAt, NewJob, server, stored, registry, EntryTypes, CreatorTypes,
         CloserTypes, JobTypes, HangupTypes, PlaceTypes, NoEntry, NoJob, NoHangup, Closes,
         Pending
<1>14. QED
  BY <1>1, <1>2, <1>3, <1>4, <1>5, <1>6, <1>7, <1>8, <1>9, <1>10, <1>11, <1>12, <1>13

LEMMA HangupDetachOwn ==
  ASSUME OwnInv, NEW h \in Hangups, HangupDetach(h)
  PROVE  OwnInv'
<1> USE Names DEF OwnInv, SessionsTypeOK
<1>1. EntryTypes'
  BY DEF HangupDetach, HangupAt, DetachOk, DetachFails, Detached, server, stored, registry,
         EntryTypes, NoEntry
<1>2. CreatorTypes'
  BY DEF HangupDetach, HangupAt, DetachOk, DetachFails, Detached, server, stored, registry,
         CreatorTypes
<1>3. CloserTypes'
  BY DEF HangupDetach, HangupAt, DetachOk, DetachFails, Detached, server, stored, registry,
         CloserTypes
<1>4. JobTypes'
  BY DEF HangupDetach, HangupAt, DetachOk, DetachFails, Detached, server, stored, registry,
         JobTypes, NoJob
<1>5. HangupTypes'
  <2>1. PICK t \in hangup[h].threads :
          hangup' = [hangup EXCEPT ![h].pc = "remove", ![h].thread = t]
    BY DEF HangupDetach
  <2>2. hangup[h] \in
          [pc : {"idle", "spawn", "wait", "remove"}, owner : Owners \cup {NoOne},
           threads : SUBSET Threads, first : SUBSET Threads, wait : SUBSET Threads,
           thread : Threads \cup {NoOne}]
    BY DEF HangupTypes
  <2>3. t \in Threads
    BY <2>2
  <2>4. QED
    BY <2>1, <2>2, <2>3 DEF HangupDetach, HangupAt, HangupTypes
<1>6. PlaceTypes'
  BY DEF HangupDetach, HangupAt, DetachOk, DetachFails, Detached, server, stored, registry,
         PlaceTypes
<1>7. Preparations'
  BY DEF HangupDetach, HangupAt, DetachOk, DetachFails, Detached, server, stored, registry,
         EntryTypes, CreatorTypes, CloserTypes, JobTypes, HangupTypes, PlaceTypes, NoEntry,
         NoJob, NoHangup, Preparations, Making
<1>8. Entries'
  BY DEF HangupDetach, HangupAt, DetachOk, DetachFails, Detached, server, stored, registry,
         EntryTypes, CreatorTypes, CloserTypes, JobTypes, HangupTypes, PlaceTypes, NoEntry,
         NoJob, NoHangup, Entries
<1>9. Attachment'
  BY DEF HangupDetach, HangupAt, DetachOk, DetachFails, Detached, server, stored, registry,
         EntryTypes, CreatorTypes, CloserTypes, JobTypes, HangupTypes, PlaceTypes, NoEntry,
         NoJob, NoHangup, Attachment, Attaching
<1>10. Jobs'
  BY DEF HangupDetach, HangupAt, DetachOk, DetachFails, Detached, server, stored, registry,
         EntryTypes, CreatorTypes, CloserTypes, JobTypes, HangupTypes, PlaceTypes, NoEntry,
         NoJob, NoHangup, Jobs
<1>11. Cleanups'
  BY DEF HangupDetach, HangupAt, DetachOk, DetachFails, Detached, server, stored, registry,
         EntryTypes, CreatorTypes, CloserTypes, JobTypes, HangupTypes, PlaceTypes, NoEntry,
         NoJob, NoHangup, Cleanups, Busy, Pending
<1>12. Spawning'
  BY DEF HangupDetach, HangupAt, DetachOk, DetachFails, Detached, server, stored, registry,
         EntryTypes, CreatorTypes, CloserTypes, JobTypes, HangupTypes, PlaceTypes, NoEntry,
         NoJob, NoHangup, Spawning
<1>13. Closes'
  BY DEF HangupDetach, HangupAt, DetachOk, DetachFails, Detached, server, stored, registry,
         EntryTypes, CreatorTypes, CloserTypes, JobTypes, HangupTypes, PlaceTypes, NoEntry,
         NoJob, NoHangup, Closes, Pending
<1>14. QED
  BY <1>1, <1>2, <1>3, <1>4, <1>5, <1>6, <1>7, <1>8, <1>9, <1>10, <1>11, <1>12, <1>13

LEMMA HangupRemoveOwn ==
  ASSUME OwnInv, NEW h \in Hangups, HangupRemove(h)
  PROVE  OwnInv'
<1> USE Names DEF OwnInv, SessionsTypeOK
<1>1. EntryTypes'
  BY DEF HangupRemove, HangupAt, server, stored, registry, EntryTypes, NoEntry
<1>2. CreatorTypes'
  BY DEF HangupRemove, HangupAt, server, stored, registry, CreatorTypes
<1>3. CloserTypes'
  BY DEF HangupRemove, HangupAt, server, stored, registry, CloserTypes
<1>4. JobTypes'
  BY DEF HangupRemove, HangupAt, server, stored, registry, JobTypes, NoJob
<1>5. HangupTypes'
  <2>1. hangup[h] \in
          [pc : {"idle", "spawn", "wait", "remove"}, owner : Owners \cup {NoOne},
           threads : SUBSET Threads, first : SUBSET Threads, wait : SUBSET Threads,
           thread : Threads \cup {NoOne}]
    BY DEF HangupTypes
  <2>2. hangup[h].threads \ {hangup[h].thread} \in SUBSET Threads
    BY <2>1
  <2>3. [hangup[h] EXCEPT !.pc = "wait", !.thread = NoOne,
                          !.threads = hangup[h].threads \ {hangup[h].thread}] \in
          [pc : {"idle", "spawn", "wait", "remove"}, owner : Owners \cup {NoOne},
           threads : SUBSET Threads, first : SUBSET Threads, wait : SUBSET Threads,
           thread : Threads \cup {NoOne}]
    BY <2>1, <2>2
  <2>4. hangup' = [hangup EXCEPT ![h] =
          [hangup[h] EXCEPT !.pc = "wait", !.thread = NoOne,
                            !.threads = hangup[h].threads \ {hangup[h].thread}]]
    BY <2>1 DEF HangupRemove, HangupTypes
  <2>5. QED
    BY <2>1, <2>3, <2>4 DEF HangupRemove, HangupAt, HangupTypes
<1>6. PlaceTypes'
  <2>1. hangup[h].thread \in Threads
    BY DEF HangupRemove, HangupAt, Cleanups, Busy, HangupTypes
  <2>2. QED
    BY <2>1 DEF HangupRemove, HangupAt, server, stored, registry, PlaceTypes
<1>7. Preparations'
  BY DEF HangupRemove, HangupAt, server, stored, registry, EntryTypes, CreatorTypes, CloserTypes,
         JobTypes, HangupTypes, PlaceTypes, NoEntry, NoJob, NoHangup, Preparations, Making
<1>8. Entries'
  BY DEF HangupRemove, HangupAt, server, stored, registry, EntryTypes, CreatorTypes, CloserTypes,
         JobTypes, HangupTypes, PlaceTypes, NoEntry, NoJob, NoHangup, Entries
<1>9. Attachment'
  BY DEF HangupRemove, HangupAt, server, stored, registry, EntryTypes, CreatorTypes, CloserTypes,
         JobTypes, HangupTypes, PlaceTypes, NoEntry, NoJob, NoHangup, Attachment, Attaching
<1>10. Jobs'
  BY DEF HangupRemove, HangupAt, server, stored, registry, EntryTypes, CreatorTypes, CloserTypes,
         JobTypes, HangupTypes, PlaceTypes, NoEntry, NoJob, NoHangup, Jobs
<1>11. Cleanups'
  BY DEF HangupRemove, HangupAt, server, stored, registry, EntryTypes, CreatorTypes, CloserTypes,
         JobTypes, HangupTypes, PlaceTypes, NoEntry, NoJob, NoHangup, Cleanups, Busy, Pending
<1>12. Spawning'
  BY DEF HangupRemove, HangupAt, server, stored, registry, EntryTypes, CreatorTypes, CloserTypes,
         JobTypes, HangupTypes, PlaceTypes, NoEntry, NoJob, NoHangup, Spawning
<1>13. Closes'
  BY DEF HangupRemove, HangupAt, server, stored, registry, EntryTypes, CreatorTypes, CloserTypes,
         JobTypes, HangupTypes, PlaceTypes, NoEntry, NoJob, NoHangup, Closes, Pending
<1>14. QED
  BY <1>1, <1>2, <1>3, <1>4, <1>5, <1>6, <1>7, <1>8, <1>9, <1>10, <1>11, <1>12, <1>13

LEMMA HangupForgetOwn ==
  ASSUME OwnInv, NEW h \in Hangups, HangupForget(h)
  PROVE  OwnInv'
<1> USE Names DEF OwnInv, SessionsTypeOK
<1> DEFINE o == hangup[h].owner
<1>a. /\ hangup[h].pc = "wait" /\ hangup[h].threads = {} /\ hangup[h].wait = {}
      /\ o \in Owners /\ o \in disconnected
  BY DEF HangupForget, HangupAt, Cleanups, Busy, HangupTypes
<1>b. /\ \A s \in Threads : entry[s].owner = o => entry'[s] = NoEntry
      /\ \A s \in Threads : entry[s].owner # o => entry'[s] = entry[s]
  BY DEF HangupForget, Owned
<1>c. /\ gone' = gone \cup {o} /\ hangup'[h] = NoHangup
      /\ \A g \in Hangups : g # h => hangup'[g] = hangup[g]
      /\ UNCHANGED <<disconnected, served, journal, evicted, row, used, faulty, creator, closeCall,
                     job, wanted, eof>>
  BY DEF HangupForget, server, stored, HangupTypes
<1>d. \A s \in Threads : served[s] # o
  BY <1>a DEF Cleanups, Busy
<1>e. \A s \in Threads : entry[s].owner = o => ~journal[s] /\ ~Pending(entry[s]) /\ served[s] = NoOne
  BY <1>a, <1>d DEF Cleanups, Busy, Entries
<1>f. \A s \in Threads : Pending(entry[s]) => entry'[s] = entry[s] /\ entry[s].owner # o
  BY <1>b, <1>e
<1>g. \A c \in Creators : Making(c) =>
        creator[c].thread \in Threads /\ Pending(entry[creator[c].thread])
  BY DEF Making, CreatorTypes, Preparations, Pending
<1>h. \A s \in Threads : entry[s].phase = "closing" /\ ~entry[s].done => Pending(entry[s])
  BY DEF Pending
<1>1. EntryTypes'
  BY DEF HangupForget, HangupAt, Owned, server, stored, registry, EntryTypes, NoEntry
<1>2. CreatorTypes'
  BY DEF HangupForget, HangupAt, Owned, server, stored, registry, CreatorTypes
<1>3. CloserTypes'
  BY DEF HangupForget, HangupAt, Owned, server, stored, registry, CloserTypes
<1>4. JobTypes'
  BY DEF HangupForget, HangupAt, Owned, server, stored, registry, JobTypes, NoJob
<1>5. HangupTypes'
  BY DEF HangupForget, HangupAt, Owned, server, stored, registry, HangupTypes, NoHangup
<1>6. PlaceTypes'
  BY <1>a, <1>c DEF PlaceTypes
<1>7. Preparations'
  BY <1>c, <1>f, <1>g DEF Preparations, Making
<1>8. Entries'
  BY <1>a, <1>b, <1>c, <1>d, <1>e DEF Entries, NoEntry, PlaceTypes
<1>9. Attachment'
  <2>1. \A c \in Creators : Attaching(c) => Making(c)
    BY DEF Attaching, Making
  <2>2. QED
    BY <1>b, <1>c, <1>e DEF Attachment, Attaching
<1>10. Jobs'
  BY <1>c, <1>f, <1>h DEF Jobs
<1>11. Cleanups'
  BY DEF HangupForget, HangupAt, Owned, server, stored, registry, EntryTypes, CreatorTypes,
         CloserTypes, JobTypes, HangupTypes, PlaceTypes, NoEntry, NoJob, NoHangup, Cleanups,
         Busy, Pending
<1>12. Spawning'
  BY <1>c, <1>f, <1>h DEF Spawning, NoHangup, HangupTypes
<1>13. Closes'
  <2>1. \A k \in Closers : closeCall[k].pc # "idle" => closeCall[k].thread \in Threads
    BY DEF CloserTypes
  <2>2. QED
    BY <1>b, <1>c, <1>f, <2>1 DEF Closes
<1>14. QED
  BY <1>1, <1>2, <1>3, <1>4, <1>5, <1>6, <1>7, <1>8, <1>9, <1>10, <1>11, <1>12, <1>13

LEMMA StutterOwn == OwnInv /\ UNCHANGED sessionsVars => OwnInv'
<1> SUFFICES ASSUME OwnInv, UNCHANGED sessionsVars PROVE OwnInv'
  OBVIOUS
<1> USE DEF OwnInv, sessionsVars, registry, server, stored
<1>1. SessionsTypeOK'
  BY DEF SessionsTypeOK, EntryTypes, CreatorTypes, CloserTypes, JobTypes, HangupTypes, PlaceTypes
<1>2. Preparations' /\ Entries' /\ Attachment' /\ Jobs'
  BY DEF Preparations, Making, Entries, Attachment, Attaching, Jobs
<1>3. Cleanups' /\ Spawning' /\ Closes'
  BY DEF Cleanups, Busy, Spawning, Closes
<1>4. QED
  BY <1>1, <1>2, <1>3

LEMMA NextOwn == OwnInv /\ [SessionsNext]_sessionsVars => OwnInv'
<1> SUFFICES ASSUME OwnInv, SessionsNext PROVE OwnInv'
  BY StutterOwn
<1>1. CASE \E c \in Creators, o \in Owners, t \in Threads : StartThread(c, o, t) \/ Reserve(c, o, t)
  BY <1>1, StartThreadOwn, ReserveOwn
<1>2. CASE \E c \in Creators : CreatorStep(c)
  BY <1>2, StoreDoneOwn, StoreRejectedOwn, StoreFailedOwn, RecordOwn, PublishOwn,
     PublishRefusedOwn, UndoOwn, ReplyOwn DEF CreatorStep
<1>3. CASE \E k \in Closers, o \in Owners, t \in Threads : CloseRequest(k, o, t)
  BY <1>3, CloseRequestOwn
<1>4. CASE \E t \in Threads : JobStep(t)
  BY <1>4, JobRefusedOwn, JobDrainOwn, JobDetachOwn, JobRemoveOwn, JobSettleOwn DEF JobStep
<1>5. CASE \E o \in Owners : EndOfInput(o)
  BY <1>5, EndOfInputOwn
<1>6. CASE \E h \in Hangups : HangupStep(h)
  BY <1>6, HangupBeginOwn, HangupSpawnOwn, HangupDetachOwn, HangupRemoveOwn, HangupForgetOwn
     DEF HangupStep
<1>7. QED
  BY <1>1, <1>2, <1>3, <1>4, <1>5, <1>6 DEF SessionsNext

LEMMA OwnAlways == SessionsSpec => []OwnInv
<1>1. SessionsInit => OwnInv
  BY InitOwn
<1>2. OwnInv /\ [SessionsNext]_sessionsVars => OwnInv'
  BY NextOwn
<1>3. QED
  BY <1>1, <1>2, PTL DEF SessionsSpec

(***************************************************************************)
(* Open sessions are served                                                *)
(***************************************************************************)
\* Entries keep their owners, no session opens or returns, and clean-ups hold no
\* more.
LEMMA KeepsLive ==
  ASSUME LiveInv, HangupTypes,
         \A t \in Threads : /\ entry'[t].owner = entry[t].owner
                            /\ entry'[t].phase = "open" /\ t \notin evicted' =>
                                 /\ entry[t].phase = "open" /\ t \notin evicted
                                 /\ served'[t] = served[t],
         gone \subseteq gone',
         \A h \in Hangups : /\ Busy(h)' <=> Busy(h)
                            /\ hangup'[h].owner = hangup[h].owner
                            /\ hangup'[h].threads \subseteq hangup[h].threads
  PROVE  LiveInv'
<1>1. OpenIsLive'
  BY DEF LiveInv, OpenIsLive
<1>2. HoldsOwn'
  <2> SUFFICES ASSUME NEW h \in Hangups, Busy(h)', NEW t \in hangup'[h].threads
               PROVE  hangup'[h].owner \in gone' \/ entry'[t].owner = hangup'[h].owner
    BY DEF HoldsOwn
  <2>1. t \in hangup[h].threads /\ t \in Threads
    BY DEF HangupTypes
  <2>2. QED
    BY <2>1 DEF LiveInv, HoldsOwn
<1>3. QED
  BY <1>1, <1>2 DEF LiveInv

\* A dropped preparation keeps what open sessions and clean-ups have.
LEMMA AbandonLive ==
  ASSUME OwnInv, LiveInv,
         NEW c \in Creators, Making(c), NEW outcome \in {"ok", "error"},
         Abandon(c, outcome), UNCHANGED <<served, evicted, gone>>
  PROVE  LiveInv'
<1> USE DEF OwnInv, SessionsTypeOK
<1>1. creator[c].thread \in Threads
  BY DEF Making, CreatorTypes
<1>2. \A t \in Threads : /\ entry'[t].owner = entry[t].owner
                         /\ entry'[t].phase = "open" => entry[t].phase = "open"
  BY <1>1 DEF Abandon, Tombstone, EntryTypes
<1>3. \A h \in Hangups : /\ hangup'[h].pc = hangup[h].pc /\ hangup'[h].owner = hangup[h].owner
                         /\ hangup'[h].threads = hangup[h].threads
  BY <1>1, HeardFacts DEF Abandon
<1>4. QED
  BY <1>2, <1>3, KeepsLive DEF Busy

\* A request that creates or closes a session.  The id a new session takes is in
\* no clean-up whose connection is not finished with: an id that is has an entry.
LEMMA RequestLive ==
  ASSUME OwnInv, LiveInv, NEW o \in Owners, NEW t \in Threads,
         \/ \E c \in Creators : StartThread(c, o, t) \/ Reserve(c, o, t)
         \/ \E k \in Closers : CloseRequest(k, o, t)
  PROVE  LiveInv'
<1> USE Names DEF OwnInv, SessionsTypeOK
<1>1. CASE \E c \in Creators : StartThread(c, o, t) \/ Reserve(c, o, t)
  <2>1. /\ entry[t].owner = NoOne /\ UNCHANGED <<hangup, gone>>
        /\ \A s \in Threads \ {t} : /\ entry'[s] = entry[s] /\ served'[s] = served[s]
                                    /\ s \in evicted => s \in evicted'
        /\ entry'[t].phase = "open" => served'[t] = entry'[t].owner
    BY <1>1 DEF StartThread, Reserve, Free, server, EntryTypes, PlaceTypes
  <2>2. \A h \in Hangups : Busy(h) => hangup[h].owner \in gone \/ t \notin hangup[h].threads
    BY <2>1 DEF LiveInv, HoldsOwn, Busy, HangupTypes
  <2>3. HoldsOwn'
    BY <2>1, <2>2 DEF LiveInv, HoldsOwn, Busy, HangupTypes
  <2>4. QED
    BY <2>1, <2>3 DEF LiveInv, OpenIsLive
<1>2. CASE \E k \in Closers : CloseRequest(k, o, t)
  <2>1. /\ UNCHANGED <<hangup, served, evicted, gone>> /\ entry' = [entry EXCEPT ![t] = Marked(entry[t])]
    BY <1>2 DEF CloseRequest, server
  <2>2. \A s \in Threads : /\ entry'[s].owner = entry[s].owner
                           /\ entry'[s].phase = "open" => entry[s].phase = "open"
    BY <2>1, MarkedFacts DEF EntryTypes
  <2>3. QED
    BY <2>1, <2>2, KeepsLive DEF Busy
<1>3. QED
  BY <1>1, <1>2

\* A step of a request that creates a session.
LEMMA CreatorLive ==
  ASSUME OwnInv, LiveInv, NEW c \in Creators, CreatorStep(c)
  PROVE  LiveInv'
<1> USE Names DEF OwnInv, SessionsTypeOK
<1>1. CASE StoreRejected(c) \/ StoreFailed(c)
  BY <1>1, AbandonLive DEF StoreRejected, StoreFailed, CreatorAt, Making, server
<1>2. CASE Undo(c)
  BY <1>2, AbandonLive DEF Undo, Making, server
<1>3. CASE Publish(c)
  <2>1. creator[c].thread \in Threads /\ entry[creator[c].thread].owner = creator[c].owner
    BY <1>3 DEF Publish, Publishable, CreatorAt, CreatorTypes
  <2>2. /\ \A t \in Threads : entry'[t].owner = entry[t].owner
        /\ \A t \in Threads \ {creator[c].thread} :
             /\ entry'[t].phase = entry[t].phase /\ served'[t] = served[t]
             /\ t \in evicted => t \in evicted'
        /\ served'[creator[c].thread] = creator[c].owner
        /\ UNCHANGED <<hangup, gone>>
    BY <1>3, <2>1 DEF Publish, EntryTypes, PlaceTypes
  <2>3. OpenIsLive'
    BY <2>1, <2>2 DEF LiveInv, OpenIsLive
  <2>4. HoldsOwn'
    BY <2>2 DEF LiveInv, HoldsOwn, Busy, HangupTypes
  <2>5. QED
    BY <2>3, <2>4 DEF LiveInv
<1>4. CASE StoreDone(c) \/ Record(c) \/ PublishRefused(c) \/ Reply(c)
  <2>1. UNCHANGED <<entry, served, evicted, gone, hangup>>
    BY <1>4 DEF StoreDone, Record, PublishRefused, Reply, registry, server
  <2>2. QED
    BY <2>1, KeepsLive DEF Busy
<1>5. QED
  BY <1>1, <1>2, <1>3, <1>4 DEF CreatorStep

\* A step of a close job, which removes a session that is not open any more.
LEMMA JobLive ==
  ASSUME OwnInv, LiveInv, NEW t \in Threads, JobStep(t)
  PROVE  LiveInv'
<1> USE Names DEF OwnInv, SessionsTypeOK
<1>1. CASE JobRefused(t) \/ JobDrain(t) \/ JobDetach(t)
  <2>1. UNCHANGED <<entry, served, evicted, gone, hangup>>
    BY <1>1 DEF JobRefused, JobDrain, JobDetach, registry, server
  <2>2. QED
    BY <2>1, KeepsLive DEF Busy
<1>2. CASE JobRemove(t)
  <2>1. /\ entry[t].phase = "closing" /\ UNCHANGED <<entry, evicted, gone, hangup>>
        /\ \A s \in Threads \ {t} : served'[s] = served[s]
    BY <1>2 DEF JobRemove, JobAt, Jobs, registry, PlaceTypes
  <2>2. QED
    BY <2>1, KeepsLive DEF Busy
<1>3. CASE JobSettle(t)
  <2>1. /\ UNCHANGED <<served, evicted, gone>>
        /\ \A s \in Threads : /\ entry'[s].owner = entry[s].owner
                              /\ entry'[s].phase = "open" => entry[s].phase = "open"
    BY <1>3 DEF JobSettle, Tombstone, server, EntryTypes
  <2>2. \A h \in Hangups : /\ hangup'[h].pc = hangup[h].pc /\ hangup'[h].owner = hangup[h].owner
                           /\ hangup'[h].threads = hangup[h].threads
    BY <1>3, HeardFacts DEF JobSettle
  <2>3. QED
    BY <2>1, <2>2, KeepsLive DEF Busy
<1>4. QED
  BY <1>1, <1>2, <1>3 DEF JobStep

\* A step of a clean-up.  What it removes is of its own connection, which has no
\* open session any more, or the removal is noted; what it forgets is only in
\* clean-ups of the same connection, which is finished with from then on.
LEMMA HangupLive ==
  ASSUME OwnInv, LiveInv, NEW h \in Hangups, HangupStep(h)
  PROVE  LiveInv'
<1> USE Names DEF OwnInv, SessionsTypeOK
<1>1. CASE \E o \in Owners : HangupBegin(h, o)
  <2>1. PICK o \in Owners : HangupBegin(h, o)
    BY <1>1
  <2>2. /\ UNCHANGED <<served, evicted, gone>>
        /\ entry' = [t \in Threads |-> IF t \in Owned(o) THEN Marked(entry[t]) ELSE entry[t]]
    BY <2>1 DEF HangupBegin, server
  <2>3. \A t \in Threads : /\ entry'[t].owner = entry[t].owner
                           /\ entry'[t].phase = "open" => entry[t].phase = "open"
    BY <2>2, MarkedFacts
  <2>4. /\ hangup'[h].owner = o /\ hangup'[h].threads = Owned(o)
        /\ \A g \in Hangups \ {h} : hangup'[g] = hangup[g]
    BY <2>1 DEF HangupBegin, HangupTypes
  <2>5. HoldsOwn'
    <3> SUFFICES ASSUME NEW g \in Hangups, Busy(g)', NEW t \in hangup'[g].threads
                 PROVE  hangup'[g].owner \in gone' \/ entry'[t].owner = hangup'[g].owner
      BY DEF HoldsOwn
    <3>1. CASE g = h
      BY <2>3, <2>4, <3>1 DEF Owned
    <3>2. CASE g # h
      BY <2>2, <2>3, <2>4, <3>2 DEF LiveInv, HoldsOwn, Busy, HangupTypes
    <3>3. QED
      BY <3>1, <3>2
  <2>6. QED
    BY <2>2, <2>3, <2>5 DEF LiveInv, OpenIsLive
<1>2. CASE HangupSpawn(h) \/ HangupDetach(h)
  <2>1. /\ UNCHANGED <<entry, served, evicted, gone>>
        /\ \A g \in Hangups : /\ Busy(g)' <=> Busy(g)
                              /\ hangup'[g].owner = hangup[g].owner
                              /\ hangup'[g].threads = hangup[g].threads
    BY <1>2 DEF HangupSpawn, HangupDetach, HangupAt, Busy, HangupTypes, registry, server
  <2>2. QED
    BY <2>1, KeepsLive
<1>3. CASE HangupRemove(h)
  <2>1. /\ hangup[h].pc = "remove" /\ hangup[h].thread \in hangup[h].threads
        /\ hangup[h].thread \in Threads /\ hangup[h].owner \in disconnected
    BY <1>3 DEF HangupRemove, HangupAt, Cleanups, Busy, HangupTypes
  <2>2. hangup[h].owner \in gone \/ entry[hangup[h].thread].phase # "open"
    BY <2>1 DEF LiveInv, HoldsOwn, Busy, Entries
  <2>3. /\ UNCHANGED <<entry, gone>> /\ evicted \subseteq evicted'
        /\ hangup[h].owner \in gone => hangup[h].thread \in evicted'
        /\ \A t \in Threads \ {hangup[h].thread} : served'[t] = served[t]
        /\ \A g \in Hangups : /\ Busy(g)' <=> Busy(g)
                              /\ hangup'[g].owner = hangup[g].owner
                              /\ hangup'[g].threads \subseteq hangup[g].threads
    BY <1>3, <2>1 DEF HangupRemove, Busy, HangupTypes, PlaceTypes, registry
  <2>4. QED
    BY <2>2, <2>3, KeepsLive
<1>4. CASE HangupForget(h)
  <2>1. /\ UNCHANGED <<served, evicted>> /\ hangup'[h].pc = "idle" /\ Busy(h)
        /\ gone' = gone \cup {hangup[h].owner}
        /\ \A g \in Hangups \ {h} : hangup'[g] = hangup[g]
        /\ \A t \in Threads : entry'[t] = IF entry[t].owner = hangup[h].owner THEN NoEntry
                                          ELSE entry[t]
    BY <1>4 DEF HangupForget, HangupAt, Owned, NoHangup, Busy, HangupTypes, server
  <2>2. OpenIsLive'
    BY <2>1 DEF LiveInv, OpenIsLive, NoEntry
  <2>3. HoldsOwn'
    <3> SUFFICES ASSUME NEW g \in Hangups, Busy(g)', NEW t \in hangup'[g].threads
                 PROVE  hangup'[g].owner \in gone' \/ entry'[t].owner = hangup'[g].owner
      BY DEF HoldsOwn
    <3>1. g # h /\ hangup'[g] = hangup[g] /\ Busy(g)
      BY <2>1 DEF Busy
    <3>2. CASE hangup[g].owner \in gone'
      BY <3>1, <3>2
    <3>3. CASE hangup[g].owner \notin gone'
      <4>1. t \in Threads /\ entry[t].owner = hangup[g].owner
        BY <2>1, <3>1, <3>3 DEF LiveInv, HoldsOwn, HangupTypes
      <4>2. hangup[g].owner # hangup[h].owner
        BY <2>1, <3>3
      <4>3. QED
        BY <2>1, <3>1, <4>1, <4>2
    <3>4. QED
      BY <3>2, <3>3
  <2>4. QED
    BY <2>2, <2>3 DEF LiveInv
<1>5. QED
  BY <1>1, <1>2, <1>3, <1>4 DEF HangupStep

LEMMA LiveStep == OwnInv /\ LiveInv /\ [SessionsNext]_sessionsVars => LiveInv'
<1> SUFFICES ASSUME OwnInv, LiveInv, [SessionsNext]_sessionsVars PROVE LiveInv'
  OBVIOUS
<1>1. CASE UNCHANGED sessionsVars
  BY <1>1 DEF sessionsVars, registry, server, LiveInv, OpenIsLive, HoldsOwn, Busy
<1>2. CASE \E o \in Owners : EndOfInput(o)
  BY <1>2 DEF EndOfInput, registry, server, LiveInv, OpenIsLive, HoldsOwn, Busy
<1>3. QED
  BY <1>1, <1>2, RequestLive, CreatorLive, JobLive, HangupLive DEF SessionsNext

(***************************************************************************)
(* What follows                                                            *)
(***************************************************************************)
\* Unless the storage has failed, the stored record is attached only to a
\* session that is being made, used or closed, whichever of the requests of
\* session_lifecycle.rs are lost, repeated or refused at whatever point.
THEOREM AttachmentAlwaysOwned == SessionsSpec => []AttachmentOwned
<1>1. OwnInv => AttachmentOwned
  BY DEF OwnInv, Attachment, AttachmentOwned, Attaching, Making, Preparations
<1>2. QED
  BY <1>1, OwnAlways, PTL

\* A session.close that succeeded stands: neither a creation that was under way
\* nor the clean-up of the connection (finish_session_close, Preparation::publish)
\* brings the session back or keeps its record.
THEOREM CloseAlwaysStands == SessionsSpec => []CloseStands
<1>1. OwnInv => CloseStands
  <2> SUFFICES ASSUME OwnInv, NEW k \in Closers, closeCall[k].pc = "ok"
               PROVE  LET t == closeCall[k].thread IN
                      /\ served[t] # closeCall[k].owner
                      /\ entry[t].owner = closeCall[k].owner => entry[t].phase = "closed"
                      /\ row = t /\ ~faulty => entry[t].owner # closeCall[k].owner
    BY DEF CloseStands
  <2> USE Names DEF OwnInv, SessionsTypeOK
  <2>1. closeCall[k].thread \in Threads /\ closeCall[k].owner \in Owners
    BY DEF CloserTypes
  <2>2. entry[closeCall[k].thread].owner = closeCall[k].owner => entry[closeCall[k].thread].phase = "closed"
    BY <2>1 DEF Closes, Entries
  <2>3. served[closeCall[k].thread] # closeCall[k].owner
    BY <2>1, <2>2 DEF Entries
  <2>4. entry[closeCall[k].thread].phase = "closed" /\ row = closeCall[k].thread => faulty
    BY <2>1 DEF Attachment, Attaching, Making, Preparations
  <2>5. QED
    BY <2>2, <2>3, <2>4
<1>2. QED
  BY <1>1, OwnAlways, PTL

\* Nothing of a connection is left or comes back once one of its clean-ups is
\* over (forget_owner), however many of them run at a time.
THEOREM GoneAlwaysGone == SessionsSpec => []GoneIsGone
<1>1. OwnInv => GoneIsGone
  BY Names DEF OwnInv, SessionsTypeOK, PlaceTypes, Entries, GoneIsGone
<1>2. QED
  BY <1>1, OwnAlways, PTL

\* So nothing is left of what failed, closed or was lost, for any number of
\* connections, sessions, creations, closes and clean-ups that overlap.
THEOREM NothingEverLeft == SessionsSpec => []NothingLeft
<1>1. AttachmentOwned /\ CloseStands /\ GoneIsGone => NothingLeft
  BY DEF NothingLeft
<1>2. QED
  BY <1>1, AttachmentAlwaysOwned, CloseAlwaysStands, GoneAlwaysGone, PTL

\* A session that is open is served for its owner, however many clean-ups of
\* however many connections overlap, unless it was removed by a clean-up whose
\* connection another one had finished with (disconnect_connection: its maps are
\* keyed by the session id alone; the run session_cleanup shows that it happens).
\* So that is the only way to lose an open session.
THEOREM OpenAlwaysLive == SessionsSpec => []OpenIsLive
<1>1. SessionsInit => LiveInv
  BY DEF SessionsInit, LiveInv, OpenIsLive, HoldsOwn, Busy, NoEntry, NoHangup
<1>2. OwnInv /\ LiveInv /\ [SessionsNext]_sessionsVars => LiveInv'
  BY LiveStep
<1>3. LiveInv => OpenIsLive
  BY DEF LiveInv
<1>4. QED
  BY <1>1, <1>2, <1>3, OwnAlways, PTL DEF SessionsSpec

(***************************************************************************)
(* The V2 plane: the inductive invariant                                   *)
(***************************************************************************)
\* A close begins and commits Closed in this order, and no run is left then.
CloseInv ==
    /\ closeStep = "idle" => lifecycle = "open"
    /\ closeStep = "closing" => lifecycle = "closing"
    /\ lifecycle # "closed" => closedCursor = 0
    /\ lifecycle = "closed" => closeStep # "idle" /\ ~running
    /\ closedCursor # 0 => projection.cursor = closedCursor

\* While the store is asked, the record is the one the writer has prepared from.
LaneInv ==
    /\ \A w \in Writers : pub[w].pc = "store" => lane = w
    /\ lane # Unheld =>
         lifecycle = "open" /\ pub[lane].pc = "store" /\ pub[lane].seq = projection.cursor
    /\ store.known => Persistent /\ store.value = meta

\* The order holds what is still to come and was committed.
OrderInv == \A n \in order.pending : order.next <= n /\ n <= projection.cursor

\* What a publisher has in its hands was committed before the cursor.
Within(r, cursor) ==
    /\ r.seq <= cursor
    /\ \A i \in 1..Len(r.batch) : r.batch[i] <= cursor
    /\ r.pc \in {"send", "full", "await"} => r.batch # <<>>
BatchInv == \A p \in Publishers : Within(pub[p], projection.cursor)

\* So was what the notifier has, and what it writes is new.
NotifierInv ==
    /\ \A i \in 1..Len(backlog) : backlog[i].seq <= projection.cursor
    /\ latest.seq <= projection.cursor /\ hand.seq <= projection.cursor
    /\ hand # NoWork => lastSent < hand.seq

PlaneInv == PlaneTypeOK /\ CloseInv /\ LaneInv /\ OrderInv /\ BatchInv /\ NotifierInv

LEMMA PlaneNames ==
  /\ Unheld \notin Writers /\ "run" \notin Writers /\ "close" \notin Writers
  /\ Persistent \in BOOLEAN /\ QueueCap \in Nat \ {0}
BY SessionManagementGiven DEF SessionManagementAssumption, Unheld

LEMMA InitPlane ==
  ASSUME PlaneInit
  PROVE  PlaneInv
<1> USE PlaneNames DEF PlaneInit, NoWork, Work, Idle, Holding
<1>1. projection.cursor = 0
  BY DEF NewFeed, Feed
<1>2. RecordTypes
  <2>1. store \in [value : Values \cup {"none"}, known : BOOLEAN]
    OBVIOUS
  <2>2. kept \in BOOLEAN /\ running \in BOOLEAN
    OBVIOUS
  <2>3. closedCursor \in Nat /\ projection.cursor \in Nat
    BY <1>1
  <2>4. QED
    BY <2>1, <2>2, <2>3 DEF RecordTypes
<1>3. PublisherTypes
  BY DEF PublisherTypes, Pub, Pcs
<1>4. NotifierTypes
  BY DEF NotifierTypes, Works
<1>5. CloseInv /\ LaneInv /\ OrderInv
  BY DEF CloseInv, LaneInv, OrderInv, Publishers
<1>6. BatchInv /\ NotifierInv
  BY <1>1 DEF BatchInv, Within, NotifierInv
<1>7. QED
  BY <1>2, <1>3, <1>4, <1>5, <1>6 DEF PlaneInv, PlaneTypeOK

(***************************************************************************)
(* The operators                                                           *)
(***************************************************************************)
\* prepare counts the event that it installs.
LEMMA RetainCursor == \A kind : Retain(projection, kind, 1).cursor = projection.cursor + 1
BY DEF Retain, Feed, Event

LEMMA HoldingPub ==
  ASSUME NEW pc \in Pcs, NEW seq \in Nat
  PROVE  /\ Holding(pc, seq) \in Pub /\ Holding(pc, seq).pc = pc /\ Holding(pc, seq).seq = seq
         /\ Holding(pc, seq).batch = <<>>
<1>1. <<>> \in Seq(Nat)
  OBVIOUS
<1>2. QED
  BY <1>1 DEF Holding, Pub

LEMMA IdlePub == Idle \in Pub /\ Idle.pc = "idle" /\ Idle.seq = 0 /\ Idle.batch = <<>>
BY HoldingPub DEF Idle, Pcs

\* One publisher moves, and what it has then was committed.
LEMMA PubMoves ==
  ASSUME PublisherTypes, BatchInv, RecordTypes, NEW p \in Publishers, NEW r \in Pub,
         pub' = [pub EXCEPT ![p] = r], projection'.cursor \in Nat, projection.cursor <= projection'.cursor,
         Within(r, projection'.cursor)
  PROVE  /\ pub' \in [Publishers -> Pub] /\ BatchInv'
         /\ pub'[p] = r /\ \A q \in Publishers \ {p} : pub'[q] = pub[q]
<1>1. pub' \in [Publishers -> Pub] /\ pub'[p] = r /\ \A q \in Publishers \ {p} : pub'[q] = pub[q]
  BY DEF PublisherTypes
<1>2. \A q \in Publishers : Within(pub[q], projection'.cursor)
  <2> SUFFICES ASSUME NEW q \in Publishers PROVE Within(pub[q], projection'.cursor)
    OBVIOUS
  <2>1. pub[q] \in Pub /\ Within(pub[q], projection.cursor) /\ projection.cursor \in Nat
    BY DEF PublisherTypes, BatchInv, RecordTypes
  <2>2. pub[q].seq \in Nat /\ \A i \in 1..Len(pub[q].batch) : pub[q].batch[i] \in Nat
    BY <2>1, ElementOfSeq DEF Pub
  <2>3. QED
    BY <2>1, <2>2 DEF Within
<1>3. BatchInv'
  BY <1>1, <1>2 DEF BatchInv
<1>4. QED
  BY <1>1, <1>3

\* What is in the hands of publishers and notifier stays behind a cursor that grows.
LEMMA CursorGrows ==
  ASSUME RecordTypes, PublisherTypes, NotifierTypes, OrderInv, NotifierInv,
         projection'.cursor \in Nat, projection.cursor <= projection'.cursor, UNCHANGED <<order, notifier>>
  PROVE  OrderInv' /\ NotifierInv' /\ NotifierTypes'
<1>1. NotifierTypes' /\ projection.cursor \in Nat /\ UNCHANGED <<order, backlog, latest, hand, lastSent>>
  BY DEF NotifierTypes, notifier, RecordTypes
<1>2. OrderInv'
  BY <1>1 DEF OrderInv, PublisherTypes
<1>3. \A i \in 1..Len(backlog) : backlog[i].seq \in Nat
  <2>1. backlog \in Seq(Works)
    BY DEF NotifierTypes
  <2>2. \A i \in 1..Len(backlog) : backlog[i] \in Works
    BY <2>1, ElementOfSeq
  <2>3. QED
    BY <2>2 DEF Works
<1>4. NotifierInv'
  BY <1>1, <1>3 DEF NotifierInv, NotifierTypes, Works
<1>5. QED
  BY <1>1, <1>2, <1>4

\* Commit: the cursor counts one, and the envelope is in the publisher's hands.
LEMMA CommitMoves ==
  ASSUME PlaneInv, NEW p \in Publishers, NEW kind, Commit(p, kind), UNCHANGED <<order, notifier>>
  PROVE  /\ projection'.cursor = projection.cursor + 1 /\ projection.cursor \in Nat /\ closedCursor \in Nat
         /\ PublisherTypes' /\ NotifierTypes' /\ OrderInv' /\ BatchInv' /\ NotifierInv'
         /\ pub'[p].pc = "order" /\ pub'[p].seq = projection'.cursor
         /\ \A q \in Publishers \ {p} : pub'[q] = pub[q]
<1> USE DEF PlaneInv, PlaneTypeOK
<1> DEFINE r == Holding("order", projection.cursor + 1)
<1>1. projection'.cursor = projection.cursor + 1 /\ projection.cursor \in Nat /\ closedCursor \in Nat
  BY RetainCursor DEF Commit, RecordTypes
<1>2. r \in Pub /\ r.pc = "order" /\ r.seq = projection'.cursor /\ r.batch = <<>>
  BY <1>1, HoldingPub DEF Pcs
<1>3. Within(r, projection'.cursor)
  BY <1>1, <1>2 DEF Within
<1>4. pub' = [pub EXCEPT ![p] = r]
  BY DEF Commit
<1> HIDE DEF r
<1>5. /\ pub' \in [Publishers -> Pub] /\ BatchInv' /\ pub'[p] = r
      /\ \A q \in Publishers \ {p} : pub'[q] = pub[q]
  <2>1. projection'.cursor \in Nat /\ projection.cursor <= projection'.cursor
    BY <1>1
  <2>2. QED
    BY <1>2, <1>3, <1>4, <2>1, PubMoves
<1>6. OrderInv' /\ NotifierInv' /\ NotifierTypes'
  BY <1>1, CursorGrows
<1>7. QED
  BY <1>1, <1>2, <1>5, <1>6 DEF PublisherTypes

\* ordered: what follows without a hole is a run of cursors from the next one on,
\* and what is held back comes behind it.
LEMMA ReadyFacts ==
  ASSUME NEW o, NEW c \in Nat, o.next \in Nat, o.pending \subseteq Nat,
         \A m \in o.pending : o.next <= m /\ m <= c
  PROVE  /\ Cardinality(Ready(o)) \in Nat /\ (Cardinality(Ready(o)) = 0 <=> Ready(o) = {})
         /\ Batch(o) \in Seq(Nat) /\ Len(Batch(o)) = Cardinality(Ready(o))
         /\ \A i \in 1..Len(Batch(o)) : Batch(o)[i] <= c
         /\ \A m \in o.pending \ Ready(o) : o.next + Cardinality(Ready(o)) <= m
<1> DEFINE k == Cardinality(Ready(o))
           a == o.next
<1>a. Ready(o) \subseteq a..c
  BY DEF Ready
<1>b. a \in Int /\ c \in Int
  OBVIOUS
<1>c. IsFiniteSet(a..c) /\ Cardinality(a..c) = IF a > c THEN 0 ELSE c - a + 1
  BY <1>b, FS_Interval
<1>1. Ready(o) \subseteq a..c /\ IsFiniteSet(a..c) /\ Cardinality(a..c) = IF a > c THEN 0 ELSE c - a + 1
  BY <1>a, <1>c
<1>2. IsFiniteSet(Ready(o)) /\ k <= Cardinality(a..c)
  BY <1>1, FS_Subset
<1>3. k \in Nat /\ (k = 0 <=> Ready(o) = {})
  BY <1>2, FS_CardinalityType, FS_EmptySet
<1>4. ASSUME NEW m \in o.pending \ Ready(o)
      PROVE  a + k <= m
  <2>1. PICK h \in a..m : h \notin o.pending
    BY DEF Ready
  <2>2. Ready(o) \subseteq a..(h - 1)
    BY <2>1 DEF Ready
  <2>a. h - 1 \in Int /\ a \in Int
    BY <2>1
  <2>3. /\ IsFiniteSet(a..(h - 1))
        /\ Cardinality(a..(h - 1)) = IF a > h - 1 THEN 0 ELSE (h - 1) - a + 1
    BY <2>a, FS_Interval
  <2>4. k <= Cardinality(a..(h - 1))
    BY <2>2, <2>3, FS_Subset
  <2>5. QED
    BY <1>3, <2>1, <2>3, <2>4
<1> HIDE DEF k
<1>5. Batch(o) = [i \in 1..k |-> a + i - 1]
  BY DEF Batch, k
<1>6. \A i \in 1..k : a + i - 1 \in Nat /\ a + i - 1 <= c
  BY <1>1, <1>2, <1>3
<1>7. Batch(o) \in Seq(Nat) /\ Len(Batch(o)) = k
  BY <1>3, <1>5, <1>6
<1>8. QED
  BY <1>3, <1>4, <1>5, <1>6, <1>7 DEF k

\* A publisher moves that does not hold the lane.
LEMMA PubOnly ==
  ASSUME PlaneInv, NEW p \in Publishers, NEW r \in Pub, pub[p].pc # "store", r.pc # "store",
         pub' = [pub EXCEPT ![p] = r], Within(r, projection.cursor), UNCHANGED <<record, closeStep>>
  PROVE  /\ pub' \in [Publishers -> Pub]
         /\ RecordTypes' /\ CloseInv' /\ LaneInv' /\ BatchInv'
<1> USE DEF PlaneInv, PlaneTypeOK
<1>1. UNCHANGED <<projection, lifecycle, meta, store, lane, kept, running, closedCursor, closeStep>>
  BY DEF record
<1>2. projection.cursor \in Nat /\ projection'.cursor \in Nat /\ projection.cursor <= projection'.cursor
  BY <1>1 DEF RecordTypes
<1>3. /\ pub' \in [Publishers -> Pub] /\ BatchInv'
      /\ pub'[p] = r /\ \A q \in Publishers \ {p} : pub'[q] = pub[q]
  BY <1>1, <1>2, PubMoves
<1>4. RecordTypes' /\ CloseInv'
  BY <1>1 DEF RecordTypes, CloseInv
<1>5. LaneInv'
  <2>1. lane # Unheld => lane # p /\ lane \in Publishers
    BY DEF LaneInv, RecordTypes, Publishers
  <2>2. \A w \in Writers : w \in Publishers
    BY DEF Publishers
  <2>3. QED
    BY <1>1, <1>3, <2>1, <2>2 DEF LaneInv
<1>6. QED
  BY <1>3, <1>4, <1>5

\* A publisher goes on with its batch.
LEMMA AdvanceMoves ==
  ASSUME PlaneInv, NEW p \in Publishers, pub[p].pc \in {"send", "full", "await"}, Advance(p),
         UNCHANGED <<record, closeStep>>
  PROVE  /\ pub' \in [Publishers -> Pub]
         /\ RecordTypes' /\ CloseInv' /\ LaneInv' /\ BatchInv'
<1> DEFINE b == pub[p].batch
           r == Advanced(pub[p])
<1>1. pub[p] \in Pub /\ Within(pub[p], projection.cursor) /\ projection.cursor \in Nat
  BY DEF PlaneInv, PlaneTypeOK, PublisherTypes, BatchInv, RecordTypes
<1>2. b \in Seq(Nat) /\ b # <<>> /\ pub[p].seq \in Nat
  BY <1>1 DEF Pub, Within
<1>3. Tail(b) \in Seq(Nat) /\ Len(Tail(b)) = Len(b) - 1 /\ Len(b) \in Nat \ {0}
  BY <1>2
<1>4. \A i \in 1..Len(Tail(b)) : Tail(b)[i] = b[i + 1]
  BY <1>2, <1>3
<1>5. r \in Pub /\ r.pc # "store" /\ Within(r, projection.cursor)
  <2>1. CASE Len(b) = 1
    BY <1>1, <2>1, IdlePub DEF Within, Advanced
  <2>2. CASE Len(b) # 1
    <3>1. r = [pub[p] EXCEPT !.pc = "send", !.batch = Tail(b)]
      BY <2>2 DEF Advanced
    <3>2. r \in Pub
      BY <1>1, <1>3, <3>1 DEF Pub, Pcs
    <3>3. r.pc = "send" /\ r.batch = Tail(b) /\ r.seq = pub[p].seq
      BY <1>1, <3>1 DEF Pub
    <3>4. Tail(b) # <<>>
      <4>1. Len(Tail(b)) # 0
        BY <1>3, <2>2
      <4>2. Len(<<>>) = 0
        OBVIOUS
      <4>3. QED
        BY <4>1, <4>2
    <3>5. \A i \in 1..Len(Tail(b)) : Tail(b)[i] <= projection.cursor
      BY <1>1, <1>3, <1>4 DEF Within
    <3> HIDE DEF r, b
    <3>6. QED
      BY <1>1, <3>2, <3>3, <3>4, <3>5 DEF Within
  <2>3. QED
    BY <2>1, <2>2
<1>6. pub' = [pub EXCEPT ![p] = r]
  BY DEF Advance
<1> HIDE DEF r
<1>7. QED
  BY <1>5, <1>6, PubOnly

(***************************************************************************)
(* The record                                                              *)
(***************************************************************************)
LEMMA RunCommitPlane ==
  ASSUME PlaneInv, NEW active \in BOOLEAN, RunCommit(active)
  PROVE  PlaneInv' /\ closedCursor = 0
<1> USE PlaneNames DEF PlaneInv, PlaneTypeOK
<1>1. "run" \in Publishers /\ \A w \in Writers : w \in Publishers /\ w # "run"
  BY DEF Publishers
<1>2. Commit("run", "run") /\ UNCHANGED <<order, notifier>>
  BY DEF RunCommit
<1>3. /\ projection'.cursor = projection.cursor + 1 /\ projection.cursor \in Nat
      /\ PublisherTypes' /\ NotifierTypes' /\ OrderInv' /\ BatchInv' /\ NotifierInv'
      /\ \A q \in Publishers \ {"run"} : pub'[q] = pub[q]
  BY <1>1, <1>2, CommitMoves
<1>4. closedCursor = 0 /\ lifecycle # "closed"
  BY DEF RunCommit, CloseInv
<1>5. RecordTypes' /\ CloseInv'
  BY <1>3, <1>4 DEF RunCommit, RecordTypes, CloseInv
<1>6. LaneInv'
  BY <1>1, <1>3 DEF RunCommit, LaneInv
<1>7. QED
  BY <1>3, <1>4, <1>5, <1>6

LEMMA ReadRevisionPlane ==
  ASSUME PlaneInv, NEW w \in Writers, ReadRevision(w)
  PROVE  PlaneInv'
<1> DEFINE r == Holding("read", projection.cursor)
<1>1. w \in Publishers /\ projection.cursor \in Nat
  BY DEF Publishers, PlaneInv, PlaneTypeOK, RecordTypes
<1>2. r \in Pub /\ r.pc = "read" /\ r.seq = projection.cursor /\ r.batch = <<>>
  BY <1>1, HoldingPub DEF Pcs
<1>3. Within(r, projection.cursor)
  BY <1>1, <1>2 DEF Within
<1>4. pub' = [pub EXCEPT ![w] = r] /\ pub[w].pc = "idle" /\ UNCHANGED <<record, closeStep, order, notifier>>
  BY DEF ReadRevision
<1> HIDE DEF r
<1>5. pub' \in [Publishers -> Pub] /\ RecordTypes' /\ CloseInv' /\ LaneInv' /\ BatchInv'
  BY <1>1, <1>2, <1>3, <1>4, PubOnly
<1>6. QED
  BY <1>4, <1>5 DEF PlaneInv, PlaneTypeOK, PublisherTypes, NotifierTypes, OrderInv, NotifierInv,
                    record, notifier

\* A replacement that commits finds the session open.
LEMMA ReplacedPlane ==
  ASSUME PlaneInv, NEW w \in Writers, Commit(w, "meta"), lifecycle = "open",
         UNCHANGED <<lifecycle, kept, running, closedCursor, closeStep, order, notifier>>,
         meta' \in Values \cup {"none"}, store' \in [value : Values \cup {"none"}, known : BOOLEAN],
         store'.known => Persistent /\ store'.value = meta', lane \in {Unheld, w}, lane' = Unheld
  PROVE  PlaneInv' /\ closedCursor = 0
<1> USE PlaneNames DEF PlaneInv, PlaneTypeOK
<1>1. w \in Publishers /\ \A v \in Writers : v \in Publishers
  BY DEF Publishers
<1>2. /\ projection'.cursor = projection.cursor + 1 /\ projection.cursor \in Nat
      /\ PublisherTypes' /\ NotifierTypes' /\ OrderInv' /\ BatchInv' /\ NotifierInv'
      /\ pub'[w].pc = "order" /\ \A q \in Publishers \ {w} : pub'[q] = pub[q]
  BY <1>1, CommitMoves
<1>3. closedCursor = 0
  BY DEF CloseInv
<1>4. RecordTypes' /\ CloseInv'
  BY <1>2, <1>3 DEF RecordTypes, CloseInv
<1>5. LaneInv'
  <2>1. \A v \in Writers : pub'[v].pc = "store" => v # w /\ pub[v].pc = "store"
    BY <1>1, <1>2
  <2>2. \A v \in Writers : pub'[v].pc # "store"
    BY <2>1 DEF LaneInv
  <2>3. QED
    BY <2>2 DEF LaneInv
<1>6. QED
  BY <1>2, <1>3, <1>4, <1>5

\* A publisher is idle again, or asks the store; the order and the notifier rest.
LEMMA RestedPlane ==
  ASSUME PlaneInv, RecordTypes', CloseInv', LaneInv', BatchInv', pub' \in [Publishers -> Pub],
         UNCHANGED <<projection, order, notifier>>
  PROVE  PlaneInv'
BY DEF PlaneInv, PlaneTypeOK, PublisherTypes, NotifierTypes, OrderInv, NotifierInv, notifier

LEMMA ReplacePlane ==
  ASSUME PlaneInv, NEW w \in Writers, NEW v \in Values, Replace(w, v)
  PROVE  PlaneInv' /\ (UNCHANGED <<projection, closedCursor>> \/ closedCursor = 0)
<1> USE PlaneNames DEF PlaneInv, PlaneTypeOK
<1>1. w \in Publishers /\ \A u \in Writers : u \in Publishers
  BY DEF Publishers
<1>2. /\ pub[w].pc = "read" /\ lane = Unheld /\ projection.cursor \in Nat
      /\ UNCHANGED <<lifecycle, store, kept, running, closedCursor, closeStep, order, notifier>>
  BY DEF Replace, RecordTypes
<1>3. CASE kept /\ CanReplace(w) /\ v # meta /\ Bounded /\ Persistent
  <2> DEFINE r == [pub[w] EXCEPT !.pc = "store", !.value = v]
  <2>1. pub[w] \in Pub /\ Within(pub[w], projection.cursor)
    BY <1>1 DEF PublisherTypes, BatchInv
  <2>2. r \in Pub /\ r.pc = "store" /\ r.seq = pub[w].seq /\ r.batch = pub[w].batch
    BY <2>1 DEF Pub, Pcs
  <2>3. Within(r, projection.cursor)
    BY <1>2, <2>1, <2>2 DEF Within
  <2>4. /\ lane' = w /\ UNCHANGED <<projection, meta>>
        /\ pub' = [pub EXCEPT ![w].pc = "store", ![w].value = v]
    BY <1>3 DEF Replace
  <2>5. pub' = [pub EXCEPT ![w] = r]
    BY <1>1, <2>4 DEF PublisherTypes, Pub
  <2> HIDE DEF r
  <2>6. /\ pub' \in [Publishers -> Pub] /\ BatchInv'
        /\ pub'[w] = r /\ \A q \in Publishers \ {w} : pub'[q] = pub[q]
    <3>1. projection'.cursor \in Nat /\ projection.cursor <= projection'.cursor /\ Within(r, projection'.cursor)
      BY <1>2, <2>3, <2>4
    <3>2. QED
      BY <1>1, <2>2, <2>5, <3>1, PubMoves
  <2>7. RecordTypes' /\ CloseInv'
    BY <1>2, <2>4 DEF RecordTypes, CloseInv
  <2>8. LaneInv'
    BY <1>1, <1>2, <1>3, <2>2, <2>4, <2>6 DEF LaneInv, CanReplace
  <2>9. QED
    BY <1>2, <2>4, <2>6, <2>7, <2>8, RestedPlane
<1>4. CASE kept /\ CanReplace(w) /\ v # meta /\ Bounded /\ ~Persistent
  <2>1. Commit(w, "meta") /\ meta' = v /\ lane' = Unheld /\ lifecycle = "open"
    BY <1>2, <1>4 DEF Replace, CanReplace
  <2>2. store' \in [value : Values \cup {"none"}, known : BOOLEAN]
    BY <1>2 DEF RecordTypes
  <2>3. ~store'.known
    BY <1>2, <1>4 DEF LaneInv
  <2>4. QED
    BY <1>2, <2>1, <2>2, <2>3, ReplacedPlane
<1>5. CASE ~(kept /\ CanReplace(w) /\ v # meta /\ Bounded)
  <2>1. pub' = [pub EXCEPT ![w] = Idle] /\ UNCHANGED <<record, closeStep>> /\ UNCHANGED projection
    BY <1>2, <1>5 DEF Replace, record
  <2>2. Within(Idle, projection.cursor)
    BY <1>2, IdlePub DEF Within
  <2>3. pub' \in [Publishers -> Pub] /\ RecordTypes' /\ CloseInv' /\ LaneInv' /\ BatchInv'
    BY <1>1, <1>2, <2>1, <2>2, IdlePub, PubOnly
  <2>4. QED
    BY <1>2, <2>1, <2>3, RestedPlane
<1>6. QED
  BY <1>3, <1>4, <1>5

LEMMA StoreAnswersPlane ==
  ASSUME PlaneInv, NEW w \in Writers, NEW ok \in BOOLEAN, StoreAnswers(w, ok)
  PROVE  PlaneInv' /\ (UNCHANGED <<projection, closedCursor>> \/ closedCursor = 0)
<1> USE PlaneNames DEF PlaneInv, PlaneTypeOK
<1>1. w \in Publishers /\ \A u \in Writers : u \in Publishers
  BY DEF Publishers
<1>2. /\ pub[w].pc = "store" /\ lane' = Unheld /\ projection.cursor \in Nat
      /\ UNCHANGED <<lifecycle, kept, running, closedCursor, closeStep, order, notifier>>
  BY DEF StoreAnswers, RecordTypes
<1>3. lane = w /\ lifecycle = "open" /\ pub[w].seq = projection.cursor
  BY <1>2 DEF LaneInv
<1>4. pub[w] \in Pub /\ store \in [value : Values \cup {"none"}, known : BOOLEAN]
  BY <1>1 DEF PublisherTypes, RecordTypes
<1>5. /\ store' \in [value : Values \cup {"none"}, known : BOOLEAN]
      /\ ok => store'.value = pub[w].value /\ store'.known = store.known
      /\ ~ok => store'.known = FALSE
  <2>1. pub[w].value \in Values \cup {"none"} /\ store.value \in Values \cup {"none"}
    BY <1>4 DEF Pub
  <2>2. CASE ok
    <3>1. store' = [store EXCEPT !.value = pub[w].value]
      BY <2>2 DEF StoreAnswers
    <3>2. QED
      BY <1>4, <2>1, <2>2, <3>1
  <2>3. CASE ~ok
    <3>1. PICK v \in {store.value, pub[w].value} : store' = [value |-> v, known |-> FALSE]
      BY <2>3 DEF StoreAnswers
    <3>2. v \in Values \cup {"none"}
      BY <2>1
    <3>3. QED
      BY <2>3, <3>1, <3>2
  <2>4. QED
    BY <2>2, <2>3
<1>6. CASE ok
  <2>1. Commit(w, "meta") /\ meta' = pub[w].value
    BY <1>3, <1>6 DEF StoreAnswers
  <2>2. meta' \in Values \cup {"none"}
    BY <1>4, <2>1 DEF Pub
  <2>3. QED
    <3>1. store'.known => Persistent /\ store'.value = meta'
      BY <1>5, <1>6, <2>1 DEF LaneInv
    <3>2. QED
      BY <1>2, <1>3, <1>5, <2>1, <2>2, <3>1, ReplacedPlane
<1>7. CASE ~ok
  <2>1. pub' = [pub EXCEPT ![w] = Idle] /\ UNCHANGED <<projection, meta>>
    BY <1>7 DEF StoreAnswers
  <2>2. Within(Idle, projection'.cursor) /\ projection'.cursor \in Nat /\ projection.cursor <= projection'.cursor
    BY <1>2, <2>1, IdlePub DEF Within
  <2>3. /\ pub' \in [Publishers -> Pub] /\ BatchInv'
        /\ pub'[w] = Idle /\ \A q \in Publishers \ {w} : pub'[q] = pub[q]
    BY <1>1, <2>1, <2>2, IdlePub, PubMoves
  <2>4. RecordTypes' /\ CloseInv'
    BY <1>2, <1>5, <2>1 DEF RecordTypes, CloseInv
  <2>5. LaneInv'
    <3>1. \A u \in Writers : pub'[u].pc # "store"
      BY <1>1, <1>3, <2>3, IdlePub DEF LaneInv
    <3>2. QED
      BY <1>2, <1>5, <1>7, <3>1 DEF LaneInv
  <2>6. QED
    BY <1>2, <2>1, <2>3, <2>4, <2>5, RestedPlane
<1>8. QED
  BY <1>6, <1>7

(***************************************************************************)
(* The close                                                               *)
(***************************************************************************)
LEMMA ClosePlane ==
  ASSUME PlaneInv, BeginClosing \/ CompleteClosed
  PROVE  PlaneInv' /\ closedCursor = 0 /\ projection'.cursor = projection.cursor + 1 /\ closedCursor' \in {0, projection'.cursor}
<1> USE PlaneNames DEF PlaneInv, PlaneTypeOK
<1>1. "close" \in Publishers /\ \A w \in Writers : w \in Publishers /\ w # "close"
  BY DEF Publishers
<1>2. PICK kind : Commit("close", kind) /\ UNCHANGED <<order, notifier>>
  BY DEF BeginClosing, CompleteClosed
<1>3. /\ projection'.cursor = projection.cursor + 1 /\ projection.cursor \in Nat
      /\ PublisherTypes' /\ NotifierTypes' /\ OrderInv' /\ BatchInv' /\ NotifierInv'
      /\ \A q \in Publishers \ {"close"} : pub'[q] = pub[q]
  BY <1>1, <1>2, CommitMoves
<1>4. closedCursor = 0
  BY DEF BeginClosing, CompleteClosed, CloseInv
<1>5. RecordTypes' /\ CloseInv'
  BY <1>3, <1>4 DEF BeginClosing, CompleteClosed, RecordTypes, CloseInv
<1>6. LaneInv'
  BY <1>1, <1>3 DEF BeginClosing, CompleteClosed, LaneInv
<1>7. QED
  BY <1>3, <1>4, <1>5, <1>6 DEF BeginClosing, CompleteClosed

LEMMA EndPlane ==
  ASSUME PlaneInv, DetachRefused \/ AnswerClose \/ PruneOwner \/ RemoveOwner
  PROVE  /\ PlaneInv' /\ UNCHANGED <<projection, closedCursor, lastSent>>
         /\ UNCHANGED on \/ on' = FALSE
<1> USE DEF PlaneInv, PlaneTypeOK, DetachRefused, AnswerClose, PruneOwner, RemoveOwner, Removed
<1>1. /\ UNCHANGED <<projection, lifecycle, meta, store, lane, running, closedCursor, pub, order, backlog, latest, hand, lastSent>>
      /\ closeStep' \in {closeStep, "failed", "answered", "gone"}
      /\ closeStep' # "idle" \/ UNCHANGED closeStep
      /\ UNCHANGED on \/ on' = FALSE
      /\ UNCHANGED kept \/ kept' = FALSE
  BY DEF record, notifier
<1>2. RecordTypes'
  BY <1>1 DEF RecordTypes
<1>3. PublisherTypes'
  BY <1>1 DEF PublisherTypes
<1>4. NotifierTypes'
  BY <1>1 DEF NotifierTypes
<1>5. CloseInv'
  BY <1>1 DEF CloseInv
<1>6. LaneInv' /\ OrderInv'
  BY <1>1 DEF LaneInv, OrderInv
<1>7. BatchInv' /\ NotifierInv'
  BY <1>1 DEF BatchInv, NotifierInv
<1>8. QED
  BY <1>1, <1>2, <1>3, <1>4, <1>5, <1>6, <1>7

(***************************************************************************)
(* The publishers                                                          *)
(***************************************************************************)
LEMMA ActivatePlane ==
  ASSUME PlaneInv, Activate
  PROVE  PlaneInv'
<1>1. UNCHANGED <<projection, lifecycle, meta, store, lane, kept, running, closedCursor, closeStep, pub, notifier>>
  BY DEF Activate, record
<1>2. order' \in [enabled : BOOLEAN, since : Nat, next : Nat, pending : SUBSET Nat] /\ order'.pending = {}
  BY DEF Activate, PlaneInv, PlaneTypeOK, RecordTypes
<1>3. RecordTypes' /\ CloseInv' /\ LaneInv' /\ BatchInv'
  BY <1>1 DEF PlaneInv, PlaneTypeOK, RecordTypes, CloseInv, LaneInv, BatchInv
<1>4. PublisherTypes' /\ OrderInv'
  BY <1>1, <1>2 DEF PlaneInv, PlaneTypeOK, PublisherTypes, OrderInv
<1>5. NotifierTypes' /\ NotifierInv'
  BY <1>1 DEF PlaneInv, PlaneTypeOK, NotifierTypes, NotifierInv, notifier
<1>6. QED
  BY <1>3, <1>4, <1>5 DEF PlaneInv, PlaneTypeOK

LEMMA OrderedPlane ==
  ASSUME PlaneInv, NEW p \in Publishers, Ordered(p)
  PROVE  PlaneInv'
<1> USE DEF PlaneInv, PlaneTypeOK
<1>1. /\ pub[p] \in Pub /\ pub[p].pc = "order" /\ Within(pub[p], projection.cursor) /\ projection.cursor \in Nat
      /\ UNCHANGED <<record, closeStep, backlog, latest, hand, lastSent, on>>
  BY DEF Ordered, PublisherTypes, BatchInv, RecordTypes
<1>2. NotifierTypes' /\ NotifierInv' /\ UNCHANGED projection
  BY <1>1 DEF NotifierTypes, NotifierInv, record
<1>3. CASE order.enabled /\ pub[p].seq >= order.next /\ (p = "run" => kept)
  <2> DEFINE n == pub[p].seq
             o == [order EXCEPT !.pending = @ \cup {n}]
             k == Cardinality(Ready(o))
             r == [pub[p] EXCEPT !.pc = IF Ready(o) = {} THEN "idle" ELSE "send",
                                 !.batch = Batch(o), !.seq = IF Ready(o) = {} THEN 0 ELSE @]
  <2>1. order \in [enabled : BOOLEAN, since : Nat, next : Nat, pending : SUBSET Nat]
        /\ n \in Nat /\ n <= projection.cursor /\ order.next <= n
    BY <1>1, <1>3 DEF PublisherTypes, Pub, Within
  <2>2. o.next = order.next /\ o.pending = order.pending \cup {n} /\ o.since = order.since
        /\ o.enabled = order.enabled
    BY <2>1
  <2>3. /\ order' = [o EXCEPT !.next = @ + k, !.pending = @ \ Ready(o)]
        /\ pub' = [pub EXCEPT ![p].pc = IF Ready(o) = {} THEN "idle" ELSE "send",
                              ![p].batch = Batch(o), ![p].seq = IF Ready(o) = {} THEN 0 ELSE @]
    BY <1>3 DEF Ordered
  <2>4. \A m \in o.pending : o.next <= m /\ m <= projection.cursor
    BY <1>1, <2>1, <2>2 DEF OrderInv
  <2>5. o.pending \subseteq Nat /\ o.next \in Nat
    BY <2>1, <2>2
  <2>6. o \in [enabled : BOOLEAN, since : Nat, next : Nat, pending : SUBSET Nat]
    BY <2>1, <2>2, <2>5
  <2> HIDE DEF o
  <2>7. /\ k \in Nat /\ (k = 0 <=> Ready(o) = {})
        /\ Batch(o) \in Seq(Nat) /\ Len(Batch(o)) = k
        /\ \A i \in 1..Len(Batch(o)) : Batch(o)[i] <= projection.cursor
        /\ \A m \in o.pending \ Ready(o) : o.next + k <= m
    BY <1>1, <2>4, <2>5, ReadyFacts
  <2>8. order'.next = o.next + k /\ order'.pending = o.pending \ Ready(o)
    BY <2>3, <2>6
  <2>9. order' \in [enabled : BOOLEAN, since : Nat, next : Nat, pending : SUBSET Nat]
    <3>1. o.next + k \in Nat /\ o.pending \ Ready(o) \in SUBSET Nat
      BY <2>5, <2>7
    <3>2. order' = [o EXCEPT !.next = o.next + k, !.pending = o.pending \ Ready(o)]
      BY <2>3
    <3> HIDE DEF k
    <3>3. QED
      BY <2>6, <3>1, <3>2
  <2>10. OrderInv'
    BY <1>2, <2>4, <2>7, <2>8 DEF OrderInv
  <2>11. pub' = [pub EXCEPT ![p] = r]
    BY <1>1, <2>3 DEF PublisherTypes, Pub
  <2>12. /\ r \in Pub /\ r.pc \in {"idle", "send"} /\ (r.pc = "send" => Ready(o) # {})
         /\ r.batch = Batch(o) /\ r.seq \in {0, pub[p].seq}
    BY <1>1, <2>7 DEF Pub, Pcs
  <2> HIDE DEF r
  <2>13. r.pc = "send" => r.batch # <<>>
    <3>1. Len(<<>>) = 0
      OBVIOUS
    <3>2. QED
      BY <2>7, <2>12, <3>1
  <2>14. Within(r, projection.cursor)
    BY <1>1, <2>1, <2>7, <2>12, <2>13 DEF Within
  <2>15. pub' \in [Publishers -> Pub] /\ RecordTypes' /\ CloseInv' /\ LaneInv' /\ BatchInv'
    BY <1>1, <2>11, <2>12, <2>14, PubOnly
  <2>16. QED
    BY <1>2, <2>9, <2>10, <2>15 DEF PublisherTypes
<1>4. CASE ~(order.enabled /\ pub[p].seq >= order.next /\ (p = "run" => kept))
  <2>1. pub' = [pub EXCEPT ![p] = Idle] /\ UNCHANGED <<order, notifier>>
    BY <1>4 DEF Ordered, notifier
  <2>2. Within(Idle, projection.cursor)
    BY <1>1, IdlePub DEF Within
  <2>3. pub' \in [Publishers -> Pub] /\ RecordTypes' /\ CloseInv' /\ LaneInv' /\ BatchInv'
    BY <1>1, <2>1, <2>2, IdlePub, PubOnly
  <2>4. QED
    BY <1>1, <1>2, <2>1, <2>3, RestedPlane
<1>5. QED
  BY <1>3, <1>4

\* The queue grows by an envelope that was committed.
LEMMA QueueGrows ==
  ASSUME NotifierTypes, NotifierInv, NEW c \in Nat, projection.cursor = c, NEW n \in Nat, n <= c,
         NEW who \in {"close", Nobody}, Len(backlog) < QueueCap,
         backlog' = Append(backlog, Work(n, who)), UNCHANGED <<projection, latest, hand, lastSent, on>>
  PROVE  NotifierTypes' /\ NotifierInv'
<1>1. backlog \in Seq(Works) /\ Work(n, who) \in Works /\ QueueCap \in Nat
  BY PlaneNames DEF NotifierTypes, Works, Work
<1>2. /\ backlog' \in Seq(Works) /\ Len(backlog') = Len(backlog) + 1 /\ Len(backlog) \in Nat
      /\ \A i \in 1..Len(backlog') : backlog'[i] = IF i <= Len(backlog) THEN backlog[i] ELSE Work(n, who)
  BY <1>1
<1>3. NotifierTypes'
  BY <1>1, <1>2 DEF NotifierTypes
<1>4. \A i \in 1..Len(backlog') : backlog'[i].seq <= c
  <2> SUFFICES ASSUME NEW i \in 1..Len(backlog') PROVE backlog'[i].seq <= c
    OBVIOUS
  <2>1. CASE i <= Len(backlog)
    BY <1>2, <2>1 DEF NotifierInv
  <2>2. CASE ~(i <= Len(backlog))
    BY <1>2, <2>2 DEF Work
  <2>3. QED
    BY <2>1, <2>2
<1>5. NotifierInv'
  BY <1>4 DEF NotifierInv
<1>6. QED
  BY <1>3, <1>5

\* The first of a publisher's batch was committed.
LEMMA BatchHead ==
  ASSUME PlaneInv, NEW p \in Publishers, pub[p].pc \in {"send", "full", "await"}
  PROVE  /\ Head(pub[p].batch) \in Nat /\ Head(pub[p].batch) <= projection.cursor
         /\ projection.cursor \in Nat /\ pub[p] \in Pub /\ Within(pub[p], projection.cursor)
<1>1. pub[p] \in Pub /\ Within(pub[p], projection.cursor) /\ projection.cursor \in Nat
  BY DEF PlaneInv, PlaneTypeOK, PublisherTypes, BatchInv, RecordTypes
<1>2. pub[p].batch \in Seq(Nat) /\ pub[p].batch # <<>>
  BY <1>1 DEF Pub, Within
<1>3. /\ Head(pub[p].batch) = pub[p].batch[1] /\ Head(pub[p].batch) \in Nat
      /\ 1 \in 1..Len(pub[p].batch)
  BY <1>2
<1>4. QED
  BY <1>1, <1>3 DEF Within

\* A publisher that has an envelope to send, and nothing else, moves on.
LEMMA PcMoves ==
  ASSUME PlaneInv, NEW p \in Publishers, pub[p].pc \in {"send", "full", "await"},
         NEW pc \in {"full", "await"}, pub' = [pub EXCEPT ![p].pc = pc], UNCHANGED <<record, closeStep>>
  PROVE  /\ pub' \in [Publishers -> Pub]
         /\ RecordTypes' /\ CloseInv' /\ LaneInv' /\ BatchInv'
<1> DEFINE r == [pub[p] EXCEPT !.pc = pc]
<1>1. pub[p] \in Pub /\ Within(pub[p], projection.cursor) /\ pub \in [Publishers -> Pub]
  BY BatchHead DEF PlaneInv, PlaneTypeOK, PublisherTypes
<1>2. r \in Pub /\ r.pc = pc /\ r.seq = pub[p].seq /\ r.batch = pub[p].batch
  BY <1>1 DEF Pub, Pcs
<1>3. Within(r, projection.cursor) /\ r.pc # "store"
  BY <1>1, <1>2 DEF Within
<1>4. pub' = [pub EXCEPT ![p] = r]
  BY <1>1 DEF Pub
<1> HIDE DEF r
<1>5. QED
  BY <1>2, <1>3, <1>4, PubOnly

LEMMA TrySendPlane ==
  ASSUME PlaneInv, NEW p \in Publishers, TrySend(p)
  PROVE  PlaneInv'
<1> USE DEF PlaneInv, PlaneTypeOK
<1>1. /\ pub[p].pc = "send" /\ UNCHANGED <<record, closeStep, order, latest, hand, lastSent, on>>
      /\ UNCHANGED projection
  BY DEF TrySend, record
<1>2. /\ Head(pub[p].batch) \in Nat /\ Head(pub[p].batch) <= projection.cursor /\ projection.cursor \in Nat
  BY <1>1, BatchHead
<1>3. pub' \in [Publishers -> Pub] /\ RecordTypes' /\ CloseInv' /\ LaneInv' /\ BatchInv'
  <2>1. CASE Advance(p)
    BY <1>1, <2>1, AdvanceMoves
  <2>2. CASE pub' = [pub EXCEPT ![p].pc = "full"]
    BY <1>1, <2>2, PcMoves
  <2>3. QED
    BY <2>1, <2>2 DEF TrySend
<1>4. NotifierTypes' /\ NotifierInv'
  <2>1. CASE UNCHANGED backlog
    BY <1>1, <2>1 DEF NotifierTypes, NotifierInv
  <2>2. CASE Len(backlog) < QueueCap /\ backlog' = Append(backlog, Work(Head(pub[p].batch), Nobody))
    BY <1>1, <1>2, <2>2, QueueGrows
  <2>3. QED
    BY <2>1, <2>2 DEF TrySend
<1>5. PublisherTypes' /\ OrderInv'
  BY <1>1, <1>3 DEF PublisherTypes, OrderInv
<1>6. QED
  BY <1>3, <1>4, <1>5

LEMMA SetLatestPlane ==
  ASSUME PlaneInv, NEW p \in Publishers, SetLatest(p)
  PROVE  PlaneInv'
<1> USE DEF PlaneInv, PlaneTypeOK
<1>1. /\ pub[p].pc = "full" /\ Advance(p) /\ UNCHANGED <<record, closeStep, order, backlog, hand, lastSent, on>>
      /\ UNCHANGED projection /\ latest' = [seq |-> Head(pub[p].batch), fresh |-> TRUE]
  BY DEF SetLatest, record
<1>2. Head(pub[p].batch) \in Nat /\ Head(pub[p].batch) <= projection.cursor
  BY <1>1, BatchHead
<1>3. pub' \in [Publishers -> Pub] /\ RecordTypes' /\ CloseInv' /\ LaneInv' /\ BatchInv'
  BY <1>1, AdvanceMoves
<1>4. latest' \in [seq : Nat, fresh : BOOLEAN] /\ latest'.seq <= projection.cursor
  BY <1>1, <1>2
<1>5. NotifierTypes' /\ NotifierInv'
  BY <1>1, <1>4 DEF NotifierTypes, NotifierInv
<1>6. PublisherTypes' /\ OrderInv'
  BY <1>1, <1>3 DEF PublisherTypes, OrderInv
<1>7. QED
  BY <1>3, <1>5, <1>6

LEMMA SendConfirmedPlane ==
  ASSUME PlaneInv, SendConfirmed
  PROVE  PlaneInv'
<1> USE DEF PlaneInv, PlaneTypeOK
<1> DEFINE n == Head(pub["close"].batch)
           mine == n = pub["close"].seq
<1>1. /\ "close" \in Publishers /\ pub["close"].pc = "send" /\ (on => Len(backlog) < QueueCap)
      /\ UNCHANGED <<record, closeStep, order, latest, hand, lastSent, on>> /\ UNCHANGED projection
  BY DEF SendConfirmed, record, Publishers
<1>2. n \in Nat /\ n <= projection.cursor /\ projection.cursor \in Nat
  BY <1>1, BatchHead
<1>3. pub' \in [Publishers -> Pub] /\ RecordTypes' /\ CloseInv' /\ LaneInv' /\ BatchInv'
  <2>1. CASE Advance("close")
    BY <1>1, <2>1, AdvanceMoves
  <2>2. CASE pub' = [pub EXCEPT !["close"].pc = "await"]
    BY <1>1, <2>2, PcMoves
  <2>3. CASE pub' = [pub EXCEPT !["close"] = Idle]
    <3>1. Within(Idle, projection.cursor)
      BY <1>2, IdlePub DEF Within
    <3>2. QED
      BY <1>1, <2>3, <3>1, IdlePub, PubOnly
  <2>4. QED
    BY <2>1, <2>2, <2>3 DEF SendConfirmed
<1>4. NotifierTypes' /\ NotifierInv'
  <2>1. CASE ~on
    BY <1>1, <2>1 DEF SendConfirmed, NotifierTypes, NotifierInv
  <2>2. CASE on
    <3>1. backlog' = Append(backlog, Work(n, IF mine THEN "close" ELSE Nobody)) /\ Len(backlog) < QueueCap
      BY <1>1, <2>2 DEF SendConfirmed
    <3>2. QED
      BY <1>1, <1>2, <3>1, QueueGrows
  <2>3. QED
    BY <2>1, <2>2
<1>5. PublisherTypes' /\ OrderInv'
  BY <1>1, <1>3 DEF PublisherTypes, OrderInv
<1>6. QED
  BY <1>3, <1>4, <1>5

LEMMA UnconfirmedPlane ==
  ASSUME PlaneInv, Unconfirmed
  PROVE  PlaneInv'
<1>1. /\ "close" \in Publishers /\ pub["close"].pc = "await" /\ Advance("close")
      /\ UNCHANGED <<record, closeStep, order, notifier>> /\ UNCHANGED projection
  BY DEF Unconfirmed, record, Publishers
<1>2. pub' \in [Publishers -> Pub] /\ RecordTypes' /\ CloseInv' /\ LaneInv' /\ BatchInv'
  BY <1>1, AdvanceMoves
<1>3. QED
  BY <1>1, <1>2, RestedPlane

(***************************************************************************)
(* The notifier                                                            *)
(***************************************************************************)
\* The confirmation moves the close on, or nothing.
LEMMA ConfirmMoves ==
  ASSUME PlaneInv, NEW work, Confirm(work) \/ UNCHANGED pub, UNCHANGED <<record, closeStep, order>>
  PROVE  RecordTypes' /\ PublisherTypes' /\ CloseInv' /\ LaneInv' /\ BatchInv' /\ OrderInv'
<1> USE DEF PlaneInv, PlaneTypeOK
<1>1. UNCHANGED <<projection, lifecycle, meta, store, lane, kept, running, closedCursor, closeStep, order>>
  BY DEF record
<1>2. OrderInv'
  BY <1>1 DEF OrderInv
<1>3. CASE UNCHANGED pub
  BY <1>1, <1>2, <1>3 DEF RecordTypes, PublisherTypes, CloseInv, LaneInv, BatchInv
<1>4. CASE pub["close"].pc = "await" /\ Advance("close")
  <2>1. "close" \in Publishers
    BY DEF Publishers
  <2>2. pub' \in [Publishers -> Pub] /\ RecordTypes' /\ CloseInv' /\ LaneInv' /\ BatchInv'
    BY <1>4, <2>1, AdvanceMoves
  <2>3. QED
    BY <1>1, <1>2, <2>2 DEF PublisherTypes
<1>5. QED
  BY <1>3, <1>4 DEF Confirm

\* What is taken was committed, and is new if it is written.
LEMMA TakeMoves ==
  ASSUME PlaneInv, NEW work \in Works, work.seq <= projection.cursor, Take(work), hand = NoWork,
         UNCHANGED <<record, closeStep, order, lastSent, on>>
  PROVE  /\ RecordTypes' /\ PublisherTypes' /\ CloseInv' /\ LaneInv' /\ BatchInv' /\ OrderInv'
         /\ hand' \in Works /\ hand'.seq <= projection.cursor /\ (hand' # NoWork => lastSent < hand'.seq)
<1>1. RecordTypes' /\ PublisherTypes' /\ CloseInv' /\ LaneInv' /\ BatchInv' /\ OrderInv'
  BY ConfirmMoves DEF Take
<1>2. hand \in Works /\ hand.seq <= projection.cursor /\ lastSent \in Nat /\ work.seq \in Nat
  BY DEF PlaneInv, PlaneTypeOK, NotifierTypes, NotifierInv, Works
<1>3. hand' \in Works /\ hand'.seq <= projection.cursor /\ (hand' # NoWork => lastSent < hand'.seq)
  BY <1>2 DEF Take
<1>4. QED
  BY <1>1, <1>3

LEMMA TakeQueuePlane ==
  ASSUME PlaneInv, TakeQueue
  PROVE  PlaneInv'
<1> USE DEF PlaneInv, PlaneTypeOK
<1>1. /\ hand = NoWork /\ backlog # <<>> /\ Take(Head(backlog)) /\ backlog' = Tail(backlog)
      /\ UNCHANGED <<record, closeStep, order, latest, lastSent, on>> /\ UNCHANGED projection
  BY DEF TakeQueue, record
<1>2. backlog \in Seq(Works) /\ Len(backlog) <= QueueCap /\ QueueCap \in Nat
  BY PlaneNames DEF NotifierTypes
<1>3. /\ Head(backlog) \in Works /\ Head(backlog) = backlog[1] /\ 1 \in 1..Len(backlog)
      /\ Tail(backlog) \in Seq(Works) /\ Len(Tail(backlog)) = Len(backlog) - 1
      /\ \A i \in 1..Len(Tail(backlog)) : Tail(backlog)[i] = backlog[i + 1]
  BY <1>1, <1>2
<1>4. Head(backlog).seq <= projection.cursor
  BY <1>3 DEF NotifierInv
<1>5. /\ RecordTypes' /\ PublisherTypes' /\ CloseInv' /\ LaneInv' /\ BatchInv' /\ OrderInv'
      /\ hand' \in Works /\ hand'.seq <= projection.cursor /\ (hand' # NoWork => lastSent < hand'.seq)
  BY <1>1, <1>3, <1>4, TakeMoves
<1>6. \A i \in 1..Len(backlog') : backlog'[i].seq <= projection.cursor
  BY <1>1, <1>2, <1>3 DEF NotifierInv
<1>7. Len(backlog') <= QueueCap /\ backlog' \in Seq(Works)
  BY <1>1, <1>2, <1>3
<1>8. NotifierTypes'
  BY <1>1, <1>5, <1>7 DEF NotifierTypes
<1>9. NotifierInv'
  BY <1>1, <1>5, <1>6 DEF NotifierInv
<1>10. QED
  BY <1>5, <1>8, <1>9

LEMMA TakeLatestPlane ==
  ASSUME PlaneInv, TakeLatest
  PROVE  PlaneInv'
<1> USE DEF PlaneInv, PlaneTypeOK
<1> DEFINE work == Work(latest.seq, Nobody)
<1>1. /\ hand = NoWork /\ Take(work) /\ latest' = [latest EXCEPT !.fresh = FALSE]
      /\ UNCHANGED <<record, closeStep, order, backlog, lastSent, on>> /\ UNCHANGED projection
  BY DEF TakeLatest, record
<1>2. work \in Works /\ work.seq <= projection.cursor /\ latest \in [seq : Nat, fresh : BOOLEAN]
  BY DEF NotifierTypes, NotifierInv, Work, Works
<1> HIDE DEF work
<1>3. /\ RecordTypes' /\ PublisherTypes' /\ CloseInv' /\ LaneInv' /\ BatchInv' /\ OrderInv'
      /\ hand' \in Works /\ hand'.seq <= projection.cursor /\ (hand' # NoWork => lastSent < hand'.seq)
  BY <1>1, <1>2, TakeMoves
<1>4. latest' \in [seq : Nat, fresh : BOOLEAN] /\ latest'.seq = latest.seq
  BY <1>1, <1>2
<1>5. NotifierTypes' /\ NotifierInv'
  BY <1>1, <1>3, <1>4 DEF NotifierTypes, NotifierInv
<1>6. QED
  BY <1>3, <1>5

LEMMA WritePlane ==
  ASSUME PlaneInv, Write
  PROVE  /\ PlaneInv' /\ UNCHANGED <<projection, closedCursor>> /\ on /\ on' = (lastSent' # closedCursor)
         /\ lastSent' \in (lastSent + 1)..projection.cursor
<1> USE DEF PlaneInv, PlaneTypeOK
<1>1. /\ on /\ hand # NoWork /\ lastSent' = hand.seq /\ hand' = NoWork /\ Confirm(hand)
      /\ on' = (hand.seq # closedCursor)
      /\ UNCHANGED <<record, closeStep, order, backlog, latest>> /\ UNCHANGED <<projection, closedCursor>>
  BY DEF Write, record
<1>2. RecordTypes' /\ PublisherTypes' /\ CloseInv' /\ LaneInv' /\ BatchInv' /\ OrderInv'
  BY <1>1, ConfirmMoves
<1>3. /\ lastSent \in Nat /\ hand.seq \in Nat /\ projection.cursor \in Nat
      /\ lastSent < hand.seq /\ hand.seq <= projection.cursor
  BY <1>1 DEF NotifierTypes, NotifierInv, Works, RecordTypes
<1>4. hand' \in Works /\ hand'.seq = 0 /\ on' \in BOOLEAN
  BY <1>1 DEF NoWork, Work, Works
<1>5. NotifierTypes'
  BY <1>1, <1>3, <1>4 DEF NotifierTypes
<1>6. NotifierInv'
  BY <1>1, <1>3, <1>4 DEF NotifierInv
<1>7. lastSent' \in (lastSent + 1)..projection.cursor /\ on' = (lastSent' # closedCursor)
  BY <1>1, <1>3
<1>8. QED
  BY <1>1, <1>2, <1>5, <1>6, <1>7

(***************************************************************************)
(* Every step                                                              *)
(***************************************************************************)
LEMMA StutterPlane ==
  ASSUME PlaneInv, UNCHANGED planeVars
  PROVE  PlaneInv' /\ UNCHANGED <<projection, closedCursor, lastSent, on>>
<1>1. UNCHANGED <<projection, lifecycle, meta, store, lane, kept, running, closedCursor, closeStep, pub, order, notifier>>
  BY DEF planeVars, record
<1>2. RecordTypes' /\ CloseInv' /\ LaneInv' /\ BatchInv' /\ pub' \in [Publishers -> Pub]
  BY <1>1 DEF PlaneInv, PlaneTypeOK, RecordTypes, PublisherTypes, CloseInv, LaneInv, BatchInv
<1>3. QED
  BY <1>1, <1>2, RestedPlane DEF notifier

\* Every step keeps the invariant, and is one that NotifiedFeed allows.
LEMMA NextPlane ==
  ASSUME PlaneInv, [PlaneNext]_planeVars
  PROVE  PlaneInv' /\ [Abstract!Next]_(Abstract!vars)
<1> USE DEF Abstract!vars
<1>1. ASSUME NEW active \in BOOLEAN, RunCommit(active)
      PROVE  PlaneInv' /\ [Abstract!Next]_(Abstract!vars)
  <2>1. PlaneInv' /\ closedCursor = 0
    BY <1>1, RunCommitPlane
  <2>2. projection'.cursor = projection.cursor + 1 /\ UNCHANGED <<closedCursor, lastSent, on>>
    BY <1>1, RetainCursor DEF RunCommit, Commit, notifier
  <2>3. QED
    BY <2>1, <2>2 DEF Abstract!Next, Abstract!Commit
<1>2. ASSUME NEW w \in Writers, ReadRevision(w)
      PROVE  PlaneInv' /\ [Abstract!Next]_(Abstract!vars)
  BY <1>2, ReadRevisionPlane DEF ReadRevision, record, notifier
<1>3. ASSUME NEW w \in Writers, NEW v \in Values, Replace(w, v)
      PROVE  PlaneInv' /\ [Abstract!Next]_(Abstract!vars)
  <2>1. PlaneInv' /\ (UNCHANGED <<projection, closedCursor>> \/ closedCursor = 0)
    BY <1>3, ReplacePlane
  <2>2. /\ UNCHANGED projection \/ projection'.cursor = projection.cursor + 1
        /\ UNCHANGED <<closedCursor, lastSent, on>>
    BY <1>3, RetainCursor DEF Replace, Commit, notifier
  <2>3. QED
    BY <2>1, <2>2 DEF Abstract!Next, Abstract!Commit
<1>4. ASSUME NEW w \in Writers, NEW ok \in BOOLEAN, StoreAnswers(w, ok)
      PROVE  PlaneInv' /\ [Abstract!Next]_(Abstract!vars)
  <2>1. PlaneInv' /\ (UNCHANGED <<projection, closedCursor>> \/ closedCursor = 0)
    BY <1>4, StoreAnswersPlane
  <2>2. /\ UNCHANGED projection \/ projection'.cursor = projection.cursor + 1
        /\ UNCHANGED <<closedCursor, lastSent, on>>
    BY <1>4, RetainCursor DEF StoreAnswers, Commit, notifier
  <2>3. QED
    BY <2>1, <2>2 DEF Abstract!Next, Abstract!Commit
<1>5. CASE BeginClosing \/ CompleteClosed
  <2>1. PlaneInv' /\ closedCursor = 0 /\ projection'.cursor = projection.cursor + 1 /\ closedCursor' \in {0, projection'.cursor}
    BY <1>5, ClosePlane
  <2>2. UNCHANGED <<lastSent, on>>
    BY <1>5 DEF BeginClosing, CompleteClosed, notifier
  <2>3. QED
    BY <2>1, <2>2 DEF Abstract!Next, Abstract!Commit
<1>6. CASE DetachRefused \/ AnswerClose \/ PruneOwner \/ RemoveOwner
  <2>1. PlaneInv' /\ UNCHANGED <<projection, closedCursor, lastSent>> /\ (UNCHANGED on \/ on' = FALSE) /\ on \in BOOLEAN
    BY <1>6, EndPlane DEF PlaneInv, PlaneTypeOK, NotifierTypes
  <2>2. CASE on' = on
    BY <2>1, <2>2
  <2>3. CASE on' # on
    BY <2>1, <2>3 DEF Abstract!Next, Abstract!Stop
  <2>4. QED
    BY <2>2, <2>3
<1>7. CASE Activate
  BY <1>7, ActivatePlane DEF Activate, record, notifier
<1>8. ASSUME NEW p \in Publishers, Ordered(p) \/ TrySend(p) \/ SetLatest(p)
      PROVE  PlaneInv' /\ [Abstract!Next]_(Abstract!vars)
  <2>1. PlaneInv'
    BY <1>8, OrderedPlane, TrySendPlane, SetLatestPlane
  <2>2. UNCHANGED <<projection, closedCursor, lastSent, on>>
    BY <1>8 DEF Ordered, TrySend, SetLatest, record, notifier
  <2>3. QED
    BY <2>1, <2>2
<1>9. CASE SendConfirmed \/ Unconfirmed \/ TakeQueue \/ TakeLatest
  <2>1. PlaneInv'
    BY <1>9, SendConfirmedPlane, UnconfirmedPlane, TakeQueuePlane, TakeLatestPlane
  <2>2. UNCHANGED <<projection, closedCursor, lastSent, on>>
    BY <1>9 DEF SendConfirmed, Unconfirmed, TakeQueue, TakeLatest, record, notifier
  <2>3. QED
    BY <2>1, <2>2
<1>10. CASE Write
  BY <1>10, WritePlane DEF Abstract!Next, Abstract!Send
<1>11. CASE UNCHANGED planeVars
  BY <1>11, StutterPlane
<1>12. QED
  BY <1>1, <1>2, <1>3, <1>4, <1>5, <1>6, <1>7, <1>8, <1>9, <1>10, <1>11 DEF PlaneNext

\* TypeOK and what each of the named parts of PlaneInv says, in every state
\* of the plane.
THEOREM PlaneAlwaysHolds == PlaneSpec => []PlaneInv
<1>1. PlaneInit => PlaneInv
  BY InitPlane
<1>2. PlaneInv /\ [PlaneNext]_planeVars => PlaneInv'
  BY NextPlane
<1>3. QED
  BY <1>1, <1>2, PTL DEF PlaneSpec

\* The store of a persistent session and its view tell the same metadata, and
\* Closed is its last event, whichever runs, writers and close commit under
\* the publication lane (replace_metadata, publish_run, complete_closed).
THEOREM RecordAlwaysAgrees == PlaneSpec => []RecordAgrees
<1>1. PlaneInv => RecordAgrees
  BY DEF PlaneInv, CloseInv, LaneInv, RecordAgrees, StoreFollows, ClosedIsLast
<1>2. QED
  BY <1>1, PlaneAlwaysHolds, PTL

\* The notifications of the plane are those of NotifiedFeed, though its queue
\* overflows and publishers overtake each other: events that were committed,
\* in cursor order, none twice and none behind Closed
\* (ManagementNotifier::ordered, publish, spawn_notifier).
THEOREM NotificationsAlwaysInOrder == PlaneSpec => NotifiesInOrder
<1>1. PlaneInit => Abstract!Init
  BY DEF PlaneInit, Abstract!Init, NewFeed, Feed
<1>2. PlaneInv /\ [PlaneNext]_planeVars => [Abstract!Next]_(Abstract!vars)
  BY NextPlane
<1>3. QED
  BY <1>1, <1>2, PlaneAlwaysHolds, PTL DEF PlaneSpec, NotifiesInOrder, Abstract!Spec
=============================================================================
