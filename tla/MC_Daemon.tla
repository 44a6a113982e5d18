----------------------------- MODULE MC_Daemon ------------------------------
(***************************************************************************)
(* Instances for TLC of the components of the daemon around a session.      *)
(* They share no state and are checked one at a time: `part` says which one *)
(* moves, the others rest, and a variable that two components have by the   *)
(* same name is that of the one that moves.  So the states are the disjoint *)
(* union of theirs, and a property says of each part what its module says   *)
(* of it.  Two runs check the safety of large instances, one the liveness   *)
(* of small ones.                                                           *)
(***************************************************************************)
EXTENDS Interactions, SessionLifecycle, SessionManagement

CONSTANTS Parts,           \* the parts that the run checks
          x1, x2     \* interactions, streams or connections

VARIABLES part,  \* the component that moves
          \* of several components
          rec, present, registered, cancelled, run, view,
          pending, active, phase, feed, worker, out, app, answered, lost,
          life, sent, closedAt, rx, walk,
          \* of RunRetention
          reg, lock, accepted, interact, session, clock, sweep, ended,
          executed,
          \* of HostBridge
          runCancelled, waiter, finished, slot, cancelTasks, toHost,
          toDaemon, link, daemonSide, invocation, output, callbacks,
          stopped, hostLate, client, progress, stream, told,
          \* of SessionViews
          ids, held, ring, dups, hub, lagged, term,
          \* of SessionProjection
          engine, hist, chan, asked, unsent, pend, clone, replica,
          reverted,
          \* of SessionCatalog
          ordinal, publishing, next, generation, expired, now,
          \* of SessionHistory
          archive,
          \* of InteractionFeed
          log, retired

retentionOwn == <<reg, lock, accepted, interact, session, clock, sweep,
                  ended, executed>>
hostOwn == <<runCancelled, waiter, finished, slot, cancelTasks, toHost,
             toDaemon, link, daemonSide, invocation, output, callbacks,
             stopped, hostLate, client, progress, stream, told>>
viewsOwn == <<ids, held, ring, dups, hub, lagged, term>>
projectionOwn == <<engine, hist, chan, asked, unsent, pend, clone, replica,
                   reverted>>
catalogOwn == <<ordinal, publishing, next, generation, expired, now>>
historyOwn == <<archive>>
requestsOwn == <<log, retired>>
shared == <<rec, present, registered, cancelled, run, view,
            pending, active, phase, feed, worker, out, app, answered, lost,
            life, sent, closedAt, rx, walk>>
vars == <<part, shared, interactionsVars, retentionOwn, hostOwn, viewsOwn,
          projectionOwn, planeVars, catalogOwn, historyOwn, sessionsVars,
          requestsOwn>>

\* A question of a host tool, asked twice, with one answer, for the liveness, ...
Asked == INSTANCE Interactions WITH
  Requests <- {"h"}, Typed <- {}, Hosted <- {"h"}, Responses <- {"yes"},
  Valid <- {"yes"}, Doors <- {"generic"}, GenBound <- 2,
  Responders <- {"p1", "p2"}, Enabled <- TRUE, MaxPending <- 2
\* ... and an approval whose answer may be invalid.
Approved == INSTANCE Interactions WITH
  Requests <- {"a"}, Typed <- {"a"}, Hosted <- {}, Responses <- {"yes", "bad"},
  Valid <- {"yes"}, Doors <- {"generic", "typed", "core"}, GenBound <- 1,
  Responders <- {"p1"}, Enabled <- TRUE, MaxPending <- 2
\* Three runs, one of which is kept.
Retention == INSTANCE RunRetention WITH
  RunIds <- {1, 2, 3}, Ttl <- 2, MaxKept <- 1, MaxAccepted <- 2,
  ClockBound <- 3
\* A tool call with its progress, answered through both doors, ...
Tool == INSTANCE HostBridge WITH
  Tools <- {"t1"}, Contexts <- {}, Doors <- {"response", "result"},
  HasDeadline <- FALSE
\* ... the same with a deadline, ...
Call == INSTANCE HostBridge WITH
  Tools <- {"t1"}, Contexts <- {}, Doors <- {"response"},
  HasDeadline <- TRUE
\* ... and a context call.
Context == INSTANCE HostBridge WITH
  Tools <- {}, Contexts <- {"k1"}, Doors <- {"response", "result"},
  HasDeadline <- TRUE
\* Two runs and a subscriber of one attachment, ...
Views == INSTANCE SessionViews WITH
  MaxEvents <- 2, MaxBytes <- 3, Runs <- {"r1", "r2"}, Sizes <- {1},
  RingCap <- 1, HubCap <- 1, OutCap <- 1, PageLimit <- 1, SeqBound <- 3,
  Streams <- 1, DupBound <- 0
\* ... a session that is attached again, with an event too large to keep, ...
Reattach == INSTANCE SessionViews WITH
  MaxEvents <- 1, MaxBytes <- 3, Runs <- {"r1"}, Sizes <- {1, 4},
  RingCap <- 1, HubCap <- 1, OutCap <- 1, PageLimit <- 1, SeqBound <- 2,
  Streams <- 2, DupBound <- 0
\* ... a notification that is repeated, ...
Repeated == INSTANCE SessionViews WITH
  MaxEvents <- 1, MaxBytes <- 3, Runs <- {"r1"}, Sizes <- {1}, RingCap <- 1,
  HubCap <- 1, OutCap <- 1, PageLimit <- 1, SeqBound <- 2, Streams <- 1,
  DupBound <- 1
\* ... and a subscriber that lags.
CatchUp == INSTANCE SessionViews WITH
  MaxEvents <- 1, MaxBytes <- 3, Runs <- {"r1"}, Sizes <- {1}, RingCap <- 1,
  HubCap <- 1, OutCap <- 1, PageLimit <- 1, SeqBound <- 3, Streams <- 1,
  DupBound <- 0
\* A run with two items, two results and two approvals.
Projected == INSTANCE SessionProjection WITH
  ModelItems <- <<"i1", "i2">>, Results <- <<"o1", "o2">>,
  Approvals <- {"a1", "a2"}, WindowCap <- 3, ClientCap <- 1, ChanCap <- 2
\* The close of an ephemeral session that has a run and a writer of its metadata,
\* while SessionManagement itself has two writers of a stored one that any request
\* of the owner may prune.
Closing == INSTANCE SessionManagement WITH
  MaxEvents <- 1, MaxBytes <- 8, Writers <- {"w1"}, Values <- {"v1"},
  Persistent <- FALSE, Oversized <- FALSE, QueueCap <- 1, SeqBound <- 2
\* Two streams of the management events, ...
Streams == INSTANCE SessionStreams WITH
  MaxEvents <- 1, MaxBytes <- 8, HubCap <- 1, OutCap <- 1, PageLimit <- 1,
  SeqBound <- 1, Subs <- {x1, x2}
\* ... of which nothing comes but Closed, for the liveness, ...
Pair == INSTANCE SessionStreams WITH
  MaxEvents <- 1, MaxBytes <- 8, HubCap <- 1, OutCap <- 1, PageLimit <- 1,
  SeqBound <- 0, Subs <- {x1, x2}
\* ... and one with more events.
Stream == INSTANCE SessionStreams WITH
  MaxEvents <- 2, MaxBytes <- 8, HubCap <- 1, OutCap <- 1, PageLimit <- 1,
  SeqBound <- 2, Subs <- {"s1"}
\* Three sessions, one of them large, listed in pages of two.
Catalog == INSTANCE SessionCatalog WITH
  Sessions <- {"a", "b", "c"}, Large <- {"c"}, MaxClosed <- 2,
  MaxBytes <- 3, Ttl <- 1, CursorTtl <- 2, PageLimit <- 2, PageBytes <- 2,
  ClockBound <- 2
\* Six items, of which three are kept, read in pages of two.
History == INSTANCE SessionHistory WITH
  Sizes <- {1, 2, 4, 5}, MaxItems <- 3, MaxBytes <- 4, PageLimit <- 2,
  PageBytes <- 3, ItemBound <- 6
\* Two interactions and a stream of them, ...
Requested == INSTANCE InteractionFeed WITH
  MaxEvents <- 1, MaxBytes <- 8, HubCap <- 1, OutCap <- 1, PageLimit <- 1,
  Ids <- {x1, x2}, Subs <- {"s1"}
\* ... and one.
OneRequest == INSTANCE InteractionFeed WITH
  MaxEvents <- 1, MaxBytes <- 8, HubCap <- 1, OutCap <- 1, PageLimit <- 1,
  Ids <- {"i1"}, Subs <- {"s1"}

\* What a component that does not move keeps in its variables.
Rest == "rest"
RetentionRests ==
  /\ reg = Rest /\ lock = Rest /\ accepted = Rest /\ interact = Rest
  /\ session = Rest /\ clock = Rest /\ sweep = Rest /\ ended = Rest
  /\ executed = Rest
HostRests ==
  /\ runCancelled = Rest /\ waiter = Rest /\ finished = Rest /\ slot = Rest
  /\ cancelTasks = Rest /\ toHost = Rest /\ toDaemon = Rest /\ link = Rest
  /\ daemonSide = Rest /\ invocation = Rest /\ output = Rest
  /\ callbacks = Rest /\ stopped = Rest /\ hostLate = Rest /\ client = Rest
  /\ progress = Rest /\ stream = Rest /\ told = Rest
ViewsRests ==
  /\ ids = Rest /\ held = Rest /\ ring = Rest /\ dups = Rest /\ hub = Rest
  /\ lagged = Rest /\ term = Rest
ProjectionRests ==
  /\ engine = Rest /\ hist = Rest /\ chan = Rest /\ asked = Rest
  /\ unsent = Rest /\ pend = Rest /\ clone = Rest /\ replica = Rest
  /\ reverted = Rest
CatalogRests ==
  /\ ordinal = Rest /\ publishing = Rest /\ next = Rest /\ generation = Rest
  /\ expired = Rest /\ now = Rest
HistoryRests ==
  /\ archive = Rest
RequestsRests ==
  /\ log = Rest /\ retired = Rest
SharedRests ==
  /\ rec = Rest /\ present = Rest /\ registered = Rest 
  /\ cancelled = Rest /\ run = Rest /\ view = Rest
  /\ pending = Rest /\ active = Rest /\ phase = Rest /\ feed = Rest
  /\ worker = Rest /\ out = Rest /\ app = Rest /\ answered = Rest
  /\ lost = Rest /\ life = Rest /\ sent = Rest /\ closedAt = Rest
  /\ rx = Rest /\ walk = Rest

Interacting == part \in {"question", "approval", "refusal"}

PartInit ==
  \/ /\ \/ Interacting /\ InteractionsInit
        \/ part = "asked" /\ Asked!InteractionsInit
        \/ part = "approved" /\ Approved!InteractionsInit
     /\ RetentionRests /\ HostRests /\ ViewsRests /\ ProjectionRests
     /\ PlaneInit /\ CatalogRests /\ HistoryRests /\ SessionsInit
     /\ RequestsRests /\ SharedRests
  \/ /\ part = "retention" /\ Retention!Init
     /\ InteractionsInit /\ HostRests /\ ViewsRests /\ ProjectionRests
     /\ PlaneInit /\ CatalogRests /\ HistoryRests /\ SessionsInit
     /\ RequestsRests /\ rec = Rest /\ present = Rest /\ registered = Rest
     /\ cancelled = Rest /\ pending = Rest
     /\ active = Rest /\ phase = Rest /\ feed = Rest /\ worker = Rest
     /\ out = Rest /\ app = Rest /\ answered = Rest /\ lost = Rest
     /\ life = Rest /\ sent = Rest /\ closedAt = Rest
     /\ rx = Rest /\ walk = Rest
  \/ /\ \/ part = "tool" /\ Tool!Init
        \/ part = "call" /\ Call!Init
        \/ part = "context" /\ Context!Init
     /\ InteractionsInit /\ RetentionRests /\ ViewsRests /\ ProjectionRests
     /\ PlaneInit /\ CatalogRests /\ HistoryRests /\ SessionsInit
     /\ RequestsRests /\ rec = Rest /\ present = Rest /\ registered = Rest
     /\ run = Rest /\ view = Rest
     /\ feed = Rest /\ worker = Rest /\ out = Rest /\ app = Rest
     /\ answered = Rest /\ lost = Rest /\ life = Rest
     /\ sent = Rest /\ closedAt = Rest /\ rx = Rest /\ walk = Rest
  \/ /\ \/ part = "views" /\ Views!Init
        \/ part = "reattach" /\ Reattach!Init
        \/ part = "repeated" /\ Repeated!Init
        \/ part = "catch_up" /\ CatchUp!Init
     /\ InteractionsInit /\ RetentionRests /\ HostRests /\ ProjectionRests
     /\ PlaneInit /\ CatalogRests /\ HistoryRests /\ SessionsInit
     /\ RequestsRests /\ rec = Rest /\ registered = Rest 
     /\ cancelled = Rest /\ run = Rest /\ view = Rest
     /\ pending = Rest /\ phase = Rest /\ answered = Rest /\ lost = Rest
     /\ life = Rest /\ sent = Rest /\ closedAt = Rest
     /\ rx = Rest /\ walk = Rest
  \/ /\ part = "projected" /\ Projected!Init
     /\ InteractionsInit /\ RetentionRests /\ HostRests /\ ViewsRests
     /\ PlaneInit /\ CatalogRests /\ HistoryRests /\ SessionsInit
     /\ RequestsRests /\ present = Rest /\ registered = Rest 
     /\ cancelled = Rest /\ run = Rest /\ pending = Rest
     /\ active = Rest /\ phase = Rest /\ feed = Rest /\ worker = Rest
     /\ out = Rest /\ app = Rest /\ life = Rest
     /\ sent = Rest /\ closedAt = Rest /\ rx = Rest /\ walk = Rest
  \/ /\ \/ part = "metadata" /\ PlaneInit
        \/ part = "closing" /\ Closing!PlaneInit
     /\ InteractionsInit /\ RetentionRests /\ HostRests /\ ViewsRests
     /\ ProjectionRests /\ CatalogRests /\ HistoryRests /\ SessionsInit
     /\ RequestsRests /\ SharedRests
  \/ /\ \/ part = "streams" /\ Streams!Init
        \/ part = "pair" /\ Pair!Init
        \/ part = "stream" /\ Stream!Init
     /\ InteractionsInit /\ RetentionRests /\ HostRests /\ ViewsRests
     /\ ProjectionRests /\ PlaneInit /\ CatalogRests /\ HistoryRests
     /\ SessionsInit /\ RequestsRests /\ rec = Rest 
     /\ cancelled = Rest /\ view = Rest /\ pending = Rest
     /\ phase = Rest /\ life = Rest /\ walk = Rest
  \/ /\ part = "catalog" /\ Catalog!Init
     /\ InteractionsInit /\ RetentionRests /\ HostRests /\ ViewsRests
     /\ ProjectionRests /\ PlaneInit /\ HistoryRests /\ SessionsInit
     /\ RequestsRests /\ rec = Rest /\ present = Rest /\ registered = Rest
     /\ cancelled = Rest /\ run = Rest
     /\ view = Rest /\ pending = Rest /\ active = Rest /\ phase = Rest
     /\ feed = Rest /\ worker = Rest /\ out = Rest /\ app = Rest
     /\ answered = Rest /\ lost = Rest /\ sent = Rest
     /\ rx = Rest
  \/ /\ part = "history" /\ History!Init
     /\ InteractionsInit /\ RetentionRests /\ HostRests /\ ViewsRests
     /\ ProjectionRests /\ PlaneInit /\ CatalogRests /\ SessionsInit
     /\ RequestsRests /\ rec = Rest /\ present = Rest /\ registered = Rest
     /\ cancelled = Rest /\ run = Rest
     /\ view = Rest /\ pending = Rest /\ active = Rest /\ phase = Rest
     /\ feed = Rest /\ worker = Rest /\ out = Rest /\ app = Rest
     /\ answered = Rest /\ lost = Rest /\ life = Rest
     /\ sent = Rest /\ closedAt = Rest /\ rx = Rest
  \/ /\ part = "sessions" /\ SessionsInit
     /\ InteractionsInit /\ RetentionRests /\ HostRests /\ ViewsRests
     /\ ProjectionRests /\ PlaneInit /\ CatalogRests /\ HistoryRests
     /\ RequestsRests /\ SharedRests
  \/ /\ \/ part = "requests" /\ Requested!Init
        \/ part = "request" /\ OneRequest!Init
     /\ InteractionsInit /\ RetentionRests /\ HostRests /\ ViewsRests
     /\ ProjectionRests /\ PlaneInit /\ CatalogRests /\ HistoryRests
     /\ SessionsInit /\ rec = Rest /\ registered = Rest 
     /\ cancelled = Rest /\ run = Rest /\ view = Rest
     /\ active = Rest /\ answered = Rest /\ life = Rest
     /\ closedAt = Rest /\ walk = Rest

Init == part \in Parts /\ PartInit

\* The interactions in three parts: a question of a host tool that may be asked
\* twice and answered in two ways; an approval that two responders give through
\* any door; and one whose only responder may send what does not fit.
Only(asks, doors, values, responders) ==
  /\ checked' \subseteq asks
  /\ \A g \in Gens : ticket'[g].req \in asks \cup {"none"}
  /\ \A p \in Responders : resp'[p].pc # "idle" =>
       p \in responders /\ resp'[p].req \in asks /\ resp'[p].door \in doors /\ resp'[p].val \in values
Concerns ==
  \/ part = "question" /\ Only({"h"}, {"generic"}, {"yes", "no"}, Responders)
  \/ part = "approval" /\ Only({"a"}, Doors, {"yes"}, Responders)
  \/ part = "refusal" /\ Only({"a"}, Doors, {"yes", "bad"}, {"p1"})

Next ==
  \/ /\ \/ Interacting /\ InteractionsNext /\ Concerns
        \/ part = "asked" /\ Asked!InteractionsNext
        \/ part = "approved" /\ Approved!InteractionsNext
     /\ UNCHANGED <<part, shared, retentionOwn, hostOwn, viewsOwn,
                   projectionOwn, planeVars, catalogOwn, historyOwn,
                   sessionsVars, requestsOwn>>
  \/ /\ part = "retention" /\ Retention!Next
     /\ UNCHANGED <<part, rec, present, registered, cancelled,
                   pending, active, phase, feed, worker, out, app, answered,
                   lost, life, sent, closedAt, rx, walk,
                   interactionsVars, hostOwn, viewsOwn, projectionOwn,
                   planeVars, catalogOwn, historyOwn, sessionsVars,
                   requestsOwn>>
  \/ /\ \/ part = "tool" /\ Tool!Next
        \/ part = "call" /\ Call!Next
        \/ part = "context" /\ Context!Next
     /\ UNCHANGED <<part, rec, present, registered, run, view,
                   feed, worker, out, app, answered, lost, life, sent, closedAt, rx, walk, interactionsVars, retentionOwn,
                   viewsOwn, projectionOwn, planeVars, catalogOwn,
                   historyOwn, sessionsVars, requestsOwn>>
  \/ /\ \/ part = "views" /\ Views!Next
        \/ part = "reattach" /\ Reattach!Next
        \/ part = "repeated" /\ Repeated!Next
        \/ part = "catch_up" /\ CatchUp!Next
     /\ UNCHANGED <<part, rec, registered, cancelled, run, view,
                   pending, phase, answered, lost, life, sent,
                   closedAt, rx, walk, interactionsVars, retentionOwn,
                   hostOwn, projectionOwn, planeVars, catalogOwn,
                   historyOwn, sessionsVars, requestsOwn>>
  \/ /\ part = "projected" /\ Projected!Next
     /\ UNCHANGED <<part, present, registered, cancelled, run,
                   pending, active, phase, feed, worker, out, app, life,
                   sent, closedAt, rx, walk, interactionsVars,
                   retentionOwn, hostOwn, viewsOwn, planeVars,
                   catalogOwn, historyOwn, sessionsVars, requestsOwn>>
  \/ /\ \/ part = "metadata" /\ PlaneNext
        \/ part = "closing" /\ Closing!PlaneNext
     /\ UNCHANGED <<part, shared, interactionsVars, retentionOwn, hostOwn,
                   viewsOwn, projectionOwn, catalogOwn, historyOwn,
                   sessionsVars, requestsOwn>>
  \/ /\ \/ part = "streams" /\ Streams!Next
        \/ part = "pair" /\ Pair!Next
        \/ part = "stream" /\ Stream!Next
     /\ UNCHANGED <<part, rec, cancelled, view, pending, phase,
                   life, walk, interactionsVars, retentionOwn,
                   hostOwn, viewsOwn, projectionOwn, planeVars,
                   catalogOwn, historyOwn, sessionsVars, requestsOwn>>
  \/ /\ part = "catalog" /\ Catalog!Next
     /\ UNCHANGED <<part, rec, present, registered, cancelled,
                   run, view, pending, active, phase, feed, worker, out,
                   app, answered, lost, sent, rx, interactionsVars,
                   retentionOwn, hostOwn, viewsOwn, projectionOwn,
                   planeVars, historyOwn, sessionsVars, requestsOwn>>
  \/ /\ part = "history" /\ History!Next
     /\ UNCHANGED <<part, rec, present, registered, cancelled,
                   run, view, pending, active, phase, feed, worker, out,
                   app, answered, lost, life, sent, closedAt, rx,
                   interactionsVars, retentionOwn, hostOwn, viewsOwn,
                   projectionOwn, planeVars, catalogOwn, sessionsVars,
                   requestsOwn>>
  \/ /\ part = "sessions" /\ SessionsNext
     /\ UNCHANGED <<part, shared, interactionsVars, retentionOwn, hostOwn,
                   viewsOwn, projectionOwn, planeVars, catalogOwn,
                   historyOwn, requestsOwn>>
  \/ /\ \/ part = "requests" /\ Requested!Next
        \/ part = "request" /\ OneRequest!Next
     /\ UNCHANGED <<part, rec, registered, cancelled, run, view,
                   active, answered, life, closedAt, walk,
                   interactionsVars, retentionOwn, hostOwn, viewsOwn,
                   projectionOwn, planeVars, catalogOwn, historyOwn,
                   sessionsVars>>

\* Interactions, streams and connections are interchangeable.
Symmetric == Permutations({x1, x2})

Spec == Init /\ [][Next]_vars

ASSUME DaemonAssumption ==
  /\ Asked!InteractionsAssumption /\ Approved!InteractionsAssumption
  /\ Retention!RetentionAssumption
  /\ Tool!BridgeAssumption /\ Call!BridgeAssumption /\ Context!BridgeAssumption
  /\ Views!SessionViewsAssumption /\ Views!LimitsPositive
  /\ Reattach!SessionViewsAssumption /\ Repeated!SessionViewsAssumption
  /\ CatchUp!SessionViewsAssumption
  /\ Projected!SessionProjectionAssumption
  /\ Closing!SessionManagementAssumption
  /\ Streams!SessionStreamsAssumption /\ Pair!SessionStreamsAssumption
  /\ Stream!SessionStreamsAssumption
  /\ Catalog!SessionCatalogAssumption /\ History!SessionHistoryAssumption
  /\ Requested!InteractionFeedAssumption /\ OneRequest!InteractionFeedAssumption

retentionVars == Retention!vars
hostVars == Call!vars
viewsVars == CatchUp!vars
streamsVars == Stream!vars
requestsVars == OneRequest!vars

\* The runtime schedules the tools, the responders, the run and the close.
InteractionsFairness ==
  /\ \A g \in 1 .. 2 : WF_interactionsVars(part = "asked" /\ Asked!ProducerStep(g))
  /\ \A p \in {"p1", "p2"} : WF_interactionsVars(part = "asked" /\ Asked!RespondStep(p))
  /\ WF_interactionsVars(part = "asked" /\ Asked!ExecStep)
  /\ WF_interactionsVars(part = "asked" /\ Asked!CloseStep)
  /\ WF_interactionsVars(part = "approved" /\ Approved!ProducerStep(1))
  /\ WF_interactionsVars(part = "approved" /\ Approved!RespondStep("p1"))
  /\ WF_interactionsVars(part = "approved" /\ Approved!ExecStep)
  /\ WF_interactionsVars(part = "approved" /\ Approved!CloseStep)

\* The timer of the retention worker fires for ever.
RetentionFairness == WF_retentionVars(part = "retention" /\ Retention!Retire)

\* The runtime schedules every task; a deadline that has passed for the host
\* passes for the daemon; a reader that loses the connection disconnects the
\* client.  The handler of the tool returns; that of the context may run for
\* ever but heeds its cancellation.
HostFairness ==
  /\ \A step \in Call!ScheduledSteps :
       /\ WF_hostVars(part = "call" /\ Call!Scheduled(step, "t1"))
       /\ WF_hostVars(part = "context" /\ Context!Scheduled(step, "k1"))
  /\ WF_hostVars(part = "call" /\ \E m \in toDaemon : Call!HandleAnswer(m))
  /\ WF_hostVars(part = "context" /\ \E m \in toDaemon : Context!HandleAnswer(m))
  /\ WF_hostVars(part = "call" /\ Call!ReaderStep)
  /\ WF_hostVars(part = "context" /\ Context!ReaderStep)
  /\ WF_hostVars(part = "call" /\ Call!SessionStep)
  /\ WF_hostVars(part = "context" /\ Context!SessionStep)
  /\ WF_hostVars(part = "call" /\ hostLate /\ Call!CancelRun)
  /\ WF_hostVars(part = "context" /\ hostLate /\ Context!CancelRun)
  /\ WF_hostVars(part = "call" /\ ~link /\ Call!Disconnect)
  /\ WF_hostVars(part = "context" /\ ~link /\ Context!Disconnect)
  /\ WF_hostVars(part = "call" /\ Call!Return("t1"))
  /\ WF_hostVars(part = "context" /\ Context!IsCancelled("k1") /\ Context!Return("k1"))

\* A run publishes what it committed, the notifier writes, the worker and the
\* application go on, and a close that the daemon carried out is answered.
ViewsFairness ==
  /\ WF_viewsVars(part = "catch_up" /\ CatchUp!Publish("r1"))
  /\ WF_viewsVars(part = "catch_up" /\ CatchUp!Notify(FALSE))
  /\ WF_viewsVars(part = "catch_up" /\ CatchUp!Terminate("closed"))
  /\ WF_viewsVars(part = "catch_up" /\ CatchUp!GetSnapshot)
  /\ WF_viewsVars(part = "catch_up" /\ CatchUp!AskPage)
  /\ WF_viewsVars(part = "catch_up" /\ CatchUp!ReplayEvent)
  /\ WF_viewsVars(part = "catch_up" /\ CatchUp!PageDone)
  /\ WF_viewsVars(part = "catch_up" /\ CatchUp!LiveEvent)
  /\ WF_viewsVars(part = "catch_up" /\ CatchUp!LiveLagged)
  /\ WF_viewsVars(part = "catch_up" /\ CatchUp!WorkerFails)
  /\ WF_viewsVars(part = "catch_up" /\ CatchUp!WorkerStops)
  /\ WF_viewsVars(part = "catch_up" /\ CatchUp!Recv)

\* Every task that can move does, and the connection takes what is written to
\* it.
ManagementFairness ==
  /\ WF_planeVars(part = "closing" /\ (Closing!CompleteClosed \/ Closing!DetachRefused))
  /\ WF_planeVars(part = "closing" /\ Closing!AnswerClose)
  /\ \A p \in {"run", "close", "w1"} :
       /\ WF_planeVars(part = "closing" /\ Closing!Ordered(p))
       /\ WF_planeVars(part = "closing" /\ Closing!TrySend(p))
       /\ WF_planeVars(part = "closing" /\ Closing!SetLatest(p))
  /\ WF_planeVars(part = "closing" /\ Closing!SendConfirmed)
  /\ WF_planeVars(part = "closing" /\ Closing!Unconfirmed)
  /\ WF_planeVars(part = "closing" /\ Closing!TakeQueue)
  /\ WF_planeVars(part = "closing" /\ Closing!TakeLatest)
  /\ WF_planeVars(part = "closing" /\ Closing!Write)

\* The runtime runs the workers, the notifiers send the latest event, a close
\* that was committed is answered, and the application receives.
StreamsFairness ==
  /\ WF_streamsVars(part = "stream" /\ Stream!Notify(feed.cursor))
  /\ WF_streamsVars(part = "stream" /\ Stream!AnswerClose)
  /\ WF_streamsVars(part = "stream" /\ Stream!Work("s1"))
  /\ WF_streamsVars(part = "stream" /\ Stream!Recv("s1"))
  /\ WF_streamsVars(part = "pair" /\ Pair!Notify(feed.cursor))
  /\ WF_streamsVars(part = "pair" /\ Pair!AnswerClose)
  /\ \A s \in {x1, x2} : /\ WF_streamsVars(part = "pair" /\ Pair!Work(s))
                         /\ WF_streamsVars(part = "pair" /\ Pair!Recv(s))
  /\ WF_requestsVars(part = "request" /\ OneRequest!NotifyTail)
  /\ WF_requestsVars(part = "request" /\ OneRequest!Work("s1"))
  /\ WF_requestsVars(part = "request" /\ OneRequest!Recv("s1"))

\* Every task that is ready is polled, and storage operations return.
LifecycleFairness ==
  /\ \A c \in Creators : WF_sessionsVars(part = "sessions" /\ CreatorStep(c))
  /\ \A t \in Threads :
       WF_sessionsVars(part = "sessions" /\ (JobDetach(t) \/ JobRemove(t) \/ JobSettle(t)))
  /\ \A h \in Hangups : WF_sessionsVars(part = "sessions" /\ HangupStep(h))

LiveSpec == /\ Spec /\ InteractionsFairness /\ RetentionFairness /\ HostFairness
            /\ ViewsFairness /\ ManagementFairness /\ StreamsFairness
            /\ LifecycleFairness

(***************************************************************************)
(* Safety.                                                                  *)
(***************************************************************************)

\* A run is executed once and retained as promised (retention.rs): it expires
\* only behind its final notification, nothing of it or of a closed session is
\* left, and expired runs count for the quota.
RetainedRuns ==
  part = "retention" =>
    /\ Retention!TypeOK /\ Retention!RunsOnce /\ Retention!SparesUndelivered
    /\ Retention!NothingLeft /\ Retention!QuotaHolds

\* A call of the host ends on both sides (host_tools.rs, callbacks.rs): what is
\* over is in no map, a cancellation that arrived is heeded, and a close is
\* reported behind the callbacks.
HostCallsEnd ==
  /\ part = "tool" => /\ Tool!TypeOK /\ Tool!NothingPending /\ Tool!CancelNotLost
                      /\ Tool!CloseDrains
  /\ part = "call" => /\ Call!NothingPending /\ Call!CancelNotLost /\ Call!CloseDrains
  /\ part = "context" => /\ Context!TypeOK /\ Context!NothingPending
                         /\ Context!CancelNotLost /\ Context!CloseDrains

\* A subscriber of the V1 views neither misses nor repeats an event and fails
\* only for a reason; the replay floor says the truth; a retired run leaves no
\* event behind (session_views.rs of daemon and SDK).
ViewsInOrder ==
  /\ part = "views" => /\ Views!TypeOK /\ Views!JournalContiguous /\ Views!SubscriberInOrder
                       /\ Views!FailsForCause /\ Views!RetiredIsScrubbed
  /\ part = "reattach" => /\ Reattach!TypeOK /\ Reattach!JournalContiguous
                          /\ Reattach!SubscriberInOrder
  /\ part = "repeated" => Repeated!JournalContiguous /\ Repeated!SubscriberInOrder

\* The view of a run takes every event of it, whoever commits in between.
\* Unless the outdated clone of a responder (interactions.rs:1359) took them back,
\* it also shows the approvals the run waits for, and a client that applies the
\* events has what the daemon would tell it.
ProjectionAgrees ==
  part = "projected" => /\ Projected!TypeOK /\ Projected!EventsApply
                        /\ Projected!PendingIsShown /\ Projected!ReplicaAgrees

\* The streams of the SDK deliver every event once and in order, end behind
\* Closed, and keep a replica that is what was pending at its cursor.  Closed is
\* notified before the close is answered, unless it was held back behind an
\* envelope that another publisher has yet to bring (session_management.rs:365)
\* or the owner's record was pruned meanwhile (session_management.rs:1284).
StreamsInOrder ==
  /\ part = "metadata" => ClosedBeforeAnswer
  /\ part = "closing" => Closing!ClosedBeforeAnswer
  /\ part = "streams" => /\ Streams!TypeOK /\ Streams!StreamInOrder /\ Streams!EndsWithClosed
  /\ part = "stream" => Stream!StreamInOrder /\ Stream!EndsWithClosed
  /\ part = "requests" => /\ Requested!TypeOK /\ Requested!ReplicaExact
                          /\ Requested!StreamInOrder
  /\ part = "request" => OneRequest!ReplicaExact /\ OneRequest!StreamInOrder

\* A listing of sessions is the window it froze, and tombstones are within
\* their limits; the pages of a history tile it down to what is kept.
PagesExact ==
  /\ part = "catalog" => /\ Catalog!TypeOK /\ Catalog!ListExact
                         /\ Catalog!TombstonesBounded
  /\ part = "history" => /\ History!TypeOK /\ History!ArchiveIsTail /\ History!PagesTile
                         /\ History!EndsAtFloor

\* Steps that retention may take: what expires or is pruned is the oldest and
\* beyond a limit, and every page of a history is one the SDK accepts.
RetiresOldest ==
  [][/\ part = "retention" => Retention!KeepsNewest
     /\ part = "catalog" => Catalog!FairPrune
     /\ part = "history" => History!PagesValid]_vars

\* An answer that arrives after its call was cancelled, failed or answered
\* changes nothing.
LateAnswerIgnored ==
  [][/\ part = "tool" => Tool!LateAnswerIgnored
     /\ part = "context" => Context!LateAnswerIgnored]_vars

(***************************************************************************)
(* Liveness.                                                                *)
(***************************************************************************)

\* What a close waits for without a limit, and nothing here sees to: the run of
\* the session ends, and its runs settle (finish_session_close).  CloseEnds of
\* RunLifecycle is this for a session with a journal; run_close shows a run
\* without one that never does.
RunsSettle ==
  /\ WF_planeVars(part = "closing" /\ running /\ Closing!RunCommit(FALSE))
  /\ \A t \in Threads : WF_sessionsVars(part = "sessions" /\ (JobRefused(t) \/ JobDrain(t)))

\* If the runs that a close waits for settle, nobody waits for ever: responders
\* of an interaction, the daemon for its host, the owner of a session for its
\* close, and the application for the end of a stream that its hub still
\* reaches; ...
Waits ==
  \/ part = "asked" /\ Asked!Responding
  \/ part = "approved" /\ Approved!Responding
  \/ part = "call" /\ Call!Awaited
  \/ part = "context" /\ Context!DroppedRuns
  \/ part = "closing" /\ Closing!CloseUnanswered
  \/ part = "stream" /\ Stream!StreamOpen
  \/ part = "pair" /\ Pair!StreamOpen
  \/ part = "request" /\ OneRequest!StreamOpen
  \/ part = "sessions" /\ CloseWaits

\* ... what is owed is delivered: a tool whose run is over is woken, an overdue
\* run is retired, a lost connection is cleaned up, and events and notifications
\* catch up with the session once they pause, unless an older notification took
\* the place of the latest one; ...
Owes ==
  \/ part = "asked" /\ Asked!Stranded
  \/ part = "retention" /\ Retention!Overdue
  \/ part = "catch_up" /\ CatchUp!Behind
  \/ part = "closing" /\ Closing!TailUnsent
  \/ part = "request" /\ OneRequest!Behind
  \/ part = "sessions" /\ CleanupOwed
DebtsPaid == RunsSettle => (Waits \/ Owes ~> ~(Waits \/ Owes))

\* ... and after a disconnect the host's registry becomes empty for good, a
\* callback that was being registered meanwhile included.
DisconnectDrains ==
  part = "context" /\ client = "gone" ~> [](part = "context" /\ Context!HostQuiet)
=============================================================================
