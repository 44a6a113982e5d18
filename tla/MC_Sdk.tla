------------------------------- MODULE MC_Sdk -------------------------------
(***************************************************************************)
(* Instances for TLC of the components of the SDK.  They share no state and *)
(* are checked one at a time in one run: `part` says which one moves and the *)
(* others rest.  ConnectionOwner and Initialization are extended and rest in *)
(* their initial state; of the others a variable that two have by the same  *)
(* name is that of the one that moves.  So the states are the disjoint union *)
(* of theirs, and a property says of each part what its module says of it.  *)
(***************************************************************************)
EXTENDS ConnectionOwner, Initialization, Sequences, FiniteSets

VARIABLES part,  \* the component that moves
          \* of several components
          phase, released, pc, reply, acked, held, closed, cleared,
          \* of SdkClient
          client, phaseLock, regLock, pending, tools, bindings, former,
          link, toDaemon, toHost, session, daemonTool,
          \* of RunRoutes
          answer, route, cached, waiters, sawLive, sawEnd, claimed, lastSeq,
          terminal, buffer, sending, lagged, reader, wire, run, emitted,
          \* of SessionBuild
          builder, pack, holder, listed, routes, call, closer, waiter,
          remote, drained

sdkOwn == <<client, phaseLock, regLock, pending, tools, bindings, former,
            link, toDaemon, toHost, session, daemonTool>>
routesOwn == <<answer, route, cached, waiters, sawLive, sawEnd, claimed,
               lastSeq, terminal, buffer, sending, lagged, reader, wire,
               run, emitted>>
buildOwn == <<builder, pack, holder, listed, routes, call, closer, waiter,
              remote, drained>>
shared == <<phase, released, pc, reply, acked, held, closed, cleared>>
vars == <<part, shared, sdkOwn, routesOwn, buildOwn, ownerVars, handshakeVars>>

\* Two registrations of one tool name, a close and a disconnect.
Client == INSTANCE SdkClient WITH
  Regs <- {"r1", "r2"}
\* A start, two queries, and a run of two events.
Routes == INSTANCE RunRoutes WITH
  Queries <- {"q1", "q2"}, LastSeq <- 2
\* A session of three packs, ...
Create == INSTANCE SessionBuild WITH
  NumPacks <- 3, Persistent <- FALSE
\* ... and a persistent one.
Attach == INSTANCE SessionBuild WITH
  NumPacks <- 3, Persistent <- TRUE

\* What a component that does not move keeps in its variables.
Rest == "rest"
SdkRests ==
  /\ client = Rest /\ phaseLock = Rest /\ regLock = Rest /\ pending = Rest
  /\ tools = Rest /\ bindings = Rest /\ former = Rest /\ link = Rest
  /\ toDaemon = Rest /\ toHost = Rest /\ session = Rest /\ daemonTool = Rest
RoutesRests ==
  /\ answer = Rest /\ route = Rest /\ cached = Rest /\ waiters = Rest
  /\ sawLive = Rest /\ sawEnd = Rest /\ claimed = Rest /\ lastSeq = Rest
  /\ terminal = Rest /\ buffer = Rest /\ sending = Rest /\ lagged = Rest
  /\ reader = Rest /\ wire = Rest /\ run = Rest /\ emitted = Rest
BuildRests ==
  /\ builder = Rest /\ pack = Rest /\ holder = Rest /\ listed = Rest
  /\ routes = Rest /\ call = Rest /\ closer = Rest /\ waiter = Rest
  /\ remote = Rest /\ drained = Rest
SharedRests ==
  /\ phase = Rest /\ released = Rest /\ pc = Rest /\ reply = Rest
  /\ acked = Rest /\ held = Rest /\ closed = Rest /\ cleared = Rest
\* The owner rests as that of an external daemon.
OwnerRests == OwnerInit /\ endpoint = "external"

Init ==
  \/ /\ part = "client" /\ Client!Init
     /\ RoutesRests /\ BuildRests /\ OwnerRests /\ HandshakeInit
     /\ held = Rest /\ closed = Rest /\ cleared = Rest
  \/ /\ part = "routes" /\ Routes!Init
     /\ SdkRests /\ BuildRests /\ OwnerRests /\ HandshakeInit
     /\ phase = Rest /\ released = Rest /\ reply = Rest /\ acked = Rest
  \/ /\ \/ part = "create" /\ Create!Init
        \/ part = "attach" /\ Attach!Init
     /\ SdkRests /\ RoutesRests /\ OwnerRests /\ HandshakeInit
     /\ released = Rest /\ pc = Rest /\ acked = Rest /\ held = Rest
  \/ /\ \/ part = "owner" /\ OwnerInit
        \/ part = "handshake" /\ OwnerRests
     /\ HandshakeInit
     /\ SdkRests /\ RoutesRests /\ BuildRests /\ SharedRests

Next ==
  \/ /\ part = "client" /\ Client!Next
     /\ UNCHANGED <<part, held, closed, cleared, routesOwn, buildOwn,
                   ownerVars, handshakeVars>>
  \/ /\ part = "routes" /\ Routes!Next
     /\ UNCHANGED <<part, phase, released, reply, acked, sdkOwn, buildOwn,
                   ownerVars, handshakeVars>>
  \/ /\ \/ part = "create" /\ Create!Next
        \/ part = "attach" /\ Attach!Next
     /\ UNCHANGED <<part, released, pc, acked, held, sdkOwn, routesOwn,
                   ownerVars, handshakeVars>>
  \/ /\ part = "owner" /\ OwnerNext
     /\ UNCHANGED <<part, shared, sdkOwn, routesOwn, buildOwn, handshakeVars>>
  \/ /\ part = "handshake" /\ HandshakeNext
     /\ UNCHANGED <<part, shared, sdkOwn, routesOwn, buildOwn, ownerVars>>

Spec == Init /\ [][Next]_vars

ASSUME SdkAssumption ==
  /\ Client!ClientAssumption /\ Routes!RouteAssumption
  /\ Create!BuildAssumption /\ Attach!BuildAssumption

clientVars == Client!vars
routesVars == Routes!vars
buildVars == Create!vars

\* A request ends by its timeout, and the tasks of the client are scheduled.
ClientFairness ==
  /\ \A a \in Client!Actors :
       WF_clientVars(part = "client" /\ (Client!RequestStep(a) \/ Client!Break(a)))
  /\ \A r \in {"r1", "r2"} : WF_clientVars(part = "client" /\ Client!RegistrationStep(r))
  /\ WF_clientVars(part = "client" /\ Client!CloseStep)
  /\ WF_clientVars(part = "client" /\ Client!DisconnectStep)

\* The reader and the tasks are scheduled; the daemon finishes its runs.
RoutesFairness ==
  /\ WF_routesVars(part = "routes" /\ Routes!ReaderStep)
  /\ WF_routesVars(part = "routes" /\ Routes!ClearRuns)
  /\ WF_routesVars(part = "routes" /\ Routes!Emit)
  /\ \A q \in {"q1", "q2"} : WF_routesVars(part = "routes" /\ Routes!QueryStep(q))

\* Tasks are scheduled, requests time out, and the hooks of the application and
\* its callbacks, which are cancelled, return.
BuildFairness ==
  /\ WF_buildVars(part = "create" /\ Create!BuilderStep)
  /\ WF_buildVars(part = "create" /\ Create!UnclaimedStep)
  /\ WF_buildVars(part = "create" /\ Create!CloserStep)
  /\ WF_buildVars(part = "create" /\ Create!PackStep)
  /\ WF_buildVars(part = "create" /\ Create!CallEnds)
  /\ WF_buildVars(part = "create" /\ Create!RemoteEof)
  /\ WF_buildVars(part = "create" /\ Create!Clear)
  /\ WF_buildVars(part = "create" /\ Create!Drain)

\* The runtime schedules the owner, its timers and the reaper, and wakes the
\* waiters; a killed process exits.  Reader, writer and server may hang.
OwnerFairness ==
  /\ WF_ownerVars(part = "owner" /\ OwnerStep)
  /\ WF_ownerVars(part = "owner" /\ Tick)
  /\ \A c \in Stoppers : WF_ownerVars(part = "owner" /\ Return(c))
  /\ WF_ownerVars(part = "owner" /\ BackgroundReap)
  /\ WF_ownerVars(part = "owner" /\ killed /\ ChildExits)

\* Tasks are scheduled, the deadline of the handshake passes, writes end, and
\* the cleanup completes (ConnectionOwner).
HandshakeFairness ==
  /\ WF_handshakeVars(part = "handshake" /\ WorkerStep)
  /\ WF_handshakeVars(part = "handshake" /\ clientClosed /\ Cleanup)
  /\ WF_handshakeVars(part = "handshake" /\ HandlerStep)
  /\ \A u \in Users : WF_handshakeVars(part = "handshake" /\ Proceed(u))
  /\ \A r \in Requests : WF_handshakeVars(part = "handshake" /\ Dispatch(r))

LiveSpec == /\ Spec /\ ClientFairness /\ RoutesFairness /\ BuildFairness
            /\ OwnerFairness /\ HandshakeFairness

(***************************************************************************)
(* Properties.                                                              *)
(***************************************************************************)

\* The client and its session agree with the daemon (lib.rs, sessions.rs): the
\* host never takes for open what the daemon closed, the binding the daemon
\* calls is one the host knows, what was closed leaves nothing in the maps, and
\* the handler bound to a name is that of the last successful registration (but
\* for one that met a close which was then rejected, see NameIsAcknowledged).
ClientAgrees ==
  part = "client" => /\ Client!TypeOK /\ Client!NothingLeft /\ Client!BindingKnown
                     /\ Client!OpenIsOpen /\ Client!NameIsAcknowledged

\* The events of a run reach its handles (run.rs): a handle without a result is
\* routed (but for a lookup made while a start was pending that then failed, see
\* HandleRouted), the route goes when the run is over, and a stream has every
\* event from the first and ends behind the last.
RunsReachHandles ==
  part = "routes" => /\ Routes!TypeOK /\ Routes!HandleRouted /\ Routes!RouteReleased
                     /\ Routes!StreamGapless /\ Routes!EndIsEnd

\* Building, attaching and closing a session leaks nothing (agent.rs): at rest
\* no pack is bound that belongs to no open session, no session is open in the
\* daemon that belongs to nobody, packs end in the reverse of their order, and
\* no callback runs while they are closed, as long as no disconnect has cleared
\* the callbacks: behind it one may run on (ToolsQuiet does not hold).
NothingLeaked ==
  /\ part = "create" =>
       /\ Create!TypeOK /\ Create!NothingLeaked /\ Create!NobodysSession
       /\ Create!ReverseOrder /\ Create!QuietClose
  /\ part = "attach" =>
       /\ Attach!TypeOK /\ Attach!NothingLeaked /\ Attach!NobodysSession
       /\ Attach!ReverseOrder /\ Attach!QuietClose

\* A pack that is closing, closed or fenced is not closed or fenced again.
PacksEndOnce ==
  [][/\ part = "create" => Create!EndsOnce
     /\ part = "attach" => Attach!EndsOnce]_vars

\* Somebody waits for the SDK: registrations and closes, handles, callers of
\* create_session, of shutdown and of the handshake, ...
Waits ==
  \/ part = "client" /\ Client!Busy
  \/ part = "routes" /\ Routes!Unresolved
  \/ part = "create" /\ Create!Unheard
  \/ part = "owner" /\ StopAsked /\ completion = NoOutcome
  \/ part = "handshake" /\ Initializing

\* ... or nobody does and something is left: the packs and the session of a
\* caller that left, a killed process, requests that wait for a handshake.
Left ==
  \/ part = "create" /\ Create!Abandoned
  \/ part = "owner" /\ Zombie
  \/ part = "handshake" /\ Gated

\* Whoever waits for the SDK hears from it, what is left is cleaned up, and a
\* cleanup that was begun reports, whatever hangs, fails or is dropped meanwhile.
CallsEnd ==
  (Waits ~> ~Waits) /\ (Left ~> ~Left) /\ Promise!ShutdownFairness
=============================================================================
