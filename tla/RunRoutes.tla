------------------------------ MODULE RunRoutes ------------------------------
(***************************************************************************)
(* How the SDK routes the events of one run to the handles of its callers   *)
(* (run.rs of the SDK, start_turn_internal, get_run and the turn.event arm  *)
(* of ClientState::incoming in lib.rs).                                     *)
(*                                                                          *)
(* A RunState holds the result and the buffered events; `runs` maps the run *)
(* to the state its events go to.  start_turn enters a state before it asks *)
(* the daemon and takes it out when it fails; get_run shares the state that *)
(* is entered or still held by somebody, or enters a new one under a lease  *)
(* that the last query to leave gives back.  The reader looks the route up, *)
(* hands it the event, and removes it after the last one, in three steps.   *)
(*                                                                          *)
(* A state is named after the call that made it.                            *)
(***************************************************************************)
EXTENDS Naturals, Sequences, SequencesExt

CONSTANTS Queries,      \* callers of get_run
          LastSeq       \* sequence number of the run's terminal event

Start == "start"
None == "none"
Callers == Queries \cup {Start}

RouteAssumption == /\ Start \notin Queries /\ None \notin Queries
                   /\ LastSeq \in Nat \ {0}

VARIABLES
  pc,       \* where each caller is
  held,     \* the state each caller works with
  answer,   \* the daemon's answer to each caller's request
  route,    \* the entry of `runs`
  cached,   \* the entry of run_handles, a weak reference
  waiters,  \* leases on each state
  sawLive,  \* observed_live
  sawEnd,   \* observed_terminal
  claimed,  \* event_route_claimed
  lastSeq,  \* last_seq
  terminal, \* the result of each state
  buffer,   \* events sent into the state's channel
  sending,  \* the state's sender is still there
  lagged,   \* the stream reports EventLagged
  reader,   \* the event the reader works on, and its state
  wire,     \* events on their way, in order
  run,      \* the run in the daemon
  emitted,  \* events the run has emitted
  closed,   \* the client is disconnected
  cleared   \* the disconnect has emptied the maps

states == <<waiters, sawLive, sawEnd, claimed, lastSeq, terminal, buffer,
            sending, lagged>>
daemon == <<wire, run, emitted>>
client == <<closed, cleared>>
vars == <<pc, held, answer, route, cached, states, reader, daemon, client>>

Idle == [state |-> None, seq |-> 0, step |-> "idle"]

TypeOK ==
  /\ pc \in [Callers -> {"idle", "admitted", "asked", "observed", "handle", "gone",
                         "dropped"}]
  /\ held \in [Callers -> Callers \cup {None}]
  /\ answer \in [Callers -> {None, "running", "terminal", "error"}]
  /\ route \in Callers \cup {None} /\ cached \in Callers \cup {None}
  /\ waiters \in [Callers -> Nat]
  /\ sawLive \in [Callers -> BOOLEAN] /\ sawEnd \in [Callers -> BOOLEAN]
  /\ claimed \in [Callers -> BOOLEAN] /\ sending \in [Callers -> BOOLEAN]
  /\ lagged \in [Callers -> BOOLEAN]
  /\ lastSeq \in [Callers -> 0 .. LastSeq]
  /\ terminal \in [Callers -> {None, "done", "failed"}]
  /\ buffer \in [Callers -> Seq(1 .. LastSeq)]
  /\ reader \in [state : Callers \cup {None}, seq : 0 .. LastSeq,
                 step : {"idle", "accept", "remove"}]
  /\ wire \in Seq(1 .. LastSeq)
  /\ run \in {"none", "running", "done"} /\ emitted \in 0 .. LastSeq
  /\ closed \in BOOLEAN /\ cleared \in BOOLEAN

Init ==
  /\ pc = [c \in Callers |-> "idle"] /\ held = [c \in Callers |-> None]
  /\ answer = [c \in Callers |-> None]
  /\ route = None /\ cached = None
  /\ waiters = [c \in Callers |-> 0]
  /\ sawLive = [c \in Callers |-> FALSE] /\ sawEnd = [c \in Callers |-> FALSE]
  /\ claimed = [c \in Callers |-> FALSE] /\ lastSeq = [c \in Callers |-> 0]
  /\ terminal = [c \in Callers |-> None] /\ buffer = [c \in Callers |-> <<>>]
  /\ sending = [c \in Callers |-> TRUE] /\ lagged = [c \in Callers |-> FALSE]
  /\ reader = Idle
  /\ wire = <<>> /\ run = "none" /\ emitted = 0
  /\ closed = FALSE /\ cleared = FALSE

\* A state lives as long as the map, a caller or the reader holds it.
Alive(s) == \/ route = s \/ reader.state = s
            \/ \E c \in Callers : held[c] = s

IsQuery(s) == s \in Queries

\* pending_query: a query's state that has no result yet.
PendingQuery(s) == IsQuery(s) /\ terminal[s] = None

Leave(c) == /\ pc' = [pc EXCEPT ![c] = "gone"]
            /\ held' = [held EXCEPT ![c] = None]

\* with_open_lifecycle: the call finds the client open, and then enters its
\* state in the map.  start_turn makes the run's identifier up, so that nobody
\* asks for the run before; the session's view tells it while the start is
\* still pending.
Admit(c) ==
  /\ pc[c] = "idle" /\ ~closed
  /\ c = Start \/ pc[Start] \notin {"idle", "admitted"}
  /\ pc' = [pc EXCEPT ![c] = "admitted"]
  /\ UNCHANGED <<held, answer, route, cached, states, reader, daemon, client>>

(***************************************************************************)
(* start_turn_internal.                                                     *)
(***************************************************************************)

StartTurn ==
  /\ pc[Start] = "admitted"
  /\ pc' = [pc EXCEPT ![Start] = "asked"]
  /\ held' = [held EXCEPT ![Start] = Start]
  /\ route' = Start /\ cached' = Start
  /\ UNCHANGED <<answer, states, reader, daemon, client>>

StartAccepted ==
  /\ pc[Start] = "asked" /\ answer[Start] = "running"
  /\ pc' = [pc EXCEPT ![Start] = "handle"]
  /\ UNCHANGED <<held, answer, route, cached, states, reader, daemon, client>>

\* PendingStartRoute: a start that is rejected, times out or is abandoned takes
\* its route away, unless an event has claimed it.
StartDropped ==
  /\ pc[Start] = "asked"
  /\ pc' = [pc EXCEPT ![Start] = "dropped"]
  /\ held' = [held EXCEPT ![Start] = None]
  /\ route' = IF route = Start /\ ~claimed[Start] THEN None ELSE route
  /\ UNCHANGED <<answer, cached, states, reader, daemon, client>>

(***************************************************************************)
(* get_run.                                                                 *)
(***************************************************************************)

\* Under the map's entry: the state that is routed, or else the one somebody
\* still holds, or else a new one; a query's state counts the lease.
GetRun(q) ==
  /\ pc[q] = "admitted"
  /\ LET shared == IF route # None THEN route
                   ELSE IF cached # None /\ Alive(cached) THEN cached
                   ELSE q IN
     /\ held' = [held EXCEPT ![q] = shared]
     /\ waiters' = IF IsQuery(shared) THEN [waiters EXCEPT ![shared] = @ + 1]
                   ELSE waiters
     /\ route' = IF route = None /\ PendingQuery(shared) THEN shared ELSE route
     /\ cached' = IF shared = q THEN q ELSE cached
  /\ pc' = [pc EXCEPT ![q] = "asked"]
  /\ UNCHANGED <<answer, sawLive, sawEnd, claimed, lastSeq, terminal, buffer,
                 sending, lagged, reader, daemon, client>>

\* RunHandle::snapshot and QueryRouteLease::observe: a terminal snapshot is a
\* result; a running one makes the state a live route.
Observe(q) ==
  /\ pc[q] = "asked" /\ q # Start /\ answer[q] \in {"running", "terminal"}
  /\ LET s == held[q] IN
     /\ terminal' = IF answer[q] = "terminal" /\ terminal[s] = None
                    THEN [terminal EXCEPT ![s] = "done"] ELSE terminal
     /\ sawLive' = [sawLive EXCEPT ![s] = @ \/ (IsQuery(s) /\ answer[q] = "running")]
     /\ sawEnd' = [sawEnd EXCEPT ![s] = @ \/ (IsQuery(s) /\ answer[q] = "terminal")]
  /\ pc' = [pc EXCEPT ![q] = "observed"]
  /\ UNCHANGED <<held, answer, route, cached, waiters, claimed, lastSeq, buffer,
                 sending, lagged, reader, daemon, client>>

\* Mutant: every query that leaves takes the route with it.
GiveBackAlways(q) ==
  LET s == held[q] IN
  /\ waiters' = IF IsQuery(s) THEN [waiters EXCEPT ![s] = @ - 1] ELSE waiters
  /\ sending' = sending
  /\ route' = IF IsQuery(s) /\ route = s /\ ~sawLive[s] THEN None ELSE route

\* QueryRouteLease::drop: the last waiter of a state that was never seen live
\* takes it out of the map, and ends the stream of an archived run.
GiveBack(q) ==
  LET s == held[q]
      last == IsQuery(s) /\ waiters[s] = 1 /\ ~sawLive[s] IN
  /\ waiters' = IF IsQuery(s) THEN [waiters EXCEPT ![s] = @ - 1] ELSE waiters
  /\ sending' = IF last /\ sawEnd[s] THEN [sending EXCEPT ![s] = FALSE] ELSE sending
  /\ route' = IF last /\ route = s THEN None ELSE route

QueryReturns(q) ==
  /\ pc[q] = "observed"
  /\ GiveBack(q)
  /\ IF closed THEN Leave(q)
     ELSE pc' = [pc EXCEPT ![q] = "handle"] /\ UNCHANGED held
  /\ UNCHANGED <<answer, cached, sawLive, sawEnd, claimed, lastSeq, terminal,
                 buffer, lagged, reader, daemon, client>>

\* The query is rejected, times out, finds the client closed or is abandoned.
QueryFails(q) ==
  /\ q # Start /\ pc[q] = "asked"
  /\ GiveBack(q)
  /\ Leave(q)
  /\ UNCHANGED <<answer, cached, sawLive, sawEnd, claimed, lastSeq, terminal,
                 buffer, lagged, reader, daemon, client>>

\* A caller drops its handle.
DropHandle(c) ==
  /\ pc[c] = "handle"
  /\ Leave(c)
  /\ UNCHANGED <<answer, route, cached, states, reader, daemon, client>>

(***************************************************************************)
(* The reader.                                                              *)
(***************************************************************************)

\* The route is looked up, and claimed, under the map's shard.
ReadEvent ==
  /\ reader = Idle /\ wire # <<>> /\ ~closed
  /\ wire' = Tail(wire)
  /\ reader' = IF route = None THEN Idle
               ELSE [state |-> route, seq |-> Head(wire), step |-> "accept"]
  /\ claimed' = IF route = None THEN claimed ELSE [claimed EXCEPT ![route] = TRUE]
  /\ UNCHANGED <<pc, held, answer, route, cached, waiters, sawLive, sawEnd,
                 lastSeq, terminal, buffer, sending, lagged, run, emitted, client>>

\* RunState::accept of an event that is new: a gap, or a full channel, ends the
\* stream as lagged; a stream event makes the state live; the terminal event
\* ends the stream and is the result.
Accept ==
  LET s == reader.state  e == reader.seq IN
  /\ lastSeq' = [lastSeq EXCEPT ![s] = e]
  /\ sawLive' = [sawLive EXCEPT ![s] = @ \/ (IsQuery(s) /\ e # LastSeq)]
  /\ \E full \in BOOLEAN :
       LET fits == e = lastSeq[s] + 1 /\ ~full IN
       /\ buffer' = IF sending[s] /\ fits THEN [buffer EXCEPT ![s] = Append(@, e)]
                    ELSE buffer
       /\ lagged' = [lagged EXCEPT ![s] = @ \/ (e # lastSeq[s] + 1)
                                            \/ (sending[s] /\ full)]
       /\ sending' = [sending EXCEPT ![s] = @ /\ fits /\ e # LastSeq]
  /\ terminal' = IF e = LastSeq /\ terminal[s] = None
                 THEN [terminal EXCEPT ![s] = "done"] ELSE terminal

AcceptEvent ==
  /\ reader.step = "accept"
  /\ IF reader.seq > lastSeq[reader.state]
     THEN /\ Accept
          /\ reader' = IF reader.seq = LastSeq
                       THEN [reader EXCEPT !.step = "remove"] ELSE Idle
     ELSE /\ reader' = Idle
          /\ UNCHANGED <<lastSeq, sawLive, buffer, lagged, sending, terminal>>
  /\ UNCHANGED <<pc, held, answer, route, cached, waiters, sawEnd, claimed, daemon,
                 client>>

\* The route of a finished run is removed if it is still that state's.
RemoveRoute ==
  /\ reader.step = "remove"
  /\ reader' = Idle
  /\ route' = IF route = reader.state THEN None ELSE route
  /\ UNCHANGED <<pc, held, answer, cached, states, daemon, client>>

\* ClientState::disconnect: the client counts as closed from here.
Disconnect ==
  /\ ~closed /\ closed' = TRUE
  /\ wire' = <<>>
  /\ UNCHANGED <<pc, held, answer, route, cached, states, reader, run, emitted,
                 cleared>>

\* The routed state fails, and both maps are emptied.
ClearRuns ==
  /\ closed /\ ~cleared /\ cleared' = TRUE
  /\ terminal' = IF route # None /\ terminal[route] = None
                 THEN [terminal EXCEPT ![route] = "failed"] ELSE terminal
  /\ sending' = IF route # None THEN [sending EXCEPT ![route] = FALSE] ELSE sending
  /\ route' = None /\ cached' = None
  /\ UNCHANGED <<pc, held, answer, waiters, sawLive, sawEnd, claimed, lastSeq,
                 buffer, lagged, reader, daemon, closed>>

(***************************************************************************)
(* The daemon.                                                              *)
(***************************************************************************)

\* turn.start: the run begins, or is refused; the caller may have given up.
TakeStart ==
  /\ pc[Start] \in {"asked", "dropped"} /\ answer[Start] = None /\ ~closed
  /\ \/ /\ run = "none" /\ run' = "running"
        /\ answer' = [answer EXCEPT ![Start] = "running"]
     \/ UNCHANGED run /\ answer' = [answer EXCEPT ![Start] = "error"]
  /\ UNCHANGED <<pc, held, route, cached, states, reader, wire, emitted, client>>

\* turn.get: a snapshot of the run, in the state it is then.
TakeQuery(q) ==
  /\ pc[q] = "asked" /\ answer[q] = None /\ ~closed
  /\ answer' = [answer EXCEPT ![q] = CASE run = "none" -> "error"
                                       [] run = "running" -> "running"
                                       [] run = "done" -> "terminal"]
  /\ UNCHANGED <<pc, held, route, cached, states, reader, daemon, client>>

Emit ==
  /\ run = "running" /\ emitted < LastSeq
  /\ emitted' = emitted + 1
  /\ wire' = IF closed THEN wire ELSE Append(wire, emitted + 1)
  /\ run' = IF emitted + 1 = LastSeq THEN "done" ELSE run
  /\ UNCHANGED <<pc, held, answer, route, cached, states, reader, client>>

NoCall == \A c \in Callers : pc[c] \in {"idle", "handle", "gone", "dropped"}

Over == /\ NoCall
        /\ UNCHANGED vars

QueryStep(q) == GetRun(q) \/ TakeQuery(q) \/ Observe(q) \/ QueryReturns(q) \/ QueryFails(q)
ReaderStep == ReadEvent \/ AcceptEvent \/ RemoveRoute

Next ==
  \/ \E c \in Callers : Admit(c) \/ DropHandle(c)
  \/ StartTurn \/ TakeStart \/ StartAccepted \/ StartDropped
  \/ \E q \in Queries : QueryStep(q)
  \/ ReaderStep \/ Disconnect \/ ClearRuns \/ Emit \/ Over

Spec == Init /\ [][Next]_vars

(***************************************************************************)
(* Properties.                                                              *)
(***************************************************************************)

\* The handle of a lookup that shared the state of a start which then failed:
\* the start took the route away, so that no event and no disconnect resolves
\* the handle.
Orphaned(c) == held[c] = Start /\ pc[Start] = "dropped" /\ route # Start

\* A handle without a result is one that events, or a disconnect, still reach:
\* its state is routed, or the reader is bringing it the terminal event.  The
\* exception is a lookup that was made before start_turn returned an error.
HandleRouted ==
  \A c \in Callers :
    pc[c] = "handle" /\ terminal[held[c]] = None =>
      \/ route = held[c]
      \/ reader.state = held[c] /\ reader.seq = LastSeq
      \/ Orphaned(c)

\* Once the run is over, its events are read and no call is under way, no state
\* is left in the map: routes are not leaked by failed or archived lookups.
RouteReleased ==
  /\ run # "running" /\ wire = <<>> /\ reader = Idle /\ closed = cleared
  /\ NoCall
  => route = None

\* The events of a stream are the run's from the first, without a gap.
StreamGapless ==
  \A s \in Callers : \A i \in DOMAIN buffer[s] : buffer[s][i] = i

\* A stream that has delivered events ends without an error only behind the
\* terminal event, or when the client is disconnected: an archived lookup does
\* not cut off a live subscription.
EndIsEnd ==
  ~closed => \A s \in Callers :
    ~sending[s] /\ ~lagged[s] /\ terminal[s] = "done" /\ buffer[s] # <<>> =>
      Last(buffer[s]) = LastSeq

\* A handle, not one orphaned by a failed start, waits for a result, the run's
\* or the disconnect's.
Unresolved ==
  \E c \in Callers :
    pc[c] = "handle" /\ terminal[held[c]] = None /\ ~Orphaned(c)
=============================================================================
