----------------------------- MODULE RunRetention -----------------------------
(***************************************************************************)
(* The runs of one session in the daemon's registry, and their retention   *)
(* (server.rs and retention.rs of whale-daemon): admission of a run, the   *)
(* session lock it holds while it executes, its terminal projection and    *)
(* delivery, the sweep that retires delivered runs, and session.close.     *)
(*                                                                         *)
(* A sweep lists its candidates under the lock of the registry and then    *)
(* retires each in three steps with an await between them: in the          *)
(* interactions, in the session views, in the registry.                    *)
(*                                                                         *)
(* Abstractions.  How a run executes is RunLifecycle; here it ends.  Of a  *)
(* session view, the active run, the last run and the registered           *)
(* identities are kept.  An id is a number; the order of ids is that of    *)
(* the registry's keys.  A refused preparation gives up the run the way a  *)
(* session with a journal does.                                            *)
(***************************************************************************)
EXTENDS Naturals, Sequences, FiniteSets

CONSTANTS RunIds,       \* turn ids of the session
          Ttl,          \* RunRetentionPolicy.terminal_ttl_ms
          MaxKept,      \* RunRetentionPolicy.max_terminal_runs_per_session
          MaxAccepted,  \* SessionLimits.max_accepted_turns
          ClockBound    \* bound: ticks of the monotonic clock

RetentionAssumption ==
    /\ RunIds \subseteq Nat \ {0} /\ IsFiniteSet(RunIds)
    /\ Ttl \in Nat \ {0} /\ MaxKept \in Nat \ {0} /\ MaxAccepted \in Nat \ {0} /\ ClockBound \in Nat

VARIABLES
    reg,        \* RunRegistry: live, expired and delivered, by turn id
    run,        \* the task of each run
    lock,       \* the run that holds the session, or NoRun
    accepted,   \* Session.accepted_turns
    view,       \* the session views
    interact,   \* run_identities of the InteractionRecord
    session,    \* its lifecycle
    clock,
    sweep,      \* the maintenance worker: what it still has to retire
    ended,      \* history: the runs in the order of their terminal commits
    executed    \* history: the executions of each id

vars == <<reg, run, lock, accepted, view, interact, session, clock, sweep, ended, executed>>

NoRun == 0
Never == ClockBound + 1     \* not delivered
Absent == [state |-> "absent", at |-> Never]
Idle == [todo |-> {}, id |-> NoRun, stage |-> "none"]

Init ==
    /\ reg = [i \in RunIds |-> Absent] /\ run = [i \in RunIds |-> "none"] /\ lock = NoRun /\ accepted = 0
    /\ view = [active |-> NoRun, last |-> NoRun, ids |-> {}] /\ interact = {} /\ session = "open"
    /\ clock = 0 /\ sweep = Idle /\ ended = <<>> /\ executed = [i \in RunIds |-> 0]

-----------------------------------------------------------------------------
(* A run. *)

\* handle_start_turn: an expired id is refused, a live one is joined, another
\* run of the session or the limit refuses it.
StartTurn(i) ==
    /\ session = "open" /\ reg[i].state = "absent"
    /\ lock = NoRun /\ accepted < MaxAccepted
    /\ lock' = i /\ reg' = [reg EXCEPT ![i].state = "live"] /\ interact' = interact \cup {i}
    /\ run' = [run EXCEPT ![i] = "preparing"]
    /\ UNCHANGED <<accepted, view, session, clock, sweep, ended, executed>>

\* The first projection of the run; a closing session refuses it.
Prepare(i) ==
    /\ run[i] = "preparing"
    /\ IF session = "open"
       THEN /\ view' = [view EXCEPT !.active = i, !.ids = @ \cup {i}]
            /\ run' = [run EXCEPT ![i] = "executing"] /\ executed' = [executed EXCEPT ![i] = @ + 1]
            /\ UNCHANGED <<reg, lock, interact>>
       ELSE /\ run' = [run EXCEPT ![i] = "done"] /\ reg' = [reg EXCEPT ![i] = Absent]
            /\ interact' = interact \ {i} /\ lock' = NoRun
            /\ UNCHANGED <<view, executed>>
    /\ UNCHANGED <<accepted, session, clock, sweep, ended>>

\* The terminal commit of execute_run, restore_accepted_turns, and the drop of
\* the session.
EndRun(i) ==
    /\ run[i] = "executing"
    /\ accepted' = accepted + 1 /\ ended' = Append(ended, i) /\ lock' = NoRun
    /\ run' = [run EXCEPT ![i] = "ended"]
    /\ UNCHANGED <<reg, view, interact, session, clock, sweep, executed>>

\* The Finished event in the views; one of a run that is no longer the active
\* one is refused and a warning is logged.
ProjectTerminal(i) ==
    /\ run[i] = "ended"
    /\ view' = IF view.active = i THEN [view EXCEPT !.active = NoRun, !.last = i] ELSE view
    /\ run' = [run EXCEPT ![i] = "projected"]
    /\ UNCHANGED <<reg, lock, accepted, interact, session, clock, sweep, ended, executed>>

\* send_run_event.
Deliver(i, sent) ==
    /\ run[i] = "projected"
    /\ run' = [run EXCEPT ![i] = IF sent THEN "sent" ELSE "unsent"]
    /\ UNCHANGED <<reg, lock, accepted, view, interact, session, clock, sweep, ended, executed>>

\* RunRegistry::delivered, and then terminal_delivery.
Mark(i) ==
    /\ run[i] \in {"sent", "unsent"}
    /\ reg' = IF run[i] = "sent" /\ reg[i].state = "live" THEN [reg EXCEPT ![i].at = clock] ELSE reg
    /\ run' = [run EXCEPT ![i] = IF @ = "sent" THEN "done" ELSE "undone"]
    /\ UNCHANGED <<lock, accepted, view, interact, session, clock, sweep, ended, executed>>

-----------------------------------------------------------------------------
(* The sweep. *)

Delivered == {i \in RunIds : reg[i].state = "live" /\ reg[i].at # Never}

Old == {i \in Delivered : clock - reg[i].at >= Ttl}

Before(i, j) == reg[i].at < reg[j].at \/ (reg[i].at = reg[j].at /\ i < j)

\* RunRegistry::candidates: the old ones, and of the rest the first of the
\* session beyond the maximum.
Candidates ==
    Old \cup {i \in Delivered \ Old : Cardinality({j \in Delivered \ Old : Before(i, j)}) >= MaxKept}

SweepStart ==
    /\ sweep = Idle /\ Candidates # {}
    /\ sweep' = [Idle EXCEPT !.todo = Candidates]
    /\ UNCHANGED <<reg, run, lock, accepted, view, interact, session, clock, ended, executed>>

Stage(id, stage) == [sweep EXCEPT !.todo = @ \ {id}, !.id = id, !.stage = stage]
NextCandidate == [sweep EXCEPT !.id = NoRun, !.stage = "none"]

\* InteractionRegistry::retire_run; after close_session there is no record.
RetireInteractions(i) ==
    /\ sweep.stage = "none" /\ i \in sweep.todo
    /\ sweep' = Stage(i, IF session = "open" THEN "views" ELSE "skip")
    /\ interact' = interact \ {i}
    /\ UNCHANGED <<reg, run, lock, accepted, view, session, clock, ended, executed>>

\* SessionManagementRegistry::retire_run: registered and not active.
RetireViews ==
    /\ sweep.stage = "views"
    /\ LET ok == session # "closed" /\ sweep.id \in view.ids /\ view.active # sweep.id
       IN  /\ view' = IF ok THEN [view EXCEPT !.ids = @ \ {sweep.id}] ELSE view
           /\ sweep' = [sweep EXCEPT !.stage = IF ok THEN "registry" ELSE "skip"]
    /\ UNCHANGED <<reg, run, lock, accepted, interact, session, clock, ended, executed>>

\* Mutant: the record is not looked up again.
RetireRunBlind ==
    /\ sweep.stage \in {"registry", "skip"}
    /\ reg' = IF sweep.stage = "registry" THEN [reg EXCEPT ![sweep.id] = [state |-> "expired", at |-> Never]] ELSE reg
    /\ sweep' = NextCandidate
    /\ UNCHANGED <<run, lock, accepted, view, interact, session, clock, ended, executed>>

\* RunRegistry::retire: only the record that was listed.
RetireRun ==
    /\ sweep.stage \in {"registry", "skip"}
    /\ reg' = IF sweep.stage = "registry" /\ reg[sweep.id].state = "live"
              THEN [reg EXCEPT ![sweep.id] = [state |-> "expired", at |-> Never]] ELSE reg
    /\ sweep' = NextCandidate
    /\ UNCHANGED <<run, lock, accepted, view, interact, session, clock, ended, executed>>

Tick ==
    /\ clock < ClockBound /\ clock' = clock + 1
    /\ UNCHANGED <<reg, run, lock, accepted, view, interact, session, sweep, ended, executed>>

-----------------------------------------------------------------------------
(* session.close, or the end of the connection. *)

BeginClose ==
    /\ session = "open"
    /\ session' = "closing" /\ interact' = {}
    /\ UNCHANGED <<reg, run, lock, accepted, view, clock, sweep, ended, executed>>

\* finish_session_close, when the terminal delivery of every run is known:
\* RunRegistry::remove_session and the removal of the views.
FinishClose ==
    /\ session = "closing" /\ lock = NoRun
    /\ \A i \in RunIds : run[i] \in {"none", "done", "undone"}
    /\ session' = "closed" /\ reg' = [i \in RunIds |-> Absent]
    /\ view' = [view EXCEPT !.ids = {}]
    /\ UNCHANGED <<run, lock, accepted, interact, clock, sweep, ended, executed>>

-----------------------------------------------------------------------------
Retire == SweepStart \/ (\E i \in RunIds : RetireInteractions(i)) \/ RetireViews \/ RetireRun

Next ==
    \/ \E i \in RunIds : StartTurn(i) \/ Prepare(i) \/ EndRun(i) \/ ProjectTerminal(i) \/ Mark(i)
    \/ \E i \in RunIds, sent \in BOOLEAN : Deliver(i, sent)
    \/ Retire \/ Tick \/ BeginClose \/ FinishClose

Spec == Init /\ [][Next]_vars

-----------------------------------------------------------------------------
\* Types of the variables; the interactions know only runs that are live.
TypeOK ==
    /\ reg \in [RunIds -> [state : {"absent", "live", "expired"}, at : 0..Never]]
    /\ run \in [RunIds -> {"none", "preparing", "executing", "ended", "projected", "sent", "unsent", "done", "undone"}]
    /\ lock \in RunIds \cup {NoRun} /\ accepted \in 0..MaxAccepted
    /\ view.ids \subseteq RunIds /\ sweep.todo \subseteq RunIds
    /\ interact \subseteq {i \in RunIds : reg[i].state = "live"}
    /\ sweep.stage \in {"none", "views", "registry", "skip"}

\* An accepted id never executes again, its record having expired or not
\* (docs/RETENTION_API.md:58).
RunsOnce == \A i \in RunIds : executed[i] <= 1

\* Only a run whose final notification was written expires, and nothing of it
\* stays in the views or the interactions (docs/RETENTION_API.md:56).
SparesUndelivered ==
    \A i \in RunIds : reg[i].state = "expired" => run[i] = "done" /\ i \notin view.ids \cup interact

\* A run that is retired for the count has at least the maximum of later
\* deliveries that stay (docs/RETENTION_API.md:56).
KeepsNewest ==
    \A i \in RunIds :
        reg[i].state = "live" /\ reg'[i].state = "expired" /\ clock - reg[i].at < Ttl =>
            Cardinality({j \in RunIds : reg'[j].state = "live" /\ reg'[j].at # Never /\ reg[j].at >= reg[i].at})
                >= MaxKept

\* A closed session leaves no record, tombstone or delivery time behind, also
\* when a sweep was under way (RunRegistry::remove_session;
\* docs/RETENTION_API.md:58).
NothingLeft == session = "closed" => \A i \in RunIds : reg[i] = Absent

\* The limit of accepted turns counts the runs that expired
\* (docs/RETENTION_API.md:93).
QuotaHolds == Cardinality({i \in RunIds : executed[i] > 0}) <= MaxAccepted

\* A run is kept whose delivery is as old as the TTL, in an open session; the
\* worker ends that.
Overdue == session = "open" /\ \E i \in RunIds : reg[i].state = "live" /\ reg[i].at + Ttl <= clock

\* The place of a run in the order of terminal commits.
Place(i) == IF i = NoRun THEN 0 ELSE CHOOSE n \in DOMAIN ended : ended[n] = i

\* last_run of the views is the latest run that the client knows to have ended
\* (docs/SESSION_VIEW_API.md:60).
LastRunIsLatest ==
    session = "open" => \A i \in RunIds : run[i] = "done" => Place(i) <= Place(view.last)
=============================================================================
