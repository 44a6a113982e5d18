---------------------------- MODULE Interactions ----------------------------
(***************************************************************************)
(* The interactions of one session and one run of it (whale-daemon,        *)
(* interactions.rs, over whale-core's interaction.rs and approval.rs): a   *)
(* tool suspends on a request, the client answers it through one of three  *)
(* doors, and cancellation, a deadline, the end of the run, its retention  *)
(* or the close of the session may take the request away meanwhile.        *)
(*                                                                         *)
(* A request is Begun with a generation, which names the suspended         *)
(* continuation (the ticket): its receiver, the sender that the entry or   *)
(* the responder holds, and the channel on which the commit of a staged    *)
(* delivery is confirmed.  A response is a transaction of several locks:   *)
(* Read, Resolve (first commit wins), Stage, Project, Publish, Release,    *)
(* PublishResolved, Acknowledge; every other step may fall between them.   *)
(*                                                                         *)
(* Abstractions.  A response is a value and its digest the value; a        *)
(* schema is the set of values it accepts.  Sessions do not interact, so   *)
(* one record and one run are kept.  Owner checks are left out: every      *)
(* request comes from the owner.  An error of Begin changes nothing.       *)
(***************************************************************************)
EXTENDS Naturals, Sequences, FiniteSets, SequencesExt

CONSTANTS Requests,     \* request ids
          Typed,        \* the approvals of the core's gate
          Hosted,       \* those begun by a host callback
          Responses,    \* responses
          Valid,        \* the responses that fit the schema
          Responders,   \* respond RPCs and calls of resolve_approval
          Doors,        \* the ways they come: generic, typed, core
          Enabled,      \* whether the session opted in to interactions
          MaxPending,   \* MAX_PENDING_INTERACTIONS_PER_RUN
          GenBound      \* bound: requests begun

InteractionsAssumption ==
    /\ Typed \subseteq Requests /\ Hosted \subseteq Requests \ Typed
    /\ Valid \subseteq Responses /\ Doors \subseteq {"generic", "typed", "core"} /\ Enabled \in BOOLEAN
    /\ MaxPending \in Nat /\ GenBound \in Nat
    /\ IsFiniteSet(Requests) /\ "none" \notin Requests
ASSUME InteractionsGiven == InteractionsAssumption

Gens == 1..GenBound
Leading == {"stage", "spawned", "project", "publish", "release", "resolved", "ack"}

VARIABLES
    requests,   \* InteractionRecord: its entries, ...
    shown,      \* ... the pending set of the snapshot, ...
    changes,    \* ... and the events
    recorded,   \* the record is in the registry
    closing,    \* how far close_session is
    identified, \* the run is in run_identities
    live,       \* the run is in the daemon's run registry
    nextGen,    \* next_generation
    ticket,     \* the continuation of each generation
    confirm,    \* the commit channel of its delivery
    completion, \* the watch channel its followers wait on
    producer,   \* the tool that awaits the ticket
    checked,    \* turn.request_interaction calls that found their callback active
    hostDone,   \* the host callback has finished (ToolContext.finish)
    queue,      \* ApprovalRequested events on their way to publish_stream
    gate,       \* ApprovalGate.pending_approvals, bridged
    status,     \* status of the run's snapshot
    approvals,  \* pending_approvals of the run's snapshot
    exec,       \* execute_run
    cancelToken,\* the run's cancellation token
    resp        \* the responders

entryVars  == <<requests, shown, changes>>
recordVars == <<entryVars, recorded, closing, identified>>
originVars == <<checked, hostDone>>
waiterVars == <<ticket, confirm, completion, producer, gate, nextGen, originVars>>
runVars    == <<live, queue, status, approvals, exec, cancelToken>>
interactionsVars == <<recordVars, waiterVars, runVars, resp>>

NoRequest == [st |-> "none", gen |-> 0, val |-> "none"]

InteractionsInit ==
    /\ requests = [r \in Requests |-> NoRequest] /\ shown = {} /\ changes = <<>>
    /\ recorded = TRUE /\ closing = "open" /\ identified = TRUE /\ live = TRUE
    /\ nextGen = 1
    /\ ticket = [g \in Gens |-> [req |-> "none", st |-> "none", val |-> "none"]]
    /\ confirm = [g \in Gens |-> "none"]
    /\ completion = [g \in Gens |-> "open"]
    /\ producer = [g \in Gens |-> "none"]
    /\ queue = <<>> /\ gate = {} /\ checked = {} /\ hostDone = FALSE
    /\ status = "running" /\ approvals = {} /\ exec = "running" /\ cancelToken = FALSE
    /\ resp = [p \in Responders |->
                 [pc |-> "idle", door |-> "none", req |-> "none", val |-> "none",
                  gen |-> 0, result |-> "none"]]

(***************************************************************************)
(* The record.  CommitEvent is InteractionRecord::commit over              *)
(* InteractionSnapshot::apply: an event the snapshot cannot take is an     *)
(* error and changes nothing.                                              *)
(***************************************************************************)
Change(kind, g, r, cause) == [kind |-> kind, gen |-> g, req |-> r, cause |-> cause]

Applies(e) == IF e.kind = "requested" THEN e.req \notin shown ELSE e.req \in shown

CommitEvent(e) ==
    IF ~Enabled \/ ~Applies(e) THEN UNCHANGED <<shown, changes>>
    ELSE /\ changes' = Append(changes, e)
         /\ shown' = IF e.kind = "requested" THEN shown \cup {e.req} ELSE shown \ {e.req}

Removal(r, cause) == Change("removed", requests[r].gen, r, cause)

TakeEntry(r, cause) ==
    /\ requests' = [requests EXCEPT ![r] = NoRequest]
    /\ CommitEvent(Removal(r, cause))

Pendings == {r \in Requests : requests[r].st = "pending"}

\* Sending an error to a continuation that is gone has no effect.
Fail(g, tk) == IF tk[g].st \in {"waiting", "staged"} THEN [tk EXCEPT ![g].st = "failed"] ELSE tk

FailAll(gs, tk) ==
    [g \in Gens |-> IF g \in gs /\ tk[g].st \in {"waiting", "staged"}
                    THEN [tk[g] EXCEPT !.st = "failed"] ELSE tk[g]]

\* clear_run: every pending request of the run, in any order, and its producer
\* is woken.
ClearRun(cause) ==
    IF recorded
    THEN LET told == IF Enabled THEN Pendings \cap shown ELSE {} IN
         /\ requests' = [r \in Requests |-> IF r \in Pendings THEN NoRequest ELSE requests[r]]
         /\ shown' = shown \ told
         /\ \E s \in SetToSeqs(told) :
              changes' = changes \o [i \in 1..Len(s) |-> Removal(s[i], cause)]
         /\ ticket' = FailAll({requests[r].gen : r \in Pendings}, ticket)
    ELSE UNCHANGED <<entryVars, ticket>>

\* clear_exact: only the request of this generation, and only while it is pending.
Exact(g, r) == recorded /\ requests[r].st = "pending" /\ requests[r].gen = g

(***************************************************************************)
(* Producers: request_approval_with_context, ToolContext's                 *)
(* request_interaction and handle_request_interaction.                     *)
(***************************************************************************)
\* handle_request_interaction finds the callback active; the run may end before
\* the request is begun.
CheckOrigin(r) ==
    /\ r \in Hosted \ checked /\ Enabled /\ live
    /\ ~hostDone /\ ~cancelToken /\ status # "terminal"
    /\ \A g \in Gens : ticket[g].req = r => producer[g] = "over"
    /\ checked' = checked \cup {r}
    /\ UNCHANGED <<recordVars, ticket, confirm, completion, producer, gate, nextGen, hostDone, runVars, resp>>

\* The callback answers, or its run drops it.
HostEnd ==
    /\ Hosted # {} /\ ~hostDone /\ hostDone' = TRUE
    /\ UNCHANGED <<recordVars, ticket, confirm, completion, producer, gate, nextGen, checked, runVars, resp>>

GateWith(r) == IF r \in Typed THEN gate \cup {r} ELSE gate

\* The gate draws a fresh id for every approval; a host may repeat its own.
Begin(r) ==
    LET e == Change("requested", nextGen, r, "none") IN
    /\ recorded /\ identified /\ nextGen <= GenBound
    /\ IF r \in Hosted THEN r \in checked ELSE exec = "running"
    /\ checked' = checked \ {r}
    /\ Enabled \/ r \in Typed
    /\ requests[r].st = "none"
    /\ Cardinality(Pendings) < MaxPending
    /\ \A g \in Gens : ticket[g].req = r => r \notin Typed /\ producer[g] = "over"
    /\ nextGen' = nextGen + 1
    /\ IF Enabled /\ ~Applies(e)
       THEN UNCHANGED <<entryVars, ticket, producer, gate>>
       ELSE /\ requests' = [requests EXCEPT ![r] = [st |-> "pending", gen |-> nextGen, val |-> "none"]]
            /\ CommitEvent(e)
            /\ ticket' = [ticket EXCEPT ![nextGen] = [req |-> r, st |-> "waiting", val |-> "none"]]
            /\ producer' = [producer EXCEPT ![nextGen] = IF r \in Typed THEN "begun" ELSE "waiting"]
            /\ gate' = GateWith(r)
    /\ UNCHANGED <<recorded, closing, identified, confirm, completion, hostDone, runVars, resp>>

\* The approval is announced on the event channel of the run.
Announce(g) ==
    /\ producer[g] = "begun" /\ ~cancelToken /\ exec = "running"
    /\ queue' = Append(queue, ticket[g].req)
    /\ producer' = [producer EXCEPT ![g] = "waiting"]
    /\ UNCHANGED <<recordVars, ticket, confirm, completion, gate, nextGen, originVars, live, status, approvals,
                   exec, cancelToken, resp>>

Over(g) == /\ producer' = [producer EXCEPT ![g] = "over"]
           /\ gate' = gate \ {ticket[g].req}

\* The continuation observes the confirmed delivery, or the error.
Poll(g) ==
    /\ producer[g] = "waiting"
    /\ \/ ticket[g].st = "staged" /\ confirm[g] \in {"ok", "err"}
          /\ ticket' = [ticket EXCEPT ![g].st = IF confirm[g] = "ok" THEN "answered" ELSE "failed"]
       \/ ticket[g].st = "failed" /\ UNCHANGED ticket
    /\ Over(g)
    /\ UNCHANGED <<recordVars, confirm, completion, nextGen, originVars, runVars, resp>>

Dropping(g) == [ticket EXCEPT ![g].st = IF @ \in {"waiting", "staged"} THEN "closing" ELSE @]

\* Cancellation, or the end of execute_run's loop, drops the tool: the receiver
\* is closed first and the bridge cleaned up after it.
DropProducer(g) ==
    /\ producer[g] \in {"begun", "waiting"} /\ ticket[g].req \notin Hosted
    /\ cancelToken \/ exec = "dropped"
    /\ ticket' = Dropping(g) /\ Over(g)
    /\ UNCHANGED <<recordVars, confirm, completion, nextGen, originVars, runVars, resp>>

\* The host callback finishes: clear_origin, then the ticket is dropped.
HostFinished(g) ==
    LET r == ticket[g].req IN
    /\ producer[g] = "waiting" /\ r \in Hosted /\ hostDone
    /\ IF Exact(g, r)
       THEN TakeEntry(r, "origin_finished") /\ ticket' = Fail(g, ticket)
       ELSE UNCHANGED entryVars /\ ticket' = Dropping(g)
    /\ Over(g)
    /\ UNCHANGED <<recorded, closing, identified, confirm, completion, nextGen, originVars, runVars, resp>>

Cleanup(g) ==
    LET r == ticket[g].req IN
    /\ ticket[g].st = "closing"
    /\ ticket' = [ticket EXCEPT ![g].st = "dropped"]
    /\ IF Exact(g, r) THEN TakeEntry(r, "origin_finished") ELSE UNCHANGED entryVars
    /\ UNCHANGED <<recorded, closing, identified, confirm, completion, producer, gate, nextGen, originVars,
                   runVars, resp>>

(***************************************************************************)
(* Responders.  Read is the first lock of commit_response and the          *)
(* validation after it; Resolve the second lock, which looks again.        *)
(***************************************************************************)
Known(r, door) == CASE door = "core" -> r \in gate
                    [] door = "generic" -> Enabled /\ live
                    [] OTHER -> live

Answer(p, result) == resp' = [resp EXCEPT ![p].pc = "done", ![p].result = result]

\* Mutant: any later response counts as a repeat of the first.
TakenAnyway(p, q, e) ==
    CASE e.st = "none"      -> [q EXCEPT !.pc = "done", !.result = "not_found"]
      [] q.door = "core"    -> [q EXCEPT !.pc = "done", !.result = "accepted", !.gen = e.gen]
      [] OTHER              -> [q EXCEPT !.pc = "follow", !.gen = e.gen]

\* What a responder finds in place of a pending request; a follower of the core's
\* door does not wait.
Taken(p, q, e) ==
    CASE e.st = "none"      -> [q EXCEPT !.pc = "done", !.result = "not_found"]
      [] e.val # q.val      -> [q EXCEPT !.pc = "done", !.result = "conflict"]
      [] q.door = "core"    -> [q EXCEPT !.pc = "done", !.result = "accepted", !.gen = e.gen]
      [] OTHER              -> [q EXCEPT !.pc = "follow", !.gen = e.gen]

Read(p, door, r, v) ==
    LET q == [resp[p] EXCEPT !.door = door, !.req = r, !.val = v]
        e == requests[r]
    IN
    /\ resp[p].pc = "idle" /\ recorded /\ Known(r, door)
    /\ resp' = [resp EXCEPT ![p] =
                  IF e.st # "pending" THEN Taken(p, q, e)
                  ELSE IF v \notin Valid THEN [q EXCEPT !.pc = "done", !.result = "invalid"]
                  ELSE [q EXCEPT !.pc = "validated", !.gen = e.gen]]
    /\ UNCHANGED <<recordVars, waiterVars, runVars>>

Resolve(p) ==
    LET r == resp[p].req
        e == requests[r]
        g == resp[p].gen
    IN
    /\ resp[p].pc = "validated"
    /\ \/ /\ e.st # "pending" \/ e.gen # g
          /\ resp' = [resp EXCEPT ![p] = Taken(p, @, IF e.st = "pending" THEN NoRequest ELSE e)]
          /\ UNCHANGED entryVars
       \/ /\ e.st = "pending" /\ e.gen = g /\ ticket[g].st \in {"closing", "dropped"}
          /\ TakeEntry(r, "origin_finished")
          /\ Answer(p, "not_found")
       \/ /\ e.st = "pending" /\ e.gen = g /\ ticket[g].st \notin {"closing", "dropped"}
          /\ requests' = [requests EXCEPT ![r] = [st |-> "resolved", gen |-> g, val |-> resp[p].val]]
          /\ UNCHANGED <<shown, changes>>
          /\ resp' = [resp EXCEPT ![p].pc = IF resp[p].door = "core" /\ r \in Typed
                                            THEN "spawned" ELSE "stage"]
    /\ UNCHANGED <<recorded, closing, identified, waiterVars, runVars>>

Mine(p) == LET e == requests[resp[p].req] IN
           recorded /\ e.st = "resolved" /\ e.gen = resp[p].gen /\ e.val = resp[p].val

\* abort_resolved_exact: the transaction, if it is still recorded, leaves the
\* snapshot even when no event can say so.
AbortResolved(p, cause) ==
    LET r == resp[p].req IN
    IF Mine(p)
    THEN /\ requests' = [requests EXCEPT ![r] = NoRequest]
         /\ changes' = IF Enabled /\ r \in shown THEN Append(changes, Removal(r, cause)) ELSE changes
         /\ shown' = shown \ {r}
    ELSE UNCHANGED entryVars

\* ResponseCommit::abort, and its Drop when the transaction is abandoned.
Abort(p, cause, result) ==
    LET g == resp[p].gen IN
    /\ AbortResolved(p, cause)
    /\ confirm' = [confirm EXCEPT ![g] = IF @ = "open" THEN "err" ELSE @]
    /\ completion' = [completion EXCEPT ![g] = "failed"]
    /\ Answer(p, result)

\* stage_delivery: the continuation gets the value, and waits for its confirmation.
Stage(p) ==
    LET g == resp[p].gen
        r == resp[p].req
    IN
    /\ resp[p].pc = "stage"
    /\ IF ticket[g].st = "waiting"
       THEN /\ ticket' = [ticket EXCEPT ![g].st = "staged", ![g].val = resp[p].val]
            /\ confirm' = [confirm EXCEPT ![g] = "open"]
            /\ resp' = [resp EXCEPT ![p].pc = IF r \in Typed THEN "project" ELSE "release"]
            /\ UNCHANGED <<entryVars, completion>>
       ELSE Abort(p, "origin_finished", "not_found") /\ UNCHANGED ticket
    /\ UNCHANGED <<recorded, closing, identified, producer, gate, nextGen, originVars, runVars>>

\* The task that DaemonInteractionBridge::respond spawns; without the run, the
\* transaction is abandoned.
Spawned(p) ==
    /\ resp[p].pc = "spawned"
    /\ IF live
       THEN resp' = [resp EXCEPT ![p].pc = "stage"] /\ UNCHANGED <<entryVars, ticket, confirm, completion>>
       ELSE Abort(p, "publication_failed", "unavailable") /\ ticket' = Fail(resp[p].gen, ticket)
    /\ UNCHANGED <<recorded, closing, identified, producer, gate, nextGen, originVars, runVars>>

\* finish_response_commit: the approval leaves the run's snapshot.
Project(p) ==
    LET r == resp[p].req IN
    /\ resp[p].pc = "project"
    /\ approvals' = approvals \ {r}
    /\ status' = IF r \in approvals /\ approvals' = {} /\ status = "waiting" THEN "running" ELSE status
    /\ resp' = [resp EXCEPT ![p].pc = IF r \in approvals THEN "publish" ELSE "release"]
    /\ UNCHANGED <<recordVars, waiterVars, live, queue, exec, cancelToken>>

\* commit_session_event fails once the view shows no active run, or no session.
CommitView(p) ==
    /\ resp[p].pc = "publish"
    /\ \/ resp' = [resp EXCEPT ![p].pc = "release"] /\ UNCHANGED <<entryVars, confirm, completion>>
       \/ /\ exec = "terminal" \/ ~recorded
          /\ Abort(p, "publication_failed", "unavailable")
    /\ UNCHANGED <<recorded, closing, identified, ticket, producer, gate, nextGen, originVars, runVars>>

\* release: the liveness check is where the response and a cancellation are ordered.
Release(p) ==
    /\ resp[p].pc = "release"
    /\ IF ticket[resp[p].gen].st = "staged"
       THEN resp' = [resp EXCEPT ![p].pc = "resolved"] /\ UNCHANGED <<entryVars, confirm, completion>>
       ELSE Abort(p, "origin_finished", "not_found")
    /\ UNCHANGED <<recorded, closing, identified, ticket, producer, gate, nextGen, originVars, runVars>>

\* publish_resolved_exact.
PublishResolved(p) ==
    LET r == resp[p].req
        e == Change("removed", resp[p].gen, r, "resolved")
    IN
    /\ resp[p].pc = "resolved"
    /\ IF Mine(p) /\ (Enabled => Applies(e))
       THEN /\ CommitEvent(e) /\ UNCHANGED requests
            /\ resp' = [resp EXCEPT ![p].pc = "ack"]
            /\ UNCHANGED <<confirm, completion>>
       ELSE Abort(p, "publication_failed", "unavailable")
    /\ UNCHANGED <<recorded, closing, identified, ticket, producer, gate, nextGen, originVars, runVars>>

Acknowledge(p) ==
    LET g == resp[p].gen IN
    /\ resp[p].pc = "ack"
    /\ confirm' = [confirm EXCEPT ![g] = "ok"]
    /\ completion' = [completion EXCEPT ![g] = "ok"]
    /\ Answer(p, "ok")
    /\ UNCHANGED <<recordVars, ticket, producer, gate, nextGen, originVars, runVars>>

\* An equal response waits for the outcome of the first.
Follow(p) ==
    /\ resp[p].pc = "follow" /\ completion[resp[p].gen] # "open"
    /\ Answer(p, IF completion[resp[p].gen] = "ok" THEN "ok" ELSE "failed")
    /\ UNCHANGED <<recordVars, waiterVars, runVars>>

RespondStep(p) == \/ Resolve(p) \/ Stage(p) \/ Spawned(p) \/ Project(p) \/ CommitView(p)
                  \/ Release(p) \/ PublishResolved(p) \/ Acknowledge(p) \/ Follow(p)

(***************************************************************************)
(* The run: request_cancel_locked, execute_run and publish_stream, as far  *)
(* as they touch interactions; then retention and the close of the session.*)
(***************************************************************************)
CancelRun ==
    /\ status \in {"running", "waiting"}
    /\ status' = "cancelling" /\ cancelToken' = TRUE
    /\ ClearRun("cancelled")
    /\ UNCHANGED <<recorded, closing, identified, confirm, completion, producer, gate, nextGen, originVars, live,
                   queue, approvals, exec, resp>>

\* publish_stream, for an approval.
TakeEvent ==
    /\ queue # <<>> /\ exec \in {"running", "cleared"}
    /\ queue' = Tail(queue)
    /\ IF status = "cancelling" THEN UNCHANGED <<status, approvals>>
       ELSE status' = "waiting" /\ approvals' = approvals \cup {Head(queue)}
    /\ UNCHANGED <<recordVars, waiterVars, live, exec, cancelToken, resp>>

Deadline ==
    /\ exec = "running"
    /\ exec' = "dropped" /\ ClearRun("cancelled")
    /\ UNCHANGED <<recorded, closing, identified, confirm, completion, producer, gate, nextGen, originVars, live,
                   queue, status, approvals, cancelToken, resp>>

CoreIdle == \A g \in Gens : producer[g] \in {"begun", "waiting"} => ticket[g].req \in Hosted

\* The engine returns, or the cancel channel ends the loop.
ExecEnd ==
    /\ exec = "running" /\ (CoreIdle \/ status = "cancelling")
    /\ exec' = "dropped"
    /\ UNCHANGED <<recordVars, waiterVars, live, queue, status, approvals, cancelToken, resp>>

\* Dropping the execution has dropped its tools; then the run is cleared.
ExecClear ==
    /\ exec = "dropped" /\ CoreIdle /\ (Hosted # {} => hostDone)
    /\ \A g \in Gens : ticket[g].req \notin Hosted => ticket[g].st # "closing"
    /\ exec' = "cleared" /\ cancelToken' = TRUE
    /\ ClearRun("run_finished")
    /\ UNCHANGED <<recorded, closing, identified, confirm, completion, producer, gate, nextGen, originVars, live,
                   queue, status, approvals, resp>>

Settle ==
    /\ exec = "cleared" /\ queue = <<>>
    /\ exec' = "terminal" /\ status' = "terminal" /\ approvals' = {}
    /\ UNCHANGED <<recordVars, waiterVars, live, queue, cancelToken, resp>>

\* retire_run of a run whose terminal event was delivered.
Retire ==
    /\ exec = "terminal" /\ recorded /\ identified
    /\ Pendings = {}
    /\ requests' = [r \in Requests |-> NoRequest] /\ UNCHANGED <<shown, changes>>
    /\ identified' = FALSE
    /\ UNCHANGED <<recorded, closing, waiterVars, runVars, resp>>

RetireRun ==
    /\ live /\ exec = "terminal" /\ recorded /\ ~identified
    /\ live' = FALSE
    /\ UNCHANGED <<recordVars, waiterVars, queue, status, approvals, exec, cancelToken, resp>>

\* close_session: the pending requests are cleared, then the record removed.
CloseClear ==
    /\ closing = "open" /\ closing' = "cleared"
    /\ ClearRun("session_closed")
    /\ UNCHANGED <<recorded, identified, confirm, completion, producer, gate, nextGen, originVars, runVars, resp>>

CloseRemove ==
    /\ closing = "cleared" /\ closing' = "removed" /\ recorded' = FALSE
    /\ UNCHANGED <<entryVars, identified, waiterVars, runVars, resp>>

\* The last reference to a removed record goes, and with it the senders.
CloseDrop ==
    /\ closing = "removed" /\ \A p \in Responders : resp[p].pc # "validated"
    /\ closing' = "dropped"
    /\ requests' = [r \in Requests |-> NoRequest] /\ UNCHANGED <<shown, changes>>
    /\ ticket' = FailAll({requests[r].gen : r \in Pendings}, ticket)
    /\ UNCHANGED <<recorded, identified, confirm, completion, producer, gate, nextGen, originVars, runVars, resp>>

ProducerStep(g) == Announce(g) \/ Poll(g) \/ DropProducer(g) \/ HostFinished(g) \/ Cleanup(g)
ExecStep == ExecEnd \/ ExecClear \/ TakeEvent \/ Settle
CloseStep == CloseRemove \/ CloseDrop

InteractionsNext ==
    \/ \E r \in Requests : Begin(r)
    \/ \E g \in Gens : ProducerStep(g)
    \/ \E r \in Requests : CheckOrigin(r)
    \/ HostEnd
    \/ \E p \in Responders, d \in Doors, r \in Requests, v \in Responses : Read(p, d, r, v)
    \/ \E p \in Responders : RespondStep(p)
    \/ CancelRun \/ Deadline \/ ExecStep \/ Retire \/ RetireRun \/ CloseClear \/ CloseStep

InteractionsSpec == InteractionsInit /\ [][InteractionsNext]_interactionsVars

-----------------------------------------------------------------------------
\* Every variable keeps its type: those of the record, of the tickets, of the
\* responders and of the run.
RequestTypes ==
    /\ requests \in [Requests -> [st : {"none", "pending", "resolved"}, gen : 0..GenBound,
                                  val : Responses \cup {"none"}]]
    /\ shown \subseteq Requests
    /\ changes \in Seq([kind : {"requested", "removed"}, gen : Gens, req : Requests,
                        cause : {"none", "resolved", "origin_finished", "publication_failed",
                                 "cancelled", "run_finished", "session_closed"}])
    /\ recorded \in BOOLEAN /\ identified \in BOOLEAN
    /\ closing \in {"open", "cleared", "removed", "dropped"}
TicketTypes ==
    /\ nextGen \in 1..(GenBound + 1)
    /\ ticket \in [Gens -> [req : Requests \cup {"none"}, val : Responses \cup {"none"},
                            st : {"none", "waiting", "staged", "answered", "failed", "closing",
                                  "dropped"}]]
    /\ confirm \in [Gens -> {"none", "open", "ok", "err"}]
    /\ completion \in [Gens -> {"open", "ok", "failed"}]
    /\ producer \in [Gens -> {"none", "begun", "waiting", "over"}]
ResponderTypes ==
    resp \in [Responders ->
               [pc : {"idle", "validated", "follow", "done"} \cup Leading, door : Doors \cup {"none"},
                req : Requests \cup {"none"}, val : Responses \cup {"none"}, gen : 0..GenBound,
                result : {"none", "not_found", "conflict", "accepted", "invalid", "ok", "failed",
                          "unavailable"}]]
RunTypes ==
    /\ gate \subseteq Typed /\ approvals \subseteq Requests /\ queue \in Seq(Requests)
    /\ checked \subseteq Hosted /\ hostDone \in BOOLEAN /\ live \in BOOLEAN /\ cancelToken \in BOOLEAN
    /\ status \in {"running", "waiting", "cancelling", "terminal"}
    /\ exec \in {"running", "dropped", "cleared", "terminal"}
InteractionsTypeOK == RequestTypes /\ TicketTypes /\ ResponderTypes /\ RunTypes

Told(p, result) == resp[p].pc = "done" /\ resp[p].result = result
Leads(g) == \E p \in Responders : resp[p].gen = g /\ resp[p].pc \in Leading

\* The answer a client is told was taken is the answer the tool got or will get:
\* never another one, and never a cancellation (commit_response, release).
AckedIsDelivered ==
    \A p \in Responders : Told(p, "ok") =>
        /\ ticket[resp[p].gen].st # "failed"
        /\ ticket[resp[p].gen].val = resp[p].val

\* The causes for which the request of a generation left the feed.
Causes(g) == {changes[i].cause : i \in {j \in DOMAIN changes :
                changes[j].kind = "removed" /\ changes[j].gen = g}}

\* Once the tool has its answer, the feed has said so: the request left it once,
\* and as resolved (publish_resolved_exact before the delivery is confirmed).
CauseIsTrue ==
    Enabled => \A g \in Gens : ticket[g].st = "answered" => Causes(g) = {"resolved"}

\* While the run is retained, the snapshot shows what can be answered: the requests
\* that are pending and those whose answer is on its way, and nothing else.
SnapshotHonest ==
    Enabled /\ recorded /\ identified =>
        \A r \in Requests :
            /\ requests[r].st = "pending" => r \in shown
            /\ r \in shown /\ requests[r].st # "pending" => Leads(requests[r].gen)

\* An approval that waits and was announced is shown by the run's snapshot, until
\* the run is cancelled or its loop has ended (publish_stream, finish_response_commit).
ApprovalShown ==
    \A r \in Typed :
        requests[r].st = "pending" /\ producer[requests[r].gen] = "waiting"
        /\ (\A i \in DOMAIN queue : queue[i] # r)
        => r \in approvals \/ status = "cancelling" \/ exec # "running"

\* So a request has one answer, which client, tool, feed and snapshots agree
\* about at every point of a response.
OneAnswer == AckedIsDelivered /\ CauseIsTrue /\ SnapshotHonest /\ ApprovalShown

\* What a fair schedule ends: a response is being dealt with, a transaction for
\* its leader and its followers; ...
Responding == \E p \in Responders : resp[p].pc \notin {"idle", "done"}

\* ... a tool waits for an answer though its run is over or its session closed,
\* its request having been begun after the run was cleared, maybe (clear_run,
\* clear_origin).
Stranded == (exec = "terminal" \/ closing = "dropped") /\ \E g \in Gens : ticket[g].st = "waiting"

\* What the documentation promises of retention: no request of a retired run is
\* still shown once its transactions are over.
RetiredIsCleared ==
    Enabled /\ recorded /\ ~identified /\ (\A g \in Gens : ~Leads(g)) => shown = {}

\* What the documentation promises of the typed projection: a request that was
\* answered is not shown as waiting for approval.
ApprovalSettled ==
    \A p \in Responders : Told(p, "ok") /\ resp[p].req \in Typed => resp[p].req \notin approvals
=============================================================================
