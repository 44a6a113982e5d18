---------------------------- MODULE SessionBuild ----------------------------
(***************************************************************************)
(* How an Agent of the SDK builds a session and who owns its tool packs      *)
(* (agent.rs, tool_packs.rs, the preparation, release and emergency drain of *)
(* sessions.rs).                                                             *)
(*                                                                           *)
(* A spawned task binds the packs in order, stages the routes of their       *)
(* tools, asks the daemon for the session and hands the thread to the caller *)
(* who may have stopped waiting.  Until the session is accepted the build    *)
(* guard owns the packs, then the session's lifecycle does; a normal close   *)
(* or a rollback takes them out and closes them in reverse order, one await  *)
(* each; a teardown of the connection only fences what it still finds.       *)
(***************************************************************************)
EXTENDS Naturals

CONSTANTS NumPacks,   \* packs of the agent
          Persistent  \* create or attach a persistent session

BuildAssumption == NumPacks \in Nat \ {0} /\ Persistent \in BOOLEAN

Packs == 1 .. NumPacks

VARIABLES
  builder,  \* the task that builds the session
  pack,     \* what has become of each pack
  holder,   \* who owns the bound packs
  phase,    \* the session's lifecycle
  listed,   \* the lifecycle is in the sessions map
  routes,   \* the session's tools are in the maps
  call,     \* a callback of the session is running
  closer,   \* the close transaction of the session
  reply,    \* the daemon's answer to the builder's request
  waiter,   \* the caller of create_session
  remote,   \* the session in the daemon
  closed,   \* the client is disconnected
  cleared,  \* the disconnect has emptied the maps
  drained   \* ... and the lifecycles

vars == <<builder, pack, holder, phase, listed, routes, call, closer, reply, waiter,
          remote, closed, cleared, drained>>

TypeOK ==
  /\ builder \in {"idle", "binding", "asked", "enabling", "delivering", "rollback",
                  "rollback and close", "dropping", "unclaimed",
                  "unclaimed closing", "done"}
  /\ pack \in [Packs -> {"unbound", "bound", "closing", "closed", "fenced"}]
  /\ holder \in {"none", "build", "session", "rollback", "release"}
  /\ phase \in {"none", "Preparing", "Open", "Closing", "Releasing", "Closed"}
  /\ listed \in BOOLEAN /\ routes \in BOOLEAN /\ call \in BOOLEAN
  /\ closer \in {"none", "asking", "draining", "closing"}
  /\ reply \in {"none", "accepted", "mismatch", "rejected", "unknown"}
  /\ waiter \in {"waiting", "delivered", "claimed", "failed", "gone"}
  /\ remote \in {"none", "open", "closed"}
  /\ closed \in BOOLEAN /\ cleared \in BOOLEAN /\ drained \in BOOLEAN

Init ==
  /\ builder = "idle" /\ pack = [p \in Packs |-> "unbound"] /\ holder = "none"
  /\ phase = "none" /\ listed = FALSE /\ routes = FALSE /\ call = FALSE
  /\ closer = "none" /\ reply = "none" /\ waiter = "waiting" /\ remote = "none"
  /\ closed = FALSE /\ cleared = FALSE /\ drained = FALSE

\* The error reaches the caller, if there still is one.
Tell(w) == IF waiter = "waiting" THEN w ELSE waiter

(***************************************************************************)
(* The ends of a build.                                                     *)
(***************************************************************************)

\* reject_prepared_session.
Reject == /\ phase' = IF phase = "Preparing" THEN "Closed" ELSE phase
          /\ listed' = FALSE

\* SessionPackOwner::drop: emergency_close of every pack that is bound.
Fenced == [p \in Packs |-> IF pack[p] = "bound" THEN "fenced" ELSE pack[p]]

\* Drop of the build guard: no await, so the packs are only fenced.
DropBuild ==
  /\ pack' = Fenced /\ holder' = "none"
  /\ routes' = FALSE
  /\ Reject
  /\ builder' = "done" /\ waiter' = Tell("failed")

\* rollback: the routes go first, then the packs are closed one by one.
Rollback(how) ==
  /\ routes' = FALSE /\ holder' = "rollback"
  /\ builder' = how
  /\ UNCHANGED <<pack, phase, listed, waiter>>

RolledBack ==
  /\ builder \in {"rollback", "rollback and close"} /\ holder = "rollback"
  /\ \A p \in Packs : pack[p] \notin {"bound", "closing"}
  /\ holder' = "none"
  /\ Reject
  /\ closed' = (closed \/ builder = "rollback and close")
  /\ IF builder = "rollback" THEN builder' = "done" /\ waiter' = Tell("failed")
     ELSE builder' = "dropping" /\ UNCHANGED waiter
  /\ UNCHANGED <<pack, routes, call, closer, reply, remote, cleared, drained>>

\* finish_preparation(false) and close, at an outcome nobody knows.
FailClosed ==
  /\ phase' = IF ~closed /\ phase = "Preparing" THEN "Closed" ELSE phase
  /\ closed' = TRUE
  /\ builder' = "dropping"
  /\ UNCHANGED <<pack, holder, listed, routes, waiter>>

\* The guard is dropped behind the cleanup of the connection; after a rollback
\* there is nothing left to it.
DropBehindClose ==
  /\ builder = "dropping" /\ drained
  /\ DropBuild
  /\ UNCHANGED <<call, closer, reply, remote, closed, cleared, drained>>

(***************************************************************************)
(* The build.                                                               *)
(***************************************************************************)

\* prepare_session.
Prepare ==
  /\ builder = "idle"
  /\ IF closed
     THEN /\ builder' = "done" /\ waiter' = Tell("failed")
          /\ UNCHANGED <<holder, phase, listed>>
     ELSE /\ builder' = "binding" /\ holder' = "build"
          /\ phase' = "Preparing" /\ listed' = TRUE
          /\ UNCHANGED waiter
  /\ UNCHANGED <<pack, routes, call, closer, reply, remote, closed, cleared, drained>>

NextPack ==
  CHOOSE p \in Packs :
    pack[p] = "unbound" /\ \A q \in 1 .. p - 1 : pack[q] # "unbound"

\* bind_session_packs, one pack: a client that closes interrupts the bind; a
\* bind that fails, tools that do not match or a caller that is gone roll back,
\* with the pack that was bound.
Bind ==
  /\ builder = "binding" /\ \E p \in Packs : pack[p] = "unbound"
  /\ \/ closed /\ DropBuild
     \/ ~closed /\ Rollback("rollback")
     \/ /\ ~closed
        /\ pack' = [pack EXCEPT ![NextPack] = "bound"]
        /\ \/ /\ routes' = FALSE /\ holder' = "rollback" /\ builder' = "rollback"
              /\ UNCHANGED <<phase, listed, waiter>>
           \/ /\ waiter # "gone"
              /\ UNCHANGED <<builder, holder, phase, listed, routes, waiter>>
  /\ UNCHANGED <<call, closer, reply, remote, closed, cleared, drained>>

\* The routes are staged and the request goes out, unless the caller is gone;
\* a closed client fails it.
Stage ==
  /\ builder = "binding" /\ \A p \in Packs : pack[p] # "unbound"
  /\ IF waiter = "gone" THEN Rollback("rollback") /\ UNCHANGED reply
     ELSE /\ builder' = "asked" /\ routes' = TRUE
          /\ reply' = IF closed THEN "unknown" ELSE "none"
          /\ UNCHANGED <<pack, holder, phase, listed, waiter>>
  /\ UNCHANGED <<call, closer, remote, closed, cleared, drained>>

\* The request times out, or the client closes on it.
RequestLost ==
  /\ builder = "asked" /\ reply = "none"
  /\ reply' = "unknown"
  /\ UNCHANGED <<builder, pack, holder, phase, listed, routes, call, closer, waiter,
                 remote, closed, cleared, drained>>

\* Mutant: the session is opened and the packs stay with the guard.
AcceptWithout ==
  /\ phase' = "Open" /\ holder' = "none" /\ pack' = pack
  /\ builder' = "enabling"
  /\ UNCHANGED <<listed, routes, waiter>>

\* accept_prepared_session: under the phase lock the packs go to the lifecycle.
Accept ==
  /\ phase' = "Open" /\ holder' = "session" /\ pack' = pack
  /\ builder' = "enabling"
  /\ UNCHANGED <<listed, routes, waiter>>

Settled == /\ builder = "asked" /\ reply # "none"
           /\ UNCHANGED <<call, closer, reply, remote, cleared, drained>>

\* create_session_owned: a rejection is rolled back; a mismatch or an unknown
\* outcome is rolled back and closes the client; a closed client drops.
SettleEphemeral ==
  IF reply = "accepted"
  THEN IF ~closed /\ phase = "Preparing" /\ listed THEN Accept /\ UNCHANGED closed
       ELSE DropBuild /\ UNCHANGED closed
  ELSE IF closed /\ reply # "mismatch" THEN DropBuild /\ UNCHANGED closed
  ELSE /\ Rollback(IF reply = "rejected" THEN "rollback" ELSE "rollback and close")
       /\ UNCHANGED closed

\* attach_persistent_owned: a definitive rejection is rolled back; whatever
\* else is not an acceptance closes the client first.
SettlePersistent ==
  CASE reply = "accepted" /\ ~closed /\ phase = "Preparing" /\ listed ->
         Accept /\ UNCHANGED closed
    [] reply = "rejected" -> Rollback("rollback") /\ UNCHANGED closed
    [] OTHER -> FailClosed

Settle == Settled /\ (IF Persistent THEN SettlePersistent ELSE SettleEphemeral)

\* enable_interactions needs the session open; its failure leaves the packs to
\* whoever closed it.
Enable ==
  /\ builder = "enabling"
  /\ IF closed \/ phase # "Open"
     THEN builder' = "done" /\ waiter' = Tell("failed")
     ELSE builder' = "delivering" /\ UNCHANGED waiter
  /\ UNCHANGED <<pack, holder, phase, listed, routes, call, closer, reply, remote,
                 closed, cleared, drained>>

\* SessionDelivery: a thread nobody claims comes back to the task.
Deliver ==
  /\ builder = "delivering"
  /\ IF waiter = "waiting" THEN waiter' = "delivered" /\ builder' = "done"
     ELSE builder' = "unclaimed" /\ UNCHANGED waiter
  /\ UNCHANGED <<pack, holder, phase, listed, routes, call, closer, reply, remote,
                 closed, cleared, drained>>

Claim ==
  /\ waiter = "delivered" /\ waiter' = "claimed"
  /\ UNCHANGED <<builder, pack, holder, phase, listed, routes, call, closer, reply,
                 remote, closed, cleared, drained>>

\* The caller stops waiting; what was delivered goes back.
WaiterDrops ==
  /\ waiter \in {"waiting", "delivered"}
  /\ waiter' = "gone"
  /\ builder' = IF waiter = "delivered" THEN "unclaimed" ELSE builder
  /\ UNCHANGED <<pack, holder, phase, listed, routes, call, closer, reply, remote,
                 closed, cleared, drained>>

(***************************************************************************)
(* The close of the session.                                                *)
(***************************************************************************)

\* close_session, by who claimed the thread or by close_unclaimed_session.
CloseSession ==
  /\ phase = "Open" /\ closer = "none" /\ ~closed
  /\ \/ waiter = "claimed" /\ UNCHANGED builder
     \/ builder = "unclaimed" /\ builder' = "unclaimed closing"
  /\ phase' = "Closing" /\ closer' = "asking"
  /\ UNCHANGED <<pack, holder, listed, routes, call, reply, waiter, remote,
                 closed, cleared, drained>>

\* The daemon has closed the session, rejects the close, or is not heard of.
CloseAnswered ==
  /\ closer = "asking"
  /\ \/ /\ remote' = "closed"
        /\ phase' = "Releasing" /\ closer' = "draining" /\ UNCHANGED closed
     \/ /\ ~closed /\ phase' = "Open" /\ closer' = "none"
        /\ UNCHANGED <<closed, remote>>
     \/ /\ phase' = "Closed" /\ closer' = "none" /\ closed' = TRUE
        /\ UNCHANGED remote
  /\ UNCHANGED <<builder, pack, holder, listed, routes, call, reply, waiter, cleared, drained>>

\* release_session: callbacks are stopped and awaited, those that are still in
\* the register; routes go, and the packs are taken from the lifecycle.
Release ==
  /\ closer = "draining" /\ (call => cleared)
  /\ routes' = FALSE /\ closer' = "closing"
  /\ holder' = IF holder = "session" THEN "release" ELSE holder
  /\ UNCHANGED <<builder, pack, phase, listed, call, reply, waiter, remote, closed,
                 cleared, drained>>

Released ==
  /\ closer = "closing"
  /\ holder = "release" => \A p \in Packs : pack[p] \notin {"bound", "closing"}
  /\ closer' = "none" /\ phase' = "Closed"
  /\ holder' = IF holder = "release" THEN "none" ELSE holder
  /\ UNCHANGED <<builder, pack, listed, routes, call, reply, waiter, remote, closed,
                 cleared, drained>>

\* close_unclaimed_session: a close that fails, or a pack that fails to close,
\* closes the client.
UnclaimedDone ==
  /\ \/ builder = "unclaimed closing" /\ closer = "none"
     \/ builder = "unclaimed" /\ closed
  /\ closed' \in {closed \/ phase # "Closed", TRUE}
  /\ builder' = "done"
  /\ UNCHANGED <<pack, holder, phase, listed, routes, call, closer, reply, waiter,
                 remote, cleared, drained>>

\* close_reverse, one pack: its close is awaited ...
ClosePack ==
  /\ holder \in {"rollback", "release"}
  /\ \A p \in Packs : pack[p] # "closing"
  /\ \E p \in Packs :
       /\ pack[p] = "bound" /\ \A q \in p + 1 .. NumPacks : pack[q] # "bound"
       /\ pack' = [pack EXCEPT ![p] = "closing"]
  /\ UNCHANGED <<builder, holder, phase, listed, routes, call, closer, reply, waiter,
                 remote, closed, cleared, drained>>

\* ... and ends, with an error or a panic too.
PackClosed ==
  /\ \E p \in Packs : pack[p] = "closing" /\ pack' = [pack EXCEPT ![p] = "closed"]
  /\ UNCHANGED <<builder, holder, phase, listed, routes, call, closer, reply, waiter,
                 remote, closed, cleared, drained>>

(***************************************************************************)
(* Callbacks, the teardown of the connection, the daemon.                   *)
(***************************************************************************)

CallStarts ==
  /\ ~call /\ routes /\ phase = "Open" /\ ~closed /\ remote = "open"
  /\ call' = TRUE
  /\ UNCHANGED <<builder, pack, holder, phase, listed, routes, closer, reply, waiter,
                 remote, closed, cleared, drained>>

CallEnds ==
  /\ call /\ call' = FALSE
  /\ UNCHANGED <<builder, pack, holder, phase, listed, routes, closer, reply, waiter,
                 remote, closed, cleared, drained>>

\* disconnect, at the end of the input or by anybody who closes the client.
Disconnect ==
  /\ ~closed /\ closed' = TRUE
  /\ UNCHANGED <<builder, pack, holder, phase, listed, routes, call, closer, reply,
                 waiter, remote, cleared, drained>>

\* The maps are cleared: the routes, and the register of running callbacks.
Clear ==
  /\ closed /\ ~cleared /\ cleared' = TRUE
  /\ routes' = FALSE
  /\ UNCHANGED <<builder, pack, holder, phase, listed, call, closer, reply, waiter,
                 remote, closed, drained>>

\* Mutant: the teardown fences every pack of a listed session.
DrainAll ==
  /\ cleared /\ ~drained /\ drained' = TRUE
  /\ phase' = IF listed THEN "Closed" ELSE phase
  /\ pack' = IF listed
             THEN [p \in Packs |-> IF pack[p] = "closing" THEN "fenced" ELSE Fenced[p]]
             ELSE pack
  /\ holder' = IF listed THEN "none" ELSE holder
  /\ UNCHANGED <<builder, listed, routes, call, closer, reply, waiter, remote, closed,
                 cleared>>

\* emergency_drain_session_packs closes every lifecycle that is listed and
\* fences the packs it finds there.
Drain ==
  /\ cleared /\ ~drained /\ drained' = TRUE
  /\ phase' = IF listed THEN "Closed" ELSE phase
  /\ IF listed /\ holder = "session" THEN pack' = Fenced /\ holder' = "none"
     ELSE UNCHANGED <<pack, holder>>
  /\ UNCHANGED <<builder, listed, routes, call, closer, reply, waiter, remote, closed,
                 cleared>>

\* The daemon creates the session, rejects it, or fails in a way that leaves
\* open which of the two.
TakeCreate ==
  /\ builder = "asked" /\ reply = "none" /\ remote = "none" /\ ~closed
  /\ \/ remote' = "open" /\ reply' \in {"accepted", "mismatch", "unknown"}
     \/ UNCHANGED remote /\ reply' \in {"rejected", "unknown"}
  /\ UNCHANGED <<builder, pack, holder, phase, listed, routes, call, closer, waiter,
                 closed, cleared, drained>>

\* A request that was given up is served late.
TakeLate ==
  /\ reply = "unknown" /\ remote = "none" /\ ~closed
  /\ remote' = "open"
  /\ UNCHANGED <<builder, pack, holder, phase, listed, routes, call, closer, reply,
                 waiter, closed, cleared, drained>>

\* The daemon sees the end of its input.
RemoteEof ==
  /\ closed /\ remote = "open" /\ remote' = "closed"
  /\ UNCHANGED <<builder, pack, holder, phase, listed, routes, call, closer, reply,
                 waiter, closed, cleared, drained>>

BuilderStep == \/ Prepare \/ Bind \/ Stage \/ RequestLost \/ Settle \/ Enable
               \/ Deliver \/ RolledBack \/ DropBehindClose
UnclaimedStep == (builder = "unclaimed" /\ CloseSession) \/ UnclaimedDone
CloserStep == CloseAnswered \/ Release \/ Released
PackStep == ClosePack \/ PackClosed

Next ==
  \/ BuilderStep \/ Claim \/ WaiterDrops
  \/ CloseSession \/ UnclaimedDone \/ CloserStep \/ PackStep
  \/ CallStarts \/ CallEnds \/ Disconnect \/ Clear \/ Drain \/ TakeCreate \/ TakeLate
  \/ RemoteEof

Spec == Init /\ [][Next]_vars

(***************************************************************************)
(* Properties.                                                              *)
(***************************************************************************)

\* Nothing is at work: no task, no close, no teardown.
AtRest == /\ builder \in {"idle", "done"} /\ closer = "none"
          /\ holder \notin {"rollback", "release"} /\ closed = drained

\* A pack that is bound at rest belongs to an open session that is listed; the
\* session's routes are there exactly then.
NothingLeaked ==
  AtRest =>
    /\ (\E p \in Packs : pack[p] \in {"bound", "closing"}) =>
         holder = "session" /\ phase = "Open" /\ listed /\ ~closed
    /\ routes => phase = "Open" /\ ~closed

\* A session that is open in the daemon at rest is one whose thread was
\* delivered, unless the connection that owns it goes down.
NobodysSession ==
  AtRest /\ remote = "open" /\ ~closed => waiter \in {"delivered", "claimed"}

\* Packs end in the reverse of the order they were bound in, by a rollback, a
\* close or a teardown, in whatever mixture.
ReverseOrder ==
  \A p, q \in Packs : p < q /\ pack[p] \in {"closing", "closed"} =>
    pack[q] \notin {"bound", "closing"}

\* No callback of the session runs while its packs are being closed, as long as
\* the connection stands.
QuietClose == holder = "release" /\ ~cleared => ~call

\* The promise of the documentation: none runs, whatever goes on.
ToolsQuiet == holder = "release" => ~call

\* A pack ends once: a teardown does not fence one that is closing or closed.
EndsOnce == \A p \in Packs : pack[p] \in {"closing", "closed", "fenced"} =>
              pack'[p] \in {pack[p], "closed"}

\* What a fair schedule ends: the caller waits; ...
Unheard == waiter = "waiting"

\* ... the packs of a session its caller abandoned are there, or the session is
\* in the daemon.
Abandoned == /\ waiter = "gone"
             /\ (\E p \in Packs : pack[p] \in {"bound", "closing"}) \/ remote = "open"
=============================================================================
