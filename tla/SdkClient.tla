------------------------------ MODULE SdkClient ------------------------------
(***************************************************************************)
(* The SDK's client around one session: requests and their replies, the     *)
(* registration of one tool name, the close of the session and the          *)
(* disconnect of the client (lib.rs and sessions.rs of the SDK), against    *)
(* the daemon's registration of tools and its close.                        *)
(*                                                                          *)
(* A registration installs its handler before it asks the daemon, keeps it  *)
(* on success, restores the former one when the daemon rejects it, and      *)
(* disconnects when it cannot know.  The close changes the phase of the     *)
(* session, asks the daemon, and releases what the session owns.            *)
(*                                                                          *)
(* Steps are those between which other threads can run: a check under the   *)
(* phase lock and the change it guards are two steps, because the closed    *)
(* flag and the maps are not protected by that lock.  An actor is a         *)
(* registration or the close.                                               *)
(***************************************************************************)
EXTENDS Naturals, FiniteSets

CONSTANT Regs  \* registrations of one tool name, each with a binding

Close == "close"
None == "none"
Actors == Regs \cup {Close}

ClientAssumption == Close \notin Regs /\ None \notin Regs

VARIABLES
  client,    \* how far ClientState::disconnect has come
  phase,     \* SessionPhase
  phaseLock, \* who holds the phase lock over a check and its change
  released,  \* the session's release fence
  regLock,   \* holder of the registration lock of the tool name
  pc,        \* where each actor is
  pending,   \* actors whose request waits for a reply
  reply,     \* what each actor's request came to
  tools,     \* the handler bound to the tool name
  bindings,  \* tool_bindings
  former,    \* the handler each registration replaced
  acked,     \* history: the last registration reported as successful
  link,      \* the connection is up
  toDaemon,  \* requests under way
  toHost,    \* replies under way
  session,   \* the session in the daemon
  daemonTool \* the binding the daemon routes the tool's calls to

hostVars == <<client, phase, phaseLock, released, regLock, pc, pending, reply,
              tools, bindings, former, acked>>
vars == <<hostVars, link, toDaemon, toHost, session, daemonTool>>

\* "rpc" is a rejection; the daemon's other errors leave a close undecided.
Replies == {"ok", "rpc", "error", "closed", "channel", "timeout"}

TypeOK ==
  /\ client \in {"up", "closed", "failed", "cleared", "gone"}
  /\ phase \in {"open", "closing", "releasing", "closed"}
  /\ phaseLock \in Regs \cup {None} /\ regLock \in Regs \cup {None}
  /\ released \in BOOLEAN /\ link \in BOOLEAN
  /\ pc \in [Actors -> {"idle", "queued", "locked", "admitted", "ask", "asking",
                        "pending", "waiting", "replied", "undo", "break",
                        "release", "drain", "done"}]
  /\ pending \subseteq Actors /\ toDaemon \subseteq Actors
  /\ reply \in [Actors -> Replies \cup {None}]
  /\ tools \in Regs \cup {None} /\ acked \in Regs \cup {None}
  /\ bindings \subseteq Regs
  /\ former \in [Regs -> Regs \cup {None}]
  /\ toHost \subseteq [to : Actors, reply : {"ok", "rpc", "error"}]
  /\ session \in {"open", "closed"}
  /\ daemonTool \in Regs \cup {None}

Init ==
  /\ client = "up" /\ phase = "open" /\ phaseLock = None /\ released = FALSE
  /\ regLock = None /\ pc = [a \in Actors |-> "idle"] /\ pending = {}
  /\ reply = [a \in Actors |-> None]
  /\ tools = None /\ bindings = {} /\ former = [r \in Regs |-> None]
  /\ acked = None
  /\ link = TRUE /\ toDaemon = {} /\ toHost = {}
  /\ session = "open" /\ daemonTool = None

Goto(a, place) == pc' = [pc EXCEPT ![a] = place]

\* with_open_lifecycle: the check every use of the session begins with.
Usable == client = "up" /\ phase = "open"

\* session_closed: the session has been torn down, or is being.
TornDown == phase \in {"closed", "releasing"}

wire == <<link, toDaemon, toHost, session, daemonTool>>
binding == <<tools, bindings, former, acked>>

(***************************************************************************)
(* request_with_remote_error.                                               *)
(***************************************************************************)

\* A request fails at once on a closed client; a scoped one also on a session
\* that is not open, which it learns under the phase lock.
Ask(a) ==
  /\ pc[a] = "ask" /\ phaseLock = None
  /\ IF client # "up"
     THEN /\ Goto(a, "replied") /\ reply' = [reply EXCEPT ![a] = "channel"]
          /\ UNCHANGED phaseLock
     ELSE IF a # Close /\ phase # "open"
     THEN /\ Goto(a, "replied") /\ reply' = [reply EXCEPT ![a] = "closed"]
          /\ UNCHANGED phaseLock
     ELSE /\ Goto(a, "asking") /\ phaseLock' = IF a = Close THEN None ELSE a
          /\ UNCHANGED reply
  /\ UNCHANGED <<client, phase, released, regLock, pending, binding, wire>>

Enter(a) ==
  /\ pc[a] = "asking"
  /\ pending' = pending \cup {a}
  /\ phaseLock' = IF phaseLock = a THEN None ELSE phaseLock
  /\ Goto(a, "pending")
  /\ UNCHANGED <<client, phase, released, regLock, reply, binding, wire>>

\* The closed flag is read again after the request was entered, and the line is
\* written.
Send(a) ==
  /\ pc[a] = "pending"
  /\ IF client # "up" \/ ~link
     THEN /\ Goto(a, "replied") /\ reply' = [reply EXCEPT ![a] = "channel"]
          /\ pending' = pending \ {a}
          /\ UNCHANGED toDaemon
     ELSE /\ Goto(a, "waiting")
          /\ toDaemon' = toDaemon \cup {a}
          /\ UNCHANGED <<pending, reply>>
  /\ UNCHANGED <<client, phase, phaseLock, released, regLock, binding, link,
                 toHost, session, daemonTool>>

\* The reader hands a reply to the request that waits for it; a late one finds
\* nobody.
Deliver(m) ==
  /\ link /\ m \in toHost
  /\ toHost' = toHost \ {m}
  /\ pending' = pending \ {m.to}
  /\ reply' = IF m.to \in pending THEN [reply EXCEPT ![m.to] = m.reply] ELSE reply
  /\ UNCHANGED <<client, phase, phaseLock, released, regLock, pc, binding, link,
                 toDaemon, session, daemonTool>>

\* What the wait of a request comes to: the release of its session first, then
\* the reply, or the timeout.
Wake(a) ==
  /\ pc[a] = "waiting"
  /\ LET fenced == a # Close /\ released IN
     \E r \in IF fenced THEN {"closed"}
              ELSE ({reply[a]} \ {None}) \cup {"timeout"} :
       reply' = [reply EXCEPT ![a] = IF a # Close /\ TornDown THEN "closed" ELSE r]
  /\ pending' = pending \ {a}
  /\ Goto(a, "replied")
  /\ UNCHANGED <<client, phase, phaseLock, released, regLock, binding, wire>>

(***************************************************************************)
(* WhaleThread::register_tool.                                              *)
(***************************************************************************)

\* Registrations of a name queue for its lock.
Register(r) ==
  /\ pc[r] = "idle" /\ Usable
  /\ Goto(r, "queued")
  /\ UNCHANGED <<client, phase, phaseLock, released, regLock, pending, reply,
                 binding, wire>>

\* The holder of the lock looks at the session again; its waiter may also have
\* been given up.
Lock(r) ==
  /\ pc[r] = "queued" /\ regLock = None
  /\ \/ Usable /\ Goto(r, "locked") /\ regLock' = r
     \/ Goto(r, "done") /\ UNCHANGED regLock
  /\ UNCHANGED <<client, phase, phaseLock, released, pending, reply, binding, wire>>

Unlock(r) == regLock' = IF regLock = r THEN None ELSE regLock

\* with_session_open: the check, under the phase lock, ...
Admit(r) ==
  /\ pc[r] = "locked" /\ phaseLock = None
  /\ IF Usable
     THEN /\ Goto(r, "admitted") /\ phaseLock' = r /\ UNCHANGED regLock
     ELSE /\ Goto(r, "done") /\ Unlock(r) /\ UNCHANGED phaseLock
  /\ UNCHANGED <<client, phase, released, pending, reply, binding, wire>>

\* ... and the new handler under its binding and under the name.
Install(r) ==
  /\ pc[r] = "admitted"
  /\ bindings' = bindings \cup {r}
  /\ former' = [former EXCEPT ![r] = tools]
  /\ tools' = r
  /\ phaseLock' = None /\ Goto(r, "ask")
  /\ UNCHANGED <<client, phase, released, regLock, pending, reply, acked, wire>>

\* A success is reported and keeps the handler, unless the session was torn
\* down meanwhile.
Commit(r) ==
  /\ pc[r] = "replied" /\ reply[r] = "ok"
  /\ acked' = IF TornDown THEN acked ELSE r
  /\ Goto(r, "done") /\ Unlock(r)
  /\ UNCHANGED <<client, phase, phaseLock, released, pending, reply, tools,
                 bindings, former, wire>>

\* A session that is closed, or closing, fails the registration and leaves the
\* handlers to the release.
SessionClosed(r) ==
  /\ pc[r] = "replied" /\ reply[r] = "closed"
  /\ Goto(r, "done") /\ Unlock(r)
  /\ UNCHANGED <<client, phase, phaseLock, released, pending, reply, binding, wire>>

\* A rejection takes the binding out ...
Reject(r) ==
  /\ pc[r] = "replied" /\ reply[r] = "rpc" /\ client = "up"
  /\ bindings' = bindings \ {r}
  /\ Goto(r, "undo")
  /\ UNCHANGED <<client, phase, phaseLock, released, regLock, pending, reply,
                 tools, former, acked, wire>>

\* ... and restores the former handler while the session exists; the closed
\* flag is read under the lock of the map's shard, which the clear needs too.
Undo(r) ==
  /\ pc[r] = "undo" /\ phaseLock = None
  /\ tools' = IF ~TornDown /\ client = "up" THEN former[r] ELSE tools
  /\ Goto(r, "done") /\ Unlock(r)
  /\ UNCHANGED <<client, phase, phaseLock, released, pending, reply, bindings,
                 former, acked, wire>>

\* Mutant: a timeout is taken for a rejection.
UnknownUndone(r) ==
  /\ pc[r] = "replied"
  /\ reply[r] \in {"channel", "timeout"} \/ (reply[r] = "rpc" /\ client # "up")
  /\ bindings' = bindings \ {r}
  /\ UNCHANGED tools
  /\ Goto(r, "undo")
  /\ UNCHANGED <<client, phase, phaseLock, released, regLock, pending, reply,
                 former, acked, wire>>

\* Any other failure leaves the daemon's side unknown: both maps are cleared of
\* the tool and the client disconnects.
Unknown(r) ==
  /\ pc[r] = "replied"
  /\ reply[r] \in {"channel", "timeout"} \/ (reply[r] = "rpc" /\ client # "up")
  /\ bindings' = bindings \ {r}
  /\ tools' = None
  /\ Goto(r, "break")
  /\ UNCHANGED <<client, phase, phaseLock, released, regLock, pending, reply,
                 former, acked, wire>>

(***************************************************************************)
(* WhaleClient::close_session; its joiners share the attempt's outcome.     *)
(***************************************************************************)

BeginClose ==
  /\ pc[Close] = "idle" /\ Usable /\ phaseLock = None
  /\ phase' = "closing" /\ Goto(Close, "ask")
  /\ UNCHANGED <<client, phaseLock, released, regLock, pending, reply, binding, wire>>

\* An acknowledged close tears the session down, ...
CloseAcknowledged ==
  /\ pc[Close] = "replied" /\ reply[Close] = "ok" /\ phaseLock = None
  /\ phase' = "releasing" /\ Goto(Close, "release")
  /\ UNCHANGED <<client, phaseLock, released, regLock, pending, reply, binding, wire>>

\* release_session: the fence, and an answer for the requests of the session, ...
Release ==
  /\ pc[Close] = "release"
  /\ released' = TRUE
  /\ reply' = [a \in Actors |-> IF a \in pending \ {Close} THEN "closed" ELSE reply[a]]
  /\ pending' = pending \cap {Close}
  /\ Goto(Close, "drain")
  /\ UNCHANGED <<client, phase, phaseLock, regLock, binding, wire>>

\* ... which ends the registrations it waits for before it clears the tools.
Drain ==
  /\ pc[Close] = "drain" /\ regLock = None /\ phaseLock = None
  /\ tools' = None /\ bindings' = {}
  /\ phase' = "closed" /\ Goto(Close, "done")
  /\ UNCHANGED <<client, phaseLock, released, regLock, pending, reply, former,
                 acked, wire>>

\* A rejected close reopens the session.
CloseRejected ==
  /\ pc[Close] = "replied" /\ reply[Close] = "rpc" /\ client = "up"
  /\ phaseLock = None
  /\ phase' = "open" /\ Goto(Close, "done")
  /\ UNCHANGED <<client, phaseLock, released, regLock, pending, reply, binding, wire>>

\* One whose outcome is unknown closes the client.
CloseUnknown ==
  /\ pc[Close] = "replied" /\ phaseLock = None
  /\ \/ reply[Close] \in {"channel", "timeout", "error"}
     \/ reply[Close] = "rpc" /\ client # "up"
  /\ phase' = "closed" /\ Goto(Close, "break")
  /\ UNCHANGED <<client, phaseLock, released, regLock, pending, reply, binding, wire>>

(***************************************************************************)
(* ClientState::disconnect.                                                 *)
(***************************************************************************)

\* Whoever sets the flag first does the rest: an actor that gave up, ...
Break(a) ==
  /\ pc[a] = "break"
  /\ client' = IF client = "up" THEN "closed" ELSE client
  /\ Goto(a, "done") /\ Unlock(a)
  /\ UNCHANGED <<phase, phaseLock, released, pending, reply, binding, wire>>

\* ... the reader that lost the connection, or the user.
Disconnect ==
  /\ client = "up" /\ client' = "closed"
  /\ UNCHANGED <<phase, phaseLock, released, regLock, pc, pending, reply, binding,
                 wire>>

\* Every request that waits is failed, ...
FailPending ==
  /\ client = "closed" /\ client' = "failed"
  /\ reply' = [a \in Actors |-> IF a \in pending THEN "channel" ELSE reply[a]]
  /\ pending' = {}
  /\ UNCHANGED <<phase, phaseLock, released, regLock, pc, binding, wire>>

\* ... the maps are cleared, ...
Clear ==
  /\ client = "failed" /\ client' = "cleared"
  /\ tools' = None /\ bindings' = {}
  /\ UNCHANGED <<phase, phaseLock, released, regLock, pc, pending, reply, former,
                 acked, wire>>

\* ... and the sessions closed under their phase locks; the transport goes last.
Shut ==
  /\ client = "cleared" /\ phaseLock = None
  /\ client' = "gone" /\ phase' = "closed" /\ released' = TRUE
  /\ link' = FALSE /\ toDaemon' = {} /\ toHost' = {}
  /\ UNCHANGED <<phaseLock, regLock, pc, pending, reply, binding, session,
                 daemonTool>>

(***************************************************************************)
(* The daemon and the connection.                                           *)
(***************************************************************************)

\* handle_register_tools: an open session takes the definition, or rejects it.
\* The durable configuration it replaces first belongs to SessionJournal.
HandleRegister(r) ==
  /\ link /\ r \in toDaemon \cap Regs
  /\ toDaemon' = toDaemon \ {r}
  /\ \/ /\ session = "open"
        /\ daemonTool' = r
        /\ toHost' = toHost \cup {[to |-> r, reply |-> "ok"]}
     \/ /\ UNCHANGED daemonTool
        /\ toHost' = toHost \cup {[to |-> r, reply |-> "rpc"]}
  /\ UNCHANGED <<hostVars, link, session>>

\* handle_close_session: the close succeeds, fails after it has begun, or is
\* rejected (by a daemon that does not know the method, for one).
HandleClose ==
  /\ link /\ Close \in toDaemon
  /\ toDaemon' = toDaemon \ {Close}
  /\ \/ /\ session' = "closed" /\ daemonTool' = None
        /\ \E r \in {"ok", "error"} :
             toHost' = toHost \cup {[to |-> Close, reply |-> r]}
     \/ /\ UNCHANGED <<session, daemonTool>>
        /\ toHost' = toHost \cup {[to |-> Close, reply |-> "rpc"]}
  /\ UNCHANGED <<hostVars, link>>

LinkBreaks ==
  /\ link /\ link' = FALSE /\ toDaemon' = {} /\ toHost' = {}
  /\ UNCHANGED <<hostVars, session, daemonTool>>

(***************************************************************************)
(* The whole.                                                               *)
(***************************************************************************)

Quiet == \A a \in Actors : pc[a] \in {"idle", "done"}

RequestStep(a) == Ask(a) \/ Enter(a) \/ Send(a) \/ Wake(a)

RegistrationStep(r) ==
  \/ Lock(r) \/ Admit(r) \/ Install(r)
  \/ Commit(r) \/ SessionClosed(r) \/ Reject(r) \/ Undo(r) \/ Unknown(r)

CloseStep == \/ CloseAcknowledged \/ Release \/ Drain
             \/ CloseRejected \/ CloseUnknown

DisconnectStep == FailPending \/ Clear \/ Shut

Done == Quiet /\ UNCHANGED vars

Next ==
  \/ \E a \in Actors : RequestStep(a) \/ Break(a)
  \/ \E r \in Regs : Register(r) \/ RegistrationStep(r) \/ HandleRegister(r)
  \/ BeginClose \/ CloseStep \/ HandleClose
  \/ \E m \in toHost : Deliver(m)
  \/ Disconnect \/ DisconnectStep \/ LinkBreaks \/ Done

Spec == Init /\ [][Next]_vars

(***************************************************************************)
(* Properties.                                                              *)
(***************************************************************************)

\* When a client or a session is closed and its tasks have ended, no request
\* and no handler is left in the maps, whatever was being installed meanwhile.
NothingLeft ==
  (client = "gone" \/ (phase = "closed" /\ client = "up")) /\ Quiet =>
    pending = {} /\ tools = None /\ bindings = {} /\ regLock = None

\* While the session is open on a live client and no registration is at work,
\* the handler bound to the name is that of the last successful registration, or
\* one that failed because its session was closing: it leaves its handler to the
\* release, which does not come when the daemon rejects the close.
NameIsAcknowledged ==
  client = "up" /\ phase = "open" /\ Quiet =>
    tools = acked \/ (tools # None /\ reply[tools] = "closed")

\* The binding the daemon routes calls to is one the host still knows, as long
\* as the client is up and the session open; a registration that cannot know
\* its outcome disconnects instead.
BindingKnown ==
  /\ client = "up" /\ phase = "open" /\ daemonTool # None
  /\ pc[daemonTool] # "break"
  => daemonTool \in bindings

\* The host never takes a session for open that the daemon has closed.
OpenIsOpen == client = "up" /\ phase = "open" => session = "open"

\* A registration or a close is under way, the wait of the release for the
\* registrations and theirs for the daemon included; a fair schedule ends that.
Busy == \E a \in Actors : pc[a] \notin {"idle", "done"}
=============================================================================
