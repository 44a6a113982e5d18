------------------------- MODULE RunLifecycleProofs -------------------------
(***************************************************************************)
(* A run ends as its clients were told, and what they receive is in order: *)
(* the safety of RunLifecycle, for any requests that start and cancel the  *)
(* run, any number of items and either kind of session.                    *)
(***************************************************************************)
EXTENDS RunLifecycle, SequenceTheorems, WellFoundedInduction, TLAPS

(***************************************************************************)
(* Induction over the natural numbers, stated for a set rather than for a  *)
(* predicate: to show P(n) for every n, apply it to {n \in Nat : P(n)}.    *)
(* It is used for what recursive functions over the positions of a         *)
(* sequence compute.                                                       *)
(***************************************************************************)
Less == OpToRel(<, Nat)

LEMMA LessWellFounded == IsWellFoundedOn(Less, Nat)
BY NatLessThanWellFounded, Zenon DEF Less

LEMMA LessContains == \A m, n \in Nat : m < n => <<m, n>> \in Less
BY Zenon DEF OpToRel, Less

\* A set of natural numbers that is not empty has a least element.
LEMMA LeastElement ==
  ASSUME NEW T, T \subseteq Nat, T # {}
  PROVE  \E n \in T : \A m \in T : n =< m
<1>1. PICK n \in T : \A m \in T : <<m, n>> \notin Less
  BY LessWellFounded, WFMin, Zenon
<1>2. ASSUME NEW m \in T
      PROVE  ~(m < n)
  BY <1>1, LessContains, Zenon
<1>3. ASSUME NEW m \in T
      PROVE  n =< m
  BY <1>2
<1>4. QED
  BY <1>3, Zenon

LEMMA SetInduction ==
  ASSUME NEW S, 0 \in S, \A n \in Nat : n \in S => n + 1 \in S
  PROVE  \A n \in Nat : n \in S
<1> DEFINE T == {n \in Nat : n \notin S}
<1> SUFFICES ASSUME T # {} PROVE FALSE
  OBVIOUS
<1>1. PICK n \in T : \A m \in T : n =< m
  <2>1. T \subseteq Nat
    OBVIOUS
  <2> HIDE DEF T
  <2>2. QED
    BY <2>1, LeastElement
<1>2. n \in Nat \ {0}
  OBVIOUS
<1>3. n - 1 \in Nat /\ n - 1 \notin T /\ (n - 1) + 1 = n
  BY <1>1, <1>2
<1>4. QED
  BY <1>3

(***************************************************************************)
(* The inductive invariant                                                 *)
(***************************************************************************)
InEvent   == exec.pc \in {"event", "publish", "publishing", "send"}
Executing == exec.pc = "select" \/ (InEvent /\ exec.back = "select")
Draining  == exec.pc \in {"drain", "settle"} \/ (InEvent /\ exec.back = "drain")
Stored    == exec.pc \in {"finish", "finishing", "deliver", "ended"}
Settled   == Stored \/ exec.pc = "finalize"
Over      == Settled \/ exec.pc = "removed"

\* The executing task and the view are records of these fields.
TaskRecord == [pc : Pcs, back : {"none", "select", "drain"}, outcome : Terminal \cup {"none"},
               event : 0..ItemBound, seq : Nat, stored : {"none", "yes", "failed"}]
ViewRecord == [cursor : Nat, active : BOOLEAN, items : SUBSET (1..ItemBound),
               history : Seq(1..ItemBound), last : Terminal \cup {"none"}]
Shaped == exec \in TaskRecord /\ view \in ViewRecord

\* The rest of TypeOK, by the kind of value.
Flags == live \in BOOLEAN /\ cancel \in BOOLEAN /\ late \in BOOLEAN

Points ==
    /\ status \in Terminal \cup {"running", "cancelling"} /\ seq \in 0..(ItemBound + 1)
    /\ snapLock \in Publishers \cup {Nobody} /\ pubLock \in Publishers \cup {Nobody}
    /\ acceptance \in {"open", "yes", "no"} /\ preparation \in {"open", "ok", "failed"}
    /\ delivery \in {"open", "ok", "undelivered"}
    /\ durable \in Terminal \cup {"absent", "none", "active"}
    /\ engine \in {"idle", "running", "completed", "failed", "dropped"}
    /\ closer \in {"idle", "closing", "waiting", "closed", "failed"}
    /\ hangup \in {"none", "settle", "cancel", "close", "done"}

Tables ==
    /\ items \in Seq(1..ItemBound) /\ history \in Seq(1..ItemBound)
    /\ queue \in Seq(1..ItemBound) /\ wire \in Seq(Frame)
    /\ committed \in [Publishers -> Nat]
    /\ starter \in [Starters -> {"waiting", "replied", "refused", "undelivered", "done",
                                 "panicked"}]
    /\ canceller \in [Cancellers -> {"idle", "publish", "notify", "done"}]
    /\ answer \in [Cancellers -> Terminal \cup {"none", "cancelling"}]

\* Who holds a lock is at a point where it holds it, and a cancel keeps the
\* status it has set.
Locked ==
    /\ exec.pc = "finalize" => snapLock = Executor /\ Persistent
    /\ exec.pc \in {"announcing", "publishing", "finishing"} <=> pubLock = Executor
    /\ \A k \in Cancellers :
         /\ canceller[k] \in {"publish", "notify"} => snapLock = k /\ status = "cancelling"
         /\ canceller[k] = "notify" => pubLock = k

\* Every item of the history is in the snapshot, in the channel or in the
\* executing task's hand, until the terminal commit copies the history.
Counted ==
    /\ Len(history) =< ItemBound
    /\ ~Over => /\ seq = Len(items)
                /\ Len(items) + Len(queue) + (IF exec.pc = "event" THEN 1 ELSE 0) = Len(history)
    /\ InEvent => /\ exec.back \in {"select", "drain"}
                  /\ exec.event \in 1..ItemBound /\ history # <<>>
    /\ exec.pc \in {"publish", "publishing", "send"} => exec.seq = seq

\* How a run ends is decided behind the acceptance gate.
Decided ==
    /\ Executing => acceptance = "yes" /\ engine \in {"running", "completed", "failed"}
    /\ Draining => /\ acceptance # "open" /\ exec.outcome \in Terminal
                   /\ acceptance = "no" => exec.outcome = "cancelled"
    /\ status \in Terminal <=> Settled
    /\ exec.stored # "none" => Stored
    /\ exec.pc \in {"finishing", "deliver"} => acceptance = "yes"

\* What a cancel was told holds of the run from then on.
Answered ==
    \A k \in Cancellers :
        /\ answer[k] = "cancelling" => status \in {"cancelling", "cancelled"}
                                       \/ exec.stored = "failed"
        /\ answer[k] \in Terminal => answer[k] = status /\ Stored

Told(kind) == \E i \in 1..Len(wire) : wire[i].kind = kind

\* The journal is ahead of what anybody is told.
Journalled ==
    /\ Persistent =>
         /\ exec.pc = "begin" => durable = "none"
         /\ exec.pc \notin {"begin", "removed"} => durable # "none"
         /\ preparation = "ok" \/ Told("accepted") => durable # "none"
         /\ Stored /\ status = "completed" => durable = "completed"
    /\ view.last # "none" => view.last = status /\ exec.pc \in {"finishing", "deliver", "ended"}

\* The acknowledgement is behind all the client can see of the run.
Acknowledged ==
    /\ \A k \in Starters : starter[k] \in {"replied", "done", "panicked"} => Told("accepted")
    /\ acceptance = "yes" \/ live \/ notified # <<>> \/ history # <<>> => Told("accepted")
    /\ wire # <<>> => wire[1].kind = "accepted"

\* The frames of the run are older than what it is about to send, and the
\* terminal one is its last.
Framed ==
    /\ \A i, j \in 1..Len(wire) : i < j /\ wire[i].kind # "accepted" /\ wire[j].kind # "accepted"
         => wire[i].seq < wire[j].seq /\ wire[i].kind = "stream"
    /\ \A i \in 1..Len(wire) :
         /\ wire[i].kind = "stream" =>
              /\ wire[i].seq =< seq
              /\ exec.pc \in {"publish", "publishing", "send", "finalize", "finish", "finishing",
                              "deliver"} => wire[i].seq < seq
         /\ wire[i].kind = "finished" => exec.pc = "ended" /\ wire[i].seq = seq

\* Every cursor is notified or held back, in order, but the one that the holder
\* of the publication lock has committed.
Held == IF pubLock = Nobody THEN 0 ELSE IF committed[pubLock] = 0 THEN 0 ELSE 1
Cursors ==
    /\ \A i \in 1..Len(notified) : notified[i] = i
    /\ \A i \in 1..Len(pending) : pending[i] = Len(notified) + i
    /\ live => pending = <<>> /\ acceptance # "open"
    /\ ~live => notified = <<>>
    /\ view.cursor = Len(notified) + Len(pending) + Held
    /\ Held = 1 => committed[pubLock] = view.cursor
    /\ notified \in Seq(Nat) /\ pending \in Seq(Nat)

\* The session is closed behind the run.
Quiet ==
    /\ exec.pc \in {"begin", "announce", "removed"} => ~view.active
    /\ delivery = "ok" => exec.pc = "removed" \/ (exec.pc = "ended" /\ Told("finished"))
    /\ delivery = "undelivered" => exec.pc = "ended"
    /\ closer = "closed" => /\ ~view.active
                            /\ exec.pc = "removed" \/ (exec.pc = "ended" /\ Told("finished"))

LifeInv == /\ Shaped /\ Flags /\ Points /\ Tables /\ Locked /\ Counted /\ Decided /\ Answered
           /\ Journalled /\ Acknowledged /\ Framed /\ Cursors /\ Quiet

(***************************************************************************)
(* The operators on sequences                                              *)
(***************************************************************************)

\* The cursors 1, 2, 3, ... are sorted already.
LEMMA SortedByCursor ==
  ASSUME NEW s \in Seq(Nat), \A k \in 1..Len(s) : s[k] = k
  PROVE  ByCursor(s) = s
<1> DEFINE n == Len(s)
           D == DOMAIN s
           Sorts(f) == \A j, k \in D : j < k => f[j] # f[k] /\ s[f[j]] =< s[f[k]]
           place == CHOOSE f \in [D -> D] : Sorts(f)
<1>1. n \in Nat /\ D = 1..n
  BY LenProperties
<1>2. place \in [D -> D] /\ Sorts(place)
  <2>1. [k \in D |-> k] \in [D -> D] /\ Sorts([k \in D |-> k])
    BY <1>1
  <2> HIDE DEF Sorts, D
  <2>2. QED
    BY <2>1, Zenon
<1>3. ByCursor(s) = [k \in D |-> s[place[k]]]
  BY Zenon DEF ByCursor
<1> HIDE DEF place
<1>4. \A j, k \in D : j < k => place[j] < place[k]
  BY <1>1, <1>2
<1>5. \A k \in D : place[k] \in Nat /\ place[k] =< n
  BY <1>1, <1>2
<1>6. \A k \in D : place[k] >= k
  <2> DEFINE S == {k \in Nat : k \in D => place[k] >= k}
  <2>1. 0 \in S
    BY <1>1
  <2>2. ASSUME NEW k \in Nat, k \in S
        PROVE  k + 1 \in S
    <3>1. CASE k \in D /\ k + 1 \in D
      BY <1>1, <1>4, <1>5, <2>2, <3>1
    <3>2. CASE k = 0 /\ k + 1 \in D
      BY <1>1, <1>2, <3>2
    <3>3. CASE k + 1 \notin D
      BY <3>3
    <3>4. QED
      BY <1>1, <3>1, <3>2, <3>3
  <2> HIDE DEF S
  <2>3. \A k \in Nat : k \in S
    BY <2>1, <2>2, SetInduction
  <2>4. QED
    BY <1>1, <2>3 DEF S
<1>7. \A k \in D : place[k] =< k
  <2> DEFINE S == {d \in Nat : d < n => place[n - d] =< n - d}
  <2>1. 0 \in S
    BY <1>1, <1>5
  <2>2. ASSUME NEW d \in Nat, d \in S
        PROVE  d + 1 \in S
    <3>1. CASE d + 1 < n
      <4>1. n - d \in D /\ n - (d + 1) \in D /\ n - (d + 1) < n - d
        BY <1>1, <3>1
      <4>2. place[n - (d + 1)] < place[n - d] /\ place[n - d] =< n - d
        BY <1>1, <1>4, <2>2, <3>1, <4>1
      <4>3. QED
        BY <1>1, <1>5, <4>1, <4>2
    <3>2. QED
      BY <1>1, <3>1
  <2> HIDE DEF S
  <2>3. \A d \in Nat : d \in S
    BY <2>1, <2>2, SetInduction
  <2>4. ASSUME NEW k \in D
        PROVE  place[k] =< k
    <3>1. n - k \in Nat /\ n - k < n /\ n - (n - k) = k
      BY <1>1
    <3>2. QED
      BY <2>3, <3>1 DEF S
  <2>5. QED
    BY <2>4
<1>8. \A k \in D : s[place[k]] = s[k]
  BY <1>1, <1>5, <1>6, <1>7
<1>9. s = [k \in D |-> s[k]]
  BY <1>1
<1>10. QED
  BY <1>3, <1>8, <1>9, Zenon

\* f[k] holds those of the first k items of s that the view v does not show.
IsUnshown(f, v, s, n) ==
    f = [k \in 0..n |-> IF k = 0 THEN <<>>
                        ELSE IF Known(v, s[k]) THEN f[k - 1]
                        ELSE Append(f[k - 1], s[k])]

LEMMA UnshownExists ==
  ASSUME NEW v, NEW s, NEW n \in Nat
  PROVE  \E f : IsUnshown(f, v, s, n)
<1> DEFINE S == {m \in Nat : \E f : IsUnshown(f, v, s, m)}
<1>1. 0 \in S
  <2>1. IsUnshown([k \in 0..0 |-> <<>>], v, s, 0)
    BY DEF IsUnshown
  <2>2. QED
    BY <2>1
<1>2. ASSUME NEW m \in Nat, m \in S
      PROVE  m + 1 \in S
  <2>1. PICK f : IsUnshown(f, v, s, m)
    BY <1>2
  <2> DEFINE x == IF Known(v, s[m + 1]) THEN f[m] ELSE Append(f[m], s[m + 1])
             e == [k \in 0..(m + 1) |-> IF k = m + 1 THEN x ELSE f[k]]
  <2>2. ASSUME NEW k \in 0..(m + 1)
        PROVE  e[k] = IF k = 0 THEN <<>>
                      ELSE IF Known(v, s[k]) THEN e[k - 1] ELSE Append(e[k - 1], s[k])
    <3>1. CASE k = m + 1
      <4>1. e[k] = x /\ e[k - 1] = f[m] /\ k # 0
        BY <3>1
      <4>2. QED
        BY <3>1, <4>1
    <3>2. CASE k \in 0..m
      <4>1. e[k] = f[k] /\ (k # 0 => e[k - 1] = f[k - 1])
        BY <3>2
      <4> HIDE DEF e
      <4>2. QED
        BY <2>1, <3>2, <4>1 DEF IsUnshown
    <3>3. QED
      BY <3>1, <3>2
  <2>3. IsUnshown(e, v, s, m + 1)
    BY <2>2 DEF IsUnshown
  <2>4. QED
    BY <2>3
<1> HIDE DEF S
<1>3. n \in S
  BY <1>1, <1>2, SetInduction
<1>4. QED
  BY <1>3 DEF S

\* The view w is the view v at the end of its run, with the items r added.
IsFinished(w, v, st, r) ==
    w = [v EXCEPT !.cursor = @ + 1, !.active = FALSE, !.items = {}, !.last = st,
                  !.history = @ \o r]

\* What the finish of the run adds to the history of the view are items.
LEMMA ViewFinishedHistory ==
  ASSUME NEW T, NEW v, NEW s \in Seq(T), NEW st
  PROVE  \E r \in Seq(T) : IsFinished(ViewFinished(v, s, st), v, st, r)
<1> DEFINE n == Len(s)
           F == CHOOSE f : IsUnshown(f, v, s, n)
<1>1. n \in Nat
  BY LenProperties
<1>2. IsFinished(ViewFinished(v, s, st), v, st, F[n])
  BY Zenon DEF ViewFinished, IsUnshown, IsFinished
<1>3. IsUnshown(F, v, s, n)
  BY <1>1, UnshownExists, Zenon
<1> HIDE DEF F
<1> DEFINE S == {k \in Nat : k =< n => F[k] \in Seq(T)}
<1>4. 0 \in S
  BY <1>1, <1>3 DEF IsUnshown
<1>5. ASSUME NEW k \in Nat, k \in S
      PROVE  k + 1 \in S
  <2>1. CASE k + 1 =< n
    <3>1. F[k] \in Seq(T) /\ s[k + 1] \in T
      <4>1. k + 1 \in 1..Len(s) /\ k =< n
        BY <1>1, <2>1
      <4>2. QED
        BY <1>5, <4>1, ElementOfSeq
    <3>2. F[k + 1] = F[k] \/ F[k + 1] = Append(F[k], s[k + 1])
      <4>1. k + 1 \in 0..n /\ k + 1 # 0 /\ (k + 1) - 1 = k
        BY <1>1, <2>1
      <4>2. F[k + 1] = IF Known(v, s[k + 1]) THEN F[(k + 1) - 1]
                       ELSE Append(F[(k + 1) - 1], s[k + 1])
        BY <1>3, <4>1, Zenon DEF IsUnshown
      <4>3. QED
        BY <4>1, <4>2
    <3>3. Append(F[k], s[k + 1]) \in Seq(T)
      BY <3>1, AppendProperties
    <3>4. F[k + 1] \in Seq(T)
      BY <3>1, <3>2, <3>3, Zenon
    <3>5. QED
      BY <3>4
  <2>2. QED
    BY <1>1, <2>1
<1>6. F[n] \in Seq(T)
  <2> HIDE DEF S
  <2>1. n \in S
    BY <1>1, <1>4, <1>5, SetInduction
  <2>2. QED
    BY <1>1, <2>1 DEF S
<1>7. QED
  BY <1>2, <1>6


(***************************************************************************)
(* Commit, Notify and the frames on the wire                               *)
(***************************************************************************)

\* A view that is installed is the one before it, or is one cursor ahead.
LEMMA CommitCursors ==
  ASSUME Shaped, Flags, Tables, Cursors, NEW p \in Publishers, NEW v,
         v = view \/ v.cursor = view.cursor + 1,
         Commit(p, v), UNCHANGED <<outbox, acceptance>>
  PROVE  Cursors' /\ committed' \in [Publishers -> Nat]
<1> USE LifecycleAssumption
<1>1. p # Nobody /\ view.cursor \in Nat /\ committed \in [Publishers -> Nat]
  BY DEF Publishers, Executor, Nobody, Shaped, TaskRecord, ViewRecord, Tables
<1>2. /\ pubLock = Nobody /\ pubLock' = p /\ view' = v
      /\ committed' = [committed EXCEPT ![p] = IF v = view THEN 0 ELSE v.cursor]
  BY DEF Commit, LockFree
<1>3. committed' \in [Publishers -> Nat] /\ committed'[p] = (IF v = view THEN 0 ELSE v.cursor)
  BY <1>1, <1>2
<1>4. Held = 0 /\ Held' = (IF v = view THEN 0 ELSE 1)
  BY <1>1, <1>2, <1>3 DEF Held
<1>5. view'.cursor = view.cursor + Held'
  BY <1>1, <1>2, <1>4
<1>6. Held' = 1 => committed'[pubLock'] = view'.cursor
  BY <1>2, <1>3, <1>4
<1>7. QED
  BY <1>1, <1>3, <1>4, <1>5, <1>6 DEF Cursors, outbox

\* The holder of the publication lock publishes the cursor it has committed, or
\* holds it back.
LEMMA NotifyCursors ==
  ASSUME Shaped, Flags, Tables, Cursors, NEW p \in Publishers, pubLock = p,
         Notify(p), UNCHANGED acceptance
  PROVE  Cursors' /\ committed' \in [Publishers -> Nat] /\ (notified' # <<>> => live)
<1> USE LifecycleAssumption
<1>1. /\ p # Nobody /\ view.cursor \in Nat /\ committed \in [Publishers -> Nat]
      /\ live \in BOOLEAN /\ notified \in Seq(Nat) /\ pending \in Seq(Nat)
  BY DEF Publishers, Executor, Nobody, Shaped, TaskRecord, ViewRecord, Flags, Tables, Cursors
<1>2. /\ pubLock' = Nobody /\ UNCHANGED <<view, live>>
      /\ notified' = IF committed[p] # 0 /\ live THEN Append(notified, committed[p]) ELSE notified
      /\ pending' = IF committed[p] # 0 /\ ~live THEN Append(pending, committed[p]) ELSE pending
      /\ committed' = [committed EXCEPT ![p] = 0]
  BY DEF Notify
<1>3. committed' \in [Publishers -> Nat] /\ Held' = 0
  BY <1>1, <1>2 DEF Held
<1>4. Held = IF committed[p] = 0 THEN 0 ELSE 1
  BY <1>1 DEF Held
<1>5. CASE committed[p] = 0
  BY <1>1, <1>2, <1>3, <1>4, <1>5 DEF Cursors
<1>6. CASE committed[p] # 0 /\ live
  <2>1. /\ notified' = Append(notified, view.cursor) /\ pending' = <<>> /\ pending = <<>>
        /\ view.cursor = Len(notified) + 1
    BY <1>1, <1>2, <1>4, <1>6 DEF Cursors
  <2>2. /\ notified' \in Seq(Nat) /\ Len(notified') = Len(notified) + 1
        /\ notified'[Len(notified) + 1] = view.cursor
        /\ \A i \in 1..Len(notified) : notified'[i] = notified[i]
    BY <1>1, <2>1, AppendProperties
  <2>3. \A i \in 1..Len(notified') : notified'[i] = i
    BY <1>1, <2>1, <2>2 DEF Cursors
  <2>4. QED
    BY <1>1, <1>2, <1>3, <1>6, <2>1, <2>2, <2>3 DEF Cursors
<1>7. CASE committed[p] # 0 /\ ~live
  <2>1. /\ pending' = Append(pending, view.cursor) /\ notified' = <<>> /\ notified = <<>>
        /\ view.cursor = Len(pending) + 1
    BY <1>1, <1>2, <1>4, <1>7 DEF Cursors
  <2>2. /\ pending' \in Seq(Nat) /\ Len(pending') = Len(pending) + 1
        /\ pending'[Len(pending) + 1] = view.cursor
        /\ \A i \in 1..Len(pending) : pending'[i] = pending[i]
    BY <1>1, <2>1, AppendProperties
  <2>3. \A i \in 1..Len(pending') : pending'[i] = i
    BY <1>1, <2>1, <2>2 DEF Cursors
  <2>4. QED
    BY <1>1, <1>2, <1>3, <1>7, <2>1, <2>2, <2>3 DEF Cursors
<1>8. QED
  BY <1>1, <1>5, <1>6, <1>7

\* One more frame on the wire.
Sends(f) == /\ wire' \in Seq(Frame) /\ Len(wire) \in Nat /\ Len(wire') = Len(wire) + 1
            /\ wire'[Len(wire) + 1] = f /\ wire' # <<>>
            /\ \A i \in 1..Len(wire) : wire'[i] = wire[i]

LEMMA FrameSent ==
  ASSUME Tables, NEW f \in Frame, wire' = Append(wire, f)
  PROVE  Sends(f)
<1>1. wire \in Seq(Frame)
  BY DEF Tables
<1>2. QED
  BY <1>1, AppendProperties, LenProperties, EmptySeq DEF Sends

LEMMA ToldGrows ==
  ASSUME NEW f, Sends(f)
  PROVE  /\ \A kind : Told(kind)' <=> Told(kind) \/ f.kind = kind
         /\ Told("accepted") => wire # <<>> /\ wire'[1] = wire[1]
         /\ wire # <<>> /\ wire \in Seq(Frame) => wire'[1] = wire[1]
         /\ wire = <<>> => wire'[1] = f
<1>1. ASSUME NEW kind
      PROVE  Told(kind)' <=> Told(kind) \/ f.kind = kind
  <2>1. ASSUME NEW i \in 1..Len(wire'), wire'[i].kind = kind
        PROVE  Told(kind) \/ f.kind = kind
    <3>1. CASE i \in 1..Len(wire)
      BY <2>1, <3>1 DEF Sends, Told
    <3>2. CASE i = Len(wire) + 1
      BY <2>1, <3>2 DEF Sends
    <3>3. QED
      BY <3>1, <3>2 DEF Sends
  <2>2. ASSUME Told(kind) \/ f.kind = kind
        PROVE  Told(kind)'
    BY <2>2 DEF Sends, Told
  <2>3. QED
    BY <2>1, <2>2 DEF Told
<1>2. Told("accepted") => 1 \in 1..Len(wire)
  BY DEF Sends, Told
<1>3. wire = <<>> => Len(wire) = 0
  OBVIOUS
<1>4. wire # <<>> /\ wire \in Seq(Frame) => 1 \in 1..Len(wire)
  BY EmptySeq, LenProperties
<1>5. QED
  BY <1>1, <1>2, <1>3, <1>4 DEF Sends

LEMMA Lengths ==
  ASSUME Tables
  PROVE  /\ Len(items) \in Nat /\ Len(queue) \in Nat /\ Len(history) \in Nat
         /\ history = <<>> <=> Len(history) = 0
         /\ \A i \in 1..Len(wire) : wire[i].seq \in Nat
<1>1. /\ Len(items) \in Nat /\ Len(queue) \in Nat /\ Len(history) \in Nat
      /\ history = <<>> <=> Len(history) = 0
  BY LenProperties, EmptySeq DEF Tables
<1>2. ASSUME NEW i \in 1..Len(wire)
      PROVE  wire[i].seq \in Nat
  <2>1. wire[i] \in Frame
    BY ElementOfSeq DEF Tables
  <2>2. QED
    BY <2>1, LifecycleAssumption DEF Frame
<1>3. QED
  BY <1>1, <1>2

LEMMA EventTaken ==
  ASSUME Shaped, NEW b \in {"select", "drain"}, NEW i \in 1..ItemBound,
         exec' = [exec EXCEPT !.pc = "event", !.back = b, !.event = i]
  PROVE  /\ exec'.pc = "event" /\ exec'.back = b /\ exec'.event = i
         /\ exec'.outcome = exec.outcome /\ exec'.seq = exec.seq /\ exec'.stored = exec.stored
         /\ exec' \in TaskRecord
<1>1. i \in 0..ItemBound
  BY LifecycleAssumption
<1>2. QED
  BY <1>1 DEF Shaped, TaskRecord, ViewRecord, Pcs

(***************************************************************************)
(* The changes of the view                                                 *)
(***************************************************************************)
LEMMA ViewBeginShape ==
  ASSUME NEW v \in ViewRecord
  PROVE  /\ ViewBegin(v) \in ViewRecord /\ ViewBegin(v).cursor = v.cursor + 1
         /\ ViewBegin(v).last = v.last
<1>1. PICK c \in Nat : c = v.cursor + 1
  BY DEF ViewRecord
<1>2. QED
  BY <1>1 DEF ViewBegin, ViewRecord

LEMMA ViewChangedShape ==
  ASSUME NEW v \in ViewRecord, NEW s \in Seq(1..ItemBound)
  PROVE  /\ ViewChanged(v, s) \in ViewRecord /\ ViewChanged(v, s).cursor = v.cursor + 1
         /\ ViewChanged(v, s).active = v.active /\ ViewChanged(v, s).last = v.last
<1>1. PICK c \in Nat : c = v.cursor + 1
  BY DEF ViewRecord
<1>2. {s[k] : k \in DOMAIN s} \in SUBSET (1..ItemBound)
  <2>1. DOMAIN s = 1..Len(s)
    BY LenProperties
  <2>2. ASSUME NEW k \in DOMAIN s
        PROVE  s[k] \in 1..ItemBound
    BY <2>1, ElementOfSeq
  <2>3. QED
    BY <2>2
<1>3. PICK i \in SUBSET (1..ItemBound) : i = {s[k] : k \in DOMAIN s}
  BY <1>2
<1>4. ViewChanged(v, s) = [v EXCEPT !.cursor = c, !.items = i]
  BY <1>1, <1>3 DEF ViewChanged
<1>5. QED
  BY <1>1, <1>4 DEF ViewRecord

LEMMA ViewItemShape ==
  ASSUME NEW v \in ViewRecord, NEW x \in 1..ItemBound
  PROVE  /\ ViewItem(v, x) \in ViewRecord /\ ViewItem(v, x).cursor = v.cursor + 1
         /\ ViewItem(v, x).active = v.active /\ ViewItem(v, x).last = v.last
<1>1. PICK c \in Nat : c = v.cursor + 1
  BY DEF ViewRecord
<1>2. PICK i \in SUBSET (1..ItemBound) : i = v.items \cup {x}
  BY DEF ViewRecord
<1>3. Append(v.history, x) \in Seq(1..ItemBound) /\ v.history \in Seq(1..ItemBound)
  BY AppendProperties DEF ViewRecord
<1>4. PICK h \in Seq(1..ItemBound) :
        h = IF Known(v, x) THEN v.history ELSE Append(v.history, x)
  BY <1>3
<1>5. ViewItem(v, x) = [v EXCEPT !.cursor = c, !.items = i, !.history = h]
  BY <1>1, <1>2, <1>4 DEF ViewItem
<1>6. QED
  BY <1>1, <1>5 DEF ViewRecord

LEMMA ViewFinishedShape ==
  ASSUME NEW v \in ViewRecord, NEW s \in Seq(1..ItemBound), NEW st \in Terminal
  PROVE  /\ ViewFinished(v, s, st) \in ViewRecord
         /\ ViewFinished(v, s, st).cursor = v.cursor + 1
         /\ ViewFinished(v, s, st).active = FALSE /\ ViewFinished(v, s, st).last = st
<1>1. PICK c \in Nat : c = v.cursor + 1
  BY DEF ViewRecord
<1>2. PICK r \in Seq(1..ItemBound) : IsFinished(ViewFinished(v, s, st), v, st, r)
  BY ViewFinishedHistory
<1>3. v.history \o r \in Seq(1..ItemBound)
  BY ConcatProperties DEF ViewRecord
<1>4. PICK h \in Seq(1..ItemBound) : h = v.history \o r
  BY <1>3
<1>5. ViewFinished(v, s, st) =
        [v EXCEPT !.cursor = c, !.active = FALSE, !.items = {}, !.last = st, !.history = h]
  BY <1>1, <1>2, <1>4 DEF IsFinished
<1>6. QED
  BY <1>1, <1>5 DEF ViewRecord

LEMMA LifeTypes ==
  ASSUME LifeInv
  PROVE  TypeOK
<1>1. /\ view.cursor \in Nat /\ view.active \in BOOLEAN /\ view.items \subseteq 1..ItemBound
      /\ view.history \in Seq(1..ItemBound) /\ view.last \in Terminal \cup {"none"}
      /\ exec.pc \in Pcs
  BY DEF LifeInv, Shaped, TaskRecord, ViewRecord
<1>2. QED
  BY <1>1, Zenon DEF LifeInv, Flags, Points, Tables, TypeOK

LEMMA InitLife ==
  ASSUME Init
  PROVE  LifeInv
<1> USE LifecycleAssumption DEF Init
<1>1. Shaped
  BY DEF Shaped, TaskRecord, ViewRecord, Pcs, Terminal
<1>2. Flags
  BY Zenon DEF Flags
<1>3. Points
  BY DEF Points, Terminal
<1>4. Tables
  BY DEF Tables
<1>5. Locked
  BY DEF Locked, Nobody, Executor
<1>6. Counted
  BY DEF Counted, Over, Settled, Stored, InEvent
<1>7. Decided
  BY DEF Decided, Executing, Draining, Settled, Stored, InEvent, Terminal
<1>8. Answered
  BY DEF Answered, Terminal
<1>9. Journalled
  BY DEF Journalled, Persistent, Told, Stored
<1>10. Acknowledged
  BY DEF Acknowledged, Starters
<1>11. Framed
  BY DEF Framed
<1>12. Cursors
  BY DEF Cursors, Held
<1>13. Quiet
  BY DEF Quiet
<1>14. QED
  BY <1>1, <1>2, <1>3, <1>4, <1>5, <1>6, <1>7, <1>8, <1>9, <1>10, <1>11, <1>12, <1>13 DEF LifeInv


(***************************************************************************)
(* The steps: a lemma per action.  A conjunct that no assignment of the     *)
(* action can disturb goes with the others of its kind.                     *)
(***************************************************************************)
LEMMA StartReplyLife ==
  ASSUME LifeInv, NEW k \in Starters, StartReply(k)
  PROVE  LifeInv'
<1> USE LifecycleAssumption DEF LifeInv
<1> DEFINE f == [kind |-> "accepted", seq |-> 0]
<1>a. f \in Frame
  BY DEF Frame
<1>b. /\ starter[k] = "waiting"
      /\ \/ starter' = [starter EXCEPT ![k] = "refused"] /\ wire' = wire
         \/ starter' = [starter EXCEPT ![k] = "replied"] /\ Sends(f)
         \/ starter' = [starter EXCEPT ![k] = "undelivered"] /\ wire' = wire
      /\ wire' = wire \/ Sends(f)
  BY <1>a, FrameSent DEF StartReply
<1>c. UNCHANGED <<acceptance, live, notified, history>>
  BY DEF StartReply, gates, outbox, session
<1>1. Points'
  BY DEF StartReply, Prepared, At, Persistent, snapshot, gates, projection, session, turn,
         Points, Publishers, Terminal, Nobody, Executor
<1>2. Tables'
  <2>1. wire' \in Seq(Frame)
    BY <1>b DEF Tables, Sends
  <2>2. starter' \in [Starters -> {"waiting", "replied", "refused", "undelivered", "done",
                                   "panicked"}]
    BY <1>b DEF Tables
  <2>3. QED
    BY <2>1, <2>2 DEF StartReply, snapshot, projection, session, turn, Tables
<1>3. Journalled'
  <2>1. UNCHANGED <<exec, view, durable, status, preparation>>
    BY DEF StartReply, turn, projection, session, snapshot, gates
  <2>2. Persistent /\ ~Told("accepted") /\ Told("accepted")' => preparation = "ok"
    BY FrameSent, ToldGrows DEF StartReply, Prepared, Told
  <2>3. QED
    BY <2>1, <2>2 DEF Journalled, Persistent, Stored
<1>4. Acknowledged'
  <2>1. CASE wire' = wire
    <3>1. \A j \in Starters : starter'[j] \in {"replied", "done", "panicked"} => Told("accepted")
      BY <1>b, <2>1 DEF Acknowledged, Tables, Sends
    <3>2. QED
      BY <1>c, <2>1, <3>1 DEF Acknowledged, Told
  <2>2. CASE Sends(f)
    <3>1. Told("accepted")' /\ wire' # <<>>
      BY <2>2, ToldGrows DEF Sends
    <3>2. wire'[1].kind = "accepted"
      BY <2>2, ToldGrows DEF Acknowledged, Tables
    <3>3. QED
      BY <3>1, <3>2 DEF Acknowledged
  <2>3. QED
    BY <1>b, <2>1, <2>2
<1>5. Framed'
  <2>1. UNCHANGED <<exec, seq>>
    BY DEF StartReply, turn, snapshot
  <2>2. CASE wire' = wire
    BY <2>1, <2>2 DEF Framed
  <2>3. CASE Sends(f)
    <3>1. \A i \in 1..Len(wire') : wire'[i].kind # "accepted" =>
            i \in 1..Len(wire) /\ wire'[i] = wire[i]
      BY <2>3 DEF Sends
    <3>2. \A i \in 1..Len(wire') :
            wire'[i].kind \in {"stream", "finished"} => wire'[i].kind # "accepted"
      OBVIOUS
    <3>3. QED
      BY <2>1, <3>1, <3>2 DEF Framed
  <2>4. QED
    BY <1>b, <2>2, <2>3
<1>6. Quiet'
  <2>1. UNCHANGED <<exec, view, delivery, closer>>
    BY DEF StartReply, turn, projection, session
  <2>2. Told("finished") => Told("finished")'
    BY <1>b, ToldGrows DEF Told
  <2>3. QED
    BY <2>1, <2>2 DEF Quiet
<1>7. Shaped' /\ Flags' /\ Locked' /\ Counted' /\ Decided'
  BY DEF StartReply, projection, turn, Shaped, gates, outbox, Flags, snapshot, session,
         Locked, Persistent, Counted, Over, Settled, Stored, InEvent, Decided, Executing,
         Draining
<1>8. Answered' /\ Cursors'
  BY DEF StartReply, snapshot, turn, Answered, Stored, gates, projection, outbox, Cursors,
         Held
<1>9. QED
  BY <1>1, <1>2, <1>3, <1>4, <1>5, <1>6, <1>7, <1>8

LEMMA StartDeliveredLife ==
  ASSUME LifeInv, NEW k \in Starters, StartDelivered(k)
  PROVE  LifeInv'
<1> USE LifecycleAssumption DEF LifeInv
<1>1. Flags'
  BY DEF StartDelivered, LockFree, Nobody, outbox, Flags
<1>2. Points'
  BY DEF StartDelivered, LockFree, Nobody, snapshot, projection, session, turn, Points,
         Publishers, Terminal, Executor
<1>3. Tables'
  BY DEF StartDelivered, LockFree, Nobody, snapshot, projection, session, turn, Tables
<1>4. Decided'
  BY DEF StartDelivered, LockFree, Nobody, snapshot, turn, Decided, Points, Executing,
         Draining, Settled, Stored, InEvent, Terminal
<1>5. Acknowledged'
  BY DEF StartDelivered, LockFree, Nobody, outbox, session, Acknowledged, Tables, Told
<1>6. Cursors'
  <2>0. UNCHANGED <<view, committed, pubLock>> /\ Held' = Held
    BY DEF StartDelivered, projection, Held
  <2>1. CASE LockFree /\ acceptance = "open"
    <3>1. ~live /\ notified = <<>> /\ pending \in Seq(Nat)
      BY <2>1 DEF Cursors, Flags
    <3>2. \A i \in 1..Len(pending) : pending[i] = i
      BY <3>1, LenProperties DEF Cursors
    <3>3. ByCursor(pending) = pending
      BY <3>1, <3>2, SortedByCursor
    <3>4. notified' = pending /\ pending' = <<>> /\ live' = TRUE /\ acceptance' = "yes"
      BY <2>1, <3>1, <3>3 DEF StartDelivered
    <3>5. view.cursor = Len(pending) + Held /\ Len(pending) \in Nat
      BY <3>1, LenProperties DEF Cursors
    <3>6. QED
      BY <2>0, <3>1, <3>2, <3>4, <3>5 DEF Cursors
  <2>2. CASE ~(LockFree /\ acceptance = "open")
    <3>1. UNCHANGED outbox /\ (acceptance # "open" => acceptance' # "open")
      BY <2>2 DEF StartDelivered, outbox
    <3>2. QED
      BY <2>0, <3>1 DEF Cursors, outbox
  <2>3. QED
    BY <2>1, <2>2
<1>7. Shaped' /\ Locked' /\ Counted'
  BY DEF StartDelivered, projection, turn, Shaped, snapshot, session, Locked, Persistent,
         Counted, Over, Settled, Stored, InEvent
<1>8. Answered' /\ Journalled' /\ Framed' /\ Quiet'
  BY DEF StartDelivered, snapshot, turn, Answered, Stored, projection, session, Journalled,
         Persistent, Told, Framed, Quiet
<1>9. QED
  BY <1>1, <1>2, <1>3, <1>4, <1>5, <1>6, <1>7, <1>8

LEMMA CancelRequestLife ==
  ASSUME LifeInv, NEW k \in Cancellers, CancelRequest(k)
  PROVE  LifeInv'
<1> USE LifecycleAssumption DEF LifeInv
<1>1. Flags'
  BY DEF CancelRequest, At, RequestCancel, Cancellable, Terminal, Nobody, outbox, Flags
<1>2. Points'
  BY DEF CancelRequest, At, RequestCancel, Cancellable, Terminal, Nobody, projection,
         session, turn, Points, Publishers, Executor
<1>3. Tables'
  BY DEF CancelRequest, At, RequestCancel, Cancellable, Terminal, Nobody, projection,
         session, turn, Tables
<1>4. Locked'
  BY DEF CancelRequest, At, RequestCancel, Cancellable, Terminal, Nobody, projection,
         session, turn, Locked, Points, Tables, Publishers, Executor, Persistent
<1>5. Decided'
  BY DEF CancelRequest, At, RequestCancel, Cancellable, Terminal, Nobody, turn, Decided,
         Points, Executing, Draining, Settled, Stored, InEvent
<1>6. Answered'
  <2>1. UNCHANGED exec
    BY DEF CancelRequest, turn
  <2>2. CASE Cancellable
    <3>1. status \notin Terminal /\ status' = "cancelling" /\ answer' = answer
      BY <2>2 DEF CancelRequest, RequestCancel, Cancellable
    <3>2. QED
      BY <2>1, <3>1 DEF Answered, Stored, Terminal
  <2>3. CASE ~Cancellable
    <3>1. /\ status' = status /\ answer' = [answer EXCEPT ![k] = status] /\ snapLock = Nobody
          /\ status \in Terminal \cup {"cancelling"}
      BY <2>3 DEF CancelRequest, RequestCancel, Cancellable
    <3>2. exec.pc # "finalize"
      BY <3>1 DEF Locked, Executor, Nobody
    <3>3. status \in Terminal => Stored
      BY <3>2 DEF Decided, Settled
    <3>4. QED
      BY <2>1, <3>1, <3>3 DEF Answered, Stored, Tables, Terminal
  <2>4. QED
    BY <2>2, <2>3
<1>7. Journalled'
  BY DEF CancelRequest, At, RequestCancel, Cancellable, Terminal, Nobody, projection,
         outbox, session, turn, Journalled, Shaped, TaskRecord, ViewRecord, Stored, Told,
         Persistent
<1>8. Shaped' /\ Counted'
  BY DEF CancelRequest, projection, turn, Shaped, session, Counted, Over, Settled, Stored,
         InEvent
<1>9. Acknowledged' /\ Framed' /\ Cursors' /\ Quiet'
  BY DEF CancelRequest, outbox, session, Acknowledged, Told, turn, Framed, projection,
         Cursors, Held, Quiet
<1>10. QED
  BY <1>1, <1>2, <1>3, <1>4, <1>5, <1>6, <1>7, <1>8, <1>9

LEMMA CancelCommitLife ==
  ASSUME LifeInv, NEW k \in Cancellers, CancelCommit(k)
  PROVE  LifeInv'
<1> USE LifecycleAssumption DEF LifeInv
<1> DEFINE v == IF view.active THEN ViewChanged(view, items) ELSE view
<1>a. Commit(k, v) /\ UNCHANGED <<outbox, acceptance>> /\ k \in Publishers
  BY DEF CancelCommit, gates, Publishers
<1>b. /\ v = view \/ v.cursor = view.cursor + 1
      /\ v \in ViewRecord
  BY ViewChangedShape DEF Shaped, Tables
<1>c. view' = v
  BY <1>a DEF Commit
<1>d. Cursors' /\ committed' \in [Publishers -> Nat]
  <2> HIDE DEF v
  <2>1. QED
    BY <1>a, <1>b, CommitCursors
<1>1. Shaped'
  <2> HIDE DEF v
  <2>1. exec' \in TaskRecord
    BY DEF CancelCommit, turn, Shaped, TaskRecord, ViewRecord, Pcs
  <2>2. QED
    BY <1>b, <1>c, <2>1 DEF Shaped
<1>2. Points'
  BY DEF CancelCommit, Commit, LockFree, Nobody, ViewChanged, snapshot, gates, session,
         turn, Points, Shaped, ViewRecord, Publishers, Terminal, Executor
<1>3. Tables'
  <2>1. canceller' \in [Cancellers -> {"idle", "publish", "notify", "done"}]
    BY DEF CancelCommit, Tables
  <2>2. QED
    BY <1>d, <2>1 DEF CancelCommit, snapshot, session, turn, Tables
<1>4. Locked'
  BY DEF CancelCommit, Commit, LockFree, Nobody, ViewChanged, snapshot, session, turn,
         Locked, Shaped, ViewRecord, Points, Tables, Publishers, Executor, Persistent
<1>5. Journalled'
  BY DEF CancelCommit, Commit, LockFree, Nobody, ViewChanged, snapshot, gates, session,
         turn, Journalled, Shaped, ViewRecord, Stored, Told, Persistent, Terminal
<1>6. Cursors'
  BY <1>d
<1>7. Quiet'
  BY DEF CancelCommit, Commit, LockFree, Nobody, ViewChanged, session, turn, Quiet, Shaped,
         ViewRecord, Told
<1>8. Flags' /\ Counted' /\ Decided'
  BY DEF CancelCommit, gates, outbox, Flags, snapshot, session, turn, Counted, Over,
         Settled, Stored, InEvent, Decided, Executing, Draining
<1>9. Answered' /\ Acknowledged' /\ Framed'
  BY DEF CancelCommit, snapshot, turn, Answered, Stored, gates, outbox, session,
         Acknowledged, Told, Framed
<1>10. QED
  BY <1>1, <1>2, <1>3, <1>4, <1>5, <1>6, <1>7, <1>8, <1>9

LEMMA CancelNotifyLife ==
  ASSUME LifeInv, NEW k \in Cancellers, CancelNotify(k)
  PROVE  LifeInv'
<1> USE LifecycleAssumption DEF LifeInv
<1>1. Points'
  BY DEF CancelNotify, Notify, Nobody, snapshot, gates, session, turn, Points, Publishers,
         Terminal, Executor
<1>2. Tables'
  <2>1. k \in Publishers /\ pubLock = k /\ Notify(k) /\ UNCHANGED acceptance
    BY DEF CancelNotify, Locked, Publishers, gates
  <2>2. committed' \in [Publishers -> Nat]
    BY <2>1, NotifyCursors
  <2>3. /\ canceller' \in [Cancellers -> {"idle", "publish", "notify", "done"}]
        /\ answer' \in [Cancellers -> Terminal \cup {"none", "cancelling"}]
    BY DEF CancelNotify, Locked, Tables, Terminal
  <2>4. QED
    BY <2>2, <2>3 DEF CancelNotify, snapshot, session, turn, Tables
<1>3. Locked'
  BY DEF CancelNotify, Notify, Nobody, snapshot, session, turn, Locked, Points, Tables,
         Publishers, Executor, Persistent
<1>4. Answered'
  <2>1. /\ UNCHANGED <<exec, status>> /\ answer' = [answer EXCEPT ![k] = status]
        /\ canceller[k] = "notify"
    BY DEF CancelNotify, turn, snapshot
  <2>2. status = "cancelling"
    BY <2>1 DEF Locked
  <2>3. QED
    BY <2>1, <2>2 DEF Answered, Stored, Tables, Terminal
<1>5. Acknowledged'
  <2>1. Notify(k) /\ UNCHANGED <<wire, starter, history, acceptance, live>>
    BY DEF CancelNotify, Notify, gates, session, requests
  <2>2. k \in Publishers /\ pubLock = k
    BY DEF CancelNotify, At, Locked, Publishers
  <2>3. notified' # <<>> => live
    BY <2>1, <2>2, NotifyCursors
  <2>4. QED
    BY <2>1, <2>3 DEF Acknowledged, Told
<1>6. Cursors'
  <2>1. Notify(k) /\ UNCHANGED acceptance
    BY DEF CancelNotify, gates
  <2>2. k \in Publishers /\ pubLock = k
    BY DEF CancelNotify, At, Locked, Publishers
  <2>3. QED
    BY <2>1, <2>2, NotifyCursors
<1>7. Shaped' /\ Flags' /\ Counted' /\ Decided'
  BY DEF CancelNotify, Notify, turn, Shaped, gates, Flags, snapshot, session, Counted, Over,
         Settled, Stored, InEvent, Decided, Executing, Draining
<1>8. Journalled' /\ Framed' /\ Quiet'
  BY DEF CancelNotify, Notify, snapshot, gates, session, turn, Journalled, Persistent,
         Stored, Told, Framed, Quiet
<1>9. QED
  BY <1>1, <1>2, <1>3, <1>4, <1>5, <1>6, <1>7, <1>8

LEMMA EngineItemLife ==
  ASSUME LifeInv, EngineItem
  PROVE  LifeInv'
<1> USE LifecycleAssumption DEF LifeInv
<1>a. /\ exec.pc = "select" /\ Len(history) < ItemBound
      /\ history' = Append(history, Len(history) + 1) /\ queue' = Append(queue, Len(history) + 1)
      /\ UNCHANGED <<exec, items, seq, acceptance, live, notified, starter, wire>>
  BY DEF EngineItem, At, snapshot, gates, outbox, requests
<1>b. /\ Len(history) + 1 \in 1..ItemBound
      /\ history' \in Seq(1..ItemBound) /\ Len(history') = Len(history) + 1
      /\ queue' \in Seq(1..ItemBound) /\ Len(queue') = Len(queue) + 1
      /\ history' # <<>>
  <2>1. Len(history) + 1 \in 1..ItemBound
    BY <1>a, Lengths
  <2>2. history \in Seq(1..ItemBound) /\ queue \in Seq(1..ItemBound)
    BY DEF Tables
  <2>3. /\ history' \in Seq(1..ItemBound) /\ Len(history') = Len(history) + 1
        /\ queue' \in Seq(1..ItemBound) /\ Len(queue') = Len(queue) + 1
    BY <1>a, <2>1, <2>2, AppendProperties
  <2>4. Len(history) \in Nat
    BY Lengths
  <2>5. history' # <<>>
    BY <2>3, <2>4
  <2>6. QED
    BY <2>1, <2>3, <2>5
<1>1. Tables'
  BY DEF EngineItem, At, snapshot, projection, requests, Tables
<1>2. Counted'
  <2>1. seq = Len(items) /\ Len(items) + Len(queue) = Len(history)
    BY <1>a DEF Counted, Over, Settled, Stored
  <2>2. /\ Len(items) \in Nat /\ Len(queue) \in Nat /\ Len(history) \in Nat
        /\ Len(items) + Len(queue') + 0 = Len(history') /\ Len(history') =< ItemBound
    <3>1. Len(items) \in Nat /\ Len(queue) \in Nat /\ Len(history) \in Nat
      BY Lengths
    <3>2. QED
      BY <1>b, <2>1, <3>1
  <2>3. ~InEvent /\ ~InEvent' /\ exec'.pc = "select"
    BY <1>a DEF InEvent
  <2>4. QED
    BY <1>a, <2>1, <2>2, <2>3 DEF Counted
<1>3. Acknowledged'
  BY <1>a, <1>b DEF Acknowledged, Told, Decided, Executing
<1>4. Shaped' /\ Flags' /\ Points' /\ Locked' /\ Decided'
  BY DEF EngineItem, projection, Shaped, gates, outbox, Flags, snapshot, Points, requests,
         Locked, Persistent, Decided, Executing, Draining, Settled, Stored, InEvent
<1>5. Answered' /\ Journalled' /\ Framed' /\ Cursors' /\ Quiet'
  BY DEF EngineItem, snapshot, requests, Answered, Stored, gates, projection, Journalled,
         Persistent, Told, Framed, outbox, Cursors, Held, Quiet
<1>6. QED
  BY <1>1, <1>2, <1>3, <1>4, <1>5

LEMMA EngineEndLife ==
  ASSUME LifeInv, EngineEnd
  PROVE  LifeInv'
<1> USE LifecycleAssumption DEF LifeInv
<1>1. Points'
  BY DEF EngineEnd, At, snapshot, gates, projection, session, Points, Publishers, Terminal,
         Nobody, Executor
<1>2. Decided'
  BY DEF EngineEnd, At, snapshot, gates, Decided, Points, Executing, Draining, Settled,
         Stored, InEvent, Terminal
<1>3. Shaped' /\ Flags' /\ Tables' /\ Locked' /\ Counted'
  BY DEF EngineEnd, projection, Shaped, gates, outbox, Flags, snapshot, session, requests,
         Tables, Locked, Persistent, Counted, Over, Settled, Stored, InEvent
<1>4. Answered' /\ Journalled' /\ Acknowledged' /\ Framed' /\ Cursors' /\ Quiet'
  BY DEF EngineEnd, snapshot, requests, Answered, Stored, gates, projection, session,
         Journalled, Persistent, Told, outbox, Acknowledged, Framed, Cursors, Held, Quiet
<1>5. QED
  BY <1>1, <1>2, <1>3, <1>4

LEMMA DeadlineLife ==
  ASSUME LifeInv, Deadline
  PROVE  LifeInv'
<1> USE LifecycleAssumption DEF LifeInv
<1>1. Flags'
  BY DEF Deadline, gates, outbox, Flags
<1>2. Shaped' /\ Points' /\ Tables' /\ Locked' /\ Counted' /\ Decided'
  BY DEF Deadline, projection, turn, Shaped, snapshot, gates, session, Points, requests,
         Tables, Locked, Persistent, Counted, Over, Settled, Stored, InEvent, Decided,
         Executing, Draining
<1>3. Answered' /\ Journalled' /\ Acknowledged' /\ Framed' /\ Cursors' /\ Quiet'
  BY DEF Deadline, snapshot, turn, requests, Answered, Stored, gates, projection, session,
         Journalled, Persistent, Told, outbox, Acknowledged, Framed, Cursors, Held, Quiet
<1>4. QED
  BY <1>1, <1>2, <1>3

LEMMA ExecBeginLife ==
  ASSUME LifeInv, ExecBegin
  PROVE  LifeInv'
<1> USE LifecycleAssumption DEF LifeInv
<1>1. Shaped'
  BY DEF ExecBegin, At, Goto, Withdraw, Persistent, Nobody, projection, Shaped, TaskRecord,
         Pcs, Terminal
<1>2. Points'
  BY DEF ExecBegin, At, Goto, Withdraw, Persistent, Nobody, snapshot, projection, Points,
         Shaped, TaskRecord, Publishers, Terminal, Executor
<1>3. Locked'
  BY DEF ExecBegin, At, Goto, Withdraw, Persistent, Nobody, snapshot, projection, requests,
         Locked, Shaped, TaskRecord, Points, Tables, Publishers, Executor
<1>4. Counted'
  <2>1. /\ exec.pc = "begin" /\ exec'.pc \in {"announce", "removed"}
        /\ UNCHANGED <<history, items, queue, seq>>
    BY DEF ExecBegin, At, Goto, Withdraw, snapshot, Shaped, TaskRecord, ViewRecord
  <2>2. QED
    BY <2>1, Lengths DEF Counted, Over, Settled, Stored, InEvent
<1>5. Decided'
  BY DEF ExecBegin, At, Goto, Withdraw, Persistent, Nobody, snapshot, Decided, Shaped,
         TaskRecord, Points, Executing, Draining, Settled, Stored, InEvent, Terminal
<1>6. Answered'
  BY DEF ExecBegin, At, Goto, Withdraw, Persistent, Nobody, snapshot, requests, Answered,
         Shaped, TaskRecord, Tables, Settled, Stored, Terminal
<1>7. Journalled'
  BY DEF ExecBegin, At, Goto, Withdraw, Persistent, Nobody, snapshot, projection,
         Journalled, Shaped, TaskRecord, Stored, Told, Terminal
<1>8. Acknowledged'
  BY DEF ExecBegin, At, Goto, Withdraw, Persistent, Nobody, outbox, requests, Acknowledged,
         Tables, Told
<1>9. Framed'
  BY DEF ExecBegin, At, Goto, Withdraw, Persistent, Nobody, snapshot, Framed, Shaped,
         TaskRecord, Frame
<1>10. Cursors'
  BY DEF ExecBegin, At, Goto, Withdraw, Persistent, Nobody, projection, outbox, Cursors,
         Held
<1>11. Quiet'
  BY DEF ExecBegin, At, Goto, Withdraw, Persistent, Nobody, projection, Quiet, Shaped,
         TaskRecord, Told
<1>12. Flags' /\ Tables'
  BY DEF ExecBegin, outbox, Flags, snapshot, projection, requests, Tables
<1>13. QED
  BY <1>1, <1>2, <1>3, <1>4, <1>5, <1>6, <1>7, <1>8, <1>9, <1>10, <1>11, <1>12

LEMMA ExecAnnounceLife ==
  ASSUME LifeInv, ExecAnnounce
  PROVE  LifeInv'
<1> USE LifecycleAssumption DEF LifeInv
<1>a. /\ exec.pc = "announce" /\ UNCHANGED <<history, items, queue, seq>>
      /\ exec'.pc \in {"announcing", "removed"}
  BY DEF ExecAnnounce, At, Goto, Withdraw, snapshot, Shaped, TaskRecord, ViewRecord
<1>b. /\ ViewBegin(view).cursor = view.cursor + 1
      /\ ViewBegin(view) \in ViewRecord
  BY ViewBeginShape DEF Shaped
<1>c. /\ Cursors' /\ committed' \in [Publishers -> Nat]
      /\ view' \in ViewRecord
  <2>1. CASE closer = "idle"
    <3>1. Commit(Executor, ViewBegin(view)) /\ UNCHANGED <<outbox, acceptance>>
      BY <2>1 DEF ExecAnnounce
    <3>2. Executor \in Publishers
      BY DEF Publishers
    <3>3. Cursors' /\ committed' \in [Publishers -> Nat]
      BY <1>b, <3>1, <3>2, CommitCursors
    <3>4. view' = ViewBegin(view)
      BY <3>1 DEF Commit
    <3>5. QED
      BY <1>b, <3>3, <3>4
  <2>2. CASE closer # "idle"
    <3>1. UNCHANGED <<outbox, projection>> /\ (acceptance' = acceptance \/ acceptance' = "no")
      BY <2>2 DEF ExecAnnounce, Withdraw
    <3>2. QED
      BY <3>1 DEF Cursors, Held, outbox, projection, Shaped, TaskRecord, ViewRecord, Tables
  <2>3. QED
    BY <2>1, <2>2
<1>1. Shaped'
  <2>1. exec' \in TaskRecord
    BY DEF ExecAnnounce, Goto, Withdraw, Shaped, TaskRecord, ViewRecord, Pcs
  <2>2. QED
    BY <1>c, <2>1 DEF Shaped
<1>2. Points'
  BY DEF ExecAnnounce, At, Goto, Withdraw, Commit, LockFree, Nobody, Persistent, ViewBegin,
         Executor, snapshot, projection, Points, Shaped, TaskRecord, ViewRecord, Publishers,
         Terminal
<1>3. Tables'
  BY <1>c DEF ExecAnnounce, snapshot, requests, Tables
<1>4. Locked'
  BY DEF ExecAnnounce, At, Goto, Withdraw, Commit, LockFree, Nobody, Persistent, ViewBegin,
         Executor, snapshot, projection, requests, Locked, Shaped, TaskRecord, ViewRecord,
         Points, Tables, Publishers
<1>5. Counted'
  BY <1>a, Lengths DEF Counted, Over, Settled, Stored, InEvent
<1>6. Decided'
  BY DEF ExecAnnounce, At, Goto, Withdraw, Commit, LockFree, Nobody, Persistent, ViewBegin,
         Executor, snapshot, Decided, Shaped, TaskRecord, ViewRecord, Points, Executing,
         Draining, Settled, Stored, InEvent, Terminal
<1>7. Answered'
  BY DEF ExecAnnounce, At, Goto, Withdraw, Commit, LockFree, Nobody, Persistent, ViewBegin,
         Executor, snapshot, requests, Answered, Shaped, TaskRecord, ViewRecord, Tables,
         Settled, Stored, Terminal
<1>8. Journalled'
  BY DEF ExecAnnounce, At, Goto, Withdraw, Commit, LockFree, Nobody, Persistent, ViewBegin,
         Executor, snapshot, projection, Journalled, Shaped, TaskRecord, ViewRecord, Stored,
         Told, Terminal
<1>9. Acknowledged'
  BY DEF ExecAnnounce, At, Goto, Withdraw, Commit, LockFree, Nobody, Persistent, ViewBegin,
         Executor, outbox, requests, Acknowledged, Tables, Told
<1>10. Framed'
  BY DEF ExecAnnounce, At, Goto, Withdraw, Commit, LockFree, Nobody, Persistent, ViewBegin,
         Executor, snapshot, Framed, Shaped, TaskRecord, ViewRecord, Frame
<1>11. Cursors'
  BY <1>c
<1>12. Quiet'
  BY DEF ExecAnnounce, At, Goto, Withdraw, Commit, LockFree, Nobody, Persistent, ViewBegin,
         Executor, projection, Quiet, Shaped, TaskRecord, ViewRecord, Told
<1>13. Flags'
  BY DEF ExecAnnounce, outbox, Flags
<1>14. QED
  BY <1>1, <1>2, <1>3, <1>4, <1>5, <1>6, <1>7, <1>8, <1>9, <1>10, <1>11, <1>12, <1>13

LEMMA ExecAnnouncedLife ==
  ASSUME LifeInv, ExecAnnounced
  PROVE  LifeInv'
<1> USE LifecycleAssumption DEF LifeInv
<1>1. Shaped'
  BY DEF ExecAnnounced, At, Goto, Notify, Nobody, Executor, Shaped, TaskRecord, Pcs,
         Terminal
<1>2. Points'
  BY DEF ExecAnnounced, At, Goto, Notify, Nobody, Executor, snapshot, session, Points,
         Shaped, TaskRecord, Publishers, Terminal
<1>3. Tables'
  <2>1. Executor \in Publishers /\ pubLock = Executor /\ Notify(Executor) /\ UNCHANGED acceptance
    BY DEF ExecAnnounced, At, Locked, Publishers, gates
  <2>2. committed' \in [Publishers -> Nat]
    BY <2>1, NotifyCursors
  <2>3. QED
    BY <2>2 DEF ExecAnnounced, Goto, snapshot, session, requests, Tables, Points
<1>4. Locked'
  BY DEF ExecAnnounced, At, Goto, Notify, Nobody, Executor, snapshot, session, requests,
         Locked, Shaped, TaskRecord, Points, Tables, Publishers, Persistent
<1>5. Counted'
  BY DEF ExecAnnounced, At, Goto, Notify, Nobody, Executor, snapshot, session, Counted,
         Shaped, TaskRecord, Tables, Over, Settled, Stored, InEvent
<1>6. Decided'
  BY DEF ExecAnnounced, At, Goto, Notify, Nobody, Executor, snapshot, Decided, Shaped,
         TaskRecord, Points, Executing, Draining, Settled, Stored, InEvent, Terminal
<1>7. Answered'
  BY DEF ExecAnnounced, At, Goto, Notify, Nobody, Executor, snapshot, requests, Answered,
         Shaped, TaskRecord, Tables, Settled, Stored, Terminal
<1>8. Journalled'
  BY DEF ExecAnnounced, At, Goto, Notify, Nobody, Executor, snapshot, session, Journalled,
         Shaped, TaskRecord, Stored, Told, Persistent, Terminal
<1>9. Acknowledged'
  <2>1. Notify(Executor) /\ UNCHANGED <<wire, starter, history, acceptance, live>>
    BY DEF ExecAnnounced, Notify, gates, session, requests
  <2>2. Executor \in Publishers /\ pubLock = Executor
    BY DEF ExecAnnounced, At, Locked, Publishers
  <2>3. notified' # <<>> => live
    BY <2>1, <2>2, NotifyCursors
  <2>4. QED
    BY <2>1, <2>3 DEF Acknowledged, Told
<1>10. Framed'
  BY DEF ExecAnnounced, At, Goto, Notify, Nobody, Executor, snapshot, Framed, Shaped,
         TaskRecord, Frame
<1>11. Cursors'
  <2>1. Notify(Executor) /\ UNCHANGED acceptance
    BY DEF ExecAnnounced, gates
  <2>2. Executor \in Publishers /\ pubLock = Executor
    BY DEF ExecAnnounced, At, Locked, Publishers
  <2>3. QED
    BY <2>1, <2>2, NotifyCursors
<1>12. Quiet'
  BY DEF ExecAnnounced, At, Goto, Notify, Nobody, Executor, session, Quiet, Shaped,
         TaskRecord, Told
<1>13. Flags'
  BY DEF ExecAnnounced, Notify, Flags
<1>14. QED
  BY <1>1, <1>2, <1>3, <1>4, <1>5, <1>6, <1>7, <1>8, <1>9, <1>10, <1>11, <1>12, <1>13

LEMMA ExecGateLife ==
  ASSUME LifeInv, ExecGate
  PROVE  LifeInv'
<1> USE LifecycleAssumption DEF LifeInv
<1>a. /\ exec.pc = "gate" /\ exec'.pc \in {"select", "drain"} /\ acceptance # "open"
      /\ exec'.back = exec.back /\ exec'.event = exec.event /\ exec'.seq = exec.seq
      /\ exec'.stored = exec.stored
      /\ exec'.pc = "select" => /\ acceptance = "yes" /\ engine' = "running"
                                /\ exec'.outcome = exec.outcome
      /\ exec'.pc = "drain" => /\ acceptance = "no" /\ engine' = engine
                               /\ exec'.outcome = "cancelled"
      /\ exec' \in TaskRecord
  <2>1. CASE acceptance = "yes"
    BY <2>1 DEF ExecGate, At, Goto, Shaped, TaskRecord, ViewRecord, Pcs, Terminal
  <2>2. CASE acceptance # "yes"
    <3>1. exec' = [exec EXCEPT !.pc = "drain", !.outcome = "cancelled"] /\ engine' = engine
      BY <2>2 DEF ExecGate
    <3>2. acceptance = "no" /\ exec.pc = "gate"
      BY <2>2 DEF ExecGate, At, Points
    <3>3. QED
      BY <2>2, <3>1, <3>2 DEF Shaped, TaskRecord, ViewRecord, Pcs, Terminal
  <2>3. QED
    BY <2>1, <2>2
<1>b. UNCHANGED <<status, items, seq, snapLock, pubLock, live, pending, cancel,
                  acceptance, preparation, delivery, view, committed, notified, durable, history,
                  queue, starter, canceller, answer, closer, hangup, late, wire>>
  BY DEF ExecGate, snapshot, gates, projection, outbox, session, requests
<1>1. Shaped'
    BY <1>a, <1>b DEF Shaped, TaskRecord, ViewRecord, Pcs, Terminal
<1>2. Flags'
    BY <1>a, <1>b DEF Flags
<1>3. Points'
    BY <1>a, <1>b DEF Points, Shaped, TaskRecord, ViewRecord, Publishers, Terminal, Nobody,
    Executor
<1>4. Tables'
    BY <1>a, <1>b DEF Tables
<1>5. Locked'
    BY <1>a, <1>b DEF Locked, Shaped, TaskRecord, ViewRecord, Points, Tables, Publishers,
    Executor, Nobody, Persistent
<1>6. Counted'
    BY <1>a, <1>b, Lengths DEF Counted, Over, Settled, Stored, InEvent
<1>7. Decided'
    BY <1>a, <1>b DEF Decided, Shaped, TaskRecord, ViewRecord, Points, Executing, Draining,
    Settled, Stored, InEvent, Terminal
<1>8. Answered'
    BY <1>a, <1>b DEF Answered, Shaped, TaskRecord, ViewRecord, Tables, Settled, Stored,
    Terminal
<1>9. Journalled'
    BY <1>a, <1>b DEF Journalled, Shaped, TaskRecord, ViewRecord, Stored, Told, Persistent,
    Terminal
<1>10. Acknowledged'
    BY <1>a, <1>b DEF Acknowledged, Tables, Told
<1>11. Framed'
    BY <1>a, <1>b, Lengths DEF Framed
<1>12. Cursors'
    BY <1>a, <1>b DEF Cursors, Held
<1>13. Quiet'
    BY <1>a, <1>b DEF Quiet, Shaped, TaskRecord, ViewRecord, Told
<1>14. QED
  BY <1>1, <1>2, <1>3, <1>4, <1>5, <1>6, <1>7, <1>8, <1>9, <1>10, <1>11, <1>12, <1>13

LEMMA ExecSelectLife ==
  ASSUME LifeInv, ExecSelect
  PROVE  LifeInv'
<1> USE LifecycleAssumption DEF LifeInv
<1>a. /\ exec.pc = "select" /\ exec'.seq = exec.seq /\ exec'.stored = exec.stored
      /\ exec'.pc \in {"event", "drain"}
      /\ exec'.pc = "event" =>
           /\ exec'.back = "select" /\ exec'.event \in 1..ItemBound /\ exec'.outcome = exec.outcome
           /\ engine' = engine /\ Len(queue) # 0 /\ Len(queue') = Len(queue) - 1
      /\ exec'.pc = "drain" => /\ queue' = queue
                               /\ engine' = "dropped" /\ exec'.back = exec.back
                               /\ exec'.event = exec.event /\ exec'.outcome \in Terminal
      /\ queue' \in Seq(1..ItemBound)
      /\ exec' \in TaskRecord
  <2>1. CASE TakeEvent("select")
    <3>1. /\ exec' = [exec EXCEPT !.pc = "event", !.back = "select", !.event = Head(queue)]
          /\ queue' = Tail(queue) /\ queue # <<>> /\ engine' = engine /\ exec.pc = "select"
      BY <2>1 DEF TakeEvent, ExecSelect, At
    <3>2. /\ Head(queue) \in 1..ItemBound /\ Tail(queue) \in Seq(1..ItemBound)
          /\ Len(queue) # 0 /\ Len(Tail(queue)) = Len(queue) - 1
      BY <3>1, HeadTailProperties, LenProperties, EmptySeq DEF Tables
    <3>3. /\ exec'.pc = "event" /\ exec'.back = "select" /\ exec'.event \in 1..ItemBound
          /\ exec'.outcome = exec.outcome /\ exec'.seq = exec.seq /\ exec'.stored = exec.stored
          /\ exec' \in TaskRecord
      BY <3>1, <3>2, EventTaken
    <3>4. QED
      BY <3>1, <3>2, <3>3
  <2>2. CASE \E o \in Terminal : Leave(o)
    <3>0. PICK o \in Terminal : Leave(o)
      BY <2>2
    <3>1. /\ exec' = [exec EXCEPT !.pc = "drain", !.outcome = o]
          /\ engine' = "dropped" /\ queue' = queue
      BY <3>0 DEF Leave
    <3>2. exec.pc = "select" /\ queue \in Seq(1..ItemBound)
      BY DEF ExecSelect, At, Tables
    <3>3. QED
      BY <3>0, <3>1, <3>2 DEF Shaped, TaskRecord, ViewRecord, Pcs
  <2>3. engine # "running" => engine \in Terminal
    BY DEF ExecSelect, At, Decided, Executing, Terminal
  <2>4. QED
    BY <2>1, <2>2, <2>3 DEF ExecSelect, Terminal
<1>b. UNCHANGED <<status, items, seq, snapLock, pubLock, live, pending, cancel,
                  acceptance, preparation, delivery, view, committed, notified, durable, history,
                  starter, canceller, answer, closer, hangup, late, wire>>
  BY DEF ExecSelect, snapshot, gates, projection, outbox, session, requests
<1>1. Shaped'
    BY <1>a, <1>b DEF Shaped, TaskRecord, ViewRecord, Pcs, Terminal
<1>2. Flags'
    BY <1>a, <1>b DEF Flags
<1>3. Points'
    BY <1>a, <1>b DEF Points, Shaped, TaskRecord, ViewRecord, Publishers, Terminal, Nobody,
    Executor
<1>4. Tables'
    BY <1>a, <1>b DEF Tables
<1>5. Locked'
    BY <1>a, <1>b DEF Locked, Shaped, TaskRecord, ViewRecord, Points, Tables, Publishers,
    Executor, Nobody, Persistent
<1>6. Counted'
  <2>1. /\ seq = Len(items) /\ Len(items) + Len(queue) = Len(history)
        /\ Len(history) =< ItemBound
    BY <1>a DEF Counted, Over, Settled, Stored
  <2>2. /\ Len(items) \in Nat /\ Len(queue) \in Nat /\ Len(history) \in Nat
        /\ history = <<>> <=> Len(history) = 0
    BY Lengths
  <2>3. CASE exec'.pc = "event"
    <3>0. Len(queue) # 0 /\ Len(queue') = Len(queue) - 1
      BY <1>a, <2>3
    <3>1. Len(items) + Len(queue') + 1 = Len(history) /\ history # <<>>
      BY <2>1, <2>2, <3>0
    <3>2. QED
      BY <1>a, <1>b, <2>1, <2>3, <3>1 DEF Counted
  <2>4. CASE exec'.pc = "drain"
    <3>1. Len(items) + Len(queue') + 0 = Len(history)
      BY <1>a, <2>1, <2>2, <2>4
    <3>2. QED
      BY <1>a, <1>b, <2>1, <2>4, <3>1 DEF Counted, InEvent
  <2>5. QED
    BY <1>a, <2>3, <2>4
<1>7. Decided'
    BY <1>a, <1>b DEF Decided, Shaped, TaskRecord, ViewRecord, Points, Executing, Draining,
    Settled, Stored, InEvent, Terminal
<1>8. Answered'
    BY <1>a, <1>b DEF Answered, Shaped, TaskRecord, ViewRecord, Tables, Settled, Stored,
    Terminal
<1>9. Journalled'
    BY <1>a, <1>b DEF Journalled, Shaped, TaskRecord, ViewRecord, Stored, Told, Persistent,
    Terminal
<1>10. Acknowledged'
    BY <1>a, <1>b DEF Acknowledged, Tables, Told
<1>11. Framed'
    BY <1>a, <1>b, Lengths DEF Framed
<1>12. Cursors'
    BY <1>a, <1>b DEF Cursors, Held
<1>13. Quiet'
    BY <1>a, <1>b DEF Quiet, Shaped, TaskRecord, ViewRecord, Told
<1>14. QED
  BY <1>1, <1>2, <1>3, <1>4, <1>5, <1>6, <1>7, <1>8, <1>9, <1>10, <1>11, <1>12, <1>13

LEMMA ExecDrainLife ==
  ASSUME LifeInv, ExecDrain
  PROVE  LifeInv'
<1> USE LifecycleAssumption DEF LifeInv
<1>a. /\ exec.pc = "drain" /\ exec'.seq = exec.seq /\ exec'.stored = exec.stored
      /\ exec'.pc \in {"event", "settle"}
      /\ exec'.pc = "event" =>
           /\ exec'.back = "drain" /\ exec'.event \in 1..ItemBound /\ exec'.outcome = exec.outcome
           /\ engine' = engine /\ Len(queue) # 0 /\ Len(queue') = Len(queue) - 1
      /\ exec'.pc = "settle" => /\ queue' = queue
                               /\ engine' = engine /\ exec'.back = exec.back
                               /\ exec'.event = exec.event /\ exec'.outcome = exec.outcome
      /\ queue' \in Seq(1..ItemBound)
      /\ exec' \in TaskRecord
  <2>1. CASE TakeEvent("drain")
    <3>1. /\ exec' = [exec EXCEPT !.pc = "event", !.back = "drain", !.event = Head(queue)]
          /\ queue' = Tail(queue) /\ queue # <<>> /\ engine' = engine /\ exec.pc = "drain"
      BY <2>1 DEF TakeEvent, ExecDrain, At
    <3>2. /\ Head(queue) \in 1..ItemBound /\ Tail(queue) \in Seq(1..ItemBound)
          /\ Len(queue) # 0 /\ Len(Tail(queue)) = Len(queue) - 1
      BY <3>1, HeadTailProperties, LenProperties, EmptySeq DEF Tables
    <3>3. /\ exec'.pc = "event" /\ exec'.back = "drain" /\ exec'.event \in 1..ItemBound
          /\ exec'.outcome = exec.outcome /\ exec'.seq = exec.seq /\ exec'.stored = exec.stored
          /\ exec' \in TaskRecord
      BY <3>1, <3>2, EventTaken
    <3>4. QED
      BY <3>1, <3>2, <3>3
  <2>2. CASE Goto("settle") /\ UNCHANGED <<queue, engine>>
    BY <2>2 DEF Goto, ExecDrain, At, Tables, Shaped, TaskRecord, ViewRecord, Pcs
  <2>3. QED
    BY <2>1, <2>2 DEF ExecDrain
<1>b. UNCHANGED <<status, items, seq, snapLock, pubLock, live, pending, cancel,
                  acceptance, preparation, delivery, view, committed, notified, durable, history,
                  starter, canceller, answer, closer, hangup, late, wire>>
  BY DEF ExecDrain, snapshot, gates, projection, outbox, session, requests
<1>1. Shaped'
    BY <1>a, <1>b DEF Shaped, TaskRecord, ViewRecord, Pcs, Terminal
<1>2. Flags'
    BY <1>a, <1>b DEF Flags
<1>3. Points'
    BY <1>a, <1>b DEF Points, Shaped, TaskRecord, ViewRecord, Publishers, Terminal, Nobody,
    Executor
<1>4. Tables'
    BY <1>a, <1>b DEF Tables
<1>5. Locked'
    BY <1>a, <1>b DEF Locked, Shaped, TaskRecord, ViewRecord, Points, Tables, Publishers,
    Executor, Nobody, Persistent
<1>6. Counted'
  <2>1. /\ seq = Len(items) /\ Len(items) + Len(queue) = Len(history)
        /\ Len(history) =< ItemBound
    BY <1>a DEF Counted, Over, Settled, Stored
  <2>2. /\ Len(items) \in Nat /\ Len(queue) \in Nat /\ Len(history) \in Nat
        /\ history = <<>> <=> Len(history) = 0
    BY Lengths
  <2>3. CASE exec'.pc = "event"
    <3>0. Len(queue) # 0 /\ Len(queue') = Len(queue) - 1
      BY <1>a, <2>3
    <3>1. Len(items) + Len(queue') + 1 = Len(history) /\ history # <<>>
      BY <2>1, <2>2, <3>0
    <3>2. QED
      BY <1>a, <1>b, <2>1, <2>3, <3>1 DEF Counted
  <2>4. CASE exec'.pc = "settle"
    <3>1. Len(items) + Len(queue') + 0 = Len(history)
      BY <1>a, <2>1, <2>2, <2>4
    <3>2. QED
      BY <1>a, <1>b, <2>1, <2>4, <3>1 DEF Counted, InEvent
  <2>5. QED
    BY <1>a, <2>3, <2>4
<1>7. Decided'
    BY <1>a, <1>b DEF Decided, Shaped, TaskRecord, ViewRecord, Points, Executing, Draining,
    Settled, Stored, InEvent, Terminal
<1>8. Answered'
    BY <1>a, <1>b DEF Answered, Shaped, TaskRecord, ViewRecord, Tables, Settled, Stored,
    Terminal
<1>9. Journalled'
    BY <1>a, <1>b DEF Journalled, Shaped, TaskRecord, ViewRecord, Stored, Told, Persistent,
    Terminal
<1>10. Acknowledged'
    BY <1>a, <1>b DEF Acknowledged, Tables, Told
<1>11. Framed'
    BY <1>a, <1>b, Lengths DEF Framed
<1>12. Cursors'
    BY <1>a, <1>b DEF Cursors, Held
<1>13. Quiet'
    BY <1>a, <1>b DEF Quiet, Shaped, TaskRecord, ViewRecord, Told
<1>14. QED
  BY <1>1, <1>2, <1>3, <1>4, <1>5, <1>6, <1>7, <1>8, <1>9, <1>10, <1>11, <1>12, <1>13

LEMMA ExecEventLife ==
  ASSUME LifeInv, ExecEvent
  PROVE  LifeInv'
<1> USE LifecycleAssumption DEF LifeInv
<1>a. /\ exec.pc = "event" /\ snapLock = Nobody /\ exec'.pc = "publish" /\ exec'.seq = seq + 1
      /\ exec'.back = exec.back /\ exec'.event = exec.event /\ exec'.outcome = exec.outcome
      /\ exec'.stored = exec.stored
      /\ seq' = seq + 1 /\ seq \in Nat /\ seq + 1 =< ItemBound
      /\ items' \in Seq(1..ItemBound) /\ Len(items') = Len(items) + 1
      /\ exec' \in TaskRecord
  <2>1. /\ exec.pc = "event" /\ snapLock = Nobody /\ seq' = seq + 1
        /\ exec' = [exec EXCEPT !.pc = "publish", !.seq = seq + 1]
        /\ items' = Append(items, exec.event)
    BY DEF ExecEvent, At
  <2>2. /\ exec.event \in 1..ItemBound /\ seq = Len(items)
        /\ Len(items) + Len(queue) + 1 = Len(history) /\ Len(history) =< ItemBound
    BY <2>1 DEF Counted, InEvent, Over, Settled, Stored
  <2>3. Len(items) \in Nat /\ Len(queue) \in Nat /\ Len(history) \in Nat
    BY LenProperties DEF Tables
  <2>4. items' \in Seq(1..ItemBound) /\ Len(items') = Len(items) + 1
    BY <2>1, <2>2, AppendProperties DEF Tables
  <2>5. exec' \in TaskRecord
    <3>1. seq + 1 \in Nat
      BY <2>2, <2>3
    <3>2. QED
      BY <2>1, <3>1 DEF Shaped, TaskRecord, ViewRecord, Pcs
  <2>6. /\ exec'.pc = "publish" /\ exec'.seq = seq + 1 /\ exec'.back = exec.back
        /\ exec'.event = exec.event /\ exec'.outcome = exec.outcome /\ exec'.stored = exec.stored
    BY <2>1 DEF Shaped, TaskRecord, ViewRecord
  <2>7. QED
    BY <2>1, <2>2, <2>3, <2>4, <2>5, <2>6
<1>b. UNCHANGED <<status, snapLock, pubLock, live, pending, cancel, acceptance,
                  preparation, delivery, view, committed, notified, durable, history, queue,
                  engine, starter, canceller, answer, closer, hangup, late, wire>>
  BY DEF ExecEvent, gates, projection, outbox, session, requests
<1>1. Shaped'
    BY <1>a, <1>b DEF Shaped, TaskRecord, ViewRecord, Pcs, Terminal
<1>2. Flags'
    BY <1>a, <1>b DEF Flags
<1>3. Points'
    BY <1>a, <1>b DEF Points, Shaped, TaskRecord, ViewRecord, Publishers, Terminal, Nobody,
    Executor
<1>4. Tables'
    BY <1>a, <1>b DEF Tables
<1>5. Locked'
    BY <1>a, <1>b DEF Locked, Shaped, TaskRecord, ViewRecord, Points, Tables, Publishers,
    Executor, Nobody, Persistent
<1>6. Counted'
    BY <1>a, <1>b, Lengths DEF Counted, Over, Settled, Stored, InEvent
<1>7. Decided'
    BY <1>a, <1>b DEF Decided, Shaped, TaskRecord, ViewRecord, Points, Executing, Draining,
    Settled, Stored, InEvent, Terminal
<1>8. Answered'
    BY <1>a, <1>b DEF Answered, Shaped, TaskRecord, ViewRecord, Tables, Settled, Stored,
    Terminal
<1>9. Journalled'
    BY <1>a, <1>b DEF Journalled, Shaped, TaskRecord, ViewRecord, Stored, Told, Persistent,
    Terminal
<1>10. Acknowledged'
    BY <1>a, <1>b DEF Acknowledged, Tables, Told
<1>11. Framed'
  <2>1. ASSUME NEW i \in 1..Len(wire)
        PROVE  /\ wire[i].kind = "stream" => wire[i].seq =< seq /\ wire[i].seq \in Nat
               /\ wire[i].kind # "finished"
    BY <1>a, Lengths DEF Framed
  <2>2. ASSUME NEW i \in 1..Len(wire)
        PROVE  /\ wire[i].kind = "stream" => wire[i].seq =< seq' /\ wire[i].seq < seq'
               /\ wire[i].kind # "finished"
    BY <1>a, <2>1
  <2>3. QED
    BY <1>b, <2>2 DEF Framed
<1>12. Cursors'
    BY <1>a, <1>b DEF Cursors, Held
<1>13. Quiet'
    BY <1>a, <1>b DEF Quiet, Shaped, TaskRecord, ViewRecord, Told
<1>14. QED
  BY <1>1, <1>2, <1>3, <1>4, <1>5, <1>6, <1>7, <1>8, <1>9, <1>10, <1>11, <1>12, <1>13

LEMMA ExecPublishLife ==
  ASSUME LifeInv, ExecPublish
  PROVE  LifeInv'
<1> USE LifecycleAssumption DEF LifeInv
<1> DEFINE v == IF view.active THEN ViewItem(view, exec.event) ELSE view
<1>a. Commit(Executor, v) /\ UNCHANGED <<outbox, acceptance>> /\ Executor \in Publishers
  BY DEF ExecPublish, gates, Publishers
<1>b. /\ v = view \/ v.cursor = view.cursor + 1
      /\ v \in ViewRecord
  <2>1. exec.event \in 1..ItemBound
    BY DEF ExecPublish, At, Counted, InEvent
  <2>2. QED
    BY <2>1, ViewItemShape DEF Shaped
<1>c. view' = v
  BY <1>a DEF Commit
<1>d. Cursors' /\ committed' \in [Publishers -> Nat]
  <2> HIDE DEF v
  <2>1. QED
    BY <1>a, <1>b, CommitCursors
<1>1. Shaped'
  <2> HIDE DEF v
  <2>1. exec' \in TaskRecord
    BY DEF ExecPublish, Goto, Shaped, TaskRecord, ViewRecord, Pcs
  <2>2. QED
    BY <1>b, <1>c, <2>1 DEF Shaped
<1>2. Points'
  BY DEF ExecPublish, At, Goto, Commit, LockFree, Nobody, ViewItem, Executor, snapshot,
         gates, session, Points, Shaped, TaskRecord, ViewRecord, Publishers, Terminal
<1>3. Tables'
  BY <1>d DEF ExecPublish, snapshot, session, requests, Tables
<1>4. Locked'
  BY DEF ExecPublish, At, Goto, Commit, LockFree, Nobody, ViewItem, Executor, snapshot,
         session, requests, Locked, Shaped, TaskRecord, ViewRecord, Points, Tables,
         Publishers, Persistent
<1>5. Counted'
  BY DEF ExecPublish, At, Goto, Commit, LockFree, Nobody, ViewItem, Executor, snapshot,
         session, Counted, Shaped, TaskRecord, ViewRecord, Tables, Over, Settled, Stored,
         InEvent
<1>6. Decided'
  BY DEF ExecPublish, At, Goto, Commit, LockFree, Nobody, ViewItem, Executor, snapshot,
         gates, Decided, Shaped, TaskRecord, ViewRecord, Points, Executing, Draining,
         Settled, Stored, InEvent, Terminal
<1>7. Answered'
  BY DEF ExecPublish, At, Goto, Commit, LockFree, Nobody, ViewItem, Executor, snapshot,
         requests, Answered, Shaped, TaskRecord, ViewRecord, Tables, Settled, Stored,
         Terminal
<1>8. Journalled'
  BY DEF ExecPublish, At, Goto, Commit, LockFree, Nobody, ViewItem, Executor, snapshot,
         gates, session, Journalled, Shaped, TaskRecord, ViewRecord, Stored, Told,
         Persistent, Terminal
<1>9. Framed'
  BY DEF ExecPublish, At, Goto, Commit, LockFree, Nobody, ViewItem, Executor, snapshot,
         Framed, Shaped, TaskRecord, ViewRecord, Frame
<1>10. Cursors'
  BY <1>d
<1>11. Quiet'
  BY DEF ExecPublish, At, Goto, Commit, LockFree, Nobody, ViewItem, Executor, session,
         Quiet, Shaped, TaskRecord, ViewRecord, Told
<1>12. Flags'
  BY DEF ExecPublish, gates, outbox, Flags
<1>13. Acknowledged'
  BY DEF ExecPublish, gates, outbox, session, requests, Acknowledged, Told
<1>14. QED
  BY <1>1, <1>2, <1>3, <1>4, <1>5, <1>6, <1>7, <1>8, <1>9, <1>10, <1>11, <1>12, <1>13

LEMMA ExecPublishedLife ==
  ASSUME LifeInv, ExecPublished
  PROVE  LifeInv'
<1> USE LifecycleAssumption DEF LifeInv
<1>1. Shaped'
  BY DEF ExecPublished, At, Goto, Notify, Nobody, Executor, Shaped, TaskRecord, Pcs,
         Terminal
<1>2. Points'
  BY DEF ExecPublished, At, Goto, Notify, Nobody, Executor, snapshot, gates, session,
         Points, Shaped, TaskRecord, Publishers, Terminal
<1>3. Tables'
  <2>1. Executor \in Publishers /\ pubLock = Executor /\ Notify(Executor) /\ UNCHANGED acceptance
    BY DEF ExecPublished, At, Locked, Publishers, gates
  <2>2. committed' \in [Publishers -> Nat]
    BY <2>1, NotifyCursors
  <2>3. QED
    BY <2>2 DEF ExecPublished, Goto, snapshot, session, requests, Tables, Points
<1>4. Locked'
  BY DEF ExecPublished, At, Goto, Notify, Nobody, Executor, snapshot, session, requests,
         Locked, Shaped, TaskRecord, Points, Tables, Publishers, Persistent
<1>5. Counted'
  BY DEF ExecPublished, At, Goto, Notify, Nobody, Executor, snapshot, session, Counted,
         Shaped, TaskRecord, Tables, Over, Settled, Stored, InEvent
<1>6. Decided'
  BY DEF ExecPublished, At, Goto, Notify, Nobody, Executor, snapshot, gates, Decided,
         Shaped, TaskRecord, Points, Executing, Draining, Settled, Stored, InEvent, Terminal
<1>7. Answered'
  BY DEF ExecPublished, At, Goto, Notify, Nobody, Executor, snapshot, requests, Answered,
         Shaped, TaskRecord, Tables, Settled, Stored, Terminal
<1>8. Journalled'
  BY DEF ExecPublished, At, Goto, Notify, Nobody, Executor, snapshot, gates, session,
         Journalled, Shaped, TaskRecord, Stored, Told, Persistent, Terminal
<1>9. Acknowledged'
  <2>1. Notify(Executor) /\ UNCHANGED <<wire, starter, history, acceptance, live>>
    BY DEF ExecPublished, Notify, gates, session, requests
  <2>2. Executor \in Publishers /\ pubLock = Executor
    BY DEF ExecPublished, At, Locked, Publishers
  <2>3. notified' # <<>> => live
    BY <2>1, <2>2, NotifyCursors
  <2>4. QED
    BY <2>1, <2>3 DEF Acknowledged, Told
<1>10. Framed'
  BY DEF ExecPublished, At, Goto, Notify, Nobody, Executor, snapshot, Framed, Shaped,
         TaskRecord, Frame
<1>11. Cursors'
  <2>1. Notify(Executor) /\ UNCHANGED acceptance
    BY DEF ExecPublished, gates
  <2>2. Executor \in Publishers /\ pubLock = Executor
    BY DEF ExecPublished, At, Locked, Publishers
  <2>3. QED
    BY <2>1, <2>2, NotifyCursors
<1>12. Quiet'
  BY DEF ExecPublished, At, Goto, Notify, Nobody, Executor, session, Quiet, Shaped,
         TaskRecord, Told
<1>13. Flags'
  BY DEF ExecPublished, Notify, gates, Flags
<1>14. QED
  BY <1>1, <1>2, <1>3, <1>4, <1>5, <1>6, <1>7, <1>8, <1>9, <1>10, <1>11, <1>12, <1>13

LEMMA ExecSendLife ==
  ASSUME LifeInv, ExecSend
  PROVE  LifeInv'
<1> USE LifecycleAssumption DEF LifeInv
<1> DEFINE f == [kind |-> "stream", seq |-> exec.seq]
<1>a. /\ exec.pc = "send" /\ exec.back \in {"select", "drain"} /\ exec.seq = seq /\ history # <<>>
      /\ exec' = [exec EXCEPT !.pc = exec.back]
  BY DEF ExecSend, At, Goto, Counted, InEvent
<1>b. f \in Frame
  BY <1>a DEF Frame, Points
<1>c. /\ wire' = wire \/ Sends(f)
      /\ UNCHANGED <<acceptance, live, notified, history, starter, seq, items, queue, committed,
                     canceller, answer>>
  BY <1>b, FrameSent DEF ExecSend, gates, outbox, session, requests, snapshot, projection
<1>d. exec' \in TaskRecord /\ exec'.pc = exec.back
  BY <1>a DEF Shaped, TaskRecord, Pcs
<1>1. Shaped'
  BY <1>d DEF ExecSend, projection, Shaped
<1>2. Tables'
  <2>1. wire' \in Seq(Frame)
    BY <1>c DEF Tables, Sends
  <2>2. QED
    BY <1>c, <2>1 DEF Tables
<1>3. Locked'
  BY DEF ExecSend, At, Goto, snapshot, projection, session, requests, Locked, Shaped,
         TaskRecord, Points, Tables, Publishers, Executor, Nobody, Persistent
<1>4. Counted'
  BY DEF ExecSend, At, Goto, snapshot, session, Counted, Shaped, TaskRecord, Tables, Over,
         Settled, Stored, InEvent
<1>5. Decided'
  BY DEF ExecSend, At, Goto, snapshot, gates, Decided, Shaped, TaskRecord, Points,
         Executing, Draining, Settled, Stored, InEvent, Terminal
<1>6. Answered'
  BY DEF ExecSend, At, Goto, snapshot, requests, Answered, Shaped, TaskRecord, Tables,
         Settled, Stored, Terminal
<1>7. Journalled'
  BY DEF ExecSend, At, Goto, snapshot, gates, projection, session, Journalled, Shaped,
         TaskRecord, Stored, Told, Persistent, Terminal
<1>8. Acknowledged'
  <2>1. Told("accepted")
    BY <1>a DEF Acknowledged
  <2>2. CASE wire' = wire
    BY <1>c, <2>2 DEF Acknowledged, Told
  <2>3. CASE Sends(f)
    <3>1. Told("accepted")' /\ wire'[1] = wire[1] /\ wire # <<>>
      BY <2>1, <2>3, ToldGrows
    <3>2. QED
      BY <3>1 DEF Acknowledged
  <2>4. QED
    BY <1>c, <2>2, <2>3
<1>9. Framed'
  <2>1. ASSUME NEW i \in 1..Len(wire)
        PROVE  /\ wire[i].kind = "stream" => wire[i].seq < seq /\ wire[i].seq \in Nat
               /\ wire[i].kind # "finished"
    BY <1>a, Lengths DEF Framed
  <2>2. seq \in Nat
    BY DEF Points
  <2>3. CASE wire' = wire
    BY <1>a, <1>c, <1>d, <2>1, <2>2, <2>3 DEF Framed
  <2>4. CASE Sends(f)
    <3>1. /\ Len(wire) \in Nat /\ Len(wire') = Len(wire) + 1
          /\ wire'[Len(wire) + 1].kind = f.kind /\ wire'[Len(wire) + 1].seq = seq
          /\ \A i \in 1..Len(wire) : wire'[i] = wire[i]
      BY <1>a, <2>4 DEF Sends
    <3>2. ASSUME NEW i \in 1..Len(wire'), NEW j \in 1..Len(wire'), i < j,
                 wire'[i].kind # "accepted", wire'[j].kind # "accepted"
          PROVE  wire'[i].seq < wire'[j].seq /\ wire'[i].kind = "stream"
      <4>1. i \in 1..Len(wire) /\ wire'[i] = wire[i]
        BY <3>1, <3>2
      <4>2. wire[i].kind = "stream"
        <5>1. wire[i] \in Frame
          BY <4>1, ElementOfSeq DEF Tables
        <5>2. QED
          BY <2>1, <3>2, <4>1, <5>1 DEF Frame
      <4>3. CASE j \in 1..Len(wire)
        BY <3>1, <3>2, <4>1, <4>3 DEF Framed
      <4>4. CASE j = Len(wire) + 1
        BY <2>1, <3>1, <4>1, <4>2, <4>4
      <4>5. QED
        BY <3>1, <4>3, <4>4
    <3>3. ASSUME NEW i \in 1..Len(wire')
          PROVE  /\ wire'[i].kind = "stream" => wire'[i].seq =< seq'
                 /\ wire'[i].kind # "finished"
      <4>1. CASE i \in 1..Len(wire)
        BY <1>a, <1>c, <1>d, <2>1, <2>2, <3>1, <4>1
      <4>2. CASE i = Len(wire) + 1
        BY <1>a, <1>c, <1>d, <2>2, <3>1, <4>2
      <4>3. QED
        BY <3>1, <4>1, <4>2
    <3>4. QED
      BY <1>a, <1>d, <3>2, <3>3 DEF Framed
  <2>5. QED
    BY <1>c, <2>3, <2>4
<1>10. Quiet'
  BY DEF ExecSend, At, Goto, projection, session, Quiet, Shaped, TaskRecord, Told
<1>11. Flags' /\ Points'
  BY DEF ExecSend, gates, outbox, Flags, snapshot, projection, session, Points
<1>12. Cursors'
  BY DEF ExecSend, gates, projection, outbox, Cursors, Held
<1>13. QED
  BY <1>1, <1>2, <1>3, <1>4, <1>5, <1>6, <1>7, <1>8, <1>9, <1>10, <1>11, <1>12

LEMMA ExecSettleLife ==
  ASSUME LifeInv, ExecSettle
  PROVE  LifeInv'
<1> USE LifecycleAssumption DEF LifeInv
<1>a. /\ exec.pc = "settle" /\ snapLock = Nobody /\ exec'.pc \in {"finalize", "finish"}
      /\ exec'.seq = exec.seq /\ exec'.back = exec.back /\ exec'.event = exec.event
      /\ exec'.outcome = exec.outcome /\ exec'.stored = exec.stored
      /\ seq' = seq + 1 /\ seq \in Nat /\ seq =< ItemBound /\ items' = history
      /\ status' \in Terminal /\ status \notin Terminal
      /\ status = "cancelling" => status' = "cancelled"
      /\ exec'.pc = "finalize" => Persistent /\ snapLock' = Executor
      /\ exec'.pc = "finish" => ~Persistent /\ snapLock' = snapLock
      /\ exec' \in TaskRecord
  <2>1. /\ exec.pc = "settle" /\ snapLock = Nobody /\ seq' = seq + 1 /\ items' = history
        /\ status' = Outcome
        /\ \/ Persistent /\ snapLock' = Executor /\ exec' = [exec EXCEPT !.pc = "finalize"]
           \/ ~Persistent /\ snapLock' = snapLock /\ exec' = [exec EXCEPT !.pc = "finish"]
    BY DEF ExecSettle, At, Goto
  <2>2. /\ seq = Len(items) /\ Len(items) + Len(queue) = Len(history) /\ Len(history) =< ItemBound
    BY <2>1 DEF Counted, Over, Settled, Stored
  <2>3. Len(items) \in Nat /\ Len(queue) \in Nat /\ Len(history) \in Nat
    BY LenProperties DEF Tables
  <2>4. /\ Outcome \in Terminal /\ status \notin Terminal
        /\ status = "cancelling" => Outcome = "cancelled"
    BY <2>1 DEF Outcome, Decided, Draining, Settled, Stored, Points, Terminal
  <2>5. /\ exec'.pc \in {"finalize", "finish"} /\ exec'.seq = exec.seq /\ exec'.back = exec.back
        /\ exec'.event = exec.event /\ exec'.outcome = exec.outcome /\ exec'.stored = exec.stored
        /\ exec'.pc = "finalize" => Persistent /\ snapLock' = Executor
        /\ exec'.pc = "finish" => ~Persistent /\ snapLock' = snapLock
        /\ exec' \in TaskRecord
    BY <2>1 DEF Shaped, TaskRecord, ViewRecord, Pcs
  <2>6. QED
    BY <2>1, <2>2, <2>3, <2>4, <2>5
<1>b. UNCHANGED <<pubLock, live, pending, cancel, acceptance, preparation, delivery,
                  view, committed, notified, durable, history, queue, engine, starter, canceller,
                  answer, closer, hangup, late, wire>>
  BY DEF ExecSettle, gates, projection, outbox, session, requests
<1>1. Shaped'
    BY <1>a, <1>b DEF Shaped, TaskRecord, ViewRecord, Pcs, Terminal
<1>2. Flags'
    BY <1>a, <1>b DEF Flags
<1>3. Points'
    BY <1>a, <1>b DEF Points, Shaped, TaskRecord, ViewRecord, Publishers, Terminal, Nobody,
    Executor
<1>4. Tables'
    BY <1>a, <1>b DEF Tables
<1>5. Locked'
    BY <1>a, <1>b DEF Locked, Shaped, TaskRecord, ViewRecord, Points, Tables, Publishers,
    Executor, Nobody, Persistent
<1>6. Counted'
    BY <1>a, <1>b, Lengths DEF Counted, Over, Settled, Stored, InEvent
<1>7. Decided'
    BY <1>a, <1>b DEF Decided, Shaped, TaskRecord, ViewRecord, Points, Executing, Draining,
    Settled, Stored, InEvent, Terminal
<1>8. Answered'
    BY <1>a, <1>b DEF Answered, Shaped, TaskRecord, ViewRecord, Tables, Settled, Stored,
    Terminal
<1>9. Journalled'
    BY <1>a, <1>b DEF Journalled, Shaped, TaskRecord, ViewRecord, Stored, Told, Persistent,
    Terminal
<1>10. Acknowledged'
    BY <1>a, <1>b DEF Acknowledged, Tables, Told
<1>11. Framed'
  <2>1. ASSUME NEW i \in 1..Len(wire)
        PROVE  /\ wire[i].kind = "stream" => wire[i].seq =< seq /\ wire[i].seq \in Nat
               /\ wire[i].kind # "finished"
    BY <1>a, Lengths DEF Framed
  <2>2. ASSUME NEW i \in 1..Len(wire)
        PROVE  /\ wire[i].kind = "stream" => wire[i].seq =< seq' /\ wire[i].seq < seq'
               /\ wire[i].kind # "finished"
    BY <1>a, <2>1
  <2>3. QED
    BY <1>b, <2>2 DEF Framed
<1>12. Cursors'
    BY <1>a, <1>b DEF Cursors, Held
<1>13. Quiet'
    BY <1>a, <1>b DEF Quiet, Shaped, TaskRecord, ViewRecord, Told
<1>14. QED
  BY <1>1, <1>2, <1>3, <1>4, <1>5, <1>6, <1>7, <1>8, <1>9, <1>10, <1>11, <1>12, <1>13

LEMMA ExecFinalizeLife ==
  ASSUME LifeInv, ExecFinalize
  PROVE  LifeInv'
<1> USE LifecycleAssumption DEF LifeInv
<1>a. /\ exec.pc = "finalize" /\ snapLock = Executor /\ snapLock' = Nobody /\ Persistent
      /\ exec'.pc = "finish" /\ exec'.seq = exec.seq /\ exec'.back = exec.back
      /\ exec'.event = exec.event /\ exec'.outcome = exec.outcome
      /\ status \in Terminal /\ status' \in Terminal
      /\ status' # status => status' = "failed" /\ exec'.stored = "failed"
      /\ exec.stored = "none"
      /\ status' # "completed" \/ durable' = status'
      /\ durable' \in {durable} \cup Terminal /\ durable' # "none" /\ durable' # "absent"
      /\ exec' \in TaskRecord
  <2>1. /\ exec.pc = "finalize" /\ snapLock' = Nobody
        /\ \/ /\ durable' = status /\ status' = status
              /\ exec' = [exec EXCEPT !.pc = "finish", !.stored = "yes"]
           \/ /\ durable' \in {durable, status} /\ status' = "failed"
              /\ exec' = [exec EXCEPT !.pc = "finish", !.stored = "failed"]
    BY DEF ExecFinalize, At
  <2>2. /\ snapLock = Executor /\ Persistent /\ status \in Terminal /\ durable # "none"
        /\ exec.stored = "none"
        /\ durable # "absent"
    BY <2>1 DEF Locked, Decided, Settled, Stored, Journalled, Persistent
  <2>3. CASE /\ exec' = [exec EXCEPT !.pc = "finish", !.stored = "yes"]
             /\ status' = status /\ durable' = status
    BY <2>1, <2>2, <2>3 DEF Shaped, TaskRecord, ViewRecord, Pcs, Terminal
  <2>4. CASE /\ exec' = [exec EXCEPT !.pc = "finish", !.stored = "failed"] /\ status' = "failed"
             /\ durable' \in {durable, status}
    BY <2>1, <2>2, <2>4 DEF Shaped, TaskRecord, ViewRecord, Pcs, Terminal
  <2>5. QED
    BY <2>1, <2>3, <2>4
<1>b. UNCHANGED <<items, seq, pubLock, live, pending, cancel, acceptance, preparation,
                  delivery, view, committed, notified, history, queue, engine, starter, canceller,
                  answer, closer, hangup, late, wire>>
  BY DEF ExecFinalize, gates, projection, outbox, requests
<1>1. Shaped'
    BY <1>a, <1>b DEF Shaped, TaskRecord, ViewRecord, Pcs, Terminal
<1>2. Flags'
    BY <1>a, <1>b DEF Flags
<1>3. Points'
    BY <1>a, <1>b DEF Points, Shaped, TaskRecord, ViewRecord, Publishers, Terminal, Nobody,
    Executor
<1>4. Tables'
    BY <1>a, <1>b DEF Tables
<1>5. Locked'
    BY <1>a, <1>b DEF Locked, Shaped, TaskRecord, ViewRecord, Points, Tables, Publishers,
    Executor, Nobody, Persistent
<1>6. Counted'
    BY <1>a, <1>b, Lengths DEF Counted, Over, Settled, Stored, InEvent
<1>7. Decided'
    BY <1>a, <1>b DEF Decided, Shaped, TaskRecord, ViewRecord, Points, Executing, Draining,
    Settled, Stored, InEvent, Terminal
<1>8. Answered'
    BY <1>a, <1>b DEF Answered, Shaped, TaskRecord, ViewRecord, Tables, Settled, Stored,
    Terminal
<1>9. Journalled'
    BY <1>a, <1>b DEF Journalled, Shaped, TaskRecord, ViewRecord, Stored, Told, Persistent,
    Terminal
<1>10. Acknowledged'
    BY <1>a, <1>b DEF Acknowledged, Tables, Told
<1>11. Framed'
    BY <1>a, <1>b, Lengths DEF Framed
<1>12. Cursors'
    BY <1>a, <1>b DEF Cursors, Held
<1>13. Quiet'
    BY <1>a, <1>b DEF Quiet, Shaped, TaskRecord, ViewRecord, Told
<1>14. QED
  BY <1>1, <1>2, <1>3, <1>4, <1>5, <1>6, <1>7, <1>8, <1>9, <1>10, <1>11, <1>12, <1>13

LEMMA ExecFinishLife ==
  ASSUME LifeInv, ExecFinish
  PROVE  LifeInv'
<1> USE LifecycleAssumption DEF LifeInv
<1> DEFINE v == IF view.active THEN ViewFinished(view, items, status) ELSE view
<1>a. /\ exec.pc = "finish" /\ status \in Terminal
      /\ UNCHANGED <<status, outbox, acceptance, durable, preparation, wire, closer>>
      /\ exec'.pc \in {"finishing", "ended"} /\ exec'.stored = exec.stored
      /\ exec' \in TaskRecord
  <2>1. /\ exec.pc = "finish"
        /\ UNCHANGED <<status, outbox, acceptance, durable, preparation, wire, closer>>
    BY DEF ExecFinish, At, snapshot, gates
  <2>2. status \in Terminal
    BY <2>1 DEF Decided, Settled, Stored
  <2>3. /\ exec'.pc \in {"finishing", "ended"} /\ exec'.stored = exec.stored
        /\ exec' \in TaskRecord
    BY DEF ExecFinish, Goto, Shaped, TaskRecord, Pcs
  <2>4. QED
    BY <2>1, <2>2, <2>3
<1>b. /\ v = view \/ v.cursor = view.cursor + 1
      /\ v = view \/ v.last = status
      /\ v \in ViewRecord
  <2>1. /\ ViewFinished(view, items, status) \in ViewRecord
        /\ ViewFinished(view, items, status).cursor = view.cursor + 1
        /\ ViewFinished(view, items, status).last = status
    <3>1. view \in ViewRecord /\ items \in Seq(1..ItemBound) /\ status \in Terminal
      BY <1>a DEF Shaped, Tables
    <3>2. QED
      BY <3>1, ViewFinishedShape, Zenon
  <2>2. QED
    BY <2>1 DEF Shaped
<1>c. /\ Cursors' /\ committed' \in [Publishers -> Nat]
      /\ view' = v \/ view' = view
  <2>1. CASE acceptance = "yes"
    <3>1. Commit(Executor, v) /\ Executor \in Publishers /\ UNCHANGED <<outbox, acceptance>>
      BY <1>a, <2>1 DEF ExecFinish, Publishers
    <3> HIDE DEF v
    <3>2. Cursors' /\ committed' \in [Publishers -> Nat]
      BY <1>b, <3>1, CommitCursors
    <3>3. QED
      BY <3>1, <3>2 DEF Commit
  <2>2. CASE acceptance # "yes"
    <3>1. UNCHANGED projection
      BY <2>2 DEF ExecFinish
    <3>2. QED
      BY <1>a, <3>1 DEF Cursors, Held, outbox, projection, Tables
  <2>3. QED
    BY <2>1, <2>2
<1>1. Shaped'
  <2> HIDE DEF v
  <2>1. QED
    BY <1>a, <1>b, <1>c DEF Shaped
<1>2. Points'
  BY DEF ExecFinish, At, Goto, Commit, LockFree, Nobody, Executor, snapshot, gates,
         projection, Points, Shaped, TaskRecord, ViewRecord, Publishers, Terminal
<1>3. Tables'
  BY <1>c DEF ExecFinish, snapshot, requests, Tables
<1>4. Locked'
  BY DEF ExecFinish, At, Goto, Commit, LockFree, Nobody, Executor, snapshot, projection,
         requests, Locked, Shaped, TaskRecord, ViewRecord, Points, Tables, Publishers,
         Persistent
<1>5. Counted'
  BY DEF ExecFinish, At, Goto, Commit, LockFree, Nobody, Executor, snapshot, Counted,
         Shaped, TaskRecord, ViewRecord, Tables, Over, Settled, Stored, InEvent
<1>6. Decided'
  BY DEF ExecFinish, At, Goto, Commit, LockFree, Nobody, Executor, snapshot, gates, Decided,
         Shaped, TaskRecord, ViewRecord, Points, Executing, Draining, Settled, Stored,
         InEvent, Terminal
<1>7. Answered'
  BY DEF ExecFinish, At, Goto, Commit, LockFree, Nobody, Executor, snapshot, requests,
         Answered, Shaped, TaskRecord, ViewRecord, Tables, Settled, Stored, Terminal
<1>8. Journalled'
  <2> HIDE DEF v
  <2>1. view'.last # view.last => view'.last = status /\ exec'.pc = "finishing"
    <3>1. acceptance # "yes" => view' = view
      BY DEF ExecFinish, projection
    <3>2. acceptance = "yes" => exec'.pc = "finishing"
      BY DEF ExecFinish, Goto, Shaped, TaskRecord
    <3>3. QED
      BY <1>b, <1>c, <3>1, <3>2
  <2>2. QED
    BY <1>a, <2>1 DEF Journalled, Persistent, Told, Stored
<1>9. Framed'
  BY DEF ExecFinish, At, Goto, Commit, LockFree, Nobody, Executor, snapshot, Framed, Shaped,
         TaskRecord, ViewRecord, Frame
<1>10. Cursors'
  BY <1>c
<1>11. Quiet'
  BY DEF ExecFinish, At, Goto, Commit, LockFree, Nobody, Executor, projection, Quiet,
         Shaped, TaskRecord, ViewRecord, Told
<1>12. Flags'
  BY DEF ExecFinish, gates, outbox, Flags
<1>13. Acknowledged'
  BY DEF ExecFinish, gates, outbox, requests, Acknowledged, Told
<1>14. QED
  BY <1>1, <1>2, <1>3, <1>4, <1>5, <1>6, <1>7, <1>8, <1>9, <1>10, <1>11, <1>12, <1>13

LEMMA ExecFinishedLife ==
  ASSUME LifeInv, ExecFinished
  PROVE  LifeInv'
<1> USE LifecycleAssumption DEF LifeInv
<1>1. Shaped'
  BY DEF ExecFinished, At, Goto, Notify, Nobody, Executor, Shaped, TaskRecord, Pcs, Terminal
<1>2. Points'
  BY DEF ExecFinished, At, Goto, Notify, Nobody, Executor, snapshot, gates, session, Points,
         Shaped, TaskRecord, Publishers, Terminal
<1>3. Tables'
  <2>1. Executor \in Publishers /\ pubLock = Executor /\ Notify(Executor) /\ UNCHANGED acceptance
    BY DEF ExecFinished, At, Locked, Publishers, gates
  <2>2. committed' \in [Publishers -> Nat]
    BY <2>1, NotifyCursors
  <2>3. QED
    BY <2>2 DEF ExecFinished, Goto, snapshot, session, requests, Tables, Points
<1>4. Locked'
  BY DEF ExecFinished, At, Goto, Notify, Nobody, Executor, snapshot, session, requests,
         Locked, Shaped, TaskRecord, Points, Tables, Publishers, Persistent
<1>5. Counted'
  BY DEF ExecFinished, At, Goto, Notify, Nobody, Executor, snapshot, session, Counted,
         Shaped, TaskRecord, Tables, Over, Settled, Stored, InEvent
<1>6. Decided'
  BY DEF ExecFinished, At, Goto, Notify, Nobody, Executor, snapshot, gates, Decided, Shaped,
         TaskRecord, Points, Executing, Draining, Settled, Stored, InEvent, Terminal
<1>7. Answered'
  BY DEF ExecFinished, At, Goto, Notify, Nobody, Executor, snapshot, requests, Answered,
         Shaped, TaskRecord, Tables, Settled, Stored, Terminal
<1>8. Journalled'
  BY DEF ExecFinished, At, Goto, Notify, Nobody, Executor, snapshot, gates, session,
         Journalled, Shaped, TaskRecord, Stored, Told, Persistent, Terminal
<1>9. Acknowledged'
  <2>1. Notify(Executor) /\ UNCHANGED <<wire, starter, history, acceptance, live>>
    BY DEF ExecFinished, Notify, gates, session, requests
  <2>2. Executor \in Publishers /\ pubLock = Executor
    BY DEF ExecFinished, At, Locked, Publishers
  <2>3. notified' # <<>> => live
    BY <2>1, <2>2, NotifyCursors
  <2>4. QED
    BY <2>1, <2>3 DEF Acknowledged, Told
<1>10. Framed'
  BY DEF ExecFinished, At, Goto, Notify, Nobody, Executor, snapshot, Framed, Shaped,
         TaskRecord, Frame
<1>11. Cursors'
  <2>1. Notify(Executor) /\ UNCHANGED acceptance
    BY DEF ExecFinished, gates
  <2>2. Executor \in Publishers /\ pubLock = Executor
    BY DEF ExecFinished, At, Locked, Publishers
  <2>3. QED
    BY <2>1, <2>2, NotifyCursors
<1>12. Quiet'
  BY DEF ExecFinished, At, Goto, Notify, Nobody, Executor, session, Quiet, Shaped,
         TaskRecord, Told
<1>13. Flags'
  BY DEF ExecFinished, Notify, gates, Flags
<1>14. QED
  BY <1>1, <1>2, <1>3, <1>4, <1>5, <1>6, <1>7, <1>8, <1>9, <1>10, <1>11, <1>12, <1>13

LEMMA ExecDeliverLife ==
  ASSUME LifeInv, ExecDeliver
  PROVE  LifeInv'
<1> USE LifecycleAssumption DEF LifeInv
<1> DEFINE f == [kind |-> "finished", seq |-> seq]
<1>a. /\ exec.pc = "deliver" /\ exec' = [exec EXCEPT !.pc = "ended"] /\ acceptance = "yes"
  BY DEF ExecDeliver, At, Goto, Decided
<1>b. f \in Frame
  BY DEF Frame, Points
<1>c. /\ (delivery' = "ok" /\ Sends(f)) \/ (delivery' = "undelivered" /\ wire' = wire)
      /\ UNCHANGED <<acceptance, live, notified, history, starter, seq, items, queue, committed,
                     canceller, answer, view, closer>>
  BY <1>b, FrameSent DEF ExecDeliver, gates, outbox, requests, snapshot, projection
<1>d. exec' \in TaskRecord /\ exec'.pc = "ended"
  BY <1>a DEF Shaped, TaskRecord, Pcs
<1>1. Shaped'
  BY DEF ExecDeliver, At, Goto, projection, Shaped, TaskRecord, Pcs, Terminal
<1>2. Points'
  BY DEF ExecDeliver, At, Goto, snapshot, gates, projection, Points, Shaped, TaskRecord,
         Publishers, Terminal, Nobody, Executor
<1>3. Tables'
  <2>1. wire' \in Seq(Frame)
    BY <1>c DEF Tables, Sends
  <2>2. QED
    BY <1>c, <2>1 DEF Tables
<1>4. Locked'
  BY DEF ExecDeliver, At, Goto, snapshot, projection, requests, Locked, Shaped, TaskRecord,
         Points, Tables, Publishers, Executor, Nobody, Persistent
<1>5. Counted'
  BY DEF ExecDeliver, At, Goto, snapshot, Counted, Shaped, TaskRecord, Tables, Over,
         Settled, Stored, InEvent
<1>6. Decided'
  BY DEF ExecDeliver, At, Goto, snapshot, gates, Decided, Shaped, TaskRecord, Points,
         Executing, Draining, Settled, Stored, InEvent, Terminal
<1>7. Answered'
  BY DEF ExecDeliver, At, Goto, snapshot, requests, Answered, Shaped, TaskRecord, Tables,
         Settled, Stored, Terminal
<1>8. Journalled'
  BY DEF ExecDeliver, At, Goto, snapshot, gates, projection, Journalled, Shaped, TaskRecord,
         Stored, Told, Persistent, Terminal
<1>9. Acknowledged'
  <2>1. Told("accepted")
    BY <1>a DEF Acknowledged
  <2>2. CASE wire' = wire
    BY <1>c, <2>2 DEF Acknowledged, Told
  <2>3. CASE Sends(f)
    <3>1. Told("accepted")' /\ wire'[1] = wire[1] /\ wire # <<>>
      BY <2>1, <2>3, ToldGrows
    <3>2. QED
      BY <3>1 DEF Acknowledged
  <2>4. QED
    BY <1>c, <2>2, <2>3
<1>10. Framed'
  <2>1. ASSUME NEW i \in 1..Len(wire)
        PROVE  /\ wire[i].kind = "stream" => wire[i].seq < seq /\ wire[i].seq \in Nat
               /\ wire[i].kind # "finished"
    BY <1>a, Lengths DEF Framed
  <2>2. seq \in Nat
    BY DEF Points
  <2>3. CASE wire' = wire
    BY <1>a, <1>c, <1>d, <2>1, <2>2, <2>3 DEF Framed
  <2>4. CASE Sends(f)
    <3>1. /\ Len(wire) \in Nat /\ Len(wire') = Len(wire) + 1
          /\ wire'[Len(wire) + 1].kind = f.kind /\ wire'[Len(wire) + 1].seq = seq
          /\ \A i \in 1..Len(wire) : wire'[i] = wire[i]
      BY <1>a, <2>4 DEF Sends
    <3>2. ASSUME NEW i \in 1..Len(wire'), NEW j \in 1..Len(wire'), i < j,
                 wire'[i].kind # "accepted", wire'[j].kind # "accepted"
          PROVE  wire'[i].seq < wire'[j].seq /\ wire'[i].kind = "stream"
      <4>1. i \in 1..Len(wire) /\ wire'[i] = wire[i]
        BY <3>1, <3>2
      <4>2. wire[i].kind = "stream"
        <5>1. wire[i] \in Frame
          BY <4>1, ElementOfSeq DEF Tables
        <5>2. QED
          BY <2>1, <3>2, <4>1, <5>1 DEF Frame
      <4>3. CASE j \in 1..Len(wire)
        BY <3>1, <3>2, <4>1, <4>3 DEF Framed
      <4>4. CASE j = Len(wire) + 1
        BY <2>1, <3>1, <4>1, <4>2, <4>4
      <4>5. QED
        BY <3>1, <4>3, <4>4
    <3>3. ASSUME NEW i \in 1..Len(wire')
          PROVE  /\ wire'[i].kind = "stream" => wire'[i].seq =< seq'
                 /\ wire'[i].kind = "finished" => wire'[i].seq = seq' 
      <4>1. CASE i \in 1..Len(wire)
        BY <1>a, <1>c, <1>d, <2>1, <2>2, <3>1, <4>1
      <4>2. CASE i = Len(wire) + 1
        BY <1>a, <1>c, <1>d, <2>2, <3>1, <4>2
      <4>3. QED
        BY <3>1, <4>1, <4>2
    <3>4. QED
      BY <1>a, <1>d, <3>2, <3>3 DEF Framed
  <2>5. QED
    BY <1>c, <2>3, <2>4
<1>11. Quiet'
  <2>1. CASE wire' = wire /\ delivery' = "undelivered"
    BY <1>a, <1>c, <1>d, <2>1 DEF Quiet, Told
  <2>2. CASE Sends(f) /\ delivery' = "ok"
    <3>1. Told("finished")'
      BY <2>2, ToldGrows
    <3>2. QED
      BY <1>a, <1>c, <1>d, <2>2, <3>1 DEF Quiet
  <2>3. QED
    BY <1>c, <2>1, <2>2
<1>12. Flags'
  BY DEF ExecDeliver, gates, outbox, Flags
<1>13. Cursors'
  BY DEF ExecDeliver, gates, projection, outbox, Cursors, Held
<1>14. QED
  BY <1>1, <1>2, <1>3, <1>4, <1>5, <1>6, <1>7, <1>8, <1>9, <1>10, <1>11, <1>12, <1>13

LEMMA CloseRequestLife ==
  ASSUME LifeInv, CloseRequest
  PROVE  LifeInv'
<1> USE LifecycleAssumption DEF LifeInv
<1>1. Points'
  BY DEF CloseRequest, snapshot, gates, projection, session, turn, Points, Publishers,
         Terminal, Nobody, Executor
<1>2. Quiet'
  BY DEF CloseRequest, projection, session, turn, Quiet, Told
<1>3. Shaped' /\ Flags' /\ Tables' /\ Locked' /\ Counted' /\ Decided'
  BY DEF CloseRequest, projection, turn, Shaped, gates, outbox, Flags, snapshot, session,
         requests, Tables, Locked, Persistent, Counted, Over, Settled, Stored, InEvent,
         Decided, Executing, Draining
<1>4. Answered' /\ Journalled' /\ Acknowledged' /\ Framed' /\ Cursors'
  BY DEF CloseRequest, snapshot, turn, requests, Answered, Stored, gates, projection,
         session, Journalled, Persistent, Told, outbox, Acknowledged, Framed, Cursors, Held
<1>5. QED
  BY <1>1, <1>2, <1>3, <1>4

LEMMA CloseCancelLife ==
  ASSUME LifeInv, CloseCancel
  PROVE  LifeInv'
<1> USE LifecycleAssumption DEF LifeInv
<1>1. Flags'
  BY DEF CloseCancel, At, RequestCancel, Cancellable, Terminal, Unaccept, Nobody, outbox,
         Flags
<1>2. Points'
  BY DEF CloseCancel, At, RequestCancel, Cancellable, Terminal, Unaccept, Nobody,
         projection, session, turn, Points, Publishers, Executor
<1>3. Locked'
  BY DEF CloseCancel, At, RequestCancel, Cancellable, Terminal, Unaccept, Nobody,
         projection, session, turn, requests, Locked, Points, Tables, Publishers, Executor,
         Persistent
<1>4. Decided'
  BY DEF CloseCancel, At, RequestCancel, Cancellable, Terminal, Unaccept, Nobody, turn,
         Decided, Points, Executing, Draining, Settled, Stored, InEvent
<1>5. Answered'
  BY DEF CloseCancel, At, RequestCancel, Cancellable, Terminal, Unaccept, Nobody, turn,
         requests, Answered, Tables, Settled, Stored
<1>6. Journalled'
  BY DEF CloseCancel, At, RequestCancel, Cancellable, Terminal, Unaccept, Nobody,
         projection, outbox, session, turn, requests, Journalled, Shaped, TaskRecord,
         ViewRecord, Stored, Told, Persistent
<1>7. Acknowledged'
  BY DEF CloseCancel, At, RequestCancel, Cancellable, Terminal, Unaccept, Nobody, outbox,
         session, requests, Acknowledged, Tables, Told
<1>8. Cursors'
  BY DEF CloseCancel, At, RequestCancel, Cancellable, Terminal, Unaccept, Nobody,
         projection, outbox, Cursors, Held
<1>9. Quiet'
  BY DEF CloseCancel, At, RequestCancel, Cancellable, Terminal, Unaccept, Nobody,
         projection, session, turn, Quiet, Told
<1>10. Shaped' /\ Tables' /\ Counted'
  BY DEF CloseCancel, projection, turn, Shaped, session, requests, Tables, Counted, Over,
         Settled, Stored, InEvent
<1>11. Framed'
  BY DEF CloseCancel, turn, Framed
<1>12. QED
  BY <1>1, <1>2, <1>3, <1>4, <1>5, <1>6, <1>7, <1>8, <1>9, <1>10, <1>11

LEMMA CloseDoneLife ==
  ASSUME LifeInv, CloseDone
  PROVE  LifeInv'
<1> USE LifecycleAssumption DEF LifeInv
<1>1. Points'
  BY DEF CloseDone, snapshot, gates, projection, session, turn, Points, Publishers,
         Terminal, Nobody, Executor
<1>2. Quiet'
  BY DEF CloseDone, projection, session, turn, Quiet, Told
<1>3. Shaped' /\ Flags' /\ Tables' /\ Locked' /\ Counted' /\ Decided'
  BY DEF CloseDone, projection, turn, Shaped, gates, outbox, Flags, snapshot, session,
         requests, Tables, Locked, Persistent, Counted, Over, Settled, Stored, InEvent,
         Decided, Executing, Draining
<1>4. Answered' /\ Journalled' /\ Acknowledged' /\ Framed' /\ Cursors'
  BY DEF CloseDone, snapshot, turn, requests, Answered, Stored, gates, projection, session,
         Journalled, Persistent, Told, outbox, Acknowledged, Framed, Cursors, Held
<1>5. QED
  BY <1>1, <1>2, <1>3, <1>4

LEMMA DisconnectLife ==
  ASSUME LifeInv, Disconnect
  PROVE  LifeInv'
<1> USE LifecycleAssumption DEF LifeInv
<1>1. Points'
  BY DEF Disconnect, snapshot, gates, projection, session, turn, Points, Publishers,
         Terminal, Nobody, Executor
<1>2. Shaped' /\ Flags' /\ Tables' /\ Locked' /\ Counted' /\ Decided'
  BY DEF Disconnect, projection, turn, Shaped, gates, outbox, Flags, snapshot, session,
         requests, Tables, Locked, Persistent, Counted, Over, Settled, Stored, InEvent,
         Decided, Executing, Draining
<1>3. Answered' /\ Journalled' /\ Acknowledged' /\ Framed' /\ Cursors' /\ Quiet'
  BY DEF Disconnect, snapshot, turn, requests, Answered, Stored, gates, projection, session,
         Journalled, Persistent, Told, outbox, Acknowledged, Framed, Cursors, Held, Quiet
<1>4. QED
  BY <1>1, <1>2, <1>3

LEMMA HangupSettleLife ==
  ASSUME LifeInv, HangupSettle
  PROVE  LifeInv'
<1> USE LifecycleAssumption DEF LifeInv
<1>1. Points'
  BY DEF HangupSettle, Unaccept, snapshot, projection, session, turn, Points, Publishers,
         Terminal, Nobody, Executor
<1>2. Decided'
  BY DEF HangupSettle, Unaccept, snapshot, turn, Decided, Points, Executing, Draining,
         Settled, Stored, InEvent, Terminal
<1>3. Acknowledged'
  BY DEF HangupSettle, Unaccept, outbox, session, requests, Acknowledged, Tables, Told
<1>4. Cursors'
  BY DEF HangupSettle, Unaccept, projection, outbox, Cursors, Held
<1>5. Shaped' /\ Flags' /\ Tables' /\ Locked' /\ Counted'
  BY DEF HangupSettle, projection, turn, Shaped, outbox, Flags, snapshot, session, requests,
         Tables, Locked, Persistent, Counted, Over, Settled, Stored, InEvent
<1>6. Answered' /\ Journalled' /\ Framed' /\ Quiet'
  BY DEF HangupSettle, snapshot, turn, requests, Answered, Stored, projection, session,
         Journalled, Persistent, Told, Framed, Quiet
<1>7. QED
  BY <1>1, <1>2, <1>3, <1>4, <1>5, <1>6

LEMMA HangupCancelLife ==
  ASSUME LifeInv, HangupCancel
  PROVE  LifeInv'
<1> USE LifecycleAssumption DEF LifeInv
<1>1. Flags'
  BY DEF HangupCancel, RequestCancel, Cancellable, Terminal, Nobody, outbox, Flags
<1>2. Points'
  BY DEF HangupCancel, RequestCancel, Cancellable, Terminal, Nobody, projection, session,
         turn, Points, Publishers, Executor
<1>3. Locked'
  BY DEF HangupCancel, RequestCancel, Cancellable, Terminal, Nobody, projection, session,
         turn, requests, Locked, Points, Tables, Publishers, Executor, Persistent
<1>4. Decided'
  BY DEF HangupCancel, RequestCancel, Cancellable, Terminal, Nobody, turn, Decided, Points,
         Executing, Draining, Settled, Stored, InEvent
<1>5. Answered'
  BY DEF HangupCancel, RequestCancel, Cancellable, Terminal, Nobody, turn, requests,
         Answered, Tables, Settled, Stored
<1>6. Journalled'
  BY DEF HangupCancel, RequestCancel, Cancellable, Terminal, Nobody, projection, outbox,
         session, turn, requests, Journalled, Shaped, TaskRecord, ViewRecord, Stored, Told,
         Persistent
<1>7. Shaped' /\ Tables' /\ Counted'
  BY DEF HangupCancel, projection, turn, Shaped, session, requests, Tables, Counted, Over,
         Settled, Stored, InEvent
<1>8. Acknowledged' /\ Framed' /\ Cursors' /\ Quiet'
  BY DEF HangupCancel, outbox, session, requests, Acknowledged, Told, turn, Framed,
         projection, Cursors, Held, Quiet
<1>9. QED
  BY <1>1, <1>2, <1>3, <1>4, <1>5, <1>6, <1>7, <1>8

LEMMA HangupCloseLife ==
  ASSUME LifeInv, HangupClose
  PROVE  LifeInv'
<1> USE LifecycleAssumption DEF LifeInv
<1>1. Points'
  BY DEF HangupClose, snapshot, gates, projection, session, turn, Points, Publishers,
         Terminal, Nobody, Executor
<1>2. Quiet'
  BY DEF HangupClose, projection, session, turn, Quiet, Told
<1>3. Shaped' /\ Flags' /\ Tables' /\ Locked' /\ Counted' /\ Decided'
  BY DEF HangupClose, projection, turn, Shaped, gates, outbox, Flags, snapshot, session,
         requests, Tables, Locked, Persistent, Counted, Over, Settled, Stored, InEvent,
         Decided, Executing, Draining
<1>4. Answered' /\ Journalled' /\ Acknowledged' /\ Framed' /\ Cursors'
  BY DEF HangupClose, snapshot, turn, requests, Answered, Stored, gates, projection,
         session, Journalled, Persistent, Told, outbox, Acknowledged, Framed, Cursors, Held
<1>5. QED
  BY <1>1, <1>2, <1>3, <1>4

(***************************************************************************)
(* Every step, and the theorems                                            *)
(***************************************************************************)
LEMMA StutterLife ==
  ASSUME LifeInv, UNCHANGED vars
  PROVE  LifeInv'
<1> USE DEF LifeInv, vars, snapshot, gates, projection, outbox, session, turn, requests
<1>1. Shaped' /\ Flags' /\ Points' /\ Tables'
  BY DEF Shaped, Flags, Points, Tables
<1>2. Locked' /\ Counted' /\ Decided' /\ Answered'
  BY DEF Locked, Counted, Decided, Answered, Persistent, Over, Settled, Stored, InEvent,
         Executing, Draining
<1>3. Journalled' /\ Acknowledged' /\ Framed' /\ Quiet'
  BY DEF Journalled, Acknowledged, Framed, Quiet, Persistent, Stored, Told
<1>4. Cursors'
  BY DEF Cursors, Held
<1>5. QED
  BY <1>1, <1>2, <1>3, <1>4

LEMMA NextLife ==
  ASSUME LifeInv, [Next]_vars
  PROVE  LifeInv'
<1>1. CASE ExecStep
  BY <1>1, ExecBeginLife, ExecAnnounceLife, ExecAnnouncedLife, ExecGateLife,
    ExecSelectLife, ExecDrainLife, ExecEventLife, ExecPublishLife, ExecPublishedLife,
    ExecSendLife, ExecSettleLife, ExecFinalizeLife, ExecFinishLife, ExecFinishedLife,
    ExecDeliverLife DEF ExecStep
<1>2. CASE CloseStep \/ HangupStep
  BY <1>2, CloseCancelLife, CloseDoneLife, HangupSettleLife, HangupCancelLife,
    HangupCloseLife DEF CloseStep, HangupStep
<1>3. CASE \E k \in Starters : StartReply(k) \/ StartDelivered(k)
  BY <1>3, StartReplyLife, StartDeliveredLife
<1>4. CASE \E k \in Cancellers : CancelRequest(k) \/ CancelCommit(k) \/ CancelNotify(k)
  BY <1>4, CancelRequestLife, CancelCommitLife, CancelNotifyLife
<1>5. CASE EngineItem \/ EngineEnd \/ Deadline \/ CloseRequest \/ Disconnect
  BY <1>5, EngineItemLife, EngineEndLife, DeadlineLife, CloseRequestLife, DisconnectLife
<1>6. CASE UNCHANGED vars
  BY <1>6, StutterLife
<1>7. QED
  BY <1>1, <1>2, <1>3, <1>4, <1>5, <1>6 DEF Next

LEMMA LifeAlways == Spec => []LifeInv
<1>1. Init => LifeInv
  BY InitLife
<1>2. LifeInv /\ [Next]_vars => LifeInv'
  BY NextLife
<1>3. QED
  BY <1>1, <1>2, PTL DEF Spec

LEMMA SentIsTold ==
  ASSUME LifeInv
  PROVE  /\ DOMAIN wire = 1..Len(wire)
         /\ \A kind : Sent(kind) # {} <=> Told(kind)
<1>1. DOMAIN wire = 1..Len(wire)
  BY LenProperties DEF LifeInv, Tables
<1>2. QED
  BY <1>1 DEF Sent, Told

\* The run ends as its clients were told.  A cancel that turn.cancel answered
\* with "cancelling" ends the run cancelled, however late it came, unless the
\* terminal write failed; a terminal status that was answered stands; and
\* nobody is told of a run, or of its completion, that the journal does not
\* hold (handle_run_ref, and the terminal commit of execute_run under the
\* snapshot lock).
THEOREM RunAlwaysEndsAsTold == Spec => []RunEndsAsTold
<1>1. LifeInv => RunEndsAsTold
  <2> SUFFICES ASSUME LifeInv PROVE RunEndsAsTold
    OBVIOUS
  <2>1. TypeOK
    BY LifeTypes
  <2>2. CancelHonoured
    BY DEF LifeInv, Answered, CancelHonoured, Terminal
  <2>3. AnswerStands
    BY DEF LifeInv, Answered, AnswerStands
  <2>4. Persistent => /\ Told("accepted") => durable # "none"
                      /\ view.last = "completed" => durable = "completed"
                      /\ \A k \in Cancellers : answer[k] = "completed" => durable = "completed"
    BY DEF LifeInv, Journalled, Answered, Stored, Terminal
  <2>5. ToldIsDurable
    BY <2>4, SentIsTold DEF ToldIsDurable
  <2>6. QED
    BY <2>1, <2>2, <2>3, <2>5 DEF RunEndsAsTold
<1>2. QED
  BY <1>1, LifeAlways, PTL

\* What the client and the subscribers of the session receive is in order: the
\* acknowledgement of the run before anything else of it, every sequence number
\* and every cursor once and in order, the terminal event last, and the close
\* of the session answered only behind it (deliver_acceptance, publish_stream,
\* commit_session_event and the end of execute_run).
THEOREM WireAlwaysInOrder == Spec => []WireInOrder
<1>1. LifeInv => WireInOrder
  <2> SUFFICES ASSUME LifeInv PROVE WireInOrder
    OBVIOUS
  <2>1. AckFirst
    BY SentIsTold DEF LifeInv, Acknowledged, AckFirst
  <2>2. WireOrdered
    <3>1. DOMAIN wire = 1..Len(wire)
      BY SentIsTold
    <3>2. ASSUME NEW i \in Sent("stream") \cup Sent("finished")
          PROVE  i \in 1..Len(wire) /\ wire[i].kind # "accepted"
      BY <3>1 DEF Sent
    <3>3. QED
      BY <3>2 DEF LifeInv, Framed, WireOrdered
  <2>3. NotifiedInOrder
    <3>1. DOMAIN notified = 1..Len(notified)
      BY LenProperties DEF LifeInv, Cursors
    <3>2. QED
      BY <3>1 DEF LifeInv, Cursors, NotifiedInOrder
  <2>4. ClosedIsQuiet
    BY SentIsTold DEF LifeInv, Quiet, Locked, ClosedIsQuiet, At
  <2>5. QED
    BY <2>1, <2>2, <2>3, <2>4 DEF WireInOrder
<1>2. QED
  BY <1>1, LifeAlways, PTL

=============================================================================
