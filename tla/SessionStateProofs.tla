------------------------- MODULE SessionStateProofs -------------------------
(***************************************************************************)
(* What the commands of SessionState preserve, for any sets of turns,      *)
(* calls and items and any limits: lemmas about one ledger, which the      *)
(* proofs about RunLedger, SessionJournal and DurableTurn share.           *)
(***************************************************************************)
EXTENDS SessionState, SequenceTheorems, FiniteSetTheorems, WellFoundedInduction, TLAPS

(***************************************************************************)
(* Induction over the natural numbers, stated for a set rather than for a  *)
(* predicate: to show P(n) for every n, apply it to {n \in Nat : P(n)}.    *)
(* It is used for what recursive functions over the positions of a         *)
(* sequence compute.                                                       *)
(***************************************************************************)
Less == OpToRel(<, Nat)

LEMMA LessWellFounded == IsWellFoundedOn(Less, Nat)
BY NatLessThanWellFounded, Zenon DEF Less

LEMMA LessContains == \A m, n \in Nat : m < n => <<m, n>> \in Less
BY Zenon DEF OpToRel, Less

\* A set of natural numbers that is not empty has a least element.
LEMMA LeastElement ==
  ASSUME NEW T, T \subseteq Nat, T # {}
  PROVE  \E n \in T : \A m \in T : n =< m
<1>1. PICK n \in T : \A m \in T : <<m, n>> \notin Less
  BY LessWellFounded, WFMin, Zenon
<1>2. ASSUME NEW m \in T
      PROVE  ~(m < n)
  BY <1>1, LessContains, Zenon
<1>3. ASSUME NEW m \in T
      PROVE  n =< m
  BY <1>2
<1>4. QED
  BY <1>3, Zenon

LEMMA SetInduction ==
  ASSUME NEW S, 0 \in S, \A n \in Nat : n \in S => n + 1 \in S
  PROVE  \A n \in Nat : n \in S
<1> DEFINE T == {n \in Nat : n \notin S}
<1> SUFFICES ASSUME T # {} PROVE FALSE
  OBVIOUS
<1>1. PICK n \in T : \A m \in T : n =< m
  <2>1. T \subseteq Nat
    OBVIOUS
  <2> HIDE DEF T
  <2>2. QED
    BY <2>1, LeastElement
<1>2. n \in Nat \ {0}
  OBVIOUS
<1>3. n - 1 \in Nat /\ n - 1 \notin T /\ (n - 1) + 1 = n
  BY <1>1, <1>2
<1>4. QED
  BY <1>3

(***************************************************************************)
(* Runs, intents and unknown executions                                    *)
(***************************************************************************)

\* The part of the type invariant the arguments need.
Shape(g) == /\ \A t \in Turns : g.run[t].status \in {"none", "active"} \cup Terminal
            /\ g.run = [t \in Turns |-> g.run[t]]
            /\ g.call = [c \in Calls |-> g.call[c]]
            /\ \A c \in Calls : /\ g.call[c].turn \in Turns \cup {None}
                                /\ g.call[c].intent \in BOOLEAN
                                /\ g.call[c].committed \in BOOLEAN
                                /\ g.call[c].outcome \in Reported \cup Synthetic \cup {None}
                                /\ g.unknown[c] \in {"none", "unresolved", "acknowledged"}

OneActive(g) == \A t, u \in ActiveTurns(g) : t = u

\* An unused call id has no result, and what finalize makes up is exactly
\* what is listed as unknown.
Accounted(g) ==
    \A c \in Calls :
        /\ g.call[c].turn = None =>
             g.call[c].outcome = None /\ ~g.call[c].intent /\ ~g.call[c].committed
        /\ g.unknown[c] # "none" <=> g.call[c].outcome = "unknown"
        /\ g.call[c].outcome = "unknown" => g.call[c].intent
        /\ g.call[c].outcome = "undispatched" => ~g.call[c].intent
        /\ g.call[c].turn # None /\ g.run[g.call[c].turn].status \in Terminal
              => g.call[c].outcome # None /\ g.call[c].committed

Resolved(g) == Active(g) => ~Unresolved(g)

Good(g) == Shape(g) /\ OneActive(g) /\ Accounted(g) /\ Resolved(g)

LEMMA EmptyGood == Good(EmptyLedger) /\ ~Active(EmptyLedger)
BY StateAssumption, NoneAssumption
   DEF Good, Shape, OneActive, Accounted, Resolved, Active, ActiveTurns, EmptyLedger, LedgerOf,
       NoRun, RunOf, NoCall, CallOf, Reported, Synthetic, Terminal

LEMMA BeginGood ==
  ASSUME NEW g, Good(g), NEW t \in Turns, NEW i, CanBegin(g, t, i)
  PROVE  Good(Begin(g, t, i)) /\ FactsStand(g, Begin(g, t, i))
<1> USE DEF Begin, LedgerOf, RunOf, CanBegin, Good, Terminal
<1>1. Shape(Begin(g, t, i))
  BY DEF Shape
<1>2. OneActive(Begin(g, t, i))
  BY DEF Shape, OneActive, Active, ActiveTurns
<1>3. Accounted(Begin(g, t, i)) /\ Resolved(Begin(g, t, i))
  BY DEF Shape, Accounted, Resolved, Unresolved, UnresolvedCalls
<1>4. FactsStand(g, Begin(g, t, i))
  BY DEF Shape, FactsStand
<1>5. QED
  BY <1>1, <1>2, <1>3, <1>4

\* How a mutation of turn t may change the record of a call from old to new.
Grows(old, new, t) ==
    /\ new.turn = t
    /\ new.intent \in BOOLEAN /\ new.committed \in BOOLEAN
    /\ new.outcome \in Reported \cup {None, old.outcome}
    /\ new.outcome = "undispatched" => ~new.intent
    /\ old.turn # None => new.turn = old.turn /\ new.step = old.step
    /\ old.turn = None => new.outcome = None
    /\ old.intent => new.intent
    /\ old.committed => new.committed
    /\ old.outcome # None => new.outcome = old.outcome

\* A mutation of an active run keeps the runs' statuses; the rest depends on
\* what it does to the calls.
LEMMA MutatedGood ==
  ASSUME NEW g, Good(g), NEW t \in Turns, g.run[t].status = "active",
         NEW h, NEW s, NEW f, f = [c \in Calls |-> f[c]],
         \A c \in Calls : f[c] = g.call[c] \/ Grows(g.call[c], f[c], t)
  PROVE  /\ Good(Mutated(g, t, h, s, f))
         /\ FactsStand(g, Mutated(g, t, h, s, f))
         /\ Active(g)
<1> DEFINE m == Mutated(g, t, h, s, f)
<1>1. /\ m.call = f /\ m.unknown = g.unknown
      /\ m.run = [g.run EXCEPT ![t] = RunOf(g.run[t].status, g.run[t].start, Len(h), s)]
  BY DEF Mutated, LedgerOf
<1>2. /\ \A u \in Turns : m.run[u].status = g.run[u].status
      /\ \A u \in Turns \ {t} : m.run[u] = g.run[u]
      /\ m.run = [u \in Turns |-> m.run[u]]
  BY <1>1 DEF Good, Shape, RunOf
<1> HIDE DEF m
<1> USE StateAssumption, NoneAssumption
<1>3. Shape(m)
  BY <1>1, <1>2 DEF Good, Shape, Grows
<1>4. OneActive(m) /\ Resolved(m) /\ Active(g)
  BY <1>1, <1>2 DEF Good, OneActive, Resolved, Active, ActiveTurns, Unresolved, UnresolvedCalls
<1>5. Accounted(m)
  BY <1>1, <1>2 DEF Good, Shape, Accounted, Grows, Reported, Synthetic, Terminal
<1>6. FactsStand(g, m)
  BY <1>1, <1>2 DEF Good, Shape, Accounted, FactsStand, Grows, Reported, Synthetic, Terminal
<1>7. QED
  BY <1>3, <1>4, <1>5, <1>6 DEF Good, m

LEMMA ModelGood ==
  ASSUME NEW g, Good(g), NEW t \in Turns, g.run[t].status = "active", NEW h, NEW s
  PROVE  /\ Good(Mutated(g, t, h, s, g.call))
         /\ FactsStand(g, Mutated(g, t, h, s, g.call))
         /\ Active(g)
BY MutatedGood DEF Good, Shape

LEMMA ModelCallGood ==
  ASSUME NEW g, Good(g), NEW t \in Turns, NEW c \in Calls, CanModelCall(g, t, c)
  PROVE  Good(ModelCall(g, t, c)) /\ FactsStand(g, ModelCall(g, t, c)) /\ Active(g)
<1> DEFINE f == [g.call EXCEPT ![c] = CallOf(t, Len(g.run[t].steps), FALSE, None, FALSE)]
<1>1. f = [d \in Calls |-> f[d]] /\ \A d \in Calls \ {c} : f[d] = g.call[d]
  BY DEF Good, Shape
<1>2. f[c] = CallOf(t, Len(g.run[t].steps), FALSE, None, FALSE)
  BY DEF Good, Shape
<1>3. /\ g.call[c].turn = None /\ g.call[c].outcome = None /\ g.run[t].status = "active"
      /\ ~g.call[c].intent /\ ~g.call[c].committed
  BY DEF CanModelCall, Good, Accounted
<1> HIDE DEF f
<1>4. Grows(g.call[c], f[c], t)
  BY <1>2, <1>3 DEF Grows, CallOf
<1>5. \A h, s : Good(Mutated(g, t, h, s, f)) /\ FactsStand(g, Mutated(g, t, h, s, f)) /\ Active(g)
  BY <1>1, <1>3, <1>4, MutatedGood
<1>6. QED
  BY <1>5 DEF ModelCall, f

LEMMA IntentGood ==
  ASSUME NEW g, Good(g), NEW t \in Turns, NEW c \in Calls, CanDispatchIntent(g, t, c)
  PROVE  Good(DispatchIntent(g, t, c)) /\ FactsStand(g, DispatchIntent(g, t, c)) /\ Active(g)
<1> DEFINE f == [g.call EXCEPT ![c] = CallOf(@.turn, @.step, TRUE, @.outcome, @.committed)]
<1>1. f = [d \in Calls |-> f[d]] /\ \A d \in Calls \ {c} : f[d] = g.call[d]
  BY DEF Good, Shape
<1>2. f[c] = CallOf(g.call[c].turn, g.call[c].step, TRUE, g.call[c].outcome, g.call[c].committed)
  BY DEF Good, Shape
<1>3. /\ g.call[c].turn = t /\ g.call[c].outcome = None /\ g.run[t].status = "active"
      /\ g.call[c].committed \in BOOLEAN
  BY DEF CanDispatchIntent, Good, Shape
<1> HIDE DEF f
<1>4. Grows(g.call[c], f[c], t)
  BY <1>2, <1>3, StateAssumption, NoneAssumption DEF Grows, CallOf, Synthetic
<1>5. \A h, s : Good(Mutated(g, t, h, s, f)) /\ FactsStand(g, Mutated(g, t, h, s, f)) /\ Active(g)
  BY <1>1, <1>3, <1>4, MutatedGood
<1>6. QED
  BY <1>5 DEF DispatchIntent, f

LEMMA OutcomeGood ==
  ASSUME NEW g, Good(g), NEW t \in Turns, NEW c \in Calls, NEW r \in Reported,
         CanToolOutcome(g, t, c, r)
  PROVE  Good(ToolOutcome(g, t, c, r)) /\ FactsStand(g, ToolOutcome(g, t, c, r)) /\ Active(g)
<1> DEFINE f == [g.call EXCEPT ![c] = CallOf(@.turn, @.step, @.intent, r, @.committed)]
<1>1. f = [d \in Calls |-> f[d]] /\ \A d \in Calls \ {c} : f[d] = g.call[d]
  BY DEF Good, Shape
<1>2. f[c] = CallOf(g.call[c].turn, g.call[c].step, g.call[c].intent, r, g.call[c].committed)
  BY DEF Good, Shape
<1>3. /\ g.call[c].turn = t /\ g.call[c].outcome \in {None, r} /\ g.run[t].status = "active"
      /\ g.call[c].committed \in BOOLEAN /\ g.call[c].intent \in BOOLEAN
      /\ r # "undispatched" /\ t # None
  BY StateAssumption DEF CanToolOutcome, Good, Shape, Reported
<1> HIDE DEF f
<1>4. Grows(g.call[c], f[c], t)
  BY <1>2, <1>3 DEF Grows, CallOf
<1>5. \A h, s : Good(Mutated(g, t, h, s, f)) /\ FactsStand(g, Mutated(g, t, h, s, f)) /\ Active(g)
  BY <1>1, <1>3, <1>4, MutatedGood
<1>6. QED
  BY <1>5 DEF ToolOutcome, f

LEMMA BatchGood ==
  ASSUME NEW g, Good(g), NEW t \in Turns, CanToolBatch(g, t)
  PROVE  Good(ToolBatch(g, t)) /\ FactsStand(g, ToolBatch(g, t)) /\ Active(g)
<1> DEFINE f == [c \in Calls |-> IF c \in Uncommitted(g, t) THEN Answered(g.call[c])
                                 ELSE g.call[c]]
<1>1. f = [c \in Calls |-> f[c]] /\ g.run[t].status = "active"
  BY DEF CanToolBatch
<1>2. ASSUME NEW c \in Calls, c \in Uncommitted(g, t)
      PROVE  Grows(g.call[c], f[c], t)
  <2>1. f[c] = CallOf(g.call[c].turn, g.call[c].step, g.call[c].intent, g.call[c].outcome, TRUE)
    BY <1>2 DEF Answered
  <2>2. /\ g.call[c].turn = t /\ g.call[c].intent \in BOOLEAN /\ t # None
        /\ g.call[c].outcome = "undispatched" => ~g.call[c].intent
    BY <1>2, StateAssumption DEF Uncommitted, Good, Shape, Accounted
  <2>3. /\ f[c].turn = t /\ f[c].step = g.call[c].step /\ f[c].intent = g.call[c].intent
        /\ f[c].outcome = g.call[c].outcome /\ f[c].committed = TRUE
    BY <2>1, <2>2 DEF CallOf
  <2> HIDE DEF f
  <2>4. QED
    BY <2>2, <2>3 DEF Grows
<1>3. \A c \in Calls : c \notin Uncommitted(g, t) => f[c] = g.call[c]
  OBVIOUS
<1> HIDE DEF f
<1>4. \A h, s : Good(Mutated(g, t, h, s, f)) /\ FactsStand(g, Mutated(g, t, h, s, f)) /\ Active(g)
  BY <1>1, <1>2, <1>3, MutatedGood
<1>5. QED
  BY <1>4 DEF ToolBatch, f

\* Finalizing the active run answers all its calls, lists the dispatched ones
\* without a result, and leaves no run active.
LEMMA FinalizeGood ==
  ASSUME NEW g, Good(g), NEW t \in Turns, g.run[t].status = "active", NEW status \in Terminal
  PROVE  /\ Good(Finalize(g, t, status))
         /\ FactsStand(g, Finalize(g, t, status))
         /\ ~Active(Finalize(g, t, status)) /\ Active(g)
<1> DEFINE m == Finalize(g, t, status)
           open(c) == g.call[c].turn = t /\ g.call[c].outcome = None
<1> USE StateAssumption, NoneAssumption
<1>1. /\ m.call = [c \in Calls |-> IF g.call[c].turn = t THEN Closed(g.call[c]) ELSE g.call[c]]
      /\ m.unknown = [c \in Calls |-> IF c \in Unanswered(g, t) /\ g.call[c].intent
                                      THEN "unresolved" ELSE g.unknown[c]]
  BY DEF Finalize, LedgerOf
<1>2. /\ m.run[t].status \in Terminal
      /\ \A u \in Turns \ {t} : m.run[u] = g.run[u]
      /\ m.run = [u \in Turns |-> m.run[u]]
  BY DEF Finalize, LedgerOf, RunOf, Good, Shape, Terminal
<1> HIDE DEF m
<1>3. ASSUME NEW c \in Calls
      PROVE  /\ m.call[c].turn = g.call[c].turn
             /\ g.call[c].turn # t => m.call[c] = g.call[c]
             /\ g.call[c].turn = t =>
                  /\ m.call[c].step = g.call[c].step /\ m.call[c].intent = g.call[c].intent
                  /\ m.call[c].committed = TRUE
                  /\ g.call[c].outcome # None => m.call[c].outcome = g.call[c].outcome
                  /\ g.call[c].outcome = None =>
                       m.call[c].outcome = IF g.call[c].intent THEN "unknown" ELSE "undispatched"
  BY <1>1 DEF Closed, CallOf
<1>4. ASSUME NEW c \in Calls
      PROVE  m.unknown[c] = IF open(c) /\ g.call[c].intent THEN "unresolved" ELSE g.unknown[c]
  BY <1>1 DEF Unanswered
<1>5. m.call = [c \in Calls |-> m.call[c]]
  BY <1>1
<1>6. Active(g) /\ ~Active(m)
  BY <1>2 DEF Good, OneActive, Active, ActiveTurns, Terminal
<1>7. Shape(m)
  BY <1>2, <1>3, <1>4, <1>5 DEF Good, Shape, Synthetic
<1>8. Accounted(m)
  <2> SUFFICES ASSUME NEW c \in Calls
               PROVE  /\ m.call[c].turn = None =>
                           m.call[c].outcome = None /\ ~m.call[c].intent /\ ~m.call[c].committed
                      /\ m.unknown[c] # "none" <=> m.call[c].outcome = "unknown"
                      /\ m.call[c].outcome = "unknown" => m.call[c].intent
                      /\ m.call[c].outcome = "undispatched" => ~m.call[c].intent
                      /\ m.call[c].turn # None /\ m.run[m.call[c].turn].status \in Terminal
                           => m.call[c].outcome # None /\ m.call[c].committed
    BY DEF Accounted
  <2>1. /\ Shape(g)
        /\ g.call[c].turn = None =>
             g.call[c].outcome = None /\ ~g.call[c].intent /\ ~g.call[c].committed
        /\ g.unknown[c] # "none" <=> g.call[c].outcome = "unknown"
        /\ g.call[c].outcome = "unknown" => g.call[c].intent
        /\ g.call[c].outcome = "undispatched" => ~g.call[c].intent
        /\ g.call[c].turn # None /\ g.run[g.call[c].turn].status \in Terminal
             => g.call[c].outcome # None /\ g.call[c].committed
    BY DEF Good, Accounted
  <2>2. CASE g.call[c].turn # t
    <3>1. m.call[c] = g.call[c] /\ m.unknown[c] = g.unknown[c]
      BY <1>3, <1>4, <2>2
    <3>2. g.call[c].turn # None => m.run[g.call[c].turn] = g.run[g.call[c].turn]
      BY <1>2, <2>1, <2>2 DEF Shape
    <3>3. QED
      BY <2>1, <3>1, <3>2
  <2>3. CASE g.call[c].turn = t
    <3>1. CASE g.call[c].outcome # None
      <4>1. /\ m.call[c].outcome = g.call[c].outcome /\ m.unknown[c] = g.unknown[c]
            /\ m.call[c].intent = g.call[c].intent /\ m.call[c].committed = TRUE
            /\ m.call[c].turn = t /\ t # None
        BY <1>3, <1>4, <2>3, <3>1
      <4>2. QED
        BY <2>1, <3>1, <4>1
    <3>2. CASE g.call[c].outcome = None
      <4>1. /\ m.call[c].outcome = IF g.call[c].intent THEN "unknown" ELSE "undispatched"
            /\ m.unknown[c] = IF g.call[c].intent THEN "unresolved" ELSE g.unknown[c]
            /\ m.call[c].intent = g.call[c].intent /\ m.call[c].committed = TRUE
            /\ m.call[c].turn = t /\ t # None
        BY <1>3, <1>4, <2>3, <3>2
      <4>2. "unknown" # None /\ "undispatched" # None
        BY DEF Synthetic
      <4>3. QED
        BY <2>1, <3>2, <4>1, <4>2
    <3>3. QED
      BY <3>1, <3>2
  <2>4. QED
    BY <2>2, <2>3
<1>9. OneActive(m) /\ Resolved(m)
  BY <1>6 DEF OneActive, Resolved, Active
<1>10. FactsStand(g, m)
  <2>1. \A u \in Turns : g.run[u].status \in Terminal => m.run[u] = g.run[u]
    BY <1>2 DEF Terminal
  <2>2. ASSUME NEW c \in Calls
        PROVE  \/ m.unknown[c] = g.unknown[c]
               \/ g.unknown[c] = "none" /\ m.unknown[c] = "unresolved"
    BY <1>4, NoneAssumption DEF Good, Shape, Accounted, Synthetic
  <2>3. ASSUME NEW c \in Calls
        PROVE  /\ g.call[c].turn # None => /\ m.call[c].turn = g.call[c].turn
                                           /\ m.call[c].step = g.call[c].step
               /\ g.call[c].intent => m.call[c].intent
               /\ g.call[c].outcome # None => m.call[c].outcome = g.call[c].outcome
               /\ g.call[c].committed => m.call[c].committed
    BY <1>3
  <2>4. QED
    BY <2>1, <2>2, <2>3 DEF FactsStand
<1>11. QED
  BY <1>6, <1>7, <1>8, <1>9, <1>10 DEF Good, m

LEMMA RecoverGood ==
  ASSUME NEW g, Good(g)
  PROVE  Good(Recover(g)) /\ FactsStand(g, Recover(g)) /\ ~Active(Recover(g))
<1>1. CASE Active(g)
  <2>1. PICK t \in Turns : g.run[t].status = "active" /\ Recover(g) = Finalize(g, t, "failed")
    BY <1>1 DEF Recover, Active, ActiveTurns
  <2>2. QED
    BY <2>1, FinalizeGood DEF Terminal
<1>2. CASE ~Active(g)
  BY <1>2 DEF Recover, FactsStand
<1>3. QED
  BY <1>1, <1>2

LEMMA AcknowledgeGood ==
  ASSUME NEW g, Good(g), CanAcknowledge(g)
  PROVE  Good(Acknowledge(g)) /\ FactsStand(g, Acknowledge(g)) /\ ~Active(Acknowledge(g))
<1> USE DEF Acknowledge, LedgerOf, CanAcknowledge, Good
<1>1. Shape(Acknowledge(g)) /\ Accounted(Acknowledge(g))
  BY DEF Shape, Accounted
<1>2. ~Active(Acknowledge(g))
  BY DEF Active, ActiveTurns
<1>3. OneActive(Acknowledge(g)) /\ Resolved(Acknowledge(g))
  BY <1>2 DEF OneActive, Resolved, Active
<1>4. FactsStand(g, Acknowledge(g))
  BY DEF FactsStand, Shape
<1>5. QED
  BY <1>1, <1>2, <1>3, <1>4

(***************************************************************************)
(* The recursive functions: UsageSum and ResultItems                       *)
(***************************************************************************)

\* f sums the usages of the first n of the steps s.
IsSum(f, s, n) == f = [k \in 0..n |-> IF k = 0 THEN 0 ELSE f[k - 1] + s[k].usage]

LEMMA SumExists ==
  ASSUME NEW s, NEW n \in Nat
  PROVE  \E f : IsSum(f, s, n)
<1> DEFINE S == {m \in Nat : \E f : IsSum(f, s, m)}
<1>1. 0 \in S
  <2>1. IsSum([k \in 0..0 |-> 0], s, 0)
    BY DEF IsSum
  <2>2. QED
    BY <2>1
<1>2. ASSUME NEW m \in Nat, m \in S
      PROVE  m + 1 \in S
  <2>1. PICK f : IsSum(f, s, m)
    BY <1>2
  <2> DEFINE e == [k \in 0..(m + 1) |-> IF k = m + 1 THEN f[m] + s[k].usage ELSE f[k]]
  <2>2. ASSUME NEW k \in 0..(m + 1)
        PROVE  e[k] = IF k = 0 THEN 0 ELSE e[k - 1] + s[k].usage
    BY <2>1 DEF IsSum
  <2>3. IsSum(e, s, m + 1)
    BY <2>2 DEF IsSum
  <2>4. QED
    BY <2>3
<1> HIDE DEF S
<1>3. n \in S
  BY <1>1, <1>2, SetInduction
<1>4. QED
  BY <1>3 DEF S

LEMMA UsageSumIsSum ==
  ASSUME NEW s, Len(s) \in Nat
  PROVE  \E f : IsSum(f, s, Len(s)) /\ UsageSum(s) = f[Len(s)]
BY SumExists DEF IsSum, UsageSum

\* The first j steps of s and u have the same usages.
SameUsage(s, u, j) == \A k \in 1..j : s[k].usage \in Nat /\ u[k].usage = s[k].usage

\* Sums of natural numbers are natural numbers, and depend only on what they sum.
LEMMA SumsAgree ==
  ASSUME NEW s, NEW u, NEW n \in Nat, NEW m \in Nat, NEW f, NEW e,
         IsSum(f, s, n), IsSum(e, u, m), NEW j \in Nat, j =< n, j =< m,
         SameUsage(s, u, j)
  PROVE  f[j] \in Nat /\ e[j] = f[j]
<1> DEFINE S == {k \in Nat : k =< j => f[k] \in Nat /\ e[k] = f[k]}
<1>1. 0 \in S
  BY DEF IsSum
<1>2. ASSUME NEW k \in Nat, k \in S
      PROVE  k + 1 \in S
  <2> SUFFICES ASSUME k + 1 =< j
               PROVE  f[k + 1] \in Nat /\ e[k + 1] = f[k + 1]
    OBVIOUS
  <2>1. f[k] \in Nat /\ e[k] = f[k] /\ s[k + 1].usage \in Nat /\ u[k + 1].usage = s[k + 1].usage
    BY <1>2 DEF SameUsage
  <2>2. f[k + 1] = f[k] + s[k + 1].usage /\ e[k + 1] = e[k] + u[k + 1].usage
    BY DEF IsSum
  <2>3. QED
    BY <2>1, <2>2
<1> HIDE DEF S
<1>3. j \in S
  BY <1>1, <1>2, SetInduction
<1>4. QED
  BY <1>3 DEF S

LEMMA UsageSumEmpty == UsageSum(<<>>) = 0
BY UsageSumIsSum DEF IsSum

LEMMA UsageNatural ==
  ASSUME NEW s \in Seq(Step)
  PROVE  Len(s) \in Nat /\ \A k \in 1..Len(s) : s[k].usage \in Nat
<1>1. Len(s) \in Nat /\ \A k \in 1..Len(s) : s[k] \in Step
  BY ElementOfSeq, LenProperties
<1>2. QED
  BY <1>1 DEF Step

\* A step that is opened adds nothing to the sum.
LEMMA UsageSumAppend ==
  ASSUME NEW s \in Seq(Step), NEW x \in Step, x.usage = 0
  PROVE  UsageSum(Append(s, x)) = UsageSum(s) /\ UsageSum(s) \in Nat
<1> DEFINE n == Len(s)
           a == Append(s, x)
<1>1. n \in Nat /\ \A k \in 1..n : s[k].usage \in Nat
  BY UsageNatural
<1>2. Len(a) = n + 1 /\ a[n + 1] = x /\ \A k \in 1..n : a[k] = s[k]
  BY AppendProperties
<1> HIDE DEF a, n
<1>3. PICK f : IsSum(f, s, n) /\ UsageSum(s) = f[n]
  BY <1>1, UsageSumIsSum DEF n
<1>4. PICK e : IsSum(e, a, n + 1) /\ UsageSum(a) = e[n + 1]
  <2>1. Len(a) \in Nat
    BY <1>1, <1>2
  <2>2. QED
    BY <1>2, <2>1, UsageSumIsSum
<1>5. f[n] \in Nat /\ e[n] = f[n]
  <2>1. n + 1 \in Nat /\ n =< n /\ n =< n + 1
    BY <1>1
  <2>2. SameUsage(s, a, n)
    BY <1>1, <1>2 DEF SameUsage
  <2>3. QED
    BY <1>1, <1>3, <1>4, <2>1, <2>2, SumsAgree
<1>6. e[n + 1] = e[n] + x.usage
  BY <1>1, <1>2, <1>4 DEF IsSum
<1>7. QED
  BY <1>3, <1>4, <1>5, <1>6 DEF a

\* The usage of the last step, so far 0, is added when it is finished.
LEMMA UsageSumFinish ==
  ASSUME NEW s \in Seq(Step), s # <<>>, s[Len(s)].usage = 0, NEW x \in Step
  PROVE  /\ UsageSum([s EXCEPT ![Len(s)] = x]) = UsageSum(s) + x.usage
         /\ UsageSum(s) \in Nat
<1> DEFINE n == Len(s)
           a == [s EXCEPT ![n] = x]
<1>1. n \in Nat /\ n # 0 /\ n \in 1..n /\ \A k \in 1..n : s[k].usage \in Nat
  BY UsageNatural, EmptySeq, LenProperties
<1>2. Len(a) = n /\ a[n] = x /\ \A k \in 1..(n - 1) : a[k] = s[k]
  BY <1>1, ExceptSeq
<1>3. x.usage \in Nat /\ s[n].usage = 0
  BY DEF Step
<1> HIDE DEF a, n
<1>4. PICK f : IsSum(f, s, n) /\ UsageSum(s) = f[n]
  BY <1>1, UsageSumIsSum DEF n
<1>5. PICK e : IsSum(e, a, n) /\ UsageSum(a) = e[n]
  BY <1>1, <1>2, UsageSumIsSum
<1>6. f[n - 1] \in Nat /\ e[n - 1] = f[n - 1]
  <2>1. n - 1 \in Nat /\ n - 1 =< n
    BY <1>1
  <2>2. SameUsage(s, a, n - 1)
    BY <1>1, <1>2 DEF SameUsage
  <2>3. QED
    BY <1>1, <1>4, <1>5, <2>1, <2>2, SumsAgree
<1>7. f[n] = f[n - 1] + s[n].usage /\ e[n] = e[n - 1] + a[n].usage
  BY <1>1, <1>4, <1>5 DEF IsSum
<1>8. UsageSum(a) = UsageSum(s) + x.usage /\ UsageSum(s) \in Nat
  BY <1>2, <1>3, <1>4, <1>5, <1>6, <1>7
<1>9. QED
  BY <1>8 DEF a, n

CallItem(c)   == [kind |-> "call", id |-> c]
ResultItem(c) == [kind |-> "result", id |-> c]

\* f[k] answers the calls of U among the first k items of the history h.
IsAnswers(f, h, U, n) ==
    f = [k \in 0..n |-> IF k = 0 THEN <<>>
                        ELSE IF h[k].kind = "call" /\ h[k].id \in U
                        THEN Append(f[k - 1], ResultItem(h[k].id))
                        ELSE f[k - 1]]

LEMMA AnswersExist ==
  ASSUME NEW h, NEW U, NEW n \in Nat
  PROVE  \E f : IsAnswers(f, h, U, n)
<1> DEFINE S == {m \in Nat : \E f : IsAnswers(f, h, U, m)}
<1>1. 0 \in S
  <2>1. IsAnswers([k \in 0..0 |-> <<>>], h, U, 0)
    BY DEF IsAnswers
  <2>2. QED
    BY <2>1
<1>2. ASSUME NEW m \in Nat, m \in S
      PROVE  m + 1 \in S
  <2>1. PICK f : IsAnswers(f, h, U, m)
    BY <1>2
  <2> DEFINE x == IF h[m + 1].kind = "call" /\ h[m + 1].id \in U
                  THEN Append(f[m], ResultItem(h[m + 1].id)) ELSE f[m]
             e == [k \in 0..(m + 1) |-> IF k = m + 1 THEN x ELSE f[k]]
  <2>2. ASSUME NEW k \in 0..(m + 1)
        PROVE  e[k] = IF k = 0 THEN <<>>
                      ELSE IF h[k].kind = "call" /\ h[k].id \in U
                      THEN Append(e[k - 1], ResultItem(h[k].id))
                      ELSE e[k - 1]
    <3>1. CASE k = m + 1
      <4>1. e[k] = x /\ e[k - 1] = f[m] /\ k # 0
        BY <3>1
      <4>2. QED
        BY <3>1, <4>1
    <3>2. CASE k \in 0..m
      <4>1. e[k] = f[k] /\ (k # 0 => e[k - 1] = f[k - 1])
        BY <3>2
      <4> HIDE DEF e
      <4>2. QED
        BY <2>1, <3>2, <4>1 DEF IsAnswers
    <3>3. QED
      BY <3>1, <3>2
  <2>3. IsAnswers(e, h, U, m + 1)
    BY <2>2 DEF IsAnswers
  <2>4. QED
    BY <2>3
<1> HIDE DEF S
<1>3. n \in S
  BY <1>1, <1>2, SetInduction
<1>4. QED
  BY <1>3 DEF S

LEMMA ResultItemsAnswer ==
  ASSUME NEW g, NEW t, Len(g.history) \in Nat
  PROVE  \E f : /\ IsAnswers(f, g.history, Uncommitted(g, t), Len(g.history))
                /\ ResultItems(g, t) = f[Len(g.history)]
<1> DEFINE F == CHOOSE f : IsAnswers(f, g.history, Uncommitted(g, t), Len(g.history))
<1>1. ResultItems(g, t) = F[Len(g.history)]
  BY Zenon DEF ResultItems, IsAnswers, ResultItem
<1>2. IsAnswers(F, g.history, Uncommitted(g, t), Len(g.history))
  BY AnswersExist, Zenon
<1>3. QED
  BY <1>1, <1>2

\* A call is made once.
CallsDistinct(h) ==
    \A k, l \in 1..Len(h) : h[k] = h[l] /\ h[k].kind = "call" => k = l

\* r answers every call of U among the first n items of h, and each once.
Answering(r, h, U, n) ==
    /\ r \in Seq([kind: {"result"}, id: U])
    /\ \A k \in 1..n : h[k].kind = "call" /\ h[k].id \in U =>
         \E j \in 1..Len(r) : r[j] = ResultItem(h[k].id)
    /\ \A j \in 1..Len(r) : \E k \in 1..n : h[k] = CallItem(r[j].id)
    /\ \A i, j \in 1..Len(r) : r[i] = r[j] => i = j

LEMMA AnsweringStep ==
  ASSUME NEW h \in Seq(Item), CallsDistinct(h), NEW U, NEW n \in Nat, n < Len(h), NEW r,
         Answering(r, h, U, n), h[n + 1].kind = "call", h[n + 1].id \in U
  PROVE  Answering(Append(r, ResultItem(h[n + 1].id)), h, U, n + 1)
<1> DEFINE x == ResultItem(h[n + 1].id)
           R == [kind: {"result"}, id: U]
           q == Append(r, x)
<1>1. x \in R /\ x.id = h[n + 1].id /\ x.kind = "result"
  BY DEF ResultItem
<1>2. r \in Seq(R) /\ Len(r) \in Nat
  BY DEF Answering
<1>3. /\ q \in Seq(R) /\ Len(q) = Len(r) + 1 /\ q[Len(r) + 1] = x
      /\ \A j \in 1..Len(r) : q[j] = r[j]
  BY <1>1, <1>2, AppendProperties
<1>4. h[n + 1] = CallItem(x.id) /\ n + 1 \in 1..Len(h)
  <2>1. n + 1 \in 1..Len(h) /\ h[n + 1] \in Item
    BY ElementOfSeq, LenProperties
  <2>2. QED
    BY <1>1, <2>1 DEF Item, CallItem
<1>5. \A j \in 1..Len(r) : r[j] # x
  <2> SUFFICES ASSUME NEW j \in 1..Len(r), r[j] = x
               PROVE  FALSE
    OBVIOUS
  <2>1. PICK k \in 1..n : h[k] = CallItem(x.id)
    BY DEF Answering
  <2>2. k \in 1..Len(h) /\ h[k] = h[n + 1] /\ h[k].kind = "call" /\ k # n + 1
    BY <1>4, <2>1, LenProperties DEF CallItem
  <2>3. QED
    BY <1>4, <2>2 DEF CallsDistinct
<1> HIDE DEF x, q
<1>6. ASSUME NEW k \in 1..(n + 1), h[k].kind = "call", h[k].id \in U
      PROVE  \E j \in 1..Len(q) : q[j] = ResultItem(h[k].id)
  <2>1. CASE k = n + 1
    BY <1>2, <1>3, <2>1 DEF x
  <2>2. CASE k \in 1..n
    <3>1. PICK j \in 1..Len(r) : r[j] = ResultItem(h[k].id)
      BY <1>6, <2>2 DEF Answering
    <3>2. QED
      BY <1>2, <1>3, <3>1
  <2>3. QED
    BY <2>1, <2>2
<1>7. ASSUME NEW j \in 1..Len(q)
      PROVE  \E k \in 1..(n + 1) : h[k] = CallItem(q[j].id)
  <2>1. CASE j = Len(r) + 1
    BY <1>3, <1>4, <2>1
  <2>2. CASE j \in 1..Len(r)
    <3>1. PICK k \in 1..n : h[k] = CallItem(r[j].id)
      BY <2>2 DEF Answering
    <3>2. q[j] = r[j] /\ k \in 1..(n + 1)
      BY <1>3, <2>2
    <3>3. QED
      BY <3>1, <3>2
  <2>3. QED
    BY <1>2, <1>3, <2>1, <2>2
<1>8. ASSUME NEW i \in 1..Len(q), NEW j \in 1..Len(q), q[i] = q[j]
      PROVE  i = j
  <2>1. CASE i \in 1..Len(r) /\ j \in 1..Len(r)
    BY <1>3, <1>8, <2>1 DEF Answering
  <2>2. CASE i = Len(r) + 1 \/ j = Len(r) + 1
    BY <1>2, <1>3, <1>5, <1>8, <2>2
  <2>3. QED
    BY <1>2, <1>3, <2>1, <2>2
<1>9. QED
  BY <1>3, <1>6, <1>7, <1>8 DEF Answering, q, x

LEMMA AnswersAnswer ==
  ASSUME NEW h \in Seq(Item), CallsDistinct(h), NEW U, NEW f, IsAnswers(f, h, U, Len(h))
  PROVE  Answering(f[Len(h)], h, U, Len(h))
<1> DEFINE S == {k \in Nat : k =< Len(h) => Answering(f[k], h, U, k)}
<1>0. Len(h) \in Nat
  BY LenProperties
<1>1. 0 \in S
  <2>1. f[0] = <<>>
    BY <1>0 DEF IsAnswers
  <2>2. Answering(<<>>, h, U, 0)
    BY DEF Answering
  <2>3. QED
    BY <2>1, <2>2
<1>2. ASSUME NEW k \in Nat, k \in S
      PROVE  k + 1 \in S
  <2> SUFFICES ASSUME k + 1 =< Len(h)
               PROVE  Answering(f[k + 1], h, U, k + 1)
    OBVIOUS
  <2>1. Answering(f[k], h, U, k) /\ k < Len(h)
    BY <1>0, <1>2
  <2>2. f[k + 1] = IF h[k + 1].kind = "call" /\ h[k + 1].id \in U
                   THEN Append(f[k], ResultItem(h[k + 1].id)) ELSE f[k]
    <3>1. k + 1 \in 0..Len(h) /\ k + 1 # 0 /\ (k + 1) - 1 = k
      BY <1>0
    <3>2. QED
      BY <3>1 DEF IsAnswers
  <2>3. CASE h[k + 1].kind = "call" /\ h[k + 1].id \in U
    BY <2>1, <2>2, <2>3, AnsweringStep
  <2>4. CASE ~(h[k + 1].kind = "call" /\ h[k + 1].id \in U)
    BY <2>1, <2>2, <2>4 DEF Answering
  <2>5. QED
    BY <2>3, <2>4
<1> HIDE DEF S
<1>3. Len(h) \in S
  BY <1>0, <1>1, <1>2, SetInduction
<1>4. QED
  BY <1>0, <1>3 DEF S

\* The results that end a batch or a run: one for every uncommitted call of the
\* turn that the history holds, and no other.
LEMMA ResultItemsAnswering ==
  ASSUME NEW g, g.history \in Seq(Item), CallsDistinct(g.history), NEW t
  PROVE  Answering(ResultItems(g, t), g.history, Uncommitted(g, t), Len(g.history))
<1>1. Len(g.history) \in Nat
  BY LenProperties
<1>2. PICK f : /\ IsAnswers(f, g.history, Uncommitted(g, t), Len(g.history))
               /\ ResultItems(g, t) = f[Len(g.history)]
  BY <1>1, ResultItemsAnswer
<1>3. QED
  BY <1>2, AnswersAnswer

(***************************************************************************)
(* The stored record: transcript, segments and usage                       *)
(***************************************************************************)
LedgerType == [history: Seq(Item), run: [Turns -> Run], call: [Calls -> Call],
               unknown: [Calls -> {"none", "unresolved", "acknowledged"}]]

Has(h, item) == \E k \in 1..Len(h) : h[k] = item

\* No id is used twice, calls and results are in the history exactly when the
\* record of the call says so, and in this order, and a call that waits for its
\* result is of the active run's last step.
IdsDistinct(h) == \A k, l \in 1..Len(h) : k # l => ~SameId(h[k], h[l])
CallsMade(g) == \A c \in Calls : g.call[c].turn # None <=> Has(g.history, CallItem(c))
CallsAnswered(g) == \A c \in Calls : g.call[c].committed <=> Has(g.history, ResultItem(c))
AnsweredAfter(g) == \A c \in Calls : \A k, l \in 1..Len(g.history) :
    g.history[k] = CallItem(c) /\ g.history[l] = ResultItem(c) => k < l
CommittedHasOutcome(g) == \A c \in Calls : g.call[c].committed => g.call[c].outcome # None
OpenIsCurrent(g) == \A c \in Calls : g.call[c].turn # None /\ ~g.call[c].committed =>
    /\ g.run[g.call[c].turn].status = "active"
    /\ g.call[c].step = Len(g.run[g.call[c].turn].steps)
StepsKnown(g) == \A c \in Calls : g.call[c].turn # None =>
    g.call[c].step \in 1..Len(g.run[g.call[c].turn].steps)

Paired(g) == /\ IdsDistinct(g.history) /\ CallsMade(g) /\ CallsAnswered(g) /\ AnsweredAfter(g)
             /\ CommittedHasOutcome(g) /\ OpenIsCurrent(g) /\ StepsKnown(g)

\* The runs share out the history; the active one has its end.
Within(g, t, k) == g.run[t].start < k /\ k =< g.run[t].stop
Tiled(g) ==
    /\ \A t \in Accepted(g) : g.run[t].start =< g.run[t].stop /\ g.run[t].stop =< Len(g.history)
    /\ \A t \in ActiveTurns(g) : g.run[t].stop = Len(g.history)
    /\ \A k \in 1..Len(g.history) : \E t \in Accepted(g) : Within(g, t, k)
    /\ \A t, u \in Accepted(g), k \in 1..Len(g.history) : Within(g, t, k) /\ Within(g, u, k) => t = u

\* A step without its usage counts as 0, an unused turn has no steps, and the
\* active run's sum fits.
StepsCount(s) == \A k \in 1..Len(s) : ~s[k].completed => s[k].usage = 0
Summed(g) == \A t \in Turns : /\ StepsCount(g.run[t].steps)
                              /\ g.run[t].status = "none" => g.run[t].steps = <<>>
                              /\ g.run[t].status = "active" => UsageSum(g.run[t].steps) =< MaxUsage

Sound(g) == g \in LedgerType /\ Paired(g) /\ Tiled(g) /\ Summed(g)

\* m is the ledger g after a command of turn t: it has the history h, the calls f
\* and the unknown executions u, and the turn, now with the steps s, starts where
\* it did and ends with the history.
Rewrites(g, m, t, status, h, s, f, u) ==
    /\ m = LedgerOf(h, m.run, f, u)
    /\ m.run = [v \in Turns |-> m.run[v]]
    /\ m.run[t] = RunOf(status, g.run[t].start, Len(h), s)
    /\ \A v \in Turns \ {t} : m.run[v] = g.run[v]

\* The history h2 begins with h.
Begins(h, h2) == /\ h \in Seq(Item) /\ h2 \in Seq(Item) /\ Len(h) =< Len(h2)
                 /\ \A k \in 1..Len(h) : h2[k] = h[k]

\* The items from n + 1 on are new, and make and answer the calls that f says.
HasNew(h, n, item) == \E k \in (n + 1)..Len(h) : h[k] = item
Grown(g, h, f) ==
    LET n == Len(g.history) IN
    /\ \A k \in (n + 1)..Len(h), l \in 1..Len(h) : l < k => ~SameId(h[l], h[k])
    /\ \A c \in Calls :
         /\ f[c].turn # None <=> g.call[c].turn # None \/ HasNew(h, n, CallItem(c))
         /\ f[c].committed <=> g.call[c].committed \/ HasNew(h, n, ResultItem(c))
         /\ HasNew(h, n, CallItem(c)) => g.call[c].turn = None
         /\ HasNew(h, n, ResultItem(c)) => g.call[c].turn # None

LEMMA RewrittenFields ==
  ASSUME NEW g, NEW m, NEW t, NEW status, NEW h, NEW s, NEW f, NEW u,
         Rewrites(g, m, t, status, h, s, f, u)
  PROVE  /\ m.history = h /\ m.call = f /\ m.unknown = u
         /\ m.run[t].status = status /\ m.run[t].start = g.run[t].start
         /\ m.run[t].stop = Len(h) /\ m.run[t].steps = s
BY DEF Rewrites, LedgerOf, RunOf

LEMMA RewrittenTyped ==
  ASSUME NEW g, g \in LedgerType, NEW m, NEW t \in Turns,
         NEW status \in {"active"} \cup Terminal,
         NEW h \in Seq(Item), NEW s \in Seq(Step), NEW f \in [Calls -> Call],
         NEW u \in [Calls -> {"none", "unresolved", "acknowledged"}],
         Rewrites(g, m, t, status, h, s, f, u)
  PROVE  m \in LedgerType
<1>1. \A v \in Turns : g.run[v] \in Run
  BY DEF LedgerType
<1>2. RunOf(status, g.run[t].start, Len(h), s) \in Run
  BY <1>1, LenProperties DEF Run, RunOf
<1>3. m.run \in [Turns -> Run]
  BY <1>1, <1>2 DEF Rewrites
<1>4. QED
  BY <1>3 DEF Rewrites, LedgerOf, LedgerType

LEMMA RewrittenTiled ==
  ASSUME NEW g, g \in LedgerType, Tiled(g), OneActive(g), NEW m, NEW t \in Turns,
         g.run[t].status = "active", NEW status \in {"active"} \cup Terminal,
         NEW h, Begins(g.history, h), NEW s, NEW f, NEW u,
         Rewrites(g, m, t, status, h, s, f, u)
  PROVE  Tiled(m)
<1>1. /\ m.history = h /\ m.run[t].status = status /\ m.run[t].start = g.run[t].start
      /\ m.run[t].stop = Len(h)
      /\ \A v \in Turns \ {t} : m.run[v] = g.run[v]
  BY DEF Rewrites, LedgerOf, RunOf
<1>2. Len(h) \in Nat /\ Len(g.history) \in Nat /\ Len(g.history) =< Len(h)
  BY LenProperties DEF Begins
<1>3. \A v \in Turns : g.run[v].start \in Nat /\ g.run[v].stop \in Nat
  BY DEF LedgerType, Run
<1>4. Accepted(m) = Accepted(g) /\ t \in Accepted(g) /\ t \in ActiveTurns(g)
  BY <1>1 DEF Accepted, ActiveTurns, Terminal
<1>5. \A v \in Accepted(m) : m.run[v].start =< m.run[v].stop /\ m.run[v].stop =< Len(h)
  BY <1>1, <1>2, <1>3, <1>4 DEF Tiled, Accepted
<1>6. \A v \in ActiveTurns(m) : m.run[v].stop = Len(h)
  BY <1>1, <1>4 DEF ActiveTurns, OneActive
<1>7. ASSUME NEW k \in 1..Len(h)
      PROVE  \E v \in Accepted(m) : Within(m, v, k)
  <2>1. CASE k \in 1..Len(g.history)
    <3>1. PICK v \in Accepted(g) : Within(g, v, k)
      BY <2>1 DEF Tiled
    <3>2. Within(m, v, k)
      BY <1>1, <1>2, <1>3, <1>4, <2>1, <3>1 DEF Within, Accepted
    <3>3. QED
      BY <1>4, <3>1, <3>2
  <2>2. CASE k \notin 1..Len(g.history)
    <3>1. g.run[t].start =< Len(g.history)
      BY <1>2, <1>3, <1>4 DEF Tiled
    <3>2. Within(m, t, k)
      BY <1>1, <1>2, <1>3, <2>2, <3>1 DEF Within
    <3>3. QED
      BY <1>4, <3>2
  <2>3. QED
    BY <2>1, <2>2
<1>8. ASSUME NEW v \in Accepted(m), NEW w \in Accepted(m), NEW k \in 1..Len(h),
             Within(m, v, k), Within(m, w, k)
      PROVE  v = w
  <2>1. CASE k \in 1..Len(g.history)
    <3>1. g.run[t].stop = Len(g.history)
      BY <1>4 DEF Tiled
    <3>2. Within(g, v, k) /\ Within(g, w, k)
      BY <1>1, <1>2, <1>3, <1>4, <1>8, <2>1, <3>1 DEF Within, Accepted
    <3>3. QED
      BY <1>4, <2>1, <3>2 DEF Tiled
  <2>2. CASE k \notin 1..Len(g.history)
    <3>1. ASSUME NEW x \in Accepted(g), x # t
          PROVE  ~Within(m, x, k)
      <4>1. g.run[x].stop =< Len(g.history) /\ m.run[x] = g.run[x] /\ g.run[x].stop \in Nat
        BY <1>1, <1>3, <3>1 DEF Tiled, Accepted
      <4>2. QED
        BY <1>2, <2>2, <4>1 DEF Within
    <3>2. QED
      BY <1>4, <1>8, <3>1
  <2>3. QED
    BY <2>1, <2>2
<1>9. QED
  BY <1>1, <1>5, <1>6, <1>7, <1>8 DEF Tiled

LEMMA RewrittenSummed ==
  ASSUME NEW g, Summed(g), NEW m, NEW t \in Turns,
         NEW status, status # "none", NEW h, NEW s, StepsCount(s),
         status = "active" => UsageSum(s) =< MaxUsage, NEW f, NEW u,
         Rewrites(g, m, t, status, h, s, f, u)
  PROVE  Summed(m)
<1>1. /\ m.run[t].status = status /\ m.run[t].steps = s
      /\ \A v \in Turns \ {t} : m.run[v] = g.run[v]
  BY DEF Rewrites, LedgerOf, RunOf
<1>2. QED
  BY <1>1 DEF Summed

\* What a command may leave of the calls: those still open are of turn t, which
\* is active, and of its last step; the others keep a step of theirs.
Kept(g, t, status, s, f) ==
    /\ Len(g.run[t].steps) =< Len(s)
    /\ \A c \in Calls :
         /\ f[c].committed => f[c].outcome # None
         /\ f[c].turn # None /\ ~f[c].committed =>
              f[c].turn = t /\ status = "active" /\ f[c].step = Len(s)
         /\ \/ f[c].turn = g.call[c].turn /\ f[c].step = g.call[c].step
            \/ f[c].turn = t /\ f[c].step \in 1..Len(s)

LEMMA BeginsHas ==
  ASSUME NEW h, NEW h2, Begins(h, h2), NEW item
  PROVE  Has(h2, item) <=> Has(h, item) \/ HasNew(h2, Len(h), item)
<1>1. Len(h) \in Nat /\ Len(h2) \in Nat /\ Len(h) =< Len(h2)
  BY LenProperties DEF Begins
<1>2. QED
  BY <1>1 DEF Begins, Has, HasNew

LEMMA SameIdSymmetric ==
  ASSUME NEW i, NEW j, SameId(i, j)
  PROVE  SameId(j, i)
BY DEF SameId

\* The part of Paired that is about the history alone.
LEMMA GrownPaired ==
  ASSUME NEW g, g \in LedgerType, Accounted(g), Paired(g), NEW m, NEW h, NEW f,
         Begins(g.history, h), Grown(g, h, f), m.history = h, m.call = f
  PROVE  IdsDistinct(h) /\ CallsMade(m) /\ CallsAnswered(m) /\ AnsweredAfter(m)
<1> DEFINE n == Len(g.history)
<1>1. n \in Nat /\ Len(h) \in Nat /\ n =< Len(h)
  BY LenProperties DEF Begins
<1>2. \A item : Has(h, item) <=> Has(g.history, item) \/ HasNew(h, n, item)
  BY BeginsHas
<1> HIDE DEF n
<1>3. IdsDistinct(h)
  <2>1. ASSUME NEW k \in 1..Len(h), NEW l \in 1..Len(h), l < k
        PROVE  ~SameId(h[l], h[k])
    <3>1. CASE k \in 1..n
      <4>1. k \in 1..n /\ l \in 1..n /\ l # k /\ h[k] = g.history[k] /\ h[l] = g.history[l]
        BY <1>1, <2>1, <3>1 DEF Begins, n
      <4>2. QED
        BY <4>1 DEF Paired, IdsDistinct, n
    <3>2. CASE k \in (n + 1)..Len(h)
      BY <2>1, <3>2 DEF Grown, n
    <3>3. QED
      BY <1>1, <3>1, <3>2
  <2>2. ASSUME NEW k \in 1..Len(h), NEW l \in 1..Len(h), k # l
        PROVE  ~SameId(h[k], h[l])
    <3>1. CASE l < k
      BY <2>1, <3>1, SameIdSymmetric
    <3>2. CASE k < l
      BY <2>1, <3>2
    <3>3. QED
      BY <1>1, <2>2, <3>1, <3>2
  <2>3. QED
    BY <2>2 DEF IdsDistinct
<1>4. CallsMade(m) /\ CallsAnswered(m)
  BY <1>2 DEF CallsMade, CallsAnswered, Paired, Grown, n
<1>5. AnsweredAfter(m)
  <2> SUFFICES ASSUME NEW c \in Calls, NEW k \in 1..Len(h), NEW l \in 1..Len(h),
                      h[k] = CallItem(c), h[l] = ResultItem(c)
               PROVE  k < l
    BY DEF AnsweredAfter
  <2>1. CASE k \in 1..n /\ l \in 1..n
    <3>1. h[k] = g.history[k] /\ h[l] = g.history[l]
      BY <2>1 DEF Begins, n
    <3>2. QED
      BY <2>1, <3>1 DEF Paired, AnsweredAfter, n
  <2>2. CASE k \in 1..n /\ l \in (n + 1)..Len(h)
    BY <1>1, <2>2
  <2>3. CASE k \in (n + 1)..Len(h)
    <3>1. HasNew(h, n, CallItem(c)) /\ Has(h, ResultItem(c))
      BY <2>3 DEF HasNew, Has
    <3>2. g.call[c].turn = None /\ ~HasNew(h, n, ResultItem(c))
      BY <3>1 DEF Grown, n
    <3>3. g.call[c].committed
      BY <1>2, <3>1, <3>2 DEF Paired, CallsAnswered
    <3>4. QED
      BY <3>2, <3>3 DEF Accounted
  <2>4. QED
    BY <1>1, <2>1, <2>2, <2>3
<1>6. QED
  BY <1>3, <1>4, <1>5

LEMMA RewrittenPaired ==
  ASSUME NEW g, g \in LedgerType, Accounted(g), Paired(g), NEW m, NEW t \in Turns, NEW status,
         NEW h, Begins(g.history, h), NEW s \in Seq(Step), NEW f \in [Calls -> Call], NEW u,
         Grown(g, h, f), Kept(g, t, status, s, f), Rewrites(g, m, t, status, h, s, f, u)
  PROVE  Paired(m)
<1>1. /\ m.history = h /\ m.call = f /\ m.run[t].status = status /\ m.run[t].steps = s
      /\ \A v \in Turns \ {t} : m.run[v] = g.run[v]
  BY DEF Rewrites, LedgerOf, RunOf
<1>2. IdsDistinct(h) /\ CallsMade(m) /\ CallsAnswered(m) /\ AnsweredAfter(m)
  BY <1>1, GrownPaired
<1>3. CommittedHasOutcome(m) /\ OpenIsCurrent(m)
  BY <1>1 DEF CommittedHasOutcome, OpenIsCurrent, Kept
<1>4. StepsKnown(m)
  <2> SUFFICES ASSUME NEW c \in Calls, f[c].turn # None
               PROVE  f[c].step \in 1..Len(m.run[f[c].turn].steps)
    BY <1>1 DEF StepsKnown
  <2>1. Len(s) \in Nat
    BY LenProperties
  <2>2. CASE f[c].turn = t /\ f[c].step \in 1..Len(s)
    BY <1>1, <2>2
  <2>3. CASE f[c].turn = g.call[c].turn /\ f[c].step = g.call[c].step
    <3>1. g.call[c].step \in 1..Len(g.run[g.call[c].turn].steps) /\ f[c].turn \in Turns
      BY <2>3 DEF Paired, StepsKnown, Call
    <3>2. CASE f[c].turn = t
      <4>1. Len(g.run[t].steps) =< Len(s) /\ Len(g.run[t].steps) \in Nat
        BY LenProperties DEF Kept, LedgerType, Run
      <4>2. QED
        BY <1>1, <2>1, <2>3, <3>1, <3>2, <4>1
    <3>3. CASE f[c].turn # t
      BY <1>1, <2>3, <3>1, <3>3
    <3>4. QED
      BY <3>2, <3>3
  <2>4. QED
    BY <2>2, <2>3 DEF Kept
<1>5. QED
  BY <1>1, <1>2, <1>3, <1>4 DEF Paired

\* The turn goes on or ends, over the same history or a longer one.
LEMMA RewrittenSound ==
  ASSUME NEW g, Good(g), Sound(g), NEW m, NEW t \in Turns, g.run[t].status = "active",
         NEW status \in {"active"} \cup Terminal,
         NEW h, Begins(g.history, h), NEW s \in Seq(Step), NEW f \in [Calls -> Call],
         NEW u \in [Calls -> {"none", "unresolved", "acknowledged"}],
         Grown(g, h, f), Kept(g, t, status, s, f), StepsCount(s),
         status = "active" => UsageSum(s) =< MaxUsage,
         Rewrites(g, m, t, status, h, s, f, u)
  PROVE  Sound(m)
<1>1. g \in LedgerType /\ Paired(g) /\ Tiled(g) /\ Summed(g) /\ Accounted(g) /\ OneActive(g)
  BY DEF Sound, Good
<1>2. h \in Seq(Item)
  BY DEF Begins
<1>3. m \in LedgerType
  BY <1>1, <1>2, RewrittenTyped
<1>4. Paired(m)
  BY <1>1, RewrittenPaired
<1>5. Tiled(m)
  BY <1>1, RewrittenTiled
<1>6. Summed(m)
  <2>1. status # "none"
    BY DEF Terminal
  <2>2. QED
    BY <1>1, <2>1, RewrittenSummed
<1>7. QED
  BY <1>3, <1>4, <1>5, <1>6 DEF Sound

LEMMA BeginsIsPrefix ==
  ASSUME NEW h, NEW h2, Begins(h, h2)
  PROVE  IsPrefixOf(h, h2)
<1>1. /\ h \in Seq(Item) /\ h2 \in Seq(Item) /\ Len(h) \in Nat /\ Len(h2) \in Nat
      /\ Len(h) =< Len(h2)
  BY LenProperties DEF Begins
<1>2. /\ SubSeq(h2, 1, Len(h)) \in Seq(Item) /\ Len(SubSeq(h2, 1, Len(h))) = Len(h)
      /\ \A k \in 1..Len(h) : SubSeq(h2, 1, Len(h))[k] = h2[k]
  BY <1>1
<1>3. \A k \in 1..Len(h) : SubSeq(h2, 1, Len(h))[k] = h[k]
  BY <1>2 DEF Begins
<1>4. SubSeq(h2, 1, Len(h)) = h
  BY <1>1, <1>2, <1>3, SeqEqual
<1>5. QED
  BY <1>1, <1>4 DEF IsPrefixOf

\* The three ways in which a command changes the history: not at all, ...
LEMMA SameGrown ==
  ASSUME NEW g, g \in LedgerType, NEW f,
         \A c \in Calls : f[c].turn = g.call[c].turn /\ f[c].committed = g.call[c].committed
  PROVE  Grown(g, g.history, f) /\ Begins(g.history, g.history)
<1>1. g.history \in Seq(Item) /\ Len(g.history) \in Nat
  BY LenProperties DEF LedgerType
<1>2. \A item : ~HasNew(g.history, Len(g.history), item)
  BY <1>1 DEF HasNew
<1>3. QED
  BY <1>1, <1>2 DEF Grown, Begins

\* ... by one new item, ...
LEMMA AppendGrown ==
  ASSUME NEW g, g \in LedgerType, NEW item \in Item, NEW f, item.kind # "result",
         \A k \in 1..Len(g.history) : ~SameId(g.history[k], item),
         \A c \in Calls : /\ f[c].turn # None <=> g.call[c].turn # None \/ item = CallItem(c)
                          /\ f[c].committed = g.call[c].committed
                          /\ item = CallItem(c) => g.call[c].turn = None
  PROVE  Grown(g, Append(g.history, item), f) /\ Begins(g.history, Append(g.history, item))
<1> DEFINE n == Len(g.history)
           h == Append(g.history, item)
<1>1. /\ g.history \in Seq(Item) /\ n \in Nat /\ h \in Seq(Item) /\ Len(h) = n + 1
      /\ h[n + 1] = item /\ \A k \in 1..n : h[k] = g.history[k]
  BY LenProperties, AppendProperties DEF LedgerType
<1> HIDE DEF n, h
<1>2. \A x : HasNew(h, n, x) <=> x = item
  BY <1>1 DEF HasNew
<1>3. \A c \in Calls : ~HasNew(h, n, ResultItem(c))
  BY <1>2 DEF ResultItem
<1>4. \A k \in (n + 1)..Len(h), l \in 1..Len(h) : l < k => ~SameId(h[l], h[k])
  BY <1>1 DEF n
<1>5. Grown(g, h, f)
  BY <1>2, <1>3, <1>4 DEF Grown, n
<1>6. Begins(g.history, h)
  BY <1>1 DEF Begins, n
<1>7. QED
  BY <1>5, <1>6 DEF h

\* ... or by the results of the turn's uncommitted calls.
LEMMA ResultsGrown ==
  ASSUME NEW g, g \in LedgerType, Paired(g), NEW t \in Turns, NEW f,
         \A c \in Calls :
            /\ f[c].turn = g.call[c].turn
            /\ f[c].committed <=> g.call[c].committed \/ c \in Uncommitted(g, t)
  PROVE  /\ Grown(g, g.history \o ResultItems(g, t), f)
         /\ Begins(g.history, g.history \o ResultItems(g, t))
<1> DEFINE n == Len(g.history)
           r == ResultItems(g, t)
           h == g.history \o r
           U == Uncommitted(g, t)
<1>1. g.history \in Seq(Item) /\ n \in Nat
  BY LenProperties DEF LedgerType
<1>2. CallsDistinct(g.history)
  BY DEF Paired, IdsDistinct, CallsDistinct, SameId
<1>3. Answering(r, g.history, U, n)
  BY <1>1, <1>2, ResultItemsAnswering
<1>4. r \in Seq(Item) /\ Len(r) \in Nat /\ \A j \in 1..Len(r) : r[j] \in [kind: {"result"}, id: U]
  <2>1. r \in Seq([kind: {"result"}, id: U])
    BY <1>3 DEF Answering
  <2>2. [kind: {"result"}, id: U] \subseteq Item
    BY DEF Item, Uncommitted
  <2> HIDE DEF r, U
  <2>3. QED
    BY <2>1, <2>2, SeqMonotonic, ElementOfSeq, LenProperties
<1>5. /\ h \in Seq(Item) /\ Len(h) = n + Len(r)
      /\ \A k \in 1..n : h[k] = g.history[k]
      /\ \A k \in (n + 1)..Len(h) : k - n \in 1..Len(r) /\ h[k] = r[k - n]
      /\ \A j \in 1..Len(r) : h[n + j] = r[j] /\ n + j \in (n + 1)..Len(h)
  BY <1>1, <1>4, ConcatProperties
<1> HIDE DEF n, r, h
<1>6. ASSUME NEW c \in Calls
      PROVE  ~HasNew(h, n, CallItem(c)) /\ (HasNew(h, n, ResultItem(c)) <=> c \in U)
  <2>1. ~HasNew(h, n, CallItem(c))
    BY <1>4, <1>5 DEF HasNew, CallItem
  <2>2. HasNew(h, n, ResultItem(c)) => c \in U
    BY <1>4, <1>5 DEF HasNew, ResultItem
  <2>3. ASSUME c \in U
        PROVE  HasNew(h, n, ResultItem(c))
    <3>1. g.call[c].turn # None
      BY <2>3, StateAssumption DEF Uncommitted
    <3>2. PICK k \in 1..n : g.history[k] = CallItem(c)
      BY <3>1 DEF Paired, CallsMade, Has, n
    <3>3. g.history[k].kind = "call" /\ g.history[k].id = c
      BY <3>2 DEF CallItem
    <3>4. PICK j \in 1..Len(r) : r[j] = ResultItem(c)
      BY <1>3, <2>3, <3>3 DEF Answering
    <3>5. QED
      BY <1>5, <3>4 DEF HasNew
  <2>4. QED
    BY <2>1, <2>2, <2>3
<1>7. ASSUME NEW k \in (n + 1)..Len(h), NEW l \in 1..Len(h), l < k, SameId(h[l], h[k])
      PROVE  FALSE
  <2>1. k - n \in 1..Len(r) /\ h[k] = r[k - n] /\ h[k] = ResultItem(h[k].id) /\ h[k].id \in U
    BY <1>4, <1>5 DEF ResultItem
  <2>2. h[l] \in Item
    BY <1>5, ElementOfSeq
  <2>3. h[l] = ResultItem(h[k].id)
    <3>1. h[k].kind = "result"
      BY <2>1 DEF ResultItem
    <3>2. h[l].id = h[k].id /\ h[l].kind = "result"
      BY <1>7, <3>1 DEF SameId
    <3>3. QED
      BY <2>2, <3>2 DEF ResultItem, Item
  <2>4. CASE l \in 1..n
    <3>1. Has(g.history, ResultItem(h[k].id)) /\ h[k].id \in Calls
      BY <1>5, <2>1, <2>3, <2>4 DEF Has, n, Uncommitted
    <3>2. g.call[h[k].id].committed
      BY <3>1 DEF Paired, CallsAnswered
    <3>3. QED
      BY <2>1, <3>2 DEF Uncommitted
  <2>5. CASE l \in (n + 1)..Len(h)
    <3>1. l - n \in 1..Len(r) /\ r[l - n] = r[k - n]
      BY <1>5, <2>1, <2>3, <2>5
    <3>2. l - n = k - n
      BY <1>3, <2>1, <3>1 DEF Answering
    <3>3. QED
      BY <1>1, <1>7, <3>2
  <2>6. QED
    BY <1>1, <2>4, <2>5
<1>8. Grown(g, h, f)
  BY <1>6, <1>7, StateAssumption DEF Grown, n, Uncommitted
<1>9. Begins(g.history, h)
  BY <1>1, <1>4, <1>5 DEF Begins, n
<1>10. QED
  BY <1>8, <1>9 DEF h, r

(***************************************************************************)
(* Every command keeps the record sound                                    *)
(***************************************************************************)
LEMMA EmptySound == Sound(EmptyLedger)
<1> DEFINE e == EmptyLedger
<1>1. /\ e.history = <<>> /\ e.run = [t \in Turns |-> NoRun] /\ e.call = [c \in Calls |-> NoCall]
      /\ e.unknown = [c \in Calls |-> "none"]
      /\ e = [history |-> e.history, run |-> e.run, call |-> e.call, unknown |-> e.unknown]
  BY DEF EmptyLedger, LedgerOf
<1>2. NoRun \in Run /\ NoCall \in Call /\ NoCall.turn = None /\ ~NoCall.committed
      /\ NoRun.status = "none" /\ NoRun.steps = <<>>
  BY DEF NoRun, RunOf, NoCall, CallOf, Run, Call
<1> HIDE DEF e
<1>3. e.history \in Seq(Item) /\ e.run \in [Turns -> Run] /\ e.call \in [Calls -> Call]
  BY <1>1, <1>2
<1>4. e \in LedgerType
  BY <1>1, <1>3 DEF LedgerType
<1>5. Paired(e)
  BY <1>1, <1>2 DEF Paired, IdsDistinct, CallsMade, CallsAnswered, AnsweredAfter,
                    CommittedHasOutcome, OpenIsCurrent, StepsKnown, Has
<1>6. Tiled(e) /\ Summed(e)
  BY <1>1, <1>2 DEF Tiled, Summed, StepsCount, Accepted, ActiveTurns
<1>7. QED
  BY <1>4, <1>5, <1>6 DEF Sound, e

\* A call that waits for its result is of the active turn and of its last step.
LEMMA OpenOfTurn ==
  ASSUME NEW g, Good(g), Sound(g), NEW t \in Turns, g.run[t].status = "active",
         NEW c \in Calls, g.call[c].turn # None, ~g.call[c].committed
  PROVE  g.call[c].turn = t /\ g.call[c].step = Len(g.run[t].steps)
<1>1. g.run[g.call[c].turn].status = "active" /\ g.call[c].step = Len(g.run[g.call[c].turn].steps)
  BY DEF Sound, Paired, OpenIsCurrent
<1>2. g.call[c].turn \in Turns
  BY DEF Good, Shape
<1>3. g.call[c].turn = t
  BY <1>1, <1>2 DEF Good, OneActive, ActiveTurns
<1>4. QED
  BY <1>1, <1>3

LEMMA MutatedRewrites ==
  ASSUME NEW g, g \in LedgerType, NEW t \in Turns, g.run[t].status = "active",
         NEW h, NEW s, NEW f
  PROVE  Rewrites(g, Mutated(g, t, h, s, f), t, "active", h, s, f, g.unknown)
<1>1. g.run \in [Turns -> Run]
  BY DEF LedgerType
<1>2. QED
  BY <1>1 DEF Mutated, LedgerOf, RunOf, Rewrites

LEMMA MutatedSound ==
  ASSUME NEW g, Good(g), Sound(g), NEW t \in Turns, g.run[t].status = "active",
         NEW h, Begins(g.history, h), NEW s \in Seq(Step), NEW f \in [Calls -> Call],
         Grown(g, h, f), Kept(g, t, "active", s, f), StepsCount(s), UsageSum(s) =< MaxUsage
  PROVE  Sound(Mutated(g, t, h, s, f))
<1>1. g \in LedgerType /\ g.unknown \in [Calls -> {"none", "unresolved", "acknowledged"}]
  BY DEF Sound, LedgerType
<1>2. Rewrites(g, Mutated(g, t, h, s, f), t, "active", h, s, f, g.unknown)
  BY <1>1, MutatedRewrites
<1>3. QED
  BY <1>1, <1>2, RewrittenSound

\* The facts about the active turn that all its commands use.
LEMMA ActiveSteps ==
  ASSUME NEW g, Sound(g), NEW t \in Turns, g.run[t].status = "active"
  PROVE  /\ g.run[t].steps \in Seq(Step) /\ Len(g.run[t].steps) \in Nat
         /\ StepsCount(g.run[t].steps) /\ UsageSum(g.run[t].steps) =< MaxUsage
         /\ g.call \in [Calls -> Call]
         /\ g \in LedgerType /\ Paired(g)
<1>1. g.run[t].steps \in Seq(Step) /\ g \in LedgerType /\ g.call \in [Calls -> Call]
  BY DEF Sound, LedgerType, Run
<1>2. QED
  BY <1>1, LenProperties DEF Sound, Summed

\* A mutation that leaves the calls as they are, and the step open or closed.
LEMMA CallsKept ==
  ASSUME NEW g, Good(g), Sound(g), NEW t \in Turns, g.run[t].status = "active",
         NEW s \in Seq(Step), Len(s) = Len(g.run[t].steps)
  PROVE  Kept(g, t, "active", s, g.call)
<1>1. Len(s) \in Nat
  BY LenProperties
<1>2. \A c \in Calls : g.call[c].committed => g.call[c].outcome # None
  BY DEF Sound, Paired, CommittedHasOutcome
<1>3. \A c \in Calls : g.call[c].turn # None /\ ~g.call[c].committed =>
         g.call[c].turn = t /\ g.call[c].step = Len(s)
  BY OpenOfTurn
<1>4. QED
  BY <1>1, <1>2, <1>3 DEF Kept

LEMMA ModelInputSound ==
  ASSUME NEW g, Good(g), Sound(g), NEW t \in Turns, CanModelInput(g, t)
  PROVE  Sound(ModelInput(g, t)) /\ Begins(g.history, ModelInput(g, t).history)
<1> DEFINE x == [completed |-> FALSE, usage |-> 0]
           s == g.run[t].steps
           q == Append(s, x)
<1>1. g.run[t].status = "active" /\ Uncommitted(g, t) = {}
  BY DEF CanModelInput
<1>2. /\ s \in Seq(Step) /\ Len(s) \in Nat /\ StepsCount(s) /\ UsageSum(s) =< MaxUsage
      /\ g.call \in [Calls -> Call] /\ g \in LedgerType /\ Paired(g)
  BY <1>1, ActiveSteps
<1>3. x \in Step /\ x.usage = 0
  BY DEF Step
<1> HIDE DEF x, s
<1>4. /\ q \in Seq(Step) /\ Len(q) = Len(s) + 1 /\ q[Len(s) + 1] = x
      /\ \A k \in 1..Len(s) : q[k] = s[k]
  BY <1>2, <1>3, AppendProperties
<1>5. UsageSum(q) =< MaxUsage
  BY <1>2, <1>3, UsageSumAppend
<1> HIDE DEF q
<1>6. StepsCount(q)
  BY <1>2, <1>3, <1>4 DEF StepsCount
<1>7. Grown(g, g.history, g.call) /\ Begins(g.history, g.history)
  BY <1>2, SameGrown
<1>8. Kept(g, t, "active", q, g.call)
  <2>1. \A c \in Calls : g.call[c].turn # None => g.call[c].committed
    BY <1>1, OpenOfTurn DEF Uncommitted
  <2>2. QED
    BY <1>2, <1>4, <2>1 DEF Kept, Paired, CommittedHasOutcome, s
<1>9. Sound(Mutated(g, t, g.history, q, g.call))
  BY <1>1, <1>2, <1>4, <1>5, <1>6, <1>7, <1>8, MutatedSound
<1>10. QED
  BY <1>7, <1>9 DEF ModelInput, Mutated, LedgerOf, q, s, x

LEMMA ModelMessageSound ==
  ASSUME NEW g, Good(g), Sound(g), NEW t \in Turns, NEW i \in Items, CanModelMessage(g, t, i)
  PROVE  Sound(ModelMessage(g, t, i)) /\ Begins(g.history, ModelMessage(g, t, i).history)
<1> DEFINE item == [kind |-> "message", id |-> i]
           s == g.run[t].steps
<1>1. g.run[t].status = "active" /\ ~KnownItem(g, i)
  BY DEF CanModelMessage
<1>2. /\ s \in Seq(Step) /\ Len(s) \in Nat /\ StepsCount(s) /\ UsageSum(s) =< MaxUsage
      /\ g.call \in [Calls -> Call] /\ g \in LedgerType /\ Paired(g)
  BY <1>1, ActiveSteps
<1>3. \A k \in 1..Len(g.history) : ~SameId(g.history[k], item)
  <2>1. DOMAIN g.history = 1..Len(g.history)
    BY <1>2, LenProperties DEF LedgerType
  <2>2. QED
    BY <1>1, <2>1 DEF KnownItem, SameId
<1>4. item \in Item /\ item.kind # "result" /\ \A c : item # CallItem(c)
  BY DEF Item, CallItem
<1> HIDE DEF item, s
<1>5. Grown(g, Append(g.history, item), g.call) /\ Begins(g.history, Append(g.history, item))
  BY <1>2, <1>3, <1>4, AppendGrown
<1>6. Kept(g, t, "active", s, g.call)
  BY <1>1, <1>2, CallsKept DEF s
<1>7. Sound(Mutated(g, t, Append(g.history, item), s, g.call))
  BY <1>1, <1>2, <1>5, <1>6, MutatedSound
<1>8. QED
  BY <1>5, <1>7 DEF ModelMessage, Mutated, LedgerOf, item, s

LEMMA ModelCallSound ==
  ASSUME NEW g, Good(g), Sound(g), NEW t \in Turns, NEW c \in Calls, CanModelCall(g, t, c)
  PROVE  Sound(ModelCall(g, t, c)) /\ Begins(g.history, ModelCall(g, t, c).history)
<1> DEFINE item == [kind |-> "call", id |-> c]
           s == g.run[t].steps
           new == CallOf(t, Len(s), FALSE, None, FALSE)
           f == [g.call EXCEPT ![c] = new]
<1>1. g.run[t].status = "active" /\ s # <<>> /\ g.call[c].turn = None
  BY DEF CanModelCall, LastStepOpen
<1>2. /\ s \in Seq(Step) /\ Len(s) \in Nat /\ StepsCount(s) /\ UsageSum(s) =< MaxUsage
      /\ g.call \in [Calls -> Call] /\ g \in LedgerType /\ Paired(g)
  BY <1>1, ActiveSteps
<1>3. /\ new \in Call /\ new.turn = t /\ new.step = Len(s) /\ ~new.committed
      /\ new.committed \in BOOLEAN /\ t # None
  BY <1>2, StateAssumption DEF CallOf, Call
<1>4. f \in [Calls -> Call] /\ f[c] = new /\ \A d \in Calls \ {c} : f[d] = g.call[d]
  BY <1>2, <1>3
<1>5. Len(s) \in 1..Len(s)
  BY <1>1, <1>2, EmptySeq, LenProperties
<1>6. item \in Item /\ item.kind # "result" /\ item = CallItem(c) /\ item.kind = "call"
      /\ item.id = c /\ \A d : item = CallItem(d) => d = c
  BY DEF Item, CallItem
<1>7. \A k \in 1..Len(g.history) : ~SameId(g.history[k], item)
  <2> SUFFICES ASSUME NEW k \in 1..Len(g.history), SameId(g.history[k], item)
               PROVE  FALSE
    OBVIOUS
  <2>1. g.history[k] \in Item
    BY <1>2, ElementOfSeq DEF LedgerType
  <2>2. g.history[k].id = c /\ g.history[k].kind = "call"
    BY <1>6 DEF SameId
  <2>3. g.history[k] = CallItem(c)
    BY <2>1, <2>2 DEF Item, CallItem
  <2>4. QED
    BY <1>1, <1>2, <2>3 DEF Paired, CallsMade, Has
<1>8. ~g.call[c].committed /\ g.call[c].committed \in BOOLEAN
  BY <1>1 DEF Good, Accounted, Shape
<1> HIDE DEF item, s, new, f
<1>9. Grown(g, Append(g.history, item), f) /\ Begins(g.history, Append(g.history, item))
  <2>1. \A d \in Calls : /\ f[d].turn # None <=> g.call[d].turn # None \/ item = CallItem(d)
                         /\ f[d].committed = g.call[d].committed
                         /\ item = CallItem(d) => g.call[d].turn = None
    BY <1>1, <1>3, <1>4, <1>6, <1>8
  <2>2. QED
    BY <1>2, <1>6, <1>7, <2>1, AppendGrown
<1>10. Kept(g, t, "active", s, f)
  <2>1. Kept(g, t, "active", s, g.call)
    BY <1>1, <1>2, CallsKept DEF s
  <2>2. QED
    BY <1>2, <1>3, <1>4, <1>5, <2>1 DEF Kept
<1>11. Sound(Mutated(g, t, Append(g.history, item), s, f))
  BY <1>1, <1>2, <1>4, <1>9, <1>10, MutatedSound
<1>12. QED
  BY <1>9, <1>11 DEF ModelCall, Mutated, LedgerOf, item, s, f, new

LEMMA StepFinishedSound ==
  ASSUME NEW g, Good(g), Sound(g), NEW t \in Turns, NEW u \in Usages,
         CanModelStepFinished(g, t, u)
  PROVE  /\ Sound(ModelStepFinished(g, t, u))
         /\ Begins(g.history, ModelStepFinished(g, t, u).history)
<1> DEFINE x == [completed |-> TRUE, usage |-> u]
           s == g.run[t].steps
           q == [s EXCEPT ![Len(s)] = x]
<1>1. /\ g.run[t].status = "active" /\ s # <<>> /\ ~s[Len(s)].completed
      /\ UsageSum(s) + u =< MaxUsage
  BY DEF CanModelStepFinished, LastStepOpen
<1>2. /\ s \in Seq(Step) /\ Len(s) \in Nat /\ StepsCount(s) /\ UsageSum(s) =< MaxUsage
      /\ g.call \in [Calls -> Call] /\ g \in LedgerType /\ Paired(g)
  BY <1>1, ActiveSteps
<1>3. x \in Step /\ x.completed /\ x.usage = u
  BY StateAssumption DEF Step
<1> HIDE DEF x, s
<1>4. Len(s) \in 1..Len(s)
  BY <1>1, <1>2, EmptySeq, LenProperties
<1>5. /\ q \in Seq(Step) /\ Len(q) = Len(s) /\ q[Len(s)] = x
      /\ \A k \in 1..Len(s) : k # Len(s) => q[k] = s[k]
  BY <1>2, <1>3, <1>4, ExceptSeq
<1>6. s[Len(s)].usage = 0
  BY <1>1, <1>2, <1>4 DEF StepsCount
<1>7. UsageSum(q) =< MaxUsage
  BY <1>1, <1>2, <1>3, <1>6, UsageSumFinish
<1> HIDE DEF q
<1>8. StepsCount(q)
  BY <1>2, <1>3, <1>5 DEF StepsCount
<1>9. Grown(g, g.history, g.call) /\ Begins(g.history, g.history)
  BY <1>2, SameGrown
<1>10. Kept(g, t, "active", q, g.call)
  BY <1>1, <1>5, CallsKept DEF s
<1>11. Sound(Mutated(g, t, g.history, q, g.call))
  BY <1>1, <1>2, <1>5, <1>7, <1>8, <1>9, <1>10, MutatedSound
<1>12. QED
  BY <1>9, <1>11 DEF ModelStepFinished, Mutated, LedgerOf, q, s, x

\* A mutation of one call that keeps its turn, its step and whether it is committed.
LEMMA CallChangedSound ==
  ASSUME NEW g, Good(g), Sound(g), NEW t \in Turns, g.run[t].status = "active",
         NEW c \in Calls, NEW new \in Call, new.turn = g.call[c].turn,
         new.step = g.call[c].step, new.committed = g.call[c].committed,
         new.committed => new.outcome # None
  PROVE  /\ Sound(Mutated(g, t, g.history, g.run[t].steps, [g.call EXCEPT ![c] = new]))
         /\ Begins(g.history, g.history)
<1> DEFINE s == g.run[t].steps
           f == [g.call EXCEPT ![c] = new]
<1>1. /\ s \in Seq(Step) /\ Len(s) \in Nat /\ StepsCount(s) /\ UsageSum(s) =< MaxUsage
      /\ g.call \in [Calls -> Call] /\ g \in LedgerType /\ Paired(g)
  BY ActiveSteps
<1>2. f \in [Calls -> Call] /\ f[c] = new /\ \A d \in Calls \ {c} : f[d] = g.call[d]
  BY <1>1
<1> HIDE DEF f
<1>3. Kept(g, t, "active", s, g.call)
  BY <1>1, CallsKept
<1> HIDE DEF s
<1>4. Kept(g, t, "active", s, f)
  BY <1>2, <1>3 DEF Kept
<1>5. \A d \in Calls : f[d].turn = g.call[d].turn /\ f[d].committed = g.call[d].committed
  BY <1>2
<1>6. Grown(g, g.history, f) /\ Begins(g.history, g.history)
  BY <1>1, <1>5, SameGrown
<1>7. QED
  BY <1>1, <1>2, <1>4, <1>6, MutatedSound DEF s, f

LEMMA IntentSound ==
  ASSUME NEW g, Good(g), Sound(g), NEW t \in Turns, NEW c \in Calls, CanDispatchIntent(g, t, c)
  PROVE  Sound(DispatchIntent(g, t, c)) /\ Begins(g.history, DispatchIntent(g, t, c).history)
<1> DEFINE old == g.call[c]
           new == CallOf(old.turn, old.step, TRUE, old.outcome, old.committed)
<1>1. g.run[t].status = "active" /\ old \in Call /\ g.call \in [Calls -> Call]
  BY DEF CanDispatchIntent, Sound, LedgerType
<1>2. /\ new \in Call /\ new.turn = old.turn /\ new.step = old.step
      /\ new.committed = old.committed /\ new.outcome = old.outcome
  BY <1>1 DEF CallOf, Call
<1>3. new.committed => new.outcome # None
  BY <1>2 DEF Sound, Paired, CommittedHasOutcome
<1>4. DispatchIntent(g, t, c) =
        Mutated(g, t, g.history, g.run[t].steps, [g.call EXCEPT ![c] = new])
  BY DEF DispatchIntent
<1> HIDE DEF old, new
<1>5. Sound(DispatchIntent(g, t, c)) /\ Begins(g.history, g.history)
  BY <1>1, <1>2, <1>3, <1>4, CallChangedSound DEF old
<1>6. QED
  BY <1>4, <1>5 DEF Mutated, LedgerOf

LEMMA OutcomeSound ==
  ASSUME NEW g, Good(g), Sound(g), NEW t \in Turns, NEW c \in Calls, NEW r \in Reported,
         CanToolOutcome(g, t, c, r)
  PROVE  Sound(ToolOutcome(g, t, c, r)) /\ Begins(g.history, ToolOutcome(g, t, c, r).history)
<1> DEFINE old == g.call[c]
           new == CallOf(old.turn, old.step, old.intent, r, old.committed)
<1>1. g.run[t].status = "active" /\ old \in Call /\ g.call \in [Calls -> Call] /\ r # None
  BY NoneAssumption DEF CanToolOutcome, Sound, LedgerType
<1>2. /\ new \in Call /\ new.turn = old.turn /\ new.step = old.step
      /\ new.committed = old.committed /\ new.outcome = r
  BY <1>1 DEF CallOf, Call
<1>3. ToolOutcome(g, t, c, r) =
        Mutated(g, t, g.history, g.run[t].steps, [g.call EXCEPT ![c] = new])
  BY DEF ToolOutcome
<1> HIDE DEF old, new
<1>4. Sound(ToolOutcome(g, t, c, r)) /\ Begins(g.history, g.history)
  BY <1>1, <1>2, <1>3, CallChangedSound DEF old
<1>5. QED
  BY <1>3, <1>4 DEF Mutated, LedgerOf

LEMMA BatchSound ==
  ASSUME NEW g, Good(g), Sound(g), NEW t \in Turns, CanToolBatch(g, t)
  PROVE  Sound(ToolBatch(g, t)) /\ Begins(g.history, ToolBatch(g, t).history)
<1> DEFINE s == g.run[t].steps
           h == g.history \o ResultItems(g, t)
           U == Uncommitted(g, t)
           f == [c \in Calls |-> IF c \in U THEN Answered(g.call[c]) ELSE g.call[c]]
<1>1. g.run[t].status = "active" /\ \A c \in U : g.call[c].outcome # None
  BY DEF CanToolBatch
<1>2. /\ s \in Seq(Step) /\ Len(s) \in Nat /\ StepsCount(s) /\ UsageSum(s) =< MaxUsage
      /\ g.call \in [Calls -> Call] /\ g \in LedgerType /\ Paired(g)
  BY <1>1, ActiveSteps
<1>3. ASSUME NEW c \in Calls
      PROVE  /\ f[c] \in Call /\ f[c].turn = g.call[c].turn /\ f[c].step = g.call[c].step
             /\ f[c].outcome = g.call[c].outcome
             /\ f[c].committed <=> g.call[c].committed \/ c \in U
  <2>1. g.call[c] \in Call
    BY <1>2
  <2>2. CASE c \in U
    BY <2>1, <2>2 DEF Answered, CallOf, Call
  <2>3. CASE c \notin U
    BY <2>1, <2>3
  <2>4. QED
    BY <2>2, <2>3
<1>4. f \in [Calls -> Call]
  BY <1>3
<1> HIDE DEF f
<1>5. Kept(g, t, "active", s, g.call)
  BY <1>1, <1>2, CallsKept
<1>6. Kept(g, t, "active", s, f)
  BY <1>1, <1>3, <1>5 DEF Kept
<1>7. Grown(g, h, f) /\ Begins(g.history, h)
  BY <1>2, <1>3, ResultsGrown
<1> HIDE DEF s, h
<1>8. Sound(Mutated(g, t, h, s, f))
  BY <1>1, <1>2, <1>4, <1>6, <1>7, MutatedSound
<1>9. QED
  BY <1>7, <1>8 DEF ToolBatch, Mutated, LedgerOf, s, h, f

LEMMA FinalizeRewrites ==
  ASSUME NEW g, g \in LedgerType, NEW t \in Turns, NEW status \in Terminal
  PROVE  \E final \in Terminal :
           Rewrites(g, Finalize(g, t, status), t, final, g.history \o ResultItems(g, t),
                    g.run[t].steps,
                    [c \in Calls |-> IF g.call[c].turn = t THEN Closed(g.call[c]) ELSE g.call[c]],
                    [c \in Calls |-> IF c \in Unanswered(g, t) /\ g.call[c].intent
                                     THEN "unresolved" ELSE g.unknown[c]])
<1> DEFINE final == IF Unanswered(g, t) # {} /\ status = "completed" THEN "failed" ELSE status
<1>1. g.run \in [Turns -> Run] /\ final \in Terminal
  BY DEF LedgerType, Terminal
<1>2. Rewrites(g, Finalize(g, t, status), t, final, g.history \o ResultItems(g, t),
               g.run[t].steps,
               [c \in Calls |-> IF g.call[c].turn = t THEN Closed(g.call[c]) ELSE g.call[c]],
               [c \in Calls |-> IF c \in Unanswered(g, t) /\ g.call[c].intent
                                THEN "unresolved" ELSE g.unknown[c]])
  BY <1>1 DEF Finalize, LedgerOf, RunOf, Rewrites
<1>3. QED
  BY <1>1, <1>2

LEMMA FinalizeSound ==
  ASSUME NEW g, Good(g), Sound(g), NEW t \in Turns, g.run[t].status = "active",
         NEW status \in Terminal
  PROVE  Sound(Finalize(g, t, status)) /\ Begins(g.history, Finalize(g, t, status).history)
<1> DEFINE m == Finalize(g, t, status)
           s == g.run[t].steps
           h == g.history \o ResultItems(g, t)
           f == [c \in Calls |-> IF g.call[c].turn = t THEN Closed(g.call[c]) ELSE g.call[c]]
           u == [c \in Calls |-> IF c \in Unanswered(g, t) /\ g.call[c].intent
                                 THEN "unresolved" ELSE g.unknown[c]]
<1>1. /\ s \in Seq(Step) /\ Len(s) \in Nat /\ StepsCount(s)
      /\ g.call \in [Calls -> Call] /\ g \in LedgerType /\ Paired(g)
  BY ActiveSteps
<1>2. PICK final \in Terminal : Rewrites(g, m, t, final, h, s, f, u)
  BY <1>1, FinalizeRewrites
<1>3. final # "active" /\ final \in {"active"} \cup Terminal
  BY DEF Terminal
<1>4. ASSUME NEW c \in Calls
      PROVE  /\ f[c] \in Call /\ f[c].turn = g.call[c].turn /\ f[c].step = g.call[c].step
             /\ g.call[c].turn = t => f[c].committed /\ f[c].outcome # None
             /\ g.call[c].turn # t => f[c] = g.call[c]
  <2>1. g.call[c] \in Call
    BY <1>1
  <2>2. "unknown" # None /\ "undispatched" # None
    BY NoneAssumption DEF Synthetic
  <2>3. CASE g.call[c].turn = t
    BY <2>1, <2>2, <2>3 DEF Closed, CallOf, Call, Synthetic
  <2>4. CASE g.call[c].turn # t
    BY <2>1, <2>4
  <2>5. QED
    BY <2>3, <2>4
<1>5. f \in [Calls -> Call]
  BY <1>4
<1>6. u \in [Calls -> {"none", "unresolved", "acknowledged"}]
  BY <1>1 DEF LedgerType
<1> HIDE DEF m, f, u
<1>7. \A c \in Calls : f[c].committed <=> g.call[c].committed \/ c \in Uncommitted(g, t)
  BY <1>4 DEF Uncommitted
<1>8. Grown(g, h, f) /\ Begins(g.history, h)
  BY <1>1, <1>4, <1>7, ResultsGrown
<1>9. Kept(g, t, final, s, f)
  <2>1. \A c \in Calls : f[c].committed => f[c].outcome # None
    BY <1>1, <1>4 DEF Paired, CommittedHasOutcome
  <2>2. \A c \in Calls : f[c].turn # None => f[c].committed
    BY <1>4, OpenOfTurn
  <2>3. QED
    BY <1>1, <1>4, <2>1, <2>2 DEF Kept
<1> HIDE DEF s, h
<1>10. Sound(m)
  BY <1>1, <1>2, <1>3, <1>5, <1>6, <1>8, <1>9, RewrittenSound
<1>11. m.history = h
  BY <1>2, RewrittenFields
<1>12. QED
  BY <1>8, <1>10, <1>11 DEF m

LEMMA RecoverSound ==
  ASSUME NEW g, Good(g), Sound(g)
  PROVE  Sound(Recover(g)) /\ Begins(g.history, Recover(g).history)
<1>1. CASE Active(g)
  <2>1. PICK t \in Turns : g.run[t].status = "active" /\ Recover(g) = Finalize(g, t, "failed")
    BY <1>1 DEF Recover, Active, ActiveTurns
  <2>2. QED
    BY <2>1, FinalizeSound DEF Terminal
<1>2. CASE ~Active(g)
  BY <1>2 DEF Recover, Begins, Sound, LedgerType
<1>3. QED
  BY <1>1, <1>2

LEMMA AcknowledgeSound ==
  ASSUME NEW g, Sound(g)
  PROVE  Sound(Acknowledge(g)) /\ Begins(g.history, Acknowledge(g).history)
<1> DEFINE m == Acknowledge(g)
<1>1. m.history = g.history /\ m.run = g.run /\ m.call = g.call
  BY DEF Acknowledge, LedgerOf
<1>2. m \in LedgerType /\ g.history \in Seq(Item)
  BY DEF Acknowledge, LedgerOf, Sound, LedgerType
<1> HIDE DEF m
<1>3. Paired(m)
  BY <1>1 DEF Sound, Paired, CallsMade, CallsAnswered, AnsweredAfter, CommittedHasOutcome,
              OpenIsCurrent, StepsKnown
<1>4. Tiled(m) /\ Summed(m)
  BY <1>1 DEF Sound, Tiled, Summed, Within, Accepted, ActiveTurns
<1>5. Begins(g.history, g.history)
  BY <1>2 DEF Begins
<1>6. QED
  BY <1>1, <1>2, <1>3, <1>4, <1>5 DEF Sound, m

LEMMA BeginSound ==
  ASSUME NEW g, Good(g), Sound(g), NEW t \in Turns, NEW i \in Items, CanBegin(g, t, i)
  PROVE  Sound(Begin(g, t, i)) /\ Begins(g.history, Begin(g, t, i).history)
<1> DEFINE m == Begin(g, t, i)
           item == [kind |-> "user", id |-> i]
           h == Append(g.history, item)
           n == Len(g.history)
           new == RunOf("active", n, n + 1, <<>>)
<1>1. g \in LedgerType /\ Paired(g) /\ Tiled(g) /\ Summed(g) /\ g.run \in [Turns -> Run]
  BY DEF Sound, LedgerType
<1>2. /\ g.history \in Seq(Item) /\ n \in Nat /\ item \in Item
      /\ item.kind # "result" /\ \A c : item # CallItem(c)
  BY <1>1, LenProperties DEF LedgerType, Item, CallItem
<1>3. /\ h \in Seq(Item) /\ Len(h) = n + 1
  BY <1>2, AppendProperties
<1>4. new \in Run /\ new.status = "active" /\ new.start = n /\ new.stop = n + 1 /\ new.steps = <<>>
  BY <1>2 DEF Run, RunOf
<1>5. /\ m.history = h /\ m.call = g.call /\ m.unknown = g.unknown
      /\ m.run = [g.run EXCEPT ![t] = new] /\ m = LedgerOf(h, m.run, g.call, g.unknown)
  BY DEF Begin, LedgerOf
<1> HIDE DEF m, new
<1>6. m.run \in [Turns -> Run] /\ m.run[t] = new /\ \A v \in Turns \ {t} : m.run[v] = g.run[v]
  BY <1>1, <1>4, <1>5
<1>7. m \in LedgerType
  BY <1>1, <1>3, <1>5, <1>6 DEF LedgerOf, LedgerType
<1>8. /\ ~Active(g) /\ g.run[t].status = "none"
      /\ \A k \in 1..Len(g.history) : ~SameId(g.history[k], item)
  <2>1. DOMAIN g.history = 1..Len(g.history)
    BY <1>2, LenProperties
  <2>2. QED
    BY <2>1 DEF CanBegin, KnownItem, SameId
<1>9. Grown(g, h, g.call) /\ Begins(g.history, h)
  BY <1>1, <1>2, <1>8, AppendGrown
<1>10. \A c \in Calls : g.call[c].turn # None =>
         /\ g.call[c].committed /\ g.call[c].turn \in Turns /\ g.call[c].turn # t
         /\ m.run[g.call[c].turn] = g.run[g.call[c].turn]
  <2> SUFFICES ASSUME NEW c \in Calls, g.call[c].turn # None
               PROVE  g.call[c].committed /\ g.call[c].turn \in Turns \ {t}
    BY <1>6
  <2>1. g.call[c].turn \in Turns
    BY DEF Good, Shape
  <2>2. g.call[c].committed
    BY <1>1, <1>8, <2>1 DEF Paired, OpenIsCurrent, Active, ActiveTurns
  <2>3. g.call[c].turn # t
    <3>1. g.call[c].step \in 1..Len(g.run[g.call[c].turn].steps)
      BY <1>1 DEF Paired, StepsKnown
    <3>2. QED
      BY <1>1, <1>8, <3>1 DEF Summed
  <2>4. QED
    BY <2>1, <2>2, <2>3
<1>11. Paired(m)
  <2>1. IdsDistinct(h) /\ CallsMade(m) /\ CallsAnswered(m) /\ AnsweredAfter(m)
    BY <1>1, <1>5, <1>9, GrownPaired DEF Good
  <2>2. CommittedHasOutcome(m) /\ OpenIsCurrent(m) /\ StepsKnown(m)
    BY <1>1, <1>5, <1>10 DEF Paired, CommittedHasOutcome, OpenIsCurrent, StepsKnown
  <2>3. QED
    BY <1>5, <2>1, <2>2 DEF Paired
<1>12. Summed(m)
  <2>1. UsageSum(<<>>) =< MaxUsage /\ StepsCount(<<>>)
    BY UsageSumEmpty, StateAssumption DEF StepsCount
  <2>2. QED
    BY <1>1, <1>4, <1>6, <2>1 DEF Summed
<1> HIDE DEF h, n
<1>13. Tiled(m)
  <2>1. \A v \in Turns : g.run[v].start \in Nat /\ g.run[v].stop \in Nat
    BY <1>1 DEF Run
  <2>2. Accepted(m) = Accepted(g) \cup {t} /\ t \notin Accepted(g) /\ Accepted(g) \subseteq Turns
    BY <1>4, <1>6, <1>8 DEF Accepted
  <2>3. ActiveTurns(m) = {t}
    BY <1>4, <1>6, <1>8 DEF Active, ActiveTurns
  <2>4. ASSUME NEW v \in Accepted(g)
        PROVE  m.run[v] = g.run[v] /\ g.run[v].start =< g.run[v].stop /\ g.run[v].stop =< n
    BY <1>1, <1>6, <2>2 DEF Tiled, n
  <2>5. \A v \in Accepted(m) : m.run[v].start =< m.run[v].stop /\ m.run[v].stop =< Len(h)
    BY <1>2, <1>3, <1>4, <1>6, <2>1, <2>2, <2>4
  <2>6. ASSUME NEW k \in 1..Len(h)
        PROVE  /\ \A v \in Accepted(g) : Within(m, v, k) <=> Within(g, v, k) /\ k \in 1..n
               /\ Within(m, t, k) <=> k = n + 1
    BY <1>2, <1>3, <1>4, <1>6, <2>1, <2>2, <2>4 DEF Within
  <2>7. ASSUME NEW k \in 1..Len(h)
        PROVE  \E v \in Accepted(m) : Within(m, v, k)
    <3>1. CASE k \in 1..n
      BY <1>1, <2>2, <2>6, <3>1 DEF Tiled, n
    <3>2. CASE k = n + 1
      BY <2>2, <2>6, <3>2
    <3>3. QED
      BY <1>2, <1>3, <3>1, <3>2
  <2>8. ASSUME NEW v \in Accepted(m), NEW w \in Accepted(m), NEW k \in 1..Len(h),
               Within(m, v, k), Within(m, w, k)
        PROVE  v = w
    <3>1. CASE k \in 1..n
      <4>1. v \in Accepted(g) /\ w \in Accepted(g) /\ Within(g, v, k) /\ Within(g, w, k)
        BY <1>2, <2>2, <2>6, <2>8, <3>1
      <4>2. QED
        BY <1>1, <3>1, <4>1 DEF Tiled, n
    <3>2. CASE k = n + 1
      <4>1. k \notin 1..n
        BY <1>2, <3>2
      <4>2. v = t /\ w = t
        BY <2>2, <2>6, <2>8, <4>1
      <4>3. QED
        BY <4>2
    <3>3. QED
      BY <1>2, <1>3, <3>1, <3>2
  <2>9. m.run[t].stop = Len(m.history)
    BY <1>3, <1>4, <1>5, <1>6
  <2>10. QED
    BY <1>5, <2>3, <2>5, <2>7, <2>8, <2>9 DEF Tiled
<1>14. QED
  BY <1>5, <1>7, <1>9, <1>11, <1>12, <1>13 DEF Sound, m

(***************************************************************************)
(* What the backend asks of a record, and of one that replaces another     *)
(***************************************************************************)

\* A sound record passes SessionRecord::validate.
LEMMA SoundIsValid ==
  ASSUME NEW g, Good(g), Sound(g)
  PROVE  ValidLedger(g)
<1>1. g \in LedgerType /\ Paired(g) /\ Tiled(g) /\ Accounted(g)
  BY DEF Good, Sound
<1>2. DOMAIN g.history = 1..Len(g.history) /\ Len(g.history) \in Nat
  BY <1>1, LenProperties DEF LedgerType
<1>3. \A k, l \in DOMAIN g.history : k # l => ~SameId(g.history[k], g.history[l])
  BY <1>1, <1>2 DEF Paired, IdsDistinct
<1>4. \A t \in Accepted(g) : g.run[t].start =< Len(g.history)
  <2>1. \A t \in Turns : g.run[t].start \in Nat /\ g.run[t].stop \in Nat
    BY <1>1 DEF LedgerType, Run
  <2>2. QED
    BY <1>1, <1>2, <2>1 DEF Tiled, Accepted
<1>5. ASSUME NEW c \in Calls, g.call[c].turn # None
      PROVE  /\ g.call[c].step \in DOMAIN g.run[g.call[c].turn].steps
             /\ \E k \in DOMAIN g.history : g.history[k] = [kind |-> "call", id |-> c]
             /\ g.call[c].committed =>
                  /\ g.call[c].outcome # None
                  /\ \E k \in DOMAIN g.history : g.history[k] = [kind |-> "result", id |-> c]
  <2>1. g.call[c].turn \in Turns
    BY <1>5 DEF Good, Shape
  <2>2. g.run[g.call[c].turn].steps \in Seq(Step)
    BY <1>1, <2>1 DEF LedgerType, Run
  <2>3. DOMAIN g.run[g.call[c].turn].steps = 1..Len(g.run[g.call[c].turn].steps)
    BY <2>2, LenProperties
  <2>4. g.call[c].step \in 1..Len(g.run[g.call[c].turn].steps)
    BY <1>1, <1>5 DEF Paired, StepsKnown
  <2>5. Has(g.history, CallItem(c)) /\ (g.call[c].committed => Has(g.history, ResultItem(c)))
    BY <1>1, <1>5 DEF Paired, CallsMade, CallsAnswered
  <2>6. g.call[c].committed => g.call[c].outcome # None
    BY <1>1 DEF Paired, CommittedHasOutcome
  <2>7. QED
    BY <1>2, <2>3, <2>4, <2>5, <2>6 DEF Has, CallItem, ResultItem
<1>6. \A c \in Calls : g.unknown[c] # "none" =>
         g.call[c].turn # None /\ g.call[c].intent /\ g.call[c].outcome # None
  BY <1>1, NoneAssumption DEF Accounted, Synthetic
<1>7. QED
  BY <1>3, <1>4, <1>5, <1>6 DEF ValidLedger

\* The accepted turns stay so and keep the place where they started.
RunsStand(g, m) == \A t \in Accepted(g) :
    m.run[t].status # "none" /\ m.run[t].start = g.run[t].start

\* What validate_replace asks is that the history is continued, that the runs
\* stand and that the recorded facts do.
LEMMA StandsExtends ==
  ASSUME NEW g, NEW m, Begins(g.history, m.history), RunsStand(g, m), FactsStand(g, m)
  PROVE  LedgerExtends(g, m)
<1>1. IsPrefixOf(g.history, m.history)
  BY BeginsIsPrefix
<1>2. \A t \in Accepted(g) : g.run[t].status \in Terminal => m.run[t] = g.run[t]
  BY DEF FactsStand, Accepted
<1>3. QED
  BY <1>1, <1>2 DEF LedgerExtends, RunsStand, FactsStand

LEMMA MutatedRunsStand ==
  ASSUME NEW g, Sound(g), NEW t \in Turns, g.run[t].status = "active", NEW h, NEW s, NEW f
  PROVE  RunsStand(g, Mutated(g, t, h, s, f))
<1>1. g.run \in [Turns -> Run]
  BY DEF Sound, LedgerType
<1>2. QED
  BY <1>1 DEF Mutated, LedgerOf, RunOf, RunsStand, Accepted

LEMMA BeginRunsStand ==
  ASSUME NEW g, Sound(g), NEW t \in Turns, NEW i, CanBegin(g, t, i)
  PROVE  RunsStand(g, Begin(g, t, i))
<1>1. g.run \in [Turns -> Run]
  BY DEF Sound, LedgerType
<1>2. QED
  BY <1>1 DEF Begin, CanBegin, LedgerOf, RunOf, RunsStand, Accepted

LEMMA FinalizeRunsStand ==
  ASSUME NEW g, Sound(g), NEW t \in Turns, NEW status \in Terminal
  PROVE  RunsStand(g, Finalize(g, t, status))
<1>1. g.run \in [Turns -> Run]
  BY DEF Sound, LedgerType
<1>2. QED
  BY <1>1 DEF Finalize, LedgerOf, RunOf, RunsStand, Accepted, Terminal

LEMMA RecoverRunsStand ==
  ASSUME NEW g, Sound(g)
  PROVE  RunsStand(g, Recover(g))
<1>1. CASE Active(g)
  BY <1>1, FinalizeRunsStand DEF Recover, Active, ActiveTurns, Terminal
<1>2. CASE ~Active(g)
  BY <1>2 DEF Recover, RunsStand, Accepted
<1>3. QED
  BY <1>1, <1>2

(***************************************************************************)
(* All of this together: the ledger m follows g by a command               *)
(***************************************************************************)
Follows(g, m) == /\ Good(m) /\ Sound(m)
                 /\ Begins(g.history, m.history)
                 /\ FactsStand(g, m)
                 /\ LedgerExtends(g, m)

LEMMA BeginFollows ==
  ASSUME NEW g, Good(g), Sound(g), NEW t \in Turns, NEW i \in Items, CanBegin(g, t, i)
  PROVE  Follows(g, Begin(g, t, i))
BY BeginGood, BeginSound, BeginRunsStand, StandsExtends DEF Follows

LEMMA ModelInputFollows ==
  ASSUME NEW g, Good(g), Sound(g), NEW t \in Turns, CanModelInput(g, t)
  PROVE  Follows(g, ModelInput(g, t))
<1>1. g.run[t].status = "active"
  BY DEF CanModelInput
<1>2. /\ Good(ModelInput(g, t)) /\ FactsStand(g, ModelInput(g, t))
      /\ RunsStand(g, ModelInput(g, t))
  BY <1>1, ModelGood, MutatedRunsStand DEF ModelInput
<1>3. QED
  BY <1>2, ModelInputSound, StandsExtends DEF Follows

LEMMA ModelMessageFollows ==
  ASSUME NEW g, Good(g), Sound(g), NEW t \in Turns, NEW i \in Items, CanModelMessage(g, t, i)
  PROVE  Follows(g, ModelMessage(g, t, i))
<1>1. g.run[t].status = "active"
  BY DEF CanModelMessage
<1>2. /\ Good(ModelMessage(g, t, i)) /\ FactsStand(g, ModelMessage(g, t, i))
      /\ RunsStand(g, ModelMessage(g, t, i))
  BY <1>1, ModelGood, MutatedRunsStand DEF ModelMessage
<1>3. QED
  BY <1>2, ModelMessageSound, StandsExtends DEF Follows

LEMMA ModelCallFollows ==
  ASSUME NEW g, Good(g), Sound(g), NEW t \in Turns, NEW c \in Calls, CanModelCall(g, t, c)
  PROVE  Follows(g, ModelCall(g, t, c))
<1>1. RunsStand(g, ModelCall(g, t, c))
  BY MutatedRunsStand DEF ModelCall, CanModelCall
<1>2. QED
  BY <1>1, ModelCallGood, ModelCallSound, StandsExtends DEF Follows

LEMMA StepFinishedFollows ==
  ASSUME NEW g, Good(g), Sound(g), NEW t \in Turns, NEW u \in Usages,
         CanModelStepFinished(g, t, u)
  PROVE  Follows(g, ModelStepFinished(g, t, u))
<1>1. g.run[t].status = "active"
  BY DEF CanModelStepFinished
<1>2. /\ Good(ModelStepFinished(g, t, u)) /\ FactsStand(g, ModelStepFinished(g, t, u))
      /\ RunsStand(g, ModelStepFinished(g, t, u))
  BY <1>1, ModelGood, MutatedRunsStand DEF ModelStepFinished
<1>3. QED
  BY <1>2, StepFinishedSound, StandsExtends DEF Follows

LEMMA IntentFollows ==
  ASSUME NEW g, Good(g), Sound(g), NEW t \in Turns, NEW c \in Calls, CanDispatchIntent(g, t, c)
  PROVE  Follows(g, DispatchIntent(g, t, c))
<1>1. RunsStand(g, DispatchIntent(g, t, c))
  BY MutatedRunsStand DEF DispatchIntent, CanDispatchIntent
<1>2. QED
  BY <1>1, IntentGood, IntentSound, StandsExtends DEF Follows

LEMMA OutcomeFollows ==
  ASSUME NEW g, Good(g), Sound(g), NEW t \in Turns, NEW c \in Calls, NEW r \in Reported,
         CanToolOutcome(g, t, c, r)
  PROVE  Follows(g, ToolOutcome(g, t, c, r))
<1>1. RunsStand(g, ToolOutcome(g, t, c, r))
  BY MutatedRunsStand DEF ToolOutcome, CanToolOutcome
<1>2. QED
  BY <1>1, OutcomeGood, OutcomeSound, StandsExtends DEF Follows

LEMMA BatchFollows ==
  ASSUME NEW g, Good(g), Sound(g), NEW t \in Turns, CanToolBatch(g, t)
  PROVE  Follows(g, ToolBatch(g, t))
<1>1. RunsStand(g, ToolBatch(g, t))
  BY MutatedRunsStand DEF ToolBatch, CanToolBatch
<1>2. QED
  BY <1>1, BatchGood, BatchSound, StandsExtends DEF Follows

LEMMA FinalizeFollows ==
  ASSUME NEW g, Good(g), Sound(g), NEW t \in Turns, g.run[t].status = "active",
         NEW status \in Terminal
  PROVE  Follows(g, Finalize(g, t, status))
BY FinalizeGood, FinalizeSound, FinalizeRunsStand, StandsExtends DEF Follows

LEMMA RecoverFollows ==
  ASSUME NEW g, Good(g), Sound(g)
  PROVE  Follows(g, Recover(g)) /\ ~Active(Recover(g))
BY RecoverGood, RecoverSound, RecoverRunsStand, StandsExtends DEF Follows

LEMMA AcknowledgeFollows ==
  ASSUME NEW g, Good(g), Sound(g), CanAcknowledge(g)
  PROVE  Follows(g, Acknowledge(g))
<1>1. RunsStand(g, Acknowledge(g))
  BY DEF Acknowledge, LedgerOf, RunsStand, Accepted
<1>2. QED
  BY <1>1, AcknowledgeGood, AcknowledgeSound, StandsExtends DEF Follows

\* A command that changes nothing.
LEMMA SameFollows ==
  ASSUME NEW g, Good(g), Sound(g)
  PROVE  Follows(g, g)
<1>1. Begins(g.history, g.history)
  BY DEF Begins, Sound, LedgerType
<1>2. FactsStand(g, g) /\ RunsStand(g, g)
  BY DEF FactsStand, RunsStand, Accepted
<1>3. QED
  BY <1>1, <1>2, StandsExtends DEF Follows
=============================================================================
