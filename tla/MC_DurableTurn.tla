--------------------------- MODULE MC_DurableTurn ---------------------------
(* An instance of DurableTurn for TLC. *)
EXTENDS DurableTurn, TLC
CONSTANTS t1, t2, c1, c2, i1, i2

MCTurns == {t1, t2}
MCCalls == {c1, c2}
MCItems == {i1, i2}
MCExclusive == {c1}
MCUsages == {1}
Symmetry == Permutations(MCTurns) \cup Permutations(MCItems)
=============================================================================
