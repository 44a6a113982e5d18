---------------------------- MODULE MC_RunLedger ----------------------------
EXTENDS RunLedger, TLC
CONSTANTS t1, t2, c1, c2, i1, i2, i3

MCTurns == {t1, t2}
MCCalls == {c1, c2}
MCItems == {i1, i2, i3}
MCUsages == {0, 2}
Symmetry == Permutations(MCTurns) \cup Permutations(MCCalls) \cup Permutations(MCItems)
=============================================================================
