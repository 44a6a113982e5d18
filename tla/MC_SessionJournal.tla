-------------------------- MODULE MC_SessionJournal --------------------------
EXTENDS SessionJournal, TLC
CONSTANTS t1, t2, c1, i1, i2, th1, th2, th3, k1, k2

MCTurns == {t1, t2}
MCCalls == {c1}
MCItems == {i1, i2}
MCUsages == {0}
MCThreads == {th1, th2, th3}
MCCallers == {k1, k2}
Symmetry == Permutations(MCTurns) \cup Permutations(MCItems) \cup Permutations(MCCallers)
              \cup Permutations({th2, th3})
=============================================================================
