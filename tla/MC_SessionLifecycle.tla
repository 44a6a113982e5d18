------------------------ MODULE MC_SessionLifecycle ------------------------
(* Instances of SessionLifecycle for TLC. *)
EXTENDS SessionLifecycle

Symmetric == Permutations(Owners) \cup Permutations(Threads) \cup Permutations(Creators)
               \cup Permutations(Closers) \cup Permutations(Hangups)
=============================================================================
