----------------------------- MODULE MCMemory -----------------------------
(* Two coroutines over two sessions, two words and two entities.  *)
EXTENDS MemoryService, TLC

Symmetry == Permutations(Clients) \cup Permutations(Sessions) \cup Permutations(Words)
              \cup Permutations(Entities)
=============================================================================
