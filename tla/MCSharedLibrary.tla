--------------------------- MODULE MCSharedLibrary ---------------------------
(* Threads, objects and images are interchangeable. *)
EXTENDS SharedLibrary

Symmetry == Permutations(Threads) \cup Permutations(Objects) \cup Permutations(Images)
=============================================================================
