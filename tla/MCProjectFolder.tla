--------------------------- MODULE MCProjectFolder --------------------------
(* ProjectFolder on two threads; the threads are interchangeable.           *)
EXTENDS ProjectFolder, TLC

Symmetry == Permutations(Threads)
=============================================================================
