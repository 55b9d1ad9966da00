------------------------------ MODULE MCDrawingTable ------------------------------
(* TLC instances of DrawingTable: ids that no property tells apart are interchangeable. *)
EXTENDS DrawingTable, TLC

Interchangeable == Permutations(Names) \cup Permutations(Experts)
=============================================================================
