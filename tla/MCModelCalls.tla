---------------------------- MODULE MCModelCalls ----------------------------
(* ModelCalls for TLC: two threads, one provider of each way to be called. *)
EXTENDS ModelCalls

CONSTANTS r1, r2, j1
=============================================================================
