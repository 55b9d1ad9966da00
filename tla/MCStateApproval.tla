-------------------------- MODULE MCStateApproval ---------------------------
(* Instances of StateApproval for TLC. *)
EXTENDS StateApproval, TLC

CONSTANTS t0, t1

\* t0 lacks the row of a configured expert.
MCSynced == t0 :> t1 @@ t1 :> t1

Interchangeable == Permutations(Requests)
=============================================================================
