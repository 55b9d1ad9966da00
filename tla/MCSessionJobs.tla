--------------------------- MODULE MCSessionJobs ----------------------------
(* Instances of SessionJobs for TLC.                                        *)
EXTENDS SessionJobs, TLC

\* Requests and project names are interchangeable in the safety runs.
Interchangeable == Permutations(Requests) \cup Permutations(Projects)
=============================================================================
