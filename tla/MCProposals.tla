---------------------------- MODULE MCProposals -----------------------------
(* The approval desk, and what an approval on it does to the state file.    *)
EXTENDS MCStateApproval, StatePatch

CONSTANTS other, focus, problem, materials

\* Two of the headings, with caps that an answer can exceed.
MCCaps == focus :> 2 @@ problem :> 1

\* Whatever the file and the answer a proposal was made from, its card tells
\* what approving it changes.
CardTellsAll == pending # None => PatchesAreTold
=============================================================================
