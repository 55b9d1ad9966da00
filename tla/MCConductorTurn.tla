-------------------------- MODULE MCConductorTurn ---------------------------
(* One job, and what its models are sent (InputBudget).                     *)
EXTENDS ConductorTurn, InputBudget

\* Lengths on both sides of the notice, its third and the margin.
MCLengths  == {0, 1, 4, 13}
MCContexts == {0, 12, 15, 17, 20, 25}

\* Whatever outputs the job found, the ones it saves itself reach the models it
\* asks after: the Conductor's next exchange lists them, in full unless the state
\* reflects them, and the next expert is given or told of them; and what is cut of
\* an expert's inputs and of the history is cut as InputsFit says.  It says nothing
\* of how much the Conductor is sent besides the history.
OutputsReachModels ==
    /\ InputsFit
    /\ \A earlier \in SUBSET Experts :
         LET done == earlier \cup Range(ran)
         IN  /\ step = "ask" => ConductorSees(done)
             /\ step = "work" => ExpertSees(expert, done)
=============================================================================
