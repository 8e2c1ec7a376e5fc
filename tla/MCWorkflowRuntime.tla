------------------------- MODULE MCWorkflowRuntime -------------------------
(* Instances of WorkflowRuntime.                                           *)
EXTENDS WorkflowRuntime

CONSTANTS x1, x2, v1, v2, v3

MCBranches == 1..2
MCParallel == <<<<x1>>, <<x2>>>>
\* Every attempt has new code, and its activities return something else.
MCDeployed == <<{v1}, {v2}, {v3}>>
MCReturns  == <<{v1}, {v2}, {v3}>>
MCDeployed2 == <<{v1}, {v2}>>
MCReturns2  == <<{v1}, {v2}>>
MCTimed == {2}
NoneTimed == {}
=============================================================================
