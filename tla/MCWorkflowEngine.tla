-------------------------- MODULE MCWorkflowEngine --------------------------
(* An instance of WorkflowEngine.                                          *)
EXTENDS MCWorkflowRuntime, WorkflowEngine
=============================================================================
