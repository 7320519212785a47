---------------------------- MODULE MCWorkflowRun ---------------------------
(* Instances of WorkflowRun for TLC.                                       *)
EXTENDS WorkflowRun

CONSTANTS c1, c2

TheContacts == {c1, c2}
TheAudience == <<c1, c2>>
=============================================================================
