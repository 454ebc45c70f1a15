----------------------------- MODULE MCWorkflow -----------------------------
(* Workflow for TLC. *)
EXTENDS Workflow
=============================================================================
