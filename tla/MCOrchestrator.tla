--------------------------- MODULE MCOrchestrator ---------------------------
(* Instances of Orchestrator for TLC. *)
EXTENDS Orchestrator

CONSTANTS hosted

MCPrompt == <<3, 6>>
=============================================================================
