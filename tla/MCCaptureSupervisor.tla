------------------------ MODULE MCCaptureSupervisor ------------------------
(* Instance of CaptureSupervisor for TLC. *)
EXTENDS CaptureSupervisor

CONSTANTS x1, x2

MCTasks == {x1, x2}
=============================================================================
