--------------------------- MODULE CaptureContract ---------------------------
(***************************************************************************)
(* What CaptureSupervisor promises: a lifecycle that never says Stopped    *)
(* while this process tracks capture rules in the host, and never says     *)
(* Running without them.                                                   *)
(***************************************************************************)
VARIABLES
    lifecycle,   \* the published Lifecycle
    captured     \* TRUE: the process tracks rules of its own in the host

vars == <<lifecycle, captured>>

Init == lifecycle = "Stopped" /\ captured = FALSE

\* A start claims the transition.
BeginStart == lifecycle = "Stopped" /\ lifecycle' = "Starting" /\ UNCHANGED captured

\* Rules come only while starting.
Install == lifecycle = "Starting" /\ captured' = TRUE /\ UNCHANGED lifecycle

\* A start succeeds.
Ready == lifecycle = "Starting" /\ captured /\ lifecycle' = "Running" /\ UNCHANGED captured

\* A stop, or a start that first retries a failed cleanup, claims the transition.
BeginStop ==
    /\ lifecycle \in {"Running", "CleanupFailed"}
    /\ lifecycle' = "Stopping"
    /\ UNCHANGED captured

\* Rules go while a start is rolled back or a stop is under way.
Remove == lifecycle \in {"Starting", "Stopping"} /\ captured' = FALSE /\ UNCHANGED lifecycle

\* A stop or a rollback is complete.
Done ==
    /\ lifecycle \in {"Starting", "Stopping"}
    /\ ~captured
    /\ lifecycle' = "Stopped"
    /\ UNCHANGED captured

\* A stop or a rollback is incomplete and will be retried.
Fail ==
    /\ lifecycle \in {"Starting", "Stopping"}
    /\ lifecycle' = "CleanupFailed"
    /\ UNCHANGED captured

\* The process dies; what it left in the host belongs to the next one.
Die == lifecycle' = "Stopped" /\ captured' = FALSE

Next == BeginStart \/ Install \/ Ready \/ BeginStop \/ Remove \/ Done \/ Fail \/ Die

Spec == Init /\ [][Next]_vars
=============================================================================
