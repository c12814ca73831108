--------------------------- MODULE DriverLifecycle ---------------------------
(***************************************************************************)
(* What the scheduler driver promises its caller (spec 4.2, 8.4, 8.9):     *)
(* the status moves NOT_STARTED -> RUNNING -> STOPPED or ABORTED and never *)
(* back, and Join returns NOT_STARTED before a start, or the terminal      *)
(* status the driver ended in. Start, Stop and Abort are atomic here; the  *)
(* SchedulerDriver module splits them into the steps of several threads    *)
(* and is checked to implement this module.                                *)
(***************************************************************************)

VARIABLES status, joinRes

Terminal == {"STOPPED", "ABORTED"}

Init == status = "NOT_STARTED" /\ joinRes = "none"

Start == status = "NOT_STARTED" /\ status' = "RUNNING" /\ UNCHANGED joinRes

Finish == status = "RUNNING" /\ status' \in Terminal /\ UNCHANGED joinRes

\* Join returns the status when it is not RUNNING: at once before a start,
\* or after the stop signal once the driver has stopped or aborted.
Join ==
    /\ joinRes = "none"
    /\ status # "RUNNING"
    /\ joinRes' = status
    /\ UNCHANGED status

Next == Start \/ Finish \/ Join

Spec == Init /\ [][Next]_<<status, joinRes>>

=============================================================================
