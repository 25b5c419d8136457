------------------------------ MODULE MCTuyaTx ------------------------------
(* The heartbeat, STDK's command task and the receive task; one frame with a
   payload and one without. *)
EXTENDS TuyaTx

CONSTANTS heartbeat, cmd, rx, dpWrite, queryAll

MCTasks == {heartbeat, cmd, rx}
MCFrames == {dpWrite, queryAll}
MCBare == {queryAll}
=============================================================================
