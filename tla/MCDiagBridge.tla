---------------------------- MODULE MCDiagBridge ----------------------------
(* PID 1, one forked user task and two kernel workers. *)
EXTENDS DiagBridge
=============================================================================
