----------------------------- MODULE MCHeartbeat -----------------------------
(* Small instances of Heartbeat: pids meet only in the doctor's list. *)
EXTENDS Heartbeat, TLC
=============================================================================
