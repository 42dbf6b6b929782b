----------------------------- MODULE MCHeartbeat -----------------------------
(* TLC instance of Heartbeat: instance names are model values. *)
EXTENDS Heartbeat

CONSTANTS w1, w2

OneWorker == {w1}
TwoWorkers == {w1, w2}
=============================================================================
