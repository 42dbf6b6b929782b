----------------------------- MODULE MCExecution -----------------------------
(* TLC instance of Execution: workers are model values. *)
EXTENDS Execution

CONSTANTS w1, w2

OneWorker == {w1}
TwoWorkers == {w1, w2}
NoWorker == {}
=============================================================================
