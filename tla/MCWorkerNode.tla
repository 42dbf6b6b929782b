----------------------------- MODULE MCWorkerNode -----------------------------
(* TLC instance of WorkerNode: two producing tasks and a reducing one of an  *)
(* execution, whose session has two resources.                               *)
EXTENDS WorkerNode

CONSTANTS a1, a2, a3, shot, scene

ThreeTasks == {a1, a2, a3}
TypeOf == [t \in ThreeTasks |-> IF t = a3 THEN "REDUCING" ELSE "PRODUCING"]
SessionOf == [t \in ThreeTasks |-> scene]
ExecutionOf == [t \in ThreeTasks |-> shot]
TwoEach == [s \in {scene} |-> 2]
NoSession == {}
OneSession == {scene}
OneExecution == {shot}
=============================================================================
