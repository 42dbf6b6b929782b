---------------------------- MODULE MCWorkerFiles ----------------------------
(* TLC instance of WorkerFiles: two processes, on one tmpdir or on two; one  *)
(* has two threads.                                                          *)
EXTENDS WorkerFiles, TLC

CONSTANTS p1, p2, d1, d2, t1, t2, t3, scene, image, junk

TwoProcs == {p1, p2}
TwoDirs == {d1, d2}
ThreeThreads == {t1, t2, t3}
ThreadsOf == [t \in ThreeThreads |-> IF t = t3 THEN p2 ELSE p1]
DutiesOf ==
  (t1 :> {"Get", "Transfer"}) @@ (t2 :> {"Run", "Delete"}) @@ (t3 :> {"Put", "Get", "Delete", "Compose"})
TheContents == {scene, image, junk}
TheSmall == {image}
TheImages == {image}
Symmetry == Permutations(TwoDirs)
=============================================================================
