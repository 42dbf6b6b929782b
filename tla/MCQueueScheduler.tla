--------------------------- MODULE MCQueueScheduler ---------------------------
(* TLC instance of QueueScheduler: workers and tasks are model values. *)
EXTENDS QueueScheduler

CONSTANTS w1, w2, p1, p2, r1, r2

TwoWorkers == {w1, w2}
OneWorker == {w1}
TwoProducing == {p1, p2}
OneProducing == {p1}
OneReducing == {r1}
TwoReducing == {r1, r2}
Nothing == {}
AllFaults == {"aborted", "exited"}

\* Filter is Array.prototype.filter, on every list of up to five names: the
\* members to keep, in the order and as often as the list has them.
ShortLists == UNION {[1..n -> Workers] : n \in 0..5}

ASSUME FilterSelects ==
  \A list \in ShortLists, keep \in SUBSET Workers :
    Filter(list, keep) = SelectSeq(list, LAMBDA w : w \in keep)
=============================================================================
