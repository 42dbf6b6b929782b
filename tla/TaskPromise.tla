----------------------------- MODULE TaskPromise -----------------------------
(***************************************************************************)
(* What the master promises to an execution about a task it created: the   *)
(* promise returned by delayUntilFinishTask (lib/executions.js:336-342) is *)
(* settled at most once, and never changes its mind.  A promise can only   *)
(* disappear with the master process itself.                               *)
(***************************************************************************)
CONSTANT Tasks

VARIABLE promise     \* Tasks -> state of the promise handed out for the task

States == {"absent", "pending", "finished", "failed", "dropped"}

TypeOK == promise \in [Tasks -> States]

Init == promise = [t \in Tasks |-> "absent"]

\* A task is created and its promise handed to the execution.
Make(t) ==
  /\ promise[t] = "absent"
  /\ promise' = [promise EXCEPT ![t] = "pending"]

\* The promise is resolved (finish) or rejected (failed, timeout).
Settle(t) ==
  /\ promise[t] = "pending"
  /\ \E verdict \in {"finished", "failed"} :
        promise' = [promise EXCEPT ![t] = verdict]

\* The master process exits: every pending promise goes with it.
Drop ==
  promise' = [t \in Tasks |->
                IF promise[t] = "pending" THEN "dropped" ELSE promise[t]]

Next == Drop \/ \E t \in Tasks : Make(t) \/ Settle(t)

Spec == Init /\ [][Next]_promise
=============================================================================
