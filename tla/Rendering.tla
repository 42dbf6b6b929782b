------------------------------ MODULE Rendering ------------------------------
(***************************************************************************)
(* What an execution promises to who created it (lib/executions.js:7-334). *)
(* Its promise is settled at most once.  Each sample has one fate and      *)
(* never an earlier one again: what failed, or was given up or dropped, is *)
(* not in the image.  While the execution runs it has, or is making,       *)
(* enough samples, those that were dropped included; once rejected it asks *)
(* for no more.  The final reduction is tried with nothing else under way, *)
(* and the image is made of all the samples kept.                          *)
(***************************************************************************)
EXTENDS Naturals, FiniteSets

CONSTANTS
  Asked,       \* samples asked for
  FailLimit    \* failures of producing tasks that reject the execution

VARIABLES
  fate,        \* what became of each sample, by its number
  tries,       \* tries left of the pending final reduction, 0 if there is none
  outcome,     \* state of the promise
  result       \* samples in the image delivered

\* The samples with a fate of F.
With(F) == {i \in DOMAIN fate : fate[i] \in F}

Init == fate = <<>> /\ tries = 0 /\ outcome = "idle" /\ result = {}

Start ==
  /\ outcome = "idle" /\ outcome' = "running"
  /\ fate' = [i \in 1..Asked |-> "producing"]
  /\ UNCHANGED <<tries, result>>

\* A sample is produced or its task fails; one that was kept is given up by a
\* reducer, or dropped by an exception.
Moves == {<<"producing", "kept">>, <<"producing", "failed">>,
          <<"kept", "missed">>, <<"kept", "dropped">>}

Onwards ==
  \A i \in DOMAIN fate :
    /\ i \in DOMAIN fate'
    /\ fate'[i] = fate[i] \/ <<fate[i], fate'[i]>> \in Moves

\* Samples move on and new ones are asked for, enough to make up for those that
\* were lost.
Render ==
  /\ Onwards
  /\ \A i \in DOMAIN fate' \ DOMAIN fate : fate'[i] = "producing"
  /\ Cardinality(With({"producing", "kept", "dropped"})') >= Asked

\* The final reduction is queued with three tries, and loses one by failing or
\* all by missing images or by an exception.
Try ==
  /\ \/ tries' = tries
     \/ tries = 0 /\ tries' = 3
     \/ tries > 0 /\ tries' \in {0, tries - 1}
  /\ tries' > 0 => With({"producing"})' = {}

Run == outcome = "running" /\ outcome' = "running" /\ Render /\ Try /\ UNCHANGED result

Finish ==
  /\ outcome = "running" /\ outcome' = "finished"
  /\ tries > 0 /\ tries' = 0
  /\ result' = With({"kept"})
  /\ UNCHANGED fate

\* Too many failures, or the last try failed.
Reject ==
  /\ outcome = "running" /\ outcome' = "rejected"
  /\ Onwards /\ DOMAIN fate' = DOMAIN fate
  /\ Cardinality(With({"failed"})') >= FailLimit \/ tries = 1
  /\ tries' = 0
  /\ UNCHANGED result

\* The tasks that were pending when the execution was rejected.
Abandon ==
  /\ outcome = "rejected"
  /\ Onwards /\ DOMAIN fate' = DOMAIN fate
  /\ UNCHANGED <<tries, outcome, result>>

Next == Start \/ Run \/ Finish \/ Reject \/ Abandon

Spec == Init /\ [][Next]_<<fate, tries, outcome, result>>
=============================================================================
