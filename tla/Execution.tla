------------------------------ MODULE Execution ------------------------------
(***************************************************************************)
(* One execution: the closure of _queueTasksForExecution                   *)
(* (lib/executions.js:63-334) from createExecution to its last image or    *)
(* its rejection.  Producing tasks render one sample each, medium reducing *)
(* tasks merge groups of samples, the final one merges those; whatever is  *)
(* lost on the way is to be produced again.                                *)
(*                                                                         *)
(* Samples are numbered in the order they are queued.  An image is the set *)
(* of samples in it and the worker that keeps it; its weight is the size   *)
(* of that set.  The tasks are settled by the cluster (QueueScheduler):    *)
(* each action is a promise callback with the run() it ends in.            *)
(***************************************************************************)
EXTENDS Naturals, FiniteSets, FiniteSetsExt, SequencesExt

CONSTANTS
  Workers,          \* names of the workers
  Removable,        \* workers that the master may remove and recognize again
  Parallel,         \* execution.parallel
  FailDivisor,      \* 10 in the code: one failure in ten rejects
  SchedulerThrows,  \* TRUE: scheduler.schedule() may throw (QueueScheduler)
  MaxFaults         \* bound on failed tasks, and on reductions missing images

ASSUME ParallelPositive == Parallel \in Nat \ {0}
ASSUME DivisorPositive == FailDivisor \in Nat \ {0}
ASSUME RemovableWorkers == Removable \subseteq Workers
ASSUME ThrowsKnown == SchedulerThrows \in BOOLEAN
ASSUME FaultsBound == MaxFaults \in Nat

\* Math.max(Math.floor(Math.sqrt(parallel)), 1)
reducingUnit == Max({u \in 1..Parallel : u * u <= Parallel})

\* Math.max(Math.floor(parallel * 0.1), 1)
producingFailLimit == Max({Parallel \div FailDivisor, 1})

VARIABLES
  numProducingTarget, numProducingInQueue,
  numProducingFinished, numProducingFailed,
  numMediumReducingInQueue,
  waitingForReducing,  \* images of single samples, not yet given to a reducer
  mediumReduced,       \* images made by the medium reducers
  isInFinalReducing,
  producing,           \* samples whose producing task is not settled
  fetching,            \* those of them whose resources are not in place yet
  mediums,             \* pending medium reducing tasks: [current, retry]
  finals,              \* retry counters of the pending final reducing tasks
  workers,             \* Master.workers
  running,             \* session.running
  last,                \* samples of execution.last
  outcome,             \* "idle", "running", "finished" or "rejected"
  faults,              \* tasks failed and reductions with images missing
  unique,              \* samples queued so far
  missed,              \* history: samples a reducer gave up
  orphaned,            \* history: samples dropped by a callback that threw
  thrown               \* history: a callback threw

counters == <<numProducingTarget, numProducingInQueue, numProducingFinished,
              numProducingFailed, numMediumReducingInQueue>>
closure == <<counters, waitingForReducing, mediumReduced, isInFinalReducing,
             producing, fetching, mediums, finals, unique>>
history == <<missed, orphaned, thrown>>
vars == <<closure, workers, running, last, outcome, faults, history>>

Init ==
  /\ numProducingTarget = Parallel
  /\ numProducingInQueue = 0 /\ numProducingFinished = 0
  /\ numProducingFailed = 0 /\ numMediumReducingInQueue = 0
  /\ waitingForReducing = {} /\ mediumReduced = {}
  /\ isInFinalReducing = FALSE
  /\ producing = {} /\ fetching = {} /\ mediums = {} /\ finals = <<>>
  /\ workers = Workers /\ running = FALSE
  /\ last = {} /\ outcome = "idle" /\ faults = 0 /\ unique = 0
  /\ missed = {} /\ orphaned = {} /\ thrown = FALSE

-----------------------------------------------------------------------------
(* The variables of the closure, as a callback has changed them so far. *)
Now == [target |-> numProducingTarget, inQueue |-> numProducingInQueue,
        finished |-> numProducingFinished, failed |-> numProducingFailed,
        mediumInQueue |-> numMediumReducingInQueue,
        waiting |-> waitingForReducing, reduced |-> mediumReduced,
        inFinal |-> isInFinalReducing, producing |-> producing,
        fetching |-> fetching, mediums |-> mediums, finals |-> finals,
        unique |-> unique]

\* The callback leaves them so, and the execution with outcome o.
Commit(c, o) ==
  /\ numProducingTarget' = c.target /\ numProducingInQueue' = c.inQueue
  /\ numProducingFinished' = c.finished /\ numProducingFailed' = c.failed
  /\ numMediumReducingInQueue' = c.mediumInQueue
  /\ waitingForReducing' = c.waiting /\ mediumReduced' = c.reduced
  /\ isInFinalReducing' = c.inFinal /\ producing' = c.producing
  /\ fetching' = c.fetching /\ mediums' = c.mediums /\ finals' = c.finals
  /\ unique' = c.unique /\ outcome' = o

Returns(c, o) == Commit(c, o) /\ UNCHANGED <<orphaned, thrown>>

\* It throws, and its promise swallows the exception: the rest is skipped, and
\* the samples dropped are remembered by nobody.
Throws(c, dropped) ==
  /\ Commit(c, outcome)
  /\ thrown' = TRUE
  /\ orphaned' = orphaned \cup dropped

Samples(images) == UNION {m.samples : m \in images}

\* The images summed up hold disjoint samples (SampleOnce), so the sum of
\* their weights is the number of samples they hold together.
Weight(images) == Cardinality(Samples(images))

\* createReducingTask reads the host of every source's worker, a TypeError for
\* a worker not recognized.  The schedule() that follows may throw too.
Reachable(images) == {m.worker : m \in images} \subseteq workers
MayThrow(images) == ~Reachable(images) \/ SchedulerThrows

\* The images still waiting once current has been given to a reducer.
StillWaiting_All(c, current) == c.waiting                      \* mutant
StillWaiting(c, current) == c.waiting \ current

\* queueMediumReducingTask(current, retry), for images that still wait (and are
\* forgotten there only if it returns, 189-190) or that a failed task held.
QueueMediumReducingTask(c, current, retry) ==
  \/ /\ Reachable(current)
     /\ Returns([c EXCEPT !.mediums = @ \cup {[current |-> current, retry |-> retry]},
                          !.mediumInQueue = @ + 1,
                          !.waiting = StillWaiting(c, current)], outcome)
  \/ /\ MayThrow(current)
     /\ Throws(c, Samples(current \ c.waiting))

\* queueFinalReducingTask(retry)
QueueFinalReducingTask(c, retry) ==
  \/ /\ Reachable(c.reduced)
     /\ Returns([c EXCEPT !.finals = Append(@, retry), !.inFinal = TRUE], outcome)
  \/ /\ MayThrow(c.reduced)
     /\ Throws(c, {})

\* All samples asked for are produced and reduced.
ReadyForFinal_Early(c) ==                                      \* mutant
  c.target = c.finished /\ c.inQueue = 0 /\ c.waiting = {}
ReadyForFinal(c) ==
  /\ c.target = c.finished /\ c.inQueue = 0
  /\ c.waiting = {} /\ c.mediumInQueue = 0

\* Enough images wait for a medium reduction, or no more are to come.
MediumDue_Unit(c) == Cardinality(c.waiting) >= reducingUnit    \* mutant
MediumDue(c) ==
  \/ Cardinality(c.waiting) >= reducingUnit
  \/ c.waiting # {} /\ c.target = c.finished /\ ~c.inFinal

\* queueProducingTask() for each sample missing from the target: hasCachedWorker
\* asks for a length >= 0, so that all of them are queued at once.
Missing_NoQueue(c) == c.target - c.finished                    \* mutant
Missing_Once(c) == IF c.unique = 0 THEN Parallel ELSE 0        \* mutant
Missing(c) == c.target - c.inQueue - c.finished

QueueProducingTasks(c) ==
  LET new == (c.unique + 1)..(c.unique + Missing(c))
  IN IF Missing(c) > 0
       THEN [c EXCEPT !.producing = @ \cup new, !.fetching = @ \cup new,
                      !.inQueue = @ + Missing(c), !.unique = @ + Missing(c)]
       ELSE c

\* run(), from the closure c.
Rejects_Early(c) == c.failed >= producingFailLimit - 1         \* mutant
Rejects(c) == c.failed >= producingFailLimit

Run(c) ==
  LET queued == QueueProducingTasks(c)
  IN \/ /\ Rejects(c)
        /\ Returns(c, IF outcome = "running" THEN "rejected" ELSE outcome)
     \/ /\ ~Rejects(c) /\ ReadyForFinal(c)
        /\ QueueFinalReducingTask(c, 3)
     \/ /\ ~Rejects(c) /\ ~ReadyForFinal(c)
        /\ \/ Missing(c) > 0 /\ SchedulerThrows /\ Throws(queued, {})
           \/ MediumDue(queued) /\ QueueMediumReducingTask(queued, queued.waiting, 3)
           \/ ~MediumDue(queued) /\ Returns(queued, outcome)

-----------------------------------------------------------------------------
(* createExecution, and the promise callbacks. *)

CreateExecution ==
  /\ outcome = "idle" /\ ~running
  /\ running' = TRUE
  /\ LET c == QueueProducingTasks(Now)
     IN \/ Returns(c, "running")
        \/ SchedulerThrows /\ Commit(c, "running") /\ thrown' = TRUE
           /\ UNCHANGED orphaned
  /\ UNCHANGED <<workers, last, faults, missed>>

\* fetchingFinished
FetchingFinished(i) ==
  /\ i \in fetching
  /\ Run([Now EXCEPT !.fetching = @ \ {i}])
  /\ UNCHANGED <<workers, running, last, faults, missed>>

\* The producing task of sample i is settled.
Produced_Fetching(i) ==                                        \* mutant
  [Now EXCEPT !.finished = @ + 1, !.inQueue = @ - 1, !.producing = @ \ {i}]
Produced(i) ==
  [Now EXCEPT !.finished = @ + 1, !.inQueue = @ - 1,
              !.producing = @ \ {i}, !.fetching = @ \ {i}]

\* producingTaskFinished, by worker w: it told that the resources are there
\* before, on the same connection (worker.js:146-158).
ProducingTaskFinished(i, w) ==
  /\ i \in producing \ fetching
  /\ Run([Produced(i) EXCEPT
            !.waiting = @ \cup {[samples |-> {i}, worker |-> w]}])
  /\ UNCHANGED <<workers, running, last, faults, missed>>

\* producingTaskFailed: another sample is to fill the failure.
ProducingTaskFailed(i) ==
  /\ i \in producing
  /\ faults < MaxFaults /\ faults' = faults + 1
  /\ Run([Produced(i) EXCEPT !.target = @ + 1, !.failed = @ + 1])
  /\ UNCHANGED <<workers, running, last, missed>>

\* A medium reducing task is settled.
MediumSettled(m) == [Now EXCEPT !.mediumInQueue = @ - 1, !.mediums = @ \ {m}]

\* A reducer merges the sources it could retrieve (compositor.js:109-129);
\* missing some is a fault.
Retrieved(sources, got) ==
  /\ got \subseteq sources /\ got # {}
  /\ faults' = IF got = sources THEN faults ELSE faults + 1
  /\ faults' <= MaxFaults

\* mediumReducingTaskFinished, by worker w, with the images it got.
Refill_None(current, got) == 0                                 \* mutant
Refill(current, got) == Cardinality(current) - Weight(got)

MediumReducingTaskFinished(m, got, w) ==
  /\ m \in mediums
  /\ Retrieved(m.current, got)
  /\ missed' = missed \cup Samples(m.current \ got)
  /\ Run([MediumSettled(m) EXCEPT
            !.reduced = @ \cup {[samples |-> Samples(got), worker |-> w]},
            !.target = @ + Refill(m.current, got)])
  /\ UNCHANGED <<workers, running, last>>

\* mediumReducingTaskFailed: retried until retry is used up.
MediumReducingTaskFailed(m) ==
  /\ m \in mediums
  /\ faults < MaxFaults /\ faults' = faults + 1
  /\ \/ /\ m.retry > 1
        /\ QueueMediumReducingTask(MediumSettled(m), m.current, m.retry - 1)
        /\ UNCHANGED missed
     \/ /\ m.retry = 1
        /\ missed' = missed \cup Samples(m.current)
        /\ Run([MediumSettled(m) EXCEPT !.target = @ + Cardinality(m.current)])
  /\ UNCHANGED <<workers, running, last>>

\* A final reducing task is settled.
FinalSettled(k) == [Now EXCEPT !.finals = RemoveAt(@, k), !.inFinal = FALSE]

\* finalReducingTaskFinished with the images got: either some weight is missing,
\* and is produced again, or the execution is finished.
FinalReducingTaskFinished(k, got) ==
  /\ k \in DOMAIN finals
  /\ Retrieved(mediumReduced, got)
  /\ LET lacking == Weight(mediumReduced) - Weight(got)
     IN \/ /\ lacking > 0
           /\ Run([FinalSettled(k) EXCEPT !.target = @ + lacking])
           /\ UNCHANGED <<running, last>>
        \/ /\ lacking = 0
           /\ Returns(FinalSettled(k), "finished")
           /\ last' = Samples(got)
           /\ running' = FALSE
  /\ UNCHANGED <<workers, missed>>

\* finalReducingTaskFailed: retried until retry is used up, then rejected.
FinalReducingTaskFailed(k) ==
  /\ k \in DOMAIN finals
  /\ faults < MaxFaults /\ faults' = faults + 1
  /\ \/ finals[k] > 1 /\ QueueFinalReducingTask(FinalSettled(k), finals[k] - 1)
     \/ finals[k] = 1 /\ Returns(FinalSettled(k), "rejected")
  /\ UNCHANGED <<workers, running, last, missed>>

-----------------------------------------------------------------------------
(* The heartbeat (Heartbeat). *)

RemoveWorker(w) ==
  /\ w \in Removable \cap workers
  /\ workers' = workers \ {w}
  /\ UNCHANGED <<closure, running, last, outcome, faults, history>>

RecognizeWorker(w) ==
  /\ w \in Removable \ workers
  /\ workers' = workers \cup {w}
  /\ UNCHANGED <<closure, running, last, outcome, faults, history>>

ProducingSettled ==
  \E i \in producing :
    \/ \E w \in Workers : ProducingTaskFinished(i, w)
    \/ ProducingTaskFailed(i)

ReducingSettled ==
  \/ \E m \in mediums :
       \/ \E got \in SUBSET m.current, w \in Workers :
            MediumReducingTaskFinished(m, got, w)
       \/ MediumReducingTaskFailed(m)
  \/ \E k \in DOMAIN finals :
       \/ \E got \in SUBSET mediumReduced : FinalReducingTaskFinished(k, got)
       \/ FinalReducingTaskFailed(k)

Fetch == \E i \in fetching : FetchingFinished(i)

Next ==
  \/ CreateExecution
  \/ Fetch
  \/ ProducingSettled
  \/ ReducingSettled
  \/ \E w \in Workers : RemoveWorker(w) \/ RecognizeWorker(w)

Spec == Init /\ [][Next]_vars

\* A producing task is settled, by its answer or by its timer (ProducingEnds of
\* QueueScheduler), once a worker is free for it.  Nothing of the kind is true of
\* a reducing task (ReducingSettles there).
Fairness == WF_vars(Fetch \/ ProducingSettled) /\ WF_vars(CreateExecution)

FairSpec == Spec /\ Fairness

-----------------------------------------------------------------------------
(* Properties. *)

Image == [samples : SUBSET (1..unique), worker : Workers]

TypeOK ==
  /\ {numProducingTarget, numProducingInQueue, numProducingFinished,
      numProducingFailed, numMediumReducingInQueue, faults, unique} \subseteq Nat
  /\ waitingForReducing \subseteq Image /\ mediumReduced \subseteq Image
  /\ producing \subseteq 1..unique /\ fetching \subseteq producing
  /\ mediums \subseteq [current : SUBSET Image, retry : 1..3]
  /\ finals \in Seq(1..3)
  /\ isInFinalReducing \in BOOLEAN
  /\ workers \subseteq Workers /\ running \in BOOLEAN
  /\ last \subseteq 1..unique
  /\ outcome \in {"idle", "running", "finished", "rejected"}
  /\ missed \subseteq 1..unique /\ orphaned \subseteq 1..unique
  /\ thrown \in BOOLEAN

\* The execution still expects to be told about some task.
Expecting == producing # {} \/ mediums # {} \/ finals # <<>>

\* "numProducingTarget = numProducingInQueue + numProducingFinished"
\* (executions.js:90), between any two callbacks of a running execution, even
\* when one of them threw; and the counters count the tasks that are pending.
CountersAgree ==
  /\ outcome = "running" =>
       numProducingTarget = numProducingInQueue + numProducingFinished
  /\ outcome # "idle" =>
       /\ numProducingInQueue = Cardinality(producing)
       /\ numMediumReducingInQueue = Cardinality(mediums)

\* The images that reducers work on, and all those the execution keeps.
Merging == UNION {m.current : m \in mediums}
Kept == waitingForReducing \cup Merging \cup mediumReduced

\* No sample is ever counted twice, and none is forgotten: each sample queued is
\* on its way, failed, in one image that waits, is with one medium reducer or is
\* reduced, or was given up (executions.js:190, 221, 253-271).
SampleOnce ==
  /\ \A a, b \in Kept : a # b => a.samples \cap b.samples = {}
  /\ waitingForReducing \cap Merging = {}
  /\ mediumReduced \cap (waitingForReducing \cup Merging) = {}
  /\ \A m, n \in mediums : m # n => m.current \cap n.current = {}
  /\ producing \cap (Samples(Kept) \cup missed \cup orphaned) = {}
  /\ Samples(Kept) \cap (missed \cup orphaned) = {} /\ missed \cap orphaned = {}
  /\ Cardinality(producing \cup Samples(Kept) \cup missed \cup orphaned)
       + numProducingFailed = unique

\* While the final reduction is pending nothing else is: no second final task,
\* no sample on its way (executions.js:152-159, 284-318).
FinalAlone ==
  /\ Len(finals) <= 1
  /\ isInFinalReducing = (finals # <<>>)
  /\ finals # <<>> =>
       producing = {} /\ mediums = {} /\ waitingForReducing = {}

\* A finished execution delivers at least the samples that were asked for,
\* however many tasks failed and images were missed; only samples that a
\* callback dropped by throwing can lack (executions.js:255-271, 292-302).  It
\* delivers no more than were asked for if no task failed and no reduction
\* missed an image, whatever was thrown.
WeightDelivered ==
  outcome = "finished" =>
    /\ Cardinality(last) + Cardinality(orphaned) >= Parallel
    /\ ~thrown => Cardinality(last) >= Parallel
    /\ faults = 0 => Cardinality(last) = Parallel

\* A running execution none of whose callbacks threw has a task pending: the
\* debugging assertion of master.js:117-131.
NotStuck == outcome = "running" /\ ~thrown => Expecting

\* What became of each sample, and the tries left of the final reduction.
Fate ==
  LET kept == Samples(Kept)
  IN [i \in 1..unique |->
        IF i \in producing THEN "producing"
        ELSE IF i \in kept THEN "kept"
        ELSE IF i \in missed THEN "missed"
        ELSE IF i \in orphaned THEN "dropped"
        ELSE "failed"]
Tries == IF finals = <<>> THEN 0 ELSE Head(finals)

Promised == INSTANCE Rendering WITH
  Asked <- Parallel, FailLimit <- producingFailLimit,
  fate <- Fate, tries <- Tries, result <- last

\* The execution is a Rendering: its promise is settled once, and rejected only
\* for producing failures over the limit or three final failures; no sample comes
\* back, and the image has all that were kept (executions.js:140-143, 288-328).
RenderingSpec == Promised!Spec

\* If no worker is removed and faults are finite, an execution that does not come
\* to an end has a reducing task pending from some time on: there is nothing else
\* it can hang on, neither images that no reducer is started for nor samples that
\* nobody queues (executions.js:129-161).  A reducing task may stay unanswered
\* for ever, and the execution with it (executions.js:244-248).
Ends ==
  \/ <>(outcome \in {"finished", "rejected"})
  \/ <>[](mediums # {} \/ finals # <<>>)

=============================================================================
