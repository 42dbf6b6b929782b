---------------------------- MODULE QueueScheduler ----------------------------
(***************************************************************************)
(* The master's task path: the queue scheduler (lib/schedulers/queue.js),  *)
(* the task RPC and its timers (lib/tasks.js, the promise tables of        *)
(* lib/executions.js:336-411) and the RPC handlers of lib/master.js that   *)
(* drive them.  Every action is one turn of the master's event loop with   *)
(* everything it calls.                                                    *)
(*                                                                         *)
(* The clients (executions) create tasks, the heartbeat (Heartbeat.tla)    *)
(* adds and removes recognized workers, a worker answers a run, or never   *)
(* does.  Delivery is merged with sending: a worker's answer that is still *)
(* on the wire is a run that is not over.                                  *)
(***************************************************************************)
EXTENDS Naturals, FiniteSets, SequencesExt, SeqFilter

CONSTANTS
  Workers,        \* names of the worker instances
  Producing,      \* names of the PRODUCING tasks that may be created
  Reducing,       \* names of the REDUCING tasks that may be created
  Retried,        \* tasks whose answer a worker's client may send twice
  FaultOutcomes   \* what an exception out of schedule() can do to the master

ASSUME WorkersFinite == IsFiniteSet(Workers)
ASSUME TaskTypes == Producing \cap Reducing = {}
ASSUME RetriedTasks == Retried \subseteq Producing \cup Reducing
ASSUME FaultsKnown == FaultOutcomes \subseteq {"aborted", "exited"}

Tasks == Producing \cup Reducing

VARIABLES
  queuedTasks,       \* QueueScheduler.queuedTasks
  waitingTasks,      \* keys of QueueScheduler.waitingTasks
  unusedWorkers,     \* QueueScheduler.unusedWorkers, a list that may repeat
  usedWorkers,       \* keys of QueueScheduler.usedWorkers
  workers,           \* keys of Master.workers, the recognized workers
  taskTimeouts,      \* keys of Master.taskTimeouts
  taskTimeoutIDs,    \* armed timers: <<task, worker its closure captured>>
  finishTaskDefers,  \* keys of Master.finishTaskDefers
  runs,              \* <<task, worker>>: run RPCs not yet answered
  again,             \* answers delivered that will be delivered once more
  sentTo,            \* history: every <<task, worker>> passed to runTask
  created,           \* tasks created so far; getId never repeats a name
  outcome,           \* how each settled promise was settled
  master             \* "up", "aborted" (up, a handler was cut short), "exited"

schedulerVars == <<queuedTasks, waitingTasks, unusedWorkers, usedWorkers>>
timerVars == <<taskTimeouts, taskTimeoutIDs>>
vars == <<schedulerVars, timerVars, workers, finishTaskDefers, runs, again,
          sentTo, created, outcome, master>>

Up == master # "exited"

Init ==
  /\ queuedTasks = <<>> /\ waitingTasks = {}
  /\ unusedWorkers = <<>> /\ usedWorkers = {}
  /\ workers = {}
  /\ taskTimeouts = {} /\ taskTimeoutIDs = {}
  /\ finishTaskDefers = {}
  /\ runs = {} /\ again = {} /\ sentTo = {} /\ created = {}
  /\ outcome = [t \in Tasks |-> "none"]
  /\ master = "up"

-----------------------------------------------------------------------------
(* What a handler has made of the tables when it calls schedule(). *)
Now == [queue |-> queuedTasks, waiting |-> waitingTasks,
        unused |-> unusedWorkers, used |-> usedWorkers, known |-> workers,
        timeouts |-> taskTimeouts, timers |-> taskTimeoutIDs,
        open |-> runs, again |-> again]

(* schedule() recurses until a list is empty or runTask throws: connecting *)
(* to a worker that is not in Master.workers is a TypeError.  How many     *)
(* rounds it begins from s (one value, written as a set):                  *)
Rounds(s) ==
  {n \in 0..Len(s.queue) :
     /\ n <= Len(s.unused)
     /\ \A i \in 1..(n - 1) : s.unused[i] \in s.known
     /\ \/ n = Len(s.queue)
        \/ n = Len(s.unused)
        \/ n > 0 /\ s.unused[n] \notin s.known}

Throws(n, s) == n > 0 /\ s.unused[n] \notin s.known

\* The <<task, worker>> pairs that n rounds pass to runTask.
Pairs(n, s) == {<<s.queue[i], s.unused[i]>> : i \in 1..n}

\* Those whose run RPC is sent: the connection comes first.
Sent(n, s) == {p \in Pairs(n, s) : p[2] \in s.known}

\* A timer is armed before the connection is attempted, and only for a task
\* that has a timeout by then.
Armed_Late(n, s) == {p \in Sent(n, s) : p[1] \in s.timeouts}   \* mutant
Armed(n, s) == {p \in Pairs(n, s) : p[1] \in s.timeouts}

\* list.shift(), n times.
Shifted_Peek(list, n) == list                                  \* mutant
Shifted(list, n) == SubSeq(list, n + 1, Len(list))

\* n rounds of schedule() from s.
Schedule(n, s) ==
  /\ queuedTasks' = Shifted(s.queue, n)
  /\ waitingTasks' = s.waiting \cup {s.queue[i] : i \in 1..n}
  /\ unusedWorkers' = Shifted(s.unused, n)
  /\ usedWorkers' = s.used \cup {s.unused[i] : i \in 1..n}
  /\ workers' = s.known
  /\ taskTimeoutIDs' = s.timers \cup Armed(n, s)
  /\ runs' = s.open \cup Sent(n, s)
  /\ again' = s.again
  /\ sentTo' = sentTo \cup Pairs(n, s)

\* updateWorkers() for the recognized workers ws: those in neither list are
\* appended, in some order; then both lists keep only recognized ones.
Additions_None(ws) == {<<>>}                                   \* mutant
Additions(ws) == SetToSeqs(ws \ (usedWorkers \cup ToSet(unusedWorkers)))

Updated(ws, added) ==
  [Now EXCEPT !.unused = Filter(unusedWorkers \o added, ws),
              !.used = @ \cap ws,
              !.known = ws]

\* clearTaskTimeout(t)
Disarmed_None(t) == taskTimeoutIDs                             \* mutant
Disarmed(t) == {p \in taskTimeoutIDs : p[1] # t}

\* resolveFinishTask, resolveFailed: only a promise still pending is settled.
Settle_Keeps(t, verdict) ==                                    \* mutant
  /\ UNCHANGED finishTaskDefers
  /\ outcome' = [outcome EXCEPT ![t] = verdict]

Settle_Again(t, verdict) ==                                    \* mutant
  /\ finishTaskDefers' = finishTaskDefers \ {t}
  /\ outcome' = [outcome EXCEPT ![t] = verdict]

Settle(t, verdict) ==
  /\ finishTaskDefers' = finishTaskDefers \ {t}
  /\ outcome' = IF t \in finishTaskDefers
                  THEN [outcome EXCEPT ![t] = verdict]
                  ELSE outcome

\* The process is gone with its memory; open runs and the history survive it.
Exit(open, repeated, sent) ==
  /\ queuedTasks' = <<>> /\ waitingTasks' = {}
  /\ unusedWorkers' = <<>> /\ usedWorkers' = {}
  /\ workers' = {}
  /\ taskTimeouts' = {} /\ taskTimeoutIDs' = {}
  /\ finishTaskDefers' = {}
  /\ outcome' = [t \in Tasks |->
                   IF t \in finishTaskDefers THEN "dropped" ELSE outcome[t]]
  /\ runs' = open /\ again' = repeated
  /\ sentTo' = sentTo \cup sent
  /\ master' = "exited"

\* The exception is caught around the handler (by Q, express or the RPC
\* library), which is cut short there; ...
Cut(n, s) == Throws(n, s) /\ "aborted" \in FaultOutcomes /\ master' = "aborted"

\* ... or reaches uncaughtException, and process.exit(1).
Fatal(n, s) ==
  /\ Throws(n, s)
  /\ "exited" \in FaultOutcomes
  /\ Exit(s.open \cup Sent(n, s), s.again, Pairs(n, s))

Returns(n, s) == ~Throws(n, s) /\ UNCHANGED master

-----------------------------------------------------------------------------
(* The clients: run() of an execution. *)

\* createTask: reducing tasks go before everything that is queued.
Enqueued_Fifo(t) == Append(queuedTasks, t)                     \* mutant
Enqueued(t) ==
  IF t \in Producing THEN Append(queuedTasks, t) ELSE <<t>> \o queuedTasks

\* queueProducingTask, then the schedule() of its caller: the timeout and the
\* promise are in place before a worker can get the task.
CreateProducingTask(t) ==
  LET s == [Now EXCEPT !.queue = Enqueued(t), !.timeouts = @ \cup {t}]
  IN /\ Up /\ t \notin created
     /\ created' = created \cup {t}
     /\ \E n \in Rounds(s) :
          \/ /\ Returns(n, s) \/ Cut(n, s)
             /\ Schedule(n, s)
             /\ taskTimeouts' = s.timeouts
             /\ finishTaskDefers' = finishTaskDefers \cup {t}
             /\ UNCHANGED outcome
          \/ Fatal(n, s)

\* queueMediumReducingTask, queueFinalReducingTask: the task is offered to the
\* workers first; its timeout and its promise come after schedule() returns.
CreateReducingTask(t) ==
  LET s == [Now EXCEPT !.queue = Enqueued(t)]
  IN /\ Up /\ t \notin created
     /\ created' = created \cup {t}
     /\ \E n \in Rounds(s) :
          \/ /\ Returns(n, s)
             /\ Schedule(n, s)
             /\ taskTimeouts' = taskTimeouts \cup {t}
             /\ finishTaskDefers' = finishTaskDefers \cup {t}
             /\ UNCHANGED outcome
          \/ /\ Cut(n, s)
             /\ Schedule(n, s)
             /\ UNCHANGED <<taskTimeouts, finishTaskDefers, outcome>>
          \/ Fatal(n, s)

-----------------------------------------------------------------------------
(* The RPC handlers finish and failed, and the timer. *)

\* Answers on their way: the worker's RPC client has {timeout: 10, retries: 3},
\* so that the master may get one more than once.
Answers == runs \cup again

Again(t, w) ==
  IF <<t, w>> \in runs /\ t \in Retried
    THEN again \cup {<<t, w>>}
    ELSE again \ {<<t, w>>}

\* The scheduler's part of an answer from w about t.
Answered_Name(t, w) ==                                         \* mutant
  [Now EXCEPT !.unused = Append(@, t), !.used = @ \ {w}, !.waiting = @ \ {t},
              !.open = @ \ {<<t, w>>}, !.again = Again(t, w)]

Answered_Used(t, w) ==                                         \* mutant
  [Now EXCEPT !.unused = Append(@, w), !.waiting = @ \ {t},
              !.open = @ \ {<<t, w>>}, !.again = Again(t, w)]

Answered(t, w) ==
  [Now EXCEPT !.unused = Append(@, w), !.used = @ \ {w}, !.waiting = @ \ {t},
              !.open = @ \ {<<t, w>>}, !.again = Again(t, w)]

\* _dispatchFinish: schedule() runs first; the timer is cleared and the
\* promise resolved only once it has returned.
DispatchFinish(t, w) ==
  LET s == Answered(t, w)
      cleared == [s EXCEPT !.timers = Disarmed(t)]
  IN /\ Up /\ <<t, w>> \in Answers
     /\ UNCHANGED created
     /\ \E n \in Rounds(s) :
          \/ /\ Returns(n, s)
             /\ Schedule(n, cleared)
             /\ taskTimeouts' = taskTimeouts \ {t}
             /\ Settle(t, "finished")
          \/ /\ Cut(n, s)
             /\ Schedule(n, s)
             /\ UNCHANGED <<taskTimeouts, finishTaskDefers, outcome>>
          \/ Fatal(n, s)

\* _dispatchFailed on a worker's report: the timer is cleared first, the
\* promise rejected only once schedule() has returned.
DispatchFailed(t, w) ==
  LET s == [Answered(t, w) EXCEPT !.timers = Disarmed(t),
                                  !.timeouts = @ \ {t}]
  IN /\ Up /\ <<t, w>> \in Answers
     /\ UNCHANGED created
     /\ \E n \in Rounds(s) :
          \/ /\ Returns(n, s)
             /\ Schedule(n, s)
             /\ taskTimeouts' = s.timeouts
             /\ Settle(t, "failed")
          \/ /\ Cut(n, s)
             /\ Schedule(n, s)
             /\ taskTimeouts' = s.timeouts
             /\ UNCHANGED <<finishTaskDefers, outcome>>
          \/ Fatal(n, s)

\* The timer of runTask fires: the worker is removed, and the task failed
\* without naming a worker.  updateWorkers has just dropped every worker that
\* schedule() could stumble over.
TaskTimeout(t, w) ==
  /\ Up /\ <<t, w>> \in taskTimeoutIDs
  /\ \E added \in Additions(workers \ {w}) :
       LET s == [Updated(workers \ {w}, added)
                   EXCEPT !.timers = Disarmed(t), !.timeouts = @ \ {t},
                          !.waiting = @ \ {t}]
       IN \E n \in Rounds(s) :
            /\ Returns(n, s)
            /\ Schedule(n, s)
            /\ taskTimeouts' = s.timeouts
            /\ Settle(t, "failed")
  /\ UNCHANGED created

-----------------------------------------------------------------------------
(* The heartbeat. *)

\* updateWorkers() and schedule() for new recognized workers.
Resync_Only(ws) ==                                             \* mutant
  /\ \E added \in Additions(ws) : Schedule(0, Updated(ws, added))
  /\ UNCHANGED <<taskTimeouts, finishTaskDefers, outcome, created, master>>

Resync(ws) ==
  /\ \E added \in Additions(ws) :
       LET s == Updated(ws, added)
       IN \E n \in Rounds(s) : Returns(n, s) /\ Schedule(n, s)
  /\ UNCHANGED <<taskTimeouts, finishTaskDefers, outcome, created>>

\* dispatchPong: a worker that was not recognized now is.
DispatchPong(w) == Up /\ w \notin workers /\ Resync(workers \cup {w})

\* manageWorkers: the recognized workers whose instance is gone are removed.
ManageWorkers(gone) == Up /\ gone \subseteq workers /\ Resync(workers \ gone)

-----------------------------------------------------------------------------
(* The environment. *)

\* A run is not answered, or not again: its request or its answer is lost, or
\* the worker process died with it.
LoseRun(t, w) ==
  /\ <<t, w>> \in Answers
  /\ runs' = runs \ {<<t, w>>} /\ again' = again \ {<<t, w>>}
  /\ UNCHANGED <<schedulerVars, timerVars, workers, finishTaskDefers, sentTo,
                 created, outcome, master>>

\* An exception anywhere else in the master reaches uncaughtException ...
MasterExit == Up /\ Exit(runs, again, {}) /\ UNCHANGED created

\* ... and the supervisor starts it again with empty tables.
MasterStart ==
  /\ ~Up
  /\ master' = "up"
  /\ UNCHANGED <<schedulerVars, timerVars, workers, finishTaskDefers, runs,
                 again, sentTo, created, outcome>>

Next ==
  \/ \E t \in Producing : CreateProducingTask(t)
  \/ \E t \in Reducing : CreateReducingTask(t)
  \/ \E t \in Tasks, w \in Workers :
       \/ DispatchFinish(t, w)
       \/ DispatchFailed(t, w)
       \/ TaskTimeout(t, w)
       \/ LoseRun(t, w)
  \/ \E w \in Workers : DispatchPong(w)
  \/ \E gone \in SUBSET Workers : ManageWorkers(gone)
  \/ MasterExit
  \/ MasterStart

Spec == Init /\ [][Next]_vars

\* Node fires every timer that is not cleared.
Fairness ==
  \A t \in Tasks, w \in Workers : WF_vars(TaskTimeout(t, w))

FairSpec == Spec /\ Fairness
-----------------------------------------------------------------------------
(* Properties. *)

TypeOK ==
  /\ queuedTasks \in Seq(Tasks) /\ waitingTasks \subseteq Tasks
  /\ unusedWorkers \in Seq(Workers) /\ usedWorkers \subseteq Workers
  /\ workers \subseteq Workers
  /\ taskTimeouts \subseteq Tasks
  /\ taskTimeoutIDs \subseteq Tasks \X Workers
  /\ finishTaskDefers \subseteq Tasks
  /\ runs \subseteq Tasks \X Workers /\ again \subseteq Tasks \X Workers
  /\ sentTo \subseteq Tasks \X Workers
  /\ created \subseteq Tasks
  /\ outcome \in [Tasks -> {"none", "finished", "failed", "dropped"}]
  /\ master \in {"up", "aborted", "exited"}

\* A task is in the queue at most once, is never queued and running at the same
\* time, and is passed to at most one worker in its life, whatever answers,
\* timeouts and restarts come in between (schedule, dispatchFinish and
\* dispatchFailed of queue.js; retries are new tasks).
QueueSound ==
  /\ \A i, j \in 1..Len(queuedTasks) :
       queuedTasks[i] = queuedTasks[j] => i = j
  /\ \A p \in sentTo : \A i \in 1..Len(queuedTasks) : queuedTasks[i] # p[1]
  /\ \A p, r \in sentTo : p[1] = r[1] => p = r
  /\ \A t \in waitingTasks : \E w \in Workers : <<t, w>> \in sentTo

\* No recognized worker is ever lost to the scheduler: it is in the unused list
\* or marked used, so that an answer or its removal brings it back
\* (updateWorkers, dispatchFinish, dispatchFailed).
WorkersAccounted == workers \subseteq ToSet(unusedWorkers) \cup usedWorkers

\* A worker marked used has been given a task the scheduler still waits for;
\* otherwise nothing would ever free it (dispatchFailed without a worker name
\* relies on the removal of the worker, tasks.js:17-19).
UsedHasTask ==
  \A w \in usedWorkers : \E t \in waitingTasks : <<t, w>> \in sentTo

\* A producing task the scheduler waits for always has its timer armed, even
\* if runTask threw right after arming it (tasks.js:14-25).
ProducingTimed ==
  \A t \in waitingTasks \cap Producing :
    \E w \in Workers : <<t, w>> \in taskTimeoutIDs

\* Unless a handler was cut short, a task never waits in the queue while a
\* worker is idle: every handler that frees a worker or queues a task calls
\* schedule() (queue.js:139-158, master.js:435-436, 514-515).
NoIdleWorker == master = "up" => queuedTasks = <<>> \/ unusedWorkers = <<>>

\* Unless a handler was cut short, a timer is armed only while its task is
\* outstanding: a timer left behind would remove a healthy worker later
\* (clearTaskTimeout in _dispatchFinish and _dispatchFailed).
TimerHasTask ==
  master = "up" => \A p \in taskTimeoutIDs : p[1] \in waitingTasks

\* Unless a handler was cut short, a promise an execution still awaits belongs
\* to a task that is queued or running: the assertion that master.js:117-131
\* keeps for debugging, for each task.
PromiseTracked ==
  master = "up" =>
    finishTaskDefers \subseteq ToSet(queuedTasks) \cup waitingTasks

\* A producing task is handed out only when no reducing task is left in the
\* queue (queue.js:20-22, "prior to all the producing tasks").
ReducingFirst ==
  [][\A p \in sentTo' \ sentTo :
       p[1] \in Producing => ToSet(queuedTasks') \cap Reducing = {}]_vars

\* Refinement: every task's promise is settled at most once, and late answers
\* of a worker that was given up change nothing (executions.js:352-396).
Promise == INSTANCE TaskPromise WITH
  promise <- [t \in Tasks |->
                IF t \in finishTaskDefers THEN "pending"
                ELSE IF outcome[t] = "none" THEN "absent" ELSE outcome[t]]

PromiseSpec == Promise!Spec

\* A producing task the scheduler waits for is eventually given up or answered,
\* whatever happens to its worker (the timer of runTask).
ProducingEnds ==
  \A t \in Producing : t \in waitingTasks ~> t \notin waitingTasks

-----------------------------------------------------------------------------
(* What the repository says of the program, and the code does not do. *)

\* "Simply pick up an unused worker" (queue.js:54): a worker in the unused list
\* has no task the scheduler waits for.
UnusedIsFree ==
  \A w \in ToSet(unusedWorkers) :
    ~ \E t \in waitingTasks : <<t, w>> \in sentTo

\* "the failures are managed through rescheduling by the master"
\* (README.md:388): the promise of a reducing task given to a worker is
\* eventually settled.
ReducingSettles ==
  \A t \in Reducing :
    t \in waitingTasks \cap finishTaskDefers ~> t \notin finishTaskDefers
=============================================================================
