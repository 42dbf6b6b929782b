------------------------------ MODULE Heartbeat ------------------------------
(***************************************************************************)
(* How the master learns which workers it may use: the management round    *)
(* (lib/master.js:98-115, 367-440), pings and pongs (482-523), the removal *)
(* of a worker by a task timer (lib/tasks.js:17-19) and the destruction of *)
(* instances that stay silent.  Around it: the cloud that lists, creates   *)
(* and deletes instances (lib/instances), and the worker processes         *)
(* (lib/worker.js:62-67, 130-134, 221-262) that die and are started again. *)
(*                                                                         *)
(* getInstances() answers with the instances of that moment; pings and     *)
(* pongs take any time, and any of them may be lost.  A process also sends *)
(* pongs nobody asked for, before it exits on an exception, and its client *)
(* repeats a pong that is not acknowledged.                                *)
(***************************************************************************)
EXTENDS Integers, FiniteSets

CONSTANTS
  Workers,             \* instance names
  waitingPongTimeout,  \* unanswered pings that condemn an instance
  DestroyMayFail,      \* TRUE: the cloud may ignore a delete request
  MaxRestarts,         \* bound on the restarts of the master
  MaxSurplus           \* bound on the pongs that answer no ping

ASSUME TimeoutPositive == waitingPongTimeout \in Nat \ {0}
ASSUME DestroyKnown == DestroyMayFail \in BOOLEAN
ASSUME RestartsBound == MaxRestarts \in Nat
ASSUME SurplusBound == MaxSurplus \in Nat

VARIABLES
  workers,              \* keys of Master.workers: recognized
  unrecognizedWorkers,  \* keys of Master.unrecognizedWorkers: the last listing
  waitingPong,          \* Master.waitingPong; an absent entry counts as 0
  listed,               \* instances that exist, as getInstances() tells
  retired,              \* names of instances that are gone; never used again
  alive,                \* instances whose worker process is running
  deleting,             \* instances with a delete request on its way
  clients,              \* processes with a client to the master: pinged before
  pings, pongs,         \* on the wire, per worker: pings, and their answers
  extras,               \* on the wire, per worker: pongs that answer no ping
  surplus,              \* pongs that answer no ping sent so far
  lost,                 \* history: pings of this listing never answered
  excess,               \* history: pongs the count took, or will take, for the
                        \* answers to other pings
  heard,                \* history: workers heard from since the last round
  restarts              \* restarts of the master so far

masterVars == <<workers, unrecognizedWorkers, waitingPong>>
cloudVars == <<listed, retired, alive, deleting, clients>>
wireVars == <<pings, pongs, extras, surplus, lost, excess>>
vars == <<masterVars, cloudVars, wireVars, heard, restarts>>

Zero == [w \in Workers |-> 0]

Init ==
  /\ workers = {} /\ unrecognizedWorkers = {} /\ waitingPong = Zero
  /\ listed \in SUBSET Workers /\ retired = {}
  /\ alive = listed /\ deleting = {} /\ clients = {}
  /\ pings = Zero /\ pongs = Zero /\ extras = Zero /\ surplus = 0
  /\ lost = Zero /\ excess = Zero
  /\ heard = {} /\ restarts = 0

-----------------------------------------------------------------------------
(* The master. *)

\* sendPing: a condemned instance is left alone.
Pinged_Any(count) == count + 1                                 \* mutant
Pinged(count) == IF count < 0 THEN count ELSE count + 1

\* dispatchPong: one ping less to wait for.
Ponged_Not(count) == count                                     \* mutant
Ponged_Clear(count) == IF count > 0 THEN 0 ELSE count          \* mutant
Ponged(count) == IF count > 0 THEN count - 1 ELSE count

\* Instances condemned in this round, given the cleaned table.
Silent_Above(table) ==                                         \* mutant
  {w \in Workers : table[w] > waitingPongTimeout}
Silent_Below(table) ==                                         \* mutant
  {w \in Workers : table[w] >= waitingPongTimeout - 1}
Silent(table) == {w \in Workers : table[w] >= waitingPongTimeout}

\* The recognized workers whose instance still exists.
Kept_All == workers                                            \* mutant
Kept == workers \cap listed

\* One management round.  The instances destroyed leave the listing (the same
\* object as unrecognizedWorkers) but not the recognized workers; a recognized
\* worker is pinged even then, unless sendPing refuses.
ManageWorkers ==
  LET cleaned == [w \in Workers |-> IF w \in listed THEN waitingPong[w] ELSE 0]
      condemned == Silent(cleaned)
      marked == [w \in Workers |-> IF w \in condemned THEN -1 ELSE cleaned[w]]
      addressed == Kept \cup (listed \ condemned)
      pinged == {w \in addressed : marked[w] >= 0}
  IN /\ workers' = Kept
     /\ unrecognizedWorkers' = listed \ condemned
     /\ waitingPong' = [w \in Workers |->
                          IF w \in addressed THEN Pinged(marked[w]) ELSE marked[w]]
     /\ deleting' = deleting \cup condemned
     /\ pings' = [w \in Workers |-> IF w \in pinged THEN pings[w] + 1 ELSE pings[w]]
     /\ lost' = [w \in Workers |-> IF w \in listed THEN lost[w] ELSE 0]
     /\ heard' = {}
     /\ UNCHANGED <<listed, retired, alive, clients, pongs, extras, surplus,
                    excess, restarts>>

\* The worker a pong makes recognized, if it is listed.
Admitted_Any(w) == {w}                                         \* mutant
Admitted_Settled(w) ==                                         \* mutant
  IF Ponged(waitingPong[w]) = 0 THEN {w} \cap unrecognizedWorkers ELSE {}
Admitted(w) == {w} \cap unrecognizedWorkers

\* A pong arrives, the answer to a ping or not: the master cannot tell.
DispatchPong(w) ==
  /\ \/ /\ pongs[w] > 0
        /\ pongs' = [pongs EXCEPT ![w] = @ - 1]
        /\ UNCHANGED <<extras, excess>>
     \/ /\ extras[w] > 0
        /\ extras' = [extras EXCEPT ![w] = @ - 1]
        /\ excess' = [excess EXCEPT ![w] = IF waitingPong[w] > 0 THEN @ + 1 ELSE @]
        /\ UNCHANGED pongs
  /\ waitingPong' = [waitingPong EXCEPT ![w] = Ponged(@)]
  /\ workers' = workers \cup Admitted(w)
  /\ heard' = heard \cup {w}
  /\ UNCHANGED <<unrecognizedWorkers, cloudVars, pings, surplus, lost, restarts>>

\* The timer of a task given to w fires: _removeWorker(w).
RemoveWorker(w) ==
  /\ w \in workers
  /\ workers' = workers \ {w}
  /\ UNCHANGED <<unrecognizedWorkers, waitingPong, cloudVars, wireVars, heard, restarts>>

\* The process exits and the supervisor starts it again, with empty tables: it
\* waits for none of the answers still to come.
MasterRestart ==
  /\ restarts < MaxRestarts
  /\ restarts' = restarts + 1
  /\ workers' = {} /\ unrecognizedWorkers' = {} /\ waitingPong' = Zero
  /\ lost' = Zero /\ heard' = {}
  /\ excess' = [w \in Workers |-> pings[w] + pongs[w]]
  /\ UNCHANGED <<cloudVars, pings, pongs, extras, surplus>>

-----------------------------------------------------------------------------
(* Worker processes and the wire. *)

\* A ping reaches the process, which answers at once; the first one tells it
\* where the master is.
SendPong(w) ==
  /\ w \in alive /\ pings[w] > 0
  /\ pings' = [pings EXCEPT ![w] = @ - 1]
  /\ pongs' = [pongs EXCEPT ![w] = @ + 1]
  /\ clients' = clients \cup {w}
  /\ UNCHANGED <<masterVars, listed, retired, alive, deleting, extras, surplus, lost,
                 excess, heard, restarts>>

\* One more pong on the wire that answers no ping.
Unasked(w) ==
  /\ surplus < MaxSurplus
  /\ surplus' = surplus + 1
  /\ extras' = [extras EXCEPT ![w] = @ + 1]
  /\ UNCHANGED <<masterVars, cloudVars, pings, pongs, lost, excess, heard, restarts>>

\* An uncaught exception, failByChaos among them: the process says goodbye with
\* a pong, and runs on until that is acknowledged or given up.
WorkerThrows(w) == w \in clients /\ Unasked(w)

\* The client sends a pong again whose acknowledgement does not come in time.
RepeatPong(w) == pongs[w] + extras[w] > 0 /\ Unasked(w)

LosePing(w) ==
  /\ pings[w] > 0
  /\ pings' = [pings EXCEPT ![w] = @ - 1]
  /\ lost' = [lost EXCEPT ![w] = @ + 1]
  /\ UNCHANGED <<masterVars, cloudVars, pongs, extras, surplus, excess, heard, restarts>>

LosePong(w) ==
  /\ \/ /\ pongs[w] > 0
        /\ pongs' = [pongs EXCEPT ![w] = @ - 1]
        /\ lost' = [lost EXCEPT ![w] = @ + 1]
        /\ UNCHANGED extras
     \/ /\ extras[w] > 0
        /\ extras' = [extras EXCEPT ![w] = @ - 1]
        /\ UNCHANGED <<pongs, lost>>
  /\ UNCHANGED <<masterVars, cloudVars, pings, surplus, excess, heard, restarts>>

\* The end of the process, after a goodbye or without one: killed, or with an
\* exception before it knows of a master.
WorkerDies(w) ==
  /\ w \in alive
  /\ alive' = alive \ {w} /\ clients' = clients \ {w}
  /\ UNCHANGED <<masterVars, listed, retired, deleting, wireVars, heard, restarts>>

WorkerStarts(w) ==
  /\ w \in listed \ alive
  /\ alive' = alive \cup {w}
  /\ UNCHANGED <<masterVars, listed, retired, deleting, clients, wireVars, heard,
                 restarts>>

-----------------------------------------------------------------------------
(* The cloud. *)

\* resize() makes a new instance, under a name of its own (local.js:21, 37).
InstanceAppears(w) ==
  /\ w \notin listed \cup retired
  /\ listed' = listed \cup {w}
  /\ UNCHANGED <<masterVars, retired, alive, deleting, clients, wireVars, heard,
                 restarts>>

\* The instance is gone, deleted on request or preempted.
InstanceGone(w) ==
  /\ w \in listed
  /\ listed' = listed \ {w} /\ alive' = alive \ {w} /\ clients' = clients \ {w}
  /\ retired' = retired \cup {w}
  /\ deleting' = deleting \ {w}
  /\ UNCHANGED <<masterVars, wireVars, heard, restarts>>

\* destroy() does not look at the response to its request.
DestroyIgnored(w) ==
  /\ DestroyMayFail
  /\ w \in deleting
  /\ deleting' = deleting \ {w}
  /\ UNCHANGED <<masterVars, listed, retired, alive, clients, wireVars, heard,
                 restarts>>

Next ==
  \/ ManageWorkers
  \/ MasterRestart
  \/ \E w \in Workers :
       \/ DispatchPong(w) \/ RemoveWorker(w)
       \/ SendPong(w) \/ WorkerThrows(w) \/ RepeatPong(w)
       \/ LosePing(w) \/ LosePong(w)
       \/ WorkerDies(w) \/ WorkerStarts(w)
       \/ InstanceAppears(w) \/ InstanceGone(w) \/ DestroyIgnored(w)

Spec == Init /\ [][Next]_vars

\* The round is repeated for ever (loop, 139-143); a running process answers,
\* the network moves on, and the cloud works on its delete requests.
Fairness ==
  /\ WF_vars(ManageWorkers)
  /\ \A w \in Workers :
       /\ WF_vars(SendPong(w) \/ LosePing(w))
       /\ WF_vars(DispatchPong(w) \/ LosePong(w))
       /\ WF_vars(w \in deleting /\ (InstanceGone(w) \/ DestroyIgnored(w)))

FairSpec == Spec /\ Fairness

-----------------------------------------------------------------------------
(* Properties. *)

TypeOK ==
  /\ workers \subseteq Workers /\ unrecognizedWorkers \subseteq Workers
  /\ waitingPong \in [Workers -> Int]
  /\ \A w \in Workers : waitingPong[w] \in -1..waitingPongTimeout
  /\ listed \subseteq Workers /\ retired \subseteq Workers \ listed
  /\ alive \subseteq listed
  /\ deleting \subseteq listed
  /\ clients \subseteq alive
  /\ pings \in [Workers -> Nat] /\ pongs \in [Workers -> Nat]
  /\ extras \in [Workers -> Nat] /\ surplus \in 0..MaxSurplus
  /\ lost \in [Workers -> Nat] /\ excess \in [Workers -> Nat]
  /\ heard \subseteq Workers
  /\ restarts \in 0..MaxRestarts

\* The count and the silence it stands for, through pongs lost, late, unasked
\* and repeated and through the cleaning of manageWorkers.  The count never
\* exceeds the pings without an answer, so a surplus pong condemns nobody; and it
\* hides no more of them than pongs were taken for other pings' answers, so
\* only those postpone the end of a silent instance (master.js:485-490, 503-507).
PongAccounting ==
  \A w \in Workers :
    LET unanswered == pings[w] + pongs[w] + lost[w]
    IN /\ waitingPong[w] <= unanswered
       /\ w \in listed /\ waitingPong[w] >= 0 =>
            unanswered <= waitingPong[w] + excess[w]

\* A worker is recognized only while the last listing names it, or while it is
\* condemned: a pong from an instance that is gone changes nothing
\* (master.js:380-385, 509-512).
RecognizedListed ==
  workers \subseteq unrecognizedWorkers \cup {w \in Workers : waitingPong[w] = -1}

\* A worker heard from since the previous round is never condemned, however
\* many of its earlier pings were lost; one that is has as many pings
\* unanswered as the limit says, whatever other pongs came (master.js:400-413).
DestroyJustified ==
  [][\A w \in deleting' \ deleting :
       /\ w \notin heard
       /\ pings[w] + pongs[w] + lost[w] >= waitingPongTimeout]_vars

\* Condemned is for ever: while the instance exists its count stays at -1,
\* through pongs that come late, and it is not pinged again
\* (master.js:406-410, 485-487, 503-507).
CondemnedStays ==
  [][\A w \in listed :
       waitingPong[w] = -1 /\ restarts' = restarts =>
         waitingPong'[w] = -1 /\ pings'[w] <= pings[w]]_vars

\* A worker whose process is dead for good is in the end no longer recognized,
\* if the cloud honours the delete requests for its instance (a request that
\* fails is never repeated): the zombie is found and destroyed.
DeadForgotten ==
  \A w \in Workers :
    <>[](w \notin alive) /\ [](w \in deleting => <>(w \notin listed))
      => <>[](w \notin workers)

\* A worker that stays listed, alive and uncondemned is recognized again and
\* again, even if task timers keep removing it and the network loses pings
\* (tasks.js:17, "until next ping/pong").
ResponsiveReturns ==
  \A w \in Workers :
    <>[](w \in alive /\ waitingPong[w] >= 0) => []<>(w \in workers)

-----------------------------------------------------------------------------
(* What comments in the code say, and the code does not do. *)

\* "This instance will be terminated, so neither send ping nor dispatch pong"
\* (master.js:406-409): the pong of a condemned instance does not make it
\* recognized.
CondemnedNotRecognized ==
  [][\A w \in Workers :
       waitingPong[w] = -1 /\ w \notin workers => w \notin workers']_vars
=============================================================================
