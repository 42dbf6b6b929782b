------------------------------ MODULE WorkerNode ------------------------------
(***************************************************************************)
(* Inside a worker of the cluster (lib/worker.js): what run does with a    *)
(* task - fetch the resources of its session, link them into the directory *)
(* of its execution, produce, unlink - and deleteCache.  A turn of the     *)
(* event loop is one step; downloads, producers and rimraf take any time   *)
(* (downloads and producers may never end) and other turns come between.   *)
(* The master means to send one task at a time, but a task it has given up *)
(* (lib/tasks.js:16-19) may still be running when the next one comes, so   *)
(* tasks arrive at any time.                                               *)
(*                                                                         *)
(* The directories survive the process, its tables do not.                 *)
(***************************************************************************)
EXTENDS Naturals

CONSTANTS
  Tasks, Sessions, Executions,
  Type,        \* "PRODUCING" or "REDUCING"
  Session,     \* the session of a task
  Execution,   \* the execution of a task
  Resources,   \* how many resources a session has
  Unlisted,    \* sessions that were given no list of resources
  MaxDeletes,  \* bound on the deleteCache calls
  MaxCrashes   \* bound on the times the process is killed

ASSUME TypesKnown == Type \in [Tasks -> {"PRODUCING", "REDUCING"}]
ASSUME TasksBelong ==
  Session \in [Tasks -> Sessions] /\ Execution \in [Tasks -> Executions]
ASSUME ExecutionsOfSession ==
  \A t, u \in Tasks : Execution[t] = Execution[u] => Session[t] = Session[u]
ASSUME ResourcesCounted == Resources \in [Sessions -> Nat]
ASSUME NothingListed ==
  Unlisted \subseteq Sessions /\ \A s \in Unlisted : Resources[s] = 0
ASSUME Bounds == MaxDeletes \in Nat /\ MaxCrashes \in Nat

VARIABLES
  sessions,   \* keys of Worker.sessions: the session cache
  dirs,       \* sessions with a directory
  files,      \* resource files of each session: absent, torn (being written)
              \* or saved
  sweeping,   \* sessions whose directory a rimraf is removing
  links,      \* resources linked in the directory of each execution
  job,        \* where each task is, and its next resource
  removing,   \* tasks with a rimraf of their execution's directory under way
  answer,     \* what the master was told about each task
  dying,      \* an exception was not caught: the process will exit
  deletes, crashes,
  alone,      \* history: tasks that met no other task of their execution
  spoiled,    \* history: sessions deleted, or cut short in a write
  leftover    \* history: executions with links of another life, or that a rimraf
              \* could not remove

dirVars == <<dirs, files, sweeping>>
taskVars == <<job, removing, answer>>
processVars == <<dying, deletes, crashes>>
history == <<alone, spoiled, leftover>>
vars == <<sessions, dirVars, links, taskVars, processVars, history>>

S(t) == Session[t]
E(t) == Execution[t]
All(s) == 1..Resources[s]
At(t, pc) == job[t].pc = pc
Goes(t, pc) == job' = [job EXCEPT ![t].pc = pc]
\* A task that came and has no answer; run is at work on it unless it threw.
Unanswered(t) == job[t].pc \notin {"idle", "done", "lost"}
Active(t) == Unanswered(t) /\ ~At(t, "threw")

Init ==
  /\ sessions = {} /\ dirs = {} /\ sweeping = {}
  /\ files = [s \in Sessions |-> [i \in All(s) |-> "absent"]]
  /\ links = [e \in Executions |-> {}]
  /\ job = [t \in Tasks |-> [pc |-> "idle", next |-> 1]]
  /\ removing = {} /\ answer = [t \in Tasks |-> "none"]
  /\ dying = FALSE /\ deletes = MaxDeletes /\ crashes = MaxCrashes
  /\ alone = {} /\ spoiled = {} /\ leftover = {}

-----------------------------------------------------------------------------
(* run. *)

\* Another task of execution e is on this worker, or its directory is going.
Busy(e) == \E u \in Tasks : E(u) = e /\ (Active(u) \/ u \in removing)

\* _prepareResources: the session is in the cache, or has no list of resources.
Prepared(s) == s \in sessions \/ s \in Unlisted

\* The session is recorded when its last resource has been saved, which one with
\* an empty list is at once.
Recorded_Early(s, next) == sessions \cup {s}                   \* mutant
Recorded(s, next) == IF next > Resources[s] THEN sessions \cup {s} ELSE sessions

\* The directory of the session cannot be made: mkdirp.sync throws out of the
\* handler, which then answers nothing.  The JSON-RPC server hands the exception
\* to the caller, or nobody catches it.
Throws(t) ==
  /\ Goes(t, "threw") /\ dying' \in {dying, TRUE}
  /\ UNCHANGED <<dirs, sessions>>

Run(t) ==
  LET produces == Type[t] = "PRODUCING"  s == S(t) IN
  /\ At(t, "idle")
  /\ \/ /\ produces => Prepared(s)
        /\ Goes(t, IF produces THEN "link" ELSE "reduce")
        /\ UNCHANGED <<sessions, dirs, dying>>
     \/ /\ produces /\ ~Prepared(s)
        /\ Goes(t, IF Resources[s] = 0 THEN "link" ELSE "fetch")
        /\ dirs' = dirs \cup {s} /\ sessions' = Recorded(s, 1) /\ UNCHANGED dying
     \/ produces /\ ~Prepared(s) /\ Throws(t)
  /\ alone' = {u \in alone : E(u) # E(t)} \cup IF Busy(E(t)) THEN {} ELSE {t}
  /\ UNCHANGED <<files, sweeping, links, removing, answer, deletes, crashes,
                 spoiled, leftover>>

\* The handler of every rejection: failed, and a rimraf nobody waits for.
Failed_Unlinked(t) ==                                          \* mutant
  /\ answer' = [answer EXCEPT ![t] = "failed"] /\ Goes(t, "done") /\ UNCHANGED removing
Failed_Silent(t) ==                                            \* mutant
  /\ Goes(t, "done") /\ removing' = removing \cup {t} /\ UNCHANGED answer
Failed(t) ==
  /\ answer' = [answer EXCEPT ![t] = "failed"] /\ Goes(t, "done")
  /\ removing' = removing \cup {t}

\* A download arrives and is about to be saved, or fails; or neither, for no
\* timeout is set.  Saving fails when the directory has gone.
Download(t) ==
  LET i == job[t].next IN
  /\ At(t, "fetch")
  /\ \/ /\ S(t) \in dirs /\ Goes(t, "save")
        /\ files' = [files EXCEPT ![S(t)][i] = "torn"]
        /\ UNCHANGED <<removing, answer>>
     \/ Failed(t) /\ UNCHANGED files
  /\ UNCHANGED <<sessions, dirs, sweeping, links, processVars, history>>

\* writeFile ends, of whatever was downloaded: the status of the response is not
\* looked at, and the page of an HTTP error is saved like a resource.  A file that
\* was removed meanwhile stays removed.
Save(t) ==
  LET s == S(t)  i == job[t].next  next == i + 1
      Saved(what) == files' = [files EXCEPT ![s][i] = IF @ = "absent" THEN @ ELSE what]
  IN /\ At(t, "save")
     /\ \/ /\ Saved("saved")
           /\ sessions' = Recorded(s, next)
           /\ job' = [job EXCEPT ![t].next = next,
                                 ![t].pc = IF next > Resources[s] THEN "link" ELSE "fetch"]
           /\ UNCHANGED <<removing, answer, spoiled>>
        \/ /\ Failed(t) /\ Saved("torn") /\ spoiled' = spoiled \cup {s}
           /\ UNCHANGED sessions
     /\ UNCHANGED <<dirs, sweeping, links, processVars, alone, leftover>>

\* The first resource linkSync refuses: linked already, or not there.
Refused_Linked(t) == {i \in All(S(t)) : i \in links[E(t)]}     \* mutant
Refused(t) == {i \in All(S(t)) : i \in links[E(t)] \/ files[S(t)][i] = "absent"}

\* FETCHING is reported and the resources are linked, in one turn; making the
\* directory may fail first.
Link(t) ==
  LET refused == Refused(t)
      linked == {i \in All(S(t)) : /\ files[S(t)][i] # "absent"
                                  /\ \A j \in refused : i < j}
  IN /\ At(t, "link")
     /\ \/ /\ links' = [links EXCEPT ![E(t)] = @ \cup linked]
           /\ IF refused = {} THEN Goes(t, "produce") /\ UNCHANGED <<removing, answer>>
              ELSE Failed(t)
        \/ Failed(t) /\ UNCHANGED links
     /\ UNCHANGED <<sessions, dirVars, processVars, history>>

\* The producer ends; its links are removed before the task is answered.
Produce(t) ==
  /\ At(t, "produce")
  /\ \/ Goes(t, "unlink") /\ removing' = removing \cup {t} /\ UNCHANGED answer
     \/ Failed(t)
  /\ UNCHANGED <<sessions, dirVars, links, processVars, history>>

\* A reduction ends; if it fails, the directory of its execution is removed too.
Reduce(t) ==
  /\ At(t, "reduce")
  /\ \/ /\ Goes(t, "done") /\ answer' = [answer EXCEPT ![t] = "finish"]
        /\ UNCHANGED removing
     \/ Failed(t)
  /\ UNCHANGED <<sessions, dirVars, links, processVars, history>>

-----------------------------------------------------------------------------
(* rimraf: one entry after the other, until the directory is empty. *)

UnlinkOne(t) ==
  /\ t \in removing
  /\ \E i \in links[E(t)] : links' = [links EXCEPT ![E(t)] = @ \ {i}]
  /\ UNCHANGED <<sessions, dirVars, taskVars, processVars, history>>

\* It ends.  _unlinkResources was waited for if the task was produced.
Unlinked(t) ==
  /\ t \in removing /\ links[E(t)] = {}
  /\ removing' = removing \ {t}
  /\ IF At(t, "unlink")
     THEN Goes(t, "done") /\ answer' = [answer EXCEPT ![t] = "finish"]
     ELSE UNCHANGED <<job, answer>>
  /\ leftover' = leftover \ {E(t)}
  /\ UNCHANGED <<sessions, dirVars, links, processVars, alone, spoiled>>

Rejected(t) ==
  IF At(t, "unlink") THEN Failed(t)
  ELSE removing' = removing \ {t} /\ UNCHANGED <<job, answer>>

UnlinkFails(t) ==
  /\ t \in removing /\ links[E(t)] # {}
  /\ Rejected(t)
  /\ leftover' = leftover \cup {E(t)}
  /\ UNCHANGED <<sessions, dirVars, links, processVars, alone, spoiled>>

\* deleteCache: the removal starts; then a session that is not in the cache is a
\* TypeError.
DeleteCache(s) ==
  /\ deletes > 0 /\ deletes' = deletes - 1
  /\ sweeping' = sweeping \cup ({s} \cap dirs)
  /\ sessions' = sessions \ {s}
  /\ dying' = (dying \/ s \notin sessions)
  /\ spoiled' = spoiled \cup {s}
  /\ UNCHANGED <<dirs, files, links, taskVars, crashes, alone, leftover>>

SweepOne(s) ==
  /\ s \in sweeping
  /\ \E i \in All(s) :
       /\ files[s][i] # "absent"
       /\ files' = [files EXCEPT ![s][i] = "absent"]
  /\ UNCHANGED <<sessions, dirs, sweeping, links, taskVars, processVars, history>>

Swept(s) ==
  /\ s \in sweeping /\ \A i \in All(s) : files[s][i] = "absent"
  /\ sweeping' = sweeping \ {s} /\ dirs' = dirs \ {s}
  /\ UNCHANGED <<sessions, files, links, taskVars, processVars, history>>

\* The process is killed, or exits once the master has its last pong; it starts
\* again with the directories as they are.
Restart ==
  /\ dying \/ crashes > 0
  /\ crashes' = IF dying THEN crashes ELSE crashes - 1
  /\ dying' = FALSE /\ sessions' = {} /\ sweeping' = {} /\ removing' = {}
  /\ job' = [t \in Tasks |-> IF Unanswered(t) THEN [job[t] EXCEPT !.pc = "lost"] ELSE job[t]]
  /\ leftover' = leftover \cup {e \in Executions : links[e] # {}}
  /\ spoiled' = {}
  /\ UNCHANGED <<dirs, files, links, answer, deletes, alone>>

Goes_On(t) ==
  \/ Download(t) \/ Save(t) \/ Link(t) \/ Produce(t) \/ Reduce(t)
Removes(t) == UnlinkOne(t) \/ Unlinked(t) \/ UnlinkFails(t)

Next ==
  \/ \E t \in Tasks : Run(t) \/ Goes_On(t) \/ Removes(t)
  \/ \E s \in Sessions : DeleteCache(s) \/ SweepOne(s) \/ Swept(s)
  \/ Restart

Spec == Init /\ [][Next]_vars

\* Only what the worker does by itself goes on for sure: a writeFile and a rimraf
\* on its own disk end.  The downloads have no timeout (internal.js:20-25,
\* dropbox.js:66, and compositor.js:19 for those of a reduction), and neither have
\* the producers, which are child processes.
Fairness == \A t \in Tasks : WF_vars(Save(t) \/ Link(t)) /\ WF_vars(Removes(t))
FairSpec == Spec /\ Fairness

-----------------------------------------------------------------------------
(* Properties. *)

Steps == {"idle", "fetch", "save", "link", "produce", "unlink", "reduce", "done", "lost",
          "threw"}

\* The tables have their types, no loop over resources runs past the last, and
\* run ends exactly when its one answer has been sent (worker.js:162-173).
TypeOK ==
  /\ sessions \subseteq Sessions /\ dirs \subseteq Sessions /\ sweeping \subseteq Sessions
  /\ \A s \in Sessions : files[s] \in [All(s) -> {"absent", "torn", "saved"}]
  /\ \A e \in Executions : links[e] \subseteq UNION {All(s) : s \in Sessions}
  /\ \A t \in Tasks :
       /\ job[t].pc \in Steps /\ job[t].next \in 1..(Resources[S(t)] + 1)
       /\ answer[t] \in {"none", "finish", "failed"}
       /\ job[t].pc = "done" <=> answer[t] # "none"
  /\ removing \subseteq Tasks /\ alone \subseteq Tasks
  /\ spoiled \subseteq Sessions /\ leftover \subseteq Executions

\* A cached session has all its resources: every file of it has been saved, or
\* is just being saved again by a second task that started to fetch before the
\* first one had ended (worker.js:324-398).  The exceptions: deleteCache, whose
\* rimraf goes on while a fetch records the session again, and a write that
\* failed half-way.
CacheComplete ==
  \A s \in sessions \ spoiled : \A i \in All(s) :
    \/ files[s][i] = "saved"
    \/ \E t \in Tasks : At(t, "save") /\ S(t) = s /\ job[t].next = i

\* A producer that runs has every resource of its session linked, as long as no
\* other task of its execution was on the worker, or had its links still being
\* removed, at any time since the task arrived (worker.js:136-174: the rimraf of
\* a failed task is not waited for, and works on the directory they share).
Supplied ==
  \A t \in alone : At(t, "produce") => links[E(t)] = All(S(t))

\* Links do not stay behind: the directory of an execution holds links only while
\* a producer of it runs or a rimraf of it is under way, except after a restart
\* or a rimraf that failed.  (A link left behind makes the next task of the
\* execution fail, worker.js:429.)
LinksOwned ==
  \A e \in Executions \ leftover :
    links[e] # {} => \E t \in Tasks : E(t) = e /\ (At(t, "produce") \/ t \in removing)

=============================================================================
