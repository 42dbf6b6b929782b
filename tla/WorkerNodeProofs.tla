--------------------------- MODULE WorkerNodeProofs ---------------------------
(***************************************************************************)
(* Proofs about WorkerNode, for any tasks, sessions, executions and        *)
(* numbers of resources, and however often sessions are deleted and the    *)
(* process is killed: a cached session is complete, a renderer that is     *)
(* alone has its resources, and no link stays behind.                      *)
(***************************************************************************)
EXTENDS WorkerNode, TLAPS

FileStates == {"absent", "torn", "saved"}

\* Types, and what is known of a task by where it is.
Types ==
  /\ sessions \subseteq Sessions /\ dirs \subseteq Sessions /\ sweeping \subseteq Sessions
  /\ DOMAIN files = Sessions /\ \A s \in Sessions : files[s] \in [All(s) -> FileStates]
  /\ links \in [Executions -> SUBSET Nat]
  /\ \A e \in Executions : links[e] \subseteq UNION {All(s) : s \in Sessions}
  /\ job \in [Tasks -> [pc : Steps, next : Nat]]
  /\ answer \in [Tasks -> {"none", "finish", "failed"}]
  /\ removing \subseteq Tasks /\ alone \subseteq Tasks
  /\ spoiled \subseteq Sessions /\ leftover \subseteq Executions
  /\ \A t \in Tasks :
       /\ At(t, "done") <=> answer[t] # "none"
       /\ job[t].next \in 1..(Resources[S(t)] + 1)
       /\ At(t, "idle") => job[t].next = 1
       /\ job[t].pc \in {"fetch", "save"} => job[t].next \in All(S(t))
       /\ t \in removing => job[t].pc \in {"unlink", "done"}

\* Resource i of session s is saved, or a task is saving it again.
Held(s, i) ==
  \/ files[s][i] = "saved"
  \/ \E t \in Tasks : At(t, "save") /\ S(t) = s /\ job[t].next = i

\* What a fetch has got so far, unless its session was deleted meanwhile.
Cache ==
  /\ sweeping \subseteq spoiled
  /\ \A t \in Tasks : At(t, "save") /\ S(t) \notin spoiled
       => files[S(t)][job[t].next] # "absent"
  /\ \A t \in Tasks : job[t].pc \in {"fetch", "save"} /\ S(t) \notin spoiled
       => \A i \in 1..(job[t].next - 1) : Held(S(t), i)
  /\ \A s \in sessions \ spoiled : \A i \in All(s) : Held(s, i)

\* A task that met no other has the directory of its execution to itself.
Links ==
  /\ \A t \in Tasks : links[E(t)] \subseteq All(S(t))
  /\ \A t \in alone : Active(t) =>
       \A u \in Tasks \ {t} : E(u) = E(t) => ~Active(u) /\ u \notin removing
  /\ Supplied
  /\ LinksOwned

NInv == Types /\ Cache /\ Links

-----------------------------------------------------------------------------

LEMMA Constants ==
  /\ \A t \in Tasks : S(t) \in Sessions /\ E(t) \in Executions
  /\ \A t, u \in Tasks : E(t) = E(u) => S(t) = S(u)
  /\ \A s \in Sessions : Resources[s] \in Nat
  /\ \A s \in Sessions : All(s) \subseteq Nat
BY TypesKnown, TasksBelong, ExecutionsOfSession, ResourcesCounted DEF S, E, All

\* A failure: what it changes.
LEMMA FailedStep ==
  ASSUME Types, NEW t \in Tasks, Failed(t)
  PROVE  /\ job' \in [Tasks -> [pc : Steps, next : Nat]]
         /\ answer' \in [Tasks -> {"none", "finish", "failed"}]
         /\ job'[t].pc = "done" /\ job'[t].next = job[t].next /\ answer'[t] = "failed"
         /\ \A u \in Tasks \ {t} : job'[u] = job[u] /\ answer'[u] = answer[u]
         /\ removing' = removing \cup {t}
<1>1. job \in [Tasks -> [pc : Steps, next : Nat]] /\ answer \in [Tasks -> {"none", "finish", "failed"}]
  BY DEF Types
<1>2. job' = [job EXCEPT ![t].pc = "done"] /\ answer' = [answer EXCEPT ![t] = "failed"]
      /\ removing' = removing \cup {t}
  BY DEF Failed, Goes
<1> QED
  BY <1>1, <1>2 DEF Steps

\* A task that goes on: what it changes.
LEMMA GoesStep ==
  ASSUME Types, NEW t \in Tasks, NEW pc \in Steps, Goes(t, pc)
  PROVE  /\ job' \in [Tasks -> [pc : Steps, next : Nat]]
         /\ job'[t].pc = pc /\ job'[t].next = job[t].next
         /\ \A u \in Tasks \ {t} : job'[u] = job[u]
<1>1. job \in [Tasks -> [pc : Steps, next : Nat]]
  BY DEF Types
<1> QED
  BY <1>1 DEF Goes

\* One file changes.
LEMMA FilesStep ==
  ASSUME Types, NEW s \in Sessions, NEW i \in All(s), NEW v \in FileStates,
         files' = [files EXCEPT ![s][i] = v]
  PROVE  /\ DOMAIN files' = Sessions
         /\ \A x \in Sessions : files'[x] \in [All(x) -> FileStates]
         /\ files'[s][i] = v
         /\ \A x \in Sessions : \A j \in All(x) : x # s \/ j # i => files'[x][j] = files[x][j]
<1>1. DOMAIN files = Sessions /\ \A x \in Sessions : files[x] \in [All(x) -> FileStates]
  BY DEF Types
<1>2. files' = [files EXCEPT ![s] = [files[s] EXCEPT ![i] = v]]
  OBVIOUS
<1>3. DOMAIN files' = Sessions /\ files'[s] = [files[s] EXCEPT ![i] = v]
      /\ \A x \in Sessions \ {s} : files'[x] = files[x]
  BY <1>1, <1>2
<1> QED
  BY <1>1, <1>3

-----------------------------------------------------------------------------
(* What each action does, task by task. *)

LEMMA RunEffect ==
  ASSUME Types, NEW t \in Tasks, Run(t)
  PROVE  /\ At(t, "idle")
         /\ job' \in [Tasks -> [pc : Steps, next : Nat]]
         /\ job'[t].next = job[t].next /\ job'[t].pc \in {"fetch", "link", "reduce", "threw"}
         /\ job'[t].pc = "fetch" => Resources[S(t)] # 0
         /\ \A u \in Tasks \ {t} : job'[u] = job[u]
         /\ dirs' \subseteq Sessions /\ sessions' \subseteq Sessions
         /\ sessions \subseteq sessions'
         /\ \A s \in sessions' \ sessions : All(s) = {}
         /\ alone' = {u \in alone : E(u) # E(t)} \cup IF Busy(E(t)) THEN {} ELSE {t}
         /\ UNCHANGED <<files, sweeping, links, removing, answer, spoiled, leftover>>
<1>1. PICK pc \in {"fetch", "link", "reduce", "threw"} :
        Goes(t, pc) /\ (pc = "fetch" => Resources[S(t)] # 0)
  BY DEF Run, Throws
<1>2. pc \in Steps
  BY DEF Steps
<1>3. /\ job' \in [Tasks -> [pc : Steps, next : Nat]]
      /\ job'[t].pc = pc /\ job'[t].next = job[t].next
      /\ \A u \in Tasks \ {t} : job'[u] = job[u]
  BY <1>1, <1>2, GoesStep
<1>4. /\ dirs' \subseteq Sessions
      /\ sessions' = sessions \/ sessions' = Recorded(S(t), 1)
  BY Constants DEF Types, Run, Throws
<1>5. /\ sessions' \subseteq Sessions /\ sessions \subseteq sessions'
      /\ \A s \in sessions' \ sessions : All(s) = {}
  BY <1>4, Constants DEF Types, Recorded, All
<1>6. /\ At(t, "idle")
      /\ alone' = {u \in alone : E(u) # E(t)} \cup IF Busy(E(t)) THEN {} ELSE {t}
      /\ UNCHANGED <<files, sweeping, links, removing, answer, spoiled, leftover>>
  BY DEF Run
<1> QED
  BY <1>1, <1>3, <1>4, <1>5, <1>6

LEMMA DownloadEffect ==
  ASSUME Types, NEW t \in Tasks, Download(t)
  PROVE  /\ At(t, "fetch")
         /\ UNCHANGED <<sessions, dirs, sweeping, links, alone, spoiled, leftover>>
         /\ \/ Failed(t) /\ UNCHANGED files
            \/ /\ Goes(t, "save") /\ UNCHANGED <<removing, answer>>
               /\ files' = [files EXCEPT ![S(t)][job[t].next] = "torn"]
BY DEF Download, history

LEMMA TwoFields ==
  ASSUME Types, NEW t \in Tasks, NEW n \in Nat, NEW pc \in Steps,
         job' = [job EXCEPT ![t].next = n, ![t].pc = pc]
  PROVE  /\ job'[t].next = n /\ job'[t].pc = pc
         /\ \A u \in Tasks \ {t} : job'[u] = job[u]
         /\ job' \in [Tasks -> [pc : Steps, next : Nat]]
<1>1. job \in [Tasks -> [pc : Steps, next : Nat]]
  BY DEF Types
<1>2. job' = [job EXCEPT ![t] = [job[t] EXCEPT !.next = n, !.pc = pc]]
  OBVIOUS
<1>3. [job[t] EXCEPT !.next = n, !.pc = pc] \in [pc : Steps, next : Nat]
  BY <1>1
<1>4. job'[t] = [job[t] EXCEPT !.next = n, !.pc = pc]
  BY <1>1, <1>2
<1>5. job'[t].next = n /\ job'[t].pc = pc
  BY <1>1, <1>4
<1>6. \A u \in Tasks \ {t} : job'[u] = job[u]
  BY <1>1, <1>2
<1>7. job' \in [Tasks -> [pc : Steps, next : Nat]]
  BY <1>1, <1>2, <1>3
<1> QED
  BY <1>5, <1>6, <1>7

LEMMA SaveEffect ==
  ASSUME Types, NEW t \in Tasks, Save(t)
  PROVE  /\ At(t, "save")
         /\ UNCHANGED <<dirs, sweeping, links, alone, leftover>>
         /\ \E what \in {"saved", "torn"} :
              /\ files' = [files EXCEPT ![S(t)][job[t].next] =
                             IF files[S(t)][job[t].next] = "absent" THEN "absent" ELSE what]
              /\ \/ /\ what = "saved" /\ UNCHANGED <<removing, answer, spoiled>>
                    /\ sessions' = Recorded(S(t), job[t].next + 1)
                    /\ job' \in [Tasks -> [pc : Steps, next : Nat]]
                    /\ job'[t].next = job[t].next + 1
                    /\ job'[t].pc = IF job[t].next + 1 > Resources[S(t)] THEN "link" ELSE "fetch"
                    /\ \A u \in Tasks \ {t} : job'[u] = job[u]
                 \/ /\ Failed(t) /\ spoiled' = spoiled \cup {S(t)} /\ UNCHANGED sessions
<1>1. job \in [Tasks -> [pc : Steps, next : Nat]]
  BY DEF Types
<1> DEFINE Wrote(what) ==
      files' = [files EXCEPT ![S(t)][job[t].next] =
                  IF files[S(t)][job[t].next] = "absent" THEN "absent" ELSE what]
<1>2. ASSUME NEW what,
             files' = [files EXCEPT ![S(t)][job[t].next] = IF @ = "absent" THEN @ ELSE what]
      PROVE  Wrote(what)
  <2>1. [files EXCEPT ![S(t)][job[t].next] = IF @ = "absent" THEN @ ELSE what]
          = [files EXCEPT ![S(t)][job[t].next] =
                  IF files[S(t)][job[t].next] = "absent" THEN "absent" ELSE what]
    OBVIOUS
  <2> QED
    BY <1>2, <2>1
<1>3. CASE Failed(t) /\ UNCHANGED sessions /\ spoiled' = spoiled \cup {S(t)}
           /\ files' = [files EXCEPT ![S(t)][job[t].next] = IF @ = "absent" THEN @ ELSE "torn"]
  <2>1. Wrote("torn")
    BY <1>2, <1>3
  <2> QED
    BY <1>3, <2>1 DEF Save, history
<1>4. CASE /\ files' = [files EXCEPT ![S(t)][job[t].next] = IF @ = "absent" THEN @ ELSE "saved"]
           /\ sessions' = Recorded(S(t), job[t].next + 1)
           /\ job' = [job EXCEPT ![t].next = job[t].next + 1,
                                 ![t].pc = IF job[t].next + 1 > Resources[S(t)]
                                           THEN "link" ELSE "fetch"]
           /\ UNCHANGED <<removing, answer, spoiled>>
  <2>1. Wrote("saved")
    BY <1>2, <1>4
  <2>2. /\ job'[t].next = job[t].next + 1
        /\ job'[t].pc = IF job[t].next + 1 > Resources[S(t)] THEN "link" ELSE "fetch"
        /\ \A u \in Tasks \ {t} : job'[u] = job[u]
        /\ job' \in [Tasks -> [pc : Steps, next : Nat]]
    <3> DEFINE n == job[t].next + 1
               pc == IF job[t].next + 1 > Resources[S(t)] THEN "link" ELSE "fetch"
    <3>1. n \in Nat /\ pc \in Steps
      BY <1>1 DEF Steps
    <3>2. job' = [job EXCEPT ![t].next = n, ![t].pc = pc]
      BY <1>4
    <3> HIDE DEF n, pc
    <3>3. /\ job'[t].next = n /\ job'[t].pc = pc
          /\ \A u \in Tasks \ {t} : job'[u] = job[u]
          /\ job' \in [Tasks -> [pc : Steps, next : Nat]]
      BY <1>1, <3>1, <3>2, TwoFields
    <3> QED
      BY <3>3 DEF n, pc
  <2> QED
    BY <1>4, <2>1, <2>2 DEF Save, history
<1> QED
  BY <1>3, <1>4 DEF Save

LEMMA LinkEffect ==
  ASSUME Types, NEW t \in Tasks, Link(t)
  PROVE  /\ At(t, "link")
         /\ UNCHANGED <<sessions, dirs, files, sweeping, alone, spoiled, leftover>>
         /\ \E linked \in SUBSET All(S(t)) :
              /\ links' \in [Executions -> SUBSET Nat]
              /\ links'[E(t)] = links[E(t)] \cup linked
              /\ \A e \in Executions \ {E(t)} : links'[e] = links[e]
              /\ \/ Failed(t)
                 \/ /\ Goes(t, "produce") /\ UNCHANGED <<removing, answer>>
                    /\ linked = All(S(t))
<1> DEFINE possible == {i \in All(S(t)) : /\ files[S(t)][i] # "absent"
                                         /\ \A j \in Refused(t) : i < j}
<1>1. links \in [Executions -> SUBSET Nat] /\ All(S(t)) \subseteq Nat /\ E(t) \in Executions
  BY Constants DEF Types
<1>2. possible \in SUBSET All(S(t)) /\ {} \in SUBSET All(S(t))
  OBVIOUS
<1>3. Refused(t) = {} => possible = All(S(t))
  BY DEF Refused
<1>4. /\ At(t, "link")
      /\ UNCHANGED <<sessions, dirs, files, sweeping, alone, spoiled, leftover>>
      /\ \/ /\ links' = [links EXCEPT ![E(t)] = links[E(t)] \cup possible]
            /\ \/ Refused(t) = {} /\ Goes(t, "produce") /\ UNCHANGED <<removing, answer>>
               \/ Failed(t)
         \/ Failed(t) /\ UNCHANGED links
  BY DEF Link, dirVars, history
<1> HIDE DEF possible
<1>5. PICK linked \in SUBSET All(S(t)) :
        /\ links' = [links EXCEPT ![E(t)] = links[E(t)] \cup linked]
        /\ \/ Failed(t)
           \/ Goes(t, "produce") /\ UNCHANGED <<removing, answer>> /\ linked = All(S(t))
  <2>1. CASE UNCHANGED links /\ Failed(t)
    <3>1. links' = [links EXCEPT ![E(t)] = links[E(t)] \cup {}]
      BY <1>1, <2>1
    <3> QED
      BY <1>2, <2>1, <3>1
  <2>2. CASE links' = [links EXCEPT ![E(t)] = links[E(t)] \cup possible]
    BY <1>2, <1>3, <1>4, <2>1, <2>2
  <2> QED
    BY <1>4, <2>1, <2>2
<1>6. /\ links' \in [Executions -> SUBSET Nat]
      /\ links'[E(t)] = links[E(t)] \cup linked
      /\ \A e \in Executions \ {E(t)} : links'[e] = links[e]
  BY <1>1, <1>5
<1> QED
  BY <1>4, <1>5, <1>6

LEMMA UnlinkOneEffect ==
  ASSUME Types, NEW t \in Tasks, UnlinkOne(t)
  PROVE  /\ t \in removing
         /\ links' \in [Executions -> SUBSET Nat]
         /\ links'[E(t)] \subseteq links[E(t)]
         /\ \A e \in Executions \ {E(t)} : links'[e] = links[e]
         /\ UNCHANGED <<sessions, dirs, files, sweeping, job, removing, answer,
                        alone, spoiled, leftover>>
<1>1. links \in [Executions -> SUBSET Nat] /\ E(t) \in Executions
  BY Constants DEF Types
<1>2. PICK i \in links[E(t)] : links' = [links EXCEPT ![E(t)] = links[E(t)] \ {i}]
  BY DEF UnlinkOne
<1> QED
  BY <1>1, <1>2 DEF UnlinkOne, dirVars, taskVars, history

LEMMA SweepOneEffect ==
  ASSUME Types, NEW s \in Sessions, SweepOne(s)
  PROVE  /\ s \in sweeping
         /\ \E i \in All(s) : files' = [files EXCEPT ![s][i] = "absent"]
         /\ UNCHANGED <<sessions, dirs, sweeping, links, job, removing, answer,
                        alone, spoiled, leftover>>
BY DEF SweepOne, taskVars, history

LEMMA RestartEffect ==
  ASSUME Types, Restart
  PROVE  /\ sessions' = {} /\ sweeping' = {} /\ removing' = {} /\ spoiled' = {}
         /\ job' \in [Tasks -> [pc : Steps, next : Nat]]
         /\ \A t \in Tasks : /\ job'[t].next = job[t].next
                             /\ job'[t].pc = IF Unanswered(t) THEN "lost" ELSE job[t].pc
         /\ leftover' = leftover \cup {e \in Executions : links[e] # {}}
         /\ UNCHANGED <<dirs, files, links, answer, alone>>
<1>1. job \in [Tasks -> [pc : Steps, next : Nat]]
  BY DEF Types
<1> QED
  BY <1>1 DEF Restart, Steps
-----------------------------------------------------------------------------
(* Types. *)

\* What Types says of one task.
Placed(t) ==
  /\ At(t, "done") <=> answer[t] # "none"
  /\ job[t].next \in 1..(Resources[S(t)] + 1)
  /\ At(t, "idle") => job[t].next = 1
  /\ job[t].pc \in {"fetch", "save"} => job[t].next \in All(S(t))
  /\ t \in removing => job[t].pc \in {"unlink", "done"}

LEMMA OthersPlaced ==
  ASSUME Types, NEW t \in Tasks,
         \A u \in Tasks \ {t} : /\ job'[u] = job[u] /\ answer'[u] = answer[u]
                                /\ u \in removing' => u \in removing,
         Placed(t)'
  PROVE  \A u \in Tasks : Placed(u)'
<1>1. ASSUME NEW u \in Tasks \ {t} PROVE Placed(u)'
  <2>1. Placed(u)
    BY DEF Types, Placed
  <2>2. job'[u] = job[u] /\ answer'[u] = answer[u] /\ (u \in removing' => u \in removing)
    OBVIOUS
  <2> QED
    BY <2>1, <2>2 DEF Placed, At
<1> QED
  BY <1>1

LEMMA FailedPlaced ==
  ASSUME Types, NEW t \in Tasks, Failed(t)
  PROVE  \A u \in Tasks : Placed(u)'
<1>1. /\ job'[t].pc = "done" /\ job'[t].next = job[t].next /\ answer'[t] = "failed"
      /\ \A u \in Tasks \ {t} : job'[u] = job[u] /\ answer'[u] = answer[u]
      /\ removing' = removing \cup {t}
  BY FailedStep
<1>2. Placed(t)
  BY DEF Types, Placed
<1>3. Placed(t)'
  BY <1>1, <1>2 DEF Placed, At
<1> QED
  BY <1>1, <1>3, OthersPlaced

\* A task goes on without being answered.
LEMMA GoesPlaced ==
  ASSUME Types, NEW t \in Tasks, ~At(t, "done"), UNCHANGED answer,
         job'[t].pc \in {"fetch", "save", "link", "reduce", "produce", "unlink", "threw"},
         job'[t].next \in 1..(Resources[S(t)] + 1),
         job'[t].pc \in {"fetch", "save"} => job'[t].next \in All(S(t)),
         t \in removing' => job'[t].pc = "unlink",
         \A u \in Tasks \ {t} : job'[u] = job[u] /\ (u \in removing' => u \in removing)
  PROVE  \A u \in Tasks : Placed(u)'
<1>1. Placed(t)
  BY DEF Types, Placed
<1>2. Placed(t)'
  BY <1>1 DEF Placed, At
<1> QED
  BY <1>2, OthersPlaced

LEMMA TypesPreserved == ASSUME Types, [Next]_vars PROVE Types'
<1>1. CASE UNCHANGED vars
  BY <1>1 DEF vars, dirVars, taskVars, history, Types, At
<1>2. ASSUME NEW t \in Tasks, Run(t) PROVE Types'
  <2>1. \A u \in Tasks : Placed(u)'
    <3>1. job[t].next = 1 /\ Resources[S(t)] \in Nat /\ t \notin removing /\ ~At(t, "done")
      BY <1>2, RunEffect, Constants DEF Types, At
    <3>2. job'[t].pc = "fetch" => 1 \in All(S(t))
      BY <1>2, <3>1, RunEffect DEF All
    <3> QED
      BY <1>2, <3>1, <3>2, RunEffect, GoesPlaced
  <2> QED
    BY <1>2, <2>1, RunEffect DEF Types, Placed
<1>3. ASSUME NEW t \in Tasks, Download(t) PROVE Types'
  <2>1. /\ At(t, "fetch") /\ S(t) \in Sessions /\ job[t].next \in All(S(t)) /\ t \notin removing
        /\ job[t].next \in 1..(Resources[S(t)] + 1)
    BY <1>3, DownloadEffect, Constants DEF Types, At
  <2>2. CASE Failed(t) /\ UNCHANGED files
    BY <1>3, <2>2, DownloadEffect, FailedStep, FailedPlaced DEF Types, Placed
  <2>3. CASE /\ Goes(t, "save") /\ UNCHANGED <<removing, answer>>
             /\ files' = [files EXCEPT ![S(t)][job[t].next] = "torn"]
    <3>1. /\ job' \in [Tasks -> [pc : Steps, next : Nat]]
          /\ job'[t].pc = "save" /\ job'[t].next = job[t].next
          /\ \A u \in Tasks \ {t} : job'[u] = job[u]
      BY <2>3, GoesStep DEF Steps
    <3>2. DOMAIN files' = Sessions /\ \A x \in Sessions : files'[x] \in [All(x) -> FileStates]
      BY <2>1, <2>3, FilesStep DEF FileStates
    <3>3. \A u \in Tasks : Placed(u)'
      BY <2>1, <2>3, <3>1, GoesPlaced DEF At
    <3> QED
      BY <1>3, <2>3, <3>1, <3>2, <3>3, DownloadEffect DEF Types, Placed
  <2> QED
    BY <1>3, <2>2, <2>3, DownloadEffect
<1>4. ASSUME NEW t \in Tasks, Save(t) PROVE Types'
  <2>1. /\ At(t, "save") /\ S(t) \in Sessions /\ job[t].next \in All(S(t)) /\ t \notin removing
        /\ Resources[S(t)] \in Nat /\ files[S(t)] \in [All(S(t)) -> FileStates]
    BY <1>4, SaveEffect, Constants DEF Types, At
  <2>2. DOMAIN files' = Sessions /\ \A x \in Sessions : files'[x] \in [All(x) -> FileStates]
    <3>1. PICK what \in {"saved", "torn"} :
            files' = [files EXCEPT ![S(t)][job[t].next] =
                        IF files[S(t)][job[t].next] = "absent" THEN "absent" ELSE what]
      BY <1>4, SaveEffect
    <3> DEFINE v == IF files[S(t)][job[t].next] = "absent" THEN "absent" ELSE what
    <3>2. v \in FileStates
      BY DEF FileStates
    <3>3. files' = [files EXCEPT ![S(t)][job[t].next] = v]
      BY <3>1
    <3> HIDE DEF v
    <3> QED
      BY <2>1, <3>2, <3>3, FilesStep
  <2>3. CASE Failed(t) /\ spoiled' = spoiled \cup {S(t)} /\ UNCHANGED sessions
    BY <1>4, <2>1, <2>2, <2>3, SaveEffect, FailedStep, FailedPlaced DEF Types, Placed
  <2>4. CASE /\ UNCHANGED <<removing, answer, spoiled>>
             /\ sessions' = Recorded(S(t), job[t].next + 1)
             /\ job' \in [Tasks -> [pc : Steps, next : Nat]]
             /\ job'[t].next = job[t].next + 1
             /\ job'[t].pc = IF job[t].next + 1 > Resources[S(t)] THEN "link" ELSE "fetch"
             /\ \A u \in Tasks \ {t} : job'[u] = job[u]
    <3>1. sessions' \subseteq Sessions
      BY <2>1, <2>4 DEF Types, Recorded
    <3>2. /\ job'[t].pc \in {"fetch", "link"} /\ job'[t].next \in 1..(Resources[S(t)] + 1)
          /\ job'[t].pc = "fetch" => job'[t].next \in All(S(t))
      BY <2>1, <2>4 DEF All
    <3>3. \A u \in Tasks : Placed(u)'
      BY <2>1, <2>4, <3>2, GoesPlaced DEF At
    <3> QED
      BY <1>4, <2>2, <2>4, <3>1, <3>3, SaveEffect DEF Types, Placed
  <2> QED
    BY <1>4, <2>3, <2>4, SaveEffect
<1>5. ASSUME NEW t \in Tasks, Link(t) PROVE Types'
  <2>1. /\ At(t, "link") /\ S(t) \in Sessions /\ E(t) \in Executions /\ t \notin removing
        /\ job[t].next \in 1..(Resources[S(t)] + 1)
    BY <1>5, LinkEffect, Constants DEF Types, At
  <2>2. /\ links' \in [Executions -> SUBSET Nat]
        /\ \A e \in Executions : links'[e] \subseteq UNION {All(s) : s \in Sessions}
    BY <1>5, <2>1, LinkEffect DEF Types
  <2>3. CASE Failed(t)
    BY <1>5, <2>2, <2>3, LinkEffect, FailedStep, FailedPlaced DEF Types, Placed
  <2>4. CASE Goes(t, "produce") /\ UNCHANGED <<removing, answer>>
    <3>1. /\ job' \in [Tasks -> [pc : Steps, next : Nat]]
          /\ job'[t].pc = "produce" /\ job'[t].next = job[t].next
          /\ \A u \in Tasks \ {t} : job'[u] = job[u]
      BY <2>4, GoesStep DEF Steps
    <3>2. \A u \in Tasks : Placed(u)'
      BY <2>1, <2>4, <3>1, GoesPlaced DEF At
    <3> QED
      BY <1>5, <2>2, <2>4, <3>1, <3>2, LinkEffect DEF Types, Placed
  <2> QED
    BY <1>5, <2>3, <2>4, LinkEffect
<1>6. ASSUME NEW t \in Tasks, Produce(t) PROVE Types'
  <2>1. /\ At(t, "produce") /\ job[t].next \in 1..(Resources[S(t)] + 1) /\ t \notin removing
        /\ UNCHANGED <<sessions, dirs, files, sweeping, links, alone, spoiled, leftover>>
    BY <1>6 DEF Produce, Types, At, dirVars, history
  <2>2. CASE Failed(t)
    BY <2>1, <2>2, FailedStep, FailedPlaced DEF Types, Placed
  <2>3. CASE Goes(t, "unlink") /\ removing' = removing \cup {t} /\ UNCHANGED answer
    <3>1. /\ job' \in [Tasks -> [pc : Steps, next : Nat]]
          /\ job'[t].pc = "unlink" /\ job'[t].next = job[t].next
          /\ \A u \in Tasks \ {t} : job'[u] = job[u]
      BY <2>3, GoesStep DEF Steps
    <3>2. \A u \in Tasks : Placed(u)'
      BY <2>1, <2>3, <3>1, GoesPlaced DEF At
    <3> QED
      BY <2>1, <2>3, <3>1, <3>2 DEF Types, Placed
  <2> QED
    BY <1>6, <2>2, <2>3 DEF Produce
<1>7. ASSUME NEW t \in Tasks, Reduce(t) PROVE Types'
  <2>1. /\ At(t, "reduce") /\ t \notin removing
        /\ UNCHANGED <<sessions, dirs, files, sweeping, links, alone, spoiled, leftover>>
    BY <1>7 DEF Reduce, Types, At, dirVars, history
  <2>2. CASE Failed(t)
    BY <2>1, <2>2, FailedStep, FailedPlaced DEF Types, Placed
  <2>3. CASE Goes(t, "done") /\ answer' = [answer EXCEPT ![t] = "finish"] /\ UNCHANGED removing
    <3>1. /\ job' \in [Tasks -> [pc : Steps, next : Nat]]
          /\ job'[t].pc = "done" /\ job'[t].next = job[t].next
          /\ \A u \in Tasks \ {t} : job'[u] = job[u]
      BY <2>3, GoesStep DEF Steps
    <3>2. /\ answer' \in [Tasks -> {"none", "finish", "failed"}] /\ answer'[t] = "finish"
          /\ \A u \in Tasks \ {t} : answer'[u] = answer[u]
      BY <2>3 DEF Types
    <3>3. Placed(t) /\ Placed(t)'
      BY <2>3, <3>1, <3>2 DEF Types, Placed, At
    <3>4. \A u \in Tasks : Placed(u)'
      BY <2>3, <3>1, <3>2, <3>3, OthersPlaced
    <3> QED
      BY <2>1, <2>3, <3>1, <3>2, <3>4 DEF Types, Placed
  <2> QED
    BY <1>7, <2>2, <2>3 DEF Reduce
<1>8. ASSUME NEW t \in Tasks, UnlinkOne(t) PROVE Types'
  <2>1. \A e \in Executions : links'[e] \subseteq links[e]
    BY <1>8, UnlinkOneEffect
  <2> QED
    BY <1>8, <2>1, UnlinkOneEffect DEF Types, At
<1>9. ASSUME NEW t \in Tasks, Unlinked(t) PROVE Types'
  <2>1. /\ UNCHANGED <<sessions, dirs, files, sweeping, links, alone, spoiled>>
        /\ leftover' \subseteq leftover /\ removing' = removing \ {t}
        /\ job[t].next \in 1..(Resources[S(t)] + 1)
    BY <1>9 DEF Unlinked, Types, dirVars
  <2>2. CASE At(t, "unlink") /\ Goes(t, "done") /\ answer' = [answer EXCEPT ![t] = "finish"]
    <3>1. /\ job' \in [Tasks -> [pc : Steps, next : Nat]]
          /\ job'[t].pc = "done" /\ job'[t].next = job[t].next
          /\ \A u \in Tasks \ {t} : job'[u] = job[u]
      BY <2>2, GoesStep DEF Steps
    <3>2. /\ answer' \in [Tasks -> {"none", "finish", "failed"}] /\ answer'[t] = "finish"
          /\ \A u \in Tasks \ {t} : answer'[u] = answer[u]
      BY <2>2 DEF Types
    <3>3. Placed(t)'
      BY <2>1, <3>1, <3>2 DEF Placed, At
    <3>4. \A u \in Tasks : Placed(u)'
      BY <2>1, <3>1, <3>2, <3>3, OthersPlaced
    <3> QED
      BY <2>1, <3>1, <3>2, <3>4 DEF Types, Placed
  <2>3. CASE UNCHANGED <<job, answer>>
    BY <2>1, <2>3 DEF Types, At
  <2> QED
    BY <1>9, <2>2, <2>3 DEF Unlinked
<1>10. ASSUME NEW t \in Tasks, UnlinkFails(t) PROVE Types'
  <2>1. /\ UNCHANGED <<sessions, dirs, files, sweeping, links, alone, spoiled>>
        /\ leftover' \subseteq Executions
    BY <1>10, Constants DEF UnlinkFails, Types, dirVars
  <2>2. CASE Failed(t)
    BY <2>1, <2>2, FailedStep, FailedPlaced DEF Types, Placed
  <2>3. CASE removing' = removing \ {t} /\ UNCHANGED <<job, answer>>
    BY <2>1, <2>3 DEF Types, At
  <2> QED
    BY <1>10, <2>2, <2>3 DEF UnlinkFails, Rejected
<1>11. ASSUME NEW s \in Sessions, DeleteCache(s) PROVE Types'
  BY <1>11 DEF DeleteCache, taskVars, Types, At
<1>12. ASSUME NEW s \in Sessions, SweepOne(s) PROVE Types'
  <2>1. DOMAIN files' = Sessions /\ \A x \in Sessions : files'[x] \in [All(x) -> FileStates]
    BY <1>12, SweepOneEffect, FilesStep DEF FileStates
  <2> QED
    BY <1>12, <2>1, SweepOneEffect DEF Types, At
<1>13. ASSUME NEW s \in Sessions, Swept(s) PROVE Types'
  BY <1>13 DEF Swept, taskVars, history, Types, At
<1>14. CASE Restart
  <2>1. ASSUME NEW t \in Tasks PROVE Placed(t)'
    <3>1. Placed(t) /\ job[t].pc \in Steps
      BY DEF Types, Placed
    <3> QED
      BY <1>14, <3>1, RestartEffect DEF Placed, At, Active, Unanswered, Steps
  <2> QED
    BY <1>14, <2>1, RestartEffect DEF Types, Placed
<1> QED
  BY <1>1, <1>2, <1>3, <1>4, <1>5, <1>6, <1>7, <1>8, <1>9, <1>10, <1>11, <1>12, <1>13, <1>14
  DEF Next, Goes_On, Removes
-----------------------------------------------------------------------------
(* The session cache. *)

LEMMA HeldKept ==
  ASSUME NEW s, NEW i, Held(s, i), files'[s][i] = files[s][i],
         \A u \in Tasks : At(u, "save") /\ S(u) = s => job'[u] = job[u]
  PROVE  Held(s, i)'
<1>1. CASE files[s][i] = "saved"
  BY <1>1 DEF Held
<1>2. CASE \E t \in Tasks : At(t, "save") /\ S(t) = s /\ job[t].next = i
  <2>1. PICK t \in Tasks : At(t, "save") /\ S(t) = s /\ job[t].next = i
    BY <1>2
  <2>2. At(t, "save")' /\ job'[t].next = i
    BY <2>1 DEF At
  <2> QED
    BY <2>1, <2>2 DEF Held, S
<1> QED
  BY <1>1, <1>2 DEF Held

\* A step that saves nothing and deletes no file.
LEMMA CacheKept ==
  ASSUME Types, Cache, \A s \in sessions' \ sessions : All(s) = {}, UNCHANGED files,
         spoiled \subseteq spoiled', sweeping' \subseteq spoiled',
         \A u \in Tasks : At(u, "save") => job'[u] = job[u],
         \A u \in Tasks : job'[u].pc \in {"fetch", "save"} =>
           job'[u] = job[u] \/ (job'[u].pc = "fetch" /\ job'[u].next = 1)
  PROVE  Cache'
<1>1. ASSUME NEW s, NEW i, Held(s, i) PROVE Held(s, i)'
  BY <1>1, HeldKept
<1>2. ASSUME NEW u \in Tasks, At(u, "save")', S(u) \notin spoiled'
      PROVE  files'[S(u)][job'[u].next] # "absent"
  BY <1>2 DEF Cache, At
<1>3. ASSUME NEW u \in Tasks, job'[u].pc \in {"fetch", "save"}, S(u) \notin spoiled',
             NEW i \in 1..(job'[u].next - 1)
      PROVE  Held(S(u), i)'
  <2>1. CASE job'[u] = job[u]
    BY <1>1, <1>3, <2>1 DEF Cache
  <2>2. CASE job'[u].next = 1
    BY <1>3, <2>2
  <2> QED
    BY <1>3, <2>1, <2>2
<1>4. ASSUME NEW s \in sessions' \ spoiled', NEW i \in All(s) PROVE Held(s, i)'
  <2>1. s \in sessions \ spoiled
    BY <1>4
  <2> QED
    BY <1>1, <2>1 DEF Cache
<1> QED
  BY <1>2, <1>3, <1>4 DEF Cache, S, All

LEMMA CachePreserved == ASSUME Types, Cache, [Next]_vars PROVE Cache'
<1> USE DEF S
<1>1. CASE UNCHANGED vars
  BY <1>1, CacheKept DEF vars, dirVars, taskVars, history, Cache
<1>2. ASSUME NEW t \in Tasks, Run(t) PROVE Cache'
  <2>1. job[t].next = 1 /\ At(t, "idle")
    BY <1>2, RunEffect DEF Types
  <2> QED
    BY <1>2, <2>1, RunEffect, CacheKept DEF Cache, At
<1>3. ASSUME NEW t \in Tasks, Failed(t), ~At(t, "save"), spoiled' = spoiled,
             UNCHANGED <<sessions, files, sweeping>>
      PROVE  Cache'
  BY <1>3, FailedStep, CacheKept DEF Cache, At
<1>4. ASSUME NEW t \in Tasks, Download(t) PROVE Cache'
  <2>1. /\ At(t, "fetch") /\ UNCHANGED <<sessions, sweeping, spoiled>>
        /\ S(t) \in Sessions /\ job[t].next \in All(S(t))
    BY <1>4, DownloadEffect, Constants DEF Types, At
  <2>2. CASE Failed(t) /\ UNCHANGED files
    BY <1>3, <2>1, <2>2 DEF At
  <2>3. CASE /\ Goes(t, "save")
             /\ files' = [files EXCEPT ![S(t)][job[t].next] = "torn"]
    <3>1. /\ job'[t].pc = "save" /\ job'[t].next = job[t].next
          /\ \A u \in Tasks \ {t} : job'[u] = job[u]
      BY <2>3, GoesStep DEF Steps
    <3>2. /\ files'[S(t)][job[t].next] = "torn"
          /\ \A x \in Sessions : \A j \in All(x) : x # S(t) \/ j # job[t].next
               => files'[x][j] = files[x][j]
      BY <2>1, <2>3, FilesStep DEF FileStates
    <3>3. ASSUME NEW s \in Sessions, NEW i \in All(s), Held(s, i) PROVE Held(s, i)'
      <4>1. CASE s = S(t) /\ i = job[t].next
        BY <3>1, <4>1 DEF Held, At
      <4>2. CASE s # S(t) \/ i # job[t].next
        <5>1. \A u \in Tasks : At(u, "save") => job'[u] = job[u]
          BY <2>1, <3>1 DEF At
        <5> QED
          BY <3>2, <3>3, <4>2, <5>1, HeldKept
      <4> QED
        BY <4>1, <4>2
    <3>4. ASSUME NEW u \in Tasks, At(u, "save")', S(u) \notin spoiled'
          PROVE  files'[S(u)][job'[u].next] # "absent"
      <4>1. CASE u = t
        BY <3>1, <3>2, <4>1
      <4>2. CASE u # t
        <5>1. /\ job'[u] = job[u] /\ At(u, "save") /\ S(u) \in Sessions
              /\ job[u].next \in All(S(u)) /\ files[S(u)][job[u].next] # "absent"
          BY <2>1, <3>1, <3>4, <4>2, Constants DEF At, Types, Cache
        <5> QED
          BY <3>2, <5>1
      <4> QED
        BY <4>1, <4>2
    <3>5. ASSUME NEW u \in Tasks, job'[u].pc \in {"fetch", "save"}, S(u) \notin spoiled',
                 NEW i \in 1..(job'[u].next - 1)
          PROVE  Held(S(u), i)'
      <4>1. job'[u].next = job[u].next /\ job[u].pc \in {"fetch", "save"}
        BY <2>1, <3>1, <3>5 DEF At
      <4>2. S(u) \in Sessions /\ i \in All(S(u)) /\ Held(S(u), i)
        <5>1. job[u].next \in All(S(u)) /\ S(u) \in Sessions /\ Resources[S(u)] \in Nat
          BY <4>1, Constants DEF Types
        <5>2. i \in All(S(u))
          BY <3>5, <4>1, <5>1 DEF All
        <5> QED
          BY <2>1, <3>5, <4>1, <5>1, <5>2 DEF Cache
      <4> QED
        BY <3>3, <4>2
    <3>6. ASSUME NEW s \in sessions' \ spoiled', NEW i \in All(s) PROVE Held(s, i)'
      BY <2>1, <3>3, <3>6 DEF Cache, Types
    <3> QED
      BY <2>1, <3>4, <3>5, <3>6 DEF Cache, All
  <2> QED
    BY <1>4, <2>2, <2>3, DownloadEffect
<1>5. ASSUME NEW t \in Tasks, Save(t) PROVE Cache'
  <2> DEFINE n == job[t].next
  <2>1. /\ At(t, "save") /\ UNCHANGED sweeping
        /\ S(t) \in Sessions /\ n \in All(S(t)) /\ Resources[S(t)] \in Nat
        /\ files[S(t)] \in [All(S(t)) -> FileStates]
    BY <1>5, SaveEffect, Constants DEF Types, At
  <2>2. PICK what \in {"saved", "torn"} :
          /\ files' = [files EXCEPT ![S(t)][n] = IF files[S(t)][n] = "absent" THEN "absent" ELSE what]
          /\ \/ /\ what = "saved" /\ UNCHANGED <<removing, answer, spoiled>>
                /\ sessions' = Recorded(S(t), n + 1)
                /\ job'[t].next = n + 1
                /\ job'[t].pc = IF n + 1 > Resources[S(t)] THEN "link" ELSE "fetch"
                /\ \A u \in Tasks \ {t} : job'[u] = job[u]
             \/ /\ Failed(t) /\ spoiled' = spoiled \cup {S(t)} /\ UNCHANGED sessions
    BY <1>5, SaveEffect
  <2>3. /\ files'[S(t)][n] = IF files[S(t)][n] = "absent" THEN "absent" ELSE what
        /\ \A x \in Sessions : \A j \in All(x) : x # S(t) \/ j # n => files'[x][j] = files[x][j]
    <3> DEFINE v == IF files[S(t)][n] = "absent" THEN "absent" ELSE what
    <3>1. v \in FileStates
      BY DEF FileStates
    <3>2. files' = [files EXCEPT ![S(t)][n] = v]
      BY <2>2
    <3> HIDE DEF v
    <3>3. /\ files'[S(t)][n] = v
          /\ \A x \in Sessions : \A j \in All(x) : x # S(t) \/ j # n => files'[x][j] = files[x][j]
      BY <2>1, <3>1, <3>2, FilesStep
    <3> QED
      BY <3>3 DEF v
  <2> HIDE DEF n
  <2>4. \A u \in Tasks \ {t} : job'[u] = job[u]
    BY <2>2, FailedStep
  <2>5. spoiled \subseteq spoiled'
    BY <2>2
  <2>6. S(t) \notin spoiled' => /\ files'[S(t)][n] = "saved"
                                /\ sessions' = Recorded(S(t), n + 1) /\ job'[t].next = n + 1
                                /\ job'[t].pc = IF n + 1 > Resources[S(t)] THEN "link" ELSE "fetch"
    BY <2>1, <2>2, <2>3 DEF Cache, n
  <2>7. ASSUME NEW s \in Sessions \ spoiled', NEW i \in All(s), Held(s, i) PROVE Held(s, i)'
    <3>1. CASE s = S(t) /\ i = n
      BY <2>6, <2>7, <3>1 DEF Held
    <3>2. CASE files[s][i] = "saved" /\ (s # S(t) \/ i # n)
      BY <2>3, <2>7, <3>2 DEF Held
    <3>3. CASE (\E u \in Tasks : At(u, "save") /\ S(u) = s /\ job[u].next = i)
               /\ (s # S(t) \/ i # n)
      <4>1. PICK u \in Tasks : At(u, "save") /\ S(u) = s /\ job[u].next = i
        BY <3>3
      <4>2. u # t
        BY <3>3, <4>1 DEF n
      <4>3. At(u, "save")' /\ job'[u].next = i
        BY <2>4, <4>1, <4>2 DEF At
      <4> QED
        BY <4>1, <4>3 DEF Held
    <3> QED
      BY <2>7, <3>1, <3>2, <3>3 DEF Held
  <2>8. job'[t].pc # "save"
    BY <2>2, FailedStep
  <2>9. ASSUME NEW u \in Tasks, At(u, "save")', S(u) \notin spoiled'
        PROVE  files'[S(u)][job'[u].next] # "absent"
    <3>1. /\ u # t /\ job'[u] = job[u] /\ At(u, "save") /\ S(u) \in Sessions
          /\ job[u].next \in All(S(u)) /\ files[S(u)][job[u].next] # "absent"
      BY <2>4, <2>5, <2>8, <2>9, Constants DEF At, Types, Cache
    <3> QED
      BY <2>3, <2>6, <2>9, <3>1
  <2>10. ASSUME NEW i \in 1..n, S(t) \notin spoiled' PROVE Held(S(t), i)'
    <3>1. i \in All(S(t))
      BY <2>1, <2>10 DEF All
    <3>2. CASE i = n
      BY <2>6, <2>10, <3>2 DEF Held
    <3>3. CASE i \in 1..(n - 1)
      <4>1. Held(S(t), i)
        BY <2>1, <2>5, <2>10, <3>3 DEF Cache, At, n
      <4> QED
        BY <2>1, <2>7, <2>10, <3>1, <4>1
    <3>4. n \in Nat
      BY <2>1, Constants
    <3> QED
      BY <2>10, <3>2, <3>3, <3>4
  <2>11. ASSUME NEW u \in Tasks, job'[u].pc \in {"fetch", "save"}, S(u) \notin spoiled',
               NEW i \in 1..(job'[u].next - 1)
        PROVE  Held(S(u), i)'
    <3>1. CASE u = t
      <4>1. n \in Nat /\ job'[t].next = n + 1
        BY <2>1, <2>6, <2>11, <3>1, Constants
      <4>2. i \in 1..n
        BY <2>11, <3>1, <4>1
      <4> QED
        BY <2>10, <2>11, <3>1, <4>2
    <3>2. CASE u # t
      <4>1. /\ job'[u] = job[u] /\ job[u].pc \in {"fetch", "save"} /\ S(u) \in Sessions
            /\ job[u].next \in All(S(u)) /\ Resources[S(u)] \in Nat
        BY <2>4, <2>11, <3>2, Constants DEF Types
      <4>2. i \in All(S(u)) /\ Held(S(u), i)
        <5>1. i \in All(S(u))
          BY <2>11, <4>1 DEF All
        <5> QED
          BY <2>5, <2>11, <4>1, <5>1 DEF Cache
      <4> QED
        BY <2>7, <2>11, <4>1, <4>2
    <3> QED
      BY <3>1, <3>2
  <2>12. ASSUME NEW s \in sessions' \ spoiled', NEW i \in All(s) PROVE Held(s, i)'
    <3>1. CASE s \in sessions
      BY <2>5, <2>7, <2>12, <3>1 DEF Cache, Types
    <3>2. CASE s \notin sessions
      <4>1. s = S(t) /\ n + 1 > Resources[S(t)]
        BY <2>2, <2>12, <3>2 DEF Recorded
      <4>2. n \in Nat
        BY <2>1, Constants
      <4>3. i \in 1..n
        BY <2>1, <2>12, <4>1, <4>2 DEF All
      <4> QED
        BY <2>10, <2>12, <4>1, <4>3
    <3> QED
      BY <3>1, <3>2
  <2>13. sweeping' \subseteq spoiled'
    BY <2>1, <2>5 DEF Cache
  <2> QED
    BY <2>9, <2>11, <2>12, <2>13 DEF Cache, All
<1>6. ASSUME NEW t \in Tasks, Link(t) PROVE Cache'
  <2>1. CASE Failed(t)
    BY <1>3, <1>6, <2>1, LinkEffect DEF At
  <2>2. CASE Goes(t, "produce")
    BY <1>6, <2>2, LinkEffect, GoesStep, CacheKept DEF Cache, At, Steps
  <2> QED
    BY <1>6, <2>1, <2>2, LinkEffect
<1>7. ASSUME NEW t \in Tasks, Produce(t) PROVE Cache'
  <2>1. At(t, "produce") /\ UNCHANGED <<sessions, files, sweeping, spoiled>>
    BY <1>7 DEF Produce, dirVars, history
  <2>2. CASE Failed(t)
    BY <1>3, <2>1, <2>2 DEF At
  <2>3. CASE Goes(t, "unlink")
    BY <2>1, <2>3, GoesStep, CacheKept DEF Cache, At, Steps
  <2> QED
    BY <1>7, <2>2, <2>3 DEF Produce
<1>8. ASSUME NEW t \in Tasks, Reduce(t) PROVE Cache'
  <2>1. At(t, "reduce") /\ UNCHANGED <<sessions, files, sweeping, spoiled>>
    BY <1>8 DEF Reduce, dirVars, history
  <2>2. CASE Failed(t)
    BY <1>3, <2>1, <2>2 DEF At
  <2>3. CASE Goes(t, "done")
    BY <2>1, <2>3, GoesStep, CacheKept DEF Cache, At, Steps
  <2> QED
    BY <1>8, <2>2, <2>3 DEF Reduce
<1>9. ASSUME NEW t \in Tasks, UnlinkOne(t) PROVE Cache'
  BY <1>9, UnlinkOneEffect, CacheKept DEF Cache
<1>10. ASSUME NEW t \in Tasks, Unlinked(t) PROVE Cache'
  <2>1. UNCHANGED <<sessions, files, sweeping, spoiled>>
    BY <1>10 DEF Unlinked, dirVars
  <2>2. CASE At(t, "unlink") /\ Goes(t, "done")
    BY <2>1, <2>2, GoesStep, CacheKept DEF Cache, At, Steps
  <2>3. CASE UNCHANGED job
    BY <2>1, <2>3, CacheKept DEF Cache
  <2> QED
    BY <1>10, <2>2, <2>3 DEF Unlinked
<1>11. ASSUME NEW t \in Tasks, UnlinkFails(t) PROVE Cache'
  <2>1. UNCHANGED <<sessions, files, sweeping, spoiled>>
    BY <1>11 DEF UnlinkFails, dirVars
  <2>2. CASE At(t, "unlink") /\ Failed(t)
    BY <1>3, <2>1, <2>2 DEF At
  <2>3. CASE UNCHANGED job
    BY <2>1, <2>3, CacheKept DEF Cache
  <2> QED
    BY <1>11, <2>2, <2>3 DEF UnlinkFails, Rejected
<1>12. ASSUME NEW s \in Sessions, DeleteCache(s) PROVE Cache'
  <2>1. /\ sessions' \subseteq sessions /\ UNCHANGED <<files, job>>
        /\ spoiled' = spoiled \cup {s} /\ sweeping' \subseteq sweeping \cup {s}
    BY <1>12 DEF DeleteCache, taskVars
  <2> QED
    BY <2>1, CacheKept DEF Cache
<1>13. ASSUME NEW s \in Sessions, SweepOne(s) PROVE Cache'
  <2>1. s \in spoiled /\ UNCHANGED <<sessions, sweeping, job, spoiled>>
    BY <1>13, SweepOneEffect DEF Cache
  <2>2. \A x \in Sessions \ {s} : \A i \in All(x) : files'[x][i] = files[x][i]
    BY <1>13, SweepOneEffect, FilesStep DEF FileStates
  <2>3. ASSUME NEW x \in Sessions \ spoiled, NEW i \in All(x), Held(x, i) PROVE Held(x, i)'
    BY <2>1, <2>2, <2>3, HeldKept
  <2>4. ASSUME NEW u \in Tasks, At(u, "save")', S(u) \notin spoiled'
        PROVE  files'[S(u)][job'[u].next] # "absent"
    <3>1. At(u, "save") /\ S(u) \in Sessions \ {s} /\ job[u].next \in All(S(u))
      BY <2>1, <2>4, Constants DEF At, Types
    <3> QED
      BY <2>1, <2>2, <2>4, <3>1 DEF Cache
  <2>5. ASSUME NEW u \in Tasks, job'[u].pc \in {"fetch", "save"}, S(u) \notin spoiled',
               NEW i \in 1..(job'[u].next - 1)
        PROVE  Held(S(u), i)'
    <3>1. job[u].next \in All(S(u)) /\ S(u) \in Sessions /\ Resources[S(u)] \in Nat
      BY <2>1, <2>5, Constants DEF Types
    <3>2. i \in All(S(u))
      BY <2>1, <2>5, <3>1 DEF All
    <3> QED
      BY <2>1, <2>3, <2>5, <3>1, <3>2 DEF Cache
  <2>6. ASSUME NEW x \in sessions' \ spoiled', NEW i \in All(x) PROVE Held(x, i)'
    BY <2>1, <2>3, <2>6 DEF Cache, Types
  <2> QED
    BY <2>1, <2>4, <2>5, <2>6 DEF Cache, All
<1>14. ASSUME NEW s \in Sessions, Swept(s) PROVE Cache'
  BY <1>14, CacheKept DEF Swept, taskVars, history, Cache
<1>15. CASE Restart
  <2>1. \A t \in Tasks : job'[t].pc \notin {"fetch", "save"}
    BY <1>15, RestartEffect DEF Active, Unanswered, At
  <2> QED
    BY <1>15, <2>1, RestartEffect DEF Cache, At
<1> QED
  BY <1>1, <1>2, <1>4, <1>5, <1>6, <1>7, <1>8, <1>9, <1>10, <1>11, <1>12, <1>13, <1>14, <1>15
  DEF Next, Goes_On, Removes
-----------------------------------------------------------------------------
(* The links. *)

\* A step of a task that is on the worker, or whose rimraf is: what it must keep.
LEMMA LinksKept ==
  ASSUME Types, Links, NEW t \in Tasks, Active(t) \/ t \in removing,
         Active(t)' => Active(t), UNCHANGED alone,
         \A u \in Tasks \ {t} : job'[u] = job[u] /\ (u \in removing' <=> u \in removing),
         \A e \in Executions \ {E(t)} : links'[e] = links[e],
         links'[E(t)] \subseteq All(S(t)),
         leftover \ {E(t)} \subseteq leftover',
         t \in alone /\ At(t, "produce")' => links'[E(t)] = All(S(t)),
         \/ t \in removing' \/ At(t, "produce")' \/ E(t) \in leftover' \/ links'[E(t)] = {}
         \/ /\ links'[E(t)] = links[E(t)] /\ ~At(t, "produce") /\ t \notin removing
            /\ leftover \subseteq leftover'
  PROVE  Links'
<1> USE Constants
<1>1. ASSUME NEW u \in Tasks PROVE links'[E(u)] \subseteq All(S(u))
  <2>1. CASE E(u) = E(t)
    BY <2>1
  <2>2. CASE E(u) # E(t)
    BY <2>2 DEF Links
  <2> QED
    BY <2>1, <2>2
<1>2. ASSUME NEW u \in alone, Active(u)', NEW v \in Tasks \ {u}, E(v) = E(u)
      PROVE  ~Active(v)' /\ v \notin removing'
  <2>1. u \in Tasks /\ Active(u)
    BY <1>2 DEF Types, Active, Unanswered, At
  <2>2. ~Active(v) /\ v \notin removing
    BY <1>2, <2>1 DEF Links
  <2> QED
    BY <2>2 DEF Active, Unanswered, At
<1>3. ASSUME NEW u \in alone, At(u, "produce")' PROVE links'[E(u)] = All(S(u))
  <2>1. CASE u = t
    BY <1>3, <2>1
  <2>2. CASE u # t
    <3>1. u \in Tasks /\ At(u, "produce") /\ Active(u)
      BY <1>3, <2>2 DEF Types, Active, Unanswered, At
    <3>2. E(u) # E(t)
      BY <2>2, <3>1 DEF Links
    <3> QED
      BY <3>1, <3>2 DEF Links, Supplied
  <2> QED
    BY <2>1, <2>2
<1>4. ASSUME NEW e \in Executions \ leftover', links'[e] # {}
      PROVE  \E u \in Tasks : E(u) = e /\ (At(u, "produce")' \/ u \in removing')
  <2>1. ASSUME NEW u \in Tasks \ {t}, E(u) = e, At(u, "produce") \/ u \in removing
        PROVE  \E v \in Tasks : E(v) = e /\ (At(v, "produce")' \/ v \in removing')
    <3>1. At(u, "produce")' \/ u \in removing'
      BY <2>1 DEF At
    <3> QED
      BY <2>1, <3>1
  <2>2. CASE e # E(t)
    <3>1. e \notin leftover /\ links[e] # {}
      BY <1>4, <2>2
    <3>2. PICK u \in Tasks : E(u) = e /\ (At(u, "produce") \/ u \in removing)
      BY <3>1 DEF Links, LinksOwned
    <3> QED
      BY <2>1, <2>2, <3>2
  <2>3. CASE e = E(t) /\ (t \in removing' \/ At(t, "produce")')
    BY <2>3
  <2>4. CASE e = E(t) /\ links'[E(t)] = links[E(t)] /\ ~At(t, "produce") /\ t \notin removing
             /\ leftover \subseteq leftover'
    <3>1. PICK u \in Tasks : E(u) = e /\ (At(u, "produce") \/ u \in removing)
      BY <1>4, <2>4 DEF Links, LinksOwned
    <3> QED
      BY <2>1, <2>4, <3>1
  <2> QED
    BY <1>4, <2>2, <2>3, <2>4
<1>5. Supplied'
  BY <1>3 DEF Supplied, E, S, All
<1>6. LinksOwned'
  BY <1>4 DEF LinksOwned, E
<1> QED
  BY <1>1, <1>2, <1>5, <1>6 DEF Links, E, S, All

\* A failure leaves the links to the rimraf it starts.
LEMMA FailedLinks ==
  ASSUME Types, Links, NEW t \in Tasks, Active(t), Failed(t),
         UNCHANGED alone, leftover \subseteq leftover',
         \A e \in Executions \ {E(t)} : links'[e] = links[e],
         links'[E(t)] \subseteq All(S(t))
  PROVE  Links'
<1>1. /\ job'[t].pc = "done" /\ t \in removing'
      /\ \A u \in Tasks \ {t} : job'[u] = job[u] /\ (u \in removing' <=> u \in removing)
  BY FailedStep
<1>2. ~Active(t)' /\ ~At(t, "produce")'
  BY <1>1 DEF Active, Unanswered, At
<1> QED
  BY <1>1, <1>2, LinksKept

LEMMA LinksPreserved == ASSUME Types, Links, [Next]_vars PROVE Links'
<1> USE Constants
<1>1. ASSUME UNCHANGED <<links, job, removing, alone, leftover>> PROVE Links'
  BY <1>1 DEF Links, Supplied, LinksOwned, Active, Unanswered, At, E, S, All
<1>2. CASE UNCHANGED vars
  BY <1>1, <1>2 DEF vars, taskVars, history
<1>3. ASSUME NEW t \in Tasks, Run(t) PROVE Links'
  <2>1. /\ At(t, "idle") /\ job'[t].pc \in {"fetch", "link", "reduce", "threw"}
        /\ \A u \in Tasks \ {t} : job'[u] = job[u]
        /\ alone' = {u \in alone : E(u) # E(t)} \cup IF Busy(E(t)) THEN {} ELSE {t}
        /\ UNCHANGED <<links, removing, leftover>>
    BY <1>3, RunEffect
  <2>2. ~At(t, "produce") /\ ~At(t, "produce")' /\ t \notin removing
    BY <2>1 DEF At, Types
  <2>3. ASSUME NEW u \in alone', Active(u)', NEW v \in Tasks \ {u}, E(v) = E(u)
        PROVE  ~Active(v)' /\ v \notin removing'
    <3>1. CASE u = t
      <4>1. ~Busy(E(t))
        BY <2>1, <2>3, <3>1
      <4>2. ~Active(v) /\ v \notin removing
        BY <2>3, <3>1, <4>1 DEF Busy
      <4> QED
        BY <2>1, <2>3, <3>1, <4>2 DEF Active, Unanswered, At
    <3>2. CASE u # t
      <4>1. u \in alone /\ u \in Tasks /\ E(u) # E(t) /\ Active(u) /\ v # t
        BY <2>1, <2>3, <3>2 DEF Active, Unanswered, At, Types
      <4>2. ~Active(v) /\ v \notin removing
        BY <2>3, <4>1 DEF Links
      <4> QED
        BY <2>1, <4>1, <4>2 DEF Active, Unanswered, At
    <3> QED
      BY <3>1, <3>2
  <2>4. ASSUME NEW u \in alone', At(u, "produce")' PROVE links'[E(u)] = All(S(u))
    <3>1. u # t /\ u \in alone /\ At(u, "produce")
      BY <2>1, <2>2, <2>4 DEF At, Types
    <3> QED
      BY <2>1, <3>1 DEF Links, Supplied
  <2>5. ASSUME NEW e \in Executions \ leftover', links'[e] # {}
        PROVE  \E u \in Tasks : E(u) = e /\ (At(u, "produce")' \/ u \in removing')
    <3>1. PICK u \in Tasks : E(u) = e /\ (At(u, "produce") \/ u \in removing)
      BY <2>1, <2>5 DEF Links, LinksOwned
    <3>2. u # t /\ (At(u, "produce")' \/ u \in removing')
      BY <2>1, <2>2, <3>1 DEF At
    <3> QED
      BY <3>1, <3>2
  <2>6. Supplied'
    BY <2>4 DEF Supplied, E, S, All
  <2>7. LinksOwned'
    BY <2>5 DEF LinksOwned, E
  <2> QED
    BY <2>1, <2>3, <2>6, <2>7 DEF Links, E, S, All
<1>4. ASSUME NEW t \in Tasks, Download(t) PROVE Links'
  <2>1. /\ At(t, "fetch") /\ Active(t) /\ ~At(t, "produce") /\ t \notin removing
        /\ UNCHANGED <<links, alone, leftover>> /\ links[E(t)] \subseteq All(S(t))
    BY <1>4, DownloadEffect DEF Active, Unanswered, At, Types, Links
  <2>2. CASE Failed(t)
    BY <2>1, <2>2, FailedLinks
  <2>3. CASE Goes(t, "save") /\ UNCHANGED removing
    BY <2>1, <2>3, GoesStep, LinksKept DEF At, Steps
  <2> QED
    BY <1>4, <2>2, <2>3, DownloadEffect
<1>5. ASSUME NEW t \in Tasks, Save(t) PROVE Links'
  <2>1. /\ At(t, "save") /\ Active(t) /\ ~At(t, "produce") /\ t \notin removing
        /\ UNCHANGED <<links, alone, leftover>> /\ links[E(t)] \subseteq All(S(t))
    BY <1>5, SaveEffect DEF Active, Unanswered, At, Types, Links
  <2>2. CASE Failed(t)
    BY <2>1, <2>2, FailedLinks
  <2>3. CASE /\ job'[t].pc \in {"link", "fetch"} /\ UNCHANGED removing
             /\ \A u \in Tasks \ {t} : job'[u] = job[u]
    BY <2>1, <2>3, LinksKept DEF At
  <2> QED
    BY <1>5, <2>2, <2>3, SaveEffect
<1>6. ASSUME NEW t \in Tasks, Link(t) PROVE Links'
  <2>1. PICK linked \in SUBSET All(S(t)) :
          /\ links'[E(t)] = links[E(t)] \cup linked
          /\ \A e \in Executions \ {E(t)} : links'[e] = links[e]
          /\ \/ Failed(t)
             \/ /\ Goes(t, "produce") /\ UNCHANGED <<removing, answer>>
                /\ linked = All(S(t))
    BY <1>6, LinkEffect
  <2>2. /\ Active(t) /\ UNCHANGED <<alone, leftover>>
        /\ links[E(t)] \subseteq All(S(t)) /\ links'[E(t)] \subseteq All(S(t))
    BY <1>6, <2>1, LinkEffect DEF Active, Unanswered, At, Links
  <2>3. CASE Failed(t)
    BY <2>1, <2>2, <2>3, FailedLinks
  <2>4. CASE Goes(t, "produce") /\ UNCHANGED removing /\ linked = All(S(t))
    <3>1. At(t, "produce")' /\ \A u \in Tasks \ {t} : job'[u] = job[u]
      BY <2>4, GoesStep DEF At, Steps
    <3>2. links'[E(t)] = All(S(t))
      BY <2>1, <2>2, <2>4
    <3> QED
      BY <2>1, <2>2, <2>4, <3>1, <3>2, LinksKept
  <2> QED
    BY <2>1, <2>3, <2>4
<1>7. ASSUME NEW t \in Tasks, Produce(t) PROVE Links'
  <2>1. /\ Active(t) /\ UNCHANGED <<links, alone, leftover>>
        /\ links[E(t)] \subseteq All(S(t))
    BY <1>7 DEF Produce, history, Active, Unanswered, At, Links
  <2>2. CASE Failed(t)
    BY <2>1, <2>2, FailedLinks
  <2>3. CASE Goes(t, "unlink") /\ removing' = removing \cup {t}
    <3>1. ~At(t, "produce")' /\ \A u \in Tasks \ {t} : job'[u] = job[u]
      BY <2>3, GoesStep DEF At, Steps
    <3> QED
      BY <2>1, <2>3, <3>1, LinksKept
  <2> QED
    BY <1>7, <2>2, <2>3 DEF Produce
<1>8. ASSUME NEW t \in Tasks, Reduce(t) PROVE Links'
  <2>1. /\ At(t, "reduce") /\ Active(t) /\ ~At(t, "produce") /\ t \notin removing
        /\ UNCHANGED <<links, alone, leftover>> /\ links[E(t)] \subseteq All(S(t))
    BY <1>8 DEF Reduce, history, Active, Unanswered, At, Types, Links
  <2>2. CASE Failed(t)
    BY <2>1, <2>2, FailedLinks
  <2>3. CASE Goes(t, "done") /\ UNCHANGED removing
    BY <2>1, <2>3, GoesStep, LinksKept DEF At, Steps
  <2> QED
    BY <1>8, <2>2, <2>3 DEF Reduce
<1>9. ASSUME NEW t \in Tasks, UnlinkOne(t) PROVE Links'
  <2>1. links'[E(t)] \subseteq All(S(t))
    BY <1>9, UnlinkOneEffect DEF Links
  <2>2. ~At(t, "produce")'
    BY <1>9, UnlinkOneEffect DEF Types, At
  <2> QED
    BY <1>9, <2>1, <2>2, UnlinkOneEffect, LinksKept DEF Active, Unanswered, At
<1>10. ASSUME NEW t \in Tasks, Unlinked(t) PROVE Links'
  <2>1. /\ t \in removing /\ links[E(t)] = {} /\ removing' = removing \ {t}
        /\ leftover' = leftover \ {E(t)} /\ UNCHANGED <<links, alone>>
    BY <1>10 DEF Unlinked
  <2>2. CASE At(t, "unlink") /\ Goes(t, "done")
    <3>1. ~At(t, "produce")' /\ ~Active(t)' /\ \A u \in Tasks \ {t} : job'[u] = job[u]
      BY <2>2, GoesStep DEF At, Active, Unanswered, Steps
    <3> QED
      BY <2>1, <3>1, LinksKept
  <2>3. CASE UNCHANGED job
    <3>1. ~At(t, "produce")' /\ (Active(t)' => Active(t))
      BY <2>1, <2>3 DEF Types, At, Active, Unanswered
    <3> QED
      BY <2>1, <2>3, <3>1, LinksKept
  <2> QED
    BY <1>10, <2>2, <2>3 DEF Unlinked
<1>11. ASSUME NEW t \in Tasks, UnlinkFails(t) PROVE Links'
  <2>1. /\ t \in removing /\ leftover' = leftover \cup {E(t)} /\ UNCHANGED <<links, alone>>
        /\ links[E(t)] \subseteq All(S(t))
    BY <1>11 DEF UnlinkFails, Links
  <2>2. CASE At(t, "unlink") /\ Failed(t)
    BY <2>1, <2>2, FailedLinks DEF At, Active, Unanswered
  <2>3. CASE removing' = removing \ {t} /\ UNCHANGED job
    <3>1. ~At(t, "produce")' /\ (Active(t)' => Active(t))
      BY <2>1, <2>3 DEF Types, At, Active, Unanswered
    <3> QED
      BY <2>1, <2>3, <3>1, LinksKept
  <2> QED
    BY <1>11, <2>2, <2>3 DEF UnlinkFails, Rejected
<1>12. ASSUME NEW s \in Sessions, DeleteCache(s) PROVE Links'
  BY <1>1, <1>12 DEF DeleteCache, taskVars
<1>13. ASSUME NEW s \in Sessions, SweepOne(s) PROVE Links'
  BY <1>1, <1>13, SweepOneEffect
<1>14. ASSUME NEW s \in Sessions, Swept(s) PROVE Links'
  BY <1>1, <1>14 DEF Swept, taskVars, history
<1>15. CASE Restart
  <2>1. \A t \in Tasks : ~Active(t)' /\ ~At(t, "produce")'
    BY <1>15, RestartEffect DEF Active, Unanswered, At
  <2>2. \A e \in Executions \ leftover' : links'[e] = {}
    BY <1>15, RestartEffect
  <2>3. Supplied' /\ LinksOwned'
    BY <1>15, <2>1, <2>2, RestartEffect DEF Supplied, LinksOwned, Types
  <2> QED
    BY <1>15, <2>1, <2>3, RestartEffect DEF Links, Types, E, S, All
<1> QED
  BY <1>2, <1>3, <1>4, <1>5, <1>6, <1>7, <1>8, <1>9, <1>10, <1>11, <1>12, <1>13, <1>14, <1>15
  DEF Next, Goes_On, Removes

-----------------------------------------------------------------------------
(* The theorems. *)

\* The invariant behind the others: the types with where each task is, how much of
\* a session a fetch has got so far, and who owns the links of an execution.
THEOREM NodeInvariance == Spec => []NInv
<1>1. Init => NInv
  <2> SUFFICES ASSUME Init PROVE NInv
    OBVIOUS
  <2>1. Types
    BY Constants DEF Init, Types, At, Steps, FileStates
  <2>2. Cache
    BY Constants DEF Init, Cache, At
  <2>3. Links
    BY Constants DEF Init, Links, Supplied, LinksOwned
  <2> QED
    BY <2>1, <2>2, <2>3 DEF NInv
<1>2. NInv /\ [Next]_vars => NInv'
  BY TypesPreserved, CachePreserved, LinksPreserved DEF NInv
<1> QED
  BY <1>1, <1>2, PTL DEF Spec

\* The tables have their types, and run ends exactly when its answer has been sent
\* (worker.js:162-173).
THEOREM NodeTypes == Spec => []TypeOK
<1>1. NInv => TypeOK
  BY DEF NInv, Types, TypeOK, FileStates, At
<1> QED
  BY <1>1, NodeInvariance, PTL

\* A cached session has all its resources, unless it was deleted or a write of it
\* failed half-way (worker.js:324-398).
THEOREM CachesAreComplete == Spec => []CacheComplete
<1>1. NInv => CacheComplete
  BY DEF NInv, Cache, CacheComplete, Held
<1> QED
  BY <1>1, NodeInvariance, PTL

\* A producer that was alone with the directory of its execution runs with every
\* resource linked (worker.js:416-438).
THEOREM RenderersAreSupplied == Spec => []Supplied
<1>1. NInv => Supplied
  BY DEF NInv, Links
<1> QED
  BY <1>1, NodeInvariance, PTL

\* No link stays behind in the directory of an execution that nobody uses or
\* removes, except after a restart or a rimraf that failed (worker.js:440-453).
THEOREM LinksAreOwned == Spec => []LinksOwned
<1>1. NInv => LinksOwned
  BY DEF NInv, Links
<1> QED
  BY <1>1, NodeInvariance, PTL
=============================================================================
