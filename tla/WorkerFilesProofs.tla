-------------------------- MODULE WorkerFilesProofs --------------------------
(***************************************************************************)
(* Proofs about WorkerFiles, for any processes, threads, shared tmpdirs,   *)
(* contents and calls, and however often processes die: the mutex is held  *)
(* by exactly the calls that write, what a worker has answered for stays   *)
(* but for writes that went wrong, and a read gets Junk only from a crash, *)
(* the disk or another process.                                            *)
(***************************************************************************)
EXTENDS WorkerFiles, TLAPS

Marks == {"absent", "whole", "torn"}
Holding == {"write", "link", "spill"}
Ops == {"none", "Get", "Delete", "Transfer", "Put", "Run", "Compose"}

JobRecord ==
  [pc : Steps, op : Ops, id : Contents \cup {None}, content : Contents \cup {None},
   todo : SUBSET Contents, at : Procs \cup {None}, n : 0..MaxDirs]
DirRecord == [made : BOOLEAN, links : SUBSET Contents, exr : Images \cup {None}]

\* What the local variables j of a call of thread t hold, by where it is.
Fits(t, j) ==
  /\ j \in JobRecord
  /\ j.pc = "get" => j.content = None
  /\ j.pc = "get" /\ j.op \in {"Get", "Transfer"} => j.id \in Contents /\ j.at \in Procs
  /\ j.pc = "get" /\ j.op = "Get" => j.at = P(t)
  /\ j.pc \in {"put", "write"} => j.content \in Contents
  /\ j.pc \in {"delete", "spill"} => j.id \in Contents
  /\ j.pc \in {"link", "spill", "chdir", "pbrt", "retain"} => j.n \in 0..(MaxDirs - 1)

DirTypes ==
  /\ tmp \in [Dirs -> [0..(MaxDirs - 1) -> DirRecord]]
  /\ tmpCnt \in [Procs -> 0..MaxDirs] /\ cwd \in [Procs -> 0..(MaxDirs - 1) \cup {None}]

Types ==
  /\ dir \in [Procs -> Dirs] /\ memory \in [Procs -> SUBSET Small]
  /\ mutex \in [Procs -> Threads \cup {Free}]
  /\ disk \in [Dirs -> [Contents -> Marks \cup Threads]]
  /\ lost \in [Dirs -> SUBSET Contents]
  /\ DirTypes
  /\ job \in [Threads -> JobRecord]
  /\ calls \in 0..MaxCalls /\ promised \in [Procs -> SUBSET Contents]

Jobs == \A t \in Threads : Fits(t, job[t])

Held == \A t \in Threads : job[t].pc \in Holding <=> mutex[P(t)] = t

\* The file of id i is there, or known as lost.
Stored(d, i) == There(d, i) \/ i \in lost[d]
Stays(d, i) == disk'[d][i] \in {"whole"} \cup Threads \/ i \in lost'[d]

\* A file is marked as being written only by a call that writes it, and the
\* file such a call writes is there, unless it was lost meanwhile.
Marked ==
  \A d \in Dirs, i \in Contents, u \in Threads :
    disk[d][i] = u => Writes(u, i) /\ D(u) = d

Present ==
  \A u \in Threads, i \in Contents : Writes(u, i) => Stored(D(u), i)

WInv ==
  /\ Types
  /\ Jobs
  /\ Held
  /\ Marked
  /\ Present
  /\ KeepsPromises

-----------------------------------------------------------------------------

LEMMA Names ==
  /\ None \notin Contents /\ Free \notin Threads
  /\ Junk \in Contents /\ Junk \notin Small /\ Small \subseteq Contents /\ Images \subseteq Contents
  /\ Serves \in [Threads -> Procs] /\ MaxDirs \in Nat /\ MaxCalls \in Nat
  /\ \A u \in Threads : u \notin Marks
BY NamesDiffer, JunkIsContent, SmallAndImages, ThreadsServe, Bounds DEF Marks

LEMMA Placed ==
  ASSUME WInv, NEW t \in Threads
  PROVE  /\ P(t) \in Procs /\ D(t) \in Dirs /\ D(t) = dir[P(t)]
         /\ job[t] \in JobRecord /\ Fits(t, job[t])
         /\ DOMAIN job = Threads
BY Names DEF WInv, Types, Jobs, P, D

\* What a step changes of the calls: those of thread t become j.
Becomes(t, j) ==
  /\ job' \in [Threads -> JobRecord]
  /\ job'[t] = j /\ \A u \in Threads \ {t} : job'[u] = job[u]

LEMMA IdleFits ==
  ASSUME NEW t \in Threads
  PROVE  Idle \in JobRecord /\ Fits(t, Idle) /\ Idle.pc \notin Holding
         /\ Idle.content = None
BY Names DEF Idle, Fits, JobRecord, Steps, Ops, Holding

LEMMA ReturnsStep ==
  ASSUME WInv, NEW t \in Threads, Returns(t)
  PROVE  Becomes(t, Idle)
BY IdleFits DEF WInv, Types, Returns, Becomes

LEMMA GoesStep ==
  ASSUME WInv, NEW t \in Threads, NEW pc \in Steps, Goes(t, pc)
  PROVE  Becomes(t, [job[t] EXCEPT !.pc = pc])
<1> DEFINE j == [job[t] EXCEPT !.pc = pc]
<1>1. job[t] \in JobRecord /\ DOMAIN job = Threads /\ job \in [Threads -> JobRecord]
  BY Placed DEF WInv, Types
<1>2. j \in JobRecord
  BY <1>1 DEF JobRecord
<1>3. job' = [job EXCEPT ![t] = j]
  BY <1>1 DEF Goes
<1> QED
  BY <1>1, <1>2, <1>3 DEF Becomes

\* A call has got content c.
LEMMA GotStep ==
  ASSUME WInv, NEW t \in Threads, NEW c \in Contents, NEW pc \in {"answer", "put"},
         job' = [job EXCEPT ![t].content = c, ![t].pc = pc]
  PROVE  \E j : Becomes(t, j) /\ Fits(t, j) /\ j.pc = pc
<1> DEFINE j == [job[t] EXCEPT !.content = c, !.pc = pc]
<1>1. job[t] \in JobRecord /\ DOMAIN job = Threads /\ job \in [Threads -> JobRecord]
  BY Placed DEF WInv, Types
<1>2. j \in JobRecord /\ j.pc = pc /\ j.content = c
  BY <1>1 DEF JobRecord, Steps
<1>3. job' = [job EXCEPT ![t] = j]
  BY <1>1
<1>4. Becomes(t, j)
  BY <1>1, <1>2, <1>3 DEF Becomes
<1>5. Fits(t, j)
  BY <1>2 DEF Fits
<1> QED
  BY <1>2, <1>4, <1>5

\* A call goes on that neither holds the mutex nor comes to hold it, and the
\* step changes no file.
LEMMA Quiet ==
  ASSUME WInv, NEW t \in Threads, NEW j, Becomes(t, j), Fits(t, j),
         job[t].pc \notin Holding, j.pc \notin Holding,
         UNCHANGED <<dir, memory, mutex, disk, lost, promised>>,
         DirTypes', calls' \in 0..MaxCalls
  PROVE  WInv'
<1>1. Types'
  BY DEF WInv, Types, Becomes
<1>2. Jobs'
  BY DEF WInv, Jobs, Becomes, Fits, P
<1>3. Held'
  BY DEF WInv, Held, Becomes, P
<1>4. \A u \in Threads, i \in Contents : Writes(u, i)' <=> Writes(u, i)
  BY DEF Becomes, Writes, At, Holding
<1>5. Marked' /\ Present'
  BY <1>4 DEF WInv, Marked, Present, Stored, There, D
<1>6. KeepsPromises'
  BY DEF WInv, KeepsPromises, There
<1> QED
  BY <1>1, <1>2, <1>3, <1>5, <1>6 DEF WInv

LEMMA ReadGives ==
  ASSUME WInv, NEW p \in Procs, NEW i \in Contents, NEW c \in Read(p, i)
  PROVE  c \in Contents \cup {None}
BY Names DEF Read

LEMMA ClientGetsStep ==
  ASSUME WInv, NEW t \in Threads, ClientGets(t)
  PROVE  WInv'
<1>1. /\ job[t].op = "Get" /\ job[t].pc = "get"
      /\ UNCHANGED <<dir, memory, mutex, disk, lost, promised>>
      /\ UNCHANGED <<tmp, tmpCnt, cwd, calls>>
  BY DEF ClientGets, At, fileVars, diskVars, dirVars
<1>2. DirTypes' /\ calls' \in 0..MaxCalls
  BY <1>1 DEF WInv, Types, DirTypes
<1>3. PICK c \in Read(P(t), job[t].id) :
        IF c = None THEN Returns(t)
        ELSE job' = [job EXCEPT ![t].content = c, ![t].pc = "answer"]
  BY DEF ClientGets
<1>4. c \in Contents \cup {None}
  BY <1>1, <1>3, Placed, ReadGives DEF Fits
<1>5. CASE Returns(t)
  BY <1>1, <1>2, <1>5, ReturnsStep, IdleFits, Quiet DEF Holding
<1>6. CASE c # None /\ job' = [job EXCEPT ![t].content = c, ![t].pc = "answer"]
  <2>1. PICK j : Becomes(t, j) /\ Fits(t, j) /\ j.pc = "answer"
    BY <1>4, <1>6, GotStep
  <2> QED
    BY <1>1, <1>2, <2>1, Quiet DEF Holding
<1> QED
  BY <1>3, <1>5, <1>6

LEMMA ClientAnsweredStep ==
  ASSUME WInv, NEW t \in Threads, ClientAnswered(t)
  PROVE  WInv'
<1>1. /\ job[t].pc = "answer" /\ Returns(t)
      /\ UNCHANGED <<dir, memory, mutex, disk, lost, promised>>
      /\ UNCHANGED <<tmp, tmpCnt, cwd, calls>>
  BY DEF ClientAnswered, At, fileVars, diskVars, dirVars
<1>2. DirTypes' /\ calls' \in 0..MaxCalls
  BY <1>1 DEF WInv, Types, DirTypes
<1> QED
  BY <1>1, <1>2, ReturnsStep, IdleFits, Quiet DEF Holding

LEMMA TransferGetsStep ==
  ASSUME WInv, NEW t \in Threads, TransferGets(t)
  PROVE  WInv'
<1>1. /\ job[t].op = "Transfer" /\ job[t].pc = "get"
      /\ UNCHANGED <<dir, memory, mutex, disk, lost, promised>>
      /\ UNCHANGED <<tmp, tmpCnt, cwd, calls>>
  BY DEF TransferGets, At, fileVars, diskVars, dirVars
<1>2. DirTypes' /\ calls' \in 0..MaxCalls
  BY <1>1 DEF WInv, Types, DirTypes
<1>3. CASE Returns(t)
  BY <1>1, <1>2, <1>3, ReturnsStep, IdleFits, Quiet DEF Holding
<1>4. ASSUME NEW c \in Read(job[t].at, job[t].id), c # None,
             job' = [job EXCEPT ![t].content = c, ![t].pc = "put"]
      PROVE  WInv'
  <2>1. c \in Contents
    BY <1>1, <1>4, Placed, ReadGives DEF Fits
  <2>2. PICK j : Becomes(t, j) /\ Fits(t, j) /\ j.pc = "put"
    BY <1>4, <2>1, GotStep
  <2> QED
    BY <1>1, <1>2, <2>2, Quiet DEF Holding
<1> QED
  BY <1>3, <1>4 DEF TransferGets

LEMMA ComposeGetsStep ==
  ASSUME WInv, NEW t \in Threads, ComposeGets(t)
  PROVE  WInv'
<1>1. /\ job[t].op = "Compose" /\ job[t].pc = "get"
      /\ UNCHANGED <<dir, memory, mutex, disk, lost, promised>>
      /\ UNCHANGED <<tmp, tmpCnt, cwd, calls>>
  BY DEF ComposeGets, At, fileVars, diskVars, dirVars
<1>2. DirTypes' /\ calls' \in 0..MaxCalls
  BY <1>1 DEF WInv, Types, DirTypes
<1>3. CASE Returns(t)
  BY <1>1, <1>2, <1>3, ReturnsStep, IdleFits, Quiet DEF Holding
<1>4. ASSUME NEW i \in job[t].todo, job' = [job EXCEPT ![t].todo = @ \ {i}]
      PROVE  WInv'
  <2> DEFINE j == [job[t] EXCEPT !.todo = @ \ {i}]
  <2>1. j \in JobRecord /\ job' = [job EXCEPT ![t] = j]
    BY <1>4, Placed DEF JobRecord
  <2>2. Becomes(t, j)
    BY <2>1 DEF Becomes, WInv, Types
  <2>3. Fits(t, j) /\ j.pc = "get"
    BY <1>1, <2>1, Placed DEF Fits, JobRecord
  <2> QED
    BY <1>1, <1>2, <2>2, <2>3, Quiet DEF Holding
<1>5. ASSUME NEW c \in Images, job' = [job EXCEPT ![t].content = c, ![t].pc = "put"]
      PROVE  WInv'
  <2>1. PICK j : Becomes(t, j) /\ Fits(t, j) /\ j.pc = "put"
    BY <1>5, Names, GotStep
  <2> QED
    BY <1>1, <1>2, <2>1, Quiet DEF Holding
<1> QED
  BY <1>3, <1>4, <1>5 DEF ComposeGets

\* A call goes on within its temporary directory.
LEMMA PcFits ==
  ASSUME WInv, NEW t \in Threads, job[t].pc \in {"link", "spill", "chdir", "pbrt"},
         NEW pc \in {"link", "chdir", "pbrt", "retain"}
  PROVE  LET j == [job[t] EXCEPT !.pc = pc]
         IN  j \in JobRecord /\ Fits(t, j) /\ j.pc = pc /\ job[t].n \in 0..(MaxDirs - 1)
<1> DEFINE j == [job[t] EXCEPT !.pc = pc]
<1>1. job[t] \in JobRecord /\ job[t].n \in 0..(MaxDirs - 1)
  BY Placed DEF Fits
<1>2. j \in JobRecord /\ j.pc = pc /\ j.n = job[t].n
  BY <1>1 DEF JobRecord, Steps
<1>3. Fits(t, j)
  BY <1>1, <1>2 DEF Fits
<1> QED
  BY <1>1, <1>2, <1>3

LEMMA ChangesDirStep ==
  ASSUME WInv, NEW t \in Threads, ChangesDir(t)
  PROVE  WInv'
<1> DEFINE j == [job[t] EXCEPT !.pc = "pbrt"]
<1>1. /\ job[t].pc = "chdir" /\ Goes(t, "pbrt")
      /\ cwd' = [cwd EXCEPT ![P(t)] = job[t].n] \/ cwd' = [cwd EXCEPT ![P(t)] = @]
      /\ UNCHANGED <<dir, memory, mutex, disk, lost, promised>>
      /\ UNCHANGED <<tmp, tmpCnt, calls>>
  BY DEF ChangesDir, At, fileVars, diskVars
<1>2. Becomes(t, j)
  BY <1>1, GoesStep DEF Steps
<1>3. job[t].n \in 0..(MaxDirs - 1) /\ Fits(t, j) /\ j.pc = "pbrt"
  BY <1>1, <1>2, Placed, PcFits
<1>4. DirTypes' /\ calls' \in 0..MaxCalls
  BY <1>1, <1>3, Placed DEF WInv, Types, DirTypes
<1> QED
  BY <1>1, <1>2, <1>3, <1>4, Quiet DEF Holding

LEMMA PbrtStep ==
  ASSUME WInv, NEW t \in Threads, Pbrt(t)
  PROVE  WInv'
<1> DEFINE j == [job[t] EXCEPT !.pc = "retain"]
<1>1. /\ job[t].pc = "pbrt" /\ Goes(t, "retain")
      /\ UNCHANGED <<dir, memory, mutex, disk, lost, promised>>
      /\ UNCHANGED <<cwd, tmpCnt, calls>>
  BY DEF Pbrt, At, fileVars, diskVars
<1>2. Becomes(t, j)
  BY <1>1, GoesStep DEF Steps
<1>3. Fits(t, j) /\ j.pc = "retain"
  BY <1>1, Placed, PcFits
<1>4. tmp \in [Dirs -> [0..(MaxDirs - 1) -> DirRecord]]
  BY DEF WInv, Types, DirTypes
<1>5. tmp' \in [Dirs -> [0..(MaxDirs - 1) -> DirRecord]]
  <2>1. CASE UNCHANGED tmp
    BY <1>4, <2>1
  <2>2. ASSUME NEW c \in Images, cwd[P(t)] # None, tmp' = [tmp EXCEPT ![D(t)][cwd[P(t)]].exr = c]
        PROVE  tmp' \in [Dirs -> [0..(MaxDirs - 1) -> DirRecord]]
    <3> DEFINE row == [tmp[D(t)] EXCEPT ![cwd[P(t)]].exr = c]
    <3>1. tmp[D(t)] \in [0..(MaxDirs - 1) -> DirRecord]
      BY <1>4, Placed
    <3>2. \A n \in 0..(MaxDirs - 1) : [tmp[D(t)][n] EXCEPT !.exr = c] \in DirRecord
      BY <3>1 DEF DirRecord
    <3>3. row \in [0..(MaxDirs - 1) -> DirRecord]
      BY <3>1, <3>2
    <3>4. tmp' = [tmp EXCEPT ![D(t)] = row]
      BY <2>2
    <3> QED
      BY <1>4, <3>3, <3>4
  <2> QED
    BY <2>1, <2>2 DEF Pbrt
<1>6. DirTypes' /\ calls' \in 0..MaxCalls
  BY <1>1, <1>5 DEF WInv, Types, DirTypes
<1> QED
  BY <1>1, <1>2, <1>3, <1>6, Quiet DEF Holding

LEMMA RetainsStep ==
  ASSUME WInv, NEW t \in Threads, Retains(t)
  PROVE  WInv'
<1> DEFINE exr == tmp[D(t)][job[t].n].exr
<1>1. /\ job[t].pc = "retain"
      /\ UNCHANGED <<dir, memory, mutex, disk, lost, promised>>
      /\ UNCHANGED <<tmp, tmpCnt, cwd, calls>>
      /\ IF exr = None THEN Returns(t)
         ELSE job' = [job EXCEPT ![t].content = exr, ![t].pc = "put"]
  BY DEF Retains, At, fileVars, diskVars, dirVars
<1>2. DirTypes' /\ calls' \in 0..MaxCalls
  BY <1>1 DEF WInv, Types, DirTypes
<1>3. CASE exr = None
  BY <1>1, <1>2, <1>3, ReturnsStep, IdleFits, Quiet DEF Holding
<1>4. CASE exr # None
  <2>1. job[t].n \in 0..(MaxDirs - 1)
    BY <1>1, Placed DEF Fits
  <2>2. tmp[D(t)][job[t].n] \in DirRecord
    BY <2>1, Placed DEF WInv, Types, DirTypes
  <2>3. exr \in Contents
    BY <1>4, <2>2, Names DEF DirRecord
  <2>4. PICK j : Becomes(t, j) /\ Fits(t, j) /\ j.pc = "put"
    BY <1>1, <1>4, <2>3, GotStep
  <2> QED
    BY <1>1, <1>2, <2>4, Quiet DEF Holding
<1> QED
  BY <1>3, <1>4

LEMMA ArrivesStep ==
  ASSUME WInv, NEW t \in Threads, Arrives(t)
  PROVE  WInv'
<1>1. /\ job[t].pc = "idle" /\ calls > 0 /\ calls' = calls - 1
      /\ UNCHANGED <<dir, memory, mutex, disk, lost, promised>>
      /\ UNCHANGED <<tmp, tmpCnt, cwd>>
  BY DEF Arrives, At, fileVars, diskVars, dirVars
<1>2. DirTypes' /\ calls' \in 0..MaxCalls
  BY <1>1, Names DEF WInv, Types, DirTypes
<1>3. ASSUME NEW j, job' = [job EXCEPT ![t] = j], Fits(t, j), j.pc \notin Holding
      PROVE  WInv'
  <2>1. Becomes(t, j)
    BY <1>3 DEF Becomes, Fits, WInv, Types
  <2> QED
    BY <1>1, <1>2, <1>3, <2>1, Quiet DEF Holding
<1>4. ASSUME NEW i \in Named,
             Call(t, "Get", "get", i, P(t))
      PROVE  WInv'
  <2> DEFINE j == [Idle EXCEPT !.op = "Get", !.pc = "get", !.id = i, !.at = P(t)]
  <2>1. j \in JobRecord /\ j.pc = "get" /\ j.id = i /\ j.at = P(t) /\ j.content = Idle.content
    BY Names, Placed, IdleFits DEF JobRecord, Steps, Ops, Named
  <2>2. Fits(t, j) /\ j.pc \notin Holding
    BY <2>1, Names, Placed, IdleFits DEF Fits, Holding, Named
  <2>3. job' = [job EXCEPT ![t] = j]
    BY <1>4 DEF Call
  <2> QED
    BY <1>3, <2>2, <2>3
<1>5. ASSUME NEW i \in Named,
             Call(t, "Delete", "delete", i, P(t))
      PROVE  WInv'
  <2> DEFINE j == [Idle EXCEPT !.op = "Delete", !.pc = "delete", !.id = i, !.at = P(t)]
  <2>1. j \in JobRecord /\ j.pc = "delete" /\ j.id = i
    BY Names, Placed, IdleFits DEF JobRecord, Steps, Ops, Named
  <2>2. Fits(t, j) /\ j.pc \notin Holding
    BY <2>1, Names, Placed, IdleFits DEF Fits, Holding, Named
  <2>3. job' = [job EXCEPT ![t] = j]
    BY <1>5 DEF Call
  <2> QED
    BY <1>3, <2>2, <2>3
<1>6. ASSUME NEW i \in Named, NEW q \in Procs,
             Call(t, "Transfer", "get", i, q)
      PROVE  WInv'
  <2> DEFINE j == [Idle EXCEPT !.op = "Transfer", !.pc = "get", !.id = i, !.at = q]
  <2>1. j \in JobRecord /\ j.pc = "get" /\ j.op = "Transfer" /\ j.id = i /\ j.at = q
      /\ j.content = Idle.content
    BY Names, Placed, IdleFits DEF JobRecord, Steps, Ops, Named
  <2>2. Fits(t, j) /\ j.pc \notin Holding
    BY <2>1, Names, Placed, IdleFits DEF Fits, Holding, Named
  <2>3. job' = [job EXCEPT ![t] = j]
    BY <1>6 DEF Call
  <2> QED
    BY <1>3, <2>2, <2>3
<1>7. ASSUME NEW c \in Contents, NEW op \in {"Put", "Run"},
             job' = [job EXCEPT ![t] = [Idle EXCEPT !.op = op, !.pc = "put", !.content = c]]
      PROVE  WInv'
  <2> DEFINE j == [Idle EXCEPT !.op = op, !.pc = "put", !.content = c]
  <2>1. j \in JobRecord /\ j.pc = "put" /\ j.content = c
    BY Names, Placed, IdleFits DEF JobRecord, Steps, Ops, Named
  <2>2. Fits(t, j) /\ j.pc \notin Holding
    BY <2>1, Names, Placed, IdleFits DEF Fits, Holding, Named
  <2>3. job' = [job EXCEPT ![t] = j]
    BY <1>7
  <2> QED
    BY <1>3, <2>2, <2>3
<1>8. ASSUME NEW fs \in SUBSET Contents,
             job' = [job EXCEPT ![t] = [Idle EXCEPT !.op = "Run", !.pc = "mkdir", !.todo = fs]]
      PROVE  WInv'
  <2> DEFINE j == [Idle EXCEPT !.op = "Run", !.pc = "mkdir", !.todo = fs]
  <2>1. j \in JobRecord /\ j.pc = "mkdir"
    BY Names, Placed, IdleFits DEF JobRecord, Steps, Ops, Named
  <2>2. Fits(t, j) /\ j.pc \notin Holding
    BY <2>1, Names, Placed, IdleFits DEF Fits, Holding, Named
  <2>3. job' = [job EXCEPT ![t] = j]
    BY <1>8
  <2> QED
    BY <1>3, <2>2, <2>3
<1>9. ASSUME NEW is \in SUBSET Images,
             job' = [job EXCEPT ![t] = [Idle EXCEPT !.op = "Compose", !.pc = "get",
                                                    !.todo = is, !.at = P(t)]]
      PROVE  WInv'
  <2> DEFINE j == [Idle EXCEPT !.op = "Compose", !.pc = "get", !.todo = is, !.at = P(t)]
  <2>1. j \in JobRecord /\ j.pc = "get" /\ j.op = "Compose" /\ j.content = Idle.content
    BY Names, Placed, IdleFits DEF JobRecord, Steps, Ops, Named
  <2>2. Fits(t, j) /\ j.pc \notin Holding
    BY <2>1, Names, Placed, IdleFits DEF Fits, Holding, Named
  <2>3. job' = [job EXCEPT ![t] = j]
    BY <1>9
  <2> QED
    BY <1>3, <2>2, <2>3
<1> QED
  BY Names, <1>4, <1>5, <1>6, <1>7, <1>8, <1>9 DEF Arrives, Named

-----------------------------------------------------------------------------
(* The steps that hold the mutex or change a file. *)

LEMMA OthersWrite ==
  ASSUME NEW t \in Threads, NEW j, Becomes(t, j)
  PROVE  /\ \A u \in Threads \ {t}, i \in Contents : Writes(u, i)' <=> Writes(u, i)
         /\ \A i \in Contents :
              Writes(t, i)' <=> \/ j.pc = "write" /\ j.content = i
                                \/ j.pc = "spill" /\ j.id = i
BY DEF Becomes, Writes, At

LEMMA LockStep ==
  ASSUME WInv, NEW t \in Threads, NEW j, Becomes(t, j), Lock(t), j.pc \in Holding
  PROVE  Held' /\ mutex' \in [Procs -> Threads \cup {Free}]
<1>1. mutex[P(t)] = Free /\ mutex' = [mutex EXCEPT ![P(t)] = t]
  BY DEF Lock, Locked
<1>2. mutex \in [Procs -> Threads \cup {Free}] /\ Held
  BY DEF WInv, Types
<1>3. Held'
  <2> SUFFICES ASSUME NEW u \in Threads PROVE job'[u].pc \in Holding <=> mutex'[P(u)] = u
    BY DEF Held, P
  <2>1. CASE u = t
    BY <1>1, <1>2, <2>1, Placed DEF Becomes
  <2>2. CASE u # t
    BY <1>1, <1>2, <2>2, Placed, Names DEF Becomes, Held
  <2> QED
    BY <2>1, <2>2
<1> QED
  BY <1>1, <1>2, <1>3

LEMMA UnlockStep ==
  ASSUME WInv, NEW t \in Threads, NEW j, Becomes(t, j), Unlock(t),
         job[t].pc \in Holding, j.pc \notin Holding
  PROVE  Held' /\ mutex' \in [Procs -> Threads \cup {Free}]
<1>1. mutex[P(t)] = t /\ mutex' = [mutex EXCEPT ![P(t)] = Free]
  BY DEF Unlock, WInv, Held
<1>2. mutex \in [Procs -> Threads \cup {Free}] /\ Held
  BY DEF WInv, Types
<1>3. Held'
  <2> SUFFICES ASSUME NEW u \in Threads PROVE job'[u].pc \in Holding <=> mutex'[P(u)] = u
    BY DEF Held, P
  <2>1. CASE u = t
    BY <1>1, <1>2, <2>1, Placed, Names DEF Becomes
  <2>2. CASE u # t
    BY <1>1, <1>2, <2>2, Placed, Names DEF Becomes, Held
  <2> QED
    BY <2>1, <2>2
<1> QED
  BY <1>1, <1>2, <1>3

LEMMA KeepsMutex ==
  ASSUME WInv, NEW t \in Threads, NEW j, Becomes(t, j), UNCHANGED mutex,
         job[t].pc \in Holding <=> j.pc \in Holding
  PROVE  Held' /\ mutex' \in [Procs -> Threads \cup {Free}]
<1>1. Held'
  BY DEF WInv, Held, Becomes, P
<1> QED
  BY <1>1 DEF WInv, Types

\* A step of thread t that may change files, but lets none go unnoticed.
LEMMA FileStep ==
  ASSUME WInv, NEW t \in Threads, NEW j, Becomes(t, j), Fits(t, j),
         UNCHANGED dir, DirTypes', calls' \in 0..MaxCalls,
         Held', mutex' \in [Procs -> Threads \cup {Free}],
         memory' \in [Procs -> SUBSET Small],
         disk' \in [Dirs -> [Contents -> Marks \cup Threads]],
         lost' \in [Dirs -> SUBSET Contents],
         promised' \in [Procs -> SUBSET Contents],
         \A d \in Dirs, i \in Contents : Stored(d, i) => Stays(d, i),
         \A d \in Dirs, i \in Contents, u \in Threads : disk'[d][i] = u =>
            \/ u = t /\ d = D(t) /\ Writes(t, i)'
            \/ u # t /\ disk[d][i] = u,
         \A i \in Contents : Writes(t, i)' => Stays(D(t), i),
         \A p \in Procs : \A i \in promised'[p] : i \in memory'[p] \/ Stays(dir[p], i)
  PROVE  WInv'
<1>1. Types'
  BY DEF WInv, Types, Becomes
<1>2. Jobs'
  BY DEF WInv, Jobs, Becomes, Fits, P
<1>3. \A u \in Threads : D(u)' = D(u) /\ D(u) \in Dirs
  BY Placed DEF D
<1>4. Marked'
  <2> SUFFICES ASSUME NEW d \in Dirs, NEW i \in Contents, NEW u \in Threads, disk'[d][i] = u
               PROVE  Writes(u, i)' /\ D(u) = d
    BY <1>3 DEF Marked
  <2>1. CASE u = t /\ d = D(t) /\ Writes(t, i)'
    BY <2>1
  <2>2. CASE u # t /\ disk[d][i] = u
    BY <2>2, OthersWrite DEF WInv, Marked
  <2> QED
    BY <2>1, <2>2
<1>5. Present'
  <2> SUFFICES ASSUME NEW u \in Threads, NEW i \in Contents, Writes(u, i)'
               PROVE  Stays(D(u), i)
    BY <1>3 DEF Present, Stored, There, Stays
  <2>1. CASE u = t
    BY <2>1
  <2>2. CASE u # t
    BY <1>3, <2>2, OthersWrite DEF WInv, Present
  <2> QED
    BY <2>1, <2>2
<1>6. KeepsPromises'
  BY DEF KeepsPromises, There, Stays
<1> QED
  BY <1>1, <1>2, <1>4, <1>5, <1>6 DEF WInv

\* A step of a thread that writes no file before or after it, and changes none.
LEMMA StillStep ==
  ASSUME WInv, NEW t \in Threads, NEW j, Becomes(t, j), Fits(t, j),
         DirTypes', calls' \in 0..MaxCalls,
         Held', mutex' \in [Procs -> Threads \cup {Free}],
         UNCHANGED <<dir, memory, disk, lost, promised>>,
         \A i \in Contents : ~Writes(t, i) /\ ~Writes(t, i)'
  PROVE  WInv'
<1>1. /\ disk \in [Dirs -> [Contents -> Marks \cup Threads]]
      /\ lost \in [Dirs -> SUBSET Contents]
      /\ memory \in [Procs -> SUBSET Small] /\ promised \in [Procs -> SUBSET Contents]
  BY DEF WInv, Types
<1>2. \A d \in Dirs, i \in Contents, u \in Threads : disk[d][i] = u => u # t
  BY DEF WInv, Marked
<1>3. \A d \in Dirs, i \in Contents : Stored(d, i) => Stays(d, i)
  BY DEF Stored, There, Stays
<1>4. \A p \in Procs : \A i \in promised'[p] : i \in memory'[p] \/ Stays(dir[p], i)
  BY DEF WInv, KeepsPromises, There, Stays
<1> QED
  BY <1>1, <1>2, <1>3, <1>4, FileStep

\* What was answered for stays where no file gets lost.
LEMMA PromisesStay ==
  ASSUME WInv, \A d \in Dirs, i \in Contents : Stored(d, i) => Stays(d, i),
         NEW p \in Procs, NEW i \in promised[p]
  PROVE  i \in Contents /\ dir[p] \in Dirs /\ (i \in memory[p] \/ Stays(dir[p], i))
<1>1. i \in Contents /\ dir[p] \in Dirs
  BY DEF WInv, Types
<1>2. i \in memory[p] \/ Stored(dir[p], i)
  BY DEF WInv, KeepsPromises, Stored
<1> QED
  BY <1>1, <1>2

\* What one file becomes.
LEMMA DiskStep ==
  ASSUME WInv, NEW t \in Threads, NEW c \in Contents, NEW m \in Marks \cup Threads,
         disk' = [disk EXCEPT ![D(t)][c] = m]
  PROVE  /\ disk' \in [Dirs -> [Contents -> Marks \cup Threads]]
         /\ disk'[D(t)][c] = m
         /\ \A d \in Dirs, i \in Contents : d # D(t) \/ i # c => disk'[d][i] = disk[d][i]
<1>1. D(t) \in Dirs /\ disk \in [Dirs -> [Contents -> Marks \cup Threads]]
  BY Placed DEF WInv, Types
<1>2. disk' = [disk EXCEPT ![D(t)] = [disk[D(t)] EXCEPT ![c] = m]]
  OBVIOUS
<1>3. [disk[D(t)] EXCEPT ![c] = m] \in [Contents -> Marks \cup Threads]
  BY <1>1
<1> QED
  BY <1>1, <1>2, <1>3

LEMMA NotOpenedStep ==
  ASSUME WInv, NEW t \in Threads, NEW c \in Contents, NotOpened(t, c)
  PROVE  /\ disk' = disk /\ lost' \in [Dirs -> SUBSET Contents]
         /\ Stays(D(t), c)
         /\ \A d \in Dirs, i \in Contents : Stored(d, i) => Stays(d, i)
<1>1. D(t) \in Dirs /\ lost \in [Dirs -> SUBSET Contents]
  BY Placed DEF WInv, Types
<1>2. disk' = disk
  BY DEF NotOpened
<1>3. CASE There(D(t), c) /\ lost' = [lost EXCEPT ![D(t)] = @]
  BY <1>1, <1>2, <1>3 DEF There, Stored, Stays
<1>4. CASE lost' = [lost EXCEPT ![D(t)] = @ \cup {c}]
  BY <1>1, <1>2, <1>4 DEF There, Stored, Stays
<1> QED
  BY <1>2, <1>3, <1>4 DEF NotOpened

LEMMA WrittenStep ==
  ASSUME WInv, NEW t \in Threads, NEW c \in Contents, Written(t, c), Writes(t, c)
  PROVE  /\ disk' \in [Dirs -> [Contents -> Marks \cup Threads]]
         /\ lost' \in [Dirs -> SUBSET Contents]
         /\ disk'[D(t)][c] # t /\ Stays(D(t), c)
         /\ \A d \in Dirs, i \in Contents :
              /\ disk'[d][i] = disk[d][i] \/ disk'[d][i] \in {"whole", "torn"}
              /\ Stored(d, i) => Stays(d, i)
<1>1. /\ disk \in [Dirs -> [Contents -> Marks \cup Threads]] /\ Stored(D(t), c)
      /\ lost \in [Dirs -> SUBSET Contents] /\ D(t) \in Dirs
      /\ "whole" # t /\ "torn" # t
  BY Placed, Names DEF WInv, Types, Present, Marks
<1>2. CASE disk[D(t)][c] # t /\ UNCHANGED diskVars
  BY <1>1, <1>2 DEF diskVars, Stored, There, Stays
<1>3. ASSUME NEW left \in {"whole", "torn"}, disk' = [disk EXCEPT ![D(t)][c] = left]
      PROVE  /\ disk' \in [Dirs -> [Contents -> Marks \cup Threads]]
             /\ disk'[D(t)][c] = left
             /\ \A d \in Dirs, i \in Contents : d # D(t) \/ i # c => disk'[d][i] = disk[d][i]
  <2>1. left \in Marks \cup Threads
    BY DEF Marks
  <2> QED
    BY <1>3, <2>1, DiskStep
<1>4. CASE /\ disk' = [disk EXCEPT ![D(t)][c] = "whole"]
           /\ lost' = [lost EXCEPT ![D(t)] = @ \ {c}]
  <2>1. /\ disk'[D(t)][c] = "whole" /\ lost' \in [Dirs -> SUBSET Contents]
        /\ \A d \in Dirs, i \in Contents : d # D(t) \/ i # c =>
             disk'[d][i] = disk[d][i] /\ (i \in lost[d] => i \in lost'[d])
    BY <1>1, <1>3, <1>4
  <2>2. \A d \in Dirs, i \in Contents : Stored(d, i) => Stays(d, i)
    BY <2>1 DEF Stored, There, Stays
  <2> QED
    BY <1>1, <1>3, <1>4, <2>1, <2>2 DEF Stays
<1>5. CASE /\ disk' = [disk EXCEPT ![D(t)][c] = "torn"]
           /\ lost' = [lost EXCEPT ![D(t)] = @ \cup {c}]
  <2>1. /\ disk'[D(t)][c] = "torn" /\ lost' \in [Dirs -> SUBSET Contents]
        /\ c \in lost'[D(t)]
        /\ \A d \in Dirs, i \in Contents : d # D(t) \/ i # c =>
             disk'[d][i] = disk[d][i] /\ (i \in lost[d] => i \in lost'[d])
    BY <1>1, <1>3, <1>5
  <2>2. \A d \in Dirs, i \in Contents : Stored(d, i) => Stays(d, i)
    BY <2>1 DEF Stored, There, Stays
  <2> QED
    BY <1>1, <1>3, <1>5, <2>1, <2>2 DEF Stays
<1> QED
  BY <1>2, <1>4, <1>5 DEF Written

\* A file is opened to write: it counts as there until it is closed.
LEMMA OpenedStep ==
  ASSUME WInv, NEW t \in Threads, NEW c \in Contents,
         disk' = [disk EXCEPT ![D(t)][c] = t], UNCHANGED lost
  PROVE  /\ disk' \in [Dirs -> [Contents -> Marks \cup Threads]]
         /\ lost' \in [Dirs -> SUBSET Contents]
         /\ disk'[D(t)][c] = t /\ Stays(D(t), c)
         /\ \A d \in Dirs, i \in Contents :
              /\ d # D(t) \/ i # c => disk'[d][i] = disk[d][i]
              /\ Stored(d, i) => Stays(d, i)
<1>1. /\ disk' \in [Dirs -> [Contents -> Marks \cup Threads]]
      /\ disk'[D(t)][c] = t
      /\ \A d \in Dirs, i \in Contents : d # D(t) \/ i # c => disk'[d][i] = disk[d][i]
  BY DiskStep
<1>2. lost' \in [Dirs -> SUBSET Contents]
  BY DEF WInv, Types
<1> QED
  BY <1>1, <1>2 DEF Stored, There, Stays

\* What a call answers for is what it holds.
LEMMA PromiseStep ==
  ASSUME WInv, NEW t \in Threads, job[t].content \in Contents, Promise(t)
  PROVE  /\ promised' \in [Procs -> SUBSET Contents]
         /\ \A p \in Procs : \A i \in promised'[p] :
              i \in promised[p] \/ (p = P(t) /\ i = job[t].content)
BY Placed DEF Promise, Answers, WInv, Types

LEMMA PutInMemoryStep ==
  ASSUME WInv, NEW t \in Threads, PutInMemory(t)
  PROVE  WInv'
<1> DEFINE c == job[t].content
<1>1. /\ job[t].pc = "put" /\ c \in Small
      /\ memory' = [memory EXCEPT ![P(t)] = @ \cup {c}]
      /\ Promise(t) /\ Returns(t)
      /\ UNCHANGED <<dir, mutex, disk, lost>>
      /\ UNCHANGED <<tmp, tmpCnt, cwd, calls>>
  BY DEF PutInMemory, At, diskVars, dirVars
<1>2. DirTypes' /\ calls' \in 0..MaxCalls
  BY <1>1 DEF WInv, Types, DirTypes
<1>3. Becomes(t, Idle) /\ Fits(t, Idle) /\ Idle.pc \notin Holding
  BY <1>1, ReturnsStep, IdleFits
<1>4. Held' /\ mutex' \in [Procs -> Threads \cup {Free}]
  BY <1>1, <1>3, KeepsMutex DEF Holding
<1>5. memory' \in [Procs -> SUBSET Small] /\ c \in memory'[P(t)]
      /\ \A p \in Procs : memory[p] \subseteq memory'[p]
  BY <1>1, Placed DEF WInv, Types
<1>6. /\ promised' \in [Procs -> SUBSET Contents]
      /\ \A p \in Procs : \A i \in promised'[p] : i \in promised[p] \/ (p = P(t) /\ i = c)
  BY <1>1, PromiseStep, Names
<1>7. \A i \in Contents : ~Writes(t, i) /\ ~Writes(t, i)'
  BY <1>1, <1>3 DEF Writes, At, Becomes, Holding
<1>8. /\ disk' \in [Dirs -> [Contents -> Marks \cup Threads]]
      /\ lost' \in [Dirs -> SUBSET Contents]
      /\ \A d \in Dirs, i \in Contents : Stored(d, i) => Stays(d, i)
  BY <1>1 DEF WInv, Types, Stored, There, Stays
<1>9. \A d \in Dirs, i \in Contents, u \in Threads :
        disk'[d][i] = u => u # t /\ disk[d][i] = u
  BY <1>1, <1>7 DEF WInv, Marked
<1>10. \A p \in Procs : \A i \in promised'[p] :
         i \in memory'[p] \/ Stays(dir[p], i)
  BY <1>5, <1>6, <1>8, PromisesStay
<1> QED
  BY <1>1, <1>2, <1>3, <1>4, <1>5, <1>6, <1>7, <1>8, <1>9, <1>10, FileStep

LEMMA PutOpensStep ==
  ASSUME WInv, NEW t \in Threads, PutOpens(t)
  PROVE  WInv'
<1> DEFINE c == job[t].content
<1>1. /\ job[t].pc = "put" /\ c \notin Small
      /\ UNCHANGED <<dir, memory>>
      /\ UNCHANGED <<tmp, tmpCnt, cwd, calls>>
  BY DEF PutOpens, At, dirVars
<1>2. DirTypes' /\ calls' \in 0..MaxCalls /\ memory' \in [Procs -> SUBSET Small]
  BY <1>1 DEF WInv, Types, DirTypes
<1>3. c \in Contents
  BY <1>1, Placed DEF Fits
<1>4. \A i \in Contents : ~Writes(t, i)
  BY <1>1 DEF Writes, At
<1>5. CASE /\ Lock(t) /\ disk' = [disk EXCEPT ![D(t)][c] = t]
           /\ Goes(t, "write") /\ UNCHANGED <<lost, promised>>
  <2> DEFINE j == [job[t] EXCEPT !.pc = "write"]
  <2>1. Becomes(t, j)
    BY <1>5, GoesStep DEF Steps
  <2>2. j.pc = "write" /\ j.content = c /\ j \in JobRecord
    BY Placed DEF JobRecord, Steps
  <2>3. Fits(t, j)
    BY <1>3, <2>2 DEF Fits
  <2>4. Held' /\ mutex' \in [Procs -> Threads \cup {Free}]
    BY <1>5, <2>1, <2>2, LockStep DEF Holding
  <2>5. /\ disk' \in [Dirs -> [Contents -> Marks \cup Threads]]
        /\ lost' \in [Dirs -> SUBSET Contents]
        /\ disk'[D(t)][c] = t /\ Stays(D(t), c)
        /\ \A d \in Dirs, i \in Contents :
             /\ d # D(t) \/ i # c => disk'[d][i] = disk[d][i]
             /\ Stored(d, i) => Stays(d, i)
    BY <1>3, <1>5, OpenedStep
  <2>7. \A i \in Contents : Writes(t, i)' <=> i = c
    <3> HIDE DEF j
    <3> QED
      BY <2>1, <2>2, OthersWrite
  <2>8. promised' \in [Procs -> SUBSET Contents] /\ dir \in [Procs -> Dirs]
    BY <1>5 DEF WInv, Types
  <2>10. \A d \in Dirs, i \in Contents, u \in Threads : disk'[d][i] = u =>
            \/ u = t /\ d = D(t) /\ Writes(t, i)'
            \/ u # t /\ disk[d][i] = u
    <3> TAKE d \in Dirs, i \in Contents, u \in Threads
    <3>1. CASE d = D(t) /\ i = c
      BY <1>3, <2>5, <2>7, <3>1
    <3>2. CASE d # D(t) \/ i # c
      BY <1>4, <2>5, <3>2 DEF WInv, Marked
    <3> QED
      BY <3>1, <3>2
  <2>11. \A i \in Contents : Writes(t, i)' => Stays(D(t), i)
    BY <2>5, <2>7
  <2>12. \A p \in Procs : \A i \in promised'[p] :
            i \in memory'[p] \/ Stays(dir[p], i)
    BY <1>1, <1>5, <2>5, PromisesStay
  <2> HIDE DEF j
  <2> QED
    BY <1>1, <1>2, <2>1, <2>3, <2>4, <2>5, <2>8, <2>10, <2>11, <2>12, FileStep
<1>6. CASE ~Locked(P(t)) /\ NotOpened(t, c) /\ UNCHANGED mutex /\ Promise(t) /\ Returns(t)
  <2>1. Becomes(t, Idle) /\ Fits(t, Idle) /\ Idle.pc \notin Holding
    BY <1>6, ReturnsStep, IdleFits
  <2>2. Held' /\ mutex' \in [Procs -> Threads \cup {Free}]
    BY <1>1, <1>6, <2>1, KeepsMutex DEF Holding
  <2>3. /\ disk' = disk /\ disk \in [Dirs -> [Contents -> Marks \cup Threads]]
        /\ lost' \in [Dirs -> SUBSET Contents]
        /\ Stays(D(t), c)
        /\ \A d \in Dirs, i \in Contents : Stored(d, i) => Stays(d, i)
    BY <1>3, <1>6, NotOpenedStep DEF WInv, Types
  <2>4. /\ promised' \in [Procs -> SUBSET Contents] /\ dir \in [Procs -> Dirs]
        /\ \A p \in Procs : \A i \in promised'[p] : i \in promised[p] \/ (p = P(t) /\ i = c)
    BY <1>3, <1>6, PromiseStep DEF WInv, Types
  <2>5. \A i \in Contents : ~Writes(t, i)'
    BY <2>1 DEF Writes, At, Becomes, Holding
  <2>7. \A d \in Dirs, i \in Contents, u \in Threads :
          disk'[d][i] = u => u # t /\ disk[d][i] = u
    BY <1>4, <2>3 DEF WInv, Marked
  <2>8. \A p \in Procs : \A i \in promised'[p] :
            i \in memory'[p] \/ Stays(dir[p], i)
    <3> SUFFICES ASSUME NEW p \in Procs, NEW i \in promised'[p]
                 PROVE  i \in memory'[p] \/ Stays(dir[p], i)
      OBVIOUS
    <3>1. CASE p = P(t) /\ i = c
      BY <2>3, <3>1, Placed
    <3>2. CASE i \in promised[p]
      BY <1>1, <2>3, <3>2, PromisesStay
    <3> QED
      BY <2>4, <3>1, <3>2
  <2> QED
    BY <1>1, <1>2, <2>1, <2>2, <2>3, <2>4, <2>5, <2>7, <2>8, FileStep
<1> QED
  BY <1>5, <1>6 DEF PutOpens

LEMMA PutClosesStep ==
  ASSUME WInv, NEW t \in Threads, PutCloses(t)
  PROVE  WInv'
<1> DEFINE c == job[t].content
<1>1. /\ job[t].pc = "write" /\ Written(t, c) /\ Unlock(t) /\ Promise(t) /\ Returns(t)
      /\ UNCHANGED <<dir, memory>>
      /\ UNCHANGED <<tmp, tmpCnt, cwd, calls>>
  BY DEF PutCloses, At, dirVars
<1>2. DirTypes' /\ calls' \in 0..MaxCalls /\ memory' \in [Procs -> SUBSET Small]
  BY <1>1 DEF WInv, Types, DirTypes
<1>3. c \in Contents /\ \A i \in Contents : Writes(t, i) <=> i = c
  BY <1>1, Placed DEF Fits, Writes, At
<1>4. Becomes(t, Idle) /\ Fits(t, Idle) /\ Idle.pc \notin Holding
  BY <1>1, ReturnsStep, IdleFits
<1>5. Held' /\ mutex' \in [Procs -> Threads \cup {Free}]
  BY <1>1, <1>4, UnlockStep DEF Holding
<1>6. /\ disk' \in [Dirs -> [Contents -> Marks \cup Threads]]
      /\ lost' \in [Dirs -> SUBSET Contents]
      /\ disk'[D(t)][c] # t /\ Stays(D(t), c)
      /\ \A d \in Dirs, i \in Contents :
           /\ disk'[d][i] = disk[d][i] \/ disk'[d][i] \in {"whole", "torn"}
           /\ Stored(d, i) => Stays(d, i)
  BY <1>1, <1>3, WrittenStep
<1>7. /\ promised' \in [Procs -> SUBSET Contents] /\ dir \in [Procs -> Dirs]
      /\ \A p \in Procs : \A i \in promised'[p] : i \in promised[p] \/ (p = P(t) /\ i = c)
  BY <1>1, <1>3, PromiseStep DEF WInv, Types
<1>8. \A i \in Contents : ~Writes(t, i)'
  BY <1>4 DEF Writes, At, Becomes, Holding
<1>9. \A u \in Threads : u \notin {"whole", "torn"}
  BY Names DEF Marks
<1>10. \A d \in Dirs, i \in Contents, u \in Threads :
         disk'[d][i] = u => u # t /\ disk[d][i] = u
  <2> TAKE d \in Dirs, i \in Contents, u \in Threads
  <2>1. CASE u = t
    BY <1>3, <1>6, <1>9, <2>1 DEF WInv, Marked
  <2>2. CASE u # t
    BY <1>6, <1>9, <2>2
  <2> QED
    BY <2>1, <2>2
<1>11. \A p \in Procs : \A i \in promised'[p] :
          i \in memory'[p] \/ Stays(dir[p], i)
  <2> SUFFICES ASSUME NEW p \in Procs, NEW i \in promised'[p]
               PROVE  i \in memory'[p] \/ Stays(dir[p], i)
    OBVIOUS
  <2>1. CASE p = P(t) /\ i = c
    BY <1>6, <2>1, Placed
  <2>2. CASE i \in promised[p]
    BY <1>1, <1>6, <2>2, PromisesStay
  <2> QED
    BY <1>7, <2>1, <2>2
<1> QED
  BY <1>1, <1>2, <1>4, <1>5, <1>6, <1>7, <1>8, <1>10, <1>11, FileStep

\* A Delete takes a file away; what was written meanwhile is lost.
LEMMA DeleteStep ==
  ASSUME WInv, NEW t \in Threads, Delete(t)
  PROVE  WInv'
<1> DEFINE i == job[t].id
           p == P(t)
           d == D(t)
<1>1. /\ job[t].pc = "delete" /\ Returns(t)
      /\ UNCHANGED <<dir, mutex>>
      /\ UNCHANGED <<tmp, tmpCnt, cwd, calls>>
  BY DEF Delete, At, dirVars
<1>2. i \in Contents /\ p \in Procs /\ d \in Dirs /\ d = dir[p] /\ dir \in [Procs -> Dirs]
  BY <1>1, Placed DEF Fits, WInv, Types
<1>3. Becomes(t, Idle) /\ Fits(t, Idle) /\ Idle.pc \notin Holding
  BY <1>1, ReturnsStep, IdleFits
<1>4. Held' /\ mutex' \in [Procs -> Threads \cup {Free}]
  BY <1>1, <1>3, KeepsMutex DEF Holding
<1>5. DirTypes' /\ calls' \in 0..MaxCalls
  BY <1>1 DEF WInv, Types, DirTypes
<1>6. /\ memory \in [Procs -> SUBSET Small] /\ promised \in [Procs -> SUBSET Contents]
      /\ disk \in [Dirs -> [Contents -> Marks \cup Threads]]
      /\ lost \in [Dirs -> SUBSET Contents]
  BY DEF WInv, Types
<1>7. \A u \in Threads : D(u)' = D(u) /\ D(u) \in Dirs
  BY <1>1, Placed DEF D
<1>8. \A u \in Threads, k \in Contents : Writes(u, k)' <=> Writes(u, k)
  BY <1>1, <1>3 DEF Writes, At, Becomes, Holding
<1>9. Jobs'
  BY <1>3 DEF WInv, Jobs, Becomes, Fits, P
<1>10. CASE /\ memory' = [memory EXCEPT ![p] = @ \ {i}]
            /\ promised' = [promised EXCEPT ![p] = @ \ {i}]
            /\ UNCHANGED diskVars
  <2>1. UNCHANGED <<disk, lost>>
    BY <1>10 DEF diskVars
  <2>2. memory' \in [Procs -> SUBSET Small] /\ promised' \in [Procs -> SUBSET Contents]
    BY <1>6, <1>10
  <2>3. Types'
    BY <1>1, <1>3, <1>4, <1>5, <1>6, <2>1, <2>2 DEF WInv, Types, Becomes
  <2>4. Marked' /\ Present'
    BY <1>7, <1>8, <2>1 DEF WInv, Marked, Present, Stored, There
  <2>5. KeepsPromises'
    BY <1>1, <1>2, <1>6, <1>10, <2>1 DEF WInv, KeepsPromises, There
  <2> QED
    BY <1>4, <1>9, <2>3, <2>4, <2>5 DEF WInv
<1>11. CASE /\ disk' = [disk EXCEPT ![d][i] = "absent"]
            /\ lost' = [lost EXCEPT ![d] = IF \E u \in Threads : Writes(u, i) /\ D(u) = d
                                           THEN @ \cup {i} ELSE @ \ {i}]
            /\ promised' = [q \in Procs |-> IF dir[q] = d /\ i \notin memory[q]
                                            THEN promised[q] \ {i} ELSE promised[q]]
            /\ UNCHANGED memory
  <2>1. "absent" \in Marks \cup Threads /\ \A u \in Threads : u # "absent"
    BY Names DEF Marks
  <2>2. /\ disk' \in [Dirs -> [Contents -> Marks \cup Threads]]
        /\ disk'[d][i] = "absent"
        /\ \A e \in Dirs, k \in Contents : e # d \/ k # i => disk'[e][k] = disk[e][k]
    <3> HIDE DEF i
    <3> QED
      BY <1>2, <1>11, <2>1, DiskStep
  <2>3. /\ lost' \in [Dirs -> SUBSET Contents]
        /\ \A e \in Dirs, k \in Contents : e # d \/ k # i => (k \in lost[e] => k \in lost'[e])
        /\ \A u \in Threads : Writes(u, i) /\ D(u) = d => i \in lost'[d]
    BY <1>2, <1>6, <1>11
  <2>4. /\ promised' \in [Procs -> SUBSET Contents]
        /\ \A q \in Procs : \A k \in promised'[q] :
             k \in promised[q] /\ (dir[q] = d /\ k = i => i \in memory[q])
    BY <1>6, <1>11
  <2>5. Types'
    BY <1>1, <1>3, <1>4, <1>5, <1>6, <1>11, <2>2, <2>3, <2>4 DEF WInv, Types, Becomes
  <2>6. \A e \in Dirs, k \in Contents : e # d \/ k # i => (Stored(e, k) => Stays(e, k))
    BY <2>2, <2>3 DEF Stored, There, Stays
  <2>7. Marked'
    BY <1>7, <1>8, <2>1, <2>2 DEF WInv, Marked
  <2>8. Present'
    <3> SUFFICES ASSUME NEW u \in Threads, NEW k \in Contents, Writes(u, k)'
                 PROVE  Stays(D(u), k)
      BY <1>7 DEF Present, Stored, There, Stays
    <3>1. Writes(u, k) /\ Stored(D(u), k)
      BY <1>8 DEF WInv, Present
    <3>2. CASE D(u) = d /\ k = i
      BY <2>3, <3>1, <3>2 DEF Stays
    <3>3. CASE ~(D(u) = d /\ k = i)
      BY <1>7, <2>6, <3>1, <3>3
    <3> QED
      BY <3>2, <3>3
  <2>9. KeepsPromises'
    <3> SUFFICES ASSUME NEW q \in Procs, NEW k \in promised'[q]
                 PROVE  k \in memory[q] \/ Stays(dir[q], k)
      BY <1>1, <1>11 DEF KeepsPromises, There, Stays
    <3>1. /\ k \in promised[q] /\ k \in Contents /\ dir[q] \in Dirs
          /\ dir[q] = d /\ k = i => i \in memory[q]
      BY <1>2, <1>6, <2>4
    <3>2. k \in memory[q] \/ Stored(dir[q], k)
      BY <3>1 DEF WInv, KeepsPromises, Stored
    <3> QED
      BY <2>6, <3>1, <3>2
  <2> QED
    BY <1>4, <1>9, <2>5, <2>7, <2>8, <2>9 DEF WInv
<1> QED
  BY <1>10, <1>11 DEF Delete

LEMMA MakesDirStep ==
  ASSUME WInv, NEW t \in Threads, MakesDir(t)
  PROVE  WInv'
<1> DEFINE n == tmpCnt[P(t)]
<1>1. /\ job[t].pc = "mkdir" /\ n < MaxDirs
      /\ tmpCnt' = [tmpCnt EXCEPT ![P(t)] = n + 1]
      /\ UNCHANGED <<dir, memory, disk, lost>>
      /\ UNCHANGED <<cwd, calls, promised>>
  BY DEF MakesDir, At, fileVars, diskVars
<1>2. tmpCnt \in [Procs -> 0..MaxDirs] /\ tmp \in [Dirs -> [0..(MaxDirs - 1) -> DirRecord]]
  BY DEF WInv, Types, DirTypes
<1>3. n \in 0..(MaxDirs - 1) /\ n \in 0..MaxDirs /\ tmpCnt' \in [Procs -> 0..MaxDirs]
  BY <1>1, <1>2, Placed, Names
<1> HIDE DEF n
<1>4. \A i \in Contents : ~Writes(t, i)
  BY <1>1 DEF Writes, At
<1>5. CASE /\ UNCHANGED mutex
           /\ tmp' = [tmp EXCEPT ![D(t)][n].made = TRUE]
           /\ job' = [job EXCEPT ![t].n = n, ![t].pc = "chdir"]
  <2> DEFINE j == [job[t] EXCEPT !.n = n, !.pc = "chdir"]
  <2>1. j \in JobRecord /\ j.pc = "chdir" /\ j.n = n
    BY <1>3, Placed, Names DEF JobRecord, Steps
  <2>2. Fits(t, j)
    BY <1>3, <2>1 DEF Fits
  <2>3. job' = [job EXCEPT ![t] = j]
    BY <1>5, Placed
  <2>4. Becomes(t, j)
    BY <2>1, <2>3, Placed DEF Becomes, WInv, Types
  <2>5. tmp' \in [Dirs -> [0..(MaxDirs - 1) -> DirRecord]]
    <3> DEFINE row == [tmp[D(t)] EXCEPT ![n].made = TRUE]
    <3>1. tmp[D(t)] \in [0..(MaxDirs - 1) -> DirRecord]
      BY <1>2, Placed
    <3>2. [tmp[D(t)][n] EXCEPT !.made = TRUE] \in DirRecord
      BY <1>3, <3>1 DEF DirRecord
    <3>3. row \in [0..(MaxDirs - 1) -> DirRecord]
      BY <3>1, <3>2
    <3>4. tmp' = [tmp EXCEPT ![D(t)] = row]
      BY <1>5
    <3> QED
      BY <1>2, <3>3, <3>4
  <2>6. DirTypes' /\ calls' \in 0..MaxCalls
    BY <1>1, <1>3, <2>5 DEF WInv, Types, DirTypes
  <2> HIDE DEF j
  <2> QED
    BY <1>1, <1>5, <2>1, <2>2, <2>4, <2>6, Quiet DEF Holding
<1>6. CASE /\ Lock(t) /\ UNCHANGED tmp
           /\ job' = [job EXCEPT ![t].n = n, ![t].pc = "link"]
  <2> DEFINE j == [job[t] EXCEPT !.n = n, !.pc = "link"]
  <2>1. j \in JobRecord /\ j.pc = "link" /\ j.n = n
    BY <1>3, Placed, Names DEF JobRecord, Steps
  <2>2. Fits(t, j)
    BY <1>3, <2>1 DEF Fits
  <2>3. job' = [job EXCEPT ![t] = j]
    BY <1>6, Placed
  <2>4. Becomes(t, j)
    BY <2>1, <2>3, Placed DEF Becomes, WInv, Types
  <2>5. DirTypes' /\ calls' \in 0..MaxCalls
    BY <1>1, <1>3, <1>6 DEF WInv, Types, DirTypes
  <2>6. Held' /\ mutex' \in [Procs -> Threads \cup {Free}]
    BY <1>6, <2>1, <2>4, LockStep DEF Holding
  <2>7. \A i \in Contents : ~Writes(t, i)'
    BY <2>1, <2>4 DEF Writes, At, Becomes
  <2> HIDE DEF j
  <2> QED
    BY <1>1, <1>4, <2>2, <2>4, <2>5, <2>6, <2>7, StillStep
<1> QED
  BY <1>5, <1>6 DEF MakesDir, n

LEMMA SpillsStep ==
  ASSUME WInv, NEW t \in Threads, Spills(t)
  PROVE  WInv'
<1>1. PICK f \in job[t].todo :
        /\ job[t].pc = "link" /\ f \in memory[P(t)]
        /\ memory' = [memory EXCEPT ![P(t)] = @ \ {f}]
        /\ \/ /\ disk' = [disk EXCEPT ![D(t)][f] = t] /\ UNCHANGED lost
              /\ job' = [job EXCEPT ![t].id = f, ![t].pc = "spill"]
           \/ NotOpened(t, f) /\ UNCHANGED job
        /\ UNCHANGED <<dir, mutex>>
        /\ UNCHANGED <<tmp, tmpCnt, cwd, calls, promised>>
  BY DEF Spills, At, dirVars
<1>2. DirTypes' /\ calls' \in 0..MaxCalls
  BY <1>1 DEF WInv, Types, DirTypes
<1>3. f \in Contents
  BY <1>1, Placed DEF JobRecord
<1>4. \A i \in Contents : ~Writes(t, i)
  BY <1>1 DEF Writes, At
<1>5. /\ memory' \in [Procs -> SUBSET Small]
      /\ \A p \in Procs : \A i \in memory[p] : i \in memory'[p] \/ (p = P(t) /\ i = f)
      /\ promised' \in [Procs -> SUBSET Contents] /\ dir \in [Procs -> Dirs]
      /\ dir[P(t)] = D(t)
  BY <1>1, Placed DEF WInv, Types
<1>6. ASSUME NEW j, Becomes(t, j), Fits(t, j), j.pc \in {"link", "spill"},
             disk' \in [Dirs -> [Contents -> Marks \cup Threads]],
             lost' \in [Dirs -> SUBSET Contents],
             Stays(D(t), f),
             \A d \in Dirs, i \in Contents : Stored(d, i) => Stays(d, i),
             \A d \in Dirs, i \in Contents, u \in Threads : disk'[d][i] = u =>
               \/ u = t /\ d = D(t) /\ Writes(t, i)'
               \/ u # t /\ disk[d][i] = u,
             \A i \in Contents : Writes(t, i)' => i = f
      PROVE  WInv'
  <2>1. Held' /\ mutex' \in [Procs -> Threads \cup {Free}]
    BY <1>1, <1>6, KeepsMutex DEF Holding
  <2>2. \A p \in Procs : \A i \in promised'[p] :
            i \in memory'[p] \/ Stays(dir[p], i)
    <3> SUFFICES ASSUME NEW p \in Procs, NEW i \in promised'[p]
                 PROVE  i \in memory'[p] \/ Stays(dir[p], i)
      OBVIOUS
    <3>1. i \in Contents /\ (i \in memory[p] \/ Stays(dir[p], i)) /\ dir[p] \in Dirs
      BY <1>1, <1>6, PromisesStay
    <3>2. CASE p = P(t) /\ i = f
      BY <1>5, <1>6, <3>2
    <3>3. CASE ~(p = P(t) /\ i = f)
      BY <1>5, <1>6, <3>1, <3>3
    <3> QED
      BY <3>2, <3>3
  <2> QED
    BY <1>1, <1>2, <1>5, <1>6, <2>1, <2>2, FileStep
<1>7. CASE /\ disk' = [disk EXCEPT ![D(t)][f] = t] /\ UNCHANGED lost
           /\ job' = [job EXCEPT ![t].id = f, ![t].pc = "spill"]
  <2> DEFINE j == [job[t] EXCEPT !.id = f, !.pc = "spill"]
  <2>1. j \in JobRecord /\ j.pc = "spill" /\ j.id = f /\ j.n = job[t].n
    BY <1>3, Placed DEF JobRecord, Steps
  <2>2. Fits(t, j)
    BY <1>1, <1>3, <2>1, Placed DEF Fits
  <2>3. job' = [job EXCEPT ![t] = j]
    BY <1>7, Placed
  <2>4. Becomes(t, j)
    BY <2>1, <2>3, Placed DEF Becomes, WInv, Types
  <2> HIDE DEF j
  <2>5. /\ disk' \in [Dirs -> [Contents -> Marks \cup Threads]]
        /\ lost' \in [Dirs -> SUBSET Contents]
        /\ disk'[D(t)][f] = t /\ Stays(D(t), f)
        /\ \A d \in Dirs, i \in Contents :
             /\ d # D(t) \/ i # f => disk'[d][i] = disk[d][i]
             /\ Stored(d, i) => Stays(d, i)
    BY <1>3, <1>7, OpenedStep
  <2>7. \A i \in Contents : Writes(t, i)' <=> i = f
    BY <2>1, <2>4, OthersWrite
  <2>9. \A d \in Dirs, i \in Contents, u \in Threads : disk'[d][i] = u =>
            \/ u = t /\ d = D(t) /\ Writes(t, i)'
            \/ u # t /\ disk[d][i] = u
    <3> TAKE d \in Dirs, i \in Contents, u \in Threads
    <3>1. CASE d = D(t) /\ i = f
      BY <1>3, <2>5, <2>7, <3>1
    <3>2. CASE d # D(t) \/ i # f
      BY <1>4, <2>5, <3>2 DEF WInv, Marked
    <3> QED
      BY <3>1, <3>2
  <2> QED
    BY <1>6, <2>1, <2>2, <2>4, <2>5, <2>7, <2>9
<1>8. CASE NotOpened(t, f) /\ UNCHANGED job
  <2>1. Becomes(t, job[t]) /\ Fits(t, job[t])
    BY <1>8, Placed DEF Becomes, WInv, Types
  <2>2. /\ disk' = disk /\ disk \in [Dirs -> [Contents -> Marks \cup Threads]]
        /\ lost' \in [Dirs -> SUBSET Contents]
        /\ Stays(D(t), f)
        /\ \A d \in Dirs, i \in Contents : Stored(d, i) => Stays(d, i)
    BY <1>3, <1>8, NotOpenedStep DEF WInv, Types
  <2>4. \A d \in Dirs, i \in Contents, u \in Threads :
          disk'[d][i] = u => u # t /\ disk[d][i] = u
    BY <1>4, <2>2 DEF WInv, Marked
  <2>5. \A i \in Contents : ~Writes(t, i)'
    BY <1>4, <1>8 DEF Writes, At
  <2> QED
    BY <1>1, <1>6, <2>1, <2>2, <2>4, <2>5
<1> QED
  BY <1>1, <1>7, <1>8

LEMMA SpilledStep ==
  ASSUME WInv, NEW t \in Threads, Spilled(t)
  PROVE  WInv'
<1> DEFINE c == job[t].id
           j == [job[t] EXCEPT !.pc = "link"]
<1>1. /\ job[t].pc = "spill" /\ Written(t, c) /\ Goes(t, "link")
      /\ UNCHANGED <<dir, memory, mutex>>
      /\ UNCHANGED <<tmp, tmpCnt, cwd, calls, promised>>
  BY DEF Spilled, At, dirVars
<1>2. DirTypes' /\ calls' \in 0..MaxCalls /\ memory' \in [Procs -> SUBSET Small]
      /\ promised' \in [Procs -> SUBSET Contents] /\ dir \in [Procs -> Dirs]
  BY <1>1 DEF WInv, Types, DirTypes
<1>3. c \in Contents /\ \A i \in Contents : Writes(t, i) <=> i = c
  BY <1>1, Placed DEF Fits, Writes, At
<1>4. Becomes(t, j)
  BY <1>1, GoesStep DEF Steps
<1>5. Fits(t, j) /\ j.pc = "link"
  BY <1>1, Placed, PcFits
<1> HIDE DEF j
<1>6. Held' /\ mutex' \in [Procs -> Threads \cup {Free}]
  BY <1>1, <1>4, <1>5, KeepsMutex DEF Holding
<1>7. /\ disk' \in [Dirs -> [Contents -> Marks \cup Threads]]
      /\ lost' \in [Dirs -> SUBSET Contents]
      /\ disk'[D(t)][c] # t
      /\ \A d \in Dirs, i \in Contents :
           /\ disk'[d][i] = disk[d][i] \/ disk'[d][i] \in {"whole", "torn"}
           /\ Stored(d, i) => Stays(d, i)
  BY <1>1, <1>3, WrittenStep
<1>8. \A i \in Contents : ~Writes(t, i)'
  BY <1>4, <1>5 DEF Writes, At, Becomes
<1>9. \A u \in Threads : u \notin {"whole", "torn"}
  BY Names DEF Marks
<1>10. \A d \in Dirs, i \in Contents, u \in Threads :
         disk'[d][i] = u => u # t /\ disk[d][i] = u
  <2> TAKE d \in Dirs, i \in Contents, u \in Threads
  <2>1. CASE u = t
    BY <1>3, <1>7, <1>9, <2>1 DEF WInv, Marked
  <2>2. CASE u # t
    BY <1>7, <1>9, <2>2
  <2> QED
    BY <2>1, <2>2
<1>12. \A p \in Procs : \A i \in promised'[p] :
          i \in memory'[p] \/ Stays(dir[p], i)
  BY <1>1, <1>7, PromisesStay
<1> QED
  BY <1>1, <1>2, <1>4, <1>5, <1>6, <1>7, <1>8, <1>10, <1>12, FileStep

LEMMA LinksStep ==
  ASSUME WInv, NEW t \in Threads, Links(t)
  PROVE  WInv'
<1>1. PICK f \in job[t].todo \ memory[P(t)] :
        /\ job[t].pc = "link"
        /\ \/ job' = [job EXCEPT ![t].todo = @ \ {f}] /\ UNCHANGED <<tmp, mutex>>
           \/ /\ tmp' = [tmp EXCEPT ![D(t)][job[t].n].links = @ \cup {f}]
              /\ Fails(t)
        /\ UNCHANGED <<dir, memory, disk, lost>>
        /\ UNCHANGED <<tmpCnt, cwd, calls, promised>>
  BY DEF Links, At, fileVars, diskVars
<1>2. f \in Contents /\ job[t].n \in 0..(MaxDirs - 1)
  BY <1>1, Placed DEF JobRecord, Fits
<1>3. \A i \in Contents : ~Writes(t, i)
  BY <1>1 DEF Writes, At
<1>4. tmp \in [Dirs -> [0..(MaxDirs - 1) -> DirRecord]] /\ tmpCnt \in [Procs -> 0..MaxDirs]
  BY DEF WInv, Types, DirTypes
<1>5. CASE job' = [job EXCEPT ![t].todo = @ \ {f}] /\ UNCHANGED <<tmp, mutex>>
  <2> DEFINE j == [job[t] EXCEPT !.todo = @ \ {f}]
  <2>1. j \in JobRecord /\ j.pc = "link" /\ j.n = job[t].n
    BY <1>1, Placed DEF JobRecord
  <2>2. Fits(t, j)
    BY <1>2, <2>1 DEF Fits
  <2>3. Becomes(t, j)
    BY <1>5, <2>1, Placed DEF Becomes, WInv, Types
  <2> HIDE DEF j
  <2>4. DirTypes' /\ calls' \in 0..MaxCalls
    BY <1>1, <1>5 DEF WInv, Types, DirTypes
  <2>5. Held' /\ mutex' \in [Procs -> Threads \cup {Free}]
    BY <1>1, <1>5, <2>1, <2>3, KeepsMutex DEF Holding
  <2>6. \A i \in Contents : ~Writes(t, i)'
    BY <2>1, <2>3 DEF Writes, At, Becomes
  <2> QED
    BY <1>1, <1>3, <2>2, <2>3, <2>4, <2>5, <2>6, StillStep
<1>6. CASE tmp' = [tmp EXCEPT ![D(t)][job[t].n].links = @ \cup {f}] /\ Fails(t)
  <2>1. Becomes(t, Idle) /\ Fits(t, Idle) /\ Idle.pc \notin Holding
    BY <1>6, ReturnsStep, IdleFits DEF Fails
  <2>2. tmp' \in [Dirs -> [0..(MaxDirs - 1) -> DirRecord]]
    <3> DEFINE row == [tmp[D(t)] EXCEPT ![job[t].n].links = @ \cup {f}]
    <3>1. tmp[D(t)] \in [0..(MaxDirs - 1) -> DirRecord]
      BY <1>4, Placed
    <3>2. [tmp[D(t)][job[t].n] EXCEPT !.links = @ \cup {f}] \in DirRecord
      BY <1>2, <3>1 DEF DirRecord
    <3>3. row \in [0..(MaxDirs - 1) -> DirRecord]
      BY <3>1, <3>2
    <3>4. tmp' = [tmp EXCEPT ![D(t)] = row]
      BY <1>6
    <3> QED
      BY <1>4, <3>3, <3>4
  <2>3. DirTypes' /\ calls' \in 0..MaxCalls
    BY <1>1, <2>2 DEF WInv, Types, DirTypes
  <2>4. Held' /\ mutex' \in [Procs -> Threads \cup {Free}]
    BY <1>1, <1>6, <2>1, UnlockStep DEF Holding, Fails
  <2>5. \A i \in Contents : ~Writes(t, i)'
    BY <2>1 DEF Writes, At, Becomes, Holding
  <2> QED
    BY <1>1, <1>3, <2>1, <2>3, <2>4, <2>5, StillStep
<1> QED
  BY <1>1, <1>5, <1>6

LEMMA LinkedStep ==
  ASSUME WInv, NEW t \in Threads, Linked(t)
  PROVE  WInv'
<1> DEFINE j == [job[t] EXCEPT !.pc = "chdir"]
<1>1. /\ job[t].pc = "link" /\ Unlock(t) /\ Goes(t, "chdir")
      /\ UNCHANGED <<dir, memory, disk, lost>>
      /\ UNCHANGED <<tmp, tmpCnt, cwd, calls, promised>>
  BY DEF Linked, At, fileVars, diskVars, dirVars
<1>2. DirTypes' /\ calls' \in 0..MaxCalls
  BY <1>1 DEF WInv, Types, DirTypes
<1>3. Becomes(t, j)
  BY <1>1, GoesStep DEF Steps
<1>4. Fits(t, j) /\ j.pc = "chdir"
  BY <1>1, Placed, PcFits
<1> HIDE DEF j
<1>5. Held' /\ mutex' \in [Procs -> Threads \cup {Free}]
  BY <1>1, <1>3, <1>4, UnlockStep DEF Holding
<1>6. \A i \in Contents : ~Writes(t, i) /\ ~Writes(t, i)'
  BY <1>1, <1>3, <1>4 DEF Writes, At, Becomes
<1> QED
  BY <1>1, <1>2, <1>3, <1>4, <1>5, <1>6, StillStep

\* A process that dies lets go of its files, and of what it had answered for.
LEMMA RestartStep ==
  ASSUME WInv, NEW p \in Procs, Restart(p)
  PROVE  WInv'
<1> DEFINE cut == {i \in Contents : \E t \in Threads : Serves[t] = p /\ disk[dir[p]][i] = t}
<1>1. /\ memory' = [memory EXCEPT ![p] = {}]
      /\ mutex' = [mutex EXCEPT ![p] = Free]
      /\ disk' = [disk EXCEPT ![dir[p]] = [i \in Contents |-> IF i \in cut THEN "torn" ELSE @[i]]]
      /\ lost' = [lost EXCEPT ![dir[p]] = @ \cup cut]
      /\ tmpCnt' = [tmpCnt EXCEPT ![p] = 0]
      /\ cwd' = [cwd EXCEPT ![p] = None]
      /\ job' = [t \in Threads |-> IF Serves[t] = p THEN Idle ELSE job[t]]
      /\ promised' = [promised EXCEPT ![p] = {}]
      /\ UNCHANGED <<dir, tmp, calls>>
  BY DEF Restart
<1>2. Types /\ Jobs /\ Held /\ Marked /\ Present /\ KeepsPromises
  BY DEF WInv
<1>3. /\ dir \in [Procs -> Dirs] /\ disk \in [Dirs -> [Contents -> Marks \cup Threads]]
      /\ lost \in [Dirs -> SUBSET Contents]
  BY <1>2 DEF Types
<1>4. DirTypes'
  BY <1>1, <1>2, Names DEF Types, DirTypes
<1>5. job' \in [Threads -> JobRecord]
      /\ \A t \in Threads : job'[t] = IF Serves[t] = p THEN Idle ELSE job[t]
  BY <1>1, <1>2, IdleFits DEF Types
<1>6. /\ disk' \in [Dirs -> [Contents -> Marks \cup Threads]]
      /\ \A d \in Dirs, i \in Contents :
           disk'[d][i] = IF d = dir[p] /\ i \in cut THEN "torn" ELSE disk[d][i]
  <2> DEFINE row == [i \in Contents |-> IF i \in cut THEN "torn" ELSE disk[dir[p]][i]]
  <2>1. disk' = [disk EXCEPT ![dir[p]] = row]
    BY <1>1
  <2>2. row \in [Contents -> Marks \cup Threads]
    BY <1>3 DEF Marks
  <2>3. \A i \in Contents : row[i] = IF i \in cut THEN "torn" ELSE disk[dir[p]][i]
    OBVIOUS
  <2> HIDE DEF row, cut
  <2> QED
    BY <1>3, <2>1, <2>2, <2>3
<1>7. /\ lost' \in [Dirs -> SUBSET Contents]
      /\ \A d \in Dirs, i \in Contents : Stored(d, i) => Stays(d, i)
  <2>1. cut \subseteq Contents
    OBVIOUS
  <2> HIDE DEF cut
  <2>2. /\ lost' \in [Dirs -> SUBSET Contents]
        /\ \A d \in Dirs : lost[d] \subseteq lost'[d] /\ (d = dir[p] => cut \subseteq lost'[d])
    BY <1>1, <1>3, <2>1
  <2> QED
    BY <1>6, <2>2 DEF Stored, There, Stays
<1>15. Types'
  BY <1>1, <1>2, <1>4, <1>5, <1>6, <1>7 DEF Types
<1>8. Jobs'
  BY <1>2, <1>5, IdleFits DEF Jobs, Fits, P
<1>9. Held'
  <2> SUFFICES ASSUME NEW t \in Threads PROVE job'[t].pc \in Holding <=> mutex'[P(t)] = t
    BY DEF Held, P
  <2>1. CASE Serves[t] = p
    BY <1>1, <1>2, <1>5, <2>1, IdleFits, Names DEF Types, P
  <2>2. CASE Serves[t] # p
    BY <1>1, <1>2, <1>5, <2>2, Placed, Names DEF Types, Held, P
  <2> QED
    BY <2>1, <2>2
<1>10. \A t \in Threads, i \in Contents : Writes(t, i)' <=> Serves[t] # p /\ Writes(t, i)
  <2> TAKE t \in Threads, i \in Contents
  <2>1. CASE Serves[t] = p
    BY <1>5, <2>1, IdleFits DEF Writes, At, Holding
  <2>2. CASE Serves[t] # p
    BY <1>5, <2>2 DEF Writes, At
  <2> QED
    BY <2>1, <2>2
<1>11. \A t \in Threads : D(t)' = D(t) /\ D(t) \in Dirs /\ D(t) = dir[Serves[t]]
  BY <1>1, Placed DEF D
<1>12. Marked'
  <2> SUFFICES ASSUME NEW d \in Dirs, NEW i \in Contents, NEW t \in Threads, disk'[d][i] = t
               PROVE  Writes(t, i)' /\ D(t) = d
    BY <1>11 DEF Marked
  <2>1. t # "torn"
    BY Names DEF Marks
  <2>2. disk[d][i] = t /\ ~(d = dir[p] /\ i \in cut)
    BY <1>6, <2>1
  <2>3. Writes(t, i) /\ D(t) = d
    BY <1>2, <2>2 DEF Marked
  <2>4. Serves[t] # p
    BY <1>11, <2>2, <2>3
  <2> QED
    BY <1>10, <2>3, <2>4
<1>13. Present'
  <2> SUFFICES ASSUME NEW t \in Threads, NEW i \in Contents, Writes(t, i)'
               PROVE  Stays(D(t), i)
    BY <1>11 DEF Present, Stored, There, Stays
  <2> QED
    BY <1>2, <1>7, <1>10, <1>11 DEF Present
<1>14. KeepsPromises'
  <2> SUFFICES ASSUME NEW q \in Procs, NEW i \in promised'[q]
               PROVE  i \in memory'[q] \/ Stays(dir[q], i)
    BY <1>1 DEF KeepsPromises, There, Stays
  <2>1. q # p /\ i \in promised[q] /\ memory'[q] = memory[q]
    BY <1>1, <1>2 DEF Types
  <2> QED
    BY <1>7, <2>1, PromisesStay
<1> QED
  BY <1>15, <1>8, <1>9, <1>12, <1>13, <1>14 DEF WInv

-----------------------------------------------------------------------------

LEMMA WInvInit == Init => WInv
<1> SUFFICES ASSUME Init PROVE WInv
  OBVIOUS
<1>1. \A t \in Threads : job[t] = Idle
  BY DEF Init
<1>2. \A d \in Dirs, i \in Contents : disk[d][i] = "absent"
  BY DEF Init
<1>3. \A t \in Threads, i \in Contents : ~Writes(t, i)
  BY <1>1, IdleFits DEF Writes, At, Holding
<1>4. \A t \in Threads : t # "absent" /\ mutex[P(t)] = Free
  BY Names DEF Init, Marks, P
<1>5. NoDir \in DirRecord
  BY DEF NoDir, DirRecord
<1>6. Types
  BY <1>5, IdleFits, Names DEF Init, Types, DirTypes, Marks
<1>7. Jobs
  BY <1>1, IdleFits DEF Jobs
<1>8. Held
  BY <1>1, <1>4, IdleFits, Names DEF Held
<1>9. Marked /\ Present
  BY <1>2, <1>3, <1>4 DEF Marked, Present
<1>10. KeepsPromises
  BY DEF Init, KeepsPromises
<1> QED
  BY <1>6, <1>7, <1>8, <1>9, <1>10 DEF WInv

LEMMA WInvStep == WInv /\ [Next]_vars => WInv'
<1> SUFFICES ASSUME WInv, [Next]_vars PROVE WInv'
  OBVIOUS
<1>1. ASSUME NEW t \in Threads, Serve(t) PROVE WInv'
  BY <1>1, ArrivesStep, ClientGetsStep, ClientAnsweredStep, TransferGetsStep, ComposeGetsStep,
     PutInMemoryStep, PutOpensStep, PutClosesStep, DeleteStep, MakesDirStep, SpillsStep,
     SpilledStep, LinksStep, LinkedStep, ChangesDirStep, PbrtStep, RetainsStep
  DEF Serve
<1>2. ASSUME NEW p \in Procs, Restart(p) PROVE WInv'
  BY <1>2, RestartStep
<1>3. CASE UNCHANGED vars
  BY <1>3 DEF vars, WInv, Types, DirTypes, Jobs, Fits, Held, Marked, Present, KeepsPromises,
     Stored, There, Writes, At, D, P
<1> QED
  BY <1>1, <1>2, <1>3 DEF Next

\* WInv is an inductive invariant of the prototype's workers.
THEOREM FilesInvariance == Spec => []WInv
BY WInvInit, WInvStep, PTL DEF Spec

\* The types; and the mutex of a process is held by the call that writes a file
\* or links a directory, while it does, and by no other.
THEOREM FilesTypes == Spec => []TypeOK
<1>1. WInv => TypeOK
  <2> SUFFICES ASSUME WInv PROVE TypeOK
    OBVIOUS
  <2>1. \A t \in Threads : job[t].pc \in Steps
    BY Placed DEF JobRecord
  <2> QED
    BY <2>1, Names DEF WInv, Types, DirTypes, Held, Holding, Marks, P, TypeOK
<1> QED
  BY <1>1, FilesInvariance, PTL

\* What a worker has answered for stays in its memory, or whole under its tmpdir, or
\* is being written there, until it is deleted or the process dies, whatever the
\* other processes of the same tmpdir write and delete meanwhile; unless the last
\* write of its file went wrong (lost).
THEOREM FilePromisesKept == Spec => []KeepsPromises
<1>1. WInv => KeepsPromises
  BY DEF WInv
<1> QED
  BY <1>1, FilesInvariance, PTL

\* Who writes the file of an id that is read while the mutex is free serves
\* another process.
LEMMA WriterElsewhere ==
  ASSUME WInv, NEW p \in Procs, ~Locked(p), NEW i \in Contents, NEW u \in Threads,
         disk[dir[p]][i] = u
  PROVE  Serves[u] # p
<1>1. dir[p] \in Dirs
  BY DEF WInv, Types
<1>2. Writes(u, i)
  BY <1>1 DEF WInv, Marked
<1>3. mutex[Serves[u]] = u
  BY <1>2 DEF WInv, Held, Writes, At, Holding, P
<1> QED
  BY <1>3, Names DEF Locked

LEMMA JunkRead ==
  ASSUME WInv, NEW p \in Procs, ~Locked(p), NEW i \in Contents, i # Junk,
         Junk \in Read(p, i)
  PROVE  \/ disk[dir[p]][i] = "torn"
         \/ \E u \in Threads : disk[dir[p]][i] = u /\ Serves[u] # p
<1>1. disk[dir[p]][i] \in Marks \cup Threads
  BY DEF WInv, Types
<1>2. disk[dir[p]][i] = "torn" \/ disk[dir[p]][i] \in Threads
  BY <1>1, Names DEF Read, Marks
<1> QED
  BY <1>2, WriterElsewhere

\* A read under the mutex gets Junk only from a file that a crash or the disk
\* left torn, or that another process is writing.
THEOREM ReadsAreWhole == Spec => ReadsWhole
<1> DEFINE Whole ==
      \A t \in Threads :
        LET i == job[t].id  p == job[t].at IN
        At(t, "get") /\ job[t].op \in {"Get", "Transfer"} /\ job'[t].content = Junk /\ i # Junk
          => \/ disk[dir[p]][i] = "torn"
             \/ \E u \in Threads : disk[dir[p]][i] = u /\ Serves[u] # p
<1>1. WInv /\ [Next]_vars => [Whole]_vars
  <2> SUFFICES ASSUME WInv, Next, NEW t \in Threads, job[t].pc = "get",
                      job[t].op \in {"Get", "Transfer"}, job'[t].content = Junk,
                      job[t].id # Junk
               PROVE  \/ disk[dir[job[t].at]][job[t].id] = "torn"
                      \/ \E u \in Threads : /\ disk[dir[job[t].at]][job[t].id] = u
                                            /\ Serves[u] # job[t].at
    BY DEF At
  <2>1. /\ job[t].content = None /\ None # Junk /\ Idle.content = None
        /\ job[t].id \in Contents /\ job[t].at \in Procs
        /\ job[t].op = "Get" => job[t].at = P(t)
    BY Placed, IdleFits, Names DEF Fits
  <2>2. job'[t] # job[t] /\ job'[t] # Idle
    BY <2>1
  <2>3. \A p \in Procs : ~Restart(p)
    BY <2>1, <2>2 DEF Restart
  <2>4. PICK u \in Threads : Serve(u)
    BY <2>3 DEF Next
  <2>5. u = t
    <3> SUFFICES ASSUME u # t PROVE job'[t] = job[t]
      BY <2>2
    <3> QED
      BY <2>4, Placed DEF Serve, Arrives, Call, ClientGets, ClientAnswered, TransferGets,
         ComposeGets, PutInMemory, PutOpens, PutCloses, Delete, MakesDir, Spills, Spilled,
         Links, Linked, ChangesDir, Pbrt, Retains, Returns, Goes, Fails
  <2>6. CASE ClientGets(t)
    <3>1. ~Locked(P(t)) /\ job[t].op = "Get"
      BY <2>6 DEF ClientGets, MayRead
    <3>2. PICK c \in Read(P(t), job[t].id) :
            IF c = None THEN Returns(t)
            ELSE job' = [job EXCEPT ![t].content = c, ![t].pc = "answer"]
      BY <2>6 DEF ClientGets
    <3>3. job'[t].content = c
      BY <2>2, <3>2, Placed DEF Returns, JobRecord
    <3> QED
      BY <2>1, <3>1, <3>2, <3>3, JunkRead
  <2>7. CASE TransferGets(t)
    <3>1. ~Returns(t)
      BY <2>2, Placed DEF Returns
    <3>2. PICK c \in Read(job[t].at, job[t].id) :
            job' = [job EXCEPT ![t].content = c, ![t].pc = "put"]
      BY <2>7, <3>1 DEF TransferGets
    <3>3. ~Locked(job[t].at)
      BY <2>7, <3>1 DEF TransferGets, MayRead
    <3>4. job'[t].content = c
      BY <3>2, Placed DEF JobRecord
    <3> QED
      BY <2>1, <3>2, <3>3, <3>4, JunkRead
  <2> QED
    BY <2>4, <2>5, <2>6, <2>7 DEF Serve, Arrives, ClientAnswered, ComposeGets, PutInMemory,
       PutOpens, PutCloses, Delete, MakesDir, Spills, Spilled, Links, Linked, ChangesDir, Pbrt,
       Retains, At
<1> QED
  BY <1>1, FilesInvariance, PTL DEF Spec, ReadsWhole
=============================================================================
