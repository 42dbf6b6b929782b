----------------------------- MODULE WorkerFiles -----------------------------
(***************************************************************************)
(* The workers of the C++ prototype: the file manager of each process      *)
(* (experimental/worker_file_manager.cc) and the calls that use it         *)
(* (experimental/worker.cc), each on a thread of its own.  Small files are *)
(* kept in memory, others under tmpdir by the hash of their content.       *)
(* Processes may share a tmpdir (experimental/README.md starts three       *)
(* workers on one machine), a mutex covers one process.                    *)
(*                                                                         *)
(* A content is named by its id: SHA-256 is taken to be injective.  What   *)
(* is read from a file not wholly written is some other content, Junk.  A  *)
(* write takes two steps, open (which truncates) and close; when two       *)
(* processes write one file at a time it is whole when the one that        *)
(* truncated it last has finished.                                         *)
(***************************************************************************)
EXTENDS Naturals, FiniteSets

CONSTANTS
  Procs, Dirs, Threads,
  Serves,     \* the process each thread belongs to
  Duties,     \* the calls each thread is given
  Contents,   \* contents, named by their ids
  Junk,       \* what a torn file reads as
  Small,      \* contents up to inmemory_threshold
  Images,     \* contents the renderers make
  Scene,      \* the file pbrt is started on
  MaxDirs,    \* bound on the temporary directories of a life
  MaxCalls,   \* bound on the calls that arrive
  Free, None

ASSUME JunkIsContent == Junk \in Contents /\ Junk \notin Small
ASSUME SmallAndImages == Small \subseteq Contents /\ Images \subseteq Contents
ASSUME ThreadsServe == Serves \in [Threads -> Procs]
ASSUME Bounds == MaxDirs \in Nat /\ MaxCalls \in Nat
ASSUME NamesDiffer ==
  /\ None \notin Contents /\ Free \notin Threads
  /\ Threads \cap {"absent", "whole", "torn"} = {}

VARIABLES
  dir,       \* the flag tmpdir of each process
  memory,    \* inmemory_files_
  mutex,     \* mutex_: the thread that holds it, or Free
  disk,      \* files under each tmpdir; a thread stands for "being written by"
  lost,      \* history: ids whose file is not there or not whole because its
             \* last write did not open it, fell short, was cut by the end of the
             \* process, or was unlinked on the way
  tmp,       \* temporary directories: made or not, links, image left there
  tmpCnt,    \* tmp_cnt_
  cwd,       \* the working directory of each process
  job,       \* the local variables of each call, and where it is
  calls,     \* calls that may still arrive
  promised   \* history: ids each process has answered for and nobody deleted

vars == <<dir, memory, mutex, disk, lost, tmp, tmpCnt, cwd, job, calls, promised>>

Idle == [pc |-> "idle", op |-> "none", id |-> None, content |-> None,
         todo |-> {}, at |-> None, n |-> 0]
NoDir == [made |-> FALSE, links |-> {}, exr |-> None]

Init ==
  /\ dir \in [Procs -> Dirs]
  /\ memory = [p \in Procs |-> {}]
  /\ mutex = [p \in Procs |-> Free]
  /\ disk = [d \in Dirs |-> [i \in Contents |-> "absent"]]
  /\ lost = [d \in Dirs |-> {}]
  /\ tmp = [d \in Dirs |-> [n \in 0..(MaxDirs - 1) |-> NoDir]]
  /\ tmpCnt = [p \in Procs |-> 0]
  /\ cwd = [p \in Procs |-> None]
  /\ job = [t \in Threads |-> Idle]
  /\ calls = MaxCalls
  /\ promised = [p \in Procs |-> {}]

At(t, pc) == job[t].pc = pc
P(t) == Serves[t]
D(t) == dir[Serves[t]]

\* A call that returns, whatever its status: the thread serves the next one.
Returns(t) == job' = [job EXCEPT ![t] = Idle]
Goes(t, pc) == job' = [job EXCEPT ![t].pc = pc]

Locked(p) == mutex[p] # Free
Lock(t) == ~Locked(P(t)) /\ mutex' = [mutex EXCEPT ![P(t)] = t]
Unlock(t) == mutex' = [mutex EXCEPT ![P(t)] = Free]

dirVars == <<tmp, tmpCnt, cwd>>
diskVars == <<disk, lost>>
fileVars == <<memory, diskVars>>

-----------------------------------------------------------------------------
(* Get. *)

\* What reading id i in process p gives; None stands for "not found".
Read(p, i) ==
  LET file == disk[dir[p]][i] IN
  IF i \in memory[p] \/ file = "whole" THEN {i}
  ELSE IF file = "absent" THEN {None}
  ELSE IF file = "torn" THEN {Junk} ELSE {i, Junk}

\* Get waits for the mutex.
MayRead_Any(p) == TRUE                                         \* mutant
MayRead(p) == ~Locked(p)

\* The answer of a Get, kept until it is sent.
ClientGets(t) ==
  /\ job[t].op = "Get" /\ At(t, "get") /\ MayRead(P(t))
  /\ \E c \in Read(P(t), job[t].id) :
       IF c = None THEN Returns(t)
       ELSE job' = [job EXCEPT ![t].content = c, ![t].pc = "answer"]
  /\ UNCHANGED <<dir, fileVars, mutex, dirVars, calls, promised>>

ClientAnswered(t) ==
  /\ At(t, "answer") /\ Returns(t)
  /\ UNCHANGED <<dir, fileVars, mutex, dirVars, calls, promised>>

\* Transfer: the other worker's Get; its connection may break.
TransferGets(t) ==
  /\ job[t].op = "Transfer" /\ At(t, "get")
  /\ \/ /\ MayRead(job[t].at)
        /\ \E c \in Read(job[t].at, job[t].id) :
             IF c = None THEN Returns(t)
             ELSE job' = [job EXCEPT ![t].content = c, ![t].pc = "put"]
     \/ Returns(t)
  /\ UNCHANGED <<dir, fileVars, mutex, dirVars, calls, promised>>

\* Compose: one image after the other, then the result.  Junk is no image.
ComposeGets(t) ==
  /\ job[t].op = "Compose" /\ At(t, "get")
  /\ \/ /\ MayRead(P(t))
        /\ \E i \in job[t].todo : \E c \in Read(P(t), i) :
             IF c \in Images THEN job' = [job EXCEPT ![t].todo = @ \ {i}] ELSE Returns(t)
     \/ /\ job[t].todo = {}
        /\ \E c \in Images : job' = [job EXCEPT ![t].content = c, ![t].pc = "put"]
  /\ UNCHANGED <<dir, fileVars, mutex, dirVars, calls, promised>>

-----------------------------------------------------------------------------
(* Put. *)

\* Transfer answers for the id it was asked for, if that is what it stored; the
\* other calls answer with the id of what they stored.
Answers_Unverified(t) ==                                       \* mutant
  {IF job[t].op = "Transfer" THEN job[t].id ELSE job[t].content}
Answers(t) ==
  IF job[t].op = "Transfer" /\ job[t].content # job[t].id THEN {} ELSE {job[t].content}

\* Put is over; the call returns.
Promise(t) == promised' = [promised EXCEPT ![P(t)] = @ \cup Answers(t)]

\* The file of id i is there, or a call is at it.
There(d, i) == disk[d][i] \in {"whole"} \cup Threads

\* The file of id i cannot be opened to write, which nobody notices: it stays as
\* it is, if it is there at all.
NotOpened(t, i) ==
  /\ UNCHANGED disk
  /\ lost' = [lost EXCEPT ![D(t)] = IF There(D(t), i) THEN @ ELSE @ \cup {i}]

PutInMemory(t) ==
  /\ At(t, "put") /\ ~Locked(P(t)) /\ job[t].content \in Small
  /\ memory' = [memory EXCEPT ![P(t)] = @ \cup {job[t].content}]
  /\ Promise(t) /\ Returns(t)
  /\ UNCHANGED <<dir, mutex, diskVars, dirVars, calls>>

\* The file is opened, which truncates it, under the mutex.
PutOpens(t) ==
  LET c == job[t].content IN
  /\ At(t, "put") /\ c \notin Small
  /\ \/ /\ Lock(t) /\ disk' = [disk EXCEPT ![D(t)][c] = t]
        /\ Goes(t, "write") /\ UNCHANGED <<lost, promised>>
     \/ /\ ~Locked(P(t)) /\ NotOpened(t, c) /\ UNCHANGED mutex
        /\ Promise(t) /\ Returns(t)
  /\ UNCHANGED <<dir, memory, dirVars, calls>>

\* A write of id i ends: completely, or short of disk space (not noticed).
Written(t, i) ==
  IF disk[D(t)][i] # t THEN UNCHANGED diskVars
  ELSE \/ /\ disk' = [disk EXCEPT ![D(t)][i] = "whole"]
          /\ lost' = [lost EXCEPT ![D(t)] = @ \ {i}]
       \/ /\ disk' = [disk EXCEPT ![D(t)][i] = "torn"]
          /\ lost' = [lost EXCEPT ![D(t)] = @ \cup {i}]

PutCloses(t) ==
  /\ At(t, "write") /\ Written(t, job[t].content)
  /\ Unlock(t) /\ Promise(t) /\ Returns(t)
  /\ UNCHANGED <<dir, memory, dirVars, calls>>

-----------------------------------------------------------------------------
(* Delete: the copy in memory, or else the file; OK in any case.  A file that *)
(* another process is writing is unlinked under its hands.                    *)

\* Call u is writing the file of id i.
Writes(u, i) ==
  \/ At(u, "write") /\ job[u].content = i
  \/ At(u, "spill") /\ job[u].id = i

Delete(t) ==
  LET i == job[t].id  p == P(t)  d == D(t) IN
  /\ At(t, "delete") /\ ~Locked(p)
  /\ IF i \in memory[p]
     THEN /\ memory' = [memory EXCEPT ![p] = @ \ {i}]
          /\ promised' = [promised EXCEPT ![p] = @ \ {i}]
          /\ UNCHANGED diskVars
     ELSE /\ disk' = [disk EXCEPT ![d][i] = "absent"]
          /\ lost' = [lost EXCEPT ![d] = IF \E u \in Threads : Writes(u, i) /\ D(u) = d
                                         THEN @ \cup {i} ELSE @ \ {i}]
          /\ promised' = [q \in Procs |-> IF dir[q] = d /\ i \notin memory[q]
                                          THEN promised[q] \ {i} ELSE promised[q]]
          /\ UNCHANGED memory
  /\ Returns(t)
  /\ UNCHANGED <<dir, mutex, dirVars, calls>>

-----------------------------------------------------------------------------
(* Run with PBRT. *)

\* CreateTmpDir: "if (!mkdir(...))" takes a directory just made for a failure and
\* returns false, which its caller takes for success, before any file is linked;
\* a directory that was there already gets the links, and one that could not be
\* made is gone about in the same way.
MakesDir(t) ==
  LET p == P(t)  n == tmpCnt[p] IN
  /\ At(t, "mkdir") /\ n < MaxDirs
  /\ tmpCnt' = [tmpCnt EXCEPT ![p] = n + 1]
  /\ \/ /\ ~tmp[D(t)][n].made /\ ~Locked(p) /\ UNCHANGED mutex
        /\ tmp' = [tmp EXCEPT ![D(t)][n].made = TRUE]
        /\ job' = [job EXCEPT ![t].n = n, ![t].pc = "chdir"]
     \/ /\ Lock(t) /\ UNCHANGED tmp
        /\ job' = [job EXCEPT ![t].n = n, ![t].pc = "link"]
  /\ UNCHANGED <<dir, fileVars, cwd, calls, promised>>

\* The next file to link, spilled to disk first if it is kept in memory.
Spills(t) ==
  \E f \in job[t].todo :
    /\ At(t, "link") /\ f \in memory[P(t)]
    /\ memory' = [memory EXCEPT ![P(t)] = @ \ {f}]
    /\ \/ /\ disk' = [disk EXCEPT ![D(t)][f] = t] /\ UNCHANGED lost
          /\ job' = [job EXCEPT ![t].id = f, ![t].pc = "spill"]
       \/ NotOpened(t, f) /\ UNCHANGED job
    /\ UNCHANGED <<dir, mutex, dirVars, calls, promised>>

Spilled(t) ==
  /\ At(t, "spill") /\ Written(t, job[t].id) /\ Goes(t, "link")
  /\ UNCHANGED <<dir, memory, mutex, dirVars, calls, promised>>

\* "if (!symlink(...))": a link just made ends the call with DATA_LOSS, one that
\* cannot be made is passed over, being there already or for want of a directory.
Fails_Locked(t) == Returns(t) /\ UNCHANGED mutex               \* mutant
Fails(t) == Returns(t) /\ Unlock(t)

Links(t) ==
  \E f \in job[t].todo \ memory[P(t)] :
    /\ At(t, "link")
    /\ \/ job' = [job EXCEPT ![t].todo = @ \ {f}] /\ UNCHANGED <<tmp, mutex>>
       \/ /\ tmp[D(t)][job[t].n].made /\ f \notin tmp[D(t)][job[t].n].links
          /\ tmp' = [tmp EXCEPT ![D(t)][job[t].n].links = @ \cup {f}]
          /\ Fails(t)
    /\ UNCHANGED <<dir, fileVars, tmpCnt, cwd, calls, promised>>

Linked(t) ==
  /\ At(t, "link") /\ job[t].todo = {}
  /\ Unlock(t) /\ Goes(t, "chdir")
  /\ UNCHANGED <<dir, fileVars, dirVars, calls, promised>>

\* chdir is for the whole process; another thread may go elsewhere before pbrt
\* is started.  Nobody notices that it fails.
ChangesDir(t) ==
  /\ At(t, "chdir") /\ Goes(t, "pbrt")
  /\ cwd' = [cwd EXCEPT ![P(t)] = IF tmp[D(t)][job[t].n].made THEN job[t].n ELSE @]
  /\ UNCHANGED <<dir, fileVars, mutex, tmp, tmpCnt, calls, promised>>

\* pbrt, in the directory the process is in: it leaves an image if it finds its
\* scene there and has no trouble with it.  Its exit status is not looked at.
Pbrt(t) ==
  /\ At(t, "pbrt") /\ Goes(t, "retain")
  /\ \/ UNCHANGED tmp
     \/ /\ cwd[P(t)] # None
        /\ Scene \in tmp[D(t)][cwd[P(t)]].links /\ disk[D(t)][Scene] = "whole"
        /\ \E c \in Images : tmp' = [tmp EXCEPT ![D(t)][cwd[P(t)]].exr = c]
  /\ UNCHANGED <<dir, fileVars, mutex, tmpCnt, cwd, calls, promised>>

\* Retain: the image in the call's own directory, if there is one.  RemoveTmpDir
\* starts the directory as a command and removes nothing.
Retains(t) ==
  LET exr == tmp[D(t)][job[t].n].exr IN
  /\ At(t, "retain")
  /\ IF exr = None THEN Returns(t)
     ELSE job' = [job EXCEPT ![t].content = exr, ![t].pc = "put"]
  /\ UNCHANGED <<dir, fileVars, mutex, dirVars, calls, promised>>

-----------------------------------------------------------------------------
(* Calls arrive; processes are killed and started again. *)

Call(t, op, pc, i, at) ==
  /\ op \in Duties[t]
  /\ job' = [job EXCEPT ![t] = [Idle EXCEPT !.op = op, !.pc = pc, !.id = i, !.at = at]]

\* Callers store files, and name the ids they were given: nobody is given the
\* id of a torn one.
Named == Contents \ {Junk}

Arrives(t) ==
  /\ At(t, "idle") /\ calls > 0 /\ calls' = calls - 1
  /\ \/ \E i \in Named : Call(t, "Get", "get", i, P(t))
     \/ \E i \in Named : Call(t, "Delete", "delete", i, P(t))
     \/ \E i \in Named, q \in Procs : Call(t, "Transfer", "get", i, q)
     \/ \E c \in Named :
          /\ "Put" \in Duties[t]
          /\ job' = [job EXCEPT ![t] = [Idle EXCEPT !.op = "Put", !.pc = "put",
                                                    !.content = c]]
     \/ \E c \in Images :  \* AoBench()
          /\ "Run" \in Duties[t]
          /\ job' = [job EXCEPT ![t] = [Idle EXCEPT !.op = "Run", !.pc = "put",
                                                    !.content = c]]
     \/ \E fs \in SUBSET Named :
          /\ "Run" \in Duties[t]
          /\ job' = [job EXCEPT ![t] = [Idle EXCEPT !.op = "Run", !.pc = "mkdir",
                                                    !.todo = fs]]
     \/ \E is \in SUBSET Images :
          /\ "Compose" \in Duties[t] /\ is # {}
          /\ job' = [job EXCEPT ![t] = [Idle EXCEPT !.op = "Compose", !.pc = "get",
                                                    !.todo = is, !.at = P(t)]]
  /\ UNCHANGED <<dir, fileVars, mutex, dirVars, promised>>

\* A process dies and is started again.  What it was writing stays torn, and the
\* temporary directories stay, although the count starts again at 0.
Restart(p) ==
  LET cut == {i \in Contents : \E t \in Threads : Serves[t] = p /\ disk[dir[p]][i] = t} IN
  /\ memory' = [memory EXCEPT ![p] = {}]
  /\ mutex' = [mutex EXCEPT ![p] = Free]
  /\ disk' = [disk EXCEPT ![dir[p]] = [i \in Contents |-> IF i \in cut THEN "torn" ELSE @[i]]]
  /\ lost' = [lost EXCEPT ![dir[p]] = @ \cup cut]
  /\ tmpCnt' = [tmpCnt EXCEPT ![p] = 0]
  /\ cwd' = [cwd EXCEPT ![p] = None]
  /\ job' = [t \in Threads |-> IF Serves[t] = p THEN Idle ELSE job[t]]
  /\ promised' = [promised EXCEPT ![p] = {}]
  /\ UNCHANGED <<dir, tmp, calls>>

Serve(t) ==
  \/ Arrives(t) \/ ClientGets(t) \/ ClientAnswered(t) \/ TransferGets(t)
  \/ ComposeGets(t) \/ PutInMemory(t) \/ PutOpens(t) \/ PutCloses(t) \/ Delete(t)
  \/ MakesDir(t) \/ Spills(t) \/ Spilled(t) \/ Links(t) \/ Linked(t)
  \/ ChangesDir(t) \/ Pbrt(t) \/ Retains(t)

Next == (\E t \in Threads : Serve(t)) \/ \E p \in Procs : Restart(p)

Spec == Init /\ [][Next]_vars

-----------------------------------------------------------------------------
(* Properties. *)

Steps == {"idle", "get", "answer", "put", "write", "delete", "mkdir", "link",
          "spill", "chdir", "pbrt", "retain"}

\* The variables have their types, and the mutex of a process is held by the
\* call that is writing a file or linking a temporary directory, as long as it
\* does, and by no other.
TypeOK ==
  /\ dir \in [Procs -> Dirs] /\ memory \in [Procs -> SUBSET Small]
  /\ mutex \in [Procs -> Threads \cup {Free}]
  /\ disk \in [Dirs -> [Contents -> {"absent", "whole", "torn"} \cup Threads]]
  /\ lost \in [Dirs -> SUBSET Contents]
  /\ tmpCnt \in [Procs -> 0..MaxDirs] /\ cwd \in [Procs -> 0..(MaxDirs - 1) \cup {None}]
  /\ \A t \in Threads : job[t].pc \in Steps
  /\ \A t \in Threads : job[t].pc \in {"write", "link", "spill"} <=> mutex[Serves[t]] = t
  /\ calls \in 0..MaxCalls /\ promised \in [Procs -> SUBSET Contents]

\* "All the function calls to this class are thread-safe"
\* (worker_file_manager.h:15): a call that reads a file gets the content the id
\* names, however many threads of its process write it meanwhile.  It gets
\* something else only from a file that a crash or the disk left torn, or that
\* another process of the same tmpdir is writing.
ReadsWhole ==
  [][\A t \in Threads :
       LET i == job[t].id  p == job[t].at IN
       At(t, "get") /\ job[t].op \in {"Get", "Transfer"} /\ job'[t].content = Junk /\ i # Junk
         => \/ disk[dir[p]][i] = "torn"
            \/ \E u \in Threads : disk[dir[p]][i] = u /\ Serves[u] # p]_vars

\* What a worker has answered for (a Put, a verified Transfer, the result of a
\* rendering or a composition) is kept until somebody deletes it or the process
\* dies: in memory, or whole under tmpdir, or a call is just writing it there;
\* through spills, puts of the same content, transfers that bring another one
\* and the neighbours on the tmpdir.  The one exception is an id whose last write
\* went wrong (lost): it did not open the file, fell short, was cut by the end of
\* its process, or wrote to a file a Delete of a neighbour had unlinked.  Nothing
\* tells then: Put answers "not failed" whatever becomes of its write, and a spill
\* has dropped the copy in memory before its own begins
\* (worker_file_manager.cc:42-49, 104-111).
KeepsPromises ==
  \A p \in Procs : \A i \in promised[p] :
    i \in memory[p] \/ There(dir[p], i) \/ i \in lost[dir[p]]

\* "Returns true if failed" (worker_file_manager.h:14): when CreateTmpDir reports
\* success the files are linked in the directory.
TmpDirLinked ==
  \A t \in Threads : At(t, "chdir") => job[t].todo \subseteq tmp[D(t)][job[t].n].links
=============================================================================
