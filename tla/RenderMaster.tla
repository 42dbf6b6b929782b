----------------------------- MODULE RenderMaster -----------------------------
(***************************************************************************)
(* The master of the C++ prototype (experimental/master.cc,                *)
(* master_file_manager.cc, node_manager.cc): clients upload files and ask  *)
(* for renders; the master remembers which worker has which file and has   *)
(* missing files transferred before it lets a worker render.               *)
(*                                                                         *)
(* gRPC runs each request on a thread of its own and nothing locks the     *)
(* file table ("TODO: Add lock").  A step is one call on the table, except *)
(* NotifyFilePut, whose two writes (reset, insert) are separate steps: it  *)
(* is the one that leaves an entry in between.  Two threads writing at     *)
(* once may lose one of the writes, or crash the master (MasterExit).      *)
(***************************************************************************)
EXTENDS Naturals, Sequences, SeqFilter

CONSTANTS
  Workers,      \* workers the flag workers_list may name
  Files,        \* file ids: hashes of contents
  Results,      \* ids of the images renders make
  Handlers,     \* requests, each served by one thread
  Kind,         \* what each asks for: "Render" or "UploadDirect"
  Request,      \* the file ids it brings, in order
  Placeholder,  \* TRUE: GetEmptyWorker as it is; FALSE: as its header says
  MaxLives      \* bound on the lives of the master

ASSUME ResultsAreFiles == Results \subseteq Files
ASSUME KindsKnown == Kind \in [Handlers -> {"Render", "UploadDirect"}]
ASSUME RequestsKnown == Request \in [Handlers -> Seq(Files)]
ASSUME UploadsOne ==
  \A h \in Handlers : Kind[h] = "UploadDirect" => Len(Request[h]) = 1
ASSUME PlaceholderKnown == Placeholder \in BOOLEAN
ASSUME LivesBound == MaxLives \in Nat

VARIABLES
  nodes,      \* NodeManager::workers_
  known,      \* keys of MasterFileManager::files_
  workersOf,  \* FileInfo::workers, by file
  lockedOf,   \* FileInfo::locked_workers, by file
  job,        \* the local variables of each handler, and where it is
  stored,     \* what each worker has stored so far
  collided,   \* history: two writes met and one was lost
  acked,      \* history: uploads this master has confirmed
  lives       \* lives of the master that are left

table == <<known, workersOf, lockedOf>>
vars == <<nodes, table, job, stored, collided, acked, lives>>

NoWorker == "none"
Idle == [pc |-> "idle", worker |-> NoWorker, src |-> NoWorker, todo |-> <<>>,
         id |-> NoWorker, lock |-> FALSE, next |-> "idle"]
Nothing == [f \in Files |-> {}]

\* The file ids a request names.
Ids(h) == {Request[h][i] : i \in 1..Len(Request[h])}

Init ==
  /\ nodes \in SUBSET Workers
  /\ known = {} /\ workersOf = Nothing /\ lockedOf = Nothing
  /\ job = [h \in Handlers |-> Idle]
  /\ stored = [w \in Workers |-> {}]
  /\ collided = FALSE /\ acked = {} /\ lives = MaxLives

At(h, pc) == job[h].pc = pc
Goes(h, pc) == job' = [job EXCEPT ![h].pc = pc]

\* The workers GetEmptyWorker may answer; none stands for -1.
GetEmptyWorker ==
  IF Placeholder /\ nodes # {} THEN {CHOOSE w \in nodes : TRUE} ELSE nodes

-----------------------------------------------------------------------------
(* Calls on the file table. *)

IsFileAlive(f) == f \in known

ListMissingFiles_Elsewhere(w, ids) ==                          \* mutant
  Filter(ids, {f \in Files : workersOf[f] = {}})
ListMissingFiles(w, ids) == Filter(ids, {f \in Files : w \notin workersOf[f]})

\* LockFiles gets to the i-th file: it stops at the first that the worker does not
\* have.
Reached(w, ids, i) == \A m \in 1..(i - 1) : w \in workersOf[ids[m]]

LockFiles(w, ids) ==
  [f \in Files |-> IF \E i \in 1..Len(ids) : ids[i] = f /\ Reached(w, ids, i + 1)
                   THEN lockedOf[f] \cup {w} ELSE lockedOf[f]]

UnlockFiles(w, ids) ==
  [f \in Files |-> IF \E i \in 1..Len(ids) : ids[i] = f
                   THEN lockedOf[f] \ {w} ELSE lockedOf[f]]

\* A handler between the two writes of NotifyFilePut, or about to write.
Writing(h) == job[h].pc \in {"notify", "insert", "lock"}
Contended(h) == \E g \in Handlers \ {h} : Writing(g)

\* A call of NotifyFilePut for file f, and where the handler goes on.
Notifying(j, f, lock, next) ==
  [j EXCEPT !.pc = "notify", !.id = f, !.lock = lock, !.next = next]

\* The entry is emptied if there is one, and made if there is none.
NotifyReset(h) ==
  LET f == job[h].id IN
  /\ At(h, "notify")
  /\ known' = known \cup {f}
  /\ workersOf' = [workersOf EXCEPT ![f] = {}]
  /\ lockedOf' = [lockedOf EXCEPT ![f] = {}]
  /\ Goes(h, "insert")
  /\ UNCHANGED <<nodes, stored, collided, acked, lives>>

Inserted_Locked(f, w, lock) ==                                 \* mutant
  IF lock THEN workersOf[f] \cup {w} ELSE workersOf[f]
Inserted(f, w, lock) == workersOf[f] \cup {w}

NotifyInsert(h) ==
  LET f == job[h].id  w == job[h].worker  lock == job[h].lock IN
  /\ At(h, "insert")
  /\ \/ /\ workersOf' = [workersOf EXCEPT ![f] = Inserted(f, w, lock)]
        /\ lockedOf' = [lockedOf EXCEPT ![f] = IF lock THEN @ \cup {w} ELSE @]
        /\ known' = known \cup {f} /\ UNCHANGED collided
     \/ /\ Contended(h)
        /\ \E kept \in {known, known \ {f}} :
             /\ known' = kept
             /\ workersOf' = [workersOf EXCEPT ![f] = IF f \in kept THEN @ ELSE {}]
             /\ lockedOf' = [lockedOf EXCEPT ![f] = IF f \in kept THEN @ ELSE {}]
        /\ collided' = TRUE
  /\ Goes(h, job[h].next)
  /\ UNCHANGED <<nodes, stored, acked, lives>>

-----------------------------------------------------------------------------
(* Answers to the client. *)

\* A return that leaves the table alone.
Answers(h, status) == Goes(h, status) /\ UNCHANGED table

\* A return after UnlockFiles.
GivesUp(h) ==
  /\ lockedOf' = UnlockFiles(job[h].worker, Request[h])
  /\ Goes(h, "failed") /\ UNCHANGED <<known, workersOf>>

Rest(h) == UNCHANGED <<nodes, stored, collided, acked, lives>>

-----------------------------------------------------------------------------
(* Render. *)

\* Pick a worker, and see that every file is known.
RenderBegins(h) ==
  /\ Kind[h] = "Render" /\ At(h, "idle")
  /\ \/ GetEmptyWorker = {} /\ Answers(h, "failed")
     \/ \E w \in GetEmptyWorker :
          /\ job' = [job EXCEPT ![h].worker = w,
                                ![h].pc = IF \A f \in Ids(h) : IsFileAlive(f)
                                          THEN "list" ELSE "failed"]
          /\ UNCHANGED table
  /\ Rest(h)

\* Where the loop over the missing files goes next.
AfterTransfers_Always(todo) == "source"                        \* mutant
AfterTransfers(todo) == IF todo = <<>> THEN "lock" ELSE "source"

\* A file that a lost write has taken out of the table fails a CHECK.
Checked(ids) == \A f \in ids : f \in known

RenderLists(h) ==
  LET missing == ListMissingFiles(job[h].worker, Request[h]) IN
  /\ At(h, "list") /\ Checked(Ids(h))
  /\ job' = [job EXCEPT ![h].todo = missing, ![h].pc = AfterTransfers(missing)]
  /\ UNCHANGED table /\ Rest(h)

\* GetWorkerWithFile: any of the workers listed.
RenderFindsSource(h) ==
  LET j == job[h] IN
  /\ At(h, "source") /\ Head(j.todo) \in known
  /\ \E src \in workersOf[Head(j.todo)] :
       job' = [job EXCEPT ![h].pc = "transfer", ![h].src = src]
  /\ UNCHANGED table /\ Rest(h)

\* The file has arrived at the handler's worker.
Transferred_Again(h) ==                                        \* mutant
  LET j == job[h] IN
  job' = [job EXCEPT ![h] = Notifying(j, Head(j.todo), TRUE, AfterTransfers(j.todo))]
Transferred(h) ==
  LET j == job[h]  later == Tail(j.todo) IN
  job' = [job EXCEPT ![h] = [Notifying(j, Head(j.todo), TRUE, AfterTransfers(later))
                             EXCEPT !.todo = later]]

\* Transfer: the worker gets the file from the source and stores it; it may
\* fail before or after that.
RenderTransfers(h) ==
  LET j == job[h]  f == Head(j.todo) IN
  /\ At(h, "transfer")
  /\ \/ /\ f \in stored[j.src]
        /\ stored' = [stored EXCEPT ![j.worker] = @ \cup {f}]
        /\ Transferred(h) /\ UNCHANGED table
     \/ /\ Checked(Ids(h)) /\ GivesUp(h)
        /\ \E kept \in SUBSET ({f} \cap stored[j.src]) :
             stored' = [stored EXCEPT ![j.worker] = @ \cup kept]
  /\ UNCHANGED <<nodes, collided, acked, lives>>

\* LockFiles meets a file that is not in the table.
LockAborts(h) ==
  \E i \in 1..Len(Request[h]) :
    Reached(job[h].worker, Request[h], i) /\ Request[h][i] \notin known

\* The result of LockFiles is not looked at.
RenderLocks(h) ==
  /\ At(h, "lock") /\ ~LockAborts(h)
  /\ lockedOf' = LockFiles(job[h].worker, Request[h])
  /\ Goes(h, "run") /\ UNCHANGED <<known, workersOf>> /\ Rest(h)

\* Run: the worker renders, stores the image and answers with its id; again
\* the failure may come after that.
RenderRuns(h) ==
  LET j == job[h] IN
  /\ At(h, "run")
  /\ \/ \E r \in Results :
          /\ stored' = [stored EXCEPT ![j.worker] = @ \cup {r}]
          /\ job' = [job EXCEPT ![h] = Notifying(j, r, FALSE, "get")]
          /\ UNCHANGED table
     \/ /\ Checked(Ids(h)) /\ GivesUp(h)
        /\ \/ UNCHANGED stored
           \/ \E r \in Results : stored' = [stored EXCEPT ![j.worker] = @ \cup {r}]
  /\ UNCHANGED <<nodes, collided, acked, lives>>

\* Get: the image goes to the client.  Nothing is unlocked.
RenderEnds(h) ==
  /\ At(h, "get")
  /\ \/ job[h].id \in stored[job[h].worker] /\ Answers(h, "ok")
     \/ Checked(Ids(h)) /\ GivesUp(h)
  /\ Rest(h)

-----------------------------------------------------------------------------
(* UploadDirect. *)

UploadBegins(h) ==
  /\ Kind[h] = "UploadDirect" /\ At(h, "idle")
  /\ \/ GetEmptyWorker = {} /\ Answers(h, "failed")
     \/ \E w \in GetEmptyWorker :
          job' = [job EXCEPT ![h].worker = w, ![h].pc = "put"] /\ UNCHANGED table
  /\ Rest(h)

\* Put at the worker; its failure may come after the file was stored.
UploadPuts(h) ==
  LET f == Request[h][1]  w == job[h].worker IN
  /\ At(h, "put") /\ UNCHANGED table
  /\ \/ /\ stored' = [stored EXCEPT ![w] = @ \cup {f}]
        /\ job' = [job EXCEPT ![h] = Notifying(job[h], f, FALSE, "confirm")]
     \/ /\ \E kept \in {{}, {f}} : stored' = [stored EXCEPT ![w] = @ \cup kept]
        /\ Goes(h, "failed")
  /\ UNCHANGED <<nodes, collided, acked, lives>>

UploadEnds(h) ==
  /\ At(h, "confirm")
  /\ acked' = acked \cup {job[h].id}
  /\ Answers(h, "ok") /\ UNCHANGED <<nodes, stored, collided, lives>>

-----------------------------------------------------------------------------
(* The end of the master's process, and its next life: empty tables.  The    *)
(* clients it was serving see their calls fail.                              *)

Dies ==
  /\ known' = {} /\ workersOf' = Nothing /\ lockedOf' = Nothing
  /\ job' = [h \in Handlers |->
               IF job[h].pc \in {"idle", "ok"} THEN job[h] ELSE [job[h] EXCEPT !.pc = "failed"]]
  /\ collided' = FALSE /\ acked' = {}
  /\ UNCHANGED <<nodes, stored>>

\* The handler's next call fails a CHECK - UnlockFiles after a transfer, run or get
\* that failed has one too - or takes the first of no workers.
Aborts(h) ==
  \/ job[h].pc \in {"list", "transfer", "run", "get"} /\ ~Checked(Ids(h))
  \/ At(h, "source") /\ workersOf[Head(job[h].todo)] = {}
  \/ At(h, "lock") /\ LockAborts(h)

Abort(h) == Aborts(h) /\ Dies /\ UNCHANGED lives

\* Killed, or crashed by two threads in the table.
MasterExit == lives > 0 /\ lives' = lives - 1 /\ Dies

-----------------------------------------------------------------------------
Serve(h) ==
  \/ RenderBegins(h) \/ RenderLists(h) \/ RenderFindsSource(h)
  \/ RenderTransfers(h) \/ NotifyReset(h) \/ NotifyInsert(h)
  \/ RenderLocks(h) \/ RenderRuns(h) \/ RenderEnds(h)
  \/ UploadBegins(h) \/ UploadPuts(h) \/ UploadEnds(h)

Next == MasterExit \/ \E h \in Handlers : Serve(h) \/ Abort(h)

Spec == Init /\ [][Next]_vars

\* Threads run; a worker answers, or its connection breaks.
Fairness == \A h \in Handlers : WF_vars(Serve(h) \/ Abort(h))
FairSpec == Spec /\ Fairness

-----------------------------------------------------------------------------
(* Properties. *)

Steps == {"idle", "list", "source", "transfer", "notify", "insert", "lock", "run",
          "get", "put", "confirm", "ok", "failed"}

\* The table and the handlers' variables have their types; a file that is not
\* in the table has no workers and no locks, and the loop over the missing files
\* has one to look at.
TypeOK ==
  /\ nodes \subseteq Workers /\ known \subseteq Files
  /\ workersOf \in [Files -> SUBSET Workers] /\ lockedOf \in [Files -> SUBSET Workers]
  /\ \A f \in Files \ known : workersOf[f] = {} /\ lockedOf[f] = {}
  /\ job \in [Handlers -> [pc : Steps, worker : Workers \cup {NoWorker},
                          src : Workers \cup {NoWorker}, todo : Seq(Files),
                          id : Files \cup {NoWorker}, lock : BOOLEAN, next : Steps]]
  /\ \A h \in Handlers : job[h].pc \in {"source", "transfer"} => job[h].todo # <<>>
  /\ stored \in [Workers -> SUBSET Files]
  /\ collided \in BOOLEAN /\ acked \subseteq Files /\ lives \in 0..MaxLives

\* A worker is told to render only when it has stored every file the render
\* names (master.cc:76-113), although the table that says so is written by
\* other threads meanwhile, entries are reset, writes are lost, and the master
\* may have started again since.
RunSupplied ==
  \A h \in Handlers : At(h, "run") => Ids(h) \subseteq stored[job[h].worker]

\* A file whose upload was confirmed can be found: until two writes collide,
\* the table lists a worker that has stored it, except between the two writes of
\* NotifyFilePut for the same file (master_file_manager.cc:10-18), where a
\* transfer that looks for a source brings the master down.
UploadFindable ==
  ~collided => \A f \in acked :
    \/ \E w \in workersOf[f] : f \in stored[w]
    \/ \E h \in Handlers : At(h, "insert") /\ job[h].id = f

\* Every request is answered, one way or the other, whatever the transfers do
\* and whoever resets the entries they work from.
RequestsEnd == \A h \in Handlers : <>[](job[h].pc \in {"ok", "failed"})
=============================================================================
