-------------------------- MODULE RenderMasterProofs --------------------------
(***************************************************************************)
(* Proofs about RenderMaster, for any workers, files and requests: the     *)
(* tables keep their types, a worker is told to render only when it has    *)
(* every file, and a confirmed upload can be found until two writes of the *)
(* unlocked table collide.                                                 *)
(***************************************************************************)
EXTENDS RenderMaster, ListProofs

JobType ==
  [pc : Steps, worker : Workers \cup {NoWorker}, src : Workers \cup {NoWorker},
   todo : Seq(Files), id : Files \cup {NoWorker}, lock : BOOLEAN, next : Steps]

\* What the worker of a handler in state j has not stored is still to be
\* transferred; s is what the workers have stored.
Brings(h, j, s) == Ids(h) \subseteq s[j.worker] \cup ToSet(j.todo)

\* The local variables of handler h agree with where it is.
Good(h, j, s) ==
  /\ j.pc \notin {"idle", "ok", "failed"} => j.worker \in Workers
  /\ j.pc = "put" => Kind[h] = "UploadDirect"
  /\ j.pc = "transfer" => j.src \in Workers
  /\ j.pc \in {"source", "transfer"} => j.todo # <<>> /\ Brings(h, j, s)
  /\ j.pc \in {"lock", "run"} => Ids(h) \subseteq s[j.worker]
  /\ j.pc \in {"notify", "insert"} =>
       /\ j.id \in s[j.worker]
       /\ j.next \in {"source", "lock", "get", "confirm"}
       /\ j.next = "source" => j.todo # <<>> /\ Brings(h, j, s)
       /\ j.next = "lock" => Ids(h) \subseteq s[j.worker]
  /\ j.pc \in {"get", "confirm"} => j.id \in Files

\* A worker the table lists for a file has stored it.
TableTrue == \A f \in Files : \A w \in workersOf[f] : f \in stored[w]

\* Until two writes collide, a known file is listed somewhere or about to be.
Listed ==
  ~collided =>
    /\ acked \subseteq known
    /\ \A f \in known : workersOf[f] # {} \/ \E h \in Handlers : At(h, "insert") /\ job[h].id = f
    /\ \A h \in Handlers : job[h].pc \in {"insert", "confirm"} => job[h].id \in known

RInv ==
  /\ TypeOK /\ TableTrue /\ Listed
  /\ \A h \in Handlers : Good(h, job[h], stored)

-----------------------------------------------------------------------------
(* Lists. *)

LEMMA HeadAndTail ==
  ASSUME NEW q \in Seq(Files), q # <<>>
  PROVE  /\ Head(q) \in Files /\ Tail(q) \in Seq(Files)
         /\ ToSet(q) = {Head(q)} \cup ToSet(Tail(q))
<1>1. /\ Len(q) \in Nat \ {0} /\ DOMAIN q = 1..Len(q) /\ Head(q) = q[1]
      /\ \A i \in 1..Len(q) : q[i] \in Files
  BY EmptySeq, LenProperties, ElementOfSeq, HeadTailProperties
<1>2. /\ Tail(q) \in Seq(Files) /\ Len(Tail(q)) = Len(q) - 1
      /\ \A i \in 1..Len(Tail(q)) : Tail(q)[i] = q[i + 1]
  BY HeadTailProperties
<1>3. DOMAIN Tail(q) = 1..(Len(q) - 1)
  BY <1>2, LenProperties
<1>4. ASSUME NEW i \in 1..Len(q) PROVE q[i] \in {Head(q)} \cup ToSet(Tail(q))
  <2>1. CASE i = 1
    BY <1>1, <2>1
  <2>2. CASE i # 1
    <3>1. i - 1 \in 1..(Len(q) - 1) /\ Tail(q)[i - 1] = q[(i - 1) + 1] /\ (i - 1) + 1 = i
      BY <1>1, <1>2, <2>2
    <3> QED
      BY <1>3, <3>1 DEF ToSet
  <2> QED
    BY <2>1, <2>2
<1>5. ASSUME NEW i \in 1..(Len(q) - 1) PROVE Tail(q)[i] \in ToSet(q)
  <2>1. i + 1 \in DOMAIN q /\ Tail(q)[i] = q[i + 1]
    BY <1>1, <1>2
  <2> QED
    BY <2>1 DEF ToSet
<1> QED
  BY <1>1, <1>2, <1>3, <1>4, <1>5 DEF ToSet

\* The files a handler names, as the set of its request.
LEMMA IdsOfRequest ==
  ASSUME NEW h \in Handlers
  PROVE  /\ Request[h] \in Seq(Files) /\ Ids(h) = ToSet(Request[h]) /\ Ids(h) \subseteq Files
         /\ \A i \in 1..Len(Request[h]) : Request[h][i] \in Files
<1>1. Request[h] \in Seq(Files)
  BY RequestsKnown
<1> QED
  BY <1>1, LenProperties, ElementOfSeq DEF Ids, ToSet

\* The files ListMissingFiles does not return are on the worker.
LEMMA MissingFiles ==
  ASSUME TypeOK, TableTrue, NEW h \in Handlers, NEW w \in Workers
  PROVE  /\ ListMissingFiles(w, Request[h]) \in Seq(Files)
         /\ Ids(h) \subseteq stored[w] \cup ToSet(ListMissingFiles(w, Request[h]))
<1> DEFINE absent == {f \in Files : w \notin workersOf[f]}
           missing == Filter(Request[h], absent)
<1>1. /\ Request[h] \in Seq(Files) /\ Ids(h) = ToSet(Request[h]) /\ Ids(h) \subseteq Files
  BY IdsOfRequest
<1>2. missing \in Seq(Files) /\ ToSet(missing) = ToSet(Request[h]) \cap absent
  BY <1>1, FilterProperties
<1>3. \A f \in Files : f \notin absent => f \in stored[w]
  BY DEF TableTrue
<1>4. ListMissingFiles(w, Request[h]) = missing
  BY DEF ListMissingFiles
<1> HIDE DEF missing, absent
<1> QED
  BY <1>1, <1>2, <1>3, <1>4

-----------------------------------------------------------------------------
(* Steps. *)

\* What a handler relies on stays true as the workers store more.
LEMMA GoodGrows ==
  ASSUME NEW h \in Handlers, NEW j \in JobType, NEW s, NEW t,
         \A w \in Workers : s[w] \subseteq t[w], Good(h, j, s)
  PROVE  Good(h, j, t)
BY DEF Good, Brings, JobType

\* A step of one handler that writes neither known nor the workers of a file.
LEMMA LocalStep ==
  ASSUME RInv, NEW h \in Handlers, NEW j \in JobType,
         job' = [job EXCEPT ![h] = j],
         job[h].pc # "insert", j.pc \notin {"insert", "confirm"},
         UNCHANGED <<nodes, known, workersOf, collided, acked, lives>>,
         lockedOf' \in [Files -> SUBSET Workers],
         \A f \in Files \ known : lockedOf'[f] = {},
         stored' \in [Workers -> SUBSET Files],
         \A w \in Workers : stored[w] \subseteq stored'[w],
         Good(h, j, stored')
  PROVE  RInv'
<1>1. /\ job \in [Handlers -> JobType] /\ job' \in [Handlers -> JobType] /\ job'[h] = j
      /\ \A g \in Handlers \ {h} : job'[g] = job[g]
  BY DEF RInv, TypeOK, JobType
<1>2. \A g \in Handlers : Good(g, job'[g], stored')
  <2> TAKE g \in Handlers
  <2>1. CASE g = h
    BY <1>1, <2>1
  <2>2. CASE g # h
    BY <1>1, <2>2, GoodGrows DEF RInv
  <2> QED
    BY <2>1, <2>2
<1>3. TypeOK'
  <2>1. \A g \in Handlers : job'[g].pc \in {"source", "transfer"} => job'[g].todo # <<>>
    BY <1>2 DEF Good
  <2> QED
    BY <1>1, <2>1 DEF RInv, TypeOK, JobType
<1>4. TableTrue'
  BY DEF RInv, TypeOK, TableTrue
<1>5. Listed'
  BY <1>1 DEF RInv, Listed, At
<1> QED
  BY <1>2, <1>3, <1>4, <1>5 DEF RInv

\* UnlockFiles and LockFiles keep the locks within the files that are known.
LEMMA LocksTyped ==
  ASSUME TypeOK, NEW h \in Handlers, NEW w \in Workers
  PROVE  /\ UnlockFiles(w, Request[h]) \in [Files -> SUBSET Workers]
         /\ \A f \in Files \ known : UnlockFiles(w, Request[h])[f] = {}
         /\ LockFiles(w, Request[h]) \in [Files -> SUBSET Workers]
         /\ \A f \in Files \ known : LockFiles(w, Request[h])[f] = {}
<1>1. /\ lockedOf \in [Files -> SUBSET Workers]
      /\ \A f \in Files \ known : lockedOf[f] = {} /\ workersOf[f] = {}
  BY DEF TypeOK
<1>2. \A i \in 1..Len(Request[h]) :
        Reached(w, Request[h], i + 1) => w \in workersOf[Request[h][i]]
  <2>1. Len(Request[h]) \in Nat
    BY IdsOfRequest, LenProperties
  <2> QED
    BY <2>1 DEF Reached
<1>3. \A f \in Files \ known : LockFiles(w, Request[h])[f] = {}
  BY <1>1, <1>2 DEF LockFiles
<1> QED
  BY <1>1, <1>3 DEF UnlockFiles, LockFiles

\* A handler that answers leaves the table with locks that it may.
LEMMA AnswerStep ==
  ASSUME RInv, NEW h \in Handlers, job[h].pc \notin {"insert", "idle", "ok", "failed"},
         Answers(h, "ok") \/ Answers(h, "failed") \/ GivesUp(h),
         UNCHANGED <<nodes, collided, acked, lives>>,
         stored' \in [Workers -> SUBSET Files],
         \A w \in Workers : stored[w] \subseteq stored'[w]
  PROVE  RInv'
<1>1. job \in [Handlers -> JobType] /\ job[h] \in JobType /\ job[h].worker \in Workers
  BY DEF RInv, TypeOK, JobType, Good
<1>2. /\ lockedOf' \in [Files -> SUBSET Workers]
      /\ \A f \in Files \ known : lockedOf'[f] = {}
      /\ UNCHANGED <<known, workersOf>>
  <2>1. TypeOK
    BY DEF RInv
  <2>2. /\ UnlockFiles(job[h].worker, Request[h]) \in [Files -> SUBSET Workers]
        /\ \A f \in Files \ known : UnlockFiles(job[h].worker, Request[h])[f] = {}
    BY <1>1, <2>1, LocksTyped
  <2>3. CASE GivesUp(h)
    BY <2>2, <2>3 DEF GivesUp
  <2>4. CASE Answers(h, "ok") \/ Answers(h, "failed")
    BY <2>1, <2>4 DEF Answers, table, TypeOK
  <2> QED
    BY <2>3, <2>4
<1>3. PICK status \in {"ok", "failed"} : job' = [job EXCEPT ![h] = [job[h] EXCEPT !.pc = status]]
  BY DEF Answers, GivesUp, Goes
<1> DEFINE j == [job[h] EXCEPT !.pc = status]
<1>4. j \in JobType /\ j.pc = status
  BY <1>1 DEF JobType, Steps
<1>5. Good(h, j, stored')
  BY <1>4 DEF Good
<1>6. job' = [job EXCEPT ![h] = j]
  BY <1>3
<1> HIDE DEF j
<1> QED
  BY <1>2, <1>4, <1>5, <1>6, LocalStep

LEMMA RenderBeginsStep ==
  ASSUME RInv, NEW h \in Handlers, RenderBegins(h)
  PROVE  RInv'
<1>1. job \in [Handlers -> JobType] /\ job[h] \in JobType /\ job[h].pc = "idle"
  BY DEF RInv, TypeOK, JobType, RenderBegins, At
<1>2. PICK pc \in {"failed", "list"}, w \in Workers \cup {NoWorker} :
        /\ job' = [job EXCEPT ![h] = [job[h] EXCEPT !.pc = pc, !.worker = w]]
        /\ pc = "list" => w \in Workers
  <2>1. CASE Answers(h, "failed")
    <3>1. /\ job' = [job EXCEPT ![h] = [job[h] EXCEPT !.pc = "failed", !.worker = job[h].worker]]
          /\ job[h].worker \in Workers \cup {NoWorker}
      BY <1>1, <2>1 DEF Answers, Goes, JobType
    <3> QED
      BY <3>1
  <2>2. ASSUME NEW w \in GetEmptyWorker,
               job' = [job EXCEPT ![h].worker = w,
                                  ![h].pc = IF \A f \in Ids(h) : IsFileAlive(f)
                                            THEN "list" ELSE "failed"]
        PROVE  \E pc \in {"failed", "list"} :
                 /\ job' = [job EXCEPT ![h] = [job[h] EXCEPT !.pc = pc, !.worker = w]]
                 /\ w \in Workers
    <3>1. w \in Workers
      BY DEF GetEmptyWorker, RInv, TypeOK
    <3>2. PICK pc \in {"failed", "list"} : pc = IF \A f \in Ids(h) : IsFileAlive(f)
                                               THEN "list" ELSE "failed"
      OBVIOUS
    <3>3. job' = [job EXCEPT ![h] = [job[h] EXCEPT !.pc = pc, !.worker = w]]
      BY <1>1, <2>2, <3>2 DEF JobType
    <3> QED
      BY <3>1, <3>3
  <2> QED
    BY <2>1, <2>2 DEF RenderBegins
<1> DEFINE j == [job[h] EXCEPT !.pc = pc, !.worker = w]
<1>3. j \in JobType /\ j.pc = pc /\ j.worker = w
  BY <1>1 DEF JobType, Steps
<1>4. Good(h, j, stored')
  BY <1>2, <1>3 DEF Good
<1>5. UNCHANGED <<nodes, known, workersOf, lockedOf, stored, collided, acked, lives>>
  BY DEF RenderBegins, Answers, table, Rest
<1>6. /\ lockedOf' \in [Files -> SUBSET Workers] /\ \A f \in Files \ known : lockedOf'[f] = {}
      /\ stored' \in [Workers -> SUBSET Files] /\ \A u \in Workers : stored[u] \subseteq stored'[u]
  BY <1>5 DEF RInv, TypeOK
<1>7. job' = [job EXCEPT ![h] = j]
  BY <1>2
<1> HIDE DEF j
<1> QED
  BY <1>1, <1>3, <1>4, <1>5, <1>6, <1>7, LocalStep

LEMMA RenderListsStep ==
  ASSUME RInv, NEW h \in Handlers, RenderLists(h)
  PROVE  RInv'
<1> DEFINE missing == ListMissingFiles(job[h].worker, Request[h])
           j == [job[h] EXCEPT !.todo = missing, !.pc = AfterTransfers(missing)]
<1>1. /\ job \in [Handlers -> JobType] /\ job[h] \in JobType /\ job[h].pc = "list"
      /\ job[h].worker \in Workers
  BY DEF RInv, TypeOK, JobType, RenderLists, At, Good
<1>2. /\ missing \in Seq(Files)
      /\ Ids(h) \subseteq stored[job[h].worker] \cup ToSet(missing)
  BY <1>1, MissingFiles DEF RInv
<1>3. /\ job' = [job EXCEPT ![h] = j]
      /\ UNCHANGED <<nodes, known, workersOf, lockedOf, stored, collided, acked, lives>>
  BY <1>1 DEF RenderLists, table, Rest, JobType
<1> HIDE DEF missing
<1>4. /\ j \in JobType /\ j.worker = job[h].worker /\ j.todo = missing
      /\ j.pc = IF missing = <<>> THEN "lock" ELSE "source"
  BY <1>1, <1>2 DEF JobType, Steps, AfterTransfers
<1>5. missing = <<>> => ToSet(missing) = {}
  BY DEF ToSet
<1> HIDE DEF j
<1>6. Good(h, j, stored)
  BY <1>1, <1>2, <1>4, <1>5 DEF Good, Brings
<1>7. /\ lockedOf' \in [Files -> SUBSET Workers] /\ \A f \in Files \ known : lockedOf'[f] = {}
      /\ stored' \in [Workers -> SUBSET Files] /\ \A u \in Workers : stored[u] \subseteq stored'[u]
  BY <1>3 DEF RInv, TypeOK
<1> QED
  BY <1>1, <1>3, <1>4, <1>6, <1>7, LocalStep

LEMMA RenderFindsSourceStep ==
  ASSUME RInv, NEW h \in Handlers, RenderFindsSource(h)
  PROVE  RInv'
<1>1. /\ job \in [Handlers -> JobType] /\ job[h] \in JobType /\ job[h].pc = "source"
      /\ job[h].worker \in Workers /\ job[h].todo # <<>> /\ Brings(h, job[h], stored)
  BY DEF RInv, TypeOK, JobType, RenderFindsSource, At, Good
<1>2. PICK src \in Workers : job' = [job EXCEPT ![h] = [job[h] EXCEPT !.pc = "transfer", !.src = src]]
  <2>1. Head(job[h].todo) \in Files
    BY <1>1, HeadAndTail DEF JobType
  <2>2. workersOf[Head(job[h].todo)] \subseteq Workers
    BY <2>1 DEF RInv, TypeOK
  <2> QED
    BY <1>1, <2>2 DEF RenderFindsSource
<1> DEFINE j == [job[h] EXCEPT !.pc = "transfer", !.src = src]
<1>3. /\ j \in JobType /\ j.pc = "transfer" /\ j.src = src
      /\ j.worker = job[h].worker /\ j.todo = job[h].todo
  BY <1>1 DEF JobType, Steps
<1>4. job' = [job EXCEPT ![h] = j]
  BY <1>2
<1> HIDE DEF j
<1>5. UNCHANGED <<nodes, known, workersOf, lockedOf, stored, collided, acked, lives>>
  BY DEF RenderFindsSource, table, Rest
<1>6. Good(h, j, stored')
  BY <1>1, <1>3, <1>5 DEF Good, Brings
<1>7. /\ lockedOf' \in [Files -> SUBSET Workers] /\ \A f \in Files \ known : lockedOf'[f] = {}
      /\ stored' \in [Workers -> SUBSET Files] /\ \A u \in Workers : stored[u] \subseteq stored'[u]
  BY <1>5 DEF RInv, TypeOK
<1> QED
  BY <1>1, <1>3, <1>4, <1>5, <1>6, <1>7, LocalStep

LEMMA RenderTransfersStep ==
  ASSUME RInv, NEW h \in Handlers, RenderTransfers(h)
  PROVE  RInv'
<1> DEFINE f == Head(job[h].todo)
           w == job[h].worker
<1>1. /\ job \in [Handlers -> JobType] /\ job[h] \in JobType /\ job[h].pc = "transfer"
      /\ w \in Workers /\ job[h].src \in Workers
      /\ job[h].todo # <<>> /\ Brings(h, job[h], stored)
  BY DEF RInv, TypeOK, JobType, RenderTransfers, At, Good
<1>2. /\ f \in Files /\ Tail(job[h].todo) \in Seq(Files)
      /\ ToSet(job[h].todo) = {f} \cup ToSet(Tail(job[h].todo))
  BY <1>1, HeadAndTail DEF JobType
<1>3. stored \in [Workers -> SUBSET Files]
  BY DEF RInv, TypeOK
<1>4. UNCHANGED <<nodes, collided, acked, lives>>
  BY DEF RenderTransfers
<1>5. CASE \E kept \in SUBSET ({f} \cap stored[job[h].src]) :
             GivesUp(h) /\ stored' = [stored EXCEPT ![w] = @ \cup kept]
  <2>1. /\ stored' \in [Workers -> SUBSET Files]
        /\ \A u \in Workers : stored[u] \subseteq stored'[u]
    BY <1>1, <1>2, <1>3, <1>5
  <2> QED
    BY <1>1, <1>4, <1>5, <2>1, AnswerStep
<1>6. CASE /\ stored' = [stored EXCEPT ![w] = @ \cup {f}]
           /\ Transferred(h) /\ UNCHANGED table
  <2> DEFINE later == Tail(job[h].todo)
             j == [Notifying(job[h], f, TRUE, AfterTransfers(later)) EXCEPT !.todo = later]
  <2>1. job' = [job EXCEPT ![h] = j]
    BY <1>6 DEF Transferred
  <2>2. /\ j \in JobType /\ j.pc = "notify" /\ j.worker = w /\ j.id = f /\ j.todo = later
        /\ j.next = IF later = <<>> THEN "lock" ELSE "source"
    BY <1>1, <1>2 DEF JobType, Steps, Notifying, AfterTransfers
  <2>3. /\ stored' \in [Workers -> SUBSET Files] /\ f \in stored'[w]
        /\ \A u \in Workers : stored[u] \subseteq stored'[u]
    BY <1>1, <1>2, <1>3, <1>6
  <2>4. Ids(h) \subseteq stored'[w] \cup ToSet(later)
    BY <1>1, <1>2, <2>3 DEF Brings
  <2>5. later = <<>> => ToSet(later) = {}
    BY DEF ToSet
  <2> HIDE DEF j, later
  <2>6. Good(h, j, stored')
    BY <1>1, <2>2, <2>3, <2>4, <2>5 DEF Good, Brings
  <2>7. /\ lockedOf' \in [Files -> SUBSET Workers] /\ UNCHANGED <<known, workersOf>>
        /\ \A g \in Files \ known : lockedOf'[g] = {}
    BY <1>6 DEF RInv, TypeOK, table
  <2> QED
    BY <1>1, <1>4, <2>1, <2>2, <2>3, <2>6, <2>7, LocalStep
<1> QED
  BY <1>5, <1>6 DEF RenderTransfers

LEMMA RenderLocksStep ==
  ASSUME RInv, NEW h \in Handlers, RenderLocks(h)
  PROVE  RInv'
<1> DEFINE j == [job[h] EXCEPT !.pc = "run"]
<1>1. /\ job \in [Handlers -> JobType] /\ job[h] \in JobType /\ job[h].pc = "lock"
      /\ job[h].worker \in Workers /\ Ids(h) \subseteq stored[job[h].worker] /\ TypeOK
  BY DEF RInv, TypeOK, JobType, RenderLocks, At, Good
<1>2. /\ lockedOf' \in [Files -> SUBSET Workers] /\ \A f \in Files \ known : lockedOf'[f] = {}
      /\ UNCHANGED <<nodes, known, workersOf, stored, collided, acked, lives>>
  BY <1>1, LocksTyped DEF RenderLocks, Rest
<1>3. j \in JobType /\ j.pc = "run" /\ j.worker = job[h].worker
  BY <1>1 DEF JobType, Steps
<1>4. job' = [job EXCEPT ![h] = j]
  BY DEF RenderLocks, Goes
<1> HIDE DEF j
<1>5. Good(h, j, stored')
  BY <1>1, <1>2, <1>3 DEF Good
<1>6. stored' \in [Workers -> SUBSET Files] /\ \A u \in Workers : stored[u] \subseteq stored'[u]
  BY <1>1, <1>2 DEF TypeOK
<1> QED
  BY <1>1, <1>2, <1>3, <1>4, <1>5, <1>6, LocalStep

\* Run and Put: the worker of h stores f, and the master is about to note it.
LEMMA StoredStep ==
  ASSUME RInv, NEW h \in Handlers, NEW f \in Files, NEW next \in {"get", "confirm"},
         job[h].pc \in {"run", "put"},
         stored' = [stored EXCEPT ![job[h].worker] = @ \cup {f}],
         job' = [job EXCEPT ![h] = Notifying(job[h], f, FALSE, next)],
         UNCHANGED <<nodes, table, collided, acked, lives>>
  PROVE  RInv'
<1> DEFINE j == Notifying(job[h], f, FALSE, next)
<1>1. /\ job \in [Handlers -> JobType] /\ job[h] \in JobType /\ job[h].worker \in Workers
      /\ stored \in [Workers -> SUBSET Files]
  BY DEF RInv, TypeOK, JobType, Good
<1>2. /\ j \in JobType /\ j.pc = "notify" /\ j.worker = job[h].worker /\ j.id = f
      /\ j.next = next
  BY <1>1 DEF JobType, Steps, Notifying
<1>3. /\ stored' \in [Workers -> SUBSET Files] /\ f \in stored'[job[h].worker]
      /\ \A u \in Workers : stored[u] \subseteq stored'[u]
  BY <1>1
<1>4. job' = [job EXCEPT ![h] = j]
  OBVIOUS
<1>5. /\ lockedOf' \in [Files -> SUBSET Workers] /\ \A g \in Files \ known : lockedOf'[g] = {}
      /\ UNCHANGED <<known, workersOf>>
  BY DEF RInv, TypeOK, table
<1> HIDE DEF j
<1>6. Good(h, j, stored')
  BY <1>1, <1>2, <1>3 DEF Good
<1> QED
  BY <1>1, <1>2, <1>3, <1>4, <1>5, <1>6, LocalStep

LEMMA RenderRunsStep ==
  ASSUME RInv, NEW h \in Handlers, RenderRuns(h)
  PROVE  RInv'
<1>1. /\ job[h].pc = "run" /\ job[h].worker \in Workers /\ stored \in [Workers -> SUBSET Files]
      /\ UNCHANGED <<nodes, collided, acked, lives>> /\ Results \subseteq Files
  BY ResultsAreFiles DEF RInv, TypeOK, JobType, RenderRuns, At, Good
<1>2. ASSUME NEW r \in Results,
             stored' = [stored EXCEPT ![job[h].worker] = @ \cup {r}],
             job' = [job EXCEPT ![h] = Notifying(job[h], r, FALSE, "get")],
             UNCHANGED table
      PROVE  RInv'
  BY <1>1, <1>2, StoredStep
<1>3. ASSUME GivesUp(h),
             \/ UNCHANGED stored
             \/ \E r \in Results : stored' = [stored EXCEPT ![job[h].worker] = @ \cup {r}]
      PROVE  RInv'
  <2>1. /\ stored' \in [Workers -> SUBSET Files]
        /\ \A u \in Workers : stored[u] \subseteq stored'[u]
    BY <1>1, <1>3
  <2> QED
    BY <1>1, <1>3, <2>1, AnswerStep
<1> QED
  BY <1>2, <1>3 DEF RenderRuns

LEMMA RenderEndsStep ==
  ASSUME RInv, NEW h \in Handlers, RenderEnds(h)
  PROVE  RInv'
<1>1. job[h].pc = "get" /\ stored \in [Workers -> SUBSET Files]
  BY DEF RInv, TypeOK, RenderEnds, At
<1>2. UNCHANGED <<nodes, stored, collided, acked, lives>>
  BY DEF RenderEnds, Rest
<1>3. Answers(h, "ok") \/ GivesUp(h)
  BY DEF RenderEnds
<1> QED
  BY <1>1, <1>2, <1>3, AnswerStep

LEMMA UploadBeginsStep ==
  ASSUME RInv, NEW h \in Handlers, UploadBegins(h)
  PROVE  RInv'
<1>1. /\ job \in [Handlers -> JobType] /\ job[h] \in JobType /\ job[h].pc = "idle"
      /\ Kind[h] = "UploadDirect"
      /\ UNCHANGED <<nodes, known, workersOf, lockedOf, stored, collided, acked, lives>>
  BY DEF RInv, TypeOK, JobType, UploadBegins, At, Answers, table, Rest
<1>2. PICK pc \in {"failed", "put"}, w \in Workers \cup {NoWorker} :
        /\ job' = [job EXCEPT ![h] = [job[h] EXCEPT !.pc = pc, !.worker = w]]
        /\ pc = "put" => w \in Workers
  <2>1. CASE Answers(h, "failed")
    <3>1. /\ job' = [job EXCEPT ![h] = [job[h] EXCEPT !.pc = "failed", !.worker = job[h].worker]]
          /\ job[h].worker \in Workers \cup {NoWorker}
      BY <1>1, <2>1 DEF Answers, Goes, JobType
    <3> QED
      BY <3>1
  <2>2. ASSUME NEW w \in GetEmptyWorker,
               job' = [job EXCEPT ![h].worker = w, ![h].pc = "put"]
        PROVE  /\ job' = [job EXCEPT ![h] = [job[h] EXCEPT !.pc = "put", !.worker = w]]
               /\ w \in Workers
    <3>1. w \in Workers
      BY DEF GetEmptyWorker, RInv, TypeOK
    <3> QED
      BY <1>1, <2>2, <3>1 DEF JobType
  <2> QED
    BY <2>1, <2>2 DEF UploadBegins
<1> DEFINE j == [job[h] EXCEPT !.pc = pc, !.worker = w]
<1>3. j \in JobType /\ j.pc = pc /\ j.worker = w
  BY <1>1 DEF JobType, Steps
<1>4. job' = [job EXCEPT ![h] = j]
  BY <1>2
<1> HIDE DEF j
<1>5. Good(h, j, stored')
  BY <1>1, <1>2, <1>3 DEF Good
<1>6. /\ lockedOf' \in [Files -> SUBSET Workers] /\ \A f \in Files \ known : lockedOf'[f] = {}
      /\ stored' \in [Workers -> SUBSET Files] /\ \A u \in Workers : stored[u] \subseteq stored'[u]
  BY <1>1 DEF RInv, TypeOK
<1> QED
  BY <1>1, <1>3, <1>4, <1>5, <1>6, LocalStep

LEMMA UploadPutsStep ==
  ASSUME RInv, NEW h \in Handlers, UploadPuts(h)
  PROVE  RInv'
<1> DEFINE f == Request[h][1]
<1>1. /\ job[h].pc = "put" /\ job[h].worker \in Workers /\ Kind[h] = "UploadDirect"
      /\ stored \in [Workers -> SUBSET Files]
      /\ UNCHANGED <<nodes, table, collided, acked, lives>>
  BY DEF RInv, TypeOK, JobType, UploadPuts, At, Good, table
<1>2. f \in Files
  BY <1>1, UploadsOne, IdsOfRequest
<1>3. CASE /\ stored' = [stored EXCEPT ![job[h].worker] = @ \cup {f}]
           /\ job' = [job EXCEPT ![h] = Notifying(job[h], f, FALSE, "confirm")]
  BY <1>1, <1>2, <1>3, StoredStep
<1>4. CASE /\ \E kept \in {{}, {f}} : stored' = [stored EXCEPT ![job[h].worker] = @ \cup kept]
           /\ Goes(h, "failed")
  <2>1. /\ stored' \in [Workers -> SUBSET Files]
        /\ \A u \in Workers : stored[u] \subseteq stored'[u]
    BY <1>1, <1>2, <1>4
  <2>2. Answers(h, "failed")
    BY <1>1, <1>4 DEF Answers
  <2> QED
    BY <1>1, <2>1, <2>2, AnswerStep
<1> QED
  BY <1>3, <1>4 DEF UploadPuts

LEMMA UploadEndsStep ==
  ASSUME RInv, NEW h \in Handlers, UploadEnds(h)
  PROVE  RInv'
<1>1. /\ job \in [Handlers -> JobType] /\ job[h] \in JobType /\ job[h].pc = "confirm"
      /\ job[h].id \in Files /\ job' = [job EXCEPT ![h] = [job[h] EXCEPT !.pc = "ok"]]
      /\ acked' = acked \cup {job[h].id}
      /\ UNCHANGED <<nodes, known, workersOf, lockedOf, stored, collided, lives>>
  BY DEF RInv, TypeOK, JobType, UploadEnds, At, Good, Answers, Goes, table
<1> DEFINE j == [job[h] EXCEPT !.pc = "ok"]
<1>2. j \in JobType /\ j.pc = "ok"
  BY <1>1 DEF JobType, Steps
<1>3. job' = [job EXCEPT ![h] = j]
  BY <1>1
<1> HIDE DEF j
<1>4. /\ job' \in [Handlers -> JobType] /\ job'[h].pc = "ok"
      /\ \A g \in Handlers \ {h} : job'[g] = job[g]
  BY <1>1, <1>2, <1>3
<1>5. TypeOK' /\ TableTrue'
  BY <1>1, <1>4 DEF RInv, TypeOK, TableTrue, JobType
<1>6. Listed'
  BY <1>1, <1>4 DEF RInv, Listed, At
<1>7. \A g \in Handlers : Good(g, job'[g], stored')
  BY <1>1, <1>4 DEF RInv, Good
<1> QED
  BY <1>5, <1>6, <1>7 DEF RInv

-----------------------------------------------------------------------------
(* The writes of NotifyFilePut, and the end of the process. *)

LEMMA NotifyResetStep ==
  ASSUME RInv, NEW h \in Handlers, NotifyReset(h)
  PROVE  RInv'
<1> DEFINE f == job[h].id
           j == [job[h] EXCEPT !.pc = "insert"]
<1>1. /\ job \in [Handlers -> JobType] /\ job[h] \in JobType /\ job[h].pc = "notify"
      /\ job[h].worker \in Workers /\ Good(h, job[h], stored)
      /\ stored \in [Workers -> SUBSET Files] /\ f \in stored[job[h].worker] /\ f \in Files
  BY DEF RInv, TypeOK, JobType, NotifyReset, At, Good
<1>2. /\ known' = known \cup {f} /\ job' = [job EXCEPT ![h] = j]
      /\ workersOf' = [workersOf EXCEPT ![f] = {}] /\ lockedOf' = [lockedOf EXCEPT ![f] = {}]
      /\ UNCHANGED <<nodes, stored, collided, acked, lives>>
  BY DEF NotifyReset, Goes
<1>3. /\ j \in JobType /\ j.pc = "insert" /\ j.worker = job[h].worker /\ j.id = f
      /\ j.next = job[h].next /\ j.todo = job[h].todo
  BY <1>1 DEF JobType, Steps
<1> HIDE DEF j
<1>4. /\ job' \in [Handlers -> JobType] /\ job'[h] = j
      /\ \A g \in Handlers \ {h} : job'[g] = job[g]
  BY <1>1, <1>2, <1>3
<1>5. Good(h, j, stored')
  BY <1>1, <1>2, <1>3 DEF Good, Brings
<1>6. \A g \in Handlers : Good(g, job'[g], stored')
  BY <1>2, <1>4, <1>5 DEF RInv
<1>7. TypeOK'
  <2>1. \A g \in Handlers : job'[g].pc \in {"source", "transfer"} => job'[g].todo # <<>>
    BY <1>6 DEF Good
  <2> QED
    BY <1>1, <1>2, <1>4, <2>1 DEF RInv, TypeOK, JobType
<1>8. TableTrue'
  BY <1>1, <1>2 DEF RInv, TypeOK, TableTrue
<1>9. Listed'
  <2> SUFFICES ASSUME ~collided
               PROVE  /\ acked \subseteq known'
                      /\ \A e \in known' : \/ workersOf'[e] # {}
                                          \/ \E g \in Handlers : job'[g].pc = "insert" /\ job'[g].id = e
                      /\ \A g \in Handlers : job'[g].pc \in {"insert", "confirm"} => job'[g].id \in known'
    BY <1>2 DEF Listed, At
  <2>1. \A e \in known' \ {f} : \/ workersOf'[e] # {}
                                \/ \E g \in Handlers : job'[g].pc = "insert" /\ job'[g].id = e
    <3> TAKE e \in known' \ {f}
    <3>1. e \in known /\ workersOf'[e] = workersOf[e]
      BY <1>1, <1>2 DEF RInv, TypeOK
    <3>2. CASE workersOf[e] # {}
      BY <3>1, <3>2
    <3>3. ASSUME NEW g \in Handlers, job[g].pc = "insert", job[g].id = e
          PROVE  job'[g].pc = "insert" /\ job'[g].id = e
      BY <1>1, <1>4, <3>3
    <3> QED
      BY <3>1, <3>2, <3>3 DEF RInv, Listed, At
  <2>2. job'[h].pc = "insert" /\ job'[h].id = f
    BY <1>3, <1>4
  <2>3. acked \subseteq known
    BY DEF RInv, Listed
  <2>4. \A g \in Handlers : job'[g].pc \in {"insert", "confirm"} => job'[g].id \in known'
    <3> TAKE g \in Handlers
    <3>1. CASE g = h
      BY <1>2, <2>2, <3>1
    <3>2. CASE g # h
      BY <1>2, <1>4, <3>2 DEF RInv, Listed
    <3> QED
      BY <3>1, <3>2
  <2> QED
    BY <1>2, <2>1, <2>2, <2>3, <2>4
<1> QED
  BY <1>6, <1>7, <1>8, <1>9 DEF RInv

LEMMA NotifyInsertStep ==
  ASSUME RInv, NEW h \in Handlers, NotifyInsert(h)
  PROVE  RInv'
<1> DEFINE f == job[h].id
           w == job[h].worker
           j == [job[h] EXCEPT !.pc = job[h].next]
<1>1. /\ job \in [Handlers -> JobType] /\ job[h] \in JobType /\ job[h].pc = "insert"
      /\ w \in Workers /\ stored \in [Workers -> SUBSET Files] /\ f \in stored[w] /\ f \in Files
      /\ job[h].next \in {"source", "lock", "get", "confirm"} /\ Good(h, job[h], stored)
  BY DEF RInv, TypeOK, JobType, NotifyInsert, At, Good
<1>2. /\ job' = [job EXCEPT ![h] = j]
      /\ UNCHANGED <<nodes, stored, acked, lives>>
  BY DEF NotifyInsert, Goes
<1>3. /\ j \in JobType /\ j.pc = job[h].next /\ j.worker = w /\ j.id = f
      /\ j.todo = job[h].todo
  BY <1>1 DEF JobType, Steps
<1> HIDE DEF j
<1>4. /\ job' \in [Handlers -> JobType] /\ job'[h] = j
      /\ \A g \in Handlers \ {h} : job'[g] = job[g]
  BY <1>1, <1>2, <1>3
<1>5. Good(h, j, stored')
  BY <1>1, <1>2, <1>3 DEF Good, Brings
<1>6. \A g \in Handlers : Good(g, job'[g], stored')
  BY <1>2, <1>4, <1>5 DEF RInv
<1>7. \A g \in Handlers : job'[g].pc \in {"source", "transfer"} => job'[g].todo # <<>>
  BY <1>6 DEF Good
<1>8. CASE /\ workersOf' = [workersOf EXCEPT ![f] = workersOf[f] \cup {w}]
           /\ lockedOf' = [lockedOf EXCEPT ![f] = IF job[h].lock THEN @ \cup {w} ELSE @]
           /\ known' = known \cup {f} /\ UNCHANGED collided
  <2>1. TypeOK'
    BY <1>1, <1>2, <1>4, <1>7, <1>8 DEF RInv, TypeOK, JobType
  <2>2. TableTrue'
    BY <1>1, <1>2, <1>8 DEF RInv, TypeOK, TableTrue
  <2>3. Listed'
    <3> SUFFICES ASSUME ~collided
                 PROVE  /\ acked \subseteq known'
                        /\ \A e \in known' : \/ workersOf'[e] # {}
                                            \/ \E g \in Handlers : job'[g].pc = "insert" /\ job'[g].id = e
                        /\ \A g \in Handlers : job'[g].pc \in {"insert", "confirm"} => job'[g].id \in known'
      BY <1>2, <1>8 DEF Listed, At
    <3>1. workersOf'[f] # {}
      BY <1>1, <1>8 DEF RInv, TypeOK
    <3>2. \A e \in known' \ {f} : \/ workersOf'[e] # {}
                                  \/ \E g \in Handlers : job'[g].pc = "insert" /\ job'[g].id = e
      <4> TAKE e \in known' \ {f}
      <4>1. e \in known /\ workersOf'[e] = workersOf[e]
        BY <1>1, <1>8 DEF RInv, TypeOK
      <4>2. ASSUME NEW g \in Handlers, job[g].pc = "insert", job[g].id = e
            PROVE  job'[g].pc = "insert" /\ job'[g].id = e
        BY <1>4, <4>2
      <4> QED
        BY <4>1, <4>2 DEF RInv, Listed, At
    <3>3. \A g \in Handlers : job'[g].pc \in {"insert", "confirm"} => job'[g].id \in known'
      BY <1>3, <1>4, <1>8 DEF RInv, Listed
    <3>4. acked \subseteq known'
      BY <1>8 DEF RInv, Listed
    <3> QED
      BY <3>1, <3>2, <3>3, <3>4
  <2> QED
    BY <1>6, <2>1, <2>2, <2>3 DEF RInv
<1>9. ASSUME NEW kept \in {known, known \ {f}},
             known' = kept,
             workersOf' = [workersOf EXCEPT ![f] = IF f \in kept THEN @ ELSE {}],
             lockedOf' = [lockedOf EXCEPT ![f] = IF f \in kept THEN @ ELSE {}],
             collided' = TRUE
      PROVE  RInv'
  <2>1. TypeOK'
    BY <1>1, <1>2, <1>4, <1>7, <1>9 DEF RInv, TypeOK, JobType
  <2>2. TableTrue'
    BY <1>1, <1>2, <1>9 DEF RInv, TypeOK, TableTrue
  <2>3. Listed'
    BY <1>9 DEF Listed
  <2> QED
    BY <1>6, <2>1, <2>2, <2>3 DEF RInv
<1> QED
  BY <1>8, <1>9 DEF NotifyInsert, Inserted

LEMMA DiesStep ==
  ASSUME RInv, Dies, lives' \in 0..MaxLives
  PROVE  RInv'
<1>1. /\ job \in [Handlers -> JobType]
      /\ job' = [h \in Handlers |-> IF job[h].pc \in {"idle", "ok"} THEN job[h]
                                     ELSE [job[h] EXCEPT !.pc = "failed"]]
  BY DEF RInv, TypeOK, JobType, Dies
<1>2. \A h \in Handlers : job'[h] \in JobType /\ job'[h].pc \in {"idle", "ok", "failed"}
  <2> TAKE h \in Handlers
  <2>1. job[h] \in JobType
    BY <1>1
  <2>2. CASE job[h].pc \in {"idle", "ok"}
    BY <1>1, <2>1, <2>2
  <2>3. CASE job[h].pc \notin {"idle", "ok"}
    <3>1. job'[h] = [job[h] EXCEPT !.pc = "failed"]
      BY <1>1, <2>3
    <3> QED
      BY <2>1, <3>1 DEF JobType, Steps
  <2> QED
    BY <2>2, <2>3
<1>3. job' \in [Handlers -> JobType]
  BY <1>1, <1>2
<1>4. TypeOK'
  BY <1>2, <1>3 DEF RInv, TypeOK, JobType, Dies, Nothing
<1>5. TableTrue' /\ Listed'
  BY <1>2 DEF Dies, TableTrue, Listed, Nothing
<1>6. \A h \in Handlers : Good(h, job'[h], stored')
  BY <1>2 DEF Good
<1> QED
  BY <1>4, <1>5, <1>6 DEF RInv

-----------------------------------------------------------------------------
(* The theorems. *)

\* The types, the truth of the table, the listing of known files and what each
\* handler relies on hold in every reachable state (master.cc:46-204).
THEOREM RenderInvariance == Spec => []RInv
<1>1. Init => RInv
  <2> SUFFICES ASSUME Init PROVE RInv
    OBVIOUS
  <2>1. Idle \in JobType /\ Idle.pc = "idle"
    BY EmptySeq DEF Idle, JobType, Steps
  <2>2. \A h \in Handlers : job[h] = Idle
    BY DEF Init
  <2>3. job \in [Handlers -> JobType]
    BY <2>1 DEF Init
  <2> HIDE DEF Idle
  <2>4. TypeOK
    <3>1. /\ nodes \subseteq Workers /\ known = {} /\ collided = FALSE /\ acked = {}
          /\ workersOf = Nothing /\ lockedOf = Nothing
          /\ stored = [w \in Workers |-> {}] /\ lives \in 0..MaxLives
      BY LivesBound DEF Init
    <3>2. /\ Nothing \in [Files -> SUBSET Workers] /\ stored \in [Workers -> SUBSET Files]
          /\ \A f \in Files : Nothing[f] = {}
      BY <3>1 DEF Nothing
    <3>3. \A h \in Handlers : job[h].pc \notin {"source", "transfer"}
      BY <2>1, <2>2
    <3> QED
      BY <2>3, <3>1, <3>2, <3>3 DEF TypeOK, JobType
  <2>5. TableTrue /\ Listed
    BY <2>1, <2>2 DEF Init, TableTrue, Listed, Nothing
  <2>6. \A h \in Handlers : Good(h, job[h], stored)
    BY <2>1, <2>2 DEF Good
  <2> QED
    BY <2>4, <2>5, <2>6 DEF RInv
<1>2. RInv /\ [Next]_vars => RInv'
  <2> SUFFICES ASSUME RInv, [Next]_vars PROVE RInv'
    OBVIOUS
  <2>1. CASE MasterExit
    <3>1. lives' \in 0..MaxLives
      BY <2>1, LivesBound DEF MasterExit, RInv, TypeOK
    <3> QED
      BY <2>1, <3>1, DiesStep DEF MasterExit
  <2>2. ASSUME NEW h \in Handlers, Serve(h) PROVE RInv'
    BY <2>2, RenderBeginsStep, RenderListsStep, RenderFindsSourceStep, RenderTransfersStep,
       NotifyResetStep, NotifyInsertStep, RenderLocksStep, RenderRunsStep, RenderEndsStep,
       UploadBeginsStep, UploadPutsStep, UploadEndsStep DEF Serve
  <2>3. ASSUME NEW h \in Handlers, Abort(h) PROVE RInv'
    BY <2>3, DiesStep DEF Abort, RInv, TypeOK
  <2>4. CASE UNCHANGED vars
    BY <2>4 DEF vars, table, RInv, TypeOK, TableTrue, Listed, At, Good, Brings
  <2> QED
    BY <2>1, <2>2, <2>3, <2>4 DEF Next
<1> QED
  BY <1>1, <1>2, PTL DEF Spec

\* The tables and the variables of the handlers keep their types (master.cc,
\* master_file_manager.h).
THEOREM RenderTypes == Spec => []TypeOK
<1>1. RInv => TypeOK
  BY DEF RInv
<1> QED
  BY <1>1, RenderInvariance, PTL

\* A worker is told to render only when it has stored every file the render
\* names (master.cc:76-113).
THEOREM RendersAreSupplied == Spec => []RunSupplied
<1>1. RInv => RunSupplied
  BY DEF RInv, RunSupplied, Good, At
<1> QED
  BY <1>1, RenderInvariance, PTL

\* Until two writes collide, a worker is listed that has stored a file whose
\* upload was confirmed, or is about to be (master.cc:196-200).
THEOREM UploadsAreFindable == Spec => []UploadFindable
<1>1. ASSUME RInv, ~collided, NEW f \in acked
      PROVE  \/ \E w \in workersOf[f] : f \in stored[w]
             \/ \E h \in Handlers : At(h, "insert") /\ job[h].id = f
  <2>1. f \in known /\ f \in Files
    BY <1>1 DEF RInv, Listed, TypeOK
  <2> QED
    BY <1>1, <2>1 DEF RInv, Listed, TableTrue
<1>2. RInv => UploadFindable
  BY <1>1 DEF UploadFindable
<1> QED
  BY <1>2, RenderInvariance, PTL
=============================================================================
