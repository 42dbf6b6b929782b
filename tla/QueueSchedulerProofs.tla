------------------------- MODULE QueueSchedulerProofs -------------------------
(***************************************************************************)
(* Proofs about QueueScheduler, for any workers and tasks: types, and that *)
(* its tables stay consistent (Consistent) whatever answers, timers and    *)
(* rounds of the heartbeat come in between; that each task's promise is    *)
(* the one of TaskPromise; and that no task waits which could be served    *)
(* (Served).                                                               *)
(*                                                                         *)
(* A handler leaves a record s of the tables to schedule(), see Now; what  *)
(* schedule() needs of s is said by Fields(s) and Sound(s), and what it    *)
(* gives back by the Schedule lemmas.  An action is then proved by showing *)
(* that its own s has Fields and Sound.                                    *)
(***************************************************************************)
EXTENDS QueueScheduler, ListProofs

-----------------------------------------------------------------------------
(* The inductive invariant. *)

\* A task is passed to at most one worker in its life, was created before, and
\* has left the queue for good.
SentOnce ==
  /\ \A p, r \in sentTo : p[1] = r[1] => p = r
  /\ \A p \in sentTo : p[1] \in created /\ p[1] \notin ToSet(queuedTasks)

\* Only created tasks are queued, each once.
QueueOnce ==
  /\ ToSet(queuedTasks) \subseteq created
  /\ \A i, j \in 1..Len(queuedTasks) :
       queuedTasks[i] = queuedTasks[j] => i = j

\* Answers and timers are about tasks that were sent, to the worker they name.
SentBefore == runs \cup again \cup taskTimeoutIDs \subseteq sentTo

WaitingSent == \A t \in waitingTasks : \E w \in Workers : <<t, w>> \in sentTo

\* A producing task has its timeout before it can leave the queue.
QueuedHasTimeout == ToSet(queuedTasks) \cap Producing \subseteq taskTimeouts

Consistent ==
  /\ SentOnce
  /\ QueueOnce
  /\ SentBefore
  /\ WaitingSent
  /\ QueuedHasTimeout
  /\ WorkersAccounted
  /\ UsedHasTask
  /\ ProducingTimed

IInv == TypeOK /\ Consistent

-----------------------------------------------------------------------------
(* What a handler leaves to schedule(). *)

Fields(s) ==
  /\ s.queue \in Seq(Tasks) /\ s.waiting \subseteq Tasks
  /\ s.unused \in Seq(Workers) /\ s.used \subseteq Workers
  /\ s.known \subseteq Workers /\ s.timeouts \subseteq Tasks
  /\ s.timers \subseteq Tasks \X Workers
  /\ s.open \subseteq Tasks \X Workers /\ s.again \subseteq Tasks \X Workers

Sound(s) ==
  /\ \A i, j \in 1..Len(s.queue) : s.queue[i] = s.queue[j] => i = j
  /\ \A p \in sentTo : p[1] \notin ToSet(s.queue)
  /\ s.open \cup s.again \cup s.timers \subseteq sentTo
  /\ \A t \in s.waiting : \E w \in Workers : <<t, w>> \in sentTo
  /\ ToSet(s.queue) \cap Producing \subseteq s.timeouts
  /\ s.known \subseteq ToSet(s.unused) \cup s.used
  /\ \A w \in s.used : \E t \in s.waiting : <<t, w>> \in sentTo
  /\ \A t \in s.waiting \cap Producing :
       \E w \in Workers : <<t, w>> \in s.timers

\* The rounds of schedule() stay within both lists.
LEMMA RoundsBounds ==
  ASSUME NEW s, Fields(s), NEW n \in Rounds(s)
  PROVE  /\ n \in Nat /\ n \in 0..Len(s.queue) /\ n \in 0..Len(s.unused)
         /\ \A i \in 1..n : s.queue[i] \in Tasks /\ s.unused[i] \in Workers
         /\ Pairs(n, s) \subseteq Tasks \X Workers
         /\ Sent(n, s) \subseteq Pairs(n, s)
         /\ Armed(n, s) \subseteq Pairs(n, s)
<1>1. Len(s.queue) \in Nat /\ Len(s.unused) \in Nat
  BY LenProperties DEF Fields
<1>2. n \in 0..Len(s.queue) /\ n <= Len(s.unused)
  BY DEF Rounds
<1>3. n \in Nat /\ n \in 0..Len(s.unused)
  BY <1>1, <1>2
<1>4. \A i \in 1..n : i \in 1..Len(s.queue) /\ i \in 1..Len(s.unused)
  BY <1>1, <1>2
<1>5. \A i \in 1..n : s.queue[i] \in Tasks /\ s.unused[i] \in Workers
  BY <1>4, ElementOfSeq DEF Fields
<1>6. Pairs(n, s) \subseteq Tasks \X Workers
  BY <1>5 DEF Pairs
<1>7. Sent(n, s) \subseteq Pairs(n, s) /\ Armed(n, s) \subseteq Pairs(n, s)
  BY DEF Sent, Armed
<1> QED
  BY <1>2, <1>3, <1>5, <1>6, <1>7

\* Types after schedule().
LEMMA ScheduleTypes ==
  ASSUME TypeOK, NEW s, Fields(s), NEW n \in Rounds(s), Schedule(n, s)
  PROVE  /\ queuedTasks' \in Seq(Tasks) /\ waitingTasks' \subseteq Tasks
         /\ unusedWorkers' \in Seq(Workers) /\ usedWorkers' \subseteq Workers
         /\ workers' \subseteq Workers
         /\ taskTimeoutIDs' \subseteq Tasks \X Workers
         /\ runs' \subseteq Tasks \X Workers /\ again' \subseteq Tasks \X Workers
         /\ sentTo' \subseteq Tasks \X Workers
<1>1. /\ n \in 0..Len(s.queue) /\ n \in 0..Len(s.unused)
      /\ \A i \in 1..n : s.queue[i] \in Tasks /\ s.unused[i] \in Workers
      /\ Pairs(n, s) \subseteq Tasks \X Workers
      /\ Sent(n, s) \subseteq Pairs(n, s)
      /\ Armed(n, s) \subseteq Pairs(n, s)
  BY RoundsBounds
<1>2. queuedTasks' \in Seq(Tasks) /\ unusedWorkers' \in Seq(Workers)
  BY <1>1, ShiftProperties DEF Schedule, Shifted, Fields
<1>3. waitingTasks' \subseteq Tasks /\ usedWorkers' \subseteq Workers
  BY <1>1 DEF Schedule, Fields
<1> QED
  BY <1>1, <1>2, <1>3 DEF Schedule, Fields, TypeOK

\* The tasks that schedule() starts come from the queue, so that they were never
\* sent before, and it starts each once.
LEMMA PairsOnce ==
  ASSUME SentOnce, NEW s, Fields(s), Sound(s), NEW n \in Rounds(s)
  PROVE  /\ \A p, r \in sentTo \cup Pairs(n, s) : p[1] = r[1] => p = r
         /\ \A p \in Pairs(n, s) : p[1] \in ToSet(s.queue)
<1> DEFINE P == Pairs(n, s)
           q == s.queue
<1>1. /\ \A i \in 1..n : i \in 1..Len(q)
      /\ DOMAIN q = 1..Len(q)
  <2>1. n \in 0..Len(q) /\ Len(q) \in Nat /\ DOMAIN q = 1..Len(q)
    BY RoundsBounds, LenProperties DEF Fields
  <2> QED
    BY <2>1
<1>2. \A p \in P : \E i \in 1..n : p = <<q[i], s.unused[i]>>
  BY DEF Pairs
<1>3. \A p \in P : p[1] \in ToSet(q)
  BY <1>1, <1>2 DEF ToSet
<1>4. \A p, r \in P : p[1] = r[1] => p = r
  <2> SUFFICES ASSUME NEW p \in P, NEW r \in P, p[1] = r[1]
               PROVE  p = r
    OBVIOUS
  <2>1. PICK i \in 1..n : p = <<q[i], s.unused[i]>>
    BY <1>2
  <2>2. PICK j \in 1..n : r = <<q[j], s.unused[j]>>
    BY <1>2
  <2>3. i = j
    BY <1>1, <2>1, <2>2 DEF Sound
  <2> QED
    BY <2>1, <2>2, <2>3
<1>5. \A p \in sentTo : p[1] \notin ToSet(q)
  BY DEF Sound
<1> QED
  BY <1>3, <1>4, <1>5 DEF SentOnce

\* schedule() keeps the tables consistent.
LEMMA ScheduleSound ==
  ASSUME TypeOK, SentOnce, NEW s, Fields(s), Sound(s),
         NEW n \in Rounds(s), Schedule(n, s)
  PROVE  /\ \A p, r \in sentTo' : p[1] = r[1] => p = r
         /\ \A p \in sentTo' : /\ p[1] \notin ToSet(queuedTasks')
                               /\ p \in sentTo \/ p[1] \in ToSet(s.queue)
         /\ ToSet(queuedTasks') \subseteq ToSet(s.queue)
         /\ \A i, j \in 1..Len(queuedTasks') :
              queuedTasks'[i] = queuedTasks'[j] => i = j
         /\ SentBefore' /\ WaitingSent'
         /\ ToSet(queuedTasks') \cap Producing \subseteq s.timeouts
         /\ WorkersAccounted' /\ UsedHasTask' /\ ProducingTimed'
<1> DEFINE q == s.queue
           u == s.unused
           P == Pairs(n, s)
<1>1. /\ n \in Nat /\ n \in 0..Len(q) /\ n \in 0..Len(u)
      /\ Len(q) \in Nat /\ Len(u) \in Nat
      /\ \A i \in 1..n : q[i] \in Tasks /\ u[i] \in Workers
      /\ Sent(n, s) \subseteq P /\ Armed(n, s) \subseteq P
  BY RoundsBounds, LenProperties DEF Fields
<1>2. /\ Len(queuedTasks') = Len(q) - n
      /\ \A i \in 1..(Len(q) - n) : queuedTasks'[i] = q[n + i]
      /\ ToSet(q) = ToSet(queuedTasks') \cup {q[i] : i \in 1..n}
      /\ DOMAIN queuedTasks' = 1..(Len(q) - n)
  <2>1. queuedTasks' = SubSeq(q, n + 1, Len(q)) /\ q \in Seq(Tasks)
    BY DEF Schedule, Shifted, Fields
  <2>2. queuedTasks' \in Seq(Tasks)
    BY <1>1, <2>1, ShiftProperties
  <2> QED
    BY <1>1, <2>1, <2>2, ShiftProperties, LenProperties
<1>3. ToSet(u) = ToSet(unusedWorkers') \cup {u[i] : i \in 1..n}
  <2>1. unusedWorkers' = SubSeq(u, n + 1, Len(u)) /\ u \in Seq(Workers)
    BY DEF Schedule, Shifted, Fields
  <2> QED
    BY <1>1, <2>1, ShiftProperties
<1>4. /\ waitingTasks' = s.waiting \cup {q[i] : i \in 1..n}
      /\ usedWorkers' = s.used \cup {u[i] : i \in 1..n}
      /\ workers' = s.known
      /\ taskTimeoutIDs' = s.timers \cup Armed(n, s)
      /\ runs' = s.open \cup Sent(n, s) /\ again' = s.again
      /\ sentTo' = sentTo \cup P
  BY DEF Schedule
<1>5. \A i, j \in 1..Len(q) : q[i] = q[j] => i = j
  BY DEF Sound
<1>6. \A p \in P : \E i \in 1..n : p = <<q[i], u[i]>>
  BY DEF Pairs
<1>7. \A i \in 1..n : <<q[i], u[i]>> \in P
  BY DEF Pairs
<1>8. \A i \in 1..n : i \in 1..Len(q) /\ q[i] \in ToSet(q)
  BY <1>1, <1>2
<1>9. \A p \in P : p[1] \in ToSet(q)
  BY <1>6, <1>8
<1>10. \A i \in 1..n : q[i] \notin ToSet(queuedTasks')
  <2> SUFFICES ASSUME NEW i \in 1..n, NEW k \in 1..(Len(q) - n),
                      q[i] = queuedTasks'[k]
               PROVE  FALSE
    BY <1>2 DEF ToSet
  <2>1. q[i] = q[n + k] /\ n + k \in 1..Len(q) /\ i # n + k
    BY <1>1, <1>2
  <2> QED
    BY <1>5, <1>8, <2>1
<1> HIDE DEF q, u, P
<1>11. \A p, r \in sentTo' : p[1] = r[1] => p = r
  BY <1>4, PairsOnce DEF P
<1>12. \A p \in sentTo' : /\ p[1] \notin ToSet(queuedTasks')
                          /\ p \in sentTo \/ p[1] \in ToSet(q)
  <2>1. \A p \in sentTo : p[1] \notin ToSet(q)
    BY DEF Sound, q
  <2> QED
    BY <1>2, <1>4, <1>6, <1>9, <1>10, <2>1
<1>13. \A i, j \in 1..Len(queuedTasks') :
         queuedTasks'[i] = queuedTasks'[j] => i = j
  <2> SUFFICES ASSUME NEW i \in 1..Len(queuedTasks'),
                      NEW j \in 1..Len(queuedTasks'),
                      queuedTasks'[i] = queuedTasks'[j]
               PROVE  i = j
    OBVIOUS
  <2>1. /\ n + i \in 1..Len(q) /\ n + j \in 1..Len(q)
        /\ q[n + i] = q[n + j]
    BY <1>1, <1>2
  <2>2. n + i = n + j
    BY <1>5, <2>1
  <2> QED
    BY <1>1, <1>2, <2>2
<1>14. SentBefore'
  BY <1>1, <1>4 DEF SentBefore, Sound
<1>15. WaitingSent'
  BY <1>1, <1>4, <1>7 DEF WaitingSent, Sound
<1>16. ToSet(queuedTasks') \cap Producing \subseteq s.timeouts
  BY <1>2 DEF Sound, q
<1>17. WorkersAccounted'
  BY <1>3, <1>4 DEF WorkersAccounted, Sound, u
<1>18. UsedHasTask'
  <2> SUFFICES ASSUME NEW w \in usedWorkers'
               PROVE  \E t \in waitingTasks' : <<t, w>> \in sentTo'
    BY DEF UsedHasTask
  <2>1. CASE w \in s.used
    BY <1>4, <2>1 DEF Sound
  <2>2. CASE w \notin s.used
    <3>1. PICK i \in 1..n : w = u[i]
      BY <1>4, <2>2
    <3>2. q[i] \in waitingTasks' /\ <<q[i], w>> \in sentTo'
      BY <1>4, <1>7, <3>1
    <3> QED
      BY <3>2
  <2> QED
    BY <2>1, <2>2
<1>19. ProducingTimed'
  <2> SUFFICES ASSUME NEW t \in waitingTasks' \cap Producing
               PROVE  \E w \in Workers : <<t, w>> \in taskTimeoutIDs'
    BY DEF ProducingTimed
  <2>1. CASE t \in s.waiting
    BY <1>4, <2>1 DEF Sound
  <2>2. CASE t \notin s.waiting
    <3>1. PICK i \in 1..n : t = q[i]
      BY <1>4, <2>2
    <3>2. t \in s.timeouts
      BY <1>8, <3>1 DEF Sound, q
    <3>3. <<t, u[i]>> \in Armed(n, s)
      BY <1>7, <3>1, <3>2 DEF Armed, P
    <3> QED
      BY <1>1, <1>4, <3>1, <3>3
  <2> QED
    BY <2>1, <2>2
<1> QED
  BY <1>2, <1>11, <1>12, <1>13, <1>14, <1>15, <1>16, <1>17, <1>18, <1>19 DEF q
\* So does a handler that ends in schedule(), ...
LEMMA StepKeeps ==
  ASSUME IInv, NEW s, Fields(s), Sound(s), NEW n \in Rounds(s), Schedule(n, s),
         created \subseteq created', created' \subseteq Tasks,
         ToSet(s.queue) \subseteq created',
         ToSet(s.queue) \cap Producing \subseteq taskTimeouts',
         taskTimeouts' \subseteq Tasks, finishTaskDefers' \subseteq Tasks,
         outcome' \in [Tasks -> {"none", "finished", "failed", "dropped"}],
         master' \in {"up", "aborted", "exited"}
  PROVE  IInv'
<1>1. TypeOK'
  BY ScheduleTypes DEF IInv, TypeOK
<1>2. /\ \A p, r \in sentTo' : p[1] = r[1] => p = r
      /\ \A p \in sentTo' : /\ p[1] \notin ToSet(queuedTasks')
                            /\ p \in sentTo \/ p[1] \in ToSet(s.queue)
      /\ ToSet(queuedTasks') \subseteq ToSet(s.queue)
      /\ \A i, j \in 1..Len(queuedTasks') :
           queuedTasks'[i] = queuedTasks'[j] => i = j
      /\ SentBefore' /\ WaitingSent'
      /\ WorkersAccounted' /\ UsedHasTask' /\ ProducingTimed'
  BY ScheduleSound DEF IInv, Consistent
<1>3. \A p \in sentTo : p[1] \in created
  BY DEF IInv, Consistent, SentOnce
<1>4. SentOnce'
  BY <1>2, <1>3 DEF SentOnce
<1>5. QueueOnce'
  BY <1>2 DEF QueueOnce
<1>6. QueuedHasTimeout'
  BY <1>2 DEF QueuedHasTimeout
<1> QED
  BY <1>1, <1>2, <1>4, <1>5, <1>6 DEF IInv, Consistent

\* ... and one whose schedule() takes the process down.
LEMMA ExitKeeps ==
  ASSUME IInv, NEW s, Fields(s), Sound(s), NEW n \in Rounds(s),
         Exit(s.open \cup Sent(n, s), s.again, Pairs(n, s)),
         created \subseteq created', created' \subseteq Tasks,
         ToSet(s.queue) \subseteq created'
  PROVE  IInv'
<1>1. /\ queuedTasks' = <<>> /\ waitingTasks' = {} /\ unusedWorkers' = <<>>
      /\ usedWorkers' = {} /\ workers' = {} /\ taskTimeouts' = {}
      /\ taskTimeoutIDs' = {} /\ finishTaskDefers' = {}
      /\ runs' = s.open \cup Sent(n, s) /\ again' = s.again
      /\ sentTo' = sentTo \cup Pairs(n, s) /\ master' = "exited"
  BY DEF Exit
<1>2. ToSet(queuedTasks') = {} /\ Len(queuedTasks') = 0
  BY <1>1 DEF ToSet
<1>3. /\ Pairs(n, s) \subseteq Tasks \X Workers
      /\ Sent(n, s) \subseteq Pairs(n, s)
  BY RoundsBounds
<1>4. outcome' \in [Tasks -> {"none", "finished", "failed", "dropped"}]
  BY DEF Exit, IInv, TypeOK
<1>5. TypeOK'
  BY <1>1, <1>3, <1>4 DEF IInv, TypeOK, Fields
<1>6. SentOnce'
  <2>1. \A p, r \in sentTo' : p[1] = r[1] => p = r
    BY <1>1, PairsOnce DEF IInv, Consistent
  <2>2. \A p \in sentTo' : p[1] \in created'
    BY <1>1, PairsOnce DEF IInv, Consistent, SentOnce
  <2> QED
    BY <1>2, <2>1, <2>2 DEF SentOnce
<1>7. SentBefore'
  BY <1>1, <1>3 DEF SentBefore, Sound
<1>8. QueueOnce' /\ WaitingSent' /\ QueuedHasTimeout'
  BY <1>1, <1>2 DEF QueueOnce, WaitingSent, QueuedHasTimeout
<1>9. WorkersAccounted' /\ UsedHasTask' /\ ProducingTimed'
  BY <1>1 DEF WorkersAccounted, UsedHasTask, ProducingTimed
<1> QED
  BY <1>5, <1>6, <1>7, <1>8, <1>9 DEF IInv, Consistent

-----------------------------------------------------------------------------
(* The tables that the handlers leave to schedule(). *)

\* The tables as they are.
LEMMA NowSound ==
  ASSUME IInv
  PROVE  Fields(Now) /\ Sound(Now)
<1>1. Fields(Now)
  BY DEF IInv, TypeOK, Fields, Now
<1>2. Sound(Now)
  BY DEF IInv, Consistent, Sound, Now, SentOnce, QueueOnce, SentBefore,
         WaitingSent, QueuedHasTimeout, WorkersAccounted, UsedHasTask,
         ProducingTimed
<1> QED
  BY <1>1, <1>2

\* A new task is queued once, wherever it is put.
LEMMA EnqueuedProperties ==
  ASSUME IInv, NEW t \in Tasks, t \notin created
  PROVE  /\ Enqueued(t) \in Seq(Tasks)
         /\ ToSet(Enqueued(t)) = ToSet(queuedTasks) \cup {t}
         /\ \A i, j \in 1..Len(Enqueued(t)) :
              Enqueued(t)[i] = Enqueued(t)[j] => i = j
         /\ \A p \in sentTo : p[1] \notin ToSet(Enqueued(t))
<1> DEFINE q == queuedTasks
<1>1. /\ q \in Seq(Tasks) /\ Len(q) \in Nat /\ DOMAIN q = 1..Len(q)
      /\ \A i, j \in 1..Len(q) : q[i] = q[j] => i = j
      /\ t \notin ToSet(q)
      /\ \A p \in sentTo : p[1] \notin ToSet(q) /\ p[1] # t
  BY LenProperties DEF IInv, TypeOK, Consistent, SentOnce, QueueOnce
<1>2. \A i \in 1..Len(q) : q[i] # t
  BY <1>1 DEF ToSet
<1> HIDE DEF q
<1>3. CASE t \in Producing
  <2> DEFINE r == Append(q, t)
  <2>1. Enqueued(t) = r
    BY <1>3 DEF Enqueued, q
  <2>2. /\ r \in Seq(Tasks) /\ Len(r) = Len(q) + 1
        /\ \A i \in 1..Len(q) : r[i] = q[i]
        /\ r[Len(q) + 1] = t
        /\ ToSet(r) = ToSet(q) \cup {t}
    BY <1>1, AppendToSet
  <2> HIDE DEF r
  <2>3. \A i, j \in 1..Len(r) : r[i] = r[j] => i = j
    BY <1>1, <1>2, <2>2
  <2> QED
    BY <1>1, <2>1, <2>2, <2>3 DEF q
<1>4. CASE t \notin Producing
  <2> DEFINE one == <<t>>
             r == one \o q
  <2>1. Enqueued(t) = r
    BY <1>4 DEF Enqueued, q
  <2>2. one \in Seq(Tasks) /\ Len(one) = 1 /\ one[1] = t /\ ToSet(one) = {t}
    <3>1. one \in Seq(Tasks) /\ Len(one) = 1 /\ one[1] = t
      OBVIOUS
    <3>2. DOMAIN one = 1..1
      OBVIOUS
    <3> QED
      BY <3>1, <3>2 DEF ToSet
  <2> HIDE DEF one
  <2>3. /\ r \in Seq(Tasks) /\ Len(r) = Len(one) + Len(q)
        /\ \A i \in 1..Len(one) : r[i] = one[i]
        /\ \A i \in 1..Len(q) : r[Len(one) + i] = q[i]
        /\ ToSet(r) = ToSet(one) \cup ToSet(q)
    <3>1. one \in Seq(Tasks) /\ q \in Seq(Tasks)
      BY <1>1, <2>2
    <3>2. r \in Seq(Tasks)
      BY <3>1, ConcatToSet
    <3>3. Len(r) = Len(one) + Len(q)
      BY <3>1, ConcatToSet
    <3>4. \A i \in 1..Len(one) : r[i] = one[i]
      BY <3>1, ConcatToSet
    <3>5. \A i \in 1..Len(q) : r[Len(one) + i] = q[i]
      BY <3>1, ConcatToSet
    <3>6. ToSet(r) = ToSet(one) \cup ToSet(q)
      BY <3>1, ConcatToSet
    <3> QED
      BY <3>2, <3>3, <3>4, <3>5, <3>6
  <2> HIDE DEF r
  <2>4. /\ Len(r) = 1 + Len(q) /\ r[1] = t
        /\ \A i \in 1..Len(q) : r[1 + i] = q[i]
        /\ ToSet(r) = {t} \cup ToSet(q)
    BY <2>2, <2>3
  <2>5. \A i \in 1..Len(r) : i # 1 => i - 1 \in 1..Len(q) /\ r[i] = q[i - 1]
    <3> TAKE i \in 1..Len(r)
    <3> HAVE i # 1
    <3>1. i - 1 \in 1..Len(q) /\ 1 + (i - 1) = i
      BY <1>1, <2>4
    <3> QED
      BY <2>4, <3>1
  <2>6. \A i, j \in 1..Len(r) : r[i] = r[j] => i = j
    <3> SUFFICES ASSUME NEW i \in 1..Len(r), NEW j \in 1..Len(r), r[i] = r[j]
                 PROVE  i = j
      OBVIOUS
    <3>1. CASE i = 1 \/ j = 1
      BY <1>2, <2>4, <2>5, <3>1
    <3>2. CASE i # 1 /\ j # 1
      <4>1. i - 1 = j - 1
        BY <1>1, <2>5, <3>2
      <4> QED
        BY <1>1, <2>4, <4>1
    <3> QED
      BY <3>1, <3>2
  <2> QED
    BY <1>1, <2>1, <2>3, <2>4, <2>6 DEF q
<1> QED
  BY <1>3, <1>4

\* What is left once the task t, sent to w, is no longer waited for.
LEMMA WithoutTask ==
  ASSUME IInv, NEW t, NEW w, <<t, w>> \in sentTo
  PROVE  /\ t \in Tasks /\ w \in Workers
         /\ t \notin ToSet(queuedTasks)
         /\ \A v \in usedWorkers \ {w} :
              \E x \in waitingTasks \ {t} : <<x, v>> \in sentTo
         /\ \A x \in (waitingTasks \ {t}) \cap Producing :
              \E v \in Workers : <<x, v>> \in Disarmed(t)
         /\ Disarmed(t) \subseteq taskTimeoutIDs
<1>1. t \in Tasks /\ w \in Workers
  BY DEF IInv, TypeOK
<1>2. t \notin ToSet(queuedTasks)
  BY DEF IInv, Consistent, SentOnce
<1>3. ASSUME NEW v \in usedWorkers \ {w}
      PROVE  \E x \in waitingTasks \ {t} : <<x, v>> \in sentTo
  <2>1. PICK x \in waitingTasks : <<x, v>> \in sentTo
    BY DEF IInv, Consistent, UsedHasTask
  <2>2. x # t
    BY <2>1 DEF IInv, Consistent, SentOnce
  <2> QED
    BY <2>1, <2>2
<1>4. ASSUME NEW x \in (waitingTasks \ {t}) \cap Producing
      PROVE  \E v \in Workers : <<x, v>> \in Disarmed(t)
  BY DEF IInv, Consistent, ProducingTimed, Disarmed
<1>5. Disarmed(t) \subseteq taskTimeoutIDs
  BY DEF Disarmed
<1> QED
  BY <1>1, <1>2, <1>3, <1>4, <1>5

\* An answer of w about t, the timer of t cleared or not.
AfterAnswer(s, t, w) ==
  /\ s.queue = queuedTasks /\ s.waiting = waitingTasks \ {t}
  /\ s.unused = Append(unusedWorkers, w) /\ s.used = usedWorkers \ {w}
  /\ s.known = workers
  /\ s.timers \in {taskTimeoutIDs, Disarmed(t)}
  /\ s.timeouts \in {taskTimeouts, taskTimeouts \ {t}}
  /\ s.open = runs \ {<<t, w>>} /\ s.again = Again(t, w)

\* schedule() gets sound tables from both handlers of answers.
LEMMA AnsweredSound ==
  ASSUME IInv, NEW t, NEW w, <<t, w>> \in sentTo, NEW s, AfterAnswer(s, t, w)
  PROVE  Fields(s) /\ Sound(s)
<1>1. /\ s.queue = queuedTasks /\ s.waiting = waitingTasks \ {t}
      /\ s.unused = Append(unusedWorkers, w) /\ s.used = usedWorkers \ {w}
      /\ s.known = workers
      /\ s.open = runs \ {<<t, w>>} /\ s.again = Again(t, w)
  BY DEF AfterAnswer
<1>2. /\ t \in Tasks /\ w \in Workers
      /\ t \notin ToSet(queuedTasks)
      /\ \A v \in usedWorkers \ {w} :
           \E x \in waitingTasks \ {t} : <<x, v>> \in sentTo
      /\ \A x \in (waitingTasks \ {t}) \cap Producing :
           \E v \in Workers : <<x, v>> \in Disarmed(t)
      /\ Disarmed(t) \subseteq taskTimeoutIDs
  BY WithoutTask
<1>3. /\ s.unused \in Seq(Workers)
      /\ ToSet(s.unused) = ToSet(unusedWorkers) \cup {w}
  BY <1>1, <1>2, AppendToSet DEF IInv, TypeOK
<1>4. Again(t, w) \subseteq sentTo
  BY DEF Again, IInv, Consistent, SentBefore
<1>5. /\ s.timers \subseteq taskTimeoutIDs /\ Disarmed(t) \subseteq s.timers
      /\ s.timeouts \subseteq taskTimeouts
      /\ taskTimeouts \ {t} \subseteq s.timeouts
  BY <1>2 DEF AfterAnswer
<1>6. Fields(s)
  BY <1>1, <1>2, <1>3, <1>4, <1>5 DEF Fields, IInv, TypeOK
<1>7. Sound(s)
  <2>1. /\ \A i, j \in 1..Len(s.queue) : s.queue[i] = s.queue[j] => i = j
        /\ \A p \in sentTo : p[1] \notin ToSet(s.queue)
    BY <1>1 DEF IInv, Consistent, SentOnce, QueueOnce
  <2>2. s.open \cup s.again \cup s.timers \subseteq sentTo
    BY <1>1, <1>4, <1>5 DEF IInv, Consistent, SentBefore
  <2>3. \A x \in s.waiting : \E v \in Workers : <<x, v>> \in sentTo
    BY <1>1 DEF IInv, Consistent, WaitingSent
  <2>4. ToSet(s.queue) \cap Producing \subseteq s.timeouts
    BY <1>1, <1>2, <1>5 DEF IInv, Consistent, QueuedHasTimeout
  <2>5. s.known \subseteq ToSet(s.unused) \cup s.used
    BY <1>1, <1>3 DEF IInv, Consistent, WorkersAccounted
  <2>6. \A v \in s.used : \E x \in s.waiting : <<x, v>> \in sentTo
    BY <1>1, <1>2
  <2>7. \A x \in s.waiting \cap Producing :
          \E v \in Workers : <<x, v>> \in s.timers
    BY <1>1, <1>2, <1>5
  <2> QED
    BY <2>1, <2>2, <2>3, <2>4, <2>5, <2>6, <2>7 DEF Sound
<1> QED
  BY <1>6, <1>7

\* updateWorkers() adds the workers that are in neither list.
LEMMA AdditionsProperties ==
  ASSUME IInv, NEW ws \in SUBSET Workers, NEW added \in Additions(ws)
  PROVE  /\ added \in Seq(Workers)
         /\ ToSet(added) = ws \ (usedWorkers \cup ToSet(unusedWorkers))
<1> DEFINE W == ws \ (usedWorkers \cup ToSet(unusedWorkers))
<1>1. IsFiniteSet(W) /\ W \subseteq Workers
  BY WorkersFinite, FS_Subset
<1>2. added \in SetToSeqs(W)
  BY DEF Additions
<1>3. added \in Seq(W) /\ ToSet(added) = W
  BY <1>1, <1>2, SetToSeqsProperties
<1> QED
  BY <1>1, <1>3, SeqMonotonic

\* updateWorkers(): the lists name exactly the recognized workers.
LEMMA UpdatedSound ==
  ASSUME IInv, NEW ws \in SUBSET Workers, NEW added \in Additions(ws)
  PROVE  /\ Fields(Updated(ws, added)) /\ Sound(Updated(ws, added))
         /\ ToSet(Updated(ws, added).unused) \subseteq ws
<1> DEFINE s == Updated(ws, added)
           both == unusedWorkers \o added
<1>1. /\ s.queue = queuedTasks /\ s.waiting = waitingTasks
      /\ s.unused = Filter(both, ws)
      /\ s.used = usedWorkers \cap ws /\ s.known = ws
      /\ s.timeouts = taskTimeouts /\ s.timers = taskTimeoutIDs
      /\ s.open = runs /\ s.again = again
  BY DEF Updated, Now
<1> HIDE DEF s
<1>2. /\ unusedWorkers \in Seq(Workers) /\ added \in Seq(Workers)
      /\ ToSet(added) = ws \ (usedWorkers \cup ToSet(unusedWorkers))
  BY AdditionsProperties DEF IInv, TypeOK
<1>3. both \in Seq(Workers) /\ ToSet(both) = ToSet(unusedWorkers) \cup ToSet(added)
  BY <1>2, ConcatToSet
<1> HIDE DEF both
<1>4. /\ s.unused \in Seq(Workers)
      /\ ToSet(s.unused) = (ToSet(unusedWorkers) \cup ToSet(added)) \cap ws
  <2>1. /\ Filter(both, ws) \in Seq(Workers)
        /\ ToSet(Filter(both, ws)) = ToSet(both) \cap ws
    BY <1>3, FilterProperties
  <2> QED
    BY <1>1, <1>3, <2>1
<1>5. Fields(s)
  BY <1>1, <1>4 DEF Fields, IInv, TypeOK
<1>6. ws \subseteq ToSet(s.unused) \cup s.used
  BY <1>1, <1>2, <1>4
<1>7. Sound(s)
  BY <1>1, <1>6 DEF Sound, IInv, Consistent, SentOnce, QueueOnce, SentBefore,
     WaitingSent, QueuedHasTimeout, UsedHasTask, ProducingTimed
<1> QED
  BY <1>4, <1>5, <1>7 DEF s

-----------------------------------------------------------------------------
(* The actions. *)

\* Types after a promise is settled, or found settled.
LEMMA SettleTypes ==
  ASSUME IInv, NEW t, NEW verdict \in {"finished", "failed"}, Settle(t, verdict)
  PROVE  /\ finishTaskDefers' \subseteq Tasks
         /\ outcome' \in [Tasks -> {"none", "finished", "failed", "dropped"}]
  BY DEF IInv, TypeOK, Settle

\* queueProducingTask (executions.js:195-239).
LEMMA CreateProducingTaskKeeps ==
  ASSUME IInv, NEW t \in Producing, CreateProducingTask(t)
  PROVE  IInv'
<1> DEFINE s == [Now EXCEPT !.queue = Enqueued(t), !.timeouts = @ \cup {t}]
<1>1. /\ t \in Tasks /\ t \notin created
      /\ created' = created \cup {t}
  BY DEF CreateProducingTask, Tasks
<1>2. /\ Enqueued(t) \in Seq(Tasks)
      /\ ToSet(Enqueued(t)) = ToSet(queuedTasks) \cup {t}
      /\ \A i, j \in 1..Len(Enqueued(t)) :
           Enqueued(t)[i] = Enqueued(t)[j] => i = j
      /\ \A p \in sentTo : p[1] \notin ToSet(Enqueued(t))
  BY <1>1, EnqueuedProperties
<1>3. /\ s.queue = Enqueued(t) /\ s.waiting = waitingTasks
      /\ s.unused = unusedWorkers /\ s.used = usedWorkers
      /\ s.known = workers /\ s.timeouts = taskTimeouts \cup {t}
      /\ s.timers = taskTimeoutIDs /\ s.open = runs /\ s.again = again
  BY DEF Now
<1>4. PICK n \in Rounds(s) :
        \/ /\ Returns(n, s) \/ Cut(n, s)
           /\ Schedule(n, s)
           /\ taskTimeouts' = s.timeouts
           /\ finishTaskDefers' = finishTaskDefers \cup {t}
           /\ UNCHANGED outcome
        \/ Fatal(n, s)
  BY DEF CreateProducingTask
<1> HIDE DEF s
<1>5. Fields(s)
  BY <1>1, <1>2, <1>3 DEF Fields, IInv, TypeOK
<1>6. Sound(s)
  BY <1>2, <1>3 DEF Sound, IInv, Consistent, SentOnce, QueueOnce, SentBefore,
     WaitingSent, QueuedHasTimeout, WorkersAccounted, UsedHasTask, ProducingTimed
<1>7. /\ created \subseteq created' /\ created' \subseteq Tasks
      /\ ToSet(s.queue) \subseteq created'
      /\ ToSet(s.queue) \cap Producing \subseteq s.timeouts
  BY <1>1, <1>2, <1>3 DEF IInv, TypeOK, Consistent, QueueOnce, QueuedHasTimeout
<1>8. CASE Fatal(n, s)
  BY <1>5, <1>6, <1>7, <1>8, ExitKeeps DEF Fatal
<1>9. CASE ~Fatal(n, s)
  <2>1. /\ Schedule(n, s) /\ taskTimeouts' = s.timeouts
        /\ finishTaskDefers' = finishTaskDefers \cup {t}
        /\ outcome' = outcome
        /\ master' \in {master, "aborted"}
    BY <1>4, <1>9 DEF Returns, Cut
  <2>2. /\ taskTimeouts' \subseteq Tasks /\ finishTaskDefers' \subseteq Tasks
        /\ outcome' \in [Tasks -> {"none", "finished", "failed", "dropped"}]
        /\ master' \in {"up", "aborted", "exited"}
    BY <1>1, <1>5, <2>1 DEF Fields, IInv, TypeOK
  <2> QED
    BY <1>5, <1>6, <1>7, <2>1, <2>2, StepKeeps
<1> QED
  BY <1>8, <1>9

\* queueMediumReducingTask, queueFinalReducingTask (executions.js:241-329).
LEMMA CreateReducingTaskKeeps ==
  ASSUME IInv, NEW t \in Reducing, CreateReducingTask(t)
  PROVE  IInv'
<1> DEFINE s == [Now EXCEPT !.queue = Enqueued(t)]
<1>1. /\ t \in Tasks /\ t \notin created /\ t \notin Producing
      /\ created' = created \cup {t}
  BY TaskTypes DEF CreateReducingTask, Tasks
<1>2. /\ Enqueued(t) \in Seq(Tasks)
      /\ ToSet(Enqueued(t)) = ToSet(queuedTasks) \cup {t}
      /\ \A i, j \in 1..Len(Enqueued(t)) :
           Enqueued(t)[i] = Enqueued(t)[j] => i = j
      /\ \A p \in sentTo : p[1] \notin ToSet(Enqueued(t))
  BY <1>1, EnqueuedProperties
<1>3. /\ s.queue = Enqueued(t) /\ s.waiting = waitingTasks
      /\ s.unused = unusedWorkers /\ s.used = usedWorkers
      /\ s.known = workers /\ s.timeouts = taskTimeouts
      /\ s.timers = taskTimeoutIDs /\ s.open = runs /\ s.again = again
  BY DEF Now
<1>4. PICK n \in Rounds(s) :
        \/ /\ Returns(n, s)
           /\ Schedule(n, s)
           /\ taskTimeouts' = taskTimeouts \cup {t}
           /\ finishTaskDefers' = finishTaskDefers \cup {t}
           /\ UNCHANGED outcome
        \/ /\ Cut(n, s)
           /\ Schedule(n, s)
           /\ UNCHANGED <<taskTimeouts, finishTaskDefers, outcome>>
        \/ Fatal(n, s)
  BY DEF CreateReducingTask
<1> HIDE DEF s
<1>5. Fields(s)
  BY <1>1, <1>2, <1>3 DEF Fields, IInv, TypeOK
<1>6. Sound(s)
  <2>1. ToSet(s.queue) \cap Producing \subseteq s.timeouts
    BY <1>1, <1>2, <1>3 DEF IInv, Consistent, QueuedHasTimeout
  <2> QED
    BY <1>2, <1>3, <2>1 DEF Sound, IInv, Consistent, SentOnce, QueueOnce,
       SentBefore, WaitingSent, WorkersAccounted, UsedHasTask, ProducingTimed
<1>7. /\ created \subseteq created' /\ created' \subseteq Tasks
      /\ ToSet(s.queue) \subseteq created'
      /\ ToSet(s.queue) \cap Producing \subseteq taskTimeouts
  BY <1>1, <1>2, <1>3 DEF IInv, TypeOK, Consistent, QueueOnce, QueuedHasTimeout
<1>8. CASE Fatal(n, s)
  BY <1>5, <1>6, <1>7, <1>8, ExitKeeps DEF Fatal
<1>9. CASE ~Fatal(n, s)
  <2>1. /\ Schedule(n, s)
        /\ taskTimeouts' \in {taskTimeouts, taskTimeouts \cup {t}}
        /\ finishTaskDefers' \in {finishTaskDefers, finishTaskDefers \cup {t}}
        /\ outcome' = outcome
        /\ master' \in {master, "aborted"}
    BY <1>4, <1>9 DEF Returns, Cut
  <2>2. /\ taskTimeouts' \subseteq Tasks /\ finishTaskDefers' \subseteq Tasks
        /\ outcome' \in [Tasks -> {"none", "finished", "failed", "dropped"}]
        /\ master' \in {"up", "aborted", "exited"}
        /\ ToSet(s.queue) \cap Producing \subseteq taskTimeouts'
    BY <1>1, <1>7, <2>1 DEF IInv, TypeOK
  <2> QED
    BY <1>5, <1>6, <1>7, <2>1, <2>2, StepKeeps
<1> QED
  BY <1>8, <1>9

\* The handler of a finish message (master.js:535-564).
LEMMA DispatchFinishKeeps ==
  ASSUME IInv, NEW t \in Tasks, NEW w \in Workers, DispatchFinish(t, w)
  PROVE  IInv'
<1> DEFINE s == Answered(t, w)
           cleared == [s EXCEPT !.timers = Disarmed(t)]
<1>1. <<t, w>> \in sentTo /\ created' = created
  BY DEF DispatchFinish, Answers, IInv, Consistent, SentBefore
<1>2. PICK n \in Rounds(s) :
        \/ /\ Returns(n, s)
           /\ Schedule(n, cleared)
           /\ taskTimeouts' = taskTimeouts \ {t}
           /\ Settle(t, "finished")
        \/ /\ Cut(n, s)
           /\ Schedule(n, s)
           /\ UNCHANGED <<taskTimeouts, finishTaskDefers, outcome>>
        \/ Fatal(n, s)
  BY DEF DispatchFinish
<1>3. /\ AfterAnswer(s, t, w) /\ AfterAnswer(cleared, t, w)
      /\ s.queue = queuedTasks /\ cleared.queue = s.queue
      /\ cleared.unused = s.unused /\ cleared.known = s.known
  BY DEF AfterAnswer, Answered, Now
<1> HIDE DEF s, cleared
<1>4. Fields(s) /\ Sound(s) /\ Fields(cleared) /\ Sound(cleared)
  BY <1>1, <1>3, AnsweredSound
<1>5. n \in Rounds(cleared)
  BY <1>3 DEF Rounds
<1>6. /\ created' \subseteq Tasks /\ created \subseteq created'
      /\ ToSet(queuedTasks) \subseteq created'
      /\ ToSet(queuedTasks) \cap Producing \subseteq taskTimeouts \ {t}
  BY <1>1, WithoutTask DEF IInv, TypeOK, Consistent, QueueOnce, QueuedHasTimeout
<1>7. /\ taskTimeouts \subseteq Tasks
      /\ finishTaskDefers \subseteq Tasks
      /\ outcome \in [Tasks -> {"none", "finished", "failed", "dropped"}]
      /\ master \in {"up", "aborted", "exited"}
  BY DEF IInv, TypeOK
<1>8. CASE Fatal(n, s)
  BY <1>3, <1>4, <1>6, <1>8, ExitKeeps DEF Fatal
<1>9. CASE Cut(n, s) /\ Schedule(n, s)
           /\ UNCHANGED <<taskTimeouts, finishTaskDefers, outcome>>
  <2>1. master' \in {"up", "aborted", "exited"}
    BY <1>9 DEF Cut
  <2> QED
    BY <1>3, <1>4, <1>6, <1>7, <1>9, <2>1, StepKeeps
<1>10. CASE Returns(n, s) /\ Schedule(n, cleared)
           /\ taskTimeouts' = taskTimeouts \ {t} /\ Settle(t, "finished")
  <2>1. /\ finishTaskDefers' \subseteq Tasks
        /\ outcome' \in [Tasks -> {"none", "finished", "failed", "dropped"}]
    BY <1>10, SettleTypes
  <2>2. master' \in {"up", "aborted", "exited"} /\ taskTimeouts' \subseteq Tasks
    BY <1>7, <1>10 DEF Returns
  <2> QED
    BY <1>3, <1>4, <1>6, <1>10, <1>5, <2>1, <2>2, StepKeeps
<1> QED
  BY <1>2, <1>8, <1>9, <1>10

\* The handler of a failed message (master.js:566-575).
LEMMA DispatchFailedKeeps ==
  ASSUME IInv, NEW t \in Tasks, NEW w \in Workers, DispatchFailed(t, w)
  PROVE  IInv'
<1> DEFINE s == [Answered(t, w) EXCEPT !.timers = Disarmed(t),
                                       !.timeouts = @ \ {t}]
<1>1. <<t, w>> \in sentTo /\ created' = created
  BY DEF DispatchFailed, Answers, IInv, Consistent, SentBefore
<1>2. PICK n \in Rounds(s) :
        \/ /\ Returns(n, s)
           /\ Schedule(n, s)
           /\ taskTimeouts' = s.timeouts
           /\ Settle(t, "failed")
        \/ /\ Cut(n, s)
           /\ Schedule(n, s)
           /\ taskTimeouts' = s.timeouts
           /\ UNCHANGED <<finishTaskDefers, outcome>>
        \/ Fatal(n, s)
  BY DEF DispatchFailed
<1>3. /\ AfterAnswer(s, t, w)
      /\ s.queue = queuedTasks /\ s.timeouts = taskTimeouts \ {t}
  BY DEF AfterAnswer, Answered, Now
<1> HIDE DEF s
<1>4. Fields(s) /\ Sound(s)
  BY <1>1, <1>3, AnsweredSound
<1>5. /\ created' \subseteq Tasks /\ created \subseteq created'
      /\ ToSet(queuedTasks) \subseteq created'
      /\ ToSet(queuedTasks) \cap Producing \subseteq taskTimeouts \ {t}
  BY <1>1, WithoutTask DEF IInv, TypeOK, Consistent, QueueOnce, QueuedHasTimeout
<1>6. /\ taskTimeouts \ {t} \subseteq Tasks
      /\ finishTaskDefers \subseteq Tasks
      /\ outcome \in [Tasks -> {"none", "finished", "failed", "dropped"}]
      /\ master \in {"up", "aborted", "exited"}
  BY DEF IInv, TypeOK
<1>7. CASE Fatal(n, s)
  BY <1>3, <1>4, <1>5, <1>7, ExitKeeps DEF Fatal
<1>8. CASE ~Fatal(n, s)
  <2>1. Schedule(n, s) /\ taskTimeouts' = taskTimeouts \ {t}
    BY <1>2, <1>3, <1>8
  <2>2. master' \in {"up", "aborted", "exited"}
    BY <1>2, <1>6, <1>8 DEF Returns, Cut
  <2>3. Settle(t, "failed") \/ UNCHANGED <<finishTaskDefers, outcome>>
    BY <1>2, <1>8
  <2>4. /\ finishTaskDefers' \subseteq Tasks
        /\ outcome' \in [Tasks -> {"none", "finished", "failed", "dropped"}]
    BY <1>6, <2>3, SettleTypes
  <2> QED
    BY <1>3, <1>4, <1>5, <1>6, <2>1, <2>2, <2>4, StepKeeps
<1> QED
  BY <1>7, <1>8

\* A task's timer (tasks.js:14-23).
LEMMA TaskTimeoutKeeps ==
  ASSUME IInv, NEW t \in Tasks, NEW w \in Workers, TaskTimeout(t, w)
  PROVE  IInv'
<1> DEFINE ws == workers \ {w}
<1>1. /\ <<t, w>> \in sentTo /\ created' = created
      /\ ws \in SUBSET Workers
  BY DEF TaskTimeout, IInv, TypeOK, Consistent, SentBefore
<1>2. PICK added \in Additions(ws) :
        LET s == [Updated(ws, added) EXCEPT
                    !.timers = Disarmed(t), !.timeouts = @ \ {t},
                    !.waiting = @ \ {t}]
        IN \E n \in Rounds(s) :
             /\ Returns(n, s)
             /\ Schedule(n, s)
             /\ taskTimeouts' = s.timeouts
             /\ Settle(t, "failed")
  BY DEF TaskTimeout
<1> DEFINE u == Updated(ws, added)
           s == [u EXCEPT !.timers = Disarmed(t), !.timeouts = @ \ {t},
                          !.waiting = @ \ {t}]
<1>3. PICK n \in Rounds(s) :
        /\ Returns(n, s)
        /\ Schedule(n, s)
        /\ taskTimeouts' = s.timeouts
        /\ Settle(t, "failed")
  BY <1>2
<1>4. /\ u.queue = queuedTasks /\ u.used = usedWorkers \cap ws
      /\ s.queue = u.queue /\ s.waiting = waitingTasks \ {t}
      /\ s.unused = u.unused /\ s.used = u.used /\ s.known = u.known
      /\ s.timeouts = taskTimeouts \ {t} /\ s.timers = Disarmed(t)
      /\ s.open = u.open /\ s.again = u.again
      /\ u.timers = taskTimeoutIDs
  BY DEF Updated, Now
<1> HIDE DEF u, s
<1>5. Fields(u) /\ Sound(u)
  BY <1>1, UpdatedSound DEF u
<1>6. /\ t \notin ToSet(queuedTasks)
      /\ \A v \in usedWorkers \ {w} :
           \E x \in waitingTasks \ {t} : <<x, v>> \in sentTo
      /\ \A x \in (waitingTasks \ {t}) \cap Producing :
           \E v \in Workers : <<x, v>> \in Disarmed(t)
      /\ Disarmed(t) \subseteq taskTimeoutIDs
  BY <1>1, WithoutTask
<1>7. Fields(s)
  BY <1>4, <1>5, <1>6 DEF Fields, IInv, TypeOK
<1>8. ToSet(queuedTasks) \cap Producing \subseteq taskTimeouts \ {t}
  BY <1>6 DEF IInv, Consistent, QueuedHasTimeout
<1>9. Sound(s)
  <2>1. /\ \A i, j \in 1..Len(s.queue) : s.queue[i] = s.queue[j] => i = j
        /\ \A p \in sentTo : p[1] \notin ToSet(s.queue)
        /\ s.known \subseteq ToSet(s.unused) \cup s.used
    BY <1>4, <1>5 DEF Sound
  <2>2. s.open \cup s.again \cup s.timers \subseteq sentTo
    BY <1>4, <1>5, <1>6 DEF Sound
  <2>3. \A x \in s.waiting : \E v \in Workers : <<x, v>> \in sentTo
    BY <1>4 DEF IInv, Consistent, WaitingSent
  <2>4. \A v \in s.used : \E x \in s.waiting : <<x, v>> \in sentTo
    BY <1>4, <1>6
  <2>5. \A x \in s.waiting \cap Producing :
          \E v \in Workers : <<x, v>> \in s.timers
    BY <1>4, <1>6
  <2>6. ToSet(s.queue) \cap Producing \subseteq s.timeouts
    BY <1>4, <1>8
  <2> QED
    BY <2>1, <2>2, <2>3, <2>4, <2>5, <2>6 DEF Sound
<1>10. /\ created' \subseteq Tasks /\ created \subseteq created'
       /\ ToSet(s.queue) \subseteq created'
       /\ taskTimeouts' \subseteq Tasks
       /\ ToSet(s.queue) \cap Producing \subseteq taskTimeouts'
       /\ master' \in {"up", "aborted", "exited"}
  BY <1>1, <1>3, <1>4, <1>8
     DEF IInv, TypeOK, Consistent, QueueOnce, Returns
<1>11. /\ finishTaskDefers' \subseteq Tasks
       /\ outcome' \in [Tasks -> {"none", "finished", "failed", "dropped"}]
  BY <1>3, SettleTypes
<1> QED
  BY <1>3, <1>7, <1>9, <1>10, <1>11, StepKeeps

\* What the heartbeat does to the scheduler (queue.js:106-137).
LEMMA ResyncKeeps ==
  ASSUME IInv, NEW ws \in SUBSET Workers, Resync(ws)
  PROVE  IInv'
<1>1. PICK added \in Additions(ws) :
        LET s == Updated(ws, added)
        IN \E n \in Rounds(s) : Returns(n, s) /\ Schedule(n, s)
  BY DEF Resync
<1> DEFINE s == Updated(ws, added)
<1>2. PICK n \in Rounds(s) : Returns(n, s) /\ Schedule(n, s)
  BY <1>1
<1>3. Fields(s) /\ Sound(s)
  BY UpdatedSound
<1>4. s.queue = queuedTasks
  BY DEF Updated, Now
<1> HIDE DEF s
<1>5. /\ created' = created /\ taskTimeouts' = taskTimeouts
      /\ finishTaskDefers' = finishTaskDefers /\ outcome' = outcome
      /\ master' = master
  BY <1>2 DEF Resync, Returns
<1>6. /\ created \subseteq created' /\ created' \subseteq Tasks
      /\ ToSet(s.queue) \subseteq created'
      /\ ToSet(s.queue) \cap Producing \subseteq taskTimeouts'
      /\ taskTimeouts' \subseteq Tasks /\ finishTaskDefers' \subseteq Tasks
      /\ outcome' \in [Tasks -> {"none", "finished", "failed", "dropped"}]
      /\ master' \in {"up", "aborted", "exited"}
  BY <1>4, <1>5 DEF IInv, TypeOK, Consistent, QueueOnce, QueuedHasTimeout
<1> QED
  BY <1>2, <1>3, <1>6, StepKeeps

\* A run that is not answered changes only the wire.
LEMMA LoseRunKeeps ==
  ASSUME IInv, NEW t \in Tasks, NEW w \in Workers, LoseRun(t, w)
  PROVE  IInv'
<1>1. /\ runs' \subseteq runs /\ again' \subseteq again
      /\ UNCHANGED <<schedulerVars, timerVars, workers, finishTaskDefers, sentTo,
                     created, outcome, master>>
  BY DEF LoseRun
<1>2. TypeOK'
  BY <1>1 DEF IInv, TypeOK, schedulerVars, timerVars
<1>3. Consistent'
  BY <1>1 DEF IInv, Consistent, SentOnce, QueueOnce, SentBefore, WaitingSent,
     QueuedHasTimeout, WorkersAccounted, UsedHasTask, ProducingTimed,
     schedulerVars, timerVars
<1> QED
  BY <1>2, <1>3 DEF IInv

\* Empty tables are consistent with whatever was sent before.
LEMMA MasterExitKeeps ==
  ASSUME IInv, MasterExit
  PROVE  IInv'
<1>1. /\ queuedTasks' = <<>> /\ waitingTasks' = {} /\ unusedWorkers' = <<>>
      /\ usedWorkers' = {} /\ workers' = {} /\ taskTimeouts' = {}
      /\ taskTimeoutIDs' = {} /\ finishTaskDefers' = {}
      /\ runs' = runs /\ again' = again /\ sentTo' = sentTo
      /\ master' = "exited" /\ created' = created
  BY DEF MasterExit, Exit
<1>2. outcome' \in [Tasks -> {"none", "finished", "failed", "dropped"}]
  BY DEF MasterExit, Exit, IInv, TypeOK
<1>3. ToSet(queuedTasks') = {} /\ Len(queuedTasks') = 0
  BY <1>1 DEF ToSet
<1>4. TypeOK'
  BY <1>1, <1>2 DEF IInv, TypeOK
<1>5. SentOnce' /\ SentBefore'
  BY <1>1, <1>3 DEF IInv, Consistent, SentOnce, SentBefore
<1>6. QueueOnce' /\ WaitingSent' /\ QueuedHasTimeout'
  BY <1>1, <1>3 DEF QueueOnce, WaitingSent, QueuedHasTimeout
<1>7. WorkersAccounted' /\ UsedHasTask' /\ ProducingTimed'
  BY <1>1 DEF WorkersAccounted, UsedHasTask, ProducingTimed
<1> QED
  BY <1>4, <1>5, <1>6, <1>7 DEF IInv, Consistent

\* Nothing but the state of the process changes.
LEMMA UnchangedKeeps ==
  ASSUME IInv,
         UNCHANGED <<schedulerVars, timerVars, workers, finishTaskDefers, runs,
                     again, sentTo, created, outcome>>,
         master' \in {"up", "aborted", "exited"}
  PROVE  IInv'
<1>1. TypeOK'
  BY DEF IInv, TypeOK, schedulerVars, timerVars
<1>2. Consistent'
  BY DEF IInv, Consistent, SentOnce, QueueOnce, SentBefore, WaitingSent,
     QueuedHasTimeout, WorkersAccounted, UsedHasTask, ProducingTimed,
     schedulerVars, timerVars
<1> QED
  BY <1>1, <1>2 DEF IInv

-----------------------------------------------------------------------------
(* The theorems. *)

\* The master starts with consistent tables.
LEMMA InitIInv == Init => IInv
<1> SUFFICES ASSUME Init PROVE IInv
  OBVIOUS
<1>1. ToSet(queuedTasks) = {} /\ ToSet(unusedWorkers) = {} /\ Len(queuedTasks) = 0
  BY DEF Init, ToSet
<1>2. TypeOK
  BY DEF Init, TypeOK
<1>3. Consistent
  BY <1>1 DEF Init, Consistent, SentOnce, QueueOnce, SentBefore, WaitingSent,
     QueuedHasTimeout, WorkersAccounted, UsedHasTask, ProducingTimed
<1> QED
  BY <1>2, <1>3 DEF IInv

\* The invariant is inductive: one lemma above for each action.
LEMMA NextIInv == IInv /\ [Next]_vars => IInv'
<1> SUFFICES ASSUME IInv, [Next]_vars PROVE IInv'
  OBVIOUS
<1>1. CASE \E t \in Producing : CreateProducingTask(t)
  BY <1>1, CreateProducingTaskKeeps
<1>2. CASE \E t \in Reducing : CreateReducingTask(t)
  BY <1>2, CreateReducingTaskKeeps
<1>3. CASE \E t \in Tasks, w \in Workers : DispatchFinish(t, w)
  BY <1>3, DispatchFinishKeeps
<1>4. CASE \E t \in Tasks, w \in Workers : DispatchFailed(t, w)
  BY <1>4, DispatchFailedKeeps
<1>5. CASE \E t \in Tasks, w \in Workers : TaskTimeout(t, w)
  BY <1>5, TaskTimeoutKeeps
<1>6. CASE \E t \in Tasks, w \in Workers : LoseRun(t, w)
  BY <1>6, LoseRunKeeps
<1>7. CASE \E w \in Workers : DispatchPong(w)
  <2>1. PICK w \in Workers : Resync(workers \cup {w})
    BY <1>7 DEF DispatchPong
  <2>2. workers \cup {w} \in SUBSET Workers
    BY DEF IInv, TypeOK
  <2> QED
    BY <2>1, <2>2, ResyncKeeps
<1>8. CASE \E gone \in SUBSET Workers : ManageWorkers(gone)
  <2>1. PICK gone \in SUBSET Workers : Resync(workers \ gone)
    BY <1>8 DEF ManageWorkers
  <2>2. workers \ gone \in SUBSET Workers
    BY DEF IInv, TypeOK
  <2> QED
    BY <2>1, <2>2, ResyncKeeps
<1>9. CASE MasterExit
  BY <1>9, MasterExitKeeps
<1>10. CASE MasterStart
  BY <1>10, UnchangedKeeps DEF MasterStart
<1>11. CASE UNCHANGED vars
  BY <1>11, UnchangedKeeps DEF vars, IInv, TypeOK
<1> QED
  BY <1>1, <1>2, <1>3, <1>4, <1>5, <1>6, <1>7, <1>8, <1>9, <1>10, <1>11 DEF Next

\* The tables are consistent in every reachable state.
THEOREM Invariance == Spec => []IInv
  BY InitIInv, NextIInv, PTL DEF Spec

\* Type correctness of the tables (queue.js, tasks.js, master.js).
THEOREM TypeCorrect == Spec => []TypeOK
<1>1. IInv => TypeOK
  BY DEF IInv
<1> QED
  BY <1>1, Invariance, PTL

\* A task is queued at most once and sent to at most one worker in its life,
\* whatever answers, timeouts and restarts come in between (queue.js:45-65,
\* 139-158).
THEOREM QueueIsSound == Spec => []QueueSound
<1>1. IInv => QueueSound
  <2> SUFFICES ASSUME IInv PROVE QueueSound
    OBVIOUS
  <2>1. DOMAIN queuedTasks = 1..Len(queuedTasks)
    BY LenProperties DEF IInv, TypeOK
  <2>2. \A p \in sentTo : \A i \in 1..Len(queuedTasks) : queuedTasks[i] # p[1]
    BY <2>1 DEF IInv, Consistent, SentOnce, ToSet
  <2> QED
    BY <2>2 DEF IInv, Consistent, SentOnce, QueueOnce, WaitingSent, QueueSound
<1> QED
  BY <1>1, Invariance, PTL

\* No recognized worker is lost to the scheduler (queue.js:106-137).
THEOREM NoWorkerLost == Spec => []WorkersAccounted
<1>1. IInv => WorkersAccounted
  BY DEF IInv, Consistent
<1> QED
  BY <1>1, Invariance, PTL

\* A worker marked used has a task that is still waited for (queue.js:139-158,
\* tasks.js:17-21).
THEOREM UsedWorkersBusy == Spec => []UsedHasTask
<1>1. IInv => UsedHasTask
  BY DEF IInv, Consistent
<1> QED
  BY <1>1, Invariance, PTL

\* A producing task that is waited for has its timer armed (tasks.js:14-23,
\* executions.js:195-216).
THEOREM ProducingHasTimer == Spec => []ProducingTimed
<1>1. IInv => ProducingTimed
  BY DEF IInv, Consistent
<1> QED
  BY <1>1, Invariance, PTL

-----------------------------------------------------------------------------
(* QueueScheduler implements TaskPromise: whatever answers, timers and     *)
(* restarts come, the promise of each task is settled at most once and     *)
(* never changes its mind.                                                 *)

\* The refinement mapping of QueueScheduler!Promise.
PromiseOf ==
  [t \in Tasks |->
     IF t \in finishTaskDefers THEN "pending"
     ELSE IF outcome[t] = "none" THEN "absent" ELSE outcome[t]]

\* A task not created yet has no promise: a late answer about a task that an
\* earlier life of the process created cannot settle it.
Fresh ==
  \A t \in Tasks \ created : t \notin finishTaskDefers /\ outcome[t] = "none"

\* What a step may do to the promises.
Made(t) ==
  /\ t \in Tasks \ created /\ created' = created \cup {t}
  /\ finishTaskDefers' = finishTaskDefers \cup {t} /\ outcome' = outcome

Dropped ==
  /\ created \subseteq created'
  /\ finishTaskDefers' = {}
  /\ outcome' = [t \in Tasks |->
                   IF t \in finishTaskDefers THEN "dropped" ELSE outcome[t]]

Untouched ==
  /\ created \subseteq created'
  /\ finishTaskDefers' = finishTaskDefers /\ outcome' = outcome

PromiseStep ==
  \/ \E t \in Tasks : Made(t)
  \/ \E t \in Tasks, verdict \in {"finished", "failed"} :
       Settle(t, verdict) /\ created' = created
  \/ Dropped
  \/ Untouched

-----------------------------------------------------------------------------
\* The process takes every pending promise with it.
LEMMA ExitDrops ==
  ASSUME NEW open, NEW repeated, NEW sent, Exit(open, repeated, sent),
         created \subseteq created'
  PROVE  PromiseStep
  BY DEF Exit, PromiseStep, Dropped

\* Each action makes one promise, settles one, drops all, or touches none.
LEMMA NextPromiseStep == [Next]_vars => PromiseStep
<1> SUFFICES ASSUME [Next]_vars PROVE PromiseStep
  OBVIOUS
<1>1. ASSUME NEW t \in Producing, CreateProducingTask(t) PROVE PromiseStep
  <2> DEFINE s == [Now EXCEPT !.queue = Enqueued(t), !.timeouts = @ \cup {t}]
  <2>1. t \in Tasks \ created /\ created' = created \cup {t}
    BY <1>1 DEF CreateProducingTask, Tasks
  <2>2. PICK n \in Rounds(s) :
          \/ /\ finishTaskDefers' = finishTaskDefers \cup {t}
             /\ UNCHANGED outcome
          \/ Fatal(n, s)
    BY <1>1 DEF CreateProducingTask
  <2> HIDE DEF s
  <2>3. CASE Fatal(n, s)
    BY <2>1, <2>3, ExitDrops DEF Fatal
  <2>4. CASE ~Fatal(n, s)
    BY <2>1, <2>2, <2>4 DEF PromiseStep, Made
  <2> QED
    BY <2>3, <2>4
<1>2. ASSUME NEW t \in Reducing, CreateReducingTask(t) PROVE PromiseStep
  <2> DEFINE s == [Now EXCEPT !.queue = Enqueued(t)]
  <2>1. t \in Tasks \ created /\ created' = created \cup {t}
    BY <1>2 DEF CreateReducingTask, Tasks
  <2>2. PICK n \in Rounds(s) :
          \/ /\ finishTaskDefers' = finishTaskDefers \cup {t}
             /\ UNCHANGED outcome
          \/ UNCHANGED <<finishTaskDefers, outcome>>
          \/ Fatal(n, s)
    BY <1>2 DEF CreateReducingTask
  <2> HIDE DEF s
  <2>3. CASE Fatal(n, s)
    BY <2>1, <2>3, ExitDrops DEF Fatal
  <2>4. CASE ~Fatal(n, s)
    BY <2>1, <2>2, <2>4 DEF PromiseStep, Made, Untouched
  <2> QED
    BY <2>3, <2>4
<1>3. ASSUME NEW t \in Tasks, NEW w \in Workers, DispatchFinish(t, w)
      PROVE  PromiseStep
  <2> DEFINE s == Answered(t, w)
  <2>1. created' = created
    BY <1>3 DEF DispatchFinish
  <2>2. PICK n \in Rounds(s) :
          \/ Settle(t, "finished")
          \/ UNCHANGED <<finishTaskDefers, outcome>>
          \/ Fatal(n, s)
    BY <1>3 DEF DispatchFinish
  <2> HIDE DEF s
  <2>3. CASE Fatal(n, s)
    BY <2>1, <2>3, ExitDrops DEF Fatal
  <2>4. CASE ~Fatal(n, s)
    BY <2>1, <2>2, <2>4 DEF PromiseStep, Untouched
  <2> QED
    BY <2>3, <2>4
<1>4. ASSUME NEW t \in Tasks, NEW w \in Workers, DispatchFailed(t, w)
      PROVE  PromiseStep
  <2> DEFINE s == [Answered(t, w) EXCEPT !.timers = Disarmed(t),
                                         !.timeouts = @ \ {t}]
  <2>1. created' = created
    BY <1>4 DEF DispatchFailed
  <2>2. PICK n \in Rounds(s) :
          \/ Settle(t, "failed")
          \/ UNCHANGED <<finishTaskDefers, outcome>>
          \/ Fatal(n, s)
    BY <1>4 DEF DispatchFailed
  <2> HIDE DEF s
  <2>3. CASE Fatal(n, s)
    BY <2>1, <2>3, ExitDrops DEF Fatal
  <2>4. CASE ~Fatal(n, s)
    BY <2>1, <2>2, <2>4 DEF PromiseStep, Untouched
  <2> QED
    BY <2>3, <2>4
<1>5. ASSUME NEW t \in Tasks, NEW w \in Workers, TaskTimeout(t, w)
      PROVE  PromiseStep
  <2>1. Settle(t, "failed") /\ created' = created
    BY <1>5 DEF TaskTimeout
  <2> QED
    BY <2>1 DEF PromiseStep
<1>6. ASSUME NEW t \in Tasks, NEW w \in Workers, LoseRun(t, w)
      PROVE  PromiseStep
  BY <1>6 DEF LoseRun, PromiseStep, Untouched
<1>7. ASSUME NEW ws, Resync(ws) PROVE PromiseStep
  BY <1>7 DEF Resync, PromiseStep, Untouched
<1>8. CASE \E w \in Workers : DispatchPong(w)
  BY <1>7, <1>8 DEF DispatchPong
<1>9. CASE \E gone \in SUBSET Workers : ManageWorkers(gone)
  BY <1>7, <1>9 DEF ManageWorkers
<1>10. CASE MasterExit
  BY <1>10, ExitDrops DEF MasterExit
<1>11. CASE MasterStart
  BY <1>11 DEF MasterStart, PromiseStep, Untouched
<1>12. CASE UNCHANGED vars
  BY <1>12 DEF vars, PromiseStep, Untouched
<1> QED
  BY <1>1, <1>2, <1>3, <1>4, <1>5, <1>6, <1>8, <1>9, <1>10, <1>11, <1>12 DEF Next

\* Tasks not created yet stay without a promise.
LEMMA FreshKeeps == TypeOK /\ Fresh /\ PromiseStep => Fresh'
<1> SUFFICES ASSUME TypeOK, Fresh, PromiseStep PROVE Fresh'
  OBVIOUS
<1>1. CASE \E t \in Tasks : Made(t)
  BY <1>1 DEF Made, Fresh
<1>2. CASE \E t \in Tasks, verdict \in {"finished", "failed"} :
             Settle(t, verdict) /\ created' = created
  BY <1>2 DEF Settle, Fresh, TypeOK
<1>3. CASE Dropped
  BY <1>3 DEF Dropped, Fresh
<1>4. CASE Untouched
  BY <1>4 DEF Untouched, Fresh
<1> QED
  BY <1>1, <1>2, <1>3, <1>4 DEF PromiseStep

\* Under the mapping, each kind of step is one of TaskPromise, or none.
LEMMA PromiseStepRefines ==
  ASSUME TypeOK, Fresh, PromiseStep
  PROVE  Promise!Next \/ UNCHANGED PromiseOf
<1>1. ASSUME NEW t \in Tasks, Made(t) PROVE Promise!Make(t)
  <2>1. PromiseOf[t] = "absent"
    BY <1>1 DEF Made, Fresh, PromiseOf
  <2>2. PromiseOf' = [PromiseOf EXCEPT ![t] = "pending"]
    BY <1>1 DEF Made, PromiseOf
  <2> QED
    BY <2>1, <2>2 DEF PromiseOf, Promise!Make
<1>2. ASSUME NEW t \in Tasks, NEW verdict \in {"finished", "failed"},
             Settle(t, verdict)
      PROVE  Promise!Settle(t) \/ UNCHANGED PromiseOf
  <2>1. CASE t \in finishTaskDefers
    <3>1. PromiseOf[t] = "pending"
      BY <2>1 DEF PromiseOf
    <3>2. PromiseOf' = [PromiseOf EXCEPT ![t] = verdict]
      BY <1>2, <2>1 DEF Settle, PromiseOf, TypeOK
    <3> QED
      BY <3>1, <3>2 DEF PromiseOf, Promise!Settle
  <2>2. CASE t \notin finishTaskDefers
    <3>1. finishTaskDefers' = finishTaskDefers /\ outcome' = outcome
      BY <1>2, <2>2 DEF Settle
    <3> QED
      BY <3>1 DEF PromiseOf
  <2> QED
    BY <2>1, <2>2
<1>3. ASSUME Dropped PROVE Promise!Drop
  <2>1. PromiseOf' = [t \in Tasks |->
                        IF PromiseOf[t] = "pending" THEN "dropped" ELSE PromiseOf[t]]
    <3>1. ASSUME NEW t \in Tasks
          PROVE  PromiseOf'[t] = IF PromiseOf[t] = "pending" THEN "dropped"
                                 ELSE PromiseOf[t]
      BY <1>3 DEF Dropped, PromiseOf, TypeOK
    <3> QED
      BY <3>1 DEF PromiseOf
  <2> QED
    BY <2>1 DEF PromiseOf, Promise!Drop
<1>4. ASSUME Untouched PROVE UNCHANGED PromiseOf
  BY <1>4 DEF Untouched, PromiseOf
<1> QED
  BY <1>1, <1>2, <1>3, <1>4 DEF PromiseStep, Promise!Next

\* The task path implements the promise it makes to executions
\* (executions.js:336-396, master.js:535-575).
THEOREM PromisesKept == Spec => PromiseSpec
<1>1. Init => Fresh
  BY DEF Init, Fresh
<1>2. IInv => TypeOK
  BY DEF IInv
<1>3. TypeOK /\ Fresh /\ [Next]_vars => Fresh'
  BY FreshKeeps, NextPromiseStep
<1>4. Init => Promise!Init
  BY DEF Init, Promise!Init
<1>5. TypeOK /\ Fresh /\ [Next]_vars
        => [Promise!Next]_[t \in Tasks |->
                             IF t \in finishTaskDefers THEN "pending"
                             ELSE IF outcome[t] = "none" THEN "absent"
                             ELSE outcome[t]]
  BY PromiseStepRefines, NextPromiseStep DEF PromiseOf
<1> QED
  BY <1>1, <1>2, <1>3, <1>4, <1>5, Invariance, PTL DEF Spec, PromiseSpec, Promise!Spec

-----------------------------------------------------------------------------
(* No task waits beside an idle worker, no timer and no promise is left    *)
(* behind, and reducing tasks go first.  All but the last hold as long as  *)
(* no handler was cut short by an exception.                               *)

\* The reducing tasks of a queue are in front.
Ahead(q) ==
  \A i, j \in 1..Len(q) : i < j /\ q[j] \in Reducing => q[i] \in Reducing

\* Nothing is left of a process that has exited.
Empty ==
  master = "exited" =>
    queuedTasks = <<>> /\ taskTimeoutIDs = {} /\ finishTaskDefers = {}

Served ==
  /\ Empty
  /\ NoIdleWorker
  /\ TimerHasTask
  /\ PromiseTracked
  /\ Ahead(queuedTasks)

\* The step of ReducingFirst.
Overtaking ==
  \A p \in sentTo' \ sentTo :
    p[1] \in Producing => ToSet(queuedTasks') \cap Reducing = {}

-----------------------------------------------------------------------------
(* What schedule() does for a handler. *)

\* It takes tasks from the front of the queue, where the reducing tasks are.
LEMMA ScheduleOrder ==
  ASSUME NEW s, Fields(s), NEW n \in Rounds(s), Schedule(n, s), Ahead(s.queue)
  PROVE  Ahead(queuedTasks') /\ Overtaking
<1> DEFINE q == s.queue
           r == queuedTasks'
<1>1. q \in Seq(Tasks) /\ Len(q) \in Nat /\ n \in 0..Len(q) /\ n \in Nat
  BY RoundsBounds, LenProperties DEF Fields
<1>2. /\ r \in Seq(Tasks) /\ Len(r) = Len(q) - n
      /\ \A i \in 1..(Len(q) - n) : r[i] = q[n + i]
  BY <1>1, ShiftProperties DEF Schedule, Shifted
<1>3. sentTo' = sentTo \cup Pairs(n, s)
  BY DEF Schedule
<1>4. \A i, j \in 1..Len(q) : i < j /\ q[j] \in Reducing => q[i] \in Reducing
  BY DEF Ahead
<1>5. DOMAIN r = 1..Len(r)
  BY <1>2, LenProperties
<1>6. \A p \in Pairs(n, s) : \E i \in 1..n : p[1] = q[i]
  BY DEF Pairs
<1> HIDE DEF q, r
<1>7. Ahead(r)
  <2> SUFFICES ASSUME NEW i \in 1..Len(r), NEW j \in 1..Len(r),
                      i < j, r[j] \in Reducing
               PROVE  r[i] \in Reducing
    BY DEF Ahead
  <2>1. n + i \in 1..Len(q) /\ n + j \in 1..Len(q) /\ n + i < n + j
    BY <1>1, <1>2
  <2> QED
    BY <1>2, <1>4, <2>1
<1>8. ASSUME NEW p \in sentTo' \ sentTo, p[1] \in Producing,
             NEW x \in ToSet(r) \cap Reducing
      PROVE  FALSE
  <2>1. PICK i \in 1..n : p[1] = q[i]
    BY <1>3, <1>6, <1>8
  <2>2. PICK j \in 1..Len(r) : x = r[j]
    BY <1>5, <1>8 DEF ToSet
  <2>3. i \in 1..Len(q) /\ n + j \in 1..Len(q) /\ i < n + j
    BY <1>1, <1>2
  <2>4. q[i] \in Reducing
    BY <1>2, <1>4, <1>8, <2>2, <2>3
  <2> QED
    BY <1>8, <2>1, <2>4, TaskTypes
<1> QED
  BY <1>7, <1>8 DEF Overtaking, r

\* Unless it throws, it leaves no task or no worker, arms timers only for tasks
\* it moves to the waiting ones, and loses none.
LEMMA ScheduleServes ==
  ASSUME NEW s, Fields(s), NEW n \in Rounds(s), Schedule(n, s), ~Throws(n, s),
         \A p \in s.timers : p[1] \in s.waiting,
         finishTaskDefers' \subseteq ToSet(s.queue) \cup s.waiting
  PROVE  /\ queuedTasks' = <<>> \/ unusedWorkers' = <<>>
         /\ \A p \in taskTimeoutIDs' : p[1] \in waitingTasks'
         /\ finishTaskDefers' \subseteq ToSet(queuedTasks') \cup waitingTasks'
<1> DEFINE q == s.queue
           u == s.unused
<1>1. /\ q \in Seq(Tasks) /\ u \in Seq(Workers)
      /\ n \in 0..Len(q) /\ n \in 0..Len(u)
  BY RoundsBounds DEF Fields
<1>2. n = Len(q) \/ n = Len(u)
  BY DEF Rounds, Throws
<1>3. /\ queuedTasks' \in Seq(Tasks) /\ Len(queuedTasks') = Len(q) - n
      /\ ToSet(q) = ToSet(queuedTasks') \cup {q[i] : i \in 1..n}
  BY <1>1, ShiftProperties DEF Schedule, Shifted
<1>4. unusedWorkers' \in Seq(Workers) /\ Len(unusedWorkers') = Len(u) - n
  BY <1>1, ShiftProperties DEF Schedule, Shifted
<1>5. /\ waitingTasks' = s.waiting \cup {q[i] : i \in 1..n}
      /\ taskTimeoutIDs' = s.timers \cup Armed(n, s)
  BY DEF Schedule
<1>6. \A p \in Armed(n, s) : \E i \in 1..n : p[1] = q[i]
  BY DEF Armed, Pairs
<1>7. queuedTasks' = <<>> \/ unusedWorkers' = <<>>
  <2>1. Len(q) \in Nat /\ Len(u) \in Nat
    BY <1>1, LenProperties
  <2>2. Len(queuedTasks') = 0 \/ Len(unusedWorkers') = 0
    BY <1>1, <1>2, <1>3, <1>4, <2>1
  <2> QED
    BY <1>3, <1>4, <2>2, EmptySeq
<1>8. \A p \in taskTimeoutIDs' : p[1] \in waitingTasks'
  BY <1>5, <1>6
<1>9. finishTaskDefers' \subseteq ToSet(queuedTasks') \cup waitingTasks'
  BY <1>3, <1>5
<1> QED
  BY <1>7, <1>8, <1>9

\* A handler that ends in schedule(): by its exception ("aborted") or not.
LEMMA StepServes ==
  ASSUME NEW s, Fields(s), NEW n \in Rounds(s), Schedule(n, s), Ahead(s.queue),
         master' # "exited",
         master' = "up" =>
           /\ ~Throws(n, s)
           /\ \A p \in s.timers : p[1] \in s.waiting
           /\ finishTaskDefers' \subseteq ToSet(s.queue) \cup s.waiting
  PROVE  Served' /\ Overtaking
<1>1. Ahead(queuedTasks') /\ Overtaking
  BY ScheduleOrder
<1>2. CASE master' = "up"
  <2>1. /\ queuedTasks' = <<>> \/ unusedWorkers' = <<>>
        /\ \A p \in taskTimeoutIDs' : p[1] \in waitingTasks'
        /\ finishTaskDefers' \subseteq ToSet(queuedTasks') \cup waitingTasks'
    BY <1>2, ScheduleServes
  <2> QED
    BY <1>1, <2>1 DEF Served, Empty, NoIdleWorker, TimerHasTask, PromiseTracked
<1>3. CASE master' # "up"
  BY <1>1, <1>3 DEF Served, Empty, NoIdleWorker, TimerHasTask, PromiseTracked
<1> QED
  BY <1>2, <1>3

\* The end of the process.
LEMMA ExitServes ==
  ASSUME NEW open, NEW repeated, NEW sent, Exit(open, repeated, sent)
  PROVE  Served' /\ Overtaking
<1>1. /\ queuedTasks' = <<>> /\ taskTimeoutIDs' = {} /\ finishTaskDefers' = {}
      /\ master' = "exited"
  BY DEF Exit
<1>2. Len(queuedTasks') = 0 /\ ToSet(queuedTasks') = {}
  BY <1>1 DEF ToSet
<1>3. Ahead(queuedTasks')
  BY <1>2 DEF Ahead
<1> QED
  BY <1>1, <1>2, <1>3
     DEF Served, Empty, NoIdleWorker, TimerHasTask, PromiseTracked, Overtaking

\* createTask puts a reducing task in front, a producing one behind.
LEMMA EnqueuedAhead ==
  ASSUME NEW t \in Tasks, queuedTasks \in Seq(Tasks), Ahead(queuedTasks)
  PROVE  Ahead(Enqueued(t))
<1> DEFINE q == queuedTasks
           e == Enqueued(t)
<1>1. Len(q) \in Nat
  BY LenProperties
<1>2. \A i, j \in 1..Len(q) : i < j /\ q[j] \in Reducing => q[i] \in Reducing
  BY DEF Ahead
<1>3. CASE t \in Producing
  <2>1. /\ e = Append(q, t) /\ Len(e) = Len(q) + 1
        /\ \A i \in 1..Len(q) : e[i] = q[i]
        /\ e[Len(q) + 1] = t
    BY <1>3, AppendToSet DEF Enqueued
  <2>2. t \notin Reducing
    BY <1>3, TaskTypes
  <2> HIDE DEF q, e
  <2> SUFFICES ASSUME NEW i \in 1..Len(e), NEW j \in 1..Len(e),
                      i < j, e[j] \in Reducing
               PROVE  e[i] \in Reducing
    BY DEF Ahead, e
  <2>3. j \in 1..Len(q) /\ i \in 1..Len(q)
    BY <1>1, <2>1, <2>2
  <2> QED
    BY <1>2, <2>1, <2>3
<1>4. CASE t \notin Producing
  <2> DEFINE one == <<t>>
  <2>1. t \in Reducing /\ e = one \o q
    BY <1>4 DEF Tasks, Enqueued
  <2>2. one \in Seq(Tasks) /\ Len(one) = 1 /\ one[1] = t
    OBVIOUS
  <2> HIDE DEF one
  <2>3. Len(one \o q) = Len(one) + Len(q)
    BY <2>2, ConcatToSet
  <2>4. \A i \in 1..Len(one) : (one \o q)[i] = one[i]
    BY <2>2, ConcatToSet
  <2>5. \A i \in 1..Len(q) : (one \o q)[Len(one) + i] = q[i]
    BY <2>2, ConcatToSet
  <2>6. /\ Len(e) = Len(q) + 1 /\ e[1] = t
        /\ \A i \in 1..Len(q) : e[i + 1] = q[i]
    BY <1>1, <2>1, <2>2, <2>3, <2>4, <2>5
  <2> HIDE DEF q, e
  <2> SUFFICES ASSUME NEW i \in 1..Len(e), NEW j \in 1..Len(e),
                      i < j, e[j] \in Reducing, i # 1
               PROVE  e[i] \in Reducing
    BY <2>1, <2>6 DEF Ahead, e
  <2>7. /\ i - 1 \in 1..Len(q) /\ j - 1 \in 1..Len(q) /\ i - 1 < j - 1
        /\ (i - 1) + 1 = i /\ (j - 1) + 1 = j
    BY <1>1, <2>6
  <2>8. e[i] = q[i - 1] /\ e[j] = q[j - 1]
    BY <2>6, <2>7
  <2> QED
    BY <1>2, <2>7, <2>8
<1> QED
  BY <1>3, <1>4

-----------------------------------------------------------------------------
(* The actions. *)

\* queueProducingTask (executions.js:195-239).
LEMMA CreateProducingTaskServes ==
  ASSUME IInv, Served, NEW t \in Producing, CreateProducingTask(t)
  PROVE  Served' /\ Overtaking
<1> DEFINE s == [Now EXCEPT !.queue = Enqueued(t), !.timeouts = @ \cup {t}]
<1>1. t \in Tasks /\ t \notin created /\ Up
  BY DEF CreateProducingTask, Tasks
<1>2. /\ Enqueued(t) \in Seq(Tasks)
      /\ ToSet(Enqueued(t)) = ToSet(queuedTasks) \cup {t}
  BY <1>1, EnqueuedProperties
<1>3. /\ s.queue = Enqueued(t) /\ s.waiting = waitingTasks
      /\ s.unused = unusedWorkers /\ s.used = usedWorkers
      /\ s.known = workers /\ s.timeouts = taskTimeouts \cup {t}
      /\ s.timers = taskTimeoutIDs /\ s.open = runs /\ s.again = again
  BY DEF Now
<1>4. PICK n \in Rounds(s) :
        \/ /\ Returns(n, s) \/ Cut(n, s)
           /\ Schedule(n, s)
           /\ taskTimeouts' = s.timeouts
           /\ finishTaskDefers' = finishTaskDefers \cup {t}
           /\ UNCHANGED outcome
        \/ Fatal(n, s)
  BY DEF CreateProducingTask
<1> HIDE DEF s
<1>5. Fields(s)
  BY <1>1, <1>2, <1>3 DEF Fields, IInv, TypeOK
<1>6. Ahead(s.queue)
  BY <1>1, <1>3, EnqueuedAhead DEF Served, IInv, TypeOK
<1>7. CASE Fatal(n, s)
  BY <1>7, ExitServes DEF Fatal
<1>8. CASE ~Fatal(n, s)
  <2>1. /\ Schedule(n, s) /\ finishTaskDefers' = finishTaskDefers \cup {t}
        /\ Returns(n, s) \/ Cut(n, s)
    BY <1>4, <1>8
  <2>2. master' # "exited"
    BY <1>1, <2>1 DEF Returns, Cut, Up
  <2>3. master' = "up" => ~Throws(n, s) /\ master = "up"
    BY <2>1 DEF Returns, Cut
  <2>4. master' = "up" =>
          /\ \A p \in s.timers : p[1] \in s.waiting
          /\ finishTaskDefers' \subseteq ToSet(s.queue) \cup s.waiting
    BY <1>2, <1>3, <2>1, <2>3 DEF Served, TimerHasTask, PromiseTracked
  <2> QED
    BY <1>5, <1>6, <2>1, <2>2, <2>3, <2>4, StepServes
<1> QED
  BY <1>7, <1>8

\* queueMediumReducingTask, queueFinalReducingTask (executions.js:241-329).
LEMMA CreateReducingTaskServes ==
  ASSUME IInv, Served, NEW t \in Reducing, CreateReducingTask(t)
  PROVE  Served' /\ Overtaking
<1> DEFINE s == [Now EXCEPT !.queue = Enqueued(t)]
<1>1. t \in Tasks /\ t \notin created /\ Up
  BY DEF CreateReducingTask, Tasks
<1>2. /\ Enqueued(t) \in Seq(Tasks)
      /\ ToSet(Enqueued(t)) = ToSet(queuedTasks) \cup {t}
  BY <1>1, EnqueuedProperties
<1>3. /\ s.queue = Enqueued(t) /\ s.waiting = waitingTasks
      /\ s.unused = unusedWorkers /\ s.used = usedWorkers
      /\ s.known = workers /\ s.timeouts = taskTimeouts
      /\ s.timers = taskTimeoutIDs /\ s.open = runs /\ s.again = again
  BY DEF Now
<1>4. PICK n \in Rounds(s) :
        \/ /\ Returns(n, s)
           /\ Schedule(n, s)
           /\ taskTimeouts' = taskTimeouts \cup {t}
           /\ finishTaskDefers' = finishTaskDefers \cup {t}
           /\ UNCHANGED outcome
        \/ /\ Cut(n, s)
           /\ Schedule(n, s)
           /\ UNCHANGED <<taskTimeouts, finishTaskDefers, outcome>>
        \/ Fatal(n, s)
  BY DEF CreateReducingTask
<1> HIDE DEF s
<1>5. Fields(s)
  BY <1>2, <1>3 DEF Fields, IInv, TypeOK
<1>6. Ahead(s.queue)
  BY <1>1, <1>3, EnqueuedAhead DEF Served, IInv, TypeOK
<1>7. CASE Fatal(n, s)
  BY <1>7, ExitServes DEF Fatal
<1>8. CASE ~Fatal(n, s)
  <2>1. /\ Schedule(n, s)
        /\ finishTaskDefers' \in {finishTaskDefers, finishTaskDefers \cup {t}}
        /\ Returns(n, s) \/ Cut(n, s)
    BY <1>4, <1>8
  <2>2. master' # "exited"
    BY <1>1, <2>1 DEF Returns, Cut, Up
  <2>3. master' = "up" => ~Throws(n, s) /\ master = "up"
    BY <2>1 DEF Returns, Cut
  <2>4. master' = "up" =>
          /\ \A p \in s.timers : p[1] \in s.waiting
          /\ finishTaskDefers' \subseteq ToSet(s.queue) \cup s.waiting
    BY <1>2, <1>3, <2>1, <2>3 DEF Served, TimerHasTask, PromiseTracked
  <2> QED
    BY <1>5, <1>6, <2>1, <2>2, <2>3, <2>4, StepServes
<1> QED
  BY <1>7, <1>8

\* Clearing the timer of a task that is no longer waited for, and settling its
\* promise, leaves the other timers and promises with their tasks.
LEMMA WithoutTaskServes ==
  ASSUME IInv, Served, master = "up", NEW t, NEW verdict, Settle(t, verdict)
  PROVE  /\ \A p \in Disarmed(t) : p[1] \in waitingTasks \ {t}
         /\ finishTaskDefers' \subseteq ToSet(queuedTasks) \cup (waitingTasks \ {t})
<1>1. \A p \in Disarmed(t) : p[1] \in waitingTasks \ {t}
  BY DEF Disarmed, Served, TimerHasTask
<1>2. finishTaskDefers' \subseteq ToSet(queuedTasks) \cup (waitingTasks \ {t})
  BY DEF Settle, Served, PromiseTracked
<1> QED
  BY <1>1, <1>2

\* The handler of a finish message (master.js:535-564).
LEMMA DispatchFinishServes ==
  ASSUME IInv, Served, NEW t \in Tasks, NEW w \in Workers, DispatchFinish(t, w)
  PROVE  Served' /\ Overtaking
<1> DEFINE s == Answered(t, w)
           cleared == [s EXCEPT !.timers = Disarmed(t)]
<1>1. <<t, w>> \in sentTo /\ Up
  BY DEF DispatchFinish, Answers, IInv, Consistent, SentBefore
<1>2. PICK n \in Rounds(s) :
        \/ /\ Returns(n, s)
           /\ Schedule(n, cleared)
           /\ taskTimeouts' = taskTimeouts \ {t}
           /\ Settle(t, "finished")
        \/ /\ Cut(n, s)
           /\ Schedule(n, s)
           /\ UNCHANGED <<taskTimeouts, finishTaskDefers, outcome>>
        \/ Fatal(n, s)
  BY DEF DispatchFinish
<1>3. /\ AfterAnswer(s, t, w) /\ AfterAnswer(cleared, t, w)
      /\ s.queue = queuedTasks /\ cleared.queue = s.queue
      /\ cleared.unused = s.unused /\ cleared.known = s.known
      /\ cleared.waiting = waitingTasks \ {t} /\ cleared.timers = Disarmed(t)
  BY DEF AfterAnswer, Answered, Now
<1> HIDE DEF s, cleared
<1>4. Fields(s) /\ Fields(cleared)
  BY <1>1, <1>3, AnsweredSound
<1>5. n \in Rounds(cleared) /\ (Throws(n, cleared) <=> Throws(n, s))
  BY <1>3 DEF Rounds, Throws
<1>6. Ahead(s.queue) /\ Ahead(cleared.queue)
  BY <1>3 DEF Served
<1>7. CASE Fatal(n, s)
  BY <1>7, ExitServes DEF Fatal
<1>8. CASE Cut(n, s) /\ Schedule(n, s)
  <2>1. master' = "aborted"
    BY <1>8 DEF Cut
  <2> QED
    BY <1>4, <1>6, <1>8, <2>1, StepServes
<1>9. CASE Returns(n, s) /\ Schedule(n, cleared) /\ Settle(t, "finished")
  <2>1. master' = master /\ master' # "exited" /\ ~Throws(n, cleared)
    BY <1>1, <1>5, <1>9 DEF Returns, Up
  <2>2. master' = "up" =>
          /\ \A p \in cleared.timers : p[1] \in cleared.waiting
          /\ finishTaskDefers' \subseteq ToSet(cleared.queue) \cup cleared.waiting
    BY <1>3, <1>9, <2>1, WithoutTaskServes
  <2> QED
    BY <1>4, <1>5, <1>6, <1>9, <2>1, <2>2, StepServes
<1> QED
  BY <1>2, <1>7, <1>8, <1>9

\* The handler of a failed message (master.js:566-575).
LEMMA DispatchFailedServes ==
  ASSUME IInv, Served, NEW t \in Tasks, NEW w \in Workers, DispatchFailed(t, w)
  PROVE  Served' /\ Overtaking
<1> DEFINE s == [Answered(t, w) EXCEPT !.timers = Disarmed(t),
                                       !.timeouts = @ \ {t}]
<1>1. <<t, w>> \in sentTo /\ Up
  BY DEF DispatchFailed, Answers, IInv, Consistent, SentBefore
<1>2. PICK n \in Rounds(s) :
        \/ /\ Returns(n, s)
           /\ Schedule(n, s)
           /\ taskTimeouts' = s.timeouts
           /\ Settle(t, "failed")
        \/ /\ Cut(n, s)
           /\ Schedule(n, s)
           /\ taskTimeouts' = s.timeouts
           /\ UNCHANGED <<finishTaskDefers, outcome>>
        \/ Fatal(n, s)
  BY DEF DispatchFailed
<1>3. /\ AfterAnswer(s, t, w) /\ s.queue = queuedTasks
      /\ s.waiting = waitingTasks \ {t} /\ s.timers = Disarmed(t)
  BY DEF AfterAnswer, Answered, Now
<1> HIDE DEF s
<1>4. Fields(s) /\ Ahead(s.queue)
  BY <1>1, <1>3, AnsweredSound DEF Served
<1>5. CASE Fatal(n, s)
  BY <1>5, ExitServes DEF Fatal
<1>6. CASE Cut(n, s) /\ Schedule(n, s)
  <2>1. master' = "aborted"
    BY <1>6 DEF Cut
  <2> QED
    BY <1>4, <1>6, <2>1, StepServes
<1>7. CASE Returns(n, s) /\ Schedule(n, s) /\ Settle(t, "failed")
  <2>1. master' = master /\ master' # "exited" /\ ~Throws(n, s)
    BY <1>1, <1>7 DEF Returns, Up
  <2>2. master' = "up" =>
          /\ \A p \in s.timers : p[1] \in s.waiting
          /\ finishTaskDefers' \subseteq ToSet(s.queue) \cup s.waiting
    BY <1>3, <1>7, <2>1, WithoutTaskServes
  <2> QED
    BY <1>4, <1>7, <2>1, <2>2, StepServes
<1> QED
  BY <1>2, <1>5, <1>6, <1>7

\* A task's timer (tasks.js:14-23).
LEMMA TaskTimeoutServes ==
  ASSUME IInv, Served, NEW t \in Tasks, NEW w \in Workers, TaskTimeout(t, w)
  PROVE  Served' /\ Overtaking
<1> DEFINE ws == workers \ {w}
<1>1. Up /\ ws \in SUBSET Workers
  BY DEF TaskTimeout, IInv, TypeOK
<1>2. PICK added \in Additions(ws) :
        LET s == [Updated(ws, added) EXCEPT
                    !.timers = Disarmed(t), !.timeouts = @ \ {t},
                    !.waiting = @ \ {t}]
        IN \E n \in Rounds(s) :
             /\ Returns(n, s)
             /\ Schedule(n, s)
             /\ taskTimeouts' = s.timeouts
             /\ Settle(t, "failed")
  BY DEF TaskTimeout
<1> DEFINE u == Updated(ws, added)
           s == [u EXCEPT !.timers = Disarmed(t), !.timeouts = @ \ {t},
                          !.waiting = @ \ {t}]
<1>3. PICK n \in Rounds(s) :
        /\ Returns(n, s)
        /\ Schedule(n, s)
        /\ Settle(t, "failed")
  BY <1>2
<1>4. /\ s.queue = queuedTasks /\ u.queue = queuedTasks
      /\ s.waiting = waitingTasks \ {t}
      /\ s.unused = u.unused /\ s.used = u.used /\ s.known = u.known
      /\ s.timeouts = taskTimeouts \ {t} /\ s.timers = Disarmed(t)
      /\ s.open = u.open /\ s.again = u.again
  BY DEF Updated, Now
<1> HIDE DEF u, s
<1>5. Fields(u)
  BY <1>1, UpdatedSound DEF u
<1>6. Fields(s)
  BY <1>4, <1>5 DEF Fields, IInv, TypeOK, Disarmed
<1>7. Ahead(s.queue)
  BY <1>4 DEF Served
<1>8. master' = master /\ master' # "exited" /\ ~Throws(n, s)
  BY <1>1, <1>3 DEF Returns, Up
<1>9. master' = "up" =>
        /\ \A p \in s.timers : p[1] \in s.waiting
        /\ finishTaskDefers' \subseteq ToSet(s.queue) \cup s.waiting
  BY <1>3, <1>4, <1>8, WithoutTaskServes
<1> QED
  BY <1>3, <1>6, <1>7, <1>8, <1>9, StepServes

\* What the heartbeat does to the scheduler (queue.js:106-137).
LEMMA ResyncServes ==
  ASSUME IInv, Served, Up, NEW ws \in SUBSET Workers, Resync(ws)
  PROVE  Served' /\ Overtaking
<1>1. PICK added \in Additions(ws) :
        LET s == Updated(ws, added)
        IN \E n \in Rounds(s) : Returns(n, s) /\ Schedule(n, s)
  BY DEF Resync
<1> DEFINE s == Updated(ws, added)
<1>2. PICK n \in Rounds(s) : Returns(n, s) /\ Schedule(n, s)
  BY <1>1
<1>3. Fields(s)
  BY UpdatedSound
<1>4. /\ s.queue = queuedTasks /\ s.waiting = waitingTasks
      /\ s.timers = taskTimeoutIDs
  BY DEF Updated, Now
<1> HIDE DEF s
<1>5. /\ finishTaskDefers' = finishTaskDefers /\ master' = master
      /\ master' # "exited" /\ ~Throws(n, s)
  BY <1>2 DEF Resync, Returns, Up
<1>6. Ahead(s.queue)
  BY <1>4 DEF Served
<1>7. master' = "up" =>
        /\ \A p \in s.timers : p[1] \in s.waiting
        /\ finishTaskDefers' \subseteq ToSet(s.queue) \cup s.waiting
  BY <1>4, <1>5 DEF Served, TimerHasTask, PromiseTracked
<1> QED
  BY <1>2, <1>3, <1>5, <1>6, <1>7, StepServes

\* The tables stay as they are; only a process that starts with empty ones may
\* call itself up.
LEMMA UnchangedServes ==
  ASSUME IInv, Served,
         UNCHANGED <<schedulerVars, timerVars, finishTaskDefers, sentTo>>,
         master' = master \/ (master = "exited" /\ master' = "up")
  PROVE  Served' /\ Overtaking
<1>1. /\ queuedTasks' = queuedTasks /\ waitingTasks' = waitingTasks
      /\ unusedWorkers' = unusedWorkers
      /\ taskTimeoutIDs' = taskTimeoutIDs
      /\ finishTaskDefers' = finishTaskDefers /\ sentTo' = sentTo
  BY DEF schedulerVars, timerVars
<1>2. Overtaking
  BY <1>1 DEF Overtaking
<1>3. CASE master' = master
  BY <1>1, <1>2, <1>3
     DEF Served, Empty, NoIdleWorker, TimerHasTask, PromiseTracked
<1>4. CASE master = "exited" /\ master' = "up"
  BY <1>1, <1>2, <1>4
     DEF Served, Empty, NoIdleWorker, TimerHasTask, PromiseTracked
<1> QED
  BY <1>3, <1>4

-----------------------------------------------------------------------------
(* The theorems. *)

\* At the start there is nothing to serve.
LEMMA InitServed == Init => Served
<1> SUFFICES ASSUME Init PROVE Served
  OBVIOUS
<1>1. Len(queuedTasks) = 0
  BY DEF Init
<1>2. Ahead(queuedTasks)
  BY <1>1 DEF Ahead
<1> QED
  BY <1>2 DEF Init, Served, Empty, NoIdleWorker, TimerHasTask, PromiseTracked

\* Every step serves, and hands out tasks in order.
LEMMA NextServed == IInv /\ Served /\ [Next]_vars => Served' /\ Overtaking
<1> SUFFICES ASSUME IInv, Served, [Next]_vars PROVE Served' /\ Overtaking
  OBVIOUS
<1>1. CASE \E t \in Producing : CreateProducingTask(t)
  BY <1>1, CreateProducingTaskServes
<1>2. CASE \E t \in Reducing : CreateReducingTask(t)
  BY <1>2, CreateReducingTaskServes
<1>3. CASE \E t \in Tasks, w \in Workers : DispatchFinish(t, w)
  BY <1>3, DispatchFinishServes
<1>4. CASE \E t \in Tasks, w \in Workers : DispatchFailed(t, w)
  BY <1>4, DispatchFailedServes
<1>5. CASE \E t \in Tasks, w \in Workers : TaskTimeout(t, w)
  BY <1>5, TaskTimeoutServes
<1>6. CASE \E t \in Tasks, w \in Workers : LoseRun(t, w)
  BY <1>6, UnchangedServes DEF LoseRun
<1>7. CASE \E w \in Workers : DispatchPong(w)
  <2>1. PICK w \in Workers : Resync(workers \cup {w}) /\ Up
    BY <1>7 DEF DispatchPong
  <2>2. workers \cup {w} \in SUBSET Workers
    BY DEF IInv, TypeOK
  <2> QED
    BY <2>1, <2>2, ResyncServes
<1>8. CASE \E gone \in SUBSET Workers : ManageWorkers(gone)
  <2>1. PICK gone \in SUBSET Workers : Resync(workers \ gone) /\ Up
    BY <1>8 DEF ManageWorkers
  <2>2. workers \ gone \in SUBSET Workers
    BY DEF IInv, TypeOK
  <2> QED
    BY <2>1, <2>2, ResyncServes
<1>9. CASE MasterExit
  BY <1>9, ExitServes DEF MasterExit
<1>10. CASE MasterStart
  BY <1>10, UnchangedServes DEF MasterStart, Up
<1>11. CASE UNCHANGED vars
  BY <1>11, UnchangedServes DEF vars
<1> QED
  BY <1>1, <1>2, <1>3, <1>4, <1>5, <1>6, <1>7, <1>8, <1>9, <1>10, <1>11 DEF Next

\* In every reachable state the queue is served.
THEOREM AlwaysServed == Spec => []Served
  BY InitIInv, NextIInv, InitServed, NextServed, PTL DEF Spec

\* Unless a handler was cut short, no task waits beside an idle worker: every
\* handler that frees a worker or queues a task reaches schedule()
\* (queue.js:139-158, master.js:435-436, 514-515).
THEOREM NoWorkerIdles == Spec => []NoIdleWorker
<1>1. Served => NoIdleWorker
  BY DEF Served
<1> QED
  BY <1>1, AlwaysServed, PTL

\* Unless a handler was cut short, no timer outlives its task
\* (executions.js:404-411, master.js:552, 569).
THEOREM TimersHaveTasks == Spec => []TimerHasTask
<1>1. Served => TimerHasTask
  BY DEF Served
<1> QED
  BY <1>1, AlwaysServed, PTL

\* Unless a handler was cut short, a promise that is awaited belongs to a task
\* that is queued or waited for (master.js:117-131).
THEOREM PromisesTracked == Spec => []PromiseTracked
<1>1. Served => PromiseTracked
  BY DEF Served
<1> QED
  BY <1>1, AlwaysServed, PTL

\* A producing task is handed out only when no reducing task is left in the
\* queue, through restarts and repeated answers (queue.js:16-24).
THEOREM ReducingGoFirst == Spec => ReducingFirst
<1>1. IInv /\ Served /\ [Next]_vars
        => [\A p \in sentTo' \ sentTo :
              p[1] \in Producing => ToSet(queuedTasks') \cap Reducing = {}]_vars
  BY NextServed DEF Overtaking
<1> QED
  BY <1>1, Invariance, AlwaysServed, PTL DEF Spec, ReducingFirst
=============================================================================
