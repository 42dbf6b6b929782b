--------------------------- MODULE ExecutionProofs ---------------------------
(***************************************************************************)
(* Proofs about Execution, for any workers, any number of samples asked    *)
(* for, however many tasks fail and whatever callbacks throw: the counters *)
(* count, no sample is forgotten or counted twice, the final reduction is  *)
(* alone, the image has its weight, an execution none of whose callbacks   *)
(* threw goes on, and an execution is a Rendering.                         *)
(*                                                                         *)
(* A callback changes the variables of the closure in several steps, the   *)
(* last of them in run(): the invariant is stated of the closure c and of  *)
(* the samples given up (gone) or dropped (lost), so that it can be told   *)
(* of what a callback has done so far.                                     *)
(***************************************************************************)
EXTENDS Execution, FiniteSetTheorems, TLAPS

Pictures == [samples : SUBSET Nat, worker : Workers]
MediumTasks == [current : SUBSET Pictures, retry : 1..3]

Closures ==
  [target : Nat, inQueue : Nat, finished : Nat, failed : Nat, mediumInQueue : Nat,
   waiting : SUBSET Pictures, reduced : SUBSET Pictures, inFinal : BOOLEAN,
   producing : SUBSET Nat, fetching : SUBSET Nat, mediums : SUBSET MediumTasks,
   finals : Seq(1..3), unique : Nat]

\* The images of the medium reducers, all images, and all samples of a closure.
HeldBy(mediumTasks) == UNION {m.current : m \in mediumTasks}
ImagesOf(c) == c.waiting \cup HeldBy(c.mediums) \cup c.reduced
Spread(c, gone, lost) == c.producing \cup Samples(ImagesOf(c)) \cup gone \cup lost

Typed(c) ==
  /\ c \in Closures /\ c.fetching \subseteq c.producing
  /\ IsFiniteSet(c.waiting) /\ IsFiniteSet(c.mediums)
  /\ \A m \in c.mediums : IsFiniteSet(m.current)

\* What waits or is with a medium reducer are images of single samples.
Single(a) == \E i : a.samples = {i}
Singles(c) ==
  /\ \A a \in c.waiting : Single(a)
  /\ \A m \in c.mediums : m.current # {} /\ \A a \in m.current : Single(a)

Disjoint(images) == \A a, b \in images : a # b => a.samples \cap b.samples = {}

Apart(c) ==
  /\ Disjoint(ImagesOf(c))
  /\ c.waiting \cap HeldBy(c.mediums) = {}
  /\ c.reduced \cap (c.waiting \cup HeldBy(c.mediums)) = {}
  /\ \A m, n \in c.mediums : m # n => m.current \cap n.current = {}

Divided(c, gone, lost) ==
  /\ c.producing \cap (Samples(ImagesOf(c)) \cup gone \cup lost) = {}
  /\ Samples(ImagesOf(c)) \cap (gone \cup lost) = {} /\ gone \cap lost = {}
  /\ Spread(c, gone, lost) \subseteq 1..c.unique
  /\ Cardinality(Spread(c, gone, lost)) + c.failed = c.unique

\* The target covers what is queued and finished, and what failed or was given
\* up besides the samples asked for.
Accounts(c, gone) ==
  /\ c.inQueue = Cardinality(c.producing)
  /\ c.mediumInQueue = Cardinality(c.mediums)
  /\ c.finished + c.inQueue = c.unique
  /\ c.target >= c.inQueue + c.finished
  /\ c.target >= Parallel + c.failed + Cardinality(gone)

Sound(c, gone, lost) ==
  /\ Typed(c)
  /\ Singles(c)
  /\ Apart(c)
  /\ Divided(c, gone, lost)
  /\ Accounts(c, gone)

Resting(c) == c.producing = {} /\ c.mediums = {} /\ c.finals = <<>>

\* The final reduction is alone, and what is known by the outcome o.
Phase(c, o) ==
  /\ IF c.finals = <<>> THEN c.inFinal = FALSE ELSE c.inFinal = TRUE /\ Len(c.finals) = 1
  /\ c.finals # <<>> =>
       /\ c.producing = {} /\ c.mediums = {} /\ c.waiting = {}
       /\ c.target = c.finished /\ o = "running"
  /\ o \in {"idle", "running"} => c.failed < producingFailLimit
  /\ o = "idle" => c.unique = 0 /\ c.target = Parallel /\ Resting(c)
  /\ o = "running" => c.target = c.inQueue + c.finished
  /\ o = "rejected" => c.failed >= producingFailLimit \/ Resting(c)
  /\ o = "finished" => Resting(c)

Outcomes == {"idle", "running", "finished", "rejected"}

Rest ==
  /\ faults \in Nat /\ workers \subseteq Workers /\ running \in BOOLEAN /\ thrown \in BOOLEAN
  /\ outcome \in Outcomes /\ last \subseteq 1..unique

\* The first part of WeightDelivered.
Delivered ==
  outcome = "finished" => Cardinality(last) + Cardinality(orphaned) >= Parallel

EInv ==
  /\ Sound(Now, missed, orphaned)
  /\ Phase(Now, outcome)
  /\ Rest
  /\ Delivered
  /\ NotStuck

-----------------------------------------------------------------------------
(* Sets of images. *)

LEMMA SamplesIff ==
  ASSUME NEW images, NEW i
  PROVE  i \in Samples(images) <=> \E a \in images : i \in a.samples
BY DEF Samples

LEMMA HeldIff ==
  ASSUME NEW mediumTasks, NEW a
  PROVE  a \in HeldBy(mediumTasks) <=> \E m \in mediumTasks : a \in m.current
BY DEF HeldBy

LEMMA SamplesUnion ==
  ASSUME NEW X, NEW Y
  PROVE  Samples(X \cup Y) = Samples(X) \cup Samples(Y)
BY DEF Samples

LEMMA SamplesMonotone ==
  ASSUME NEW X, NEW Y \in SUBSET X
  PROVE  Samples(Y) \subseteq Samples(X)
BY DEF Samples

LEMMA SamplesApart ==
  ASSUME NEW X, NEW Y \in SUBSET X, Disjoint(X)
  PROVE  Samples(Y) \cap Samples(X \ Y) = {}
BY DEF Samples, Disjoint

\* Images of single samples: as many samples as images.
LEMMA SingleCount ==
  ASSUME NEW X, IsFiniteSet(X), Disjoint(X), \A a \in X : Single(a)
  PROVE  IsFiniteSet(Samples(X)) /\ Cardinality(Samples(X)) = Cardinality(X)
<1> DEFINE f == [a \in X |-> CHOOSE i : a.samples = {i}]
<1>1. \A a \in X : a.samples = {f[a]}
  BY DEF Single
<1>2. f \in [X -> Samples(X)]
  BY <1>1 DEF Samples
<1>3. \A a, b \in X : f[a] = f[b] => a = b
  BY <1>1 DEF Disjoint
<1>4. \A i \in Samples(X) : \E a \in X : f[a] = i
  BY <1>1 DEF Samples
<1> HIDE DEF f
<1>5. f \in Bijection(X, Samples(X))
  BY <1>2, <1>3, <1>4 DEF Bijection, Injection, Surjection, IsInjective
<1>6. ExistsBijection(X, Samples(X))
  BY <1>5 DEF ExistsBijection
<1> QED
  BY <1>6, FS_Bijection

LEMMA HasMax ==
  ASSUME NEW N \in Nat, NEW S \in SUBSET (0..N), S # {}
  PROVE  Max(S) \in S /\ \A y \in S : y <= Max(S)
<1> DEFINE T == {n \in Nat : \A y \in S : y <= n}
<1>1. N \in T
  OBVIOUS
<1>2. T \in SUBSET Nat /\ T # {}
  BY <1>1
<1>3. PICK m \in T : \A k \in T : m <= k
  <2> DEFINE R == OpToRel(<, Nat)
  <2>1. IsWellFoundedOn(R, Nat)
    BY NatLessThanWellFounded
  <2>2. \A i, j \in Nat : i < j => <<i, j>> \in R
    BY DEF OpToRel
  <2> HIDE DEF R
  <2>3. PICK m \in T : \A k \in T : ~(<<k, m>> \in R)
    <3> HIDE DEF T
    <3> QED
      BY <1>2, <2>1, WFMin
  <2>4. \A k \in T : m <= k
    <3> TAKE k \in T
    <3>1. k \in Nat /\ m \in Nat
      OBVIOUS
    <3>2. ~(<<k, m>> \in R)
      BY <2>3
    <3>3. ~(k < m)
      BY <2>2, <3>1, <3>2
    <3> QED
      BY <3>1, <3>3
  <2> QED
    BY <2>3, <2>4
<1>4. m \in S
  <2>1. SUFFICES ASSUME m \notin S PROVE FALSE
    OBVIOUS
  <2>2. PICK y \in S : TRUE
    OBVIOUS
  <2>3. m # 0
    BY <1>3, <2>1, <2>2
  <2>4. m - 1 \in T
    BY <1>3, <2>1, <2>3
  <2> QED
    BY <1>3, <2>4
<1> QED
  BY <1>3, <1>4 DEF Max

LEMMA Units ==
  /\ reducingUnit \in Nat /\ reducingUnit >= 1
  /\ producingFailLimit \in Nat /\ producingFailLimit >= 1
  /\ Parallel \in Nat /\ Parallel >= 1
<1>1. Parallel \in Nat /\ Parallel >= 1 /\ FailDivisor \in Nat /\ FailDivisor >= 1
  BY ParallelPositive, DivisorPositive
<1>2. reducingUnit \in Nat /\ reducingUnit >= 1
  <2> DEFINE S == {u \in 1..Parallel : u * u <= Parallel}
  <2>1. S \in SUBSET (0..Parallel) /\ 1 \in S
    BY <1>1
  <2>2. Max(S) \in S
    BY <1>1, <2>1, HasMax
  <2> QED
    BY <1>1, <2>2 DEF reducingUnit
<1>3. producingFailLimit \in Nat /\ producingFailLimit >= 1
  <2> DEFINE q == Parallel \div FailDivisor
             S == {q, 1}
  <2>1. q \in Nat
    BY <1>1
  <2>2. S \in SUBSET (0..(q + 1)) /\ S # {} /\ q + 1 \in Nat
    BY <2>1
  <2>3. Max(S) \in S /\ \A y \in S : y <= Max(S)
    <3> HIDE DEF S
    <3> QED
      BY <2>2, HasMax
  <2> QED
    BY <2>1, <2>3 DEF producingFailLimit
<1> QED
  BY <1>1, <1>2, <1>3

-----------------------------------------------------------------------------
(* What a callback does to the closure. *)

LEMMA SoundFinite ==
  ASSUME NEW c, NEW gone, NEW lost, Sound(c, gone, lost)
  PROVE  /\ c \in Closures
         /\ \A S \in {c.producing, Samples(ImagesOf(c)), gone, lost, Spread(c, gone, lost)} :
              S \subseteq 1..c.unique /\ IsFiniteSet(S) /\ Cardinality(S) \in Nat
         /\ \A a \in ImagesOf(c) : a \in Pictures /\ a.samples \subseteq 1..c.unique
<1>1. c \in Closures /\ c.unique \in Nat /\ Spread(c, gone, lost) \subseteq 1..c.unique
  BY DEF Sound, Typed, Closures, Divided
<1>2. \A S : S \subseteq 1..c.unique => IsFiniteSet(S) /\ Cardinality(S) \in Nat
  <2> TAKE S
  <2> HAVE S \subseteq 1..c.unique
  <2>1. IsFiniteSet(1..c.unique)
    BY <1>1, FS_Interval
  <2>2. IsFiniteSet(S)
    BY <2>1, FS_Subset
  <2> QED
    BY <2>2, FS_CardinalityType
<1>3. \A S \in {c.producing, Samples(ImagesOf(c)), gone, lost, Spread(c, gone, lost)} :
        S \subseteq 1..c.unique
  BY <1>1 DEF Spread
<1>4. ASSUME NEW a \in ImagesOf(c)
      PROVE  a \in Pictures /\ a.samples \subseteq 1..c.unique
  <2>1. a \in Pictures
    BY <1>1 DEF ImagesOf, HeldBy, Closures, MediumTasks
  <2>2. a.samples \subseteq Samples(ImagesOf(c))
    BY SamplesIff
  <2> QED
    BY <1>3, <2>1, <2>2
<1> QED
  BY <1>1, <1>2, <1>3, <1>4

LEMMA QueuedSound ==
  ASSUME NEW c, NEW gone, NEW lost, Sound(c, gone, lost)
  PROVE  LET q == QueueProducingTasks(c) IN
         /\ Sound(q, gone, lost)
         /\ q.target = q.inQueue + q.finished
         /\ q.target = c.target /\ q.finished = c.finished /\ q.failed = c.failed
         /\ q.mediumInQueue = c.mediumInQueue
         /\ q.waiting = c.waiting /\ q.mediums = c.mediums /\ q.reduced = c.reduced
         /\ q.inFinal = c.inFinal /\ q.finals = c.finals
         /\ q.unique >= c.unique /\ q.producing = c.producing \cup ((c.unique + 1)..q.unique)
         /\ q.unique = c.unique + Missing(c) /\ Missing(c) \in Nat
         /\ IF Missing(c) > 0 THEN q.producing # {} ELSE q = c
<1> DEFINE n == Missing(c)
           new == (c.unique + 1)..(c.unique + n)
           q == QueueProducingTasks(c)
<1>1. c \in Closures /\ Accounts(c, gone) /\ Typed(c) /\ Singles(c) /\ Apart(c)
      /\ Divided(c, gone, lost)
  BY DEF Sound, Typed
<1>2. /\ c.target \in Nat /\ c.inQueue \in Nat /\ c.finished \in Nat /\ c.unique \in Nat
      /\ c.failed \in Nat /\ c.producing \subseteq Nat /\ c.fetching \subseteq Nat
  BY <1>1 DEF Closures
<1>3. n \in Nat /\ n = c.target - c.inQueue - c.finished
  BY <1>1, <1>2 DEF Accounts, Missing
<1>4. CASE n = 0
  <2>1. q = c
    BY <1>3, <1>4 DEF QueueProducingTasks
  <2>2. c.target = c.inQueue + c.finished
    BY <1>2, <1>3, <1>4
  <2> HIDE DEF n
  <2> QED
    BY <1>2, <1>4, <2>1, <2>2 DEF n
<1>5. CASE n > 0
  <2>1. q = [c EXCEPT !.producing = c.producing \cup new, !.fetching = c.fetching \cup new,
                      !.inQueue = c.inQueue + n, !.unique = c.unique + n]
    BY <1>5 DEF QueueProducingTasks
  <2>2. new \subseteq Nat /\ c.unique + n \in Nat /\ c.inQueue + n \in Nat
    BY <1>2, <1>3
  <2>3. q \in Closures
    <3> HIDE DEF q, n, new
    <3> QED
      BY <1>1, <2>1, <2>2 DEF Closures
  <2>4. /\ q.producing = c.producing \cup new /\ q.fetching = c.fetching \cup new
        /\ q.inQueue = c.inQueue + n /\ q.unique = c.unique + n
        /\ q.target = c.target /\ q.finished = c.finished /\ q.failed = c.failed
        /\ q.mediumInQueue = c.mediumInQueue
        /\ q.waiting = c.waiting /\ q.mediums = c.mediums /\ q.reduced = c.reduced
        /\ q.inFinal = c.inFinal /\ q.finals = c.finals
    <3> HIDE DEF q, n, new
    <3> QED
      BY <1>1, <2>1 DEF Closures
  <2>5. IsFiniteSet(new) /\ Cardinality(new) = n
    <3>1. c.unique + 1 \in Int /\ c.unique + n \in Int /\ n \in Nat /\ n > 0
      BY <1>2, <1>3, <1>5
    <3> HIDE DEF n
    <3>2. /\ IsFiniteSet((c.unique + 1)..(c.unique + n))
          /\ Cardinality((c.unique + 1)..(c.unique + n)) =
               IF c.unique + 1 > c.unique + n THEN 0 ELSE (c.unique + n) - (c.unique + 1) + 1
      BY <3>1, FS_Interval
    <3> QED
      BY <1>2, <3>1, <3>2
  <2>6. new \cap Spread(c, gone, lost) = {} /\ new # {}
    <3>1. Spread(c, gone, lost) \subseteq 1..c.unique /\ n \in Nat /\ n > 0
      BY <1>1, <1>3, <1>5 DEF Divided
    <3> HIDE DEF n
    <3>2. c.unique + 1 \in new
      BY <1>2, <3>1
    <3>3. \A i \in new : i \notin 1..c.unique
      BY <1>2, <3>1
    <3> QED
      BY <3>1, <3>2, <3>3
  <2>7. ImagesOf(q) = ImagesOf(c) /\ Spread(q, gone, lost) = Spread(c, gone, lost) \cup new
    <3> HIDE DEF q, n, new
    <3> QED
      BY <2>4 DEF ImagesOf, Spread
  <2> HIDE DEF q
  <2>8. Typed(q)
    BY <1>1, <2>3, <2>4 DEF Typed
  <2>9. Singles(q) /\ Apart(q)
    BY <1>1, <2>4, <2>7 DEF Singles, Apart
  <2>10. Cardinality(Spread(q, gone, lost)) = Cardinality(Spread(c, gone, lost)) + n
    <3>1. IsFiniteSet(Spread(c, gone, lost)) /\ Cardinality(Spread(c, gone, lost)) \in Nat
      BY SoundFinite
    <3>2. Spread(c, gone, lost) \cap new = {}
      BY <2>6
    <3> HIDE DEF new
    <3>3. Cardinality(Spread(c, gone, lost) \cup new)
            = Cardinality(Spread(c, gone, lost)) + Cardinality(new) - Cardinality({})
      BY <2>5, <3>1, <3>2, FS_Union
    <3> QED
      BY <1>3, <2>5, <2>7, <3>1, <3>3, FS_EmptySet
  <2>11. Cardinality(q.producing) = Cardinality(c.producing) + n
    <3>1. IsFiniteSet(c.producing) /\ Cardinality(c.producing) \in Nat
      BY SoundFinite
    <3>2. c.producing \cap new = {}
      BY <2>6 DEF Spread
    <3> HIDE DEF new
    <3>3. Cardinality(c.producing \cup new)
            = Cardinality(c.producing) + Cardinality(new) - Cardinality({})
      BY <2>5, <3>1, <3>2, FS_Union
    <3> QED
      BY <1>3, <2>4, <2>5, <3>1, <3>3, FS_EmptySet
  <2>12. Divided(q, gone, lost)
    <3>1. q.producing \cap (Samples(ImagesOf(q)) \cup gone \cup lost) = {}
      BY <1>1, <2>4, <2>6, <2>7 DEF Divided, Spread
    <3>2. Spread(q, gone, lost) \subseteq 1..q.unique
      BY <1>1, <1>2, <1>3, <2>4, <2>7 DEF Divided
    <3>3. Cardinality(Spread(q, gone, lost)) + q.failed = q.unique
      BY <1>1, <1>2, <1>3, <2>4, <2>10, SoundFinite DEF Divided
    <3> QED
      BY <1>1, <2>7, <3>1, <3>2, <3>3 DEF Divided
  <2>13. Accounts(q, gone)
    BY <1>1, <1>2, <1>3, <2>4, <2>11 DEF Accounts
  <2> QED
    BY <1>2, <1>3, <1>5, <2>4, <2>6, <2>8, <2>9, <2>12, <2>13 DEF Sound, q
<1> QED
  BY <1>3, <1>4, <1>5

LEMMA CountWithout ==
  ASSUME NEW S, IsFiniteSet(S), NEW x \in S
  PROVE  /\ IsFiniteSet(S \ {x}) /\ Cardinality(S) \in Nat
         /\ Cardinality(S \ {x}) = Cardinality(S) - 1
BY FS_RemoveElement, FS_CardinalityType

LEMMA CountWith ==
  ASSUME NEW S, IsFiniteSet(S), NEW x, x \notin S
  PROVE  IsFiniteSet(S \cup {x}) /\ Cardinality(S \cup {x}) = Cardinality(S) + 1
BY FS_AddElement

LEMMA CountApart ==
  ASSUME NEW S, IsFiniteSet(S), NEW T, IsFiniteSet(T), S \cap T = {}
  PROVE  /\ Cardinality(S) \in Nat /\ Cardinality(T) \in Nat /\ IsFiniteSet(S \cup T)
         /\ Cardinality(S \cup T) = Cardinality(S) + Cardinality(T)
<1>1. Cardinality(S \cup T) = Cardinality(S) + Cardinality(T) - Cardinality({})
  BY FS_Union
<1> QED
  BY <1>1, FS_CardinalityType, FS_EmptySet, FS_Union

\* The producing task of sample i has failed: one more is to be produced.
LEMMA FailedSound ==
  ASSUME NEW c, NEW gone, NEW lost, Sound(c, gone, lost), NEW i \in c.producing,
         NEW d \in Closures,
         d.target = c.target + 1, d.failed = c.failed + 1,
         d.finished = c.finished + 1, d.inQueue = c.inQueue - 1,
         d.producing = c.producing \ {i}, d.fetching = c.fetching \ {i},
         d.waiting = c.waiting, d.mediums = c.mediums, d.reduced = c.reduced,
         d.mediumInQueue = c.mediumInQueue, d.unique = c.unique
  PROVE  Sound(d, gone, lost)
<1>1. c \in Closures /\ Accounts(c, gone) /\ Typed(c) /\ Singles(c) /\ Apart(c)
      /\ Divided(c, gone, lost)
  BY DEF Sound, Typed
<1>2. /\ c.target \in Nat /\ c.inQueue \in Nat /\ c.finished \in Nat /\ c.unique \in Nat
      /\ c.failed \in Nat
  BY <1>1 DEF Closures
<1>3. ImagesOf(d) = ImagesOf(c)
  BY DEF ImagesOf
<1>4. Spread(d, gone, lost) = Spread(c, gone, lost) \ {i} /\ i \in Spread(c, gone, lost)
  BY <1>1, <1>3 DEF Spread, Divided
<1>5. /\ Cardinality(Spread(d, gone, lost)) = Cardinality(Spread(c, gone, lost)) - 1
      /\ Cardinality(Spread(c, gone, lost)) \in Nat
  BY <1>4, SoundFinite, CountWithout
<1>6. Cardinality(d.producing) = Cardinality(c.producing) - 1 /\ Cardinality(c.producing) \in Nat
  BY SoundFinite, CountWithout
<1>7. Typed(d) /\ Singles(d) /\ Apart(d)
  BY <1>1, <1>3 DEF Typed, Singles, Apart
<1>8. Divided(d, gone, lost)
  <2>1. Spread(d, gone, lost) \subseteq 1..d.unique
    BY <1>1, <1>4 DEF Divided
  <2>2. Cardinality(Spread(d, gone, lost)) + d.failed = d.unique
    BY <1>1, <1>2, <1>5 DEF Divided
  <2> QED
    BY <1>1, <1>3, <2>1, <2>2 DEF Divided
<1>9. Accounts(d, gone)
  <2>1. Cardinality(gone) \in Nat
    BY SoundFinite
  <2> QED
    BY <1>1, <1>2, <1>6, <2>1, Units DEF Accounts
<1> QED
  BY <1>7, <1>8, <1>9 DEF Sound

\* Sample i is produced: its image waits.
LEMMA FinishedSound ==
  ASSUME NEW c, NEW gone, NEW lost, Sound(c, gone, lost), NEW i \in c.producing,
         NEW a \in Pictures, a.samples = {i},
         NEW d \in Closures,
         d.target = c.target, d.failed = c.failed,
         d.finished = c.finished + 1, d.inQueue = c.inQueue - 1,
         d.producing = c.producing \ {i}, d.fetching = c.fetching \ {i},
         d.waiting = c.waiting \cup {a}, d.mediums = c.mediums, d.reduced = c.reduced,
         d.mediumInQueue = c.mediumInQueue, d.unique = c.unique
  PROVE  Sound(d, gone, lost)
<1>1. c \in Closures /\ Accounts(c, gone) /\ Typed(c) /\ Singles(c) /\ Apart(c)
      /\ Divided(c, gone, lost)
  BY DEF Sound, Typed
<1>2. /\ c.target \in Nat /\ c.inQueue \in Nat /\ c.finished \in Nat /\ c.unique \in Nat
      /\ c.failed \in Nat
  BY <1>1 DEF Closures
<1>3. ImagesOf(d) = ImagesOf(c) \cup {a}
  BY DEF ImagesOf
<1>4. Samples({a}) = {i}
  BY DEF Samples
<1>5. Samples(ImagesOf(d)) = Samples(ImagesOf(c)) \cup {i}
  BY <1>3, <1>4, SamplesUnion
<1>6. i \notin Samples(ImagesOf(c)) /\ \A b \in ImagesOf(c) : i \notin b.samples
  BY <1>1, SamplesIff DEF Divided
<1>7. Spread(d, gone, lost) = Spread(c, gone, lost)
  BY <1>5 DEF Spread
<1>8. Cardinality(d.producing) = Cardinality(c.producing) - 1 /\ Cardinality(c.producing) \in Nat
  BY SoundFinite, CountWithout
<1>9. Typed(d) /\ Singles(d)
  <2>1. IsFiniteSet(d.waiting)
    BY <1>1, FS_AddElement DEF Typed
  <2>2. Single(a)
    BY DEF Single
  <2> QED
    BY <1>1, <2>1, <2>2 DEF Typed, Singles
<1>10. Apart(d)
  <2>1. Disjoint(ImagesOf(d))
    BY <1>1, <1>3, <1>6 DEF Apart, Disjoint
  <2>2. a \notin HeldBy(c.mediums) /\ a \notin c.reduced
    BY <1>6 DEF ImagesOf
  <2> QED
    BY <1>1, <2>1, <2>2 DEF Apart
<1>11. Divided(d, gone, lost)
  BY <1>1, <1>5, <1>7 DEF Divided
<1>12. Accounts(d, gone)
  BY <1>1, <1>2, <1>8 DEF Accounts
<1> QED
  BY <1>9, <1>10, <1>11, <1>12 DEF Sound

\* Medium task m is settled: of its samples those of R are in a new image, A are
\* given up and to be produced again, B are dropped.
LEMMA SettledSound ==
  ASSUME NEW c, NEW gone, NEW lost, Sound(c, gone, lost), NEW m \in c.mediums,
         NEW R \in SUBSET Pictures, NEW A, NEW B,
         R = {} \/ \E a : R = {a} /\ a.samples # {},
         Samples(R) \cup A \cup B = Samples(m.current),
         Samples(R) \cap A = {}, Samples(R) \cap B = {}, A \cap B = {},
         NEW d \in Closures,
         d.target = c.target + Cardinality(A), d.failed = c.failed,
         d.finished = c.finished, d.inQueue = c.inQueue,
         d.producing = c.producing, d.fetching = c.fetching,
         d.waiting = c.waiting, d.mediums = c.mediums \ {m}, d.reduced = c.reduced \cup R,
         d.mediumInQueue = c.mediumInQueue - 1, d.unique = c.unique
  PROVE  Sound(d, gone \cup A, lost \cup B)
<1> DEFINE others == c.waiting \cup HeldBy(c.mediums \ {m}) \cup c.reduced
           images == ImagesOf(c)
<1>1. c \in Closures /\ Accounts(c, gone) /\ Typed(c) /\ Singles(c) /\ Apart(c)
      /\ Divided(c, gone, lost)
  BY DEF Sound, Typed
<1>2. /\ c.target \in Nat /\ c.inQueue \in Nat /\ c.finished \in Nat /\ c.unique \in Nat
      /\ c.failed \in Nat
  BY <1>1 DEF Closures
<1>3. /\ HeldBy(c.mediums) = HeldBy(c.mediums \ {m}) \cup m.current
      /\ HeldBy(c.mediums \ {m}) \cap m.current = {}
  BY <1>1 DEF HeldBy, Apart
<1>4. images = others \cup m.current /\ others \cap m.current = {}
  BY <1>1, <1>3 DEF ImagesOf, Apart
<1>5. ImagesOf(d) = others \cup R
  BY DEF ImagesOf
<1>6. Samples(others) \cap Samples(m.current) = {}
  <2>1. m.current \in SUBSET images /\ images \ m.current = others
    BY <1>4
  <2>2. Disjoint(images)
    BY <1>1 DEF Apart
  <2> HIDE DEF others, images
  <2> QED
    BY <2>1, <2>2, SamplesApart
<1>7. /\ Samples(images) = Samples(others) \cup Samples(m.current)
      /\ Samples(ImagesOf(d)) = Samples(others) \cup Samples(R)
  <2> HIDE DEF others, images
  <2> QED
    BY <1>4, <1>5, SamplesUnion
<1>8. /\ c.producing \cap (Samples(images) \cup gone \cup lost) = {}
      /\ Samples(images) \cap (gone \cup lost) = {} /\ gone \cap lost = {}
      /\ Spread(c, gone, lost) = c.producing \cup Samples(images) \cup gone \cup lost
  BY <1>1 DEF Divided, Spread
<1>9. Spread(d, gone \cup A, lost \cup B) = Spread(c, gone, lost)
  <2>1. Spread(d, gone \cup A, lost \cup B)
          = c.producing \cup Samples(ImagesOf(d)) \cup (gone \cup A) \cup (lost \cup B)
    BY DEF Spread
  <2> HIDE DEF others, images
  <2> QED
    BY <1>7, <1>8, <2>1
<1>10. Divided(d, gone \cup A, lost \cup B)
  <2>1. /\ d.producing \cap (Samples(ImagesOf(d)) \cup (gone \cup A) \cup (lost \cup B)) = {}
        /\ Samples(ImagesOf(d)) \cap ((gone \cup A) \cup (lost \cup B)) = {}
        /\ (gone \cup A) \cap (lost \cup B) = {}
    <3> HIDE DEF others, images
    <3> QED
      BY <1>6, <1>7, <1>8
  <2> QED
    BY <1>1, <1>9, <2>1 DEF Divided
<1>11. Apart(d)
  <2>1. Disjoint(others)
    BY <1>1, <1>4 DEF Apart, Disjoint
  <2>2. \A a \in R, b \in others : a.samples \cap b.samples = {} /\ a # b
    <3> SUFFICES ASSUME NEW a \in R, NEW b \in others
                 PROVE  a.samples \cap b.samples = {} /\ a # b
      OBVIOUS
    <3>1. a.samples \subseteq Samples(R) /\ b.samples \subseteq Samples(others) /\ a.samples # {}
      <4> HIDE DEF others
      <4> QED
        BY SamplesIff
    <3>2. Samples(R) \cap Samples(others) = {}
      BY <1>6
    <3> QED
      BY <3>1, <3>2
  <2>3. Disjoint(others \cup R)
    <3>1. \A a, b \in R : a = b
      OBVIOUS
    <3> HIDE DEF others
    <3> QED
      BY <2>1, <2>2, <3>1 DEF Disjoint
  <2>4. HeldBy(d.mediums) \subseteq others /\ d.waiting \subseteq others
        /\ HeldBy(d.mediums) \subseteq HeldBy(c.mediums)
    BY <1>3
  <2>5. R \cap others = {}
    BY <2>2
  <2>6. /\ d.waiting \cap HeldBy(d.mediums) = {}
        /\ d.reduced \cap (d.waiting \cup HeldBy(d.mediums)) = {}
    BY <1>1, <2>4, <2>5 DEF Apart
  <2> QED
    BY <1>1, <1>5, <2>3, <2>6 DEF Apart
<1>12. Typed(d) /\ Singles(d) /\ Cardinality(d.mediums) = Cardinality(c.mediums) - 1
       /\ Cardinality(c.mediums) \in Nat
  BY <1>1, CountWithout DEF Typed, Singles
<1>13. Accounts(d, gone \cup A)
  <2>1. Cardinality(gone) \in Nat /\ IsFiniteSet(gone) /\ Cardinality(c.producing) \in Nat
    BY SoundFinite
  <2>2. A \subseteq Samples(images) /\ gone \cap A = {} /\ IsFiniteSet(Samples(images))
    BY <1>7, <1>8, SoundFinite
  <2>3. IsFiniteSet(A)
    BY <2>2, FS_Subset
  <2>4. Cardinality(A) \in Nat /\ Cardinality(gone \cup A) = Cardinality(gone) + Cardinality(A)
    BY <2>1, <2>2, <2>3, CountApart
  <2> QED
    BY <1>1, <1>2, <1>12, <2>1, <2>4, Units DEF Accounts
<1> QED
  BY <1>10, <1>11, <1>12, <1>13 DEF Sound

\* The samples of the closure then.
LEMMA SettledSamples ==
  ASSUME NEW c, NEW m \in c.mediums, NEW R, NEW A, NEW B,
         Samples(R) \cup A \cup B = Samples(m.current),
         NEW d, d.waiting = c.waiting, d.mediums = c.mediums \ {m}, d.reduced = c.reduced \cup R
  PROVE  Samples(ImagesOf(c)) = Samples(ImagesOf(d)) \cup A \cup B
<1> DEFINE others == c.waiting \cup HeldBy(c.mediums \ {m}) \cup c.reduced
<1>1. HeldBy(c.mediums) = HeldBy(c.mediums \ {m}) \cup m.current
  BY DEF HeldBy
<1>2. ImagesOf(c) = others \cup m.current /\ ImagesOf(d) = others \cup R
  BY <1>1 DEF ImagesOf
<1> HIDE DEF others
<1>3. /\ Samples(ImagesOf(c)) = Samples(others) \cup Samples(m.current)
      /\ Samples(ImagesOf(d)) = Samples(others) \cup Samples(R)
  BY <1>2, SamplesUnion
<1> QED
  BY <1>3

\* Medium task m is queued again, with retry r.
LEMMA RetriedSound ==
  ASSUME NEW c, NEW gone, NEW lost, Sound(c, gone, lost), NEW m \in c.mediums, NEW r,
         NEW d \in Closures,
         d.target = c.target, d.failed = c.failed,
         d.finished = c.finished, d.inQueue = c.inQueue,
         d.producing = c.producing, d.fetching = c.fetching,
         d.waiting = c.waiting, d.reduced = c.reduced,
         d.mediums = (c.mediums \ {m}) \cup {[current |-> m.current, retry |-> r]},
         d.mediumInQueue = c.mediumInQueue, d.unique = c.unique
  PROVE  Sound(d, gone, lost)
<1> DEFINE n == [current |-> m.current, retry |-> r]
<1>1. c \in Closures /\ Accounts(c, gone) /\ Typed(c) /\ Singles(c) /\ Apart(c)
      /\ Divided(c, gone, lost)
  BY DEF Sound, Typed
<1>2. n.current = m.current /\ n.current # {}
  BY <1>1 DEF Singles
<1>3. n \notin c.mediums \ {m}
  BY <1>1, <1>2 DEF Apart
<1> HIDE DEF n
<1>4. d.mediums = (c.mediums \ {m}) \cup {n}
  BY DEF n
<1>5. HeldBy(d.mediums) = HeldBy(c.mediums)
  BY <1>2, <1>4 DEF HeldBy
<1>6. ImagesOf(d) = ImagesOf(c)
  BY <1>5 DEF ImagesOf
<1>7. Cardinality(d.mediums) = Cardinality(c.mediums) /\ IsFiniteSet(d.mediums)
  <2>1. IsFiniteSet(c.mediums \ {m}) /\ Cardinality(c.mediums \ {m}) = Cardinality(c.mediums) - 1
        /\ Cardinality(c.mediums) \in Nat
    BY <1>1, CountWithout DEF Typed
  <2> QED
    BY <1>3, <1>4, <2>1, CountWith
<1>8. Typed(d) /\ Singles(d)
  BY <1>1, <1>2, <1>4, <1>7 DEF Typed, Singles
<1>9. Apart(d)
  BY <1>1, <1>2, <1>4, <1>5, <1>6 DEF Apart
<1>10. Spread(d, gone, lost) = Spread(c, gone, lost)
  BY <1>6 DEF Spread
<1>11. Divided(d, gone, lost) /\ Accounts(d, gone)
  BY <1>1, <1>6, <1>7, <1>10 DEF Divided, Accounts
<1> QED
  BY <1>8, <1>9, <1>11 DEF Sound

\* The images that wait are given to a medium reducer.
LEMMA GivenSound ==
  ASSUME NEW c, NEW gone, NEW lost, Sound(c, gone, lost), c.waiting # {}, NEW r,
         NEW d \in Closures,
         d.target = c.target, d.failed = c.failed,
         d.finished = c.finished, d.inQueue = c.inQueue,
         d.producing = c.producing, d.fetching = c.fetching,
         d.waiting = {}, d.reduced = c.reduced,
         d.mediums = c.mediums \cup {[current |-> c.waiting, retry |-> r]},
         d.mediumInQueue = c.mediumInQueue + 1, d.unique = c.unique
  PROVE  Sound(d, gone, lost) /\ ImagesOf(d) = ImagesOf(c)
<1> DEFINE n == [current |-> c.waiting, retry |-> r]
<1>1. c \in Closures /\ Accounts(c, gone) /\ Typed(c) /\ Singles(c) /\ Apart(c)
      /\ Divided(c, gone, lost)
  BY DEF Sound, Typed
<1>2. n.current = c.waiting
  OBVIOUS
<1>3. \A m \in c.mediums : m.current \cap c.waiting = {}
  BY <1>1 DEF Apart, HeldBy
<1>4. n \notin c.mediums
  BY <1>2, <1>3
<1> HIDE DEF n
<1>5. d.mediums = c.mediums \cup {n}
  BY DEF n
<1>6. HeldBy(d.mediums) = HeldBy(c.mediums) \cup c.waiting
  BY <1>2, <1>5 DEF HeldBy
<1>7. ImagesOf(d) = ImagesOf(c)
  BY <1>6 DEF ImagesOf
<1>8. Cardinality(d.mediums) = Cardinality(c.mediums) + 1 /\ IsFiniteSet(d.mediums)
  BY <1>1, <1>4, <1>5, CountWith DEF Typed
<1>9. Typed(d) /\ Singles(d)
  <2>1. IsFiniteSet(d.waiting)
    BY FS_EmptySet
  <2> QED
    BY <1>1, <1>2, <1>5, <1>8, <2>1 DEF Typed, Singles
<1>10. Apart(d)
  <2>1. \A k, m \in d.mediums : k # m => k.current \cap m.current = {}
    BY <1>1, <1>2, <1>3, <1>5 DEF Apart
  <2> QED
    BY <1>1, <1>6, <1>7, <2>1 DEF Apart
<1>11. Spread(d, gone, lost) = Spread(c, gone, lost)
  BY <1>7 DEF Spread
<1>12. Divided(d, gone, lost) /\ Accounts(d, gone)
  BY <1>1, <1>7, <1>8, <1>11 DEF Divided, Accounts
<1> QED
  BY <1>7, <1>9, <1>10, <1>12 DEF Sound

\* Nothing but the target, the final tasks and the fetching change.
LEMMA FrameSound ==
  ASSUME NEW c, NEW gone, NEW lost, Sound(c, gone, lost),
         NEW d \in Closures,
         d.target >= c.target, d.failed = c.failed,
         d.finished = c.finished, d.inQueue = c.inQueue,
         d.producing = c.producing, d.fetching \subseteq c.fetching,
         d.waiting = c.waiting, d.reduced = c.reduced, d.mediums = c.mediums,
         d.mediumInQueue = c.mediumInQueue, d.unique = c.unique
  PROVE  Sound(d, gone, lost)
<1>1. c \in Closures /\ Accounts(c, gone) /\ Typed(c) /\ Singles(c) /\ Apart(c)
      /\ Divided(c, gone, lost)
  BY DEF Sound, Typed
<1>2. ImagesOf(d) = ImagesOf(c) /\ Spread(d, gone, lost) = Spread(c, gone, lost)
  BY DEF ImagesOf, Spread
<1>3. Typed(d) /\ Singles(d) /\ Apart(d) /\ Divided(d, gone, lost)
  BY <1>1, <1>2 DEF Typed, Singles, Apart, Divided
<1>4. Accounts(d, gone)
  <2>1. Cardinality(gone) \in Nat
    BY SoundFinite
  <2>2. /\ c.target \in Nat /\ c.inQueue \in Nat /\ c.finished \in Nat /\ c.failed \in Nat
        /\ d.target \in Nat
    BY <1>1 DEF Closures
  <2> QED
    BY <1>1, <2>1, <2>2, Units DEF Accounts
<1> QED
  BY <1>3, <1>4 DEF Sound

-----------------------------------------------------------------------------
(* What a callback leaves. *)

\* In closure c the samples have moved on: what was producing is kept or has
\* failed, what was kept is given up or dropped, and new ones are producing.
MovedOn(c, gone, lost) ==
  /\ c.unique >= unique
  /\ (unique + 1)..c.unique \subseteq c.producing
  /\ c.producing \subseteq producing \cup ((unique + 1)..c.unique)
  /\ Samples(ImagesOf(c)) \subseteq Samples(ImagesOf(Now)) \cup producing
  /\ Samples(ImagesOf(Now)) \subseteq Samples(ImagesOf(c)) \cup gone \cup lost
  /\ missed \subseteq gone /\ gone \subseteq missed \cup Samples(ImagesOf(Now))
  /\ orphaned \subseteq lost /\ lost \subseteq orphaned \cup Samples(ImagesOf(Now))

\* What a step may do to the final reduction.
Retrying ==
  \/ finals' = finals
  \/ finals = <<>> /\ finals' = << 3 >>
  \/ finals # <<>> /\ (finals' = <<>> \/ finals' = <<finals[1] - 1>>)

\* What it does to the promise of the execution.
Starting ==
  /\ outcome = "idle" /\ outcome' = "running"
  /\ unique' = Parallel /\ finals' = <<>> /\ UNCHANGED last
GoingOn ==
  outcome = "running" /\ outcome' = "running" /\ Retrying /\ UNCHANGED last
Finishing ==
  /\ outcome = "running" /\ outcome' = "finished"
  /\ finals # <<>> /\ finals' = <<>>
  /\ last' = Samples(ImagesOf(Now))
  /\ UNCHANGED <<producing, unique, waitingForReducing, mediums, mediumReduced, missed, orphaned>>
Rejecting ==
  /\ outcome = "running" /\ outcome' = "rejected"
  /\ numProducingFailed' >= producingFailLimit \/ finals = << 1 >>
  /\ finals' = <<>> /\ UNCHANGED <<unique, last>>
Abandoned ==
  /\ outcome = "rejected" /\ outcome' = "rejected"
  /\ UNCHANGED <<unique, finals, last>>
Resuming ==
  UNCHANGED <<producing, unique, waitingForReducing, mediums, mediumReduced, missed, orphaned,
              finals, outcome, last>>

Settling == Starting \/ GoingOn \/ Finishing \/ Rejecting \/ Abandoned \/ Resuming

Moving == MovedOn(Now', missed', orphaned') /\ Settling

\* Closures with the same samples.
LEMMA MovedSame ==
  ASSUME NEW c, NEW gone, NEW lost, MovedOn(c, gone, lost),
         NEW d, d.unique = c.unique, d.producing = c.producing, ImagesOf(d) = ImagesOf(c)
  PROVE  MovedOn(d, gone, lost)
BY DEF MovedOn

\* Before anything was done.
LEMMA MovedNot ==
  ASSUME NEW c, c.unique = unique, unique \in Nat, c.producing \subseteq producing,
         ImagesOf(c) = ImagesOf(Now)
  PROVE  MovedOn(c, missed, orphaned)
BY DEF MovedOn

LEMMA MovedQueued ==
  ASSUME NEW c, NEW gone, NEW lost, Sound(c, gone, lost), MovedOn(c, gone, lost), c.unique = unique
  PROVE  MovedOn(QueueProducingTasks(c), gone, lost)
<1> DEFINE q == QueueProducingTasks(c)
<1>1. /\ q.waiting = c.waiting /\ q.mediums = c.mediums /\ q.reduced = c.reduced
      /\ q.unique >= c.unique /\ q.producing = c.producing \cup ((c.unique + 1)..q.unique)
  BY QueuedSound
<1> HIDE DEF q
<1>2. ImagesOf(q) = ImagesOf(c)
  BY <1>1 DEF ImagesOf
<1>3. (unique + 1)..unique = {}
  <2>1. unique \in Nat
    BY DEF Sound, Typed, Closures
  <2> QED
    BY <2>1
<1>4. MovedOn(q, gone, lost)
  BY <1>1, <1>2, <1>3 DEF MovedOn
<1> QED
  BY <1>4 DEF q

LEMMA CommitFields ==
  ASSUME NEW c \in Closures, NEW o, Commit(c, o)
  PROVE  /\ Now' \in Closures
         /\ Now'.target = c.target /\ Now'.inQueue = c.inQueue
         /\ Now'.finished = c.finished /\ Now'.failed = c.failed
         /\ Now'.mediumInQueue = c.mediumInQueue
         /\ Now'.waiting = c.waiting /\ Now'.reduced = c.reduced
         /\ Now'.inFinal = c.inFinal /\ Now'.producing = c.producing
         /\ Now'.fetching = c.fetching /\ Now'.mediums = c.mediums
         /\ Now'.finals = c.finals /\ Now'.unique = c.unique
BY DEF Now, Commit, Closures

LEMMA Left ==
  ASSUME NEW c, NEW gone, NEW lost, NEW o, Sound(c, gone, lost), Phase(c, o), Commit(c, o)
  PROVE  /\ Sound(Now', gone, lost) /\ Phase(Now', o) /\ outcome' = o
         /\ unique' = c.unique /\ numProducingFailed' = c.failed
         /\ Expecting' <=> ~Resting(c)
<1>1. c \in Closures /\ c.target \in Nat
  BY DEF Sound, Typed, Closures
<1>2. /\ Now' \in Closures
      /\ Now'.target = c.target /\ Now'.inQueue = c.inQueue
      /\ Now'.finished = c.finished /\ Now'.failed = c.failed
      /\ Now'.mediumInQueue = c.mediumInQueue
      /\ Now'.waiting = c.waiting /\ Now'.reduced = c.reduced
      /\ Now'.inFinal = c.inFinal /\ Now'.producing = c.producing
      /\ Now'.fetching = c.fetching /\ Now'.mediums = c.mediums
      /\ Now'.finals = c.finals /\ Now'.unique = c.unique
  BY <1>1, CommitFields
<1>3. Now'.target >= c.target /\ Now'.fetching \subseteq c.fetching
  BY <1>1, <1>2
<1>4. Sound(Now', gone, lost)
  BY <1>2, <1>3, FrameSound
<1>5. Phase(Now', o)
  BY <1>2 DEF Phase, Resting
<1>6. outcome' = o /\ unique' = c.unique /\ numProducingFailed' = c.failed
      /\ (Expecting' <=> ~Resting(c))
  BY DEF Commit, Expecting, Resting
<1> QED
  BY <1>4, <1>5, <1>6

\* The fields of the closure are the variables.
LEMMA NowFields ==
  /\ Now.target = numProducingTarget /\ Now.inQueue = numProducingInQueue
  /\ Now.finished = numProducingFinished /\ Now.failed = numProducingFailed
  /\ Now.mediumInQueue = numMediumReducingInQueue
  /\ Now.waiting = waitingForReducing /\ Now.reduced = mediumReduced
  /\ Now.inFinal = isInFinalReducing /\ Now.producing = producing
  /\ Now.fetching = fetching /\ Now.mediums = mediums
  /\ Now.finals = finals /\ Now.unique = unique
BY DEF Now

\* While tasks are pending the execution runs, or was rejected for its failures.
LEMMA Pending ==
  ASSUME EInv, Expecting
  PROVE  /\ outcome = "running" \/ (outcome = "rejected" /\ numProducingFailed >= producingFailLimit)
         /\ producing # {} \/ mediums # {} => finals = <<>> /\ isInFinalReducing = FALSE
         /\ finals # <<>> => outcome = "running" /\ numProducingTarget = numProducingFinished
<1>1. ~Resting(Now) /\ Phase(Now, outcome) /\ outcome \in Outcomes
  BY NowFields DEF EInv, Resting, Expecting, Rest
<1> QED
  BY <1>1, NowFields DEF Phase, Outcomes

\* A callback that returns or throws, and ends with the invariant.
LEMMA Ended ==
  ASSUME EInv, NEW c, NEW o \in Outcomes, Sound(c, missed', orphaned'), Phase(c, o), Commit(c, o),
         MovedOn(c, missed', orphaned'), thrown' \in BOOLEAN,
         faults' \in Nat, UNCHANGED <<workers, running, last>>,
         o # "finished", o = "running" /\ ~thrown' => ~Resting(c)
  PROVE  /\ EInv' /\ outcome' = o /\ numProducingFailed' = c.failed
         /\ MovedOn(Now', missed', orphaned') /\ unique' = c.unique /\ finals' = c.finals
<1>1. /\ Sound(Now', missed', orphaned') /\ Phase(Now', o) /\ outcome' = o
      /\ unique' = c.unique /\ numProducingFailed' = c.failed
      /\ (Expecting' <=> ~Resting(c))
  BY Left
<1>2. unique \in Nat /\ unique' \in Nat
  <2>1. Now \in Closures /\ Now' \in Closures
    BY <1>1 DEF EInv, Sound, Typed
  <2> QED
    BY <2>1 DEF Closures, Now
<1>3. Rest'
  BY <1>1, <1>2 DEF EInv, Rest, MovedOn
<1>4. Delivered' /\ NotStuck'
  BY <1>1 DEF Delivered, NotStuck
<1>5. MovedOn(Now', missed', orphaned') /\ finals' = c.finals
  <2>1. c \in Closures
    BY DEF Sound, Typed
  <2>2. /\ Now'.waiting = c.waiting /\ Now'.reduced = c.reduced /\ Now'.mediums = c.mediums
        /\ Now'.producing = c.producing /\ Now'.unique = c.unique
    BY <2>1, CommitFields
  <2>3. ImagesOf(Now') = ImagesOf(c)
    BY <2>2 DEF ImagesOf
  <2> QED
    BY <2>2, <2>3, MovedSame DEF Commit
<1> QED
  BY <1>1, <1>3, <1>4, <1>5 DEF EInv

\* run() from a closure that is sound.
LEMMA RunKeeps ==
  ASSUME EInv, NEW c, Sound(c, missed', orphaned), c.finals = <<>>, c.inFinal = FALSE,
         outcome = "running" \/ (outcome = "rejected" /\ c.failed >= producingFailLimit),
         c.unique = unique, MovedOn(c, missed', orphaned),
         finals = <<>> \/ (outcome = "running" /\ c.target # c.finished),
         Run(c), faults' \in Nat, UNCHANGED <<workers, running, last>>
  PROVE  EInv' /\ Moving
<1> DEFINE q == QueueProducingTasks(c)
<1>1. /\ c \in Closures /\ Accounts(c, missed') /\ thrown \in BOOLEAN
      /\ c.target \in Nat /\ c.inQueue \in Nat /\ c.finished \in Nat /\ c.failed \in Nat
      /\ c.unique \in Nat /\ producingFailLimit \in Nat
      /\ IsFiniteSet(c.mediums) /\ IsFiniteSet(c.producing)
  BY Units, SoundFinite DEF Sound, Typed, Closures, EInv, Rest
<1>2. c.unique >= unique
  BY <1>1
<1>3. CASE Rejects(c) /\ Returns(c, IF outcome = "running" THEN "rejected" ELSE outcome)
  <2>1. c.failed >= producingFailLimit
    BY <1>3 DEF Rejects
  <2>2. Commit(c, "rejected") /\ orphaned' = orphaned /\ thrown' = thrown
    BY <1>3 DEF Returns
  <2>3. Phase(c, "rejected")
    BY <2>1 DEF Phase
  <2>4. /\ EInv' /\ outcome' = "rejected" /\ numProducingFailed' = c.failed
        /\ MovedOn(Now', missed', orphaned') /\ unique' = c.unique /\ finals' = c.finals
    BY <1>1, <1>2, <2>2, <2>3, Ended DEF Outcomes
  <2> QED
    BY <2>1, <2>4 DEF Moving, Settling, Rejecting, Abandoned
<1>4. ASSUME ~Rejects(c)
      PROVE  outcome = "running" /\ c.failed < producingFailLimit
  BY <1>1, <1>4 DEF Rejects
<1>5. ASSUME NEW d, ~Rejects(c), Sound(d, missed', orphaned), Phase(d, "running"),
             Commit(d, "running"), MovedOn(d, missed', orphaned),
             d.finals = <<>> \/ (finals = <<>> /\ d.finals = << 3 >>),
             orphaned' = orphaned, thrown' \in BOOLEAN, ~thrown' => ~Resting(d)
      PROVE  EInv' /\ Moving
  <2>1. EInv' /\ outcome' = "running" /\ MovedOn(Now', missed', orphaned') /\ finals' = d.finals
    BY <1>1, <1>5, Ended DEF Outcomes
  <2>2. Retrying
    BY <1>5, <2>1 DEF Retrying
  <2> QED
    BY <1>4, <1>5, <2>1, <2>2 DEF Moving, Settling, GoingOn
<1>6. CASE ~Rejects(c) /\ ReadyForFinal(c) /\ QueueFinalReducingTask(c, 3)
  <2>1. c.target = c.finished /\ c.inQueue = 0 /\ c.waiting = {} /\ c.mediumInQueue = 0
    BY <1>6 DEF ReadyForFinal
  <2>2. c.producing = {} /\ c.mediums = {}
    BY <1>1, <2>1, FS_EmptySet DEF Accounts
  <2>3. Phase(c, "running")
    BY <1>1, <1>4, <1>6, <2>1 DEF Phase
  <2>4. CASE Returns([c EXCEPT !.finals = Append(@, 3), !.inFinal = TRUE], outcome)
    <3> DEFINE d == [c EXCEPT !.finals = Append(<<>>, 3), !.inFinal = TRUE]
    <3>1. Append(<<>>, 3) \in Seq(1..3) /\ Append(<<>>, 3) # <<>> /\ Len(Append(<<>>, 3)) = 1
      OBVIOUS
    <3>2. d \in Closures /\ d.finals # <<>> /\ Len(d.finals) = 1 /\ d.inFinal = TRUE
          /\ d.target = c.target /\ d.inQueue = c.inQueue /\ d.finished = c.finished
          /\ d.failed = c.failed /\ d.mediumInQueue = c.mediumInQueue
          /\ d.waiting = c.waiting /\ d.reduced = c.reduced /\ d.producing = c.producing
          /\ d.fetching = c.fetching /\ d.mediums = c.mediums /\ d.unique = c.unique
      BY <1>1, <3>1 DEF Closures
    <3>8. d.finals = << 3 >>
      <4>1. Append(<<>>, 3) = << 3 >>
        OBVIOUS
      <4>2. d.finals = Append(<<>>, 3)
        BY <1>1 DEF Closures
      <4> QED
        BY <4>1, <4>2
    <3>3. Commit(d, "running") /\ orphaned' = orphaned /\ thrown' = thrown
      BY <1>4, <1>6, <2>4 DEF Returns
    <3> HIDE DEF d
    <3>4. Sound(d, missed', orphaned)
      BY <1>1, <3>2, FrameSound
    <3>5. Phase(d, "running") /\ ~Resting(d)
      BY <1>1, <1>4, <1>6, <2>1, <2>2, <3>2 DEF Phase, Resting
    <3>6. MovedOn(d, missed', orphaned)
      BY <3>2, MovedSame DEF ImagesOf
    <3>7. finals = <<>> /\ d.finals = << 3 >>
      BY <1>6, <2>1, <3>8
    <3> QED
      BY <1>1, <1>5, <1>6, <3>3, <3>4, <3>5, <3>6, <3>7
  <2>5. CASE Throws(c, {})
    <3>1. Commit(c, "running") /\ orphaned' = orphaned /\ thrown' = TRUE
      BY <1>4, <1>6, <2>5 DEF Throws
    <3> QED
      BY <1>5, <1>6, <2>3, <3>1
  <2> QED
    BY <1>6, <2>4, <2>5 DEF QueueFinalReducingTask
<1>7. /\ Sound(q, missed', orphaned) /\ q.target = q.inQueue + q.finished
      /\ q.target = c.target /\ q.finished = c.finished /\ q.failed = c.failed
      /\ q.waiting = c.waiting /\ q.mediums = c.mediums
      /\ q.finals = <<>> /\ q.inFinal = FALSE /\ q.unique >= unique
      /\ Missing(c) \in Nat /\ IF Missing(c) > 0 THEN q.producing # {} ELSE q = c
  BY QueuedSound
<1>8. q \in Closures /\ MovedOn(q, missed', orphaned)
  BY <1>7, MovedQueued DEF Sound, Typed
<1>9. ASSUME ~Rejects(c) PROVE Phase(q, "running")
  BY <1>1, <1>4, <1>7, <1>9 DEF Phase
<1>10. CASE ~Rejects(c) /\ Throws(q, {})
  <2>1. Commit(q, "running") /\ orphaned' = orphaned /\ thrown' = TRUE
    BY <1>4, <1>10 DEF Throws
  <2> QED
    BY <1>5, <1>7, <1>8, <1>9, <1>10, <2>1
<1>11. CASE ~Rejects(c) /\ MediumDue(q) /\ QueueMediumReducingTask(q, q.waiting, 3)
  <2>1. q.waiting # {}
    <3>1. Cardinality({}) = 0 /\ reducingUnit \in Nat /\ reducingUnit >= 1
      BY FS_EmptySet, Units
    <3> HIDE DEF q
    <3>2. SUFFICES ASSUME q.waiting = {} PROVE FALSE
      OBVIOUS
    <3>3. Cardinality(q.waiting) = 0
      BY <3>1, <3>2
    <3>4. Cardinality(q.waiting) >= reducingUnit
      BY <1>11, <3>2 DEF MediumDue
    <3> QED
      BY <3>1, <3>3, <3>4
  <2> HIDE DEF q
  <2>2. CASE Returns([q EXCEPT !.mediums = @ \cup {[current |-> q.waiting, retry |-> 3]},
                               !.mediumInQueue = @ + 1,
                               !.waiting = StillWaiting(q, q.waiting)], outcome)
    <3> DEFINE M == q.mediums \cup {[current |-> q.waiting, retry |-> 3]}
               d == [q EXCEPT !.mediums = M, !.mediumInQueue = q.mediumInQueue + 1, !.waiting = {}]
    <3>1. M \in SUBSET MediumTasks /\ q.mediumInQueue + 1 \in Nat /\ M # {}
      <4>1. /\ q.waiting \in SUBSET Pictures /\ q.mediums \in SUBSET MediumTasks
            /\ q.mediumInQueue \in Nat
        BY <1>8 DEF Closures
      <4>2. [current |-> q.waiting, retry |-> 3] \in MediumTasks
        BY <4>1 DEF MediumTasks
      <4> QED
        BY <4>1, <4>2
    <3>2. StillWaiting(q, q.waiting) = {}
      BY DEF StillWaiting
    <3>3. Commit(d, "running") /\ orphaned' = orphaned /\ thrown' = thrown
      BY <1>4, <1>11, <2>2, <3>2 DEF Returns
    <3>4. /\ d \in Closures
          /\ d.target = q.target /\ d.inQueue = q.inQueue /\ d.finished = q.finished
          /\ d.failed = q.failed /\ d.mediumInQueue = q.mediumInQueue + 1
          /\ d.waiting = {} /\ d.reduced = q.reduced /\ d.producing = q.producing
          /\ d.fetching = q.fetching /\ d.mediums = M /\ d.unique = q.unique
          /\ d.finals = q.finals /\ d.inFinal = q.inFinal
      <4> HIDE DEF M
      <4> QED
        BY <1>8, <3>1 DEF Closures
    <3> HIDE DEF d
    <3>5. Sound(d, missed', orphaned) /\ ImagesOf(d) = ImagesOf(q)
      BY <1>7, <2>1, <3>4, GivenSound
    <3>7. MovedOn(d, missed', orphaned)
      BY <1>8, <3>4, <3>5, MovedSame
    <3>6. Phase(d, "running") /\ ~Resting(d)
      BY <1>4, <1>7, <1>11, <3>1, <3>4 DEF Phase, Resting
    <3> QED
      BY <1>1, <1>5, <1>7, <1>11, <3>3, <3>4, <3>5, <3>6, <3>7
  <2>3. CASE Throws(q, Samples(q.waiting \ q.waiting))
    <3>1. Samples(q.waiting \ q.waiting) = {}
      BY DEF Samples
    <3>2. Commit(q, "running") /\ orphaned' = orphaned /\ thrown' = TRUE
      BY <1>4, <1>11, <2>3, <3>1 DEF Throws
    <3> QED
      BY <1>5, <1>7, <1>8, <1>9, <1>11, <3>2
  <2> QED
    BY <1>11, <2>2, <2>3 DEF QueueMediumReducingTask
<1>12. CASE ~Rejects(c) /\ ~ReadyForFinal(c) /\ ~MediumDue(q) /\ Returns(q, outcome)
  <2>1. Commit(q, "running") /\ orphaned' = orphaned /\ thrown' = thrown
    BY <1>4, <1>12 DEF Returns
  <2>2. ~Resting(q)
    <3> SUFFICES ASSUME Resting(q) PROVE FALSE
      OBVIOUS
    <3>1. q = c /\ c.producing = {} /\ c.mediums = {}
      BY <1>7 DEF Resting
    <3>2. c.inQueue = 0 /\ c.mediumInQueue = 0
      BY <1>1, <3>1, FS_EmptySet DEF Accounts
    <3>3. c.target = c.finished
      BY <1>1, <1>7, <3>1, <3>2
    <3>4. c.waiting # {}
      BY <1>12, <3>2, <3>3 DEF ReadyForFinal
    <3>5. ~MediumDue(c)
      <4> HIDE DEF q
      <4> QED
        BY <1>12, <3>1
    <3> QED
      BY <3>3, <3>4, <3>5 DEF MediumDue
  <2> QED
    BY <1>1, <1>5, <1>7, <1>8, <1>9, <1>12, <2>1, <2>2
<1> QED
  BY <1>3, <1>6, <1>10, <1>11, <1>12 DEF Run

-----------------------------------------------------------------------------
(* The callbacks. *)

LEMMA SoundNow ==
  ASSUME EInv
  PROVE  /\ Sound(Now, missed, orphaned) /\ Phase(Now, outcome)
         /\ Now \in Closures /\ fetching \subseteq producing
         /\ faults \in Nat /\ faults + 1 \in Nat
         /\ thrown \in BOOLEAN /\ outcome \in Outcomes /\ unique \in Nat
         /\ MovedOn(Now, missed, orphaned)
<1>1. Sound(Now, missed, orphaned) /\ Phase(Now, outcome)
  BY DEF EInv
<1>2. Now \in Closures /\ Now.fetching \subseteq Now.producing
  BY <1>1 DEF Sound, Typed
<1>3. unique \in Nat
  BY <1>2, NowFields DEF Closures
<1> QED
  BY <1>1, <1>2, <1>3, NowFields, MovedNot DEF EInv, Rest

LEMMA CreateExecutionStep ==
  ASSUME EInv, CreateExecution
  PROVE  EInv' /\ Moving
<1> DEFINE q == QueueProducingTasks(Now)
<1>1. /\ outcome = "idle" /\ running' = TRUE
      /\ Commit(q, "running") /\ orphaned' = orphaned /\ thrown' \in BOOLEAN
      /\ UNCHANGED <<workers, last, faults, missed>>
  BY SoundNow DEF CreateExecution, Returns
<1>2. Now.failed < producingFailLimit /\ Now.unique = 0 /\ Now.target = Parallel /\ Resting(Now)
      /\ Now.inFinal = FALSE
  BY <1>1, SoundNow DEF Phase, Resting
<1>3. /\ Sound(q, missed, orphaned) /\ q.target = q.inQueue + q.finished
      /\ q.failed = Now.failed /\ q.mediums = Now.mediums /\ q.inFinal = Now.inFinal
      /\ q.finals = Now.finals /\ q.unique >= Now.unique /\ q.unique = Now.unique + Missing(Now)
      /\ Missing(Now) \in Nat /\ IF Missing(Now) > 0 THEN q.producing # {} ELSE q = Now
  BY SoundNow, QueuedSound
<1>4. Missing(Now) > 0 /\ Missing(Now) = Parallel /\ q.unique = Parallel
  <2>1. Now.finished + Now.inQueue = Now.unique
    BY SoundNow DEF Sound, Accounts
  <2>2. Now.finished \in Nat /\ Now.inQueue \in Nat
    BY SoundNow DEF Closures
  <2> QED
    BY <1>2, <1>3, <2>1, <2>2, Units DEF Missing
<1>10. MovedOn(q, missed, orphaned)
  BY SoundNow, NowFields, MovedQueued
<1>5. Phase(q, "running") /\ ~Resting(q)
  <2> HIDE DEF q
  <2> QED
    BY <1>2, <1>3, <1>4 DEF Phase, Resting
<1> HIDE DEF q
<1>6. /\ Sound(Now', missed, orphaned) /\ Phase(Now', "running") /\ outcome' = "running"
      /\ unique' = q.unique /\ (Expecting' <=> ~Resting(q))
  BY <1>1, <1>3, <1>5, Left
<1>7. unique \in Nat /\ unique' \in Nat /\ unique' >= unique
  <2>1. q \in Closures
    BY <1>3 DEF Sound, Typed
  <2> QED
    BY <1>3, <1>6, <2>1, SoundNow, NowFields DEF Closures
<1>8. Rest'
  BY <1>1, <1>6, <1>7 DEF EInv, Rest, Outcomes
<1>9. Delivered' /\ NotStuck'
  BY <1>5, <1>6 DEF Delivered, NotStuck
<1>11. MovedOn(Now', missed', orphaned') /\ finals' = <<>>
  <2>1. q \in Closures
    BY <1>3 DEF Sound, Typed
  <2>2. /\ Now'.waiting = q.waiting /\ Now'.reduced = q.reduced /\ Now'.mediums = q.mediums
        /\ Now'.producing = q.producing /\ Now'.unique = q.unique
    BY <1>1, <2>1, CommitFields
  <2>3. ImagesOf(Now') = ImagesOf(q)
    BY <2>2 DEF ImagesOf
  <2>4. MovedOn(Now', missed, orphaned)
    BY <1>10, <2>2, <2>3, MovedSame
  <2> QED
    BY <1>1, <1>2, <1>3, <2>4 DEF Commit, Resting
<1>12. Starting
  BY <1>1, <1>4, <1>6, <1>11 DEF Starting
<1> QED
  BY <1>1, <1>6, <1>8, <1>9, <1>11, <1>12 DEF EInv, Moving, Settling

LEMMA FetchingFinishedStep ==
  ASSUME EInv, NEW i \in fetching, FetchingFinished(i)
  PROVE  EInv' /\ Moving
<1> DEFINE d == [Now EXCEPT !.fetching = @ \ {i}]
<1>1. Run(d) /\ UNCHANGED <<workers, running, last, faults, missed>>
  BY DEF FetchingFinished
<1>2. i \in producing /\ Expecting
  BY SoundNow DEF Expecting
<1>3. /\ d \in Closures
      /\ d.target = Now.target /\ d.inQueue = Now.inQueue /\ d.finished = Now.finished
      /\ d.failed = Now.failed /\ d.mediumInQueue = Now.mediumInQueue
      /\ d.waiting = Now.waiting /\ d.reduced = Now.reduced /\ d.producing = Now.producing
      /\ d.fetching = Now.fetching \ {i} /\ d.mediums = Now.mediums /\ d.unique = Now.unique
      /\ d.finals = Now.finals /\ d.inFinal = Now.inFinal
      /\ Now.target \in Nat
  BY SoundNow DEF Closures
<1> HIDE DEF d
<1>4. Sound(d, missed, orphaned)
  BY <1>3, SoundNow, FrameSound
<1>5. MovedOn(d, missed, orphaned)
  BY <1>3, SoundNow, MovedSame DEF ImagesOf
<1> QED
  BY <1>1, <1>2, <1>3, <1>4, <1>5, Pending, NowFields, SoundNow, RunKeeps

LEMMA ProducingTaskFinishedStep ==
  ASSUME EInv, NEW i \in producing, NEW w \in Workers, ProducingTaskFinished(i, w)
  PROVE  EInv' /\ Moving
<1> DEFINE a == [samples |-> {i}, worker |-> w]
           d == [Produced(i) EXCEPT !.waiting = @ \cup {a}]
<1>1. Run(d) /\ UNCHANGED <<workers, running, last, faults, missed>>
  BY DEF ProducingTaskFinished
<1>2. Expecting /\ i \in Now.producing
  BY NowFields DEF Expecting
<1>3. Now.inQueue - 1 \in Nat /\ Now.finished + 1 \in Nat
  <2>1. Now.inQueue = Cardinality(Now.producing) /\ IsFiniteSet(Now.producing)
    BY SoundNow, SoundFinite DEF Sound, Accounts
  <2>2. Now.inQueue # 0 /\ Now.inQueue \in Nat /\ Now.finished \in Nat
    BY <1>2, <2>1, SoundNow, FS_EmptySet DEF Closures
  <2> QED
    BY <2>2
<1>4. a \in Pictures /\ a.samples = {i}
  BY <1>2, SoundNow DEF Pictures, Closures
<1> HIDE DEF a
<1>5. /\ d \in Closures
      /\ d.target = Now.target /\ d.inQueue = Now.inQueue - 1 /\ d.finished = Now.finished + 1
      /\ d.failed = Now.failed /\ d.mediumInQueue = Now.mediumInQueue
      /\ d.waiting = Now.waiting \cup {a} /\ d.reduced = Now.reduced
      /\ d.producing = Now.producing \ {i} /\ d.fetching = Now.fetching \ {i}
      /\ d.mediums = Now.mediums /\ d.unique = Now.unique
      /\ d.finals = Now.finals /\ d.inFinal = Now.inFinal
  BY <1>3, <1>4, SoundNow DEF Closures, Produced
<1> HIDE DEF d
<1>6. Sound(d, missed, orphaned)
  BY <1>2, <1>4, <1>5, SoundNow, FinishedSound
<1>7. MovedOn(d, missed, orphaned)
  <2>1. ImagesOf(d) = ImagesOf(Now) \cup {a} /\ Samples({a}) = {i}
    BY <1>4, <1>5 DEF ImagesOf, Samples
  <2>2. Samples(ImagesOf(d)) = Samples(ImagesOf(Now)) \cup {i}
    BY <2>1, SamplesUnion
  <2> QED
    BY <1>2, <1>5, <2>2, SoundNow, NowFields DEF MovedOn
<1> QED
  BY <1>1, <1>2, <1>5, <1>6, <1>7, Pending, NowFields, SoundNow, RunKeeps

LEMMA ProducingTaskFailedStep ==
  ASSUME EInv, NEW i \in producing, ProducingTaskFailed(i)
  PROVE  EInv' /\ Moving
<1> DEFINE d == [Produced(i) EXCEPT !.target = @ + 1, !.failed = @ + 1]
<1>1. Run(d) /\ UNCHANGED <<workers, running, last, missed>> /\ faults' = faults + 1
  BY DEF ProducingTaskFailed
<1>2. Expecting /\ i \in Now.producing
  BY NowFields DEF Expecting
<1>3. /\ Now.inQueue - 1 \in Nat /\ Now.finished + 1 \in Nat
      /\ Now.target + 1 \in Nat /\ Now.failed + 1 \in Nat /\ Now.failed \in Nat
  <2>1. Now.inQueue = Cardinality(Now.producing) /\ IsFiniteSet(Now.producing)
    BY SoundNow, SoundFinite DEF Sound, Accounts
  <2>2. Now.inQueue # 0 /\ Now.inQueue \in Nat /\ Now.finished \in Nat
        /\ Now.target \in Nat /\ Now.failed \in Nat
    BY <1>2, <2>1, SoundNow, FS_EmptySet DEF Closures
  <2> QED
    BY <2>2
<1>4. /\ d \in Closures
      /\ d.target = Now.target + 1 /\ d.inQueue = Now.inQueue - 1
      /\ d.finished = Now.finished + 1
      /\ d.failed = Now.failed + 1 /\ d.mediumInQueue = Now.mediumInQueue
      /\ d.waiting = Now.waiting /\ d.reduced = Now.reduced
      /\ d.producing = Now.producing \ {i} /\ d.fetching = Now.fetching \ {i}
      /\ d.mediums = Now.mediums /\ d.unique = Now.unique
      /\ d.finals = Now.finals /\ d.inFinal = Now.inFinal
  BY <1>3, SoundNow DEF Closures, Produced
<1> HIDE DEF d
<1>5. Sound(d, missed, orphaned)
  BY <1>2, <1>4, SoundNow, FailedSound
<1>6. numProducingFailed >= producingFailLimit => d.failed >= producingFailLimit
  BY <1>3, <1>4, NowFields, Units
<1>7. MovedOn(d, missed, orphaned)
  <2>1. ImagesOf(d) = ImagesOf(Now)
    BY <1>4 DEF ImagesOf
  <2> QED
    BY <1>4, <2>1, SoundNow, NowFields, MovedNot
<1> QED
  BY <1>1, <1>2, <1>4, <1>5, <1>6, <1>7, Pending, NowFields, SoundNow, RunKeeps

\* A medium task is settled: of its samples A are given up and B are dropped.
LEMMA MovedSettled ==
  ASSUME EInv, NEW d, d.unique = unique, d.producing = producing, NEW A, NEW B,
         Samples(ImagesOf(Now)) = Samples(ImagesOf(d)) \cup A \cup B
  PROVE  MovedOn(d, missed \cup A, orphaned \cup B)
<1>1. (unique + 1)..unique = {} /\ unique >= unique
  BY SoundNow
<1> QED
  BY <1>1 DEF MovedOn

\* Medium task m is settled: what is known of its images.
LEMMA MediumFacts ==
  ASSUME EInv, NEW m \in mediums
  PROVE  /\ m \in Now.mediums /\ m \in MediumTasks /\ Expecting
         /\ m.current # {} /\ IsFiniteSet(m.current) /\ Disjoint(m.current)
         /\ \A a \in m.current : Single(a)
         /\ m.current \cap Now.waiting = {}
         /\ IsFiniteSet(Samples(m.current))
         /\ Cardinality(Samples(m.current)) = Cardinality(m.current)
         /\ Now.mediumInQueue - 1 \in Nat
<1>1. m \in Now.mediums /\ Expecting
  BY NowFields DEF Expecting
<1>2. m \in MediumTasks /\ Now.mediumInQueue \in Nat
  BY <1>1, SoundNow DEF Closures
<1>3. /\ m.current # {} /\ IsFiniteSet(m.current) /\ \A a \in m.current : Single(a)
  BY <1>1, SoundNow DEF Sound, Typed, Singles
<1>4. m.current \subseteq ImagesOf(Now)
  BY <1>1 DEF ImagesOf, HeldBy
<1>5. Disjoint(m.current)
  BY <1>4, SoundNow DEF Sound, Apart, Disjoint
<1>6. m.current \cap Now.waiting = {}
  BY <1>1, SoundNow DEF Sound, Apart, HeldBy
<1>7. Now.mediumInQueue # 0
  BY <1>1, SoundNow, FS_EmptySet DEF Sound, Accounts, Typed
<1> QED
  BY <1>1, <1>2, <1>3, <1>5, <1>6, <1>7, SingleCount

LEMMA MediumReducingTaskFinishedStep ==
  ASSUME EInv, NEW m \in mediums, NEW got \in SUBSET m.current, NEW w \in Workers,
         MediumReducingTaskFinished(m, got, w)
  PROVE  EInv' /\ Moving
<1> DEFINE image == [samples |-> Samples(got), worker |-> w]
           rest == m.current \ got
           refill == Refill(m.current, got)
           d == [MediumSettled(m) EXCEPT !.reduced = @ \cup {image}, !.target = @ + refill]
<1>1. /\ Run(d) /\ UNCHANGED <<workers, running, last>> /\ got # {}
      /\ faults' \in {faults, faults + 1} /\ missed' = missed \cup Samples(rest)
  BY DEF MediumReducingTaskFinished, Retrieved
<1>2. faults' \in Nat
  BY <1>1, SoundNow
<1>3. /\ m \in Now.mediums /\ m \in MediumTasks /\ Expecting
      /\ Disjoint(m.current) /\ IsFiniteSet(m.current) /\ \A a \in m.current : Single(a)
      /\ IsFiniteSet(Samples(m.current))
      /\ Cardinality(Samples(m.current)) = Cardinality(m.current)
      /\ Now.mediumInQueue - 1 \in Nat
  BY MediumFacts
<1>4. Samples(got) # {} /\ Samples(got) \in SUBSET Nat
  <2>1. got \in SUBSET Pictures
    BY <1>3 DEF MediumTasks
  <2>2. PICK a \in got : TRUE
    BY <1>1
  <2>3. PICK i : a.samples = {i}
    BY <1>3 DEF Single
  <2>4. i \in Samples(got)
    BY <2>3, SamplesIff
  <2> QED
    BY <2>1, <2>4 DEF Samples, Pictures
<1>5. image \in Pictures /\ image.samples = Samples(got) /\ Samples({image}) = Samples(got)
  BY <1>4 DEF Pictures, Samples
<1>6. /\ Samples(got) \cup Samples(rest) = Samples(m.current)
      /\ Samples(got) \cap Samples(rest) = {}
  <2>1. got \cup rest = m.current
    OBVIOUS
  <2> QED
    BY <1>3, <2>1, SamplesUnion, SamplesApart
<1>7. refill = Cardinality(Samples(rest)) /\ refill \in Nat
  <2>1. IsFiniteSet(Samples(got)) /\ IsFiniteSet(Samples(rest))
    BY <1>3, <1>6, FS_Subset
  <2>2. /\ Cardinality(Samples(m.current)) = Cardinality(Samples(got)) + Cardinality(Samples(rest))
        /\ Cardinality(Samples(got)) \in Nat /\ Cardinality(Samples(rest)) \in Nat
    BY <1>6, <2>1, CountApart
  <2> QED
    BY <1>3, <2>2 DEF Refill, Weight
<1> HIDE DEF image, rest, refill
<1>8. /\ d \in Closures
      /\ d.target = Now.target + refill /\ d.inQueue = Now.inQueue
      /\ d.finished = Now.finished
      /\ d.failed = Now.failed /\ d.mediumInQueue = Now.mediumInQueue - 1
      /\ d.waiting = Now.waiting /\ d.reduced = Now.reduced \cup {image}
      /\ d.producing = Now.producing /\ d.fetching = Now.fetching
      /\ d.mediums = Now.mediums \ {m} /\ d.unique = Now.unique
      /\ d.finals = Now.finals /\ d.inFinal = Now.inFinal
  <2>1. Now.target + refill \in Nat /\ Now.reduced \cup {image} \in SUBSET Pictures
        /\ Now.mediums \ {m} \in SUBSET MediumTasks
    BY <1>5, <1>7, SoundNow DEF Closures
  <2> QED
    BY <1>3, <2>1, SoundNow DEF Closures, MediumSettled
<1> HIDE DEF d
<1>12. Samples(ImagesOf(Now)) = Samples(ImagesOf(d)) \cup Samples(rest) \cup {}
  <2>1. Samples({image}) \cup Samples(rest) \cup {} = Samples(m.current)
    BY <1>5, <1>6
  <2> QED
    BY <1>3, <1>8, <2>1, SettledSamples
<1>9. Sound(d, missed \cup Samples(rest), orphaned \cup {})
  <2>1. {image} \in SUBSET Pictures /\ \E a : {image} = {a} /\ a.samples # {}
    BY <1>4, <1>5
  <2>2. Samples({image}) \cup Samples(rest) \cup {} = Samples(m.current)
    BY <1>5, <1>6
  <2> QED
    <3>1. /\ Samples({image}) \cap Samples(rest) = {} /\ Samples({image}) \cap {} = {}
          /\ Samples(rest) \cap {} = {}
      BY <1>5, <1>6
    <3>2. d.target = Now.target + Cardinality(Samples(rest))
      BY <1>7, <1>8
    <3>3. {image} = {} \/ \E a : {image} = {a} /\ a.samples # {}
      BY <2>1
    <3> QED
      BY <1>3, <1>8, <2>1, <2>2, <3>1, <3>2, <3>3, SoundNow, SettledSound
<1>10. Sound(d, missed', orphaned)
  BY <1>1, <1>9
<1>11. MovedOn(d, missed', orphaned)
  <2>1. MovedOn(d, missed \cup Samples(rest), orphaned \cup {})
    BY <1>8, <1>12, NowFields, MovedSettled
  <2> QED
    BY <1>1, <2>1
<1> QED
  BY <1>1, <1>2, <1>3, <1>8, <1>10, <1>11, Pending, NowFields, RunKeeps

LEMMA MediumReducingTaskFailedStep ==
  ASSUME EInv, NEW m \in mediums, MediumReducingTaskFailed(m)
  PROVE  EInv' /\ Moving
<1> DEFINE s == MediumSettled(m)
<1>1. UNCHANGED <<workers, running, last>> /\ faults' \in Nat
  BY SoundNow DEF MediumReducingTaskFailed
<1>2. /\ m \in Now.mediums /\ m \in MediumTasks /\ Expecting
      /\ m.current \cap Now.waiting = {}
      /\ Cardinality(Samples(m.current)) = Cardinality(m.current)
      /\ Cardinality(Samples(m.current)) \in Nat
      /\ Now.mediumInQueue - 1 \in Nat /\ Now.mediumInQueue \in Nat
  <2>1. Now.mediumInQueue \in Nat
    BY SoundNow DEF Closures
  <2> QED
    BY <2>1, MediumFacts, FS_CardinalityType
<1>3. /\ outcome = "running" \/ (outcome = "rejected" /\ numProducingFailed >= producingFailLimit)
      /\ finals = <<>> /\ isInFinalReducing = FALSE
  BY <1>2, Pending
<1>4. /\ s \in Closures
      /\ s.target = Now.target /\ s.inQueue = Now.inQueue
      /\ s.finished = Now.finished
      /\ s.failed = Now.failed /\ s.mediumInQueue = Now.mediumInQueue - 1
      /\ s.waiting = Now.waiting /\ s.reduced = Now.reduced
      /\ s.producing = Now.producing /\ s.fetching = Now.fetching
      /\ s.mediums = Now.mediums \ {m} /\ s.unique = Now.unique
      /\ s.finals = Now.finals /\ s.inFinal = Now.inFinal
  BY <1>2, SoundNow DEF Closures, MediumSettled
<1> HIDE DEF s
<1>5. ASSUME NEW d \in Closures, Sound(d, missed', orphaned'), Commit(d, outcome),
             d.target = Now.target, d.inQueue = Now.inQueue, d.finished = Now.finished,
             d.failed = Now.failed, d.finals = Now.finals, d.inFinal = Now.inFinal,
             d.unique = Now.unique, MovedOn(d, missed', orphaned'), thrown' \in BOOLEAN, ~thrown' => d.mediums # {}
      PROVE  EInv' /\ Moving
  <2>1. Phase(d, outcome)
    BY <1>3, <1>5, NowFields, SoundNow DEF Phase
  <2>2. outcome \in Outcomes /\ outcome # "finished"
    BY <1>3, SoundNow
  <2>3. ~thrown' => ~Resting(d)
    BY <1>5 DEF Resting
  <2>4. /\ EInv' /\ outcome' = outcome /\ MovedOn(Now', missed', orphaned')
        /\ finals' = finals /\ unique' = unique /\ UNCHANGED last
    BY <1>1, <1>5, <2>1, <2>2, <2>3, NowFields, Ended
  <2>5. GoingOn \/ Abandoned
    BY <1>3, <2>4 DEF GoingOn, Retrying, Abandoned
  <2> QED
    BY <2>4, <2>5 DEF Moving, Settling
<1>6. CASE m.retry > 1 /\ QueueMediumReducingTask(s, m.current, m.retry - 1) /\ UNCHANGED missed
  <2> DEFINE n == [current |-> m.current, retry |-> m.retry - 1]
  <2>1. n \in MediumTasks
    BY <1>2, <1>6 DEF MediumTasks
  <2> HIDE DEF n
  <2>2. CASE Returns([s EXCEPT !.mediums = @ \cup {n}, !.mediumInQueue = @ + 1,
                               !.waiting = StillWaiting(s, m.current)], outcome)
    <3> DEFINE d == [s EXCEPT !.mediums = @ \cup {n}, !.mediumInQueue = @ + 1,
                              !.waiting = StillWaiting(s, m.current)]
    <3>1. StillWaiting(s, m.current) = s.waiting
      BY <1>2, <1>4 DEF StillWaiting
    <3>2. /\ d \in Closures
          /\ d.target = Now.target /\ d.inQueue = Now.inQueue
          /\ d.finished = Now.finished
          /\ d.failed = Now.failed /\ d.mediumInQueue = Now.mediumInQueue
          /\ d.waiting = Now.waiting /\ d.reduced = Now.reduced
          /\ d.producing = Now.producing /\ d.fetching = Now.fetching
          /\ d.mediums = (Now.mediums \ {m}) \cup {n} /\ d.unique = Now.unique
          /\ d.finals = Now.finals /\ d.inFinal = Now.inFinal
      <4>1. s.mediums \cup {n} \in SUBSET MediumTasks /\ s.mediumInQueue + 1 = Now.mediumInQueue
            /\ s.waiting \in SUBSET Pictures
        BY <1>2, <1>4, <2>1, SoundNow DEF Closures
      <4> QED
        BY <1>2, <1>4, <3>1, <4>1 DEF Closures
    <3>3. Commit(d, outcome) /\ orphaned' = orphaned /\ thrown' = thrown
      BY <2>2 DEF Returns
    <3> HIDE DEF d
    <3>4. Sound(d, missed, orphaned)
      BY <1>2, <3>2, SoundNow, RetriedSound DEF n
    <3>8. ImagesOf(d) = ImagesOf(Now)
      <4>1. n.current = m.current
        BY DEF n
      <4>2. HeldBy(d.mediums) = HeldBy(Now.mediums)
        BY <1>2, <3>2, <4>1 DEF HeldBy
      <4> QED
        BY <3>2, <4>2 DEF ImagesOf
    <3>7. MovedOn(d, missed, orphaned)
      BY <3>2, <3>8, SoundNow, MovedSame
    <3>5. d.mediums # {} /\ thrown' \in BOOLEAN
      BY <3>2, <3>3, SoundNow
    <3>6. missed' = missed
      BY <1>6
    <3> QED
      BY <1>5, <3>2, <3>3, <3>4, <3>5, <3>6, <3>7
  <2>3. CASE Throws(s, Samples(m.current \ s.waiting))
    <3>1. m.current \ s.waiting = m.current
      BY <1>2, <1>4
    <3>2. Commit(s, outcome) /\ orphaned' = orphaned \cup Samples(m.current) /\ thrown' = TRUE
      BY <2>3, <3>1 DEF Throws
    <3>7. Samples(ImagesOf(Now)) = Samples(ImagesOf(s)) \cup {} \cup Samples(m.current)
      <4>1. Samples({}) \cup {} \cup Samples(m.current) = Samples(m.current)
            /\ s.reduced = Now.reduced \cup {}
        BY <1>4 DEF Samples
      <4> QED
        BY <1>2, <1>4, <4>1, SettledSamples
    <3>3. Sound(s, missed \cup {}, orphaned \cup Samples(m.current))
      <4>1. Samples({}) = {} /\ {} \in SUBSET Pictures
        BY DEF Samples
      <4>2. /\ Samples({}) \cup {} \cup Samples(m.current) = Samples(m.current)
            /\ Samples({}) \cap {} = {} /\ Samples({}) \cap Samples(m.current) = {}
            /\ {} \cap Samples(m.current) = {}
        BY <4>1
      <4>3. s.target = Now.target + Cardinality({}) /\ s.reduced = Now.reduced \cup {}
        BY <1>4, SoundNow, FS_EmptySet DEF Closures
      <4> QED
        BY <1>2, <1>4, <4>1, <4>2, <4>3, SoundNow, SettledSound
    <3>4. missed' = missed
      BY <1>6
    <3>5. Sound(s, missed', orphaned')
      BY <3>2, <3>3, <3>4
    <3>6. MovedOn(s, missed', orphaned')
      <4>1. MovedOn(s, missed \cup {}, orphaned \cup Samples(m.current))
        BY <1>4, <3>7, NowFields, MovedSettled
      <4> QED
        BY <3>2, <3>4, <4>1
    <3> QED
      BY <1>4, <1>5, <3>2, <3>5, <3>6
  <2> QED
    BY <1>6, <2>2, <2>3 DEF QueueMediumReducingTask, n
<1>7. CASE /\ missed' = missed \cup Samples(m.current)
           /\ Run([s EXCEPT !.target = @ + Cardinality(m.current)])
  <2> DEFINE d == [s EXCEPT !.target = @ + Cardinality(m.current)]
  <2>1. /\ d \in Closures
        /\ d.target = Now.target + Cardinality(m.current) /\ d.inQueue = Now.inQueue
        /\ d.finished = Now.finished
        /\ d.failed = Now.failed /\ d.mediumInQueue = Now.mediumInQueue - 1
        /\ d.waiting = Now.waiting /\ d.reduced = Now.reduced
        /\ d.producing = Now.producing /\ d.fetching = Now.fetching
        /\ d.mediums = Now.mediums \ {m} /\ d.unique = Now.unique
        /\ d.finals = Now.finals /\ d.inFinal = Now.inFinal
    <3>1. Now.target + Cardinality(m.current) \in Nat
      BY <1>2, SoundNow DEF Closures
    <3> QED
      BY <1>4, <3>1 DEF Closures
  <2>2. Run(d)
    BY <1>7
  <2> HIDE DEF d
  <2>6. Samples(ImagesOf(Now)) = Samples(ImagesOf(d)) \cup Samples(m.current) \cup {}
    <3>1. Samples({}) \cup Samples(m.current) \cup {} = Samples(m.current)
          /\ d.reduced = Now.reduced \cup {}
      BY <2>1 DEF Samples
    <3> QED
      BY <1>2, <2>1, <3>1, SettledSamples
  <2>3. Sound(d, missed \cup Samples(m.current), orphaned \cup {})
    <3>1. Samples({}) = {} /\ {} \in SUBSET Pictures
      BY DEF Samples
    <3>2. /\ Samples({}) \cup Samples(m.current) \cup {} = Samples(m.current)
          /\ Samples({}) \cap Samples(m.current) = {} /\ Samples({}) \cap {} = {}
          /\ Samples(m.current) \cap {} = {}
      BY <3>1
    <3>3. d.reduced = Now.reduced \cup {} /\ d.target = Now.target + Cardinality(Samples(m.current))
      BY <1>2, <2>1
    <3> QED
      BY <1>2, <2>1, <3>1, <3>2, <3>3, SoundNow, SettledSound
  <2>4. Sound(d, missed', orphaned)
    BY <1>7, <2>3
  <2>5. MovedOn(d, missed', orphaned)
    <3>1. MovedOn(d, missed \cup Samples(m.current), orphaned \cup {})
      BY <2>1, <2>6, NowFields, MovedSettled
    <3> QED
      BY <1>7, <3>1
  <2> QED
    BY <1>1, <1>3, <2>1, <2>2, <2>4, <2>5, NowFields, RunKeeps
<1> QED
  BY <1>6, <1>7 DEF MediumReducingTaskFailed, s

-----------------------------------------------------------------------------
(* The final reduction. *)

LEMMA OnlyOneLeft ==
  ASSUME NEW s \in Seq(1..3), Len(s) = 1, NEW k \in DOMAIN s
  PROVE  /\ RemoveAt(s, k) = <<>>
         /\ s = <<s[k]>> /\ s[k] \in 1..3
<1>1. k = 1
  OBVIOUS
<1>2. s = <<s[1]>> /\ s[1] \in 1..3
  OBVIOUS
<1>3. SubSeq(s, 1, 0) = <<>> /\ SubSeq(s, 2, 1) = <<>>
  OBVIOUS
<1>4. SubSeq(s, 1, 0) \o SubSeq(s, 2, 1) = <<>>
  BY <1>3
<1> QED
  BY <1>1, <1>2, <1>4 DEF RemoveAt

\* What is known while the final task k is pending, and once it is settled.
LEMMA FinalFacts ==
  ASSUME EInv, NEW k \in DOMAIN finals
  PROVE  /\ outcome = "running" /\ finals = <<finals[k]>> /\ finals[k] \in 1..3
         /\ producing = {} /\ mediums = {} /\ waitingForReducing = {}
         /\ numProducingTarget = numProducingFinished
         /\ numProducingFailed < producingFailLimit
         /\ Now.target = Now.inQueue + Now.finished
         /\ Sound(FinalSettled(k), missed, orphaned) /\ FinalSettled(k) \in Closures
         /\ FinalSettled(k).target = Now.target /\ FinalSettled(k).inQueue = Now.inQueue
         /\ FinalSettled(k).finished = Now.finished /\ FinalSettled(k).failed = Now.failed
         /\ FinalSettled(k).mediumInQueue = Now.mediumInQueue
         /\ FinalSettled(k).waiting = {} /\ FinalSettled(k).reduced = mediumReduced
         /\ FinalSettled(k).producing = {} /\ FinalSettled(k).fetching = Now.fetching
         /\ FinalSettled(k).mediums = {} /\ FinalSettled(k).unique = unique
         /\ FinalSettled(k).finals = <<>> /\ FinalSettled(k).inFinal = FALSE
<1>1. finals \in Seq(1..3) /\ Now.target \in Nat
  BY SoundNow, NowFields DEF Closures
<1>2. finals # <<>>
  BY <1>1
<1>3. /\ Len(finals) = 1 /\ outcome = "running"
      /\ producing = {} /\ mediums = {} /\ waitingForReducing = {}
      /\ numProducingTarget = numProducingFinished
      /\ numProducingFailed < producingFailLimit
      /\ Now.target = Now.inQueue + Now.finished
  BY <1>2, SoundNow, NowFields DEF Phase
<1>4. RemoveAt(finals, k) = <<>> /\ finals = <<finals[k]>> /\ finals[k] \in 1..3
  BY <1>1, <1>3, OnlyOneLeft
<1>5. FinalSettled(k) = [Now EXCEPT !.finals = <<>>, !.inFinal = FALSE]
  BY <1>4, NowFields DEF FinalSettled
<1> DEFINE d == FinalSettled(k)
<1>6. /\ d \in Closures
      /\ d.target = Now.target /\ d.inQueue = Now.inQueue
      /\ d.finished = Now.finished /\ d.failed = Now.failed
      /\ d.mediumInQueue = Now.mediumInQueue
      /\ d.waiting = Now.waiting /\ d.reduced = Now.reduced
      /\ d.producing = Now.producing /\ d.fetching = Now.fetching
      /\ d.mediums = Now.mediums /\ d.unique = Now.unique
      /\ d.finals = <<>> /\ d.inFinal = FALSE
  <2>1. <<>> \in Seq(1..3)
    OBVIOUS
  <2> HIDE DEF d
  <2>2. d = [Now EXCEPT !.finals = <<>>, !.inFinal = FALSE]
    BY <1>5 DEF d
  <2> QED
    BY <2>1, <2>2, SoundNow DEF Closures
<1> HIDE DEF d
<1>7. Sound(d, missed, orphaned)
  <2>1. d.target >= Now.target /\ d.fetching \subseteq Now.fetching
    BY <1>1, <1>6
  <2> QED
    BY <1>6, <2>1, SoundNow, FrameSound
<1> QED
  BY <1>3, <1>4, <1>6, <1>7, NowFields DEF d

\* Only the final task itself is settled.
LEMMA FinalMoves ==
  ASSUME EInv, NEW k \in DOMAIN finals
  PROVE  /\ ImagesOf(FinalSettled(k)) = ImagesOf(Now) /\ ImagesOf(Now) = mediumReduced
         /\ MovedOn(FinalSettled(k), missed, orphaned)
<1> DEFINE s == FinalSettled(k)
<1>1. /\ producing = {} /\ mediums = {} /\ waitingForReducing = {}
      /\ s.waiting = {} /\ s.reduced = mediumReduced
      /\ s.producing = {} /\ s.mediums = {} /\ s.unique = unique
  BY FinalFacts
<1> HIDE DEF s
<1>2. ImagesOf(s) = ImagesOf(Now) /\ ImagesOf(Now) = mediumReduced
  BY <1>1, NowFields DEF ImagesOf, HeldBy
<1>3. MovedOn(s, missed, orphaned)
  BY <1>1, <1>2, SoundNow, MovedNot
<1> QED
  BY <1>2, <1>3 DEF s

\* The weight of the images that wait for the final reduction.
LEMMA WeightFacts ==
  ASSUME EInv, NEW got \in SUBSET mediumReduced
  PROVE  /\ Weight(got) \in Nat /\ Weight(mediumReduced) \in Nat
         /\ Weight(got) <= Weight(mediumReduced)
         /\ Samples(got) \subseteq 1..unique
<1>1. mediumReduced \subseteq ImagesOf(Now)
  BY NowFields DEF ImagesOf
<1>2. Samples(mediumReduced) \subseteq Samples(ImagesOf(Now))
  BY <1>1, SamplesMonotone
<1>3. Samples(ImagesOf(Now)) \subseteq 1..unique /\ IsFiniteSet(Samples(ImagesOf(Now)))
  BY SoundNow, SoundFinite, NowFields
<1>4. Samples(got) \subseteq Samples(mediumReduced)
  BY SamplesMonotone
<1>5. IsFiniteSet(Samples(mediumReduced))
  BY <1>2, <1>3, FS_Subset
<1>6. IsFiniteSet(Samples(got)) /\ Cardinality(Samples(got)) <= Cardinality(Samples(mediumReduced))
  BY <1>4, <1>5, FS_Subset
<1> QED
  BY <1>2, <1>3, <1>4, <1>5, <1>6, FS_CardinalityType DEF Weight

\* While a final task is pending all samples but those that failed are in its
\* images, given up or dropped.
LEMMA FinalBalance ==
  ASSUME EInv, NEW k \in DOMAIN finals
  PROVE  /\ Cardinality(Samples(mediumReduced)) \in Nat
         /\ Cardinality(missed) \in Nat /\ Cardinality(orphaned) \in Nat
         /\ numProducingFailed \in Nat /\ numProducingTarget \in Nat
         /\ Cardinality(Samples(mediumReduced)) + Cardinality(missed) + Cardinality(orphaned)
              + numProducingFailed = numProducingTarget
         /\ numProducingTarget >= Parallel + numProducingFailed + Cardinality(missed)
<1>1. /\ Now.producing = {} /\ Now.mediums = {} /\ Now.waiting = {}
      /\ Now.target = Now.inQueue + Now.finished
  BY FinalFacts, NowFields
<1>2. ImagesOf(Now) = mediumReduced
  BY <1>1, NowFields DEF ImagesOf, HeldBy
<1>3. /\ Spread(Now, missed, orphaned) = Samples(mediumReduced) \cup missed \cup orphaned
      /\ Samples(mediumReduced) \cap (missed \cup orphaned) = {} /\ missed \cap orphaned = {}
      /\ Cardinality(Spread(Now, missed, orphaned)) + Now.failed = Now.unique
  BY <1>1, <1>2, SoundNow DEF Spread, Sound, Divided
<1>4. /\ IsFiniteSet(Samples(mediumReduced)) /\ IsFiniteSet(missed) /\ IsFiniteSet(orphaned)
      /\ Cardinality(orphaned) \in Nat /\ Cardinality(missed) \in Nat
      /\ Cardinality(Samples(mediumReduced)) \in Nat
  BY <1>2, SoundNow, SoundFinite
<1>5. Cardinality(Spread(Now, missed, orphaned))
        = Cardinality(Samples(mediumReduced)) + Cardinality(missed) + Cardinality(orphaned)
  <2>1. /\ IsFiniteSet(Samples(mediumReduced) \cup missed)
        /\ Cardinality(Samples(mediumReduced) \cup missed)
             = Cardinality(Samples(mediumReduced)) + Cardinality(missed)
    BY <1>3, <1>4, CountApart
  <2>2. (Samples(mediumReduced) \cup missed) \cap orphaned = {}
    BY <1>3
  <2>3. Cardinality((Samples(mediumReduced) \cup missed) \cup orphaned)
          = Cardinality(Samples(mediumReduced) \cup missed) + Cardinality(orphaned)
    BY <1>4, <2>1, <2>2, CountApart
  <2> QED
    BY <1>3, <2>1, <2>3
<1>6. /\ Now.finished + Now.inQueue = Now.unique
      /\ Now.target >= Parallel + Now.failed + Cardinality(missed)
      /\ Now.finished \in Nat /\ Now.inQueue \in Nat /\ Now.unique \in Nat /\ Now.target \in Nat
      /\ Now.failed \in Nat
  BY SoundNow DEF Sound, Accounts, Closures
<1> QED
  BY <1>1, <1>3, <1>4, <1>5, <1>6, NowFields

LEMMA FinalReducingTaskFinishedStep ==
  ASSUME EInv, NEW k \in DOMAIN finals, NEW got \in SUBSET mediumReduced,
         FinalReducingTaskFinished(k, got)
  PROVE  EInv' /\ Moving
<1> DEFINE s == FinalSettled(k)
           lacking == Weight(mediumReduced) - Weight(got)
<1>1. /\ UNCHANGED <<workers, missed>> /\ faults' \in Nat
      /\ \/ lacking > 0 /\ Run([s EXCEPT !.target = @ + lacking]) /\ UNCHANGED <<running, last>>
         \/ lacking = 0 /\ Returns(s, "finished") /\ last' = Samples(got) /\ running' = FALSE
  BY SoundNow DEF FinalReducingTaskFinished, Retrieved
<1>2. /\ outcome = "running"
      /\ numProducingTarget = numProducingFinished
      /\ numProducingFailed < producingFailLimit
      /\ Now.target = Now.inQueue + Now.finished
      /\ Sound(s, missed, orphaned) /\ s \in Closures
      /\ s.target = Now.target /\ s.inQueue = Now.inQueue
      /\ s.finished = Now.finished /\ s.failed = Now.failed
      /\ s.mediumInQueue = Now.mediumInQueue
      /\ s.waiting = {} /\ s.reduced = mediumReduced
      /\ s.producing = {} /\ s.fetching = Now.fetching
      /\ s.mediums = {} /\ s.unique = unique
      /\ s.finals = <<>> /\ s.inFinal = FALSE
  BY FinalFacts
<1>3. /\ Weight(got) \in Nat /\ Weight(mediumReduced) \in Nat
      /\ Weight(got) <= Weight(mediumReduced) /\ Samples(got) \subseteq 1..unique
  BY WeightFacts
<1>4. lacking \in Nat
  BY <1>3
<1> HIDE DEF s
<1>7. ImagesOf(s) = ImagesOf(Now) /\ ImagesOf(Now) = mediumReduced /\ MovedOn(s, missed, orphaned)
  BY <1>2, FinalMoves DEF s
<1>5. CASE lacking > 0 /\ Run([s EXCEPT !.target = @ + lacking]) /\ UNCHANGED <<running, last>>
  <2> DEFINE d == [s EXCEPT !.target = @ + lacking]
  <2> HIDE DEF lacking
  <2>1. s.target \in Nat /\ s.target + lacking \in Nat
    BY <1>2, <1>4 DEF Closures
  <2>2. /\ d \in Closures
        /\ d.target = s.target + lacking /\ d.inQueue = s.inQueue
        /\ d.finished = s.finished /\ d.failed = s.failed
        /\ d.mediumInQueue = s.mediumInQueue
        /\ d.waiting = s.waiting /\ d.reduced = s.reduced
        /\ d.producing = s.producing /\ d.fetching = s.fetching
        /\ d.mediums = s.mediums /\ d.unique = s.unique
        /\ d.finals = s.finals /\ d.inFinal = s.inFinal
    BY <1>2, <2>1 DEF Closures
  <2>3. Run(d)
    BY <1>5
  <2>4. d.target >= s.target
    BY <1>4, <2>1, <2>2
  <2> HIDE DEF d
  <2>5. Sound(d, missed, orphaned)
    BY <1>2, <2>2, <2>4, FrameSound
  <2>6. missed' = missed /\ UNCHANGED <<workers, running, last>>
    BY <1>1, <1>5
  <2>7. Sound(d, missed', orphaned)
    BY <2>5, <2>6
  <2>8. MovedOn(d, missed', orphaned)
    <3>1. MovedOn(s, missed, orphaned) /\ ImagesOf(d) = ImagesOf(s)
      BY <1>7, <2>2 DEF ImagesOf
    <3> QED
      BY <2>2, <2>6, <3>1, MovedSame
  <2>9. d.target # d.finished
    <3>1. s.target = s.finished
      BY <1>2, NowFields
    <3> QED
      BY <1>4, <1>5, <2>1, <2>2, <3>1
  <2> QED
    BY <1>1, <1>2, <2>2, <2>3, <2>6, <2>7, <2>8, <2>9, RunKeeps
<1>6. CASE lacking = 0 /\ Returns(s, "finished") /\ last' = Samples(got) /\ running' = FALSE
  <2>1. Resting(s)
    BY <1>2 DEF Resting
  <2>2. Phase(s, "finished")
    BY <1>2, <2>1 DEF Phase
  <2>3. Commit(s, "finished") /\ orphaned' = orphaned /\ thrown' = thrown
    BY <1>6 DEF Returns
  <2>4. /\ Sound(Now', missed, orphaned) /\ Phase(Now', "finished") /\ outcome' = "finished"
        /\ unique' = unique
    BY <1>2, <2>2, <2>3, Left
  <2>5. last' \subseteq 1..unique'
    BY <1>3, <1>6, <2>4
  <2>6. Rest'
    BY <1>1, <1>6, <2>3, <2>4, <2>5, SoundNow DEF EInv, Rest, Outcomes
  <2>7. Cardinality(last') + Cardinality(orphaned') >= Parallel
    <3>1. Cardinality(last') = Cardinality(Samples(mediumReduced))
      BY <1>3, <1>6 DEF Weight
    <3>2. /\ Cardinality(Samples(mediumReduced)) \in Nat
          /\ Cardinality(missed) \in Nat /\ Cardinality(orphaned) \in Nat
          /\ numProducingFailed \in Nat /\ numProducingTarget \in Nat
          /\ Cardinality(Samples(mediumReduced)) + Cardinality(missed) + Cardinality(orphaned)
               + numProducingFailed = numProducingTarget
          /\ numProducingTarget >= Parallel + numProducingFailed + Cardinality(missed)
      BY FinalBalance
    <3> QED
      BY <2>3, <3>1, <3>2, Units
  <2>8. Delivered' /\ NotStuck'
    BY <2>4, <2>7 DEF Delivered, NotStuck
  <2>9. missed' = missed /\ orphaned' = orphaned
    BY <1>1, <2>3
  <2>10. EInv'
    BY <2>4, <2>6, <2>8, <2>9 DEF EInv
  <2>11. MovedOn(Now', missed', orphaned')
    <3>1. /\ Now'.waiting = s.waiting /\ Now'.reduced = s.reduced /\ Now'.mediums = s.mediums
          /\ Now'.producing = s.producing /\ Now'.unique = s.unique
      BY <1>2, <2>3, CommitFields
    <3>2. ImagesOf(Now') = ImagesOf(s)
      BY <3>1 DEF ImagesOf
    <3> QED
      BY <1>7, <2>9, <3>1, <3>2, MovedSame
  <2>12. last' = Samples(mediumReduced)
    <3>1. IsFiniteSet(Samples(mediumReduced)) /\ Samples(got) \subseteq Samples(mediumReduced)
      BY <1>7, SamplesMonotone, SoundNow, SoundFinite
    <3>2. Cardinality(Samples(got)) = Cardinality(Samples(mediumReduced))
      BY <1>3, <1>6 DEF Weight
    <3> QED
      BY <1>6, <3>1, <3>2, FS_Subset
  <2>13. Finishing
    <3>1. finals # <<>> /\ finals' = <<>>
      BY <1>2, <2>3 DEF Commit
    <3>2. UNCHANGED <<producing, unique, waitingForReducing, mediums, mediumReduced>>
      BY <1>2, <2>3, FinalFacts DEF Commit
    <3> QED
      BY <1>2, <1>7, <2>4, <2>9, <2>12, <3>1, <3>2 DEF Finishing
  <2> QED
    BY <2>10, <2>11, <2>13 DEF Moving, Settling
<1> QED
  BY <1>1, <1>5, <1>6

LEMMA FinalReducingTaskFailedStep ==
  ASSUME EInv, NEW k \in DOMAIN finals, FinalReducingTaskFailed(k)
  PROVE  EInv' /\ Moving
<1> DEFINE s == FinalSettled(k)
<1>1. /\ UNCHANGED <<workers, running, last, missed>> /\ faults' \in Nat
      /\ \/ finals[k] > 1 /\ QueueFinalReducingTask(s, finals[k] - 1)
         \/ finals[k] = 1 /\ Returns(s, "rejected")
  BY SoundNow DEF FinalReducingTaskFailed
<1>2. /\ outcome = "running" /\ finals = <<finals[k]>> /\ finals[k] \in 1..3
      /\ numProducingTarget = numProducingFinished
      /\ numProducingFailed < producingFailLimit
      /\ Now.target = Now.inQueue + Now.finished
      /\ Sound(s, missed, orphaned) /\ s \in Closures
      /\ s.target = Now.target /\ s.inQueue = Now.inQueue
      /\ s.finished = Now.finished /\ s.failed = Now.failed
      /\ s.mediumInQueue = Now.mediumInQueue
      /\ s.waiting = {} /\ s.reduced = mediumReduced
      /\ s.producing = {} /\ s.fetching = Now.fetching
      /\ s.mediums = {} /\ s.unique = unique
      /\ s.finals = <<>> /\ s.inFinal = FALSE
  BY FinalFacts
<1> HIDE DEF s
<1>3. s.target \in Nat /\ s.unique \in Nat /\ s.unique >= unique
  BY <1>2 DEF Closures
<1>4. Phase(s, "running") /\ Phase(s, "rejected")
  BY <1>2, NowFields DEF Phase, Resting
<1>5. missed' = missed
  BY <1>1
<1>8. ImagesOf(s) = ImagesOf(Now) /\ MovedOn(s, missed', orphaned)
  BY <1>5, FinalMoves DEF s
<1>6. CASE finals[k] = 1 /\ Returns(s, "rejected")
  <2>1. Commit(s, "rejected") /\ orphaned' = orphaned /\ thrown' = thrown
    BY <1>6 DEF Returns
  <2>2. Sound(s, missed', orphaned')
    BY <1>2, <1>5, <2>1
  <2>3. /\ EInv' /\ outcome' = "rejected" /\ MovedOn(Now', missed', orphaned')
        /\ unique' = unique /\ finals' = <<>>
    BY <1>1, <1>2, <1>3, <1>4, <1>8, <2>1, <2>2, SoundNow, Ended DEF Outcomes
  <2>4. finals = << 1 >>
    BY <1>2, <1>6
  <2> QED
    BY <1>1, <1>2, <2>3, <2>4 DEF Moving, Settling, Rejecting
<1>7. CASE finals[k] > 1 /\ QueueFinalReducingTask(s, finals[k] - 1)
  <2> DEFINE r == finals[k] - 1
             d == [s EXCEPT !.finals = <<r>>, !.inFinal = TRUE]
  <2>1. r \in 1..3
    BY <1>2, <1>7
  <2> HIDE DEF r
  <2>2. Append(s.finals, r) = <<r>>
    BY <1>2
  <2>3. <<r>> \in Seq(1..3) /\ <<r>> # <<>> /\ Len(<<r>>) = 1
    BY <2>1
  <2>4. CASE Returns([s EXCEPT !.finals = Append(@, r), !.inFinal = TRUE], outcome)
    <3>1. Commit(d, "running") /\ orphaned' = orphaned /\ thrown' = thrown
      BY <1>2, <2>2, <2>4 DEF Returns
    <3>2. /\ d \in Closures
          /\ d.target = s.target /\ d.inQueue = s.inQueue
          /\ d.finished = s.finished /\ d.failed = s.failed
          /\ d.mediumInQueue = s.mediumInQueue
          /\ d.waiting = s.waiting /\ d.reduced = s.reduced
          /\ d.producing = s.producing /\ d.fetching = s.fetching
          /\ d.mediums = s.mediums /\ d.unique = s.unique
          /\ d.finals # <<>> /\ Len(d.finals) = 1 /\ d.finals = <<r>> /\ d.inFinal = TRUE
      BY <1>2, <2>3 DEF Closures
    <3> HIDE DEF d
    <3>3. d.target >= s.target
      BY <1>3, <3>2
    <3>4. Sound(d, missed, orphaned)
      BY <1>2, <3>2, <3>3, FrameSound
    <3>5. Phase(d, "running") /\ ~Resting(d)
      BY <1>2, <3>2, NowFields DEF Phase, Resting
    <3>6. Sound(d, missed', orphaned')
      BY <1>5, <3>1, <3>4
    <3>8. MovedOn(d, missed', orphaned)
      BY <1>8, <3>2, MovedSame DEF ImagesOf
    <3>7. EInv' /\ outcome' = "running" /\ MovedOn(Now', missed', orphaned') /\ finals' = <<r>>
      BY <1>1, <1>3, <3>1, <3>2, <3>5, <3>6, <3>8, SoundNow, Ended DEF Outcomes
    <3>9. Retrying
      <4>1. r = finals[1] - 1 /\ finals # <<>>
        BY <1>2 DEF r
      <4> QED
        BY <3>7, <4>1 DEF Retrying
    <3> QED
      BY <1>1, <1>2, <3>7, <3>9 DEF Moving, Settling, GoingOn
  <2>5. CASE Throws(s, {})
    <3>1. Commit(s, "running") /\ orphaned' = orphaned /\ thrown' = TRUE
      BY <1>2, <2>5 DEF Throws
    <3>2. Sound(s, missed', orphaned')
      BY <1>2, <1>5, <3>1
    <3>3. EInv' /\ outcome' = "running" /\ MovedOn(Now', missed', orphaned') /\ finals' = <<>>
      BY <1>1, <1>2, <1>3, <1>4, <1>8, <3>1, <3>2, Ended DEF Outcomes
    <3>4. Retrying
      BY <1>2, <3>3 DEF Retrying
    <3> QED
      BY <1>1, <1>2, <3>3, <3>4 DEF Moving, Settling, GoingOn
  <2> QED
    BY <1>7, <2>4, <2>5 DEF QueueFinalReducingTask, r
<1> QED
  BY <1>1, <1>6, <1>7

-----------------------------------------------------------------------------
(* The whole. *)

LEMMA Initially ==
  ASSUME Init
  PROVE  EInv
<1>1. /\ Now.target = Parallel /\ Now.inQueue = 0 /\ Now.finished = 0 /\ Now.failed = 0
      /\ Now.mediumInQueue = 0 /\ Now.waiting = {} /\ Now.reduced = {} /\ Now.inFinal = FALSE
      /\ Now.producing = {} /\ Now.fetching = {} /\ Now.mediums = {} /\ Now.finals = <<>>
      /\ Now.unique = 0
  BY NowFields DEF Init
<1>2. Now \in Closures
  <2>1. <<>> \in Seq(1..3)
    OBVIOUS
  <2> QED
    BY <2>1, Units DEF Init, Now, Closures
<1>3. Cardinality({}) = 0 /\ IsFiniteSet({})
  BY FS_EmptySet
<1>4. ImagesOf(Now) = {} /\ Samples(ImagesOf(Now)) = {} /\ HeldBy(Now.mediums) = {}
      /\ Spread(Now, {}, {}) = {}
  BY <1>1 DEF ImagesOf, HeldBy, Samples, Spread
<1>5. Typed(Now) /\ Singles(Now) /\ Apart(Now)
  BY <1>1, <1>2, <1>3, <1>4 DEF Typed, Singles, Apart, Disjoint
<1>6. Divided(Now, {}, {})
  <2>1. Cardinality(Spread(Now, {}, {})) + Now.failed = Now.unique
    <3>1. Cardinality(Spread(Now, {}, {})) = 0
      BY ONLY <1>3, <1>4, Zenon
    <3> QED
      BY ONLY <1>1, <3>1, SMT
  <2>2. Spread(Now, {}, {}) \subseteq 1..Now.unique
    BY <1>4
  <2> QED
    BY <1>1, <1>4, <2>1, <2>2 DEF Divided
<1>7. Accounts(Now, {})
  BY <1>1, <1>3, Units DEF Accounts
<1>8. Sound(Now, missed, orphaned)
  BY <1>5, <1>6, <1>7 DEF Init, Sound
<1>9. Phase(Now, outcome)
  BY <1>1, Units DEF Init, Phase, Resting
<1>10. Rest /\ Delivered /\ NotStuck
  BY DEF Init, Rest, Outcomes, Delivered, NotStuck
<1> QED
  BY <1>8, <1>9, <1>10 DEF EInv

LEMMA HeartbeatStep ==
  ASSUME EInv, NEW w \in Workers, RemoveWorker(w) \/ RecognizeWorker(w)
  PROVE  EInv' /\ Moving
<1>1. /\ UNCHANGED <<closure, running, last, outcome, faults, history>>
      /\ workers' \in {workers \ {w}, workers \cup {w}}
  BY DEF RemoveWorker, RecognizeWorker
<1>2. Now' = Now /\ missed' = missed /\ orphaned' = orphaned /\ thrown' = thrown
      /\ outcome' = outcome /\ unique' = unique
      /\ (Expecting' <=> Expecting)
  BY <1>1 DEF closure, counters, history, Now, Expecting
<1>3. Sound(Now', missed', orphaned') /\ Phase(Now', outcome')
  BY <1>2, SoundNow
<1>4. Rest'
  BY <1>1, <1>2 DEF EInv, Rest
<1>5. Delivered' /\ NotStuck'
  BY <1>1, <1>2 DEF EInv, Delivered, NotStuck
<1>6. MovedOn(Now', missed', orphaned') /\ Resuming
  BY <1>1, <1>2, SoundNow DEF Resuming, closure, history
<1> QED
  BY <1>2, <1>3, <1>4, <1>5, <1>6 DEF EInv, Moving, Settling

LEMMA StutteringStep ==
  ASSUME EInv, UNCHANGED vars
  PROVE  EInv' /\ Moving
<1>1. Now' = Now /\ missed' = missed /\ orphaned' = orphaned /\ thrown' = thrown
      /\ outcome' = outcome /\ unique' = unique
      /\ (Expecting' <=> Expecting)
  BY DEF vars, closure, counters, history, Now, Expecting
<1>5. MovedOn(Now', missed', orphaned') /\ Resuming
  BY <1>1, SoundNow DEF Resuming, vars, closure, history
<1>2. Sound(Now', missed', orphaned') /\ Phase(Now', outcome')
  BY <1>1, SoundNow
<1>3. Rest'
  BY <1>1 DEF vars, EInv, Rest
<1>4. Delivered' /\ NotStuck'
  BY <1>1 DEF vars, EInv, Delivered, NotStuck
<1> QED
  BY <1>1, <1>2, <1>3, <1>4, <1>5 DEF EInv, Moving, Settling

LEMMA Inductive ==
  ASSUME EInv, [Next]_vars
  PROVE  EInv' /\ Moving
<1>1. CASE CreateExecution
  BY <1>1, CreateExecutionStep
<1>2. CASE Fetch
  BY <1>2, FetchingFinishedStep DEF Fetch
<1>3. ASSUME NEW i \in producing, NEW w \in Workers, ProducingTaskFinished(i, w)
      PROVE  EInv' /\ Moving
  BY <1>3, ProducingTaskFinishedStep
<1>4. ASSUME NEW i \in producing, ProducingTaskFailed(i)
      PROVE  EInv' /\ Moving
  BY <1>4, ProducingTaskFailedStep
<1>5. ASSUME NEW m \in mediums, NEW got \in SUBSET m.current, NEW w \in Workers,
             MediumReducingTaskFinished(m, got, w)
      PROVE  EInv' /\ Moving
  BY <1>5, MediumReducingTaskFinishedStep
<1>6. ASSUME NEW m \in mediums, MediumReducingTaskFailed(m)
      PROVE  EInv' /\ Moving
  BY <1>6, MediumReducingTaskFailedStep
<1>7. ASSUME NEW k \in DOMAIN finals, NEW got \in SUBSET mediumReduced,
             FinalReducingTaskFinished(k, got)
      PROVE  EInv' /\ Moving
  BY <1>7, FinalReducingTaskFinishedStep
<1>8. ASSUME NEW k \in DOMAIN finals, FinalReducingTaskFailed(k)
      PROVE  EInv' /\ Moving
  BY <1>8, FinalReducingTaskFailedStep
<1>9. CASE ProducingSettled \/ ReducingSettled
  BY <1>3, <1>4, <1>5, <1>6, <1>7, <1>8, <1>9 DEF ProducingSettled, ReducingSettled
<1>10. CASE \E w \in Workers : RemoveWorker(w) \/ RecognizeWorker(w)
  BY <1>10, HeartbeatStep
<1>11. CASE UNCHANGED vars
  BY <1>11, StutteringStep
<1> QED
  BY <1>1, <1>2, <1>9, <1>10, <1>11 DEF Next

\* The inductive invariant, for every number of samples, of workers, of faults.
THEOREM ExecutionInvariance == Spec => []EInv
<1>1. Init => EInv
  BY Initially
<1>2. EInv /\ [Next]_vars => EInv'
  BY Inductive
<1> QED
  BY <1>1, <1>2, PTL DEF Spec

\* Every variable of an execution keeps its type: no sample is numbered that was
\* not queued, no counter falls below zero (executions.js:75-85).
THEOREM ExecutionTypes == Spec => []TypeOK
<1>1. EInv => TypeOK
  <2> SUFFICES ASSUME EInv PROVE TypeOK
    OBVIOUS
  <2>1. /\ numProducingTarget \in Nat /\ numProducingInQueue \in Nat
        /\ numProducingFinished \in Nat /\ numProducingFailed \in Nat
        /\ numMediumReducingInQueue \in Nat /\ unique \in Nat /\ faults \in Nat
        /\ finals \in Seq(1..3) /\ isInFinalReducing \in BOOLEAN
        /\ mediums \subseteq MediumTasks
    BY SoundNow, NowFields DEF Closures
  <2>2. /\ producing \subseteq 1..unique /\ missed \subseteq 1..unique
        /\ orphaned \subseteq 1..unique /\ fetching \subseteq producing
    BY SoundNow, SoundFinite, NowFields
  <2>3. \A a \in ImagesOf(Now) : a \in Image
    BY SoundNow, SoundFinite, NowFields DEF Pictures, Image
  <2>4. waitingForReducing \subseteq Image /\ mediumReduced \subseteq Image
    BY <2>3, NowFields DEF ImagesOf
  <2>5. mediums \subseteq [current : SUBSET Image, retry : 1..3]
    <3> SUFFICES ASSUME NEW m \in mediums
                 PROVE  m \in [current : SUBSET Image, retry : 1..3]
      OBVIOUS
    <3>1. m.current \subseteq Image
      BY <2>3, NowFields DEF ImagesOf, HeldBy
    <3>2. m \in MediumTasks
      BY <2>1
    <3> QED
      BY <3>1, <3>2 DEF MediumTasks
  <2> QED
    BY <2>1, <2>2, <2>4, <2>5 DEF EInv, Rest, Outcomes, TypeOK
<1> QED
  BY <1>1, ExecutionInvariance, PTL

\* The counters count the pending tasks, and between two callbacks the target of
\* a running execution is what is queued and finished (executions.js:90), even
\* after a callback that threw.
THEOREM CountersCount == Spec => []CountersAgree
<1>1. EInv => CountersAgree
  <2> SUFFICES ASSUME EInv PROVE CountersAgree
    OBVIOUS
  <2>1. Phase(Now, outcome) /\ Accounts(Now, missed)
    BY SoundNow DEF Sound
  <2> QED
    BY <2>1, NowFields DEF Phase, Accounts, CountersAgree
<1> QED
  BY <1>1, ExecutionInvariance, PTL

\* No sample is counted twice and none is forgotten, whatever fails, is missed or
\* is dropped (executions.js:190, 221, 253-271).
THEOREM EverySampleOnce == Spec => []SampleOnce
<1>1. EInv => SampleOnce
  <2> SUFFICES ASSUME EInv PROVE SampleOnce
    OBVIOUS
  <2>1. Apart(Now) /\ Divided(Now, missed, orphaned)
    BY SoundNow DEF Sound
  <2>2. Merging = HeldBy(Now.mediums)
    BY NowFields DEF Merging, HeldBy
  <2>3. Kept = ImagesOf(Now)
    BY <2>2, NowFields DEF Kept, ImagesOf
  <2>4. Spread(Now, missed, orphaned) = producing \cup Samples(Kept) \cup missed \cup orphaned
    BY <2>3, NowFields DEF Spread
  <2>5. /\ producing \cap (Samples(Kept) \cup missed \cup orphaned) = {}
        /\ Samples(Kept) \cap (missed \cup orphaned) = {} /\ missed \cap orphaned = {}
        /\ Cardinality(producing \cup Samples(Kept) \cup missed \cup orphaned)
             + numProducingFailed = unique
    BY <2>1, <2>3, <2>4, NowFields DEF Divided
  <2>6. /\ \A a, b \in Kept : a # b => a.samples \cap b.samples = {}
        /\ waitingForReducing \cap Merging = {}
        /\ mediumReduced \cap (waitingForReducing \cup Merging) = {}
        /\ \A m, n \in mediums : m # n => m.current \cap n.current = {}
    BY <2>1, <2>2, <2>3, NowFields DEF Apart, Disjoint
  <2> QED
    BY <2>5, <2>6 DEF SampleOnce
<1> QED
  BY <1>1, ExecutionInvariance, PTL

\* While the final reduction is pending, nothing else is (executions.js:152-159,
\* 284-318).
THEOREM FinalIsAlone == Spec => []FinalAlone
<1>1. EInv => FinalAlone
  <2> SUFFICES ASSUME EInv PROVE FinalAlone
    OBVIOUS
  <2>1. Phase(Now, outcome) /\ finals \in Seq(1..3)
    BY SoundNow, NowFields DEF Closures
  <2>2. CASE finals = <<>>
    <3>1. isInFinalReducing = FALSE /\ Len(finals) = 0
      BY <2>1, <2>2, NowFields DEF Phase
    <3>2. isInFinalReducing = (finals # <<>>)
      BY <2>2, <3>1, Zenon
    <3> QED
      BY <2>2, <3>1, <3>2 DEF FinalAlone
  <2>3. CASE finals # <<>>
    <3>1. isInFinalReducing = TRUE /\ Len(finals) = 1
          /\ producing = {} /\ mediums = {} /\ waitingForReducing = {}
      BY <2>1, <2>3, NowFields DEF Phase
    <3>2. isInFinalReducing = (finals # <<>>)
      BY <2>3, <3>1, Zenon
    <3> QED
      BY <2>3, <3>1, <3>2 DEF FinalAlone
  <2> QED
    BY <2>2, <2>3
<1> QED
  BY <1>1, ExecutionInvariance, PTL

-----------------------------------------------------------------------------
(* What is asked for, and no more: a second invariant on top of the first. *)

Exact ==
  /\ ~thrown => orphaned = {}
  /\ faults = 0 =>
       /\ numProducingTarget = Parallel /\ numProducingFailed = 0
       /\ missed = {} /\ orphaned = {}
       /\ outcome = "finished" => Cardinality(last) = Parallel

LEMMA RunTarget ==
  ASSUME NEW c, {"target", "failed"} \subseteq DOMAIN c, Run(c)
  PROVE  /\ numProducingTarget' = c.target /\ numProducingFailed' = c.failed
         /\ orphaned' = orphaned /\ thrown' \in {thrown, TRUE}
         /\ outcome' \in {outcome, "rejected"}
<1> DEFINE q == QueueProducingTasks(c)
           given == [q EXCEPT !.mediums = @ \cup {[current |-> q.waiting, retry |-> 3]},
                              !.mediumInQueue = @ + 1,
                              !.waiting = StillWaiting(q, q.waiting)]
<1>1. /\ q.target = c.target /\ q.failed = c.failed
      /\ given.target = c.target /\ given.failed = c.failed
  <2>1. q = c \/ \E new, n, u : q = [c EXCEPT !.producing = @ \cup new, !.fetching = @ \cup new,
                                             !.inQueue = n, !.unique = u]
    BY DEF QueueProducingTasks
  <2> HIDE DEF q
  <2>2. /\ "target" \in DOMAIN q /\ "failed" \in DOMAIN q
        /\ q.target = c.target /\ q.failed = c.failed
    BY <2>1
  <2> QED
    BY <2>2
<1> HIDE DEF q
<1>2. ASSUME NEW d, NEW o \in {outcome, "rejected"}, Commit(d, o),
             d.target = c.target, d.failed = c.failed,
             orphaned' = orphaned, thrown' \in {thrown, TRUE}
      PROVE  /\ numProducingTarget' = c.target /\ numProducingFailed' = c.failed
             /\ orphaned' = orphaned /\ thrown' \in {thrown, TRUE}
             /\ outcome' \in {outcome, "rejected"}
  BY <1>2 DEF Commit
<1>3. CASE Returns(c, IF outcome = "running" THEN "rejected" ELSE outcome)
  BY <1>2, <1>3 DEF Returns
<1>4. CASE QueueFinalReducingTask(c, 3)
  <2> DEFINE d == [c EXCEPT !.finals = Append(@, 3), !.inFinal = TRUE]
  <2>1. d.target = c.target /\ d.failed = c.failed
    OBVIOUS
  <2>2. \/ Commit(d, outcome) /\ orphaned' = orphaned /\ thrown' = thrown
        \/ Commit(c, outcome) /\ orphaned' = orphaned /\ thrown' = TRUE
    BY <1>4 DEF QueueFinalReducingTask, Returns, Throws
  <2> HIDE DEF d
  <2> QED
    BY <1>2, <2>1, <2>2
<1>5. CASE Throws(q, {})
  BY <1>1, <1>2, <1>5 DEF Throws
<1>6. CASE QueueMediumReducingTask(q, q.waiting, 3)
  <2>1. Samples(q.waiting \ q.waiting) = {}
    BY DEF Samples
  <2>2. \/ Commit(given, outcome) /\ orphaned' = orphaned /\ thrown' = thrown
        \/ Commit(q, outcome) /\ orphaned' = orphaned /\ thrown' = TRUE
    BY <1>6, <2>1 DEF QueueMediumReducingTask, Returns, Throws
  <2> HIDE DEF given
  <2> QED
    BY <1>1, <1>2, <2>2
<1>7. CASE Returns(q, outcome)
  BY <1>1, <1>2, <1>7 DEF Returns
<1> QED
  BY <1>3, <1>4, <1>5, <1>6, <1>7 DEF Run, q

\* A step keeps Exact if what it speaks of changes only with an exception or a
\* fault.
LEMMA ExactKept ==
  ASSUME Exact, faults \in Nat, faults' \in {faults, faults + 1},
         thrown \in BOOLEAN, thrown' \in {thrown, TRUE},
         orphaned' = orphaned \/ thrown' = TRUE,
         faults' = faults =>
           /\ numProducingTarget' = numProducingTarget /\ numProducingFailed' = numProducingFailed
           /\ missed' = missed /\ orphaned' = orphaned
           /\ outcome' = "finished" => outcome = "finished" /\ last' = last
  PROVE  Exact'
<1>1. faults' = 0 => faults' = faults
  OBVIOUS
<1>2. ~thrown' => orphaned' = {}
  <2> SUFFICES ASSUME ~thrown' PROVE orphaned' = {}
    OBVIOUS
  <2>1. ~thrown /\ orphaned' = orphaned
    OBVIOUS
  <2> QED
    BY <2>1 DEF Exact
<1> QED
  BY <1>1, <1>2 DEF Exact

LEMMA ExactInductive ==
  ASSUME EInv, Exact, [Next]_vars
  PROVE  Exact'
<1>0. faults \in Nat /\ thrown \in BOOLEAN /\ Now \in Closures
  BY SoundNow
<1>1. CASE CreateExecution
  <2>1. /\ Commit(QueueProducingTasks(Now), "running") /\ orphaned' = orphaned
        /\ thrown' \in {thrown, TRUE} /\ UNCHANGED <<last, faults, missed>>
    BY <1>1 DEF CreateExecution, Returns
  <2>2. /\ QueueProducingTasks(Now).target = Now.target
        /\ QueueProducingTasks(Now).failed = Now.failed
    BY SoundNow, QueuedSound
  <2>3. numProducingTarget' = numProducingTarget /\ numProducingFailed' = numProducingFailed
        /\ outcome' = "running"
    BY <2>1, <2>2, NowFields DEF Commit
  <2> QED
    BY <1>0, <2>1, <2>3, ExactKept
<1>2. ASSUME NEW d, {"target", "failed"} \subseteq DOMAIN d, Run(d),
             UNCHANGED last, faults' \in {faults, faults + 1},
             faults' = faults => d.target = Now.target /\ d.failed = Now.failed /\ missed' = missed
      PROVE  Exact'
  <2>1. /\ numProducingTarget' = d.target /\ numProducingFailed' = d.failed
        /\ orphaned' = orphaned /\ thrown' \in {thrown, TRUE}
        /\ outcome' \in {outcome, "rejected"}
    BY <1>2, RunTarget
  <2> QED
    BY <1>0, <1>2, <2>1, NowFields, ExactKept
<1>3. {"target", "failed"} \subseteq DOMAIN Now
  BY DEF Now
<1>4. ASSUME NEW i \in fetching, FetchingFinished(i) PROVE Exact'
  <2> DEFINE d == [Now EXCEPT !.fetching = @ \ {i}]
  <2>1. Run(d) /\ UNCHANGED <<last, faults, missed>>
    BY <1>4 DEF FetchingFinished
  <2>2. {"target", "failed"} \subseteq DOMAIN d /\ d.target = Now.target /\ d.failed = Now.failed
    BY <1>3
  <2> HIDE DEF d
  <2> QED
    BY <1>2, <2>1, <2>2
<1>5. ASSUME NEW i \in producing, NEW w \in Workers, ProducingTaskFinished(i, w) PROVE Exact'
  <2> DEFINE d == [Produced(i) EXCEPT !.waiting = @ \cup {[samples |-> {i}, worker |-> w]}]
  <2>1. Run(d) /\ UNCHANGED <<last, faults, missed>>
    BY <1>5 DEF ProducingTaskFinished
  <2>2. {"target", "failed"} \subseteq DOMAIN d /\ d.target = Now.target /\ d.failed = Now.failed
    BY <1>3 DEF Produced
  <2> HIDE DEF d
  <2> QED
    BY <1>2, <2>1, <2>2
<1>6. ASSUME NEW i \in producing, ProducingTaskFailed(i) PROVE Exact'
  <2> DEFINE d == [Produced(i) EXCEPT !.target = @ + 1, !.failed = @ + 1]
  <2>1. Run(d) /\ UNCHANGED last /\ faults' = faults + 1
    BY <1>6 DEF ProducingTaskFailed
  <2>2. {"target", "failed"} \subseteq DOMAIN d
    BY <1>3 DEF Produced
  <2> HIDE DEF d
  <2>3. faults' # faults
    BY <1>0, <2>1
  <2> QED
    BY <1>2, <2>1, <2>2, <2>3
<1>7. ASSUME NEW m \in mediums, NEW got \in SUBSET m.current, NEW w \in Workers,
             MediumReducingTaskFinished(m, got, w)
      PROVE  Exact'
  <2> DEFINE image == [samples |-> Samples(got), worker |-> w]
             refill == Refill(m.current, got)
             d == [MediumSettled(m) EXCEPT !.reduced = @ \cup {image}, !.target = @ + refill]
  <2>1. /\ Run(d) /\ UNCHANGED last /\ missed' = missed \cup Samples(m.current \ got)
        /\ faults' = IF got = m.current THEN faults ELSE faults + 1
    BY <1>7 DEF MediumReducingTaskFinished, Retrieved
  <2>2. got = m.current => refill = 0
    BY MediumFacts, FS_CardinalityType DEF Refill, Weight
  <2> HIDE DEF image, refill
  <2>3. /\ {"target", "failed"} \subseteq DOMAIN d
        /\ d.target = Now.target + refill /\ d.failed = Now.failed
    BY <1>3 DEF MediumSettled
  <2>4. Now.target \in Nat /\ Samples({}) = {}
    BY <1>0 DEF Closures, Samples
  <2>5. faults' = faults => got = m.current
    BY <1>0, <2>1
  <2>6. faults' = faults => d.target = Now.target /\ d.failed = Now.failed /\ missed' = missed
    <3> SUFFICES ASSUME faults' = faults
                 PROVE  d.target = Now.target /\ d.failed = Now.failed /\ missed' = missed
      OBVIOUS
    <3>1. refill = 0 /\ m.current \ got = {}
      BY <2>2, <2>5
    <3> HIDE DEF d
    <3> QED
      BY <2>1, <2>3, <2>4, <3>1
  <2> HIDE DEF d
  <2> QED
    BY <1>2, <2>1, <2>3, <2>6
<1>8. ASSUME faults' = faults + 1, thrown' \in {thrown, TRUE}, orphaned' = orphaned \/ thrown' = TRUE
      PROVE  Exact'
  <2>1. faults' # faults
    BY <1>0, <1>8
  <2> QED
    BY <1>0, <1>8, <2>1, ExactKept
<1>9. ASSUME NEW m \in mediums, MediumReducingTaskFailed(m) PROVE Exact'
  <2>1. faults' = faults + 1 /\ UNCHANGED last
    BY <1>9 DEF MediumReducingTaskFailed
  <2>2. CASE QueueMediumReducingTask(MediumSettled(m), m.current, m.retry - 1)
    BY <1>8, <2>1, <2>2 DEF QueueMediumReducingTask, Returns, Throws
  <2>3. CASE Run([MediumSettled(m) EXCEPT !.target = @ + Cardinality(m.current)])
    <3> DEFINE d == [MediumSettled(m) EXCEPT !.target = @ + Cardinality(m.current)]
    <3>1. {"target", "failed"} \subseteq DOMAIN d
      BY <1>3 DEF MediumSettled
    <3>2. faults' # faults /\ Run(d)
      BY <1>0, <2>1, <2>3
    <3> HIDE DEF d
    <3> QED
      BY <1>2, <2>1, <3>1, <3>2
  <2> QED
    BY <1>9, <2>2, <2>3 DEF MediumReducingTaskFailed
<1>10. ASSUME NEW k \in DOMAIN finals, NEW got \in SUBSET mediumReduced,
              FinalReducingTaskFinished(k, got)
       PROVE  Exact'
  <2> DEFINE lacking == Weight(mediumReduced) - Weight(got)
             s == FinalSettled(k)
             d == [s EXCEPT !.target = @ + lacking]
  <2>1. /\ missed' = missed
        /\ faults' = IF got = mediumReduced THEN faults ELSE faults + 1
        /\ \/ lacking > 0 /\ Run(d) /\ UNCHANGED last
           \/ lacking = 0 /\ Returns(s, "finished") /\ last' = Samples(got)
    BY <1>10 DEF FinalReducingTaskFinished, Retrieved
  <2>2. Weight(got) \in Nat /\ Weight(mediumReduced) \in Nat
    BY WeightFacts
  <2>3. CASE lacking > 0 /\ Run(d) /\ UNCHANGED last
    <3>1. got # mediumReduced
      BY <2>2, <2>3
    <3>2. faults' = faults + 1 /\ faults' # faults
      BY <1>0, <2>1, <3>1
    <3>3. {"target", "failed"} \subseteq DOMAIN d
      BY <1>3 DEF FinalSettled
    <3> HIDE DEF d
    <3> QED
      BY <1>2, <2>3, <3>2, <3>3
  <2>4. CASE lacking = 0 /\ Returns(s, "finished") /\ last' = Samples(got)
    <3>1. /\ orphaned' = orphaned /\ thrown' = thrown /\ missed' = missed
          /\ numProducingTarget' = Now.target /\ numProducingFailed' = Now.failed
      BY <2>1, <2>4, FinalFacts DEF Returns, Commit
    <3>2. faults' = 0 => faults = 0
      BY <1>0, <2>1
    <3>3. ASSUME faults = 0 PROVE Cardinality(last') = Parallel
      <4>1. /\ numProducingTarget = Parallel /\ numProducingFailed = 0
            /\ Cardinality(missed) = 0 /\ Cardinality(orphaned) = 0
        BY <3>3, FS_EmptySet DEF Exact
      <4>2. Cardinality(Samples(mediumReduced)) = Parallel
        BY <4>1, FinalBalance
      <4>3. Cardinality(last') = Cardinality(Samples(mediumReduced))
        BY <2>2, <2>4 DEF Weight
      <4> QED
        BY <4>2, <4>3
    <3> QED
      BY <3>1, <3>2, <3>3, NowFields DEF Exact
  <2> QED
    BY <2>1, <2>3, <2>4
<1>11. ASSUME NEW k \in DOMAIN finals, FinalReducingTaskFailed(k) PROVE Exact'
  <2>1. /\ faults' = faults + 1
        /\ \/ QueueFinalReducingTask(FinalSettled(k), finals[k] - 1)
           \/ Returns(FinalSettled(k), "rejected")
    BY <1>11 DEF FinalReducingTaskFailed
  <2>2. orphaned' = orphaned /\ thrown' \in {thrown, TRUE}
    BY <2>1 DEF QueueFinalReducingTask, Returns, Throws
  <2> QED
    BY <1>8, <2>1, <2>2
<1>12. CASE \/ \E w \in Workers : RemoveWorker(w) \/ RecognizeWorker(w)
            \/ UNCHANGED vars
  <2>1. UNCHANGED <<numProducingTarget, numProducingFailed, last, outcome, faults,
                    missed, orphaned, thrown>>
    BY <1>12 DEF RemoveWorker, RecognizeWorker, vars, closure, counters, history
  <2> QED
    BY <1>0, <2>1, ExactKept
<1>13. CASE ProducingSettled \/ ReducingSettled
  BY <1>5, <1>6, <1>7, <1>9, <1>10, <1>11, <1>13 DEF ProducingSettled, ReducingSettled
<1>14. CASE Fetch
  BY <1>4, <1>14 DEF Fetch
<1> QED
  BY <1>1, <1>12, <1>13, <1>14 DEF Next

LEMMA ExactAlways == Spec => []Exact
<1>1. Init => Exact
  BY DEF Init, Exact
<1>2. EInv /\ Exact /\ [Next]_vars => Exact'
  BY ExactInductive
<1> QED
  BY <1>1, <1>2, ExecutionInvariance, PTL DEF Spec

\* A finished execution holds at least as many samples as were asked for, but for
\* those dropped by a callback that threw, and exactly as many if nothing went
\* wrong (executions.js:255-271, 292-302).
THEOREM DeliversTheWeight == Spec => []WeightDelivered
<1>1. EInv /\ Exact => WeightDelivered
  <2> SUFFICES ASSUME EInv, Exact, outcome = "finished"
               PROVE  /\ Cardinality(last) + Cardinality(orphaned) >= Parallel
                      /\ ~thrown => Cardinality(last) >= Parallel
                      /\ faults = 0 => Cardinality(last) = Parallel
    BY DEF WeightDelivered
  <2>1. Cardinality(last) + Cardinality(orphaned) >= Parallel
    BY DEF EInv, Delivered
  <2>2. Cardinality(last) \in Nat
    <3>1. last \subseteq 1..unique /\ unique \in Nat
      BY SoundNow, NowFields DEF EInv, Rest, Closures
    <3>2. IsFiniteSet(1..unique)
      BY <3>1, FS_Interval
    <3>3. IsFiniteSet(last)
      BY <3>1, <3>2, FS_Subset
    <3> QED
      BY <3>3, FS_CardinalityType
  <2>3. ~thrown => Cardinality(orphaned) = 0
    BY FS_EmptySet DEF Exact
  <2> QED
    BY <2>1, <2>2, <2>3 DEF Exact
<1> QED
  BY <1>1, ExecutionInvariance, ExactAlways, PTL

\* A running execution of which no callback threw has a task pending: the
\* assertion of master.js:117-131.
THEOREM GoesOn == Spec => []NotStuck
<1>1. EInv => NotStuck
  BY DEF EInv
<1> QED
  BY <1>1, ExecutionInvariance, PTL


-----------------------------------------------------------------------------
(* The execution is a Rendering. *)

\* What became of the samples of the closure c.
FateOf(c, gone, lost) ==
  [i \in 1..c.unique |->
     IF i \in c.producing THEN "producing"
     ELSE IF i \in Samples(ImagesOf(c)) THEN "kept"
     ELSE IF i \in gone THEN "missed"
     ELSE IF i \in lost THEN "dropped"
     ELSE "failed"]

LEMMA FateTells ==
  ASSUME NEW c, NEW gone, NEW lost, Sound(c, gone, lost), NEW i \in 1..c.unique
  PROVE  LET f == FateOf(c, gone, lost)[i] IN
         /\ f = "producing" <=> i \in c.producing
         /\ f = "kept" <=> i \in Samples(ImagesOf(c))
         /\ f = "missed" <=> i \in gone
         /\ f = "dropped" <=> i \in lost
         /\ f = "failed" <=> i \notin Spread(c, gone, lost)
         /\ f \in {"producing", "kept", "missed", "dropped", "failed"}
<1>1. /\ c.producing \cap (Samples(ImagesOf(c)) \cup gone \cup lost) = {}
      /\ Samples(ImagesOf(c)) \cap (gone \cup lost) = {} /\ gone \cap lost = {}
  BY DEF Sound, Divided
<1> QED
  BY <1>1 DEF Spread, FateOf

\* The samples with a fate of F.
Fated(c, gone, lost, F) == {i \in 1..c.unique : FateOf(c, gone, lost)[i] \in F}

LEMMA FateNow ==
  /\ Fate = FateOf(Now, missed, orphaned)
  /\ Fate' = FateOf(Now', missed', orphaned')
<1>1. Merging = HeldBy(Now.mediums) /\ Merging' = HeldBy(Now'.mediums)
  BY DEF Merging, HeldBy, Now
<1>2. Kept = ImagesOf(Now) /\ Kept' = ImagesOf(Now')
  BY <1>1 DEF Kept, ImagesOf, Now
<1>3. /\ Now.unique = unique /\ Now.producing = producing
      /\ Now'.unique = unique' /\ Now'.producing = producing'
  BY DEF Now
<1> QED
  BY <1>2, <1>3 DEF Fate, FateOf

\* As many samples have failed as were counted, and while the target is met
\* enough of the others are not given up.
LEMMA FateCounts ==
  ASSUME NEW c, NEW gone, NEW lost, Sound(c, gone, lost)
  PROVE  /\ Cardinality(Fated(c, gone, lost, {"failed"})) = c.failed
         /\ c.target = c.inQueue + c.finished =>
              Cardinality(Fated(c, gone, lost, {"producing", "kept", "dropped"})) >= Parallel
<1> DEFINE all == 1..c.unique
           spread == Spread(c, gone, lost)
           bad == Fated(c, gone, lost, {"failed"})
           good == Fated(c, gone, lost, {"producing", "kept", "dropped"})
<1>1. /\ c \in Closures /\ Cardinality(spread) \in Nat /\ Cardinality(gone) \in Nat
      /\ IsFiniteSet(spread) /\ IsFiniteSet(gone) /\ spread \subseteq all
  BY SoundFinite
<1>2. c.unique \in Nat /\ c.failed \in Nat /\ c.target \in Nat /\ c.inQueue \in Nat
      /\ c.finished \in Nat
  BY <1>1 DEF Closures
<1>3. IsFiniteSet(all) /\ Cardinality(all) = c.unique
  <2>1. 1 \in Int /\ c.unique \in Int
    BY <1>2
  <2>2. Cardinality(1..c.unique) = IF 1 > c.unique THEN 0 ELSE c.unique - 1 + 1
    BY <2>1, FS_Interval
  <2>3. IsFiniteSet(1..c.unique)
    BY <2>1, FS_Interval
  <2>4. Cardinality(1..c.unique) = c.unique
    BY <1>2, <2>2
  <2> QED
    BY <2>3, <2>4
<1>4. bad = all \ spread
  BY FateTells DEF Fated
<1>5. good = spread \ gone
  <2>1. ASSUME NEW i \in all
        PROVE  i \in good <=> i \in spread /\ i \notin gone
    BY FateTells DEF Fated
  <2>2. good \subseteq all
    BY DEF Fated
  <2> QED
    BY <1>1, <2>1, <2>2
<1>6. gone \subseteq spread
  BY DEF Spread
<1> HIDE DEF all, spread, bad, good
<1>7. Cardinality(all) = Cardinality(spread) + Cardinality(bad) /\ Cardinality(bad) \in Nat
  <2>1. IsFiniteSet(bad) /\ spread \cap bad = {} /\ spread \cup bad = all
    BY <1>1, <1>3, <1>4, FS_Subset
  <2> QED
    BY <1>1, <2>1, CountApart, FS_CardinalityType
<1>8. Cardinality(spread) = Cardinality(gone) + Cardinality(good) /\ Cardinality(good) \in Nat
  <2>1. IsFiniteSet(good) /\ gone \cap good = {} /\ gone \cup good = spread
    BY <1>1, <1>5, <1>6, FS_Subset
  <2> QED
    BY <1>1, <2>1, CountApart, FS_CardinalityType
<1>9. /\ Cardinality(spread) + c.failed = c.unique
      /\ c.finished + c.inQueue = c.unique
      /\ c.target >= Parallel + c.failed + Cardinality(gone)
  BY DEF Sound, Divided, Accounts, spread
<1>10. Cardinality(bad) = c.failed
  BY <1>1, <1>2, <1>3, <1>7, <1>9
<1>11. c.target = c.inQueue + c.finished => Cardinality(good) >= Parallel
  BY <1>1, <1>2, <1>8, <1>9, Units
<1> QED
  BY <1>10, <1>11 DEF bad, good

\* Samples move on as a Rendering lets them.
LEMMA FateMoves ==
  ASSUME EInv, EInv', MovedOn(Now', missed', orphaned')
  PROVE  /\ DOMAIN Fate = 1..unique /\ DOMAIN Fate' = 1..unique'
         /\ Promised!Onwards
         /\ \A i \in DOMAIN Fate' \ DOMAIN Fate : Fate'[i] = "producing"
<1> DEFINE old == Samples(ImagesOf(Now))
           new == Samples(ImagesOf(Now'))
<1>1. /\ Sound(Now, missed, orphaned) /\ Sound(Now', missed', orphaned')
      /\ unique \in Nat
  BY SoundNow DEF EInv
<1>2. /\ Now.unique = unique /\ Now.producing = producing
      /\ Now'.unique = unique' /\ Now'.producing = producing'
  BY DEF Now
<1>3. Now'.unique \in Nat
  BY <1>1 DEF Sound, Typed, Closures
<1>4. /\ unique' >= unique
      /\ (unique + 1)..unique' \subseteq producing'
      /\ producing' \subseteq producing \cup ((unique + 1)..unique')
      /\ new \subseteq old \cup producing
      /\ old \subseteq new \cup missed' \cup orphaned'
      /\ missed \subseteq missed' /\ missed' \subseteq missed \cup old
      /\ orphaned \subseteq orphaned' /\ orphaned' \subseteq orphaned \cup old
  BY <1>2 DEF MovedOn
<1>5. DOMAIN Fate = 1..unique /\ DOMAIN Fate' = 1..unique'
  BY DEF Fate
<1>6. ASSUME NEW i \in 1..unique
      PROVE  i \in 1..unique' /\ (Fate'[i] = Fate[i] \/ <<Fate[i], Fate'[i]>> \in Promised!Moves)
  <2>1. i \in 1..unique' /\ i \notin (unique + 1)..unique'
    BY <1>1, <1>2, <1>3, <1>4
  <2> DEFINE f == Fate[i]
             g == Fate'[i]
  <2>2. /\ f = "producing" <=> i \in producing
        /\ f = "kept" <=> i \in old
        /\ f = "missed" <=> i \in missed
        /\ f = "dropped" <=> i \in orphaned
        /\ f \in {"producing", "kept", "missed", "dropped", "failed"}
    BY <1>1, <1>2, FateNow, FateTells
  <2>3. /\ g = "producing" <=> i \in producing'
        /\ g = "kept" <=> i \in new
        /\ g = "missed" <=> i \in missed'
        /\ g = "dropped" <=> i \in orphaned'
        /\ g \in {"producing", "kept", "missed", "dropped", "failed"}
    BY <1>1, <1>2, <2>1, FateNow, FateTells
  <2> HIDE DEF f, g, old, new
  <2>4. CASE f = "producing"
    <3>1. i \notin old /\ i \notin missed /\ i \notin orphaned
      BY <2>2, <2>4
    <3>2. g \in {"producing", "kept", "failed"}
      BY <1>4, <2>3, <3>1
    <3> QED
      BY <2>1, <2>4, <3>2 DEF Promised!Moves, f, g
  <2>5. CASE f = "kept"
    <3>1. i \in old /\ i \notin producing
      BY <2>2, <2>5
    <3>2. g \in {"kept", "missed", "dropped"}
      BY <1>4, <2>1, <2>3, <3>1
    <3> QED
      BY <2>1, <2>5, <3>2 DEF Promised!Moves, f, g
  <2>6. CASE f = "missed"
    <3>1. g = "missed"
      BY <1>4, <2>2, <2>3, <2>6
    <3> QED
      BY <2>1, <2>6, <3>1 DEF f, g
  <2>7. CASE f = "dropped"
    <3>1. g = "dropped"
      BY <1>4, <2>2, <2>3, <2>7
    <3> QED
      BY <2>1, <2>7, <3>1 DEF f, g
  <2>8. CASE f = "failed"
    <3>1. i \notin producing /\ i \notin old /\ i \notin missed /\ i \notin orphaned
      BY <2>2, <2>8
    <3>2. g = "failed"
      BY <1>4, <2>1, <2>3, <3>1
    <3> QED
      BY <2>1, <2>8, <3>2 DEF f, g
  <2> QED
    BY <2>2, <2>4, <2>5, <2>6, <2>7, <2>8
<1>7. Promised!Onwards
  BY <1>5, <1>6 DEF Promised!Onwards
<1>8. ASSUME NEW i \in DOMAIN Fate' \ DOMAIN Fate
      PROVE  Fate'[i] = "producing"
  <2>1. i \in 1..Now'.unique /\ i \in (unique + 1)..unique'
    BY <1>1, <1>2, <1>3, <1>5
  <2>2. i \in Now'.producing
    BY <1>2, <1>4, <2>1
  <2> QED
    BY <1>1, <2>1, <2>2, FateNow, FateTells
<1> QED
  BY <1>5, <1>7, <1>8

\* The tries left of the final reduction.
LEMMA TriesLeft ==
  ASSUME NEW f \in Seq(1..3), f = <<>> \/ Len(f) = 1
  PROVE  LET n == IF f = <<>> THEN 0 ELSE Head(f) IN
         /\ n \in 0..3 /\ (n = 0 <=> f = <<>>)
         /\ f # <<>> => n = f[1] /\ f = <<n>>
<1>1. CASE f = <<>>
  BY <1>1
<1>2. CASE f # <<>>
  <2>1. Len(f) = 1 /\ f[1] \in 1..3 /\ f = <<f[1]>>
    BY <1>2
  <2>2. Head(f) = f[1]
    BY <1>2
  <2> QED
    BY <1>2, <2>1, <2>2
<1> QED
  BY <1>1, <1>2

LEMMA SameCardinality == \A S : Promised!Cardinality(S) = Cardinality(S)
BY DEF Promised!Cardinality, Cardinality

\* A step of the execution is a step of the Rendering, or none.
LEMMA RenderingStep ==
  ASSUME EInv, EInv', Moving
  PROVE  Promised!Next \/ UNCHANGED <<Fate, Tries, outcome, last>>
<1>1. /\ Sound(Now, missed, orphaned) /\ Sound(Now', missed', orphaned')
      /\ Phase(Now, outcome) /\ Phase(Now', outcome')
      /\ MovedOn(Now', missed', orphaned') /\ Settling
  BY DEF EInv, Moving
<1>2. /\ Now.unique = unique /\ Now.producing = producing /\ Now.finals = finals
      /\ Now'.unique = unique' /\ Now'.producing = producing' /\ Now'.finals = finals'
      /\ Now'.failed = numProducingFailed'
  BY DEF Now
<1>3. /\ finals \in Seq(1..3) /\ finals' \in Seq(1..3)
      /\ finals = <<>> \/ Len(finals) = 1
      /\ finals' = <<>> \/ Len(finals') = 1
      /\ finals' # <<>> => producing' = {}
  BY <1>1, <1>2 DEF Sound, Typed, Closures, Phase
<1>4. /\ Tries \in 0..3 /\ (Tries = 0 <=> finals = <<>>)
      /\ (finals # <<>> => Tries = finals[1] /\ finals = <<Tries>>)
  BY <1>3, TriesLeft DEF Tries
<1>5. /\ Tries' \in 0..3 /\ (Tries' = 0 <=> finals' = <<>>)
      /\ (finals' # <<>> => Tries' = finals'[1] /\ finals' = <<Tries'>>)
  BY <1>3, TriesLeft DEF Tries
<1>6. /\ DOMAIN Fate = 1..unique /\ DOMAIN Fate' = 1..unique'
      /\ Promised!Onwards
      /\ \A i \in DOMAIN Fate' \ DOMAIN Fate : Fate'[i] = "producing"
  BY <1>1, FateMoves
<1>7. CASE Starting
  <2>1. unique = 0 /\ unique' = Parallel /\ outcome = "idle" /\ outcome' = "running"
        /\ last' = last /\ finals = <<>> /\ finals' = <<>>
    BY <1>1, <1>2, <1>7 DEF Starting, Phase, Resting
  <2>2. \A i \in 1..Parallel : Fate'[i] = "producing"
    BY <1>6, <2>1
  <2>3. Fate' = [i \in 1..Parallel |-> "producing"]
    <3>1. Fate' = [i \in 1..Parallel |-> Fate'[i]]
      BY <2>1 DEF Fate
    <3> QED
      BY <2>2, <3>1
  <2>4. Tries' = Tries
    BY <1>4, <1>5, <2>1
  <2> QED
    BY <2>1, <2>3, <2>4 DEF Promised!Next, Promised!Start
<1>8. CASE GoingOn
  <2>1. outcome = "running" /\ outcome' = "running" /\ last' = last /\ Retrying
    BY <1>8 DEF GoingOn
  <2>2. Cardinality(Promised!With({"producing", "kept", "dropped"})') >= Parallel
    <3>1. Now'.target = Now'.inQueue + Now'.finished
      BY <1>1, <2>1 DEF Phase
    <3>2. Cardinality(Fated(Now', missed', orphaned', {"producing", "kept", "dropped"})) >= Parallel
      BY <1>1, <3>1, FateCounts
    <3>3. Promised!With({"producing", "kept", "dropped"})'
            = Fated(Now', missed', orphaned', {"producing", "kept", "dropped"})
      BY <1>2, <1>6, FateNow DEF Promised!With, Fated
    <3> QED
      BY <3>2, <3>3
  <2>3. Tries' > 0 => Promised!With({"producing"})' = {}
    <3> SUFFICES ASSUME Tries' > 0, NEW i \in 1..unique', Fate'[i] \in {"producing"}
                 PROVE  FALSE
      BY <1>6 DEF Promised!With
    <3>1. producing' = {}
      BY <1>3, <1>5
    <3>2. i \in Now'.producing
      BY <1>1, <1>2, FateNow, FateTells
    <3> QED
      BY <1>2, <3>1, <3>2
  <2>4. \/ Tries' = Tries
        \/ Tries = 0 /\ Tries' = 3
        \/ Tries > 0 /\ Tries' \in {0, Tries - 1}
    <3>1. CASE finals' = finals
      BY <3>1 DEF Tries
    <3>2. CASE finals = <<>> /\ finals' = << 3 >>
      <4>1. finals' # <<>> /\ finals'[1] = 3
        BY <3>2
      <4> QED
        BY <1>4, <1>5, <3>2, <4>1
    <3>3. CASE finals # <<>> /\ finals' = <<>>
      BY <1>4, <1>5, <3>3
    <3>4. CASE finals # <<>> /\ finals' = <<finals[1] - 1>>
      <4>1. finals' # <<>> /\ finals'[1] = finals[1] - 1
        BY <3>4
      <4> QED
        BY <1>4, <1>5, <3>4, <4>1
    <3> QED
      BY <2>1, <3>1, <3>2, <3>3, <3>4 DEF Retrying
  <2>5. Promised!Render
    BY <1>6, <2>2, SameCardinality DEF Promised!Render
  <2>6. Promised!Try
    BY <2>3, <2>4 DEF Promised!Try
  <2> QED
    BY <2>1, <2>5, <2>6 DEF Promised!Next, Promised!Run
<1>9. CASE Finishing
  <2>1. /\ outcome = "running" /\ outcome' = "finished" /\ last' = Samples(ImagesOf(Now))
        /\ finals # <<>> /\ finals' = <<>>
        /\ UNCHANGED <<producing, unique, waitingForReducing, mediums, mediumReduced, missed, orphaned>>
    BY <1>9 DEF Finishing
  <2>2. Fate' = Fate
    BY <2>1 DEF Fate, Kept, Merging
  <2>3. Promised!With({"kept"}) = Samples(ImagesOf(Now))
    <3>1. Promised!With({"kept"}) = {i \in 1..unique : Fate[i] \in {"kept"}}
      BY <1>6 DEF Promised!With
    <3>2. \A i \in 1..unique : Fate[i] \in {"kept"} <=> i \in Samples(ImagesOf(Now))
      BY <1>1, <1>2, FateNow, FateTells
    <3>3. Samples(ImagesOf(Now)) \subseteq 1..unique
      BY <1>1, <1>2, SoundFinite
    <3> QED
      BY <3>1, <3>2, <3>3
  <2>4. Tries > 0 /\ Tries' = 0
    BY <1>4, <1>5, <2>1
  <2> QED
    BY <2>1, <2>2, <2>3, <2>4 DEF Promised!Next, Promised!Finish
<1>10. CASE Rejecting
  <2>1. /\ outcome = "running" /\ outcome' = "rejected" /\ last' = last /\ unique' = unique
        /\ finals' = <<>>
        /\ numProducingFailed' >= producingFailLimit \/ finals = << 1 >>
    BY <1>10 DEF Rejecting
  <2>2. Cardinality(Promised!With({"failed"})') = numProducingFailed'
    <3>1. Cardinality(Fated(Now', missed', orphaned', {"failed"})) = Now'.failed
      BY <1>1, FateCounts
    <3>2. Promised!With({"failed"})' = Fated(Now', missed', orphaned', {"failed"})
      BY <1>2, <1>6, FateNow DEF Promised!With, Fated
    <3> QED
      BY <1>2, <3>1, <3>2
  <2>3. finals = << 1 >> => Tries = 1
    BY <1>4
  <2>4. Tries' = 0 /\ DOMAIN Fate' = DOMAIN Fate
    <3>1. Tries' = 0
      BY <1>5, <2>1
    <3>2. 1..unique' = 1..unique
      BY <2>1
    <3> QED
      BY <1>6, <3>1, <3>2
  <2>5. Promised!Reject
    BY <1>6, <2>1, <2>2, <2>3, <2>4, SameCardinality DEF Promised!Reject
  <2> QED
    BY <2>5 DEF Promised!Next
<1>11. CASE Abandoned
  <2>1. outcome = "rejected" /\ UNCHANGED <<Tries, outcome, last>> /\ DOMAIN Fate' = DOMAIN Fate
    BY <1>6, <1>11 DEF Abandoned, Tries
  <2> QED
    BY <1>6, <2>1 DEF Promised!Next, Promised!Abandon
<1>12. CASE Resuming
  BY <1>12 DEF Resuming, Fate, Kept, Merging, Tries
<1> QED
  BY <1>1, <1>7, <1>8, <1>9, <1>10, <1>11, <1>12 DEF Settling

\* An execution keeps what a Rendering promises: it is settled once, and rejected
\* only for too many failures or for three failed final reductions; no sample
\* comes back, lost ones are made up for, and the image has all that were kept
\* (executions.js:140-143, 253-271, 288-328).
THEOREM KeepsItsPromise == Spec => RenderingSpec
<1>1. Init => Promised!Init
  <2> SUFFICES ASSUME Init PROVE Promised!Init
    OBVIOUS
  <2>1. unique = 0 /\ finals = <<>> /\ outcome = "idle" /\ last = {}
    BY DEF Init
  <2>2. Fate = <<>>
    BY <2>1 DEF Fate
  <2>3. Tries = 0
    BY <2>1 DEF Tries
  <2> QED
    BY <2>1, <2>2, <2>3 DEF Promised!Init
<1>2. EInv /\ [Next]_vars => EInv' /\ (Promised!Next \/ UNCHANGED <<Fate, Tries, outcome, last>>)
  BY Inductive, RenderingStep
<1> QED
  BY <1>1, <1>2, ExecutionInvariance, PTL DEF Spec, RenderingSpec, Promised!Spec
=============================================================================
