---------------------------- MODULE HeartbeatProofs ----------------------------
(***************************************************************************)
(* Proofs about Heartbeat, for any set of workers, any limit and any       *)
(* number of restarts and surplus pongs: the counts of unanswered pings    *)
(* stay within their range, never above the silence and below it by no     *)
(* more than the surplus pongs, only listed or condemned workers are       *)
(* recognized, and only silent ones are condemned, for good.               *)
(***************************************************************************)
EXTENDS Heartbeat, TLAPS

\* A worker heard from since the last round is below the limit.
HeardBelow == \A w \in heard : waitingPong[w] < waitingPongTimeout

\* Nothing was ever sent to or by an instance that is still to come.
FreshSilent ==
  \A w \in Workers \ (listed \cup retired) :
    pings[w] = 0 /\ pongs[w] = 0 /\ lost[w] = 0

HInv == TypeOK /\ PongAccounting /\ RecognizedListed /\ HeardBelow /\ FreshSilent

\* What one management round makes of the count of w, and of its pings.
LEMMA RoundCounts ==
  ASSUME TypeOK, ManageWorkers, NEW w \in Workers
  PROVE  /\ w \notin listed => waitingPong'[w] = 0 /\ pings'[w] = pings[w]
         /\ w \in listed /\ waitingPong[w] = -1 =>
              waitingPong'[w] = -1 /\ pings'[w] = pings[w]
         /\ w \in listed /\ waitingPong[w] \in 0..(waitingPongTimeout - 1) =>
              waitingPong'[w] = waitingPong[w] + 1 /\ pings'[w] = pings[w] + 1
         /\ w \in listed /\ waitingPong[w] = waitingPongTimeout =>
              /\ waitingPong'[w] = -1 /\ pings'[w] = pings[w]
              /\ w \notin unrecognizedWorkers'
         /\ waitingPong[w] # waitingPongTimeout \/ w \notin listed =>
              /\ w \in deleting' => w \in deleting
              /\ w \in unrecognizedWorkers' <=> w \in listed
<1> DEFINE cleaned == [v \in Workers |-> IF v \in listed THEN waitingPong[v] ELSE 0]
           condemned == Silent(cleaned)
           marked == [v \in Workers |-> IF v \in condemned THEN -1 ELSE cleaned[v]]
           addressed == Kept \cup (listed \ condemned)
           pinged == {v \in addressed : marked[v] >= 0}
<1>1. /\ waitingPong[w] \in Int /\ waitingPong[w] \in -1..waitingPongTimeout
      /\ waitingPongTimeout \in Nat \ {0} /\ pings[w] \in Nat
  BY TimeoutPositive DEF TypeOK
<1>2. /\ unrecognizedWorkers' = listed \ condemned
      /\ deleting' = deleting \cup condemned
      /\ waitingPong'[w] = IF w \in addressed THEN Pinged(marked[w]) ELSE marked[w]
      /\ pings'[w] = IF w \in pinged THEN pings[w] + 1 ELSE pings[w]
  BY DEF ManageWorkers
<1>3. /\ w \in condemned <=> cleaned[w] >= waitingPongTimeout
      /\ cleaned[w] = IF w \in listed THEN waitingPong[w] ELSE 0
      /\ marked[w] = IF w \in condemned THEN -1 ELSE cleaned[w]
  BY DEF Silent
<1>4. /\ w \in addressed <=> w \in Kept \/ (w \in listed /\ w \notin condemned)
      /\ w \in Kept => w \in listed
      /\ w \in pinged <=> w \in addressed /\ marked[w] >= 0
      /\ w \in listed \ condemned <=> w \in listed /\ w \notin condemned
  BY DEF Kept
<1> HIDE DEF cleaned, condemned, marked, addressed, pinged
<1>5. CASE w \notin listed
  <2>1. w \notin condemned /\ w \notin addressed /\ w \notin pinged /\ marked[w] = 0
    BY <1>1, <1>3, <1>4, <1>5
  <2> QED
    BY <1>2, <1>5, <2>1
<1>6. CASE w \in listed /\ waitingPong[w] = -1
  <2>1. w \notin condemned /\ w \in addressed /\ w \notin pinged /\ marked[w] = -1
    BY <1>1, <1>3, <1>4, <1>6
  <2> QED
    BY <1>1, <1>2, <1>4, <1>6, <2>1 DEF Pinged
<1>7. CASE w \in listed /\ waitingPong[w] \in 0..(waitingPongTimeout - 1)
  <2>1. /\ w \notin condemned /\ w \in addressed /\ w \in pinged
        /\ marked[w] = waitingPong[w]
    BY <1>1, <1>3, <1>4, <1>7
  <2> QED
    BY <1>1, <1>2, <1>4, <1>7, <2>1 DEF Pinged
<1>8. CASE w \in listed /\ waitingPong[w] = waitingPongTimeout
  <2>1. w \in condemned /\ w \notin pinged /\ marked[w] = -1
    BY <1>1, <1>3, <1>4, <1>8
  <2> QED
    BY <1>1, <1>2, <1>4, <1>8, <2>1 DEF Pinged
<1> QED
  BY <1>1, <1>5, <1>6, <1>7, <1>8

\* A pong takes one off a positive count.
LEMMA PongedCounts ==
  ASSUME NEW count \in Int
  PROVE  /\ Ponged(count) \in Int
         /\ count > 0 => Ponged(count) = count - 1
         /\ count <= 0 => Ponged(count) = count
  BY DEF Ponged

-----------------------------------------------------------------------------
(* Each action keeps HInv. *)

\* No counts, no workers: HInv holds at the start.
LEMMA InitHInv == Init => HInv
  BY TimeoutPositive, RestartsBound, SurplusBound
  DEF Init, HInv, TypeOK, PongAccounting, RecognizedListed, HeardBelow, FreshSilent, Zero

\* The management round: each worker is in one of the cases of RoundCounts.
LEMMA ManageWorkersKeeps ==
  ASSUME HInv, ManageWorkers
  PROVE  HInv'
<1>1. TypeOK
  BY DEF HInv
<1>2. /\ workers' = workers \cap listed /\ heard' = {}
      /\ unrecognizedWorkers' \subseteq listed
      /\ deleting' = deleting \cup {w \in Workers :
           (IF w \in listed THEN waitingPong[w] ELSE 0) >= waitingPongTimeout}
      /\ waitingPong' = [w \in Workers |-> waitingPong'[w]]
      /\ pings' = [w \in Workers |-> pings'[w]]
      /\ lost' = [w \in Workers |-> IF w \in listed THEN lost[w] ELSE 0]
      /\ UNCHANGED <<listed, retired, alive, clients, pongs, extras, surplus, excess,
                     restarts>>
  BY DEF ManageWorkers, Kept, Silent
<1>3. ASSUME NEW w \in Workers
      PROVE  /\ waitingPong'[w] \in Int /\ waitingPong'[w] \in -1..waitingPongTimeout
             /\ pings'[w] \in Nat /\ lost'[w] \in Nat
             /\ waitingPong'[w] <= pings'[w] + pongs'[w] + lost'[w]
             /\ w \in listed /\ waitingPong'[w] >= 0 =>
                  pings'[w] + pongs'[w] + lost'[w] <= waitingPong'[w] + excess'[w]
             /\ w \notin listed => pings'[w] = pings[w] /\ lost'[w] = 0
             /\ w \in workers' => w \in unrecognizedWorkers' \/ waitingPong'[w] = -1
  <2>1. /\ waitingPong[w] \in -1..waitingPongTimeout /\ pings[w] \in Nat
        /\ pongs[w] \in Nat /\ lost[w] \in Nat
        /\ waitingPongTimeout \in Nat \ {0} /\ excess[w] \in Nat
        /\ waitingPong[w] <= pings[w] + pongs[w] + lost[w]
        /\ w \in listed /\ waitingPong[w] >= 0 =>
             pings[w] + pongs[w] + lost[w] <= waitingPong[w] + excess[w]
    BY TimeoutPositive DEF HInv, TypeOK, PongAccounting
  <2>2. /\ lost'[w] = IF w \in listed THEN lost[w] ELSE 0
        /\ pongs'[w] = pongs[w] /\ excess'[w] = excess[w]
    BY <1>2
  <2>3. CASE w \notin listed
    BY <1>1, <1>2, <2>1, <2>2, <2>3, RoundCounts
  <2>4. CASE w \in listed /\ waitingPong[w] = -1
    BY <1>1, <2>1, <2>2, <2>4, RoundCounts
  <2>5. CASE w \in listed /\ waitingPong[w] \in 0..(waitingPongTimeout - 1)
    BY <1>1, <2>1, <2>2, <2>5, RoundCounts
  <2>6. CASE w \in listed /\ waitingPong[w] = waitingPongTimeout
    BY <1>1, <2>1, <2>2, <2>6, RoundCounts
  <2> QED
    BY <2>1, <2>3, <2>4, <2>5, <2>6
<1>4. deleting' \subseteq listed
  BY <1>1, <1>2, TimeoutPositive DEF TypeOK
<1>5. TypeOK'
  <2>1. waitingPong' \in [Workers -> Int] /\ pings' \in [Workers -> Nat]
    BY <1>2, <1>3
  <2>2. lost' \in [Workers -> Nat]
    BY <1>1, <1>2 DEF TypeOK
  <2> QED
    BY <1>1, <1>2, <1>3, <1>4, <2>1, <2>2 DEF TypeOK
<1>6. PongAccounting' /\ HeardBelow'
  BY <1>2, <1>3 DEF PongAccounting, HeardBelow
<1>7. RecognizedListed'
  BY <1>1, <1>2, <1>3 DEF RecognizedListed, TypeOK
<1>8. FreshSilent'
  BY <1>2, <1>3 DEF HInv, FreshSilent
<1> QED
  BY <1>5, <1>6, <1>7, <1>8 DEF HInv

\* What a pong does to the counts of its worker: an answer takes one message and
\* one from a positive count; a surplus pong takes none, and is noted.
LEMMA PongCounts ==
  ASSUME TypeOK, NEW w \in Workers, DispatchPong(w)
  PROVE  /\ waitingPong' \in [Workers -> Int] /\ pongs' \in [Workers -> Nat]
         /\ extras' \in [Workers -> Nat] /\ excess' \in [Workers -> Nat]
         /\ \A v \in Workers \ {w} :
              /\ waitingPong'[v] = waitingPong[v] /\ pongs'[v] = pongs[v]
              /\ excess'[v] = excess[v]
         /\ \/ waitingPong[w] > 0 /\ waitingPong'[w] = waitingPong[w] - 1
            \/ waitingPong[w] <= 0 /\ waitingPong'[w] = waitingPong[w]
         /\ \/ /\ pongs[w] > 0 /\ pongs'[w] = pongs[w] - 1
               /\ excess'[w] = excess[w]
            \/ /\ pongs'[w] = pongs[w]
               /\ waitingPong[w] > 0 => excess'[w] = excess[w] + 1
               /\ waitingPong[w] <= 0 => excess'[w] = excess[w]
<1>1. /\ waitingPong \in [Workers -> Int] /\ pongs \in [Workers -> Nat]
      /\ extras \in [Workers -> Nat] /\ excess \in [Workers -> Nat]
  BY DEF TypeOK
<1>2. waitingPong' = [waitingPong EXCEPT ![w] = Ponged(waitingPong[w])]
  BY DEF DispatchPong
<1>3. /\ waitingPong' \in [Workers -> Int]
      /\ \A v \in Workers \ {w} : waitingPong'[v] = waitingPong[v]
      /\ \/ waitingPong[w] > 0 /\ waitingPong'[w] = waitingPong[w] - 1
         \/ waitingPong[w] <= 0 /\ waitingPong'[w] = waitingPong[w]
  BY <1>1, <1>2, PongedCounts
<1>4. CASE /\ pongs[w] > 0
           /\ pongs' = [pongs EXCEPT ![w] = @ - 1]
           /\ UNCHANGED <<extras, excess>>
  <2>1. pongs[w] - 1 \in Nat
    BY <1>1, <1>4
  <2> QED
    BY <1>1, <1>3, <1>4, <2>1
<1>5. CASE /\ extras[w] > 0
           /\ extras' = [extras EXCEPT ![w] = @ - 1]
           /\ excess' = [excess EXCEPT ![w] = IF waitingPong[w] > 0 THEN @ + 1 ELSE @]
           /\ UNCHANGED pongs
  <2>1. extras[w] - 1 \in Nat /\ excess[w] + 1 \in Nat
    BY <1>1, <1>5
  <2>2. extras' \in [Workers -> Nat] /\ excess' \in [Workers -> Nat]
    BY <1>1, <1>5, <2>1
  <2> QED
    BY <1>1, <1>3, <1>5, <2>2
<1> QED
  BY <1>4, <1>5 DEF DispatchPong

\* A pong: who is heard from is below the limit, since the limit is positive.
LEMMA DispatchPongKeeps ==
  ASSUME HInv, NEW w \in Workers, DispatchPong(w)
  PROVE  HInv'
<1>1. /\ TypeOK /\ waitingPong \in [Workers -> Int] /\ pongs \in [Workers -> Nat]
      /\ pings \in [Workers -> Nat] /\ lost \in [Workers -> Nat]
      /\ excess \in [Workers -> Nat] /\ waitingPongTimeout \in Nat \ {0}
      /\ \A v \in Workers : waitingPong[v] \in -1..waitingPongTimeout
  BY TimeoutPositive DEF HInv, TypeOK
<1>2. /\ workers' = workers \cup ({w} \cap unrecognizedWorkers)
      /\ heard' = heard \cup {w}
      /\ UNCHANGED <<unrecognizedWorkers, listed, retired, alive, deleting, clients,
                     pings, surplus, lost, restarts>>
  BY DEF DispatchPong, Admitted, cloudVars
<1>3. /\ waitingPong' \in [Workers -> Int] /\ pongs' \in [Workers -> Nat]
      /\ extras' \in [Workers -> Nat] /\ excess' \in [Workers -> Nat]
  BY <1>1, PongCounts
<1>4. ASSUME NEW v \in Workers
      PROVE  /\ waitingPong'[v] \in -1..waitingPongTimeout
             /\ waitingPong[v] = -1 => waitingPong'[v] = -1
             /\ v \in heard' => waitingPong'[v] < waitingPongTimeout
             /\ waitingPong'[v] <= pings'[v] + pongs'[v] + lost'[v]
             /\ v \in listed' /\ waitingPong'[v] >= 0 =>
                  pings'[v] + pongs'[v] + lost'[v] <= waitingPong'[v] + excess'[v]
             /\ pongs[v] = 0 => pongs'[v] = 0
  <2>1. /\ waitingPong[v] \in -1..waitingPongTimeout /\ waitingPong[v] \in Int
        /\ pings[v] \in Nat /\ pongs[v] \in Nat /\ lost[v] \in Nat /\ excess[v] \in Nat
        /\ pings'[v] = pings[v] /\ lost'[v] = lost[v] /\ listed' = listed
        /\ waitingPongTimeout \in Nat \ {0}
    BY <1>1, <1>2
  <2>2. /\ waitingPong[v] <= pings[v] + pongs[v] + lost[v]
        /\ v \in listed /\ waitingPong[v] >= 0 =>
             pings[v] + pongs[v] + lost[v] <= waitingPong[v] + excess[v]
    BY DEF HInv, PongAccounting
  <2>3. CASE v # w
    <3>1. /\ waitingPong'[v] = waitingPong[v] /\ pongs'[v] = pongs[v]
          /\ excess'[v] = excess[v]
      BY <1>1, <2>3, PongCounts
    <3>2. v \in heard' => waitingPong[v] < waitingPongTimeout
      BY <1>2, <2>3 DEF HInv, HeardBelow
    <3> QED
      BY <2>1, <2>2, <3>1, <3>2
  <2>4. CASE v = w
    <3>1. /\ \/ waitingPong[v] > 0 /\ waitingPong'[v] = waitingPong[v] - 1
             \/ waitingPong[v] <= 0 /\ waitingPong'[v] = waitingPong[v]
          /\ \/ /\ pongs[v] > 0 /\ pongs'[v] = pongs[v] - 1
                /\ excess'[v] = excess[v]
             \/ /\ pongs'[v] = pongs[v]
                /\ waitingPong[v] > 0 => excess'[v] = excess[v] + 1
                /\ waitingPong[v] <= 0 => excess'[v] = excess[v]
      BY <1>1, <2>4, PongCounts
    <3> QED
      BY <2>1, <2>2, <3>1
  <2> QED
    BY <2>3, <2>4
<1>5. TypeOK'
  BY <1>2, <1>3, <1>4 DEF HInv, TypeOK
<1>6. PongAccounting' /\ HeardBelow'
  BY <1>2, <1>4 DEF HInv, TypeOK, PongAccounting, HeardBelow
<1>7. RecognizedListed' /\ FreshSilent'
  BY <1>2, <1>4 DEF HInv, RecognizedListed, FreshSilent
<1> QED
  BY <1>5, <1>6, <1>7 DEF HInv

\* A message that moves on the wire or is lost stays in the sum of its worker;
\* a surplus pong is in no sum.
LEMMA WireKeeps ==
  ASSUME HInv, NEW w \in Workers,
         \/ SendPong(w) \/ WorkerThrows(w) \/ RepeatPong(w)
         \/ LosePing(w) \/ LosePong(w)
  PROVE  HInv'
<1>1. /\ waitingPong \in [Workers -> Int] /\ pongs \in [Workers -> Nat]
      /\ pings \in [Workers -> Nat] /\ lost \in [Workers -> Nat]
      /\ extras \in [Workers -> Nat] /\ surplus \in 0..MaxSurplus
      /\ clients \subseteq alive /\ MaxSurplus \in Nat
  BY SurplusBound DEF HInv, TypeOK
<1>2. UNCHANGED <<workers, unrecognizedWorkers, waitingPong, listed, retired,
                  alive, deleting, excess, heard, restarts>>
  BY DEF SendPong, WorkerThrows, RepeatPong, Unasked, LosePing, LosePong, masterVars,
         cloudVars
<1>3. /\ pongs' \in [Workers -> Nat] /\ pings' \in [Workers -> Nat]
      /\ lost' \in [Workers -> Nat] /\ extras' \in [Workers -> Nat]
      /\ surplus' \in 0..MaxSurplus /\ clients' \subseteq alive
      /\ \A v \in Workers :
           pings'[v] + pongs'[v] + lost'[v] = pings[v] + pongs[v] + lost[v]
  <2>1. CASE SendPong(w)
    BY <1>1, <2>1 DEF SendPong
  <2>2. CASE WorkerThrows(w) \/ RepeatPong(w)
    BY <1>1, <2>2 DEF WorkerThrows, RepeatPong, Unasked, cloudVars
  <2>3. CASE LosePing(w)
    BY <1>1, <2>3 DEF LosePing, cloudVars
  <2>4. CASE LosePong(w)
    <3>1. surplus' = surplus /\ clients' = clients /\ pings' = pings
      BY <2>4 DEF LosePong, cloudVars
    <3>2. CASE /\ pongs[w] > 0
               /\ pongs' = [pongs EXCEPT ![w] = @ - 1]
               /\ lost' = [lost EXCEPT ![w] = @ + 1]
               /\ UNCHANGED extras
      BY <1>1, <3>1, <3>2
    <3>3. CASE /\ extras[w] > 0
               /\ extras' = [extras EXCEPT ![w] = @ - 1]
               /\ UNCHANGED <<pongs, lost>>
      BY <1>1, <3>1, <3>3
    <3> QED
      BY <2>4, <3>2, <3>3 DEF LosePong
  <2> QED
    BY <2>1, <2>2, <2>3, <2>4
<1>4. TypeOK'
  BY <1>2, <1>3 DEF HInv, TypeOK
<1>5. PongAccounting' /\ RecognizedListed' /\ HeardBelow'
  BY <1>2, <1>3 DEF HInv, PongAccounting, RecognizedListed, HeardBelow
<1>6. FreshSilent'
  <2>1. ASSUME NEW v \in Workers, pings[v] = 0, pongs[v] = 0, lost[v] = 0
        PROVE  pings'[v] = 0 /\ pongs'[v] = 0 /\ lost'[v] = 0
    <3>1. \A i, j, k \in Nat : i + j + k = 0 => i = 0 /\ j = 0 /\ k = 0
      OBVIOUS
    <3>2. pings'[v] \in Nat /\ pongs'[v] \in Nat /\ lost'[v] \in Nat
      BY <1>3
    <3>3. pings'[v] + pongs'[v] + lost'[v] = 0
      BY <1>3, <2>1
    <3> QED
      BY <3>1, <3>2, <3>3
  <2> QED
    BY <1>2, <2>1 DEF HInv, FreshSilent
<1> QED
  BY <1>4, <1>5, <1>6 DEF HInv

\* What happens to instances and processes does not reach the master; an
\* instance that appears has nothing outstanding.
LEMMA CloudKeeps ==
  ASSUME HInv, NEW w \in Workers,
         \/ WorkerDies(w) \/ WorkerStarts(w)
         \/ InstanceAppears(w) \/ InstanceGone(w) \/ DestroyIgnored(w)
  PROVE  HInv'
<1>1. UNCHANGED <<workers, unrecognizedWorkers, waitingPong, pings, pongs, extras,
                  surplus, lost, excess, heard, restarts>>
  BY DEF WorkerDies, WorkerStarts, InstanceAppears, InstanceGone, DestroyIgnored,
         masterVars, wireVars
<1>2. /\ listed' \subseteq Workers /\ retired' \subseteq Workers \ listed'
      /\ alive' \subseteq listed' /\ deleting' \subseteq listed'
      /\ clients' \subseteq alive'
      /\ listed' \ listed \subseteq Workers \ (listed \cup retired)
      /\ listed \cup retired \subseteq listed' \cup retired'
  <2>1. /\ listed \subseteq Workers /\ retired \subseteq Workers \ listed
        /\ alive \subseteq listed /\ deleting \subseteq listed /\ clients \subseteq alive
    BY DEF HInv, TypeOK
  <2> QED
    BY <2>1
    DEF WorkerDies, WorkerStarts, InstanceAppears, InstanceGone, DestroyIgnored
<1>3. TypeOK'
  BY <1>1, <1>2 DEF HInv, TypeOK
<1>4. RecognizedListed' /\ HeardBelow' /\ FreshSilent'
  BY <1>1, <1>2 DEF HInv, RecognizedListed, HeardBelow, FreshSilent
<1>5. PongAccounting'
  <2>1. ASSUME NEW v \in Workers, v \in listed' \ listed, waitingPong[v] >= 0
        PROVE  pings[v] + pongs[v] + lost[v] <= waitingPong[v] + excess[v]
    BY <1>2, <2>1 DEF HInv, TypeOK, FreshSilent
  <2> QED
    BY <1>1, <2>1 DEF HInv, PongAccounting
<1> QED
  BY <1>3, <1>4, <1>5 DEF HInv

\* Removing a worker and starting afresh only take away.
LEMMA RemovalKeeps ==
  ASSUME HInv, MasterRestart \/ \E w \in Workers : RemoveWorker(w)
  PROVE  HInv'
<1>1. CASE MasterRestart
  <2>1. TypeOK'
    BY <1>1, RestartsBound, TimeoutPositive
    DEF MasterRestart, HInv, TypeOK, Zero, cloudVars
  <2>2. PongAccounting' /\ RecognizedListed' /\ HeardBelow' /\ FreshSilent'
    BY <1>1
    DEF MasterRestart, HInv, TypeOK, PongAccounting, RecognizedListed, HeardBelow,
        FreshSilent, Zero, cloudVars
  <2> QED
    BY <2>1, <2>2 DEF HInv
<1>2. CASE \E w \in Workers : RemoveWorker(w)
  BY <1>2
  DEF RemoveWorker, HInv, TypeOK, PongAccounting, RecognizedListed, HeardBelow,
      FreshSilent, cloudVars, wireVars
<1> QED
  BY <1>1, <1>2

\* Every step, and every stutter, keeps HInv.
LEMMA NextHInv == HInv /\ [Next]_vars => HInv'
<1> SUFFICES ASSUME HInv, [Next]_vars PROVE HInv'
  OBVIOUS
<1>1. CASE ManageWorkers
  BY <1>1, ManageWorkersKeeps
<1>2. CASE MasterRestart
  BY <1>2, RemovalKeeps
<1>3. ASSUME NEW w \in Workers,
             \/ DispatchPong(w) \/ RemoveWorker(w)
             \/ SendPong(w) \/ WorkerThrows(w) \/ RepeatPong(w)
             \/ LosePing(w) \/ LosePong(w)
             \/ WorkerDies(w) \/ WorkerStarts(w)
             \/ InstanceAppears(w) \/ InstanceGone(w) \/ DestroyIgnored(w)
      PROVE  HInv'
  BY <1>3, DispatchPongKeeps, RemovalKeeps, WireKeeps, CloudKeeps
<1>4. CASE UNCHANGED vars
  BY <1>4
  DEF vars, masterVars, cloudVars, wireVars, HInv, TypeOK, PongAccounting,
      RecognizedListed, HeardBelow, FreshSilent
<1> QED
  BY <1>1, <1>2, <1>3, <1>4 DEF Next

-----------------------------------------------------------------------------
(* The theorems. *)

\* HInv is an invariant of the heartbeat.
THEOREM HeartbeatInvariance == Spec => []HInv
  BY InitHInv, NextHInv, PTL DEF Spec

\* The tables of the master and of the cloud keep their types, counts of
\* unanswered pings never pass the limit, and only listed instances are being
\* deleted (manageWorkers, sendPing and dispatchPong in master.js).
THEOREM HeartbeatTypes == Spec => []TypeOK
<1>1. HInv => TypeOK
  BY DEF HInv
<1> QED
  BY <1>1, HeartbeatInvariance, PTL

\* The master never counts more pings than have no answer, and those it does not
\* count were hidden by as many pongs that answered others: whatever the network
\* loses, delays or repeats, whatever dying processes send, and through restarts
\* (master.js:485-490, 503-507; worker.js:62-67, 240).
THEOREM PongsAccounted == Spec => []PongAccounting
<1>1. HInv => PongAccounting
  BY DEF HInv
<1> QED
  BY <1>1, HeartbeatInvariance, PTL

\* Only workers of the last listing, or condemned ones, are recognized
\* (master.js:380-385, 509-512).
THEOREM RecognizedAreListed == Spec => []RecognizedListed
<1>1. HInv => RecognizedListed
  BY DEF HInv
<1> QED
  BY <1>1, HeartbeatInvariance, PTL

\* Only the management round asks for an instance to be deleted.
LEMMA OthersDeleteNothing ==
  ASSUME [Next]_vars, ~ ManageWorkers
  PROVE  deleting' \subseteq deleting
  BY DEF Next, MasterRestart, DispatchPong, RemoveWorker, SendPong, WorkerThrows,
         RepeatPong, Unasked, LosePing, LosePong, WorkerDies, WorkerStarts, InstanceAppears, InstanceGone, DestroyIgnored,
         vars, cloudVars

\* An instance is destroyed only after the whole limit of pings is unanswered
\* and nothing was heard of it since the last round: one pong saves it
\* (master.js:400-413).
THEOREM OnlySilentDestroyed == Spec => DestroyJustified
<1>1. ASSUME HInv, [Next]_vars, NEW w \in deleting' \ deleting
      PROVE  w \notin heard /\ pings[w] + pongs[w] + lost[w] >= waitingPongTimeout
  <2>1. ManageWorkers
    BY <1>1, OthersDeleteNothing
  <2>2. w \in Workers
    BY <1>1, <2>1 DEF ManageWorkers, Silent
  <2>3. waitingPong[w] = waitingPongTimeout
    BY <1>1, <2>1, <2>2, RoundCounts DEF HInv
  <2> QED
    BY <1>1, <2>2, <2>3, TimeoutPositive
    DEF HInv, TypeOK, PongAccounting, HeardBelow
<1>2. HInv /\ [Next]_vars =>
        [\A w \in deleting' \ deleting :
           /\ w \notin heard
           /\ pings[w] + pongs[w] + lost[w] >= waitingPongTimeout]_vars
  BY <1>1
<1> QED
  BY <1>2, HeartbeatInvariance, PTL DEF Spec, DestroyJustified

\* No late pong and no round takes a condemned instance back, as long as it
\* exists and the master lives (master.js:406-410, 485-487, 503-507).
THEOREM CondemnedForEver == Spec => CondemnedStays
<1>1. ASSUME HInv, [Next]_vars, NEW w \in listed,
             waitingPong[w] = -1, restarts' = restarts
      PROVE  waitingPong'[w] = -1 /\ pings'[w] <= pings[w]
  <2>1. /\ w \in Workers /\ pings \in [Workers -> Nat]
        /\ waitingPong \in [Workers -> Int] /\ restarts \in Nat
    BY <1>1, RestartsBound DEF HInv, TypeOK
  <2>2. CASE ManageWorkers
    BY <1>1, <2>1, <2>2, RoundCounts DEF HInv
  <2>3. CASE MasterRestart
    BY <1>1, <2>1, <2>3 DEF MasterRestart
  <2>4. ASSUME NEW v \in Workers, DispatchPong(v)
        PROVE  waitingPong'[w] = -1 /\ pings'[w] <= pings[w]
    <3>1. waitingPong'[w] = waitingPong[w] \/ waitingPong'[w] = Ponged(waitingPong[w])
      BY <2>1, <2>4 DEF DispatchPong
    <3>2. pings' = pings
      BY <2>4 DEF DispatchPong
    <3> QED
      BY <1>1, <2>1, <3>1, <3>2, PongedCounts
  <2>5. ASSUME NEW v \in Workers, SendPong(v) \/ LosePing(v)
        PROVE  waitingPong'[w] = -1 /\ pings'[w] <= pings[w]
    <3>1. waitingPong' = waitingPong /\ pings' = [pings EXCEPT ![v] = pings[v] - 1]
      BY <2>5 DEF SendPong, LosePing, masterVars
    <3> QED
      BY <1>1, <2>1, <3>1
  <2>6. ASSUME NEW v \in Workers,
               \/ RemoveWorker(v) \/ LosePong(v) \/ WorkerThrows(v) \/ RepeatPong(v)
               \/ WorkerDies(v) \/ WorkerStarts(v)
               \/ InstanceAppears(v) \/ InstanceGone(v) \/ DestroyIgnored(v)
        PROVE  waitingPong'[w] = -1 /\ pings'[w] <= pings[w]
    <3>1. waitingPong' = waitingPong /\ pings' = pings
      BY <2>6
      DEF RemoveWorker, LosePong, WorkerThrows, RepeatPong, Unasked, WorkerDies, WorkerStarts, InstanceAppears,
          InstanceGone, DestroyIgnored, masterVars, wireVars
    <3> QED
      BY <1>1, <2>1, <3>1
  <2>7. CASE UNCHANGED vars
    BY <1>1, <2>1, <2>7 DEF vars, masterVars, wireVars
  <2> QED
    BY <1>1, <2>2, <2>3, <2>4, <2>5, <2>6, <2>7 DEF Next
<1>2. HInv /\ [Next]_vars =>
        [\A w \in listed :
           waitingPong[w] = -1 /\ restarts' = restarts =>
             waitingPong'[w] = -1 /\ pings'[w] <= pings[w]]_vars
  BY <1>1
<1> QED
  BY <1>2, HeartbeatInvariance, PTL DEF Spec, CondemnedStays
=============================================================================
