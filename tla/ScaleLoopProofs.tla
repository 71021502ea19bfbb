---------------------------- MODULE ScaleLoopProofs ----------------------------
(***************************************************************************)
(* The safety of the closed loop for every set of metrics and accepted     *)
(* configurations.  These facts make it inductive: the variables have      *)
(* their types; every version the informer is behind accounts for at most  *)
(* one missing replica (Behind); and, unless the evaluation was misled,    *)
(* an answer of zero replicas means that the workload is still parked, and *)
(* an answer at or below the deactivation threshold was recorded in        *)
(* idleSeen when it was given.                                             *)
(***************************************************************************)
EXTENDS ScaleLoop, TLAPS

Bounds(c) == /\ c.min \in Nat /\ c.max \in Nat /\ c.max >= 1
             /\ c.min <= c.max /\ c.max <= MaxReplicas

\* The replica bounds of an accepted configuration are in order.
LEMMA ConfigBounds == \A c \in Configs : Bounds(c)
BY LoopAssumption DEF Config, ConfigValid, BoundsValid, Bounds

\* The replica counts and bounds are natural numbers in order.
LEMMA Counts ==
    ASSUME TypeOK
    PROVE  /\ MaxReplicas \in Nat
           /\ replicas \in Nat /\ replicas <= MaxReplicas
           /\ ready \in Nat /\ ready <= replicas
           /\ object.min \in Nat /\ object.max \in Nat
           /\ object.min <= object.max /\ 1 <= object.max /\ object.max <= MaxReplicas
<1>1. MaxReplicas \in Nat
  BY LoopAssumption
<1>2. Bounds(object)
  BY ConfigBounds DEF TypeOK
<1>3. replicas \in 0..MaxReplicas /\ ready \in 0..replicas
  BY DEF TypeOK
<1> QED
  BY <1>1, <1>2, <1>3 DEF Bounds

Versions == [replicas : 0..MaxReplicas, ready : 0..MaxReplicas]

\* What the informer shows is a version of the InferenceSet.
LEMMA ShownType ==
    ASSUME TypeOK
    PROVE  /\ Current \in Versions /\ Shown \in Versions
           /\ Shown.replicas \in 0..MaxReplicas /\ Shown.ready \in 0..MaxReplicas
<1>1. replicas \in 0..MaxReplicas /\ ready \in 0..MaxReplicas
  BY Counts
<1>2. Current \in Versions
  BY <1>1 DEF Current, Versions
<1>3. Shown \in Versions
  <2>1. lag \in Seq(Versions)
    BY DEF TypeOK, Versions
  <2>2. CASE lag = << >>
    BY <1>2, <2>2 DEF Shown
  <2>3. CASE lag # << >>
    BY <2>1, <2>3 DEF Shown
  <2> QED
    BY <2>2, <2>3
<1> QED
  BY <1>2, <1>3 DEF Versions

\* Whatever a step does to the InferenceSet, the informer is at most MaxLag behind.
LEMMA PublishType ==
    ASSUME TypeOK, Publish
    PROVE  lag' \in Seq(Versions) /\ Len(lag') <= MaxLag
<1>1. lag \in Seq(Versions) /\ Len(lag) <= MaxLag /\ MaxLag \in Nat
  BY LoopAssumption DEF TypeOK, Versions
<1>2. Superseded \in Seq(Versions) /\ Len(Superseded) <= MaxLag
  <2> DEFINE versions == Append(lag, Current)
  <2>1. versions \in Seq(Versions) /\ Len(versions) = Len(lag) + 1
    BY <1>1, ShownType
  <2> HIDE DEF versions
  <2>2. versions # << >>
    BY <1>1, <2>1
  <2>3. Tail(versions) \in Seq(Versions) /\ Len(Tail(versions)) = Len(lag)
    BY <1>1, <2>1, <2>2
  <2>4. Superseded = IF Len(versions) <= MaxLag THEN versions ELSE Tail(versions)
    BY DEF Superseded, versions
  <2> QED
    BY <1>1, <2>1, <2>3, <2>4
<1> QED
  BY <1>1, <1>2 DEF Publish

\* The formula grows the workload only behind the readiness gate.
LEMMA GrowthNeedsGate ==
    ASSUME NEW c, NEW r, Signal(c, r) > Hold
    PROVE  r.gate = 1
<1>1. /\ ~ (2 > 2) /\ ~ (0 > 2) /\ ~ (1 > 2)
  OBVIOUS
<1>2. Overloaded(c.rules, r.value, r.gate)
  BY <1>1 DEF Signal, AlwaysOn, ZeroBranch, NonZeroBranch, Hold, ScaleUp, ScaleDown,
              Activate, Deactivate
<1> QED
  BY <1>2 DEF Overloaded

\* What a reachable count of replicas becomes when it is set.
LEMMA ScaleToType ==
    ASSUME TypeOK, NEW n \in 0..MaxReplicas, ScaleTo(n)
    PROVE  /\ replicas' = n
           /\ ready' \in 0..n
           /\ ready <= n => ready' = ready
           /\ ready > n => ready' = n
           /\ service' \in BOOLEAN
           /\ load' \in [Metrics -> Levels]
<1>1. /\ replicas' = n /\ ready' \in 0..n
      /\ ready <= n => ready' = ready
      /\ ready > n => ready' = n
  BY LoopAssumption DEF ScaleTo, TypeOK
<1>2. service' \in BOOLEAN
  BY DEF ScaleTo, TypeOK
<1>3. load' \in [Metrics -> Levels]
  BY LoopAssumption DEF ScaleTo, LoadOf, TypeOK
<1> QED
  BY <1>1, <1>2, <1>3

\* What the scaler answers is a metric level, a replica count, a gate or an error.
LEMMA AnswerType ==
    ASSUME TypeOK, NEW t \in Triggers
    PROVE  Answer(t) \in Levels \cup 0..MaxReplicas \cup {0, 1, Unknown}
BY LoopAssumption, ShownType
   DEF TypeOK, Answer, MetricValue, Served, ReadinessGate, Triggers

\* The counts the loop sets by itself.
LEMMA WakeCount ==
    ASSUME TypeOK
    PROVE  Larger(object.min, 1) \in 1..MaxReplicas
BY Counts DEF Larger

\* The HPA clamps to its bounds, and upwards no further than the minimum.
LEMMA ClampCount ==
    ASSUME TypeOK, replicas > 0
    PROVE  /\ Clamp(replicas) \in 1..MaxReplicas
           /\ Clamp(replicas) > replicas => Clamp(replicas) <= Larger(object.min, 1)
BY Counts DEF Clamp, Larger

\* The HPA grows by one replica once the informer shows all ready, or shrinks; it
\* never parks.
LEMMA HPACount ==
    ASSUME TypeOK, HPA
    PROVE  \E n \in 1..MaxReplicas :
               /\ ScaleTo(n)
               /\ n < replicas \/ (n = replicas + 1 /\ Shown.ready >= Shown.replicas)
<1> DEFINE answers == [t \in Triggers |-> Answer(t)]
           signal == Signal(object, Given(answers))
<1>1. /\ MaxReplicas \in Nat /\ object.max \in Nat /\ object.min \in Nat
      /\ object.max <= MaxReplicas
      /\ replicas \in Nat /\ replicas > 0 /\ replicas <= MaxReplicas
      /\ ready \in Nat
  BY Counts DEF HPA
<1>2. CASE signal > Hold /\ replicas < object.max /\ ScaleTo(replicas + 1)
  <2>1. Given(answers).gate = 1
    BY <1>2, GrowthNeedsGate
  <2>2. answers[Gate] = 1
    BY <2>1 DEF Given
  <2>3. ReadinessGate = 1
    BY <2>2 DEF Answer, Triggers, Gate, ReplicaCount
  <2>4. Shown.ready >= Shown.replicas
    BY <2>3, ShownType, Counts DEF ReadinessGate
  <2>5. replicas + 1 \in 1..MaxReplicas
    BY <1>1, <1>2
  <2> QED
    BY <1>2, <2>4, <2>5
<1>3. CASE signal < Hold /\ replicas > Larger(object.min, 1) /\ ScaleTo(replicas - 1)
  <2>1. replicas - 1 \in 1..MaxReplicas /\ replicas - 1 < replicas
    BY <1>1, <1>3 DEF Larger
  <2> QED
    BY <1>3, <2>1
<1> QED
  BY <1>2, <1>3 DEF HPA

-----------------------------------------------------------------------------
(* Types.                                                                  *)

AskedType == [Triggers -> Levels \cup 0..MaxReplicas \cup {0, 1, Unread}]

\* A poll starts with no answer read.
LEMMA AskingType == Asking \in AskedType
BY DEF Asking, AskedType

\* The loop starts in a typed state.
LEMMA InitType == Init => TypeOK
<1> SUFFICES ASSUME Init PROVE TypeOK
  OBVIOUS
<1>1. Bounds(object)
  BY ConfigBounds DEF Init
<1>2. replicas \in 0..MaxReplicas /\ ready \in 0..replicas
  BY <1>1, LoopAssumption DEF Init, Bounds
<1>3. load \in [Metrics -> Levels] /\ cache \in [Metrics -> Levels \cup {Unknown, Blank}]
  BY LoopAssumption DEF Init
<1>4. inactive \in 0..Cooldown
  BY LoopAssumption DEF Init
<1>5. asked \in AskedType
  BY AskingType DEF Init
<1>6. lag \in Seq([replicas : 0..MaxReplicas, ready : 0..MaxReplicas]) /\ Len(lag) <= MaxLag
  BY LoopAssumption DEF Init
<1> QED
  BY <1>2, <1>3, <1>4, <1>5, <1>6 DEF TypeOK, AskedType, Init

\* A step that sets the replicas and otherwise at most asked and inactive.
LEMMA ScaleToKeepsType ==
    ASSUME TypeOK, NEW n \in 0..MaxReplicas, ScaleTo(n),
           idleSeen' \subseteq Metrics, misled' \in BOOLEAN,
           lag' \in Seq(Versions), Len(lag') <= MaxLag,
           UNCHANGED <<object, cache>>,
           asked' \in AskedType, inactive' \in 0..Cooldown
    PROVE  TypeOK'
<1>1. /\ replicas' \in 0..MaxReplicas /\ ready' \in 0..replicas'
      /\ service' \in BOOLEAN /\ load' \in [Metrics -> Levels]
  BY ScaleToType
<1> QED
  BY <1>1 DEF TypeOK, AskedType, Versions

\* A finished poll wakes a parked workload, parks a running one or changes nothing.
LEMMA DecideType ==
    ASSUME TypeOK, Decide
    PROVE  /\ asked' = Asking
           /\ inactive' \in 0..Cooldown
           /\ UNCHANGED <<object, cache>>
           /\ \/ UNCHANGED <<workload, load>>
              \/ replicas = 0 /\ ScaleTo(Larger(object.min, 1))
              \/ replicas > 0 /\ ScaleTo(0)
<1>1. inactive \in 0..Cooldown /\ Cooldown \in Nat
  BY LoopAssumption DEF TypeOK
<1>2. inactive' \in 0..Cooldown
  BY <1>1 DEF Decide
<1> QED
  BY <1>2 DEF Decide

\* Every step keeps the types.
LEMMA NextType == TypeOK /\ [Next]_vars => TypeOK'
<1> SUFFICES ASSUME TypeOK, [Next]_vars PROVE TypeOK'
  OBVIOUS
<1>1. CASE UNCHANGED vars
  BY <1>1 DEF vars, TypeOK
<1>2. ASSUME NEW n \in ByHand, ScaleByHand(n), Publish, Observe(TRUE) PROVE TypeOK'
  <2>1. n \in 0..MaxReplicas
    BY LoopAssumption
  <2>2. asked' \in AskedType /\ inactive' \in 0..Cooldown
    BY <1>2 DEF ScaleByHand, TypeOK, AskedType
  <2>3. idleSeen' \subseteq Metrics /\ misled' \in BOOLEAN
    BY <1>2 DEF Observe, TypeOK
  <2>4. lag' \in Seq(Versions) /\ Len(lag') <= MaxLag
    BY <1>2, PublishType
  <2> QED
    BY <1>2, <2>1, <2>2, <2>3, <2>4, ScaleToKeepsType DEF ScaleByHand
<1>4. CASE Deliver /\ Observe(FALSE)
  <2>1. idleSeen' \subseteq Metrics /\ misled' \in BOOLEAN
    BY <1>4 DEF Observe, TypeOK
  <2>2. lag \in Seq(Versions) /\ lag # << >> /\ Len(lag) <= MaxLag /\ lag' = Tail(lag)
    BY <1>4 DEF Deliver, TypeOK, Versions
  <2>3. lag' \in Seq(Versions) /\ Len(lag') <= MaxLag
    BY <2>2, LoopAssumption
  <2> QED
    BY <1>4, <2>1, <2>3 DEF Deliver, TypeOK, Versions
<1>3. CASE System /\ Publish /\ Observe(FALSE)
  <2>1. /\ idleSeen' \subseteq Metrics /\ misled' \in BOOLEAN
        /\ lag' \in Seq(Versions) /\ Len(lag') <= MaxLag
    BY <1>3, PublishType DEF Observe, TypeOK
  <2>11. lag' \in Seq([replicas : 0..MaxReplicas, ready : 0..MaxReplicas])
    BY <2>1 DEF Versions
  <2> USE <2>1, <2>11
  <2>2. ASSUME NEW m \in Metrics, Scrape(m) PROVE TypeOK'
    BY <2>2 DEF Scrape, Unanswered, TypeOK
  <2>3. ASSUME NEW m \in Metrics, Outage(m) PROVE TypeOK'
    BY <2>3, LoopAssumption DEF Outage, Unanswered, TypeOK
  <2>4. ASSUME NEW t \in Triggers, Ask(t) PROVE TypeOK'
    <3>1. asked' \in AskedType
      BY <2>4, AskingType, AnswerType DEF Ask, AskedType, TypeOK
    <3> QED
      BY <2>4, <3>1 DEF Ask, TypeOK, AskedType, workload
  <2>5. CASE Decide
    <3>1. asked' \in AskedType /\ inactive' \in 0..Cooldown
      BY <2>5, DecideType, AskingType
    <3>2. CASE UNCHANGED <<workload, load>>
      BY <2>5, <3>1, <3>2, DecideType DEF TypeOK, AskedType, workload
    <3>3. CASE ScaleTo(Larger(object.min, 1))
      BY <2>5, <3>1, <3>3, DecideType, ScaleToKeepsType, WakeCount
    <3>4. CASE ScaleTo(0)
      <4>1. 0 \in 0..MaxReplicas
        BY Counts
      <4> QED
        BY <2>5, <3>1, <3>4, <4>1, DecideType, ScaleToKeepsType
    <3> QED
      BY <2>5, <3>2, <3>3, <3>4, DecideType
  <2>6. CASE HPA
    <3>1. PICK n \in 1..MaxReplicas : ScaleTo(n)
      BY <2>6, HPACount
    <3>2. asked' \in AskedType /\ inactive' \in 0..Cooldown
      BY <2>6 DEF HPA, TypeOK, AskedType
    <3> QED
      BY <2>6, <3>1, <3>2, ScaleToKeepsType DEF HPA
  <2>7. CASE HPABounds
    <3>1. Clamp(replicas) \in 0..MaxReplicas
      BY <2>7, ClampCount DEF HPABounds
    <3>2. asked' \in AskedType /\ inactive' \in 0..Cooldown
      BY <2>7 DEF HPABounds, TypeOK, AskedType
    <3> QED
      BY <2>7, <3>1, <3>2, ScaleToKeepsType DEF HPABounds
  <2>8. ASSUME NEW m \in Metrics, NEW v \in Levels, Load(m, v) PROVE TypeOK'
    BY <2>8 DEF Load, TypeOK
  <2>9. CASE CreateService
    BY <2>9 DEF CreateService, TypeOK
  <2>10. CASE ReplicaReady
    <3>1. ready' \in 0..replicas
      BY <2>10, Counts DEF ReplicaReady
    <3> QED
      BY <2>10, <3>1 DEF ReplicaReady, TypeOK
  <2>12. ASSUME NEW c \in Configs, Reprovision(c) PROVE TypeOK'
    BY <2>12, AskingType DEF Reprovision, TypeOK, AskedType, workload
  <2> QED
    BY <1>3, <2>2, <2>3, <2>4, <2>5, <2>6, <2>7, <2>8, <2>9, <2>10, <2>12
       DEF System, KEDA, Cluster
<1> QED
  BY <1>1, <1>2, <1>3, <1>4 DEF Next

\* Type correctness of the closed loop: the counts stay within their bounds and no
\* more replicas are ready than desired.
THEOREM TypeCorrect == Spec => []TypeOK
BY InitType, NextType, PTL DEF Spec

-----------------------------------------------------------------------------
(* One replica at a time.                                                  *)

Missing(version) == version.replicas - version.ready

\* Since every version that the informer is behind, at most one replica was added
\* to those missing then, per version.
Behind ==
    \A i \in 1..Len(lag) :
        /\ lag[i].ready <= lag[i].replicas
        /\ Missing(Current) <= Missing(lag[i]) + (Len(lag) + 1 - i)

\* The workload starts with at most one replica on its way.
LEMMA InitOneAtATime == Init => OneReplicaAtATime /\ Behind
BY LoopAssumption DEF Init, OneReplicaAtATime, Behind

\* Behind a gate that is open no more replicas are missing than versions.
LEMMA OpenGate ==
    ASSUME TypeOK, Behind, Shown.ready >= Shown.replicas
    PROVE  replicas - ready <= MaxLag
<1>1. /\ lag \in Seq(Versions) /\ Len(lag) <= MaxLag /\ MaxLag \in Nat /\ Len(lag) \in Nat
      /\ replicas \in Nat /\ ready \in Nat
  BY Counts, LoopAssumption DEF TypeOK, Versions
<1>2. CASE lag = << >>
  <2>1. ready >= replicas
    BY <1>2 DEF Shown, Current
  <2> QED
    BY <1>1, <2>1
<1>3. CASE lag # << >>
  <2>1. Shown = lag[1] /\ 1 \in 1..Len(lag) /\ lag[1] \in Versions
    BY <1>1, <1>3 DEF Shown
  <2>2. lag[1].replicas \in 0..MaxReplicas /\ lag[1].ready \in 0..MaxReplicas
    BY <2>1 DEF Versions
  <2>3. replicas - ready <= lag[1].replicas - lag[1].ready + (Len(lag) + 1 - 1)
    BY <2>1 DEF Behind, Missing, Current
  <2>4. lag[1].ready >= lag[1].replicas
    BY <2>1
  <2> QED
    BY <1>1, <2>2, <2>3, <2>4, Counts
<1> QED
  BY <1>2, <1>3

\* No step adds more than one missing replica, and none adds one to as many as there
\* may be.
LEMMA StepAddsOne ==
    ASSUME ByHand \subseteq 0..1, \A c \in Configs : c.min <= 1,
           TypeOK, Behind, OneReplicaAtATime, Next
    PROVE  /\ replicas' - ready' <= replicas - ready + 1
           /\ replicas' - ready' <= 1 + MaxLag
           /\ replicas' \in 0..MaxReplicas /\ ready' \in 0..replicas'
<1> USE DEF OneReplicaAtATime
<1>1. Larger(object.min, 1) = 1
  BY Counts DEF Larger, TypeOK
<1>2. MaxLag \in Nat
  BY LoopAssumption
<1> DEFINE Goal == /\ replicas' - ready' <= replicas - ready + 1
                   /\ replicas' - ready' <= 1 + MaxLag
                   /\ replicas' \in 0..MaxReplicas /\ ready' \in 0..replicas'
<1>3. CASE UNCHANGED <<replicas, ready>>
  BY <1>2, <1>3, Counts
<1>4. ASSUME NEW n \in 0..MaxReplicas, ScaleTo(n), n <= 1 \/ n <= replicas
      PROVE  Goal
  BY <1>2, <1>4, ScaleToType, Counts
<1>5. CASE Decide
  <2>1. 1 \in 0..MaxReplicas /\ 0 \in 0..MaxReplicas
    BY <1>1, WakeCount, Counts
  <2>2. UNCHANGED <<replicas, ready>> \/ ScaleTo(1) \/ ScaleTo(0)
    BY <1>1, <1>5, DecideType DEF workload
  <2> QED
    BY <1>3, <1>4, <2>1, <2>2
<1>6. CASE HPA
  <2>1. PICK n \in 1..MaxReplicas :
            /\ ScaleTo(n)
            /\ n < replicas \/ (n = replicas + 1 /\ Shown.ready >= Shown.replicas)
    BY <1>6, HPACount
  <2>2. n \in 0..MaxReplicas
    BY Counts
  <2>3. CASE n < replicas
    <3>1. n <= replicas
      BY <2>2, <2>3, Counts
    <3> QED
      BY <1>4, <2>1, <2>2, <3>1
  <2>4. CASE n = replicas + 1 /\ Shown.ready >= Shown.replicas
    <3>1. replicas - ready <= MaxLag
      BY <2>4, OpenGate
    <3>2. replicas' = replicas + 1 /\ ready' = ready
      BY <2>1, <2>2, <2>4, ScaleToType, Counts
    <3> QED
      BY <1>2, <2>2, <2>4, <3>1, <3>2, Counts
  <2> QED
    BY <2>1, <2>3, <2>4
<1>7. CASE HPABounds
  <2>1. /\ Clamp(replicas) \in 0..MaxReplicas /\ ScaleTo(Clamp(replicas))
        /\ Clamp(replicas) <= replicas
    BY <1>1, <1>7, ClampCount, Counts DEF HPABounds
  <2> QED
    BY <1>4, <2>1
<1>8. CASE ReplicaReady
  <2>1. replicas' = replicas /\ ready' = ready + 1 /\ ready < replicas
    BY <1>8 DEF ReplicaReady
  <2> QED
    BY <1>2, <2>1, Counts
<1>9. ASSUME NEW n \in ByHand, ScaleByHand(n) PROVE Goal
  <2>1. n \in 0..MaxReplicas /\ n <= 1 /\ ScaleTo(n)
    BY <1>9, LoopAssumption DEF ScaleByHand
  <2> QED
    BY <1>4, <2>1
<1> QED
  BY <1>3, <1>5, <1>6, <1>7, <1>8, <1>9
     DEF Next, Deliver, System, KEDA, Cluster, Scrape, Outage, Ask, Load, CreateService,
         Reprovision, workload

\* The oldest of the versions goes.
LEMMA TailBehind ==
    ASSUME NEW s \in Seq(Versions), s # << >>, NEW cur \in Int,
           \A i \in 1..Len(s) :
               /\ s[i].ready <= s[i].replicas
               /\ cur <= Missing(s[i]) + (Len(s) + 1 - i)
    PROVE  \A i \in 1..Len(Tail(s)) :
               /\ Tail(s)[i].ready <= Tail(s)[i].replicas
               /\ cur <= Missing(Tail(s)[i]) + (Len(Tail(s)) + 1 - i)
<1> TAKE i \in 1..Len(Tail(s))
<1>1. /\ Len(s) \in Nat /\ Len(Tail(s)) = Len(s) - 1
      /\ i \in Nat /\ i + 1 \in 1..Len(s) /\ Tail(s)[i] = s[i + 1]
  OBVIOUS
<1>2. PICK j \in 1..Len(s) : j = i + 1
  BY <1>1
<1>3. s[j].ready <= s[j].replicas /\ cur <= Missing(s[j]) + (Len(s) + 1 - j)
  BY <1>2
<1>4. Tail(s)[i] = s[j]
  BY ONLY <1>1, <1>2
<1>5. Len(s) + 1 - j = Len(Tail(s)) + 1 - i
  BY ONLY <1>1, <1>2
<1> QED
  BY <1>3, <1>4, <1>5

\* Every step keeps the account of the versions.
LEMMA NextBehind ==
    ASSUME ByHand \subseteq 0..1, \A c \in Configs : c.min <= 1,
           TypeOK, Behind, OneReplicaAtATime, [Next]_vars
    PROVE  Behind'
<1> DEFINE cur == replicas' - ready'
           Kept(s) == \A i \in 1..Len(s) :
                          /\ s[i].ready <= s[i].replicas
                          /\ cur <= Missing(s[i]) + (Len(s) + 1 - i)
<1>1. /\ lag \in Seq(Versions) /\ Len(lag) \in Nat /\ Current \in Versions
      /\ replicas \in Nat /\ ready \in Nat /\ ready <= replicas
  BY ShownType, Counts DEF TypeOK, Versions
<1>2. Missing(Current) = replicas - ready
  BY DEF Missing, Current
<1>3. CASE UNCHANGED <<lag, replicas, ready>>
  BY <1>3 DEF Behind, Missing, Current
<1>4. CASE Next
  <2>1. cur \in Int /\ cur <= replicas - ready + 1
    <3>1. replicas' \in 0..MaxReplicas /\ ready' \in 0..replicas'
      BY <1>4, StepAddsOne
    <3> QED
      BY <1>4, <3>1, StepAddsOne, Counts
  <2>2. CASE Deliver
    <3>1. lag # << >> /\ lag' = Tail(lag) /\ cur = replicas - ready
      BY <2>2 DEF Deliver
    <3>2. Kept(lag)
      BY <1>2, <3>1 DEF Behind
    <3>3. Kept(lag')
      BY <1>1, <2>1, <3>1, <3>2, TailBehind
    <3> QED
      BY <3>3 DEF Behind, Missing, Current
  <2>3. CASE Publish
    <3> DEFINE versions == Append(lag, Current)
    <3>1. CASE UNCHANGED <<replicas, ready>>
      BY <1>3, <2>3, <3>1 DEF Publish, Current
    <3>2. /\ versions \in Seq(Versions) /\ Len(versions) = Len(lag) + 1
          /\ versions # << >>
      BY <1>1
    <3>3. Kept(versions)
      <4> SUFFICES ASSUME NEW i \in 1..Len(versions)
                   PROVE  /\ versions[i].ready <= versions[i].replicas
                          /\ cur <= Missing(versions[i]) + (Len(lag) + 2 - i)
        BY <1>1, <3>2
      <4>1. CASE i = Len(lag) + 1
        <5>1. versions[i] = Current
          BY <1>1, <4>1
        <5> QED
          BY <1>1, <1>2, <2>1, <4>1, <5>1 DEF Current
      <4>2. CASE i \in 1..Len(lag)
        <5>1. versions[i] = lag[i] /\ lag[i] \in Versions
          BY <1>1, <4>2
        <5>2. /\ lag[i].ready <= lag[i].replicas
              /\ replicas - ready <= Missing(lag[i]) + (Len(lag) + 1 - i)
          BY <1>2, <4>2 DEF Behind
        <5>3. Missing(lag[i]) \in Int
          BY <5>1, Counts DEF Missing, Versions
        <5> HIDE DEF versions, cur
        <5> QED
          BY <1>1, <2>1, <4>2, <5>1, <5>2, <5>3
      <4> QED
        BY <1>1, <3>2, <4>1, <4>2
    <3> HIDE DEF versions, cur
    <3>4. Kept(Tail(versions))
      BY <2>1, <3>2, <3>3, TailBehind
    <3>5. Current' # Current => lag' = versions \/ lag' = Tail(versions)
      BY <2>3 DEF Publish, Superseded, versions
    <3>6. CASE Current' # Current
      <4>1. Kept(lag')
        BY <3>3, <3>4, <3>5, <3>6
      <4> QED
        BY <4>1 DEF Behind, Missing, Current, cur
    <3>7. Current' = Current => UNCHANGED <<replicas, ready>>
      BY DEF Current
    <3> QED
      BY <3>1, <3>6, <3>7
  <2> QED
    BY <1>4, <2>2, <2>3 DEF Next
<1> QED
  BY <1>3, <1>4 DEF vars

\* Every step keeps the number of missing replicas within the bound.
LEMMA NextOneAtATime ==
    ASSUME ByHand \subseteq 0..1, \A c \in Configs : c.min <= 1,
           TypeOK, Behind, OneReplicaAtATime, [Next]_vars
    PROVE  OneReplicaAtATime'
<1>1. CASE UNCHANGED vars
  BY <1>1 DEF vars, OneReplicaAtATime
<1>2. CASE Next
  BY <1>2, StepAddsOne DEF OneReplicaAtATime
<1> QED
  BY <1>1, <1>2

\* While nobody sets more than one replica by hand and no configuration has a larger
\* minimum, at most one replica is missing, and one more per version that the scaler's
\* informer may be behind, for every load, every interleaving of KEDA, the HPA, the
\* informer and the poller and every change of configuration.
THEOREM OneAtATime ==
    ASSUME ByHand \subseteq 0..1, \A c \in Configs : c.min <= 1
    PROVE  Spec => []OneReplicaAtATime
<1> DEFINE Inv == OneReplicaAtATime /\ Behind
<1>1. TypeOK /\ Inv /\ [Next]_vars => Inv'
  BY NextOneAtATime, NextBehind
<1>2. Init => Inv
  BY InitOneAtATime
<1> QED
  BY <1>1, <1>2, TypeCorrect, PTL DEF Spec

-----------------------------------------------------------------------------
(* Parking.                                                                *)

\* Unless the evaluation was misled, an answer of zero replicas means that the workload
\* is still parked.
CountIsCurrent == (asked[ReplicaCount] = 0 /\ ~ misled) => replicas = 0

\* Unless the evaluation was misled, an answer at or below the threshold was given
\* while the metric was idle.
IdleIsRecorded ==
    \A m \in Deactivating(object.rules) :
        (asked[m] # Unread /\ asked[m] <= object.rules[m].deactivation /\ ~ misled) =>
            m \in idleSeen

\* Only a windowed average reads a snapshot without values.
BlankIsWindowed == \A m \in Metrics : cache[m] = Blank => m \in Windowed

\* No parking depends on a windowed average.
ParksUnwindowed == \A c \in Configs : Deactivating(c.rules) \cap Windowed = {}

ParkInv == TypeOK /\ CountIsCurrent /\ IdleIsRecorded /\ BlankIsWindowed

\* Before the first answer of a poll there is nothing to account for.
LEMMA NothingAsked ==
    /\ asked = Asking => CountIsCurrent /\ IdleIsRecorded
    /\ asked' = Asking => CountIsCurrent' /\ IdleIsRecorded'
<1>1. ReplicaCount \in Triggers /\ Metrics \subseteq Triggers
  BY DEF Triggers
<1> QED
  BY <1>1, LoopAssumption DEF Asking, CountIsCurrent, IdleIsRecorded, Deactivating

\* Observing more never forgets which metrics were seen idle.
LEMMA RecordIsKept ==
    ASSUME IdleIsRecorded, NEW hand, Observe(hand), UNCHANGED <<object, asked>>, asked # Asking
    PROVE  IdleIsRecorded'
<1>1. idleSeen \subseteq idleSeen' /\ (misled => misled')
  BY DEF Observe
<1> QED
  BY <1>1 DEF IdleIsRecorded

\* Steps of others neither park nor wake, and leave the evaluation alone.
LEMMA OthersKeepPark ==
    ASSUME ParkInv, Observe(FALSE), UNCHANGED <<object, asked>>,
           replicas' = 0 <=> replicas = 0
    PROVE  CountIsCurrent' /\ IdleIsRecorded'
<1>1. CASE asked = Asking
  BY <1>1, NothingAsked
<1>2. CASE asked # Asking
  <2>1. misled => misled'
    BY <1>2 DEF Observe
  <2> QED
    BY <1>2, <2>1, RecordIsKept DEF CountIsCurrent, ParkInv
<1> QED
  BY <1>1, <1>2

\* An answer is recorded as current when it is given.
LEMMA AskRecords ==
    ASSUME ParksUnwindowed, ParkInv, Publish, Observe(FALSE), NEW t \in Triggers, Ask(t)
    PROVE  CountIsCurrent' /\ IdleIsRecorded'
<1>1. CASE asked' = Asking
  BY <1>1, NothingAsked
<1>3. CASE misled'
  BY <1>3 DEF CountIsCurrent, IdleIsRecorded
<1>4. CASE asked' = asked /\ asked' # Asking
  <2>1. UNCHANGED <<object, asked, replicas>>
    BY <1>4 DEF Ask, workload
  <2> QED
    BY <2>1, OthersKeepPark
<1>2. CASE asked' # Asking /\ asked' # asked /\ ~ misled'
  <2>1. /\ Answer(t) # Unknown
        /\ asked' = [asked EXCEPT ![t] = Answer(t)]
        /\ UNCHANGED <<object, workload, cache>>
    BY <1>2 DEF Ask
  <2>2. /\ Gate # ReplicaCount /\ Gate \notin Metrics /\ ReplicaCount \notin Metrics
        /\ asked \in [Triggers -> Levels \cup 0..MaxReplicas \cup {0, 1, Unread}]
        /\ ReplicaCount \in Triggers /\ Metrics \subseteq Triggers
    BY LoopAssumption DEF Gate, ReplicaCount, ParkInv, TypeOK, Triggers
  <2>7. ~ misled /\ (Shown.replicas = 0 => replicas = 0) /\ (~ service => ready = 0)
    <3>1. ~ misled /\ ~ Blind
      BY <1>2 DEF Observe
    <3>2. replicas \in Nat /\ ready \in Nat
      BY Counts DEF ParkInv
    <3> QED
      BY <3>1, <3>2 DEF Blind
  <2>3. CountIsCurrent'
    <3>1. CASE t = ReplicaCount
      BY <2>1, <2>2, <2>7, <3>1 DEF CountIsCurrent, Answer, workload
    <3>2. CASE t # ReplicaCount
      BY <2>1, <2>2, <2>7, <3>2 DEF CountIsCurrent, ParkInv, workload
    <3> QED
      BY <3>1, <3>2
  <2>4. ASSUME NEW m \in Deactivating(object.rules), m = t,
               asked'[m] # Unread, asked'[m] <= object.rules[m].deactivation
        PROVE  m \in idleSeen'
    <3>1. m \in Metrics /\ object.rules[m].deactivation # Unset
      BY DEF Deactivating
    <3>2. asked'[m] = MetricValue(m) /\ MetricValue(m) # Unknown
      BY <2>1, <2>2, <2>4, <3>1 DEF Answer
    <3>5. cache[m] # Blank
      BY <3>1 DEF ParkInv, TypeOK, ParksUnwindowed, BlankIsWindowed
    <3>6. Shown.replicas = 0 \/ ~ service => ready = 0
      BY <2>7, Counts DEF ParkInv
    <3>3. IdleNow(m)
      BY <2>1, <2>4, <3>1, <3>2, <3>5, <3>6 DEF MetricValue, Served, IdleNow
    <3>4. asked'[m] # asked[m]
      BY <2>4 DEF Ask
    <3> QED
      BY <1>2, <3>1, <3>3, <3>4 DEF Observe
  <2>5. ASSUME NEW m \in Deactivating(object.rules), m # t,
               asked'[m] # Unread, asked'[m] <= object.rules[m].deactivation
        PROVE  m \in idleSeen'
    <3>1. asked'[m] = asked[m]
      BY <2>1, <2>2, <2>5 DEF Deactivating
    <3>2. m \in idleSeen
      BY <2>5, <2>7, <3>1 DEF ParkInv, IdleIsRecorded
    <3> QED
      BY <1>2, <3>2 DEF Observe
  <2> QED
    BY <2>1, <2>3, <2>4, <2>5 DEF IdleIsRecorded
<1> QED
  BY <1>1, <1>2, <1>3, <1>4

\* Scaling by hand is remembered until the evaluation ends.
LEMMA HandKeepsPark ==
    ASSUME ParkInv, Observe(TRUE), UNCHANGED <<object, asked>>
    PROVE  CountIsCurrent' /\ IdleIsRecorded'
<1>1. CASE asked = Asking
  BY <1>1, NothingAsked
<1>2. CASE asked # Asking
  <2>1. misled'
    BY <1>2 DEF Observe
  <2> QED
    BY <2>1 DEF CountIsCurrent, IdleIsRecorded
<1> QED
  BY <1>1, <1>2

\* The HPA leaves at least one replica.
LEMMA HPANeverParks ==
    ASSUME TypeOK, HPA \/ HPABounds
    PROVE  UNCHANGED <<object, asked>> /\ replicas > 0 /\ replicas' > 0
<1>1. CASE HPA
  <2>1. PICK n \in 1..MaxReplicas : ScaleTo(n)
    BY <1>1, HPACount
  <2>2. replicas' = n /\ n > 0
    BY <2>1, Counts DEF ScaleTo
  <2> QED
    BY <1>1, <2>2 DEF HPA
<1>2. CASE HPABounds
  <2>1. replicas' = Clamp(replicas) /\ Clamp(replicas) > 0
    BY <1>2, ClampCount, Counts DEF HPABounds, ScaleTo
  <2> QED
    BY <1>2, <2>1 DEF HPABounds
<1> QED
  BY <1>1, <1>2

\* Only the scrape of a windowed metric leaves a snapshot without values behind.
LEMMA NextBlank == TypeOK /\ BlankIsWindowed /\ [Next]_vars => BlankIsWindowed'
<1> SUFFICES ASSUME TypeOK, BlankIsWindowed, [Next]_vars PROVE BlankIsWindowed'
  OBVIOUS
<1>1. CASE UNCHANGED cache
  BY <1>1 DEF BlankIsWindowed
<1>2. ASSUME NEW m \in Metrics, Scrape(m) PROVE BlankIsWindowed'
  <2>2. load[m] \in Nat
    BY LoopAssumption DEF TypeOK
  <2>3. Blank \notin Nat
    BY LoopAssumption
  <2>1. load[m] # Blank
    BY <2>2, <2>3
  <2> QED
    BY <1>2, <2>1, LoopAssumption DEF Scrape, Unanswered, BlankIsWindowed, TypeOK
<1>3. ASSUME NEW m \in Metrics, Outage(m) PROVE BlankIsWindowed'
  BY <1>3, LoopAssumption DEF Outage, Unanswered, BlankIsWindowed, TypeOK
<1> QED
  BY <1>1, <1>2, <1>3
     DEF Next, Deliver, System, KEDA, HPA, HPABounds, Cluster, Ask, Decide, Load,
         CreateService, ReplicaReady, ScaleByHand, Reprovision, vars

\* Every step keeps the record a parking decision is judged by.
LEMMA NextPark ==
    ASSUME ParksUnwindowed
    PROVE  ParkInv /\ [Next]_vars => ParkInv'
<1> SUFFICES ASSUME ParkInv, [Next]_vars PROVE CountIsCurrent' /\ IdleIsRecorded'
  BY NextType, NextBlank DEF ParkInv
<1>2. CASE UNCHANGED vars
  BY <1>2 DEF vars, ParkInv, CountIsCurrent, IdleIsRecorded
<1>3. CASE System /\ Publish /\ Observe(FALSE)
  <2>2. CASE UNCHANGED <<object, asked, replicas>>
    BY <1>3, <2>2, OthersKeepPark
  <2>3. ASSUME NEW t \in Triggers, Ask(t) PROVE CountIsCurrent' /\ IdleIsRecorded'
    BY <1>3, <2>3, AskRecords
  <2>4. CASE asked' = Asking
    BY <2>4, NothingAsked
  <2>5. CASE HPA \/ HPABounds
    BY <1>3, <2>5, HPANeverParks, OthersKeepPark, Counts DEF ParkInv
  <2> QED
    BY <1>3, <2>2, <2>3, <2>4, <2>5
       DEF System, KEDA, Cluster, Scrape, Outage, Load, CreateService, ReplicaReady,
           Reprovision, Decide
<1>4. ASSUME NEW n \in ByHand, ScaleByHand(n), Observe(TRUE)
      PROVE  CountIsCurrent' /\ IdleIsRecorded'
  BY <1>4, HandKeepsPark DEF ScaleByHand
<1>5. CASE Deliver /\ Observe(FALSE)
  BY <1>5, OthersKeepPark DEF Deliver
<1> QED
  BY <1>2, <1>3, <1>4, <1>5 DEF Next

\* A poll parks only when each of its deactivating metrics was seen idle in it.
LEMMA DecideParksIdle ==
    ASSUME ParkInv, ~ misled, Decide, replicas > 0, replicas' = 0
    PROVE  \A m \in Deactivating(object.rules) : m \in idleSeen
<1>1. /\ object.min = 0
      /\ ~ (Signal(object, Given(asked)) > 0)
      /\ \A t \in Triggers : asked[t] # Unread
  <2>1. 0 # Larger(object.min, 1) /\ replicas # 0
    BY Counts, WakeCount DEF ParkInv
  <2> QED
    BY <2>1 DEF Decide, ScaleTo, workload
<1>2. asked[ReplicaCount] # 0
  BY Counts DEF ParkInv, CountIsCurrent
<1>3. Signal(object, Given(asked)) = NonZeroBranch(object, Given(asked))
  BY <1>1, <1>2 DEF Signal, Given
<1>4. Idle(object.rules, Given(asked).value)
  BY <1>1, <1>3 DEF NonZeroBranch, AlwaysOn, ScaleUp, ScaleDown, Hold
<1>5. ASSUME NEW m \in Deactivating(object.rules)
      PROVE  m \in idleSeen
  <2>1. m \in Metrics /\ m \in Triggers
    BY DEF Deactivating, Triggers
  <2>2. asked[m] <= object.rules[m].deactivation
    BY <1>4, <2>1 DEF Idle, Given
  <2> QED
    BY <1>1, <2>1, <2>2 DEF ParkInv, IdleIsRecorded
<1> QED
  BY <1>5

\* No step parks a workload that some deactivating metric was not seen idle for.
LEMMA StepParksIdle == ParkInv /\ [Next]_vars => ParkStep
<1> SUFFICES ASSUME ParkInv, [Next]_vars, asked # asked', ~ misled,
                    replicas > 0, replicas' = 0
             PROVE  \A m \in Deactivating(object.rules) : m \in idleSeen
  BY DEF ParkStep
<1>1. CASE Decide
  BY <1>1, DecideParksIdle
<1>2. CASE HPA \/ HPABounds
  BY <1>2, HPANeverParks DEF ParkInv
<1>3. replicas # replicas'
  BY Counts DEF ParkInv
<1> QED
  BY <1>1, <1>2, <1>3
     DEF Next, Deliver, System, KEDA, Cluster, Scrape, Outage, Ask, Load, CreateService,
         ReplicaReady, ScaleByHand, Reprovision, vars, workload

\* As long as no parking depends on a windowed average, KEDA parks the workload only
\* if every metric with a deactivation threshold was truly idle when the evaluation asked
\* for it, or the evaluation was misled by scaling by hand or by an informer that
\* showed no backend although there was one: for every accepted configuration and every
\* interleaving of the answers with scrapes, outages, deliveries, the HPA and changes
\* of configuration.
THEOREM ParksOnlyIdle ==
    ASSUME ParksUnwindowed
    PROVE  Spec => BusyIsNotParked
<1>1. Init => ParkInv
  BY InitType, NothingAsked, LoopAssumption DEF ParkInv, BlankIsWindowed, Init
<1>2. ParkInv /\ [Next]_vars => ParkInv'
  BY NextPark
<1>3. ParkInv /\ [Next]_vars => ParkStep
  BY StepParksIdle
<1> QED
  BY <1>1, <1>2, <1>3, PTL DEF Spec, BusyIsNotParked
===============================================================================
