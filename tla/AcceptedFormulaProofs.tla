------------------------- MODULE AcceptedFormulaProofs -------------------------
(***************************************************************************)
(* For every number of metrics and every thresholds: what the formula of   *)
(* an accepted configuration can and cannot decide.                        *)
(***************************************************************************)
EXTENDS AcceptedFormula, TLAPS

\* An edge threshold that is declared is a number.
LEMMA DeclaredIsNumber ==
    ASSUME NEW rule \in Rule
    PROVE  /\ rule.up # Unset => rule.up \in Int
           /\ rule.down # Unset => rule.down \in Int
           /\ rule.activation # Unset => rule.activation \in Int
           /\ rule.deactivation # Unset => rule.deactivation \in Int
BY ThresholdAssumption DEF Rule, Threshold

\* Hysteresis: a reading that wakes is never a reading that is idle.
LEMMA WokenIsNotIdle ==
    ASSUME NEW c \in Config, ConfigValid(c), c.min = 0,
           NEW v \in [Metrics -> Nat], Woken(c.rules, v)
    PROVE  ~ Idle(c.rules, v)
<1>1. PICK m \in Activating(c.rules) : v[m] > c.rules[m].activation
  BY DEF Woken
<1>2. m \in Metrics /\ c.rules[m] \in Rule /\ c.rules[m].activation # Unset
  BY <1>1 DEF Activating, Config
<1>3. EdgeValid(c.rules[m])
  BY <1>2 DEF ConfigValid, RuleValid
<1>4. /\ c.rules[m].deactivation # Unset
      /\ c.rules[m].deactivation <= c.rules[m].activation
  BY <1>2, <1>3 DEF EdgeValid
<1>5. c.rules[m].activation \in Int /\ c.rules[m].deactivation \in Int
  BY <1>2, <1>4, DeclaredIsNumber
<1>6. v[m] \in Nat /\ ~ (v[m] <= c.rules[m].deactivation)
  BY <1>1, <1>2, <1>4, <1>5
<1> QED
  BY <1>2, <1>4, <1>6 DEF Idle, Deactivating

\* Only the idle predicate parks a running workload.
LEMMA ParkingIsIdle ==
    ASSUME NEW c \in Config, NEW r \in Reading, c.min = 0, r.replicas > 0,
           Signal(c, r) = Deactivate
    PROVE  Idle(c.rules, r.value)
BY DEF Signal, NonZeroBranch, AlwaysOn, Deactivate, Hold, ScaleUp, ScaleDown, Config, Reading

\* The controller starts from a configuration that parseConfig accepted.
LEMMA InitAccepted == Init => TypeOK
<1> SUFFICES ASSUME Init PROVE TypeOK
  OBVIOUS
<1>1. PICK c \in Proposed : BuildDesired(c)
  BY DEF Init
<1>2. object = c /\ ConfigValid(object)
  BY <1>1 DEF BuildDesired
<1>3. object \in Config
  BY <1>1, <1>2, LevelAssumption DEF Proposed, Config
<1>4. PICK v \in [Metrics -> Levels] : reading = [value |-> v, gate |-> 1, replicas |-> 0]
  BY DEF Init
<1>5. reading \in Reading
  BY <1>4, LevelAssumption DEF Reading
<1> QED
  BY <1>2, <1>3, <1>5 DEF TypeOK

\* A replaced configuration is accepted by parseConfig too.
LEMMA NextAccepted == TypeOK /\ [Next]_vars => TypeOK'
<1> SUFFICES ASSUME TypeOK, [Next]_vars PROVE TypeOK'
  OBVIOUS
<1> USE DEF TypeOK
<1>1. CASE UNCHANGED vars
  BY <1>1 DEF vars, ConfigValid
<1>2. CASE Next
  <2>1. object' = object /\ ConfigValid(object')
    BY <1>2 DEF Next
  <2>2. ASSUME NEW m \in Metrics, NEW v \in Levels, ReportMetric(m, v)
        PROVE  reading' \in Reading
    BY <2>2, LevelAssumption DEF ReportMetric, Reading
  <2>3. ASSUME NEW g \in {0, 1}, ReportGate(g)
        PROVE  reading' \in Reading
    BY <2>3 DEF ReportGate, Reading
  <2>4. ASSUME NEW n \in 0..MaxReplicas, ReportReplicas(n)
        PROVE  reading' \in Reading
    BY <2>4, LevelAssumption DEF ReportReplicas, Reading
  <2> QED
    BY <1>2, <2>1, <2>2, <2>3, <2>4 DEF Next
<1> QED
  BY <1>1, <1>2

\* The configuration in force stays an accepted one, and readings have their type: a
\* gate is 0 or 1, and neither a metric nor a replica count is ever negative.
THEOREM TypeCorrect == Spec => []TypeOK
BY InitAccepted, NextAccepted, PTL DEF Spec

\* Whatever wakes the workload under accepted rules keeps it from parking.
LEMMA AcceptedVetoes == TypeOK => DemandVetoesParking
BY WokenIsNotIdle, ParkingIsIdle DEF TypeOK, DemandVetoesParking, Running, Reading

\* Whatever the metrics, their thresholds and the bounds are: a load that wakes the
\* parked workload never parks the running one.
THEOREM NoFlapping == Spec => []DemandVetoesParking
BY TypeCorrect, AcceptedVetoes, PTL

\* Accepted rules park only on a metric read from the running pods.
LEMMA AcceptedSeesBackend == TypeOK => ParkingSeesBackend
<1> SUFFICES ASSUME TypeOK, Running, Signal(object, reading) = Deactivate
             PROVE  \E m \in Metrics :
                        /\ object.rules[m].source = "modelpod"
                        /\ object.rules[m].deactivation # Unset
                        /\ reading.value[m] <= object.rules[m].deactivation
  BY DEF ParkingSeesBackend
<1>1. Idle(object.rules, reading.value)
  BY ParkingIsIdle DEF TypeOK, Running
<1>2. PICK m \in Deactivating(object.rules) : object.rules[m].source = "modelpod"
  BY DEF TypeOK, Running, ConfigValid, ActivationRulesValid
<1> QED
  BY <1>1, <1>2 DEF Idle, Deactivating

\* Parking always rests on a metric of the model pods that was read idle.
THEOREM BackendIsSeen == Spec => []ParkingSeesBackend
BY TypeCorrect, AcceptedSeesBackend, PTL

\* Under accepted rules no reading asks for more and for fewer replicas at once.
LEMMA AcceptedBandsExclude == TypeOK => GrowthExcludesShrinking
<1> SUFFICES ASSUME TypeOK,
                    Overloaded(object.rules, reading.value, reading.gate),
                    Underloaded(object.rules, reading.value)
             PROVE  FALSE
  BY DEF GrowthExcludesShrinking
<1>1. PICK m \in Banded(object.rules) : TRUE
  BY DEF Underloaded
<1>2. m \in Metrics /\ object.rules[m] \in Rule /\ HasBand(object.rules[m])
  BY <1>1 DEF Banded, TypeOK, Config
<1>3. object.rules[m].down <= object.rules[m].up
  BY <1>2 DEF TypeOK, ConfigValid, RuleValid, BandValid
<1>4. object.rules[m].up \in Int /\ object.rules[m].down \in Int
  BY <1>2, DeclaredIsNumber DEF HasBand
<1>5. reading.value[m] > object.rules[m].up /\ reading.value[m] < object.rules[m].down
  BY <1>1 DEF Overloaded, Underloaded
<1>6. reading.value[m] \in Nat
  BY <1>2 DEF TypeOK, Reading
<1> QED
  BY <1>3, <1>4, <1>5, <1>6

\* No reading calls for more and for fewer replicas at once.
THEOREM GrowthAndShrinkingExclude == Spec => []GrowthExcludesShrinking
BY TypeCorrect, AcceptedBandsExclude, PTL

\* Every accepted scale-to-zero configuration has a load that wakes it.
LEMMA AcceptedWakes == TypeOK /\ Levels = Nat /\ object.min = 0 => CanWake
<1> SUFFICES ASSUME TypeOK, Levels = Nat, object.min = 0
             PROVE  \E v \in [Metrics -> Levels] : Signal(object, WithValue(v, 0)) = Activate
  BY DEF CanWake
<1> DEFINE rules == object.rules
           Above(n) == IF n < 0 THEN 0 ELSE n + 1
           high == [m \in Metrics |-> IF rules[m].activation = Unset THEN 0
                                      ELSE Above(rules[m].activation)]
<1>1. \A m \in Metrics : rules[m] \in Rule
  BY DEF TypeOK, Config
<1>2. \A n \in Int : Above(n) \in Nat /\ Above(n) > n
  OBVIOUS
<1> HIDE DEF Above
<1>3. high \in [Metrics -> Levels]
  BY <1>1, <1>2, DeclaredIsNumber
<1>4. PICK m \in Activating(rules) : TRUE
  BY DEF TypeOK, ConfigValid, ActivationRulesValid
<1>5. m \in Metrics /\ rules[m].activation # Unset /\ rules[m].activation \in Int
  BY <1>1, <1>4, DeclaredIsNumber DEF Activating
<1>6. high[m] > rules[m].activation
  BY <1>2, <1>5
<1>7. Woken(rules, high)
  BY <1>4, <1>6 DEF Woken
<1> HIDE DEF high
<1>8. WithValue(high, 0).value = high /\ WithValue(high, 0).replicas = 0
  BY DEF WithValue, TypeOK, Reading
<1>9. Signal(object, WithValue(high, 0)) = Activate
  BY <1>7, <1>8 DEF Signal, ZeroBranch
<1> QED
  BY <1>3, <1>9

\* A load parks it exactly if no deactivation threshold is negative: that of nothing
\* going on, which no threshold of 0 or more lies below.
LEMMA AcceptedParks ==
    TypeOK /\ Levels = Nat /\ object.min = 0 =>
        (CanPark <=> \A m \in Deactivating(object.rules) :
                        object.rules[m].deactivation >= 0)
<1> SUFFICES ASSUME TypeOK, Levels = Nat, object.min = 0
             PROVE  CanPark <=> \A m \in Deactivating(object.rules) :
                                   object.rules[m].deactivation >= 0
  OBVIOUS
<1> DEFINE rules == object.rules
           low == [m \in Metrics |-> 0]
<1>1. \A m \in Deactivating(rules) : m \in Metrics /\ rules[m].deactivation \in Int
  BY DeclaredIsNumber DEF Deactivating, TypeOK, Config
<1>2. \A v \in [Metrics -> Levels] :
         /\ WithValue(v, 1).value = v
         /\ WithValue(v, 1).replicas = 1
         /\ WithValue(v, 1) \in Reading
  BY DEF WithValue, TypeOK, Reading
<1>3. ASSUME NEW v \in [Metrics -> Levels], Signal(object, WithValue(v, 1)) = Deactivate,
             NEW m \in Deactivating(rules)
      PROVE  rules[m].deactivation >= 0
  <2>1. Idle(rules, v)
    BY <1>2, <1>3, ParkingIsIdle DEF TypeOK
  <2>2. v[m] <= rules[m].deactivation
    BY <2>1 DEF Idle
  <2> QED
    BY <1>1, <2>2
<1>4. ASSUME \A m \in Deactivating(rules) : rules[m].deactivation >= 0
      PROVE  CanPark
  <2>1. low \in [Metrics -> Levels]
    OBVIOUS
  <2>2. Deactivating(rules) # {}
    BY DEF TypeOK, ConfigValid, ActivationRulesValid
  <2>3. Idle(rules, low)
    BY <1>1, <1>4, <2>2 DEF Idle
  <2> HIDE DEF low
  <2>4. Signal(object, WithValue(low, 1)) = Deactivate
    BY <1>2, <2>1, <2>3, 1 # 0 DEF Signal, NonZeroBranch
  <2> QED
    BY <2>1, <2>4 DEF CanPark
<1> QED
  BY <1>3, <1>4 DEF CanPark

\* When the metrics have any value from 0 up, every accepted scale-to-zero
\* configuration has a load that wakes the workload, and it has one that parks it
\* exactly if it declares no negative deactivation threshold.
THEOREM NoTrap ==
    ASSUME Levels = Nat
    PROVE  Spec => []CanWakeAndPark
<1>1. TypeOK => CanWakeAndPark
  BY AcceptedWakes, AcceptedParks DEF CanWakeAndPark
<1> QED
  BY <1>1, TypeCorrect, PTL
===============================================================================
