---------------------------- MODULE AcceptedFormula ----------------------------
(***************************************************************************)
(* Every configuration that BuildDesired accepts, and every reading its    *)
(* triggers may report one after the other: what the formula of            *)
(* pkg/scaledobject/provisioner.go can and cannot decide.                  *)
(***************************************************************************)
EXTENDS ScalingFormula

CONSTANTS
    Levels,       \* bound: the values the metrics report
    MaxReplicas   \* bound on the maximum and on the replica count reported

ASSUME LevelAssumption == Levels \subseteq Nat /\ MaxReplicas \in Nat

VARIABLES
    object,   \* the provisioned ScaledObject
    reading   \* what its triggers report now

vars == <<object, reading>>

\* BuildDesired of an accepted configuration.
BuildDesired(c) == ConfigValid(c) /\ object = c

Proposed == [min : 0..1, max : 1..MaxReplicas, rules : [Metrics -> Rule]]

Init ==
    /\ \E c \in Proposed : BuildDesired(c)
    /\ \E v \in [Metrics -> Levels] :
           reading = [value |-> v, gate |-> 1, replicas |-> 0]

ReportMetric(m, v) == reading' = [reading EXCEPT !.value[m] = v]

\* Faulty: the gate reports how many replicas are ready.
ReportGateCount(g) == reading' = [reading EXCEPT !.gate = g * MaxReplicas]

ReportGate(g) == reading' = [reading EXCEPT !.gate = g]

ReportReplicas(n) == reading' = [reading EXCEPT !.replicas = n]

Next ==
    /\ \/ \E m \in Metrics, v \in Levels : ReportMetric(m, v)
       \/ \E g \in {0, 1} : ReportGate(g)
       \/ \E n \in 0..MaxReplicas : ReportReplicas(n)
    /\ UNCHANGED object

Spec == Init /\ [][Next]_vars

-----------------------------------------------------------------------------

\* The configuration in force is an accepted one, and the reading has its type.
TypeOK ==
    /\ object \in Config
    /\ ConfigValid(object)
    /\ reading \in Reading

Running == object.min = 0 /\ reading.replicas > 0

\* A running workload is never parked on a reading that would wake it if it were
\* parked: no configuration that is accepted makes parking and waking alternate
\* while the load stays the same.
DemandVetoesParking ==
    (Running /\ Woken(object.rules, reading.value)) => Signal(object, reading) # Deactivate

\* Parking is never decided on the router's view alone: some metric of the model
\* pods was read at or below the threshold declared for it.
ParkingSeesBackend ==
    (Running /\ Signal(object, reading) = Deactivate) =>
        \E m \in Metrics :
            /\ object.rules[m].source = "modelpod"
            /\ object.rules[m].deactivation # Unset
            /\ reading.value[m] <= object.rules[m].deactivation

\* The order of the two tests is irrelevant: no reading calls for more replicas
\* and for fewer at the same time.
GrowthExcludesShrinking ==
    ~ (/\ Overloaded(object.rules, reading.value, reading.gate)
       /\ Underloaded(object.rules, reading.value))

WithValue(v, n) == [reading EXCEPT !.value = v, !.replicas = n]

CanWake == \E v \in [Metrics -> Levels] : Signal(object, WithValue(v, 0)) = Activate

CanPark == \E v \in [Metrics -> Levels] : Signal(object, WithValue(v, 1)) = Deactivate

\* When every trigger answers, an accepted scale-to-zero configuration has a load that
\* wakes the parked workload, and it has a load that parks the running one unless it
\* declares a negative deactivation threshold, which no metric ever reaches.  (A
\* trigger that is always refused, as that of an accepted model pod gauge with "sum"
\* is, gives the formula no reading at all: ScalerAnswers has that case.)
CanWakeAndPark ==
    object.min = 0 =>
        /\ CanWake
        /\ CanPark <=> \A m \in Deactivating(object.rules) :
                           object.rules[m].deactivation >= 0
===============================================================================
