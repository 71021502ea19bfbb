---------------------------- MODULE ScalingFormula ----------------------------
(***************************************************************************)
(* The decision rules of an auto-provisioned ScaledObject                  *)
(* (pkg/scaledobject/provisioner.go): which configurations are accepted,   *)
(* and the scalingModifiers formula that is built for an accepted one.     *)
(*                                                                         *)
(* A configuration is a record [min, max, rules]; rules gives every metric *)
(* its source and its four optional thresholds.  A reading is a record     *)
(* [value, gate, replicas]: what the triggers of the object report.  Names,*)
(* aggregations and the rendering of the formula are left out, and floats  *)
(* are integers: the formula only compares.                                *)
(***************************************************************************)
EXTENDS Integers

CONSTANTS
    Metrics,     \* the entries of the metrics annotation
    Thresholds,  \* values a threshold may have
    Unset        \* a threshold that is not declared

ASSUME ThresholdAssumption == Thresholds \subseteq Int

Threshold == Thresholds \cup {Unset}

Rule == [source : {"modelpod", "epp"}, up : Threshold, down : Threshold,
         activation : Threshold, deactivation : Threshold]

Config == [min : Nat, max : Nat \ {0}, rules : [Metrics -> Rule]]

\* The aggregators report no negative number.
Reading == [value : [Metrics -> Nat], gate : {0, 1}, replicas : Nat]

\* The formula's results, in halves: 2.0, 1.0, 0.5, and 1.0 and 0.0 at the
\* 0 <-> 1 edge, where only the activation target 0 matters.
ScaleUp == 4
Hold == 2
ScaleDown == 1
Activate == 2
Deactivate == 0

-----------------------------------------------------------------------------
(* Validation: parseMetricsConfig and validateActivationRules, and the     *)
(* controller's own check of the bounds.                                   *)

HasBand(rule) == rule.up # Unset /\ rule.down # Unset

\* Faulty: the bounds of a band are not compared.
BandValidUnordered(rule) == (rule.up = Unset) <=> (rule.down = Unset)

BandValid(rule) ==
    /\ (rule.up = Unset) <=> (rule.down = Unset)
    /\ HasBand(rule) => rule.down <= rule.up

\* Faulty: an activation threshold needs no deactivation threshold beside it.
EdgeValidUnpaired(rule) ==
    rule.activation # Unset =>
        /\ rule.source = "epp"
        /\ rule.deactivation # Unset => rule.deactivation <= rule.activation

EdgeValid(rule) ==
    rule.activation # Unset =>
        /\ rule.source = "epp"
        /\ rule.deactivation # Unset
        /\ rule.deactivation <= rule.activation

\* One entry: the band is mandatory, and the edge thresholds are forbidden,
\* unless the minimum is 0.
RuleValid(rule, min) ==
    /\ min # 0 => /\ HasBand(rule)
                  /\ rule.activation = Unset
                  /\ rule.deactivation = Unset
    /\ BandValid(rule)
    /\ EdgeValid(rule)
    /\ HasBand(rule) \/ rule.activation # Unset \/ rule.deactivation # Unset

Activating(rules) == {m \in Metrics : rules[m].activation # Unset}

Deactivating(rules) == {m \in Metrics : rules[m].deactivation # Unset}

Banded(rules) == {m \in Metrics : HasBand(rules[m])}

\* Faulty: any deactivation threshold will do, the router's own included.
ActivationRulesValidAnySource(rules) ==
    /\ Activating(rules) # {}
    /\ Deactivating(rules) # {}

\* Faulty: nothing has to be able to wake the workload.
ActivationRulesValidNoWake(rules) ==
    \E m \in Deactivating(rules) : rules[m].source = "modelpod"

ActivationRulesValid(rules) ==
    /\ Activating(rules) # {}
    /\ \E m \in Deactivating(rules) : rules[m].source = "modelpod"

BoundsValid(c) == c.min <= c.max

ConfigValid(c) ==
    /\ BoundsValid(c)
    /\ Metrics # {}
    /\ \A m \in Metrics : RuleValid(c.rules[m], c.min)
    /\ c.min = 0 => ActivationRulesValid(c.rules)

-----------------------------------------------------------------------------
(* The predicates of the formula.  An empty one never fires.               *)

\* Activation is an OR.
Woken(rules, value) == \E m \in Activating(rules) : value[m] > rules[m].activation

\* Deactivation is an AND.
Idle(rules, value) ==
    /\ Deactivating(rules) # {}
    /\ \A m \in Deactivating(rules) : value[m] <= rules[m].deactivation

\* The AND policy: the gate and every metric.
Overloaded(rules, value, gate) ==
    /\ gate = 1
    /\ \A m \in Banded(rules) : value[m] > rules[m].up

Underloaded(rules, value) ==
    /\ Banded(rules) # {}
    /\ \A m \in Banded(rules) : value[m] < rules[m].down

AlwaysOn(c, r) ==
    IF Overloaded(c.rules, r.value, r.gate) THEN ScaleUp
    ELSE IF Underloaded(c.rules, r.value) THEN ScaleDown
    ELSE Hold

ZeroBranch(c, r) == IF Woken(c.rules, r.value) THEN Activate ELSE Deactivate

\* With no 1 <-> N range nothing lies between parked and running.
NonZeroBranch(c, r) ==
    IF Idle(c.rules, r.value) THEN Deactivate
    ELSE IF c.max > 1 /\ Banded(c.rules) # {} THEN AlwaysOn(c, r)
    ELSE Hold

Signal(c, r) ==
    CASE c.min # 0 -> AlwaysOn(c, r)
      [] c.min = 0 /\ r.replicas = 0 -> ZeroBranch(c, r)
      [] OTHER -> NonZeroBranch(c, r)
===============================================================================
