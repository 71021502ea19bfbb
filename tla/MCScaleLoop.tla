------------------------------ MODULE MCScaleLoop ------------------------------
(* The README's scale-to-zero example: a router queue and running requests. *)
EXTENDS ScaleLoop

CONSTANTS queue, running

QueueAndRunning == {queue, running}
TwoThresholds == {0, 1}

NoThresholds == [source |-> "epp", up |-> Unset, down |-> Unset,
                 activation |-> Unset, deactivation |-> Unset]

Edge(source, activation) ==
    [NoThresholds EXCEPT !.source = source, !.activation = activation, !.deactivation = 0]

WithBand(rule, bound) == [rule EXCEPT !.up = bound, !.down = bound]

\* The router queue wakes the workload above activation and parks it at 0.
ToZero(max, activation) ==
    [min |-> 0, max |-> max,
     rules |-> [m \in Metrics |->
         IF m = queue THEN Edge("epp", activation) ELSE WithBand(Edge("modelpod", Unset), 1)]]

KeepOne(max) ==
    [min |-> 1, max |-> max,
     rules |-> [m \in Metrics |->
         WithBand([NoThresholds EXCEPT !.source = IF m = queue THEN "epp" ELSE "modelpod"], 1)]]

UpToOne == {ToZero(1, 0)}
UpToThree == {ToZero(3, 0), KeepOne(2)}

\* Idle, and more than one replica is meant to carry.
TwoLevels == {0, 2}
Nothing == {}
OnlyRunning == {running}
Off == {0}
===============================================================================
