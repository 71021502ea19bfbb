---------------------------- MODULE MCFleetMetrics ----------------------------
(* Two replicas that take fast and slow requests. *)
EXTENDS FleetMetrics, TLC

CONSTANTS r1, r2

TwoReplicas == {r1, r2}
FastAndSlow == {1, 3}
ReplicaSymmetry == Permutations(Replicas)
===============================================================================
