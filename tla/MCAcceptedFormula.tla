--------------------------- MODULE MCAcceptedFormula ---------------------------
(* Two metrics with thresholds -1, 0 and 2, read at 0 to 3. *)
EXTENDS AcceptedFormula, TLC

CONSTANTS a, b

TwoMetrics == {a, b}
ThreeThresholds == {-1, 0, 2}
FourLevels == 0..3

MetricSymmetry == Permutations(Metrics)
===============================================================================
