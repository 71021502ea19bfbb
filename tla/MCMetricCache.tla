---------------------------- MODULE MCMetricCache ----------------------------
(* Small instances of MetricCache. *)
EXTENDS MetricCache, TLC

CONSTANTS k1, k2, s1, h1, h2

OneKey == {k1}
TwoKeys == {k1, k2}
OneSet == {s1}
OneHandler == {h1}
TwoHandlers == {h1, h2}

OwnerOfOne == [k \in OneKey |-> s1]
OwnerOfTwo == [k \in TwoKeys |-> s1]

NarrowWindow == {2}
SmallWindow == {1}
TwoWindows == {2, 4}

HandlerSymmetry == Permutations(Handlers)
===============================================================================
