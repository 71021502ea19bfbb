----------------------------- MODULE MetricWindow -----------------------------
(***************************************************************************)
(* The pure part of the metric cache's rolling window                      *)
(* (pkg/scaler/metric_cache.go): how the history of one scrape target is   *)
(* pruned, which snapshot the windowed average is measured from, and when  *)
(* the average may be served at all.                                       *)
(*                                                                         *)
(* A history is the sequence of the times its snapshots were taken at, in  *)
(* the order they were appended; the code's 0-based indexes are 1-based    *)
(* here.  Nothing below assumes that the times increase: the code appends  *)
(* in lock order, not in time order.                                       *)
(***************************************************************************)
EXTENDS Integers, Sequences

CONSTANT StaleAfter   \* MetricCache.staleAfter, in clock units

ASSUME StaleAfterAssumption == StaleAfter \in Nat

Newest(ats) == ats[Len(ats)]

\* Faulty: only snapshots inside the window are left, no baseline.
PruneFromInside(ats, now, window) ==
    CHOOSE f \in 1..Len(ats) :
        /\ \A g \in 1..(f - 1) : ats[g] <= now - window
        /\ f = Len(ats) \/ ats[f] > now - window

\* The newest snapshot at or before now - window, or the first snapshot: the
\* one snapshot that old which a later average may still be measured from.
PruneFrom(ats, now, window) ==
    CHOOSE f \in 1..Len(ats) :
        /\ \A g \in 2..f : ats[g] <= now - window
        /\ f = Len(ats) \/ ats[f + 1] > now - window

\* Faulty: one snapshot too many is left.
PruneSamplesLate(ats, now, window) ==
    IF Len(ats) <= 1 \/ PruneFrom(ats, now, window) = 1 THEN ats
    ELSE SubSeq(ats, PruneFrom(ats, now, window) - 1, Len(ats))

PruneSamples(ats, now, window) ==
    IF Len(ats) <= 1 THEN ats
    ELSE SubSeq(ats, PruneFrom(ats, now, window), Len(ats))

\* The number of the snapshot at the window's boundary; 0 when there is none.
Boundary(ats, window) ==
    CHOOSE n \in 0..(Len(ats) - 1) :
        /\ \A g \in 1..n : ats[g] <= Newest(ats) - window
        /\ n = Len(ats) - 1 \/ ats[n + 1] > Newest(ats) - window

\* Faulty: the average reaches back to any boundary snapshot, however old.
WindowBaselineUnbounded(ats, window) ==
    LET n == Boundary(ats, window)
    IN  IF n = 0 THEN ats[1] ELSE ats[n]

\* Faulty: the baseline is the oldest snapshot strictly inside the window.
WindowBaselineInside(ats, window) == ats[Boundary(ats, window) + 1]

\* The time of the snapshot the average over window is measured from.
WindowBaseline(ats, window) ==
    LET n == Boundary(ats, window)
    IN  CASE n = 0 -> ats[1]
          [] n > 0 /\ Newest(ats) - ats[n] > window + StaleAfter -> ats[n + 1]
          [] OTHER -> ats[n]

\* The coverage gate: enough of the window lies between baseline and newest.
WindowCovered(ats, window) ==
    /\ Len(ats) >= 2
    /\ Newest(ats) - WindowBaseline(ats, window) >= (window * 4) \div 5
===============================================================================
