---------------------------- MODULE SampleHistory ----------------------------
(***************************************************************************)
(* One entry of the metric cache over time: refresh appends a snapshot and *)
(* prunes, ensure widens the window (pkg/scaler/metric_cache.go).  The     *)
(* pruned samples are compared with the whole history since the entry was  *)
(* created, which the code does not keep.                                  *)
(*                                                                         *)
(* Snapshots arrive here in the order of their times, as they do whenever  *)
(* refresh is not overtaken between its clock reading and its lock;        *)
(* MetricCache is about the interleavings where it is.                     *)
(***************************************************************************)
EXTENDS MetricWindow

CONSTANTS
    Windows,      \* the windows triggers ask for
    MaxTime,      \* bound on the clock
    MaxSnapshots  \* bound on the length of the history

ASSUME HistoryAssumption ==
    /\ Windows \subseteq Nat \ {0}
    /\ MaxTime \in Nat
    /\ MaxSnapshots \in Nat

VARIABLES
    kept,      \* cacheEntry.samples
    history,   \* every snapshot ever appended to the entry
    window,    \* cacheEntry.window
    narrowest  \* the window the entry was created with

vars == <<kept, history, window, narrowest>>

Init ==
    /\ kept = << >>
    /\ history = << >>
    /\ window \in Windows
    /\ narrowest = window

\* Faulty: the windows add up instead of the larger one winning.
WidenByAdding(w) ==
    /\ w > window
    /\ window' = window + w
    /\ UNCHANGED <<kept, history, narrowest>>

\* ensure: a trigger with a larger window shares the target.
Widen(w) ==
    /\ w > window
    /\ window' = w
    /\ UNCHANGED <<kept, history, narrowest>>

\* refresh: a snapshot taken at t is appended and the history pruned.
Snapshot(t) ==
    /\ Len(history) < MaxSnapshots
    /\ history # << >> => t >= Newest(history)
    /\ history' = Append(history, t)
    /\ kept' = PruneSamples(Append(kept, t), t, window)
    /\ UNCHANGED <<window, narrowest>>

Next ==
    \/ \E w \in Windows : Widen(w)
    \/ \E t \in 0..MaxTime : Snapshot(t)

Spec == Init /\ [][Next]_vars

-----------------------------------------------------------------------------

\* Every variable has its type.
TypeOK ==
    /\ kept \in Seq(Nat)
    /\ history \in Seq(Nat)
    /\ window \in Windows
    /\ narrowest \in Windows

\* Pruning is invisible: a trigger whose window the entry always covered is
\* answered as if nothing had ever been dropped, with the same coverage verdict
\* and the same baseline, however the window was widened in between.
PruningIsInvisible ==
    \A w \in Windows :
        (w <= narrowest /\ history # << >>) =>
            /\ WindowCovered(kept, w) <=> WindowCovered(history, w)
            /\ Newest(kept) = Newest(history)
            /\ WindowBaseline(kept, w) = WindowBaseline(history, w)

\* What pruning leaves is bounded by the window: all samples but the baseline lie
\* strictly inside it.
KeptIsBounded ==
    \A i \in 2..Len(kept) : kept[i] > Newest(kept) - window

\* No outage: consecutive samples are at most staleAfter apart.
Steady(ats) == \A i \in 1..(Len(ats) - 1) : ats[i + 1] - ats[i] <= StaleAfter

CoverageStep ==
    \A w \in Windows :
        (/\ w <= window
         /\ WindowCovered(kept, w)
         /\ history' # history
         /\ Steady(Append(kept, Newest(history'))))
        => WindowCovered(kept', w)

\* The coverage gate never closes again in steady state: once an average over w
\* is served, and while no two snapshots are further apart than staleAfter, the
\* next snapshot leaves it served, jitter and missed scrapes included.
CoverageIsStable == [][CoverageStep]_vars
===============================================================================
