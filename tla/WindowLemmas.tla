----------------------------- MODULE WindowLemmas -----------------------------
(***************************************************************************)
(* What the scans of pkg/scaler/metric_cache.go return, for every history, *)
(* ordered or not, and every window.                                       *)
(***************************************************************************)
EXTENDS MetricWindow, WellFoundedInduction, TLAPS

\* A non-empty set of natural numbers has a least element.
LEMMA LeastElement ==
  ASSUME NEW T \in SUBSET Nat, T # {}
  PROVE  \E m \in T : \A k \in T : m <= k
<1>1. PICK m \in T : \A k \in T : <<k, m>> \notin OpToRel(<, Nat)
  BY NatLessThanWellFounded, WFMin, Zenon
<1>2. \A k \in T : ~ (k < m)
  BY <1>1, Zenon DEF OpToRel
<1> QED
  BY <1>2

\* pruneSamples' loop stops: its index exists and is one of the history's.
LEMMA PruneFromSpec ==
  ASSUME NEW ats \in Seq(Int), Len(ats) >= 1, NEW now \in Int, NEW window \in Int
  PROVE  LET f == PruneFrom(ats, now, window)
         IN  /\ f \in 1..Len(ats)
             /\ \A g \in 2..f : ats[g] <= now - window
             /\ f = Len(ats) \/ ats[f + 1] > now - window
<1> DEFINE T == {f \in 1..Len(ats) : f = Len(ats) \/ ats[f + 1] > now - window}
<1>1. T \in SUBSET Nat /\ T # {}
  <2>1. Len(ats) \in T
    OBVIOUS
  <2> QED
    BY <2>1
<1>2. PICK f \in T : \A k \in T : f <= k
  <2> HIDE DEF T
  <2> QED
    BY <1>1, LeastElement
<1>3. \A g \in 2..f : ats[g] <= now - window
  <2> SUFFICES ASSUME NEW g \in 2..f PROVE ats[g] <= now - window
    OBVIOUS
  <2>1. g - 1 \in 1..Len(ats) /\ g \in 1..Len(ats) /\ ~ (f <= g - 1)
    OBVIOUS
  <2>2. ats[g] \in Int
    BY <2>1
  <2>3. ats[g] > now - window => g - 1 \in T
    BY <2>1
  <2> HIDE DEF T
  <2> QED
    BY <1>2, <2>1, <2>2, <2>3
<1> QED
  BY <1>2, <1>3 DEF PruneFrom

\* pruneSamples drops a prefix, never the newest sample; the first sample it
\* leaves, if it dropped any, and every dropped one, is at or before the cutoff,
\* the second sample it leaves is not.
LEMMA PruneSamplesSpec ==
  ASSUME NEW ats \in Seq(Nat), Len(ats) >= 1, NEW now \in Int, NEW window \in Int
  PROVE  \E d \in 0..(Len(ats) - 1) :
           LET s == PruneSamples(ats, now, window)
           IN  /\ s \in Seq(Nat)
               /\ Len(s) = Len(ats) - d
               /\ \A i \in 1..Len(s) : s[i] = ats[d + i]
               /\ d > 0 => \A g \in 2..(d + 1) : ats[g] <= now - window
               /\ Len(s) >= 2 => s[2] > now - window
<1>1. CASE Len(ats) <= 1
  BY <1>1 DEF PruneSamples
<1>2. CASE Len(ats) > 1
  <2> DEFINE f == PruneFrom(ats, now, window)
  <2>1. ats \in Seq(Int)
    OBVIOUS
  <2>2. /\ f \in 1..Len(ats)
        /\ \A g \in 2..f : ats[g] <= now - window
        /\ f = Len(ats) \/ ats[f + 1] > now - window
    BY <2>1, PruneFromSpec
  <2> DEFINE s == SubSeq(ats, f, Len(ats))
  <2>3. PruneSamples(ats, now, window) = s
    <3>1. ~ (Len(ats) <= 1)
      BY <1>2
    <3> QED
      BY <3>1, Zenon DEF PruneSamples
  <2> HIDE DEF f
  <2>4. s \in Seq(Nat) /\ Len(s) = Len(ats) - (f - 1)
    BY <2>2
  <2>5. \A i \in 1..Len(s) : s[i] = ats[(f - 1) + i]
    BY <2>2, <2>4
  <2>6. Len(s) >= 2 => s[2] > now - window
    BY <2>2, <2>4, <2>5
  <2>7. f - 1 \in 0..(Len(ats) - 1)
    BY <2>2
  <2> HIDE DEF s
  <2>8. \A g \in 2..((f - 1) + 1) : ats[g] <= now - window
    BY <2>2
  <2> QED
    BY <2>3, <2>4, <2>5, <2>6, <2>7, <2>8
<1> QED
  BY <1>1, <1>2

\* windowBaseline's loop stops: its index exists ...
LEMMA BoundarySpec ==
  ASSUME NEW ats \in Seq(Nat), Len(ats) >= 1, NEW window \in Int
  PROVE  LET n == Boundary(ats, window)
         IN  /\ n \in 0..(Len(ats) - 1)
             /\ \A g \in 1..n : ats[g] <= Newest(ats) - window
             /\ n = Len(ats) - 1 \/ ats[n + 1] > Newest(ats) - window
<1> DEFINE cutoff == Newest(ats) - window
           T == {n \in 0..(Len(ats) - 1) : n = Len(ats) - 1 \/ ats[n + 1] > cutoff}
<1>0. cutoff \in Int
  BY DEF Newest
<1> HIDE DEF cutoff
<1>1. T \in SUBSET Nat /\ T # {}
  <2>1. Len(ats) - 1 \in T
    OBVIOUS
  <2>2. T \subseteq 0..(Len(ats) - 1)
    OBVIOUS
  <2> HIDE DEF T
  <2> QED
    BY <2>1, <2>2
<1>2. PICK n \in T : \A k \in T : n <= k
  <2> HIDE DEF T
  <2> QED
    BY <1>1, LeastElement
<1>3. \A g \in 1..n : ats[g] <= cutoff
  <2> SUFFICES ASSUME NEW g \in 1..n PROVE ats[g] <= cutoff
    OBVIOUS
  <2>1. g - 1 \in 0..(Len(ats) - 1) /\ g \in 1..Len(ats) /\ ~ (n <= g - 1)
    OBVIOUS
  <2>2. ats[g] \in Int
    BY <2>1
  <2>3. ats[g] > cutoff => g - 1 \in T
    BY <2>1
  <2> HIDE DEF T
  <2> QED
    BY <1>0, <1>2, <2>1, <2>2, <2>3
<1> QED
  BY <1>2, <1>3 DEF Boundary, cutoff

\* ... and it is the only one.
LEMMA BoundaryUnique ==
  ASSUME NEW ats \in Seq(Nat), Len(ats) >= 1, NEW window \in Int,
         NEW n \in 0..(Len(ats) - 1),
         \A g \in 1..n : ats[g] <= Newest(ats) - window,
         n = Len(ats) - 1 \/ ats[n + 1] > Newest(ats) - window
  PROVE  Boundary(ats, window) = n
<1> DEFINE m == Boundary(ats, window)
<1>1. /\ m \in 0..(Len(ats) - 1)
      /\ \A g \in 1..m : ats[g] <= Newest(ats) - window
      /\ m = Len(ats) - 1 \/ ats[m + 1] > Newest(ats) - window
  BY BoundarySpec
<1>2. Newest(ats) \in Nat /\ \A g \in 1..Len(ats) : ats[g] \in Nat
  BY DEF Newest
<1> HIDE DEF m
<1>3. ~ (m < n)
  <2> SUFFICES ASSUME m < n PROVE FALSE
    OBVIOUS
  <2>1. m + 1 \in 1..n /\ m + 1 \in 1..Len(ats) /\ m # Len(ats) - 1
    BY <1>1
  <2> QED
    BY <1>1, <1>2, <2>1
<1>4. ~ (n < m)
  <2> SUFFICES ASSUME n < m PROVE FALSE
    OBVIOUS
  <2>1. n + 1 \in 1..m /\ n + 1 \in 1..Len(ats) /\ n # Len(ats) - 1
    BY <1>1
  <2> QED
    BY <1>1, <1>2, <2>1
<1> QED
  BY <1>1, <1>3, <1>4 DEF m

\* The average never reaches further back than its window and staleAfter more.
LEMMA BaselineSpan ==
  ASSUME NEW ats \in Seq(Nat), Len(ats) >= 2, NEW window \in Nat
  PROVE  /\ WindowBaseline(ats, window) \in Nat
         /\ Newest(ats) - WindowBaseline(ats, window) <= window + StaleAfter
<1> USE StaleAfterAssumption
<1> DEFINE n == Boundary(ats, window)
<1>1. /\ n \in 0..(Len(ats) - 1)
      /\ \A g \in 1..n : ats[g] <= Newest(ats) - window
      /\ n = Len(ats) - 1 \/ ats[n + 1] > Newest(ats) - window
  <2>1. window \in Int /\ Len(ats) >= 1
    OBVIOUS
  <2> HIDE DEF n
  <2> QED
    BY <2>1, BoundarySpec DEF n
<1>2. Newest(ats) \in Nat /\ \A g \in 1..Len(ats) : ats[g] \in Nat
  BY DEF Newest
<1>3. n + 1 \in 1..Len(ats) /\ (n > 0 => n \in 1..Len(ats)) /\ 1 \in 1..Len(ats)
  BY <1>1
<1>4. Newest(ats) - ats[n + 1] <= window
  <2>1. CASE n = Len(ats) - 1
    BY <1>1, <1>2, <2>1 DEF Newest
  <2>2. CASE ats[n + 1] > Newest(ats) - window
    BY <1>2, <1>3, <2>2
  <2> QED
    BY <1>1, <2>1, <2>2
<1>5. WindowBaseline(ats, window) =
         CASE n = 0 -> ats[1]
           [] n > 0 /\ Newest(ats) - ats[n] > window + StaleAfter -> ats[n + 1]
           [] OTHER -> ats[n]
  BY DEF WindowBaseline
<1> HIDE DEF n
<1>6. CASE n = 0
  <2>1. WindowBaseline(ats, window) = ats[n + 1]
    BY <1>5, <1>6
  <2> QED
    BY <1>2, <1>3, <1>4, <2>1
<1>7. CASE n > 0 /\ Newest(ats) - ats[n] > window + StaleAfter
  <2>1. WindowBaseline(ats, window) = ats[n + 1]
    BY <1>1, <1>5, <1>7
  <2> QED
    BY <1>2, <1>3, <1>4, <2>1
<1>8. CASE n > 0 /\ ~ (Newest(ats) - ats[n] > window + StaleAfter)
  <2>1. WindowBaseline(ats, window) = ats[n]
    BY <1>1, <1>5, <1>8
  <2> QED
    BY <1>2, <1>3, <1>8, <2>1
<1> QED
  BY <1>1, <1>6, <1>7, <1>8
===============================================================================
