-------------------------- MODULE SampleHistoryProofs --------------------------
(***************************************************************************)
(* Proofs about SampleHistory: pruning is invisible and bounded, and the   *)
(* coverage gate is stable, for every set of windows and every history.    *)
(***************************************************************************)
EXTENDS SampleHistory, WindowLemmas, SequenceTheorems

Sorted(ats) == \A i, j \in 1..Len(ats) : i <= j => ats[i] <= ats[j]

\* s is what is left of ats after its first d samples.
IsTail(s, ats, d) ==
    /\ d \in 0..Len(ats)
    /\ Len(s) = Len(ats) - d
    /\ \A i \in 1..Len(s) : s[i] = ats[d + i]

\* Dropping d samples is harmless for windows up to w: the first sample left is
\* at or before their boundary.
Droppable(ats, d, w) ==
    d > 0 => d + 1 < Len(ats) /\ ats[d + 1] <= Newest(ats) - w

IndInv ==
    /\ TypeOK
    /\ narrowest <= window
    /\ Sorted(history)
    /\ history # << >> => kept # << >>
    /\ \E d \in 0..Len(history) :
          IsTail(kept, history, d) /\ Droppable(history, d, narrowest)
    /\ KeptIsBounded

-----------------------------------------------------------------------------
\* A droppable prefix changes neither the newest sample nor the baseline.
LEMMA TailAnswers ==
  ASSUME NEW ats \in Seq(Nat), NEW s \in Seq(Nat), NEW d \in 0..Len(ats),
         NEW w \in Nat \ {0},
         Len(s) >= 1, Sorted(ats), IsTail(s, ats, d), Droppable(ats, d, w)
  PROVE  /\ Newest(s) = Newest(ats)
         /\ WindowBaseline(s, w) = WindowBaseline(ats, w)
         /\ WindowCovered(s, w) <=> WindowCovered(ats, w)
<1>1. CASE d = 0
  <2>1. /\ Len(s) = Len(ats) /\ Len(ats) \in Nat
        /\ \A i \in 1..Len(s) : s[i] = ats[0 + i]
    BY <1>1 DEF IsTail
  <2>2. \A i \in 1..Len(s) : s[i] = ats[i]
    BY <2>1
  <2>3. s = ats
    BY <2>1, <2>2, SeqEqual
  <2> QED
    BY <2>3
<1>2. CASE d > 0
  <2>1. /\ Len(ats) \in Nat /\ Len(s) \in Nat
        /\ d + 1 < Len(ats) /\ Len(s) >= 2
        /\ \A i \in 1..Len(ats) : ats[i] \in Nat
        /\ \A i \in 1..Len(s) : s[i] = ats[d + i]
        /\ Len(s) = Len(ats) - d
    BY <1>2 DEF IsTail, Droppable
  <2>0. \A i \in 1..Len(s), j \in Nat : d + i = j => s[i] = ats[j]
    BY <2>1
  <2>2. Newest(s) = Newest(ats) /\ Newest(ats) \in Nat
    <3>1. Len(s) \in 1..Len(s) /\ d + Len(s) = Len(ats) /\ Len(ats) \in 1..Len(ats)
      BY <2>1
    <3> QED
      BY <2>0, <2>1, <3>1 DEF Newest
  <2> DEFINE n == Boundary(ats, w)
             cutoff == Newest(ats) - w
  <2>3. /\ n \in 0..(Len(ats) - 1)
        /\ \A g \in 1..n : ats[g] <= cutoff
        /\ n = Len(ats) - 1 \/ ats[n + 1] > cutoff
    <3>1. Len(ats) >= 1 /\ w \in Int
      BY <2>1
    <3> HIDE DEF n
    <3> QED
      BY <3>1, BoundarySpec DEF n
  <2> HIDE DEF n
  <2>4. n >= d + 1
    <3>1. ats[d + 1] <= cutoff /\ cutoff \in Int
      BY <1>2, <2>2 DEF Droppable
    <3>2. \A g \in 1..(d + 1) : ats[g] <= cutoff
      <4> SUFFICES ASSUME NEW g \in 1..(d + 1) PROVE ats[g] <= cutoff
        OBVIOUS
      <4>1. g \in 1..Len(ats) /\ d + 1 \in 1..Len(ats) /\ g <= d + 1
        BY <2>1
      <4>2. ats[g] <= ats[d + 1]
        BY <4>1 DEF Sorted
      <4>3. ats[g] \in Nat /\ ats[d + 1] \in Nat
        BY <2>1, <4>1
      <4> HIDE DEF cutoff
      <4> QED
        BY <3>1, <4>2, <4>3
    <3>3. ASSUME n < d + 1 PROVE FALSE
      <4>1. n + 1 \in 1..(d + 1) /\ n + 1 \in 1..Len(ats) /\ n # Len(ats) - 1
        BY <2>1, <2>3, <3>3
      <4> HIDE DEF cutoff
      <4> QED
        BY <2>1, <2>3, <3>1, <3>2, <4>1
    <3> QED
      BY <2>1, <2>3, <3>3
  <2>5. Boundary(s, w) = n - d
    <3>1. n - d \in 0..(Len(s) - 1)
      BY <2>1, <2>3, <2>4
    <3>2. \A g \in 1..(n - d) : s[g] <= Newest(s) - w
      <4> SUFFICES ASSUME NEW g \in 1..(n - d) PROVE s[g] <= Newest(s) - w
        OBVIOUS
      <4>1. g \in 1..Len(s) /\ d + g \in 1..n
        BY <2>1, <2>3
      <4> QED
        BY <2>1, <2>2, <2>3, <4>1
    <3>3. n - d = Len(s) - 1 \/ s[(n - d) + 1] > Newest(s) - w
      <4>1. CASE n = Len(ats) - 1
        BY <2>1, <2>3, <4>1
      <4>2. CASE n < Len(ats) - 1
        <5>1. (n - d) + 1 \in 1..Len(s) /\ d + ((n - d) + 1) = n + 1
          BY <2>1, <2>3, <2>4, <4>2
        <5>2. s[(n - d) + 1] = ats[n + 1]
          BY <2>0, <2>3, <5>1
        <5> QED
          BY <2>2, <2>3, <4>2, <5>2
      <4> QED
        BY <2>3, <4>1, <4>2
    <3>4. Len(s) >= 1 /\ w \in Int
      BY <2>1
    <3> QED
      BY <3>1, <3>2, <3>3, <3>4, BoundaryUnique
  <2>6. s[n - d] = ats[n] /\ s[(n - d) + 1] = ats[n + 1]
    <3>1. n - d \in 1..Len(s) /\ (n - d) + 1 \in 1..Len(s)
      BY <2>1, <2>3, <2>4
    <3>2. d + (n - d) = n /\ d + ((n - d) + 1) = n + 1
          /\ n \in Nat /\ n + 1 \in Nat
      BY <2>3
    <3>3. s[n - d] = ats[n]
      BY <2>0, <3>1, <3>2
    <3>4. s[(n - d) + 1] = ats[n + 1]
      BY <2>0, <3>1, <3>2
    <3> QED
      BY <3>3, <3>4
  <2>7. n > 0 /\ n - d > 0 /\ n # 0 /\ n - d # 0
    BY <1>2, <2>3, <2>4
  <2>8. WindowBaseline(s, w) = WindowBaseline(ats, w)
    BY <2>2, <2>5, <2>6, <2>7 DEF WindowBaseline, n
  <2> QED
    BY <2>1, <2>2, <2>8 DEF WindowCovered
<1> QED
  BY <1>1, <1>2

\* The baseline is one of the samples.
LEMMA BaselineIsSample ==
  ASSUME NEW ats \in Seq(Nat), Len(ats) >= 2, NEW w \in Nat
  PROVE  \E i \in 1..Len(ats) : WindowBaseline(ats, w) = ats[i]
<1> DEFINE n == Boundary(ats, w)
<1>1. n \in 0..(Len(ats) - 1)
  <2>1. w \in Int /\ Len(ats) >= 1
    OBVIOUS
  <2> HIDE DEF n
  <2> QED
    BY <2>1, BoundarySpec DEF n
<1>2. n + 1 \in 1..Len(ats) /\ (n > 0 => n \in 1..Len(ats)) /\ 1 \in 1..Len(ats)
  BY <1>1
<1>3. WindowBaseline(ats, w) \in {ats[1], ats[n + 1], ats[n]}
      /\ (n = 0 => WindowBaseline(ats, w) = ats[1])
  BY <1>1 DEF WindowBaseline
<1> HIDE DEF n
<1> QED
  BY <1>1, <1>2, <1>3

\* One more snapshot, no outage: an average that was served stays served.
LEMMA CoverageKept ==
  ASSUME NEW ats \in Seq(Nat), NEW t \in Nat, NEW w \in Nat \ {0},
         Sorted(Append(ats, t)), Steady(Append(ats, t)), WindowCovered(ats, w)
  PROVE  WindowCovered(Append(ats, t), w)
<1> DEFINE a == Append(ats, t)
           L == Len(ats)
           n == Boundary(a, w)
           covered == (w * 4) \div 5
<1>1. L \in Nat /\ L >= 2 /\ Newest(ats) - WindowBaseline(ats, w) >= covered
  BY DEF WindowCovered
<1>2. /\ a \in Seq(Nat) /\ Len(a) = L + 1 /\ a[L + 1] = t
      /\ \A i \in 1..L : a[i] = ats[i]
      /\ \A i \in 1..(L + 1) : a[i] \in Nat
  OBVIOUS
<1>3. Newest(a) = t /\ Newest(ats) = a[L] /\ L \in 1..(L + 1) /\ 1 \in 1..(L + 1)
  BY <1>1, <1>2 DEF Newest
<1>4. /\ n \in 0..L
      /\ \A g \in 1..n : a[g] <= t - w
      /\ n = L \/ a[n + 1] > t - w
  <2>1. Len(a) >= 1 /\ w \in Int
    BY <1>1, <1>2
  <2> HIDE DEF a, n
  <2>2. /\ n \in 0..(Len(a) - 1)
        /\ \A g \in 1..n : a[g] <= Newest(a) - w
        /\ n = Len(a) - 1 \/ a[n + 1] > Newest(a) - w
    BY <1>2, <2>1, BoundarySpec DEF n
  <2> QED
    BY <1>1, <1>2, <1>3, <2>2
<1>5. covered \in Nat /\ covered <= w
  OBVIOUS
<1>6. \A i \in 1..L : a[i + 1] - a[i] <= StaleAfter
  <2>1. Steady(a) /\ L = Len(a) - 1
    BY <1>1, <1>2
  <2> HIDE DEF a, L
  <2> QED
    BY <2>1 DEF Steady
<1>7. \A i, j \in 1..(L + 1) : i <= j => a[i] <= a[j]
  <2>1. Sorted(a)
    OBVIOUS
  <2> HIDE DEF a
  <2> QED
    BY <1>2, <2>1 DEF Sorted
<1>8. PICK b \in 1..L : WindowBaseline(ats, w) = a[b]
  BY <1>1, <1>2, BaselineIsSample
<1> HIDE DEF covered
<1>9. WindowBaseline(a, w) =
         CASE n = 0 -> a[1]
           [] n > 0 /\ Newest(a) - a[n] > w + StaleAfter -> a[n + 1]
           [] OTHER -> a[n]
  BY DEF WindowBaseline
<1> HIDE DEF a, L, n
<1>10. ASSUME n = 0 PROVE WindowCovered(a, w)
  <2>1. a[1] <= a[b] /\ a[L] <= a[L + 1]
    BY <1>1, <1>3, <1>7, <1>8
  <2>2. t - a[1] >= covered
    BY <1>1, <1>2, <1>3, <1>5, <1>8, <2>1
  <2> QED
    BY <1>1, <1>2, <1>3, <1>9, <1>10, <2>2 DEF WindowCovered, covered
<1>11. ASSUME n > 0 PROVE WindowCovered(a, w)
  <2>1. n \in 1..L /\ n \in 1..(L + 1) /\ n + 1 \in 1..(L + 1)
    BY <1>1, <1>4, <1>11
  <2>2. a[n] \in Nat /\ a[n + 1] \in Nat /\ a[n] <= t - w /\ a[n + 1] - a[n] <= StaleAfter
    BY <1>2, <1>4, <1>6, <2>1
  <2>3. t - a[n] <= w + StaleAfter
    <3>1. CASE n = L
      BY <1>2, <2>2, <3>1, StaleAfterAssumption
    <3>2. CASE a[n + 1] > t - w
      BY <2>2, <3>2, StaleAfterAssumption
    <3> QED
      BY <1>4, <3>1, <3>2
  <2>4. WindowBaseline(a, w) = a[n]
    BY <1>3, <1>9, <1>11, <2>2, <2>3, StaleAfterAssumption
  <2>5. t - a[n] >= covered
    BY <1>5, <2>2
  <2> QED
    BY <1>1, <1>2, <1>3, <2>4, <2>5 DEF WindowCovered, covered
<1>12. WindowCovered(a, w)
  BY <1>4, <1>10, <1>11
<1> QED
  BY <1>12 DEF a

\* The invariant holds of an empty history.
LEMMA InitIndInv == Init => IndInv
<1> SUFFICES ASSUME Init PROVE IndInv
  OBVIOUS
<1>1. TypeOK /\ narrowest <= window /\ Sorted(history) /\ KeptIsBounded
  BY HistoryAssumption DEF Init, TypeOK, Sorted, KeptIsBounded
<1>2. IsTail(kept, history, 0) /\ Droppable(history, 0, narrowest)
  BY DEF Init, IsTail, Droppable
<1>3. 0 \in 0..Len(history) /\ (history # << >> => kept # << >>)
  BY DEF Init
<1> QED
  BY <1>1, <1>2, <1>3 DEF IndInv

\* Where a tail's samples are in the history, its newest one in particular.
LEMMA TailAt ==
  ASSUME NEW ats \in Seq(Nat), NEW s \in Seq(Nat), NEW d, IsTail(s, ats, d),
         NEW i \in 1..Len(s), NEW j, j = d + i
  PROVE  s[i] = ats[j]
  BY DEF IsTail

\* A tail and its history have the same newest sample.
LEMMA TailNewest ==
  ASSUME NEW ats \in Seq(Nat), NEW s \in Seq(Nat), NEW d, IsTail(s, ats, d), Len(s) >= 1
  PROVE  Newest(s) = Newest(ats) /\ Newest(s) \in Nat
<1>1. Len(s) \in 1..Len(s) /\ Len(ats) = d + Len(s)
  BY DEF IsTail
<1> QED
  BY <1>1, TailAt DEF Newest

\* Tails: of an extended history, and of a tail.
LEMMA AppendTail ==
  ASSUME NEW ats \in Seq(Nat), NEW s \in Seq(Nat), NEW d, IsTail(s, ats, d), NEW t \in Nat
  PROVE  IsTail(Append(s, t), Append(ats, t), d)
<1>0. /\ Len(Append(s, t)) = Len(s) + 1 /\ Len(Append(ats, t)) = Len(ats) + 1
      /\ Len(s) \in Nat /\ Len(ats) \in Nat
  OBVIOUS
<1>1. /\ d \in 0..Len(ats) /\ Len(s) = Len(ats) - d
      /\ \A i \in 1..Len(s) : s[i] = ats[d + i]
  BY DEF IsTail
<1>2. ASSUME NEW i \in 1..Len(Append(s, t)) PROVE Append(s, t)[i] = Append(ats, t)[d + i]
  <2>1. CASE i \in 1..Len(s)
    <3>1. d + i \in 1..Len(ats)
      BY <1>1, <2>1
    <3> QED
      BY <1>1, <2>1, <3>1
  <2>2. CASE i = Len(s) + 1
    <3>1. d + i = Len(ats) + 1
      BY <1>1, <2>2
    <3> QED
      BY <2>2, <3>1
  <2> QED
    <3>1. i \in 1..Len(s) \/ i = Len(s) + 1
      BY <1>0
    <3> QED
      BY <2>1, <2>2, <3>1, Zenon
<1>3. d \in 0..Len(Append(ats, t)) /\ Len(Append(s, t)) = Len(Append(ats, t)) - d
  BY <1>0, <1>1
<1> QED
  BY <1>2, <1>3 DEF IsTail

\* Dropping c samples after d is dropping d + c.
LEMMA TailOfTail ==
  ASSUME NEW ats \in Seq(Nat), NEW s \in Seq(Nat), NEW r \in Seq(Nat), NEW d, NEW c,
         IsTail(s, ats, d), IsTail(r, s, c)
  PROVE  IsTail(r, ats, d + c)
<1>1. /\ d \in 0..Len(ats) /\ Len(s) = Len(ats) - d
      /\ \A i \in 1..Len(s) : s[i] = ats[d + i]
      /\ c \in 0..Len(s) /\ Len(r) = Len(s) - c
      /\ \A i \in 1..Len(r) : r[i] = s[c + i]
  BY DEF IsTail
<1>2. d + c \in 0..Len(ats) /\ Len(r) = Len(ats) - (d + c)
  BY <1>1
<1>3. ASSUME NEW i \in 1..Len(r) PROVE r[i] = ats[(d + c) + i]
  <2>1. c + i \in 1..Len(s) /\ d + (c + i) = (d + c) + i
    BY <1>1
  <2>2. r[i] = s[c + i] /\ s[c + i] = ats[d + (c + i)]
    BY <1>1, <2>1
  <2> QED
    BY <2>1, <2>2
<1> QED
  BY <1>2, <1>3 DEF IsTail

\* An extended history stays sorted, and what was droppable stays droppable.
LEMMA AppendSorted ==
  ASSUME NEW ats \in Seq(Nat), NEW t \in Nat, Sorted(ats),
         ats # << >> => Newest(ats) <= t
  PROVE  Sorted(Append(ats, t))
<1> DEFINE a == Append(ats, t)
<1>1. /\ Len(a) = Len(ats) + 1 /\ Len(ats) \in Nat /\ a[Len(ats) + 1] = t
      /\ \A i \in 1..Len(ats) : a[i] = ats[i] /\ ats[i] \in Nat
  OBVIOUS
<1>2. \A i \in 1..Len(ats) : ats[i] <= t
  <2> SUFFICES ASSUME NEW i \in 1..Len(ats) PROVE ats[i] <= t
    OBVIOUS
  <2>1. ats # << >> /\ Len(ats) \in 1..Len(ats)
    OBVIOUS
  <2> QED
    BY <1>1, <2>1 DEF Sorted, Newest
<1> HIDE DEF a
<1>3. ASSUME NEW i \in 1..Len(a), NEW j \in 1..Len(a), i <= j PROVE a[i] <= a[j]
  <2>1. CASE j \in 1..Len(ats)
    <3>1. i \in 1..Len(ats)
      BY <1>1, <1>3, <2>1
    <3> QED
      BY <1>1, <1>3, <2>1, <3>1 DEF Sorted
  <2>2. CASE j = Len(ats) + 1
    BY <1>1, <1>2, <1>3, <2>2
  <2> QED
    BY <1>1, <2>1, <2>2
<1>4. Sorted(a)
  BY <1>3 DEF Sorted
<1> QED
  BY <1>4 DEF a

\* A prefix that was harmless to drop stays so when a sample is appended.
LEMMA AppendDroppable ==
  ASSUME NEW ats \in Seq(Nat), NEW t \in Nat, NEW d \in 0..Len(ats), NEW w \in Nat,
         ats # << >> => Newest(ats) <= t, Droppable(ats, d, w)
  PROVE  Droppable(Append(ats, t), d, w)
<1> SUFFICES ASSUME d > 0
             PROVE  /\ d + 1 < Len(Append(ats, t))
                    /\ Append(ats, t)[d + 1] <= Newest(Append(ats, t)) - w
  BY DEF Droppable
<1>1. d + 1 < Len(ats) /\ ats[d + 1] <= Newest(ats) - w
  BY DEF Droppable
<1>2. d + 1 \in 1..Len(ats) /\ ats # << >> /\ Len(ats) \in 1..Len(ats)
  BY <1>1
<1>3. Append(ats, t)[d + 1] = ats[d + 1] /\ ats[d + 1] \in Nat
  BY <1>2
<1>4. Newest(ats) \in Nat /\ Newest(Append(ats, t)) = t
  BY <1>2 DEF Newest
<1> QED
  BY <1>1, <1>2, <1>3, <1>4

\* pruneSamples, run when the newest sample was just appended, drops a droppable
\* prefix of whatever it is given.
LEMMA PruneTail ==
  ASSUME NEW ats \in Seq(Nat), NEW t \in Nat, NEW w \in Nat \ {0}
  PROVE  LET a == Append(ats, t)
             s == PruneSamples(a, t, w)
         IN  /\ s \in Seq(Nat) /\ Len(s) >= 1
             /\ Len(s) >= 2 => s[2] > t - w
             /\ \E c \in 0..Len(a) : IsTail(s, a, c) /\ Droppable(a, c, w)
<1> DEFINE a == Append(ats, t)
           s == PruneSamples(a, t, w)
<1>1. /\ a \in Seq(Nat) /\ Len(a) >= 1 /\ a[Len(a)] = t /\ t \in Int /\ w \in Int
      /\ Len(a) \in Nat
  OBVIOUS
<1> HIDE DEF a
<1>2. PICK c \in 0..(Len(a) - 1) :
           /\ s \in Seq(Nat)
           /\ Len(s) = Len(a) - c
           /\ \A i \in 1..Len(s) : s[i] = a[c + i]
           /\ c > 0 => \A g \in 2..(c + 1) : a[g] <= t - w
           /\ Len(s) >= 2 => s[2] > t - w
  BY <1>1, PruneSamplesSpec
<1> HIDE DEF s
<1>3. c \in 0..Len(a) /\ Len(s) >= 1 /\ IsTail(s, a, c)
  BY <1>1, <1>2 DEF IsTail
<1>4. Droppable(a, c, w)
  <2> SUFFICES ASSUME c > 0 PROVE c + 1 < Len(a) /\ a[c + 1] <= Newest(a) - w
    BY DEF Droppable
  <2>1. c + 1 \in 2..(c + 1) /\ c + 1 \in 1..Len(a)
    BY <1>1, <1>2
  <2>2. a[c + 1] <= t - w
    BY <1>2, <2>1
  <2>3. c + 1 # Len(a)
    <3> SUFFICES ASSUME c + 1 = Len(a) PROVE FALSE
      OBVIOUS
    <3> QED
      BY <1>1, <2>2
  <2> QED
    BY <1>1, <2>1, <2>2, <2>3 DEF Newest
<1> QED
  BY <1>2, <1>3, <1>4 DEF a, s

\* Two droppable prefixes, one after the other, are droppable.
LEMMA DroppableTwice ==
  ASSUME NEW ats \in Seq(Nat), NEW s \in Seq(Nat), NEW d \in 0..Len(ats),
         NEW c \in 0..Len(s), NEW w \in Nat, NEW v \in Nat, v <= w, Len(s) >= 1,
         IsTail(s, ats, d), Droppable(ats, d, v), Droppable(s, c, w)
  PROVE  Droppable(ats, d + c, v)
<1>1. /\ Len(s) = Len(ats) - d
      /\ \A i \in 1..Len(s) : s[i] = ats[d + i]
  BY DEF IsTail
<1>2. CASE c = 0
  BY <1>2
<1>3. CASE c > 0
  <2>1. c + 1 < Len(s) /\ s[c + 1] <= Newest(s) - w
    BY <1>3 DEF Droppable
  <2>2. c + 1 \in 1..Len(s) /\ (d + c) + 1 = d + (c + 1)
    BY <2>1
  <2>3. s[c + 1] = ats[(d + c) + 1] /\ s[c + 1] \in Nat
    <3>1. s[c + 1] \in Nat
      BY <2>2
    <3> DEFINE i == c + 1
               j == (d + c) + 1
    <3>2. i \in 1..Len(s) /\ j = d + i
      BY <2>2
    <3> HIDE DEF i, j
    <3>3. s[i] = ats[j]
      BY <3>2, TailAt
    <3> QED
      BY <3>1, <3>3 DEF i, j
  <2>4. Newest(s) = Newest(ats) /\ Newest(s) \in Nat
    BY TailNewest
  <2>5. ats[(d + c) + 1] <= Newest(ats) - v
    BY <2>1, <2>3, <2>4
  <2>6. (d + c) + 1 < Len(ats)
    BY <1>1, <2>1
  <2> QED
    BY <2>5, <2>6 DEF Droppable
<1> QED
  BY <1>2, <1>3

\* What is left of a sorted history is sorted.
LEMMA TailSorted ==
  ASSUME NEW ats \in Seq(Nat), NEW s \in Seq(Nat), NEW d, IsTail(s, ats, d), Sorted(ats)
  PROVE  Sorted(s)
<1>1. /\ d \in 0..Len(ats) /\ Len(s) = Len(ats) - d
      /\ \A i \in 1..Len(s) : s[i] = ats[d + i]
  BY DEF IsTail
<1>2. ASSUME NEW i \in 1..Len(s), NEW j \in 1..Len(s), i <= j PROVE s[i] <= s[j]
  <2>1. d + i \in 1..Len(ats) /\ d + j \in 1..Len(ats) /\ d + i <= d + j
    BY <1>1, <1>2
  <2> QED
    BY <1>1, <2>1 DEF Sorted
<1> QED
  BY <1>2 DEF Sorted

\* One snapshot, appended to what is kept and to the whole history.
LEMMA SnapshotIndInv ==
  ASSUME IndInv, NEW t \in 0..MaxTime, Snapshot(t)
  PROVE  IndInv'
<1> DEFINE a == Append(kept, t)
           full == Append(history, t)
           s == PruneSamples(a, t, window)
<1>0. /\ kept \in Seq(Nat) /\ history \in Seq(Nat) /\ t \in Nat
      /\ window \in Nat \ {0} /\ narrowest \in Nat \ {0} /\ narrowest <= window
      /\ window' = window /\ narrowest' = narrowest
      /\ history' = full
      /\ kept' = s
      /\ history # << >> => Newest(history) <= t
      /\ Sorted(history)
      /\ window \in Windows /\ narrowest \in Windows
  BY HistoryAssumption DEF IndInv, TypeOK, Snapshot, Newest
<1>1. PICK d \in 0..Len(history) :
           IsTail(kept, history, d) /\ Droppable(history, d, narrowest)
  BY DEF IndInv
<1>2. a \in Seq(Nat) /\ full \in Seq(Nat) /\ Len(a) >= 1 /\ Newest(full) = t
      /\ d \in 0..Len(full)
  BY <1>0 DEF Newest
<1>3. Sorted(full) /\ IsTail(a, full, d) /\ Droppable(full, d, narrowest)
  BY <1>0, <1>1, AppendSorted, AppendTail, AppendDroppable
<1>4. /\ s \in Seq(Nat) /\ Len(s) >= 1
      /\ Len(s) >= 2 => s[2] > t - window
      /\ \E c \in 0..Len(a) : IsTail(s, a, c) /\ Droppable(a, c, window)
  BY <1>0, PruneTail
<1> HIDE DEF a, full, s
<1>5. PICK c \in 0..Len(a) : IsTail(s, a, c) /\ Droppable(a, c, window)
  BY <1>4
<1>6. IsTail(s, full, d + c) /\ Droppable(full, d + c, narrowest)
  BY <1>0, <1>2, <1>3, <1>4, <1>5, TailOfTail, DroppableTwice
<1>7. d + c \in 0..Len(full)
  BY <1>6 DEF IsTail
<1>8. ASSUME NEW i \in 2..Len(s) PROVE s[i] > Newest(s) - window
  <2>1. Sorted(s)
    BY <1>2, <1>3, <1>4, <1>6, TailSorted
  <2>2. 2 \in 1..Len(s) /\ i \in 1..Len(s) /\ Len(s) >= 2 /\ 2 <= i
    BY <1>4
  <2>3. s[2] <= s[i]
    BY <2>1, <2>2 DEF Sorted
  <2>5. s[2] \in Nat /\ s[i] \in Nat
    BY <1>4, <2>2
  <2>4. Newest(s) = t
    BY <1>2, <1>4, <1>6, TailNewest
  <2>6. s[2] > t - window
    BY <1>4, <2>2
  <2>7. t \in Nat /\ window \in Nat
    BY <1>0
  <2> QED
    BY <2>3, <2>4, <2>5, <2>6, <2>7
<1>9. KeptIsBounded'
  BY <1>0, <1>8 DEF KeptIsBounded
<1>10. TypeOK' /\ narrowest' <= window' /\ s # << >>
  BY <1>0, <1>2, <1>4 DEF TypeOK
<1> QED
  BY <1>0, <1>3, <1>6, <1>7, <1>9, <1>10 DEF IndInv

\* A snapshot and a widened window keep the invariant.
LEMMA NextIndInv == IndInv /\ [Next]_vars => IndInv'
<1> SUFFICES ASSUME IndInv, [Next]_vars PROVE IndInv'
  OBVIOUS
<1>1. ASSUME NEW w \in Windows, Widen(w) PROVE IndInv'
  <2>1. kept' = kept /\ history' = history /\ narrowest' = narrowest /\ window' = w
    BY <1>1 DEF Widen
  <2>2. /\ w \in Nat /\ window \in Nat /\ narrowest \in Nat /\ window < w
        /\ narrowest <= window /\ kept \in Seq(Nat)
    BY <1>1, HistoryAssumption DEF IndInv, TypeOK, Widen
  <2>3. TypeOK' /\ narrowest' <= window'
    BY <2>1, <2>2 DEF IndInv, TypeOK
  <2>4. KeptIsBounded'
    <3> SUFFICES ASSUME NEW i \in 2..Len(kept) PROVE kept[i] > Newest(kept) - w
      BY <2>1 DEF KeptIsBounded
    <3>1. i \in 1..Len(kept) /\ Len(kept) \in 1..Len(kept)
      BY <2>2
    <3>2. kept[i] > Newest(kept) - window
      BY DEF IndInv, KeptIsBounded
    <3> QED
      BY <2>2, <3>1, <3>2 DEF Newest
  <2> QED
    BY <2>1, <2>3, <2>4 DEF IndInv
<1>2. ASSUME NEW t \in 0..MaxTime, Snapshot(t) PROVE IndInv'
  BY <1>2, SnapshotIndInv
<1>3. CASE UNCHANGED vars
  BY <1>3 DEF IndInv, TypeOK, KeptIsBounded, vars
<1> QED
  BY <1>1, <1>2, <1>3 DEF Next

\* What append and its prune (metriccache.go) keep is always the whole history but for
\* a prefix that no window in use needs, and no more than the widest window needs.
THEOREM InductiveInvariant == Spec => []IndInv
  BY InitIndInv, NextIndInv, PTL DEF Spec

-----------------------------------------------------------------------------
\* Whatever the snapshots' times and however the window was widened, a trigger
\* whose window the entry always covered gets the verdict and the average of an
\* unpruned history.
THEOREM PruningInvisible == Spec => []PruningIsInvisible
<1>1. IndInv => PruningIsInvisible
  <2> SUFFICES ASSUME IndInv, NEW w \in Windows, w <= narrowest, history # << >>
               PROVE  /\ WindowCovered(kept, w) <=> WindowCovered(history, w)
                      /\ Newest(kept) = Newest(history)
                      /\ WindowBaseline(kept, w) = WindowBaseline(history, w)
    BY DEF PruningIsInvisible
  <2>1. /\ history \in Seq(Nat) /\ kept \in Seq(Nat) /\ Len(kept) >= 1
        /\ Sorted(history) /\ w \in Nat \ {0} /\ narrowest \in Nat
    BY HistoryAssumption DEF IndInv, TypeOK
  <2>2. PICK d \in 0..Len(history) :
             IsTail(kept, history, d) /\ Droppable(history, d, narrowest)
    BY DEF IndInv
  <2>3. Droppable(history, d, w)
    <3> SUFFICES ASSUME d > 0
                 PROVE  d + 1 < Len(history) /\ history[d + 1] <= Newest(history) - w
      BY DEF Droppable
    <3>1. d + 1 < Len(history) /\ history[d + 1] <= Newest(history) - narrowest
      BY <2>2 DEF Droppable
    <3>2. history[d + 1] \in Nat /\ Newest(history) \in Nat
      BY <2>1, <3>1 DEF Newest
    <3> QED
      BY <2>1, <3>1, <3>2
  <2> QED
    BY <2>1, <2>2, <2>3, TailAnswers
<1> QED
  BY <1>1, InductiveInvariant, PTL

\* The samples an entry keeps, its baseline apart, lie within its window.
THEOREM BoundedHistory == Spec => []KeptIsBounded
<1>1. IndInv => KeptIsBounded
  BY DEF IndInv
<1> QED
  BY <1>1, InductiveInvariant, PTL

\* A served average stays served with the next snapshot, for every window the
\* entry covers, as long as consecutive snapshots are at most staleAfter apart.
THEOREM StableCoverage == Spec => CoverageIsStable
<1>1. IndInv /\ [Next]_vars => [CoverageStep]_vars
  <2> SUFFICES ASSUME IndInv, [Next]_vars,
                      NEW w \in Windows, w <= window, WindowCovered(kept, w),
                      history' # history, Steady(Append(kept, Newest(history')))
               PROVE  WindowCovered(kept', w)
    BY DEF CoverageStep
  <2>1. PICK t \in 0..MaxTime : Snapshot(t)
    BY DEF Next, Widen, vars
  <2> DEFINE a == Append(kept, t)
             s == PruneSamples(a, t, window)
  <2>2. /\ kept \in Seq(Nat) /\ history \in Seq(Nat) /\ t \in Nat
        /\ window \in Nat \ {0} /\ w \in Nat \ {0} /\ Sorted(history)
        /\ history # << >> => Newest(history) <= t
        /\ history' = Append(history, t) /\ kept' = s
    BY <2>1, HistoryAssumption DEF IndInv, TypeOK, Snapshot, Newest
  <2>3. Newest(history') = t /\ a \in Seq(Nat)
    BY <2>2 DEF Newest
  <2>4. PICK d \in 0..Len(history) : IsTail(kept, history, d)
    BY DEF IndInv
  <2>5. Sorted(a)
    <3>1. Append(history, t) \in Seq(Nat) /\ Sorted(Append(history, t))
      BY <2>2, AppendSorted
    <3>2. IsTail(a, Append(history, t), d)
      BY <2>2, <2>4, AppendTail
    <3> QED
      BY <2>3, <3>1, <3>2, TailSorted
  <2>6. WindowCovered(a, w)
    BY <2>2, <2>3, <2>5, CoverageKept
  <2>7. /\ s \in Seq(Nat) /\ Len(s) >= 1
        /\ \E c \in 0..Len(a) : IsTail(s, a, c) /\ Droppable(a, c, window)
    BY <2>2, PruneTail
  <2> HIDE DEF a, s
  <2>8. PICK c \in 0..Len(a) : IsTail(s, a, c) /\ Droppable(a, c, window)
    BY <2>7
  <2>9. Droppable(a, c, w)
    <3> SUFFICES ASSUME c > 0 PROVE c + 1 < Len(a) /\ a[c + 1] <= Newest(a) - w
      BY DEF Droppable
    <3>1. c + 1 < Len(a) /\ a[c + 1] <= Newest(a) - window
      BY <2>8 DEF Droppable
    <3>2. a[c + 1] \in Nat /\ Newest(a) \in Nat
      BY <2>3, <3>1 DEF Newest
    <3> QED
      BY <2>2, <3>1, <3>2
  <2> QED
    BY <2>2, <2>3, <2>5, <2>6, <2>7, <2>8, <2>9, TailAnswers
<1> QED
  BY <1>1, InductiveInvariant, PTL DEF Spec, CoverageIsStable

\* The entry, its history and its windows have their types.
THEOREM TypeCorrect == Spec => []TypeOK
<1>1. IndInv => TypeOK
  BY DEF IndInv
<1> QED
  BY <1>1, InductiveInvariant, PTL
===============================================================================
