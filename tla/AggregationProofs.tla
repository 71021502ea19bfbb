--------------------------- MODULE AggregationProofs ---------------------------
(***************************************************************************)
(* What becomes of the metric of a fleet, for every fleet, every load and  *)
(* every number of requests: sums over finite sets, what the aggregators   *)
(* of pkg/aggregator compute of a snapshot, what the snapshots of a fleet  *)
(* that is being scraped sum up to, and what a call of GetMetrics makes of *)
(* them.                                                                   *)
(***************************************************************************)
EXTENDS ScalerAnswers, FleetMetrics, FiniteSetTheorems, TLAPS

-----------------------------------------------------------------------------
(* Finite sets and sums.  SumFunctionOnSet is a fold over a CHOOSE-ordered *)
(* set: it exists, is an integer, and does not depend on the order.        *)

\* Among sets of subsets of a finite set there is a smallest one.
LEMMA SmallestSet ==
  ASSUME NEW S, IsFiniteSet(S), NEW U \in SUBSET (SUBSET S), U # {}
  PROVE  \E s \in U : \A t \in U : t \subseteq s => t = s
  <1>1. IsWellFoundedOn(StrictSubsetOrdering(S), SUBSET S)
    BY FS_StrictSubsetOrderingWellFounded, FS_FiniteSubsetsOfFinite
  <1>2. PICK s \in U : \A t \in U : <<t, s>> \notin StrictSubsetOrdering(S)
    BY <1>1, WFMin, Zenon
  <1> QED
    BY <1>2 DEF StrictSubsetOrdering

\* Induction over a finite set, one element at a time.
LEMMA SetInduction ==
  ASSUME NEW S, IsFiniteSet(S), NEW U \in SUBSET (SUBSET S), {} \in U,
         \A s \in SUBSET S : s # {} => \E x \in s : s \ {x} \in U => s \in U
  PROVE  S \in U
  <1> SUFFICES ASSUME S \notin U PROVE FALSE
    OBVIOUS
  <1> DEFINE V == (SUBSET S) \ U
  <1>1. PICK s \in V : \A t \in V : t \subseteq s => t = s
    <2>1. V \in SUBSET (SUBSET S) /\ V # {}
      OBVIOUS
    <2> HIDE DEF V
    <2> QED
      BY <2>1, SmallestSet
  <1>2. s \in SUBSET S /\ s # {}
    OBVIOUS
  <1>3. PICK x \in s : s \ {x} \in U => s \in U
    BY <1>2
  <1> QED
    BY <1>1, <1>3

Pick(s) == CHOOSE x \in s : TRUE

\* g sums up f over every subset of S.
Sums(g, f, S) ==
  g = [s \in SUBSET S |-> IF s = {} THEN 0 ELSE f[Pick(s)] + g[s \ {Pick(s)}]]

LEMMA SumUnfold ==
  ASSUME NEW f, NEW S
  PROVE  SumFunctionOnSet(f, S) = (CHOOSE g : Sums(g, f, S))[S]
  BY DEF SumFunctionOnSet, FoldFunctionOnSet, MapThenFoldSet, Sums, Pick

LEMMA SumsAt ==
  ASSUME NEW f, NEW S, NEW g, Sums(g, f, S), NEW s \in SUBSET S
  PROVE  g[s] = IF s = {} THEN 0 ELSE f[Pick(s)] + g[s \ {Pick(s)}]
  BY DEF Sums

LEMMA PickIn ==
  ASSUME NEW s, s # {}
  PROVE  Pick(s) \in s
  BY DEF Pick

LEMMA SumsAgree ==
  ASSUME NEW f, NEW S, NEW T, IsFiniteSet(S), T \subseteq S,
         NEW g, Sums(g, f, S), NEW h, Sums(h, f, T)
  PROVE  g[T] = h[T]
  <1> DEFINE U == {s \in SUBSET T : g[s] = h[s]}
  <1>1. IsFiniteSet(T)
    BY FS_Subset
  <1>2. {} \in U
    <2>1. g[{}] = 0
      BY SumsAt
    <2>2. h[{}] = 0
      BY SumsAt
    <2> QED
      BY <2>1, <2>2
  <1>3. ASSUME NEW s \in SUBSET T, s # {}
        PROVE  \E x \in s : s \ {x} \in U => s \in U
    <2>1. g[s] = f[Pick(s)] + g[s \ {Pick(s)}]
      BY <1>3, SumsAt
    <2>2. h[s] = f[Pick(s)] + h[s \ {Pick(s)}]
      BY <1>3 DEF Sums
    <2> QED
      BY <1>3, <2>1, <2>2, PickIn
  <1>4. T \in U
    <2> HIDE DEF U
    <2>1. U \in SUBSET (SUBSET T)
      BY DEF U
    <2> QED
      BY <1>1, <1>2, <1>3, <2>1, SetInduction
  <1> QED
    BY <1>4

LEMMA SumsExist ==
  ASSUME NEW f, NEW S, IsFiniteSet(S)
  PROVE  \E g : Sums(g, f, S)
  <1> DEFINE U == {s \in SUBSET S : ~ \E g : Sums(g, f, s)}
  <1> SUFFICES ASSUME U # {} PROVE FALSE
    OBVIOUS
  <1>1. PICK s \in U : \A t \in U : t \subseteq s => t = s
    <2>1. U \in SUBSET (SUBSET S)
      OBVIOUS
    <2> HIDE DEF U
    <2> QED
      BY <2>1, SmallestSet
  <1> DEFINE sum(t) == (CHOOSE g : Sums(g, f, t))[t]
             h == [t \in SUBSET s |->
                      IF t = {} THEN 0 ELSE f[Pick(t)] + sum(t \ {Pick(t)})]
  <1>2. ASSUME NEW t \in SUBSET s, t # s
        PROVE  Sums(CHOOSE g : Sums(g, f, t), f, t)
    <2>1. \E g : Sums(g, f, t)
      BY <1>1, <1>2
    <2> QED
      BY <2>1
  <1>3. ASSUME NEW t \in SUBSET s, t # s
        PROVE  sum(t) = h[t]
    <2> DEFINE g == CHOOSE g : Sums(g, f, t)
               u == t \ {Pick(t)}
    <2>1. Sums(g, f, t)
      BY <1>2, <1>3
    <2>2. sum(t) = g[t]
      OBVIOUS
    <2>3. CASE t = {}
      <3> HIDE DEF g
      <3>1. g[t] = 0
        BY <2>1, <2>3, SumsAt
      <3> QED
        BY <2>2, <2>3, <3>1
    <2>4. CASE t # {}
      <3>1. Pick(t) \in t
        BY <2>4, PickIn
      <3>2. Sums(CHOOSE k : Sums(k, f, u), f, u)
        BY <1>2, <3>1
      <3>3. IsFiniteSet(t)
        BY FS_Subset
      <3> HIDE DEF g
      <3>4. g[u] = sum(u)
        BY <2>1, <3>2, <3>3, SumsAgree
      <3> HIDE DEF sum
      <3>5. g[t] = f[Pick(t)] + sum(u)
        BY <2>1, <2>4, <3>4, SumsAt
      <3> QED
        BY <2>2, <2>4, <3>5
    <2> QED
      BY <2>3, <2>4
  <1>4. Sums(h, f, s)
    <2>1. ASSUME NEW t \in SUBSET s, t # {}
          PROVE  sum(t \ {Pick(t)}) = h[t \ {Pick(t)}]
      <3>1. Pick(t) \in t
        BY <2>1, PickIn
      <3>2. t \ {Pick(t)} \in SUBSET s /\ t \ {Pick(t)} # s
        BY <3>1
      <3> HIDE DEF h, sum
      <3> QED
        BY <1>3, <3>2
    <2>2. h = [t \in SUBSET s |-> IF t = {} THEN 0 ELSE f[Pick(t)] + h[t \ {Pick(t)}]]
      <3>1. \A t \in SUBSET s :
               h[t] = IF t = {} THEN 0 ELSE f[Pick(t)] + h[t \ {Pick(t)}]
        <4>1. \A t \in SUBSET s :
                 h[t] = IF t = {} THEN 0 ELSE f[Pick(t)] + sum(t \ {Pick(t)})
          OBVIOUS
        <4> HIDE DEF h, sum
        <4> QED
          BY <2>1, <4>1
      <3>2. h = [t \in SUBSET s |-> h[t]]
        OBVIOUS
      <3> HIDE DEF h
      <3> QED
        BY <3>1, <3>2, Zenon
    <2> HIDE DEF h
    <2> QED
      BY <2>2 DEF Sums
  <1> QED
    BY <1>1, <1>4

\* The equation that defines a sum.
LEMMA SumDef ==
  ASSUME NEW f, NEW S, IsFiniteSet(S)
  PROVE  SumFunctionOnSet(f, S) =
           IF S = {} THEN 0
           ELSE f[Pick(S)] + SumFunctionOnSet(f, S \ {Pick(S)})
  <1> DEFINE g == CHOOSE g : Sums(g, f, S)
             T == S \ {Pick(S)}
             h == CHOOSE h : Sums(h, f, T)
  <1>1. IsFiniteSet(T)
    BY FS_Subset
  <1>2. Sums(g, f, S) /\ Sums(h, f, T)
    BY <1>1, SumsExist
  <1>3. SumFunctionOnSet(f, S) = g[S] /\ SumFunctionOnSet(f, T) = h[T]
    BY SumUnfold
  <1> HIDE DEF g, h
  <1>4. g[T] = h[T]
    BY <1>2, SumsAgree
  <1>5. g[S] = IF S = {} THEN 0 ELSE f[Pick(S)] + g[T]
    BY <1>2, SumsAt
  <1> QED
    BY <1>3, <1>4, <1>5

LEMMA SumEmpty ==
  ASSUME NEW f
  PROVE  SumFunctionOnSet(f, {}) = 0
  BY SumDef, FS_EmptySet

LEMMA SumInt ==
  ASSUME NEW f, NEW S, IsFiniteSet(S), \A x \in S : f[x] \in Int
  PROVE  SumFunctionOnSet(f, S) \in Int
  <1> DEFINE U == {s \in SUBSET S : SumFunctionOnSet(f, s) \in Int}
  <1>1. {} \in U
    BY SumEmpty
  <1>2. ASSUME NEW s \in SUBSET S, s # {}
        PROVE  \E x \in s : s \ {x} \in U => s \in U
    <2>1. IsFiniteSet(s) /\ Pick(s) \in s
      BY <1>2, FS_Subset, PickIn
    <2>2. SumFunctionOnSet(f, s) = f[Pick(s)] + SumFunctionOnSet(f, s \ {Pick(s)})
      BY <1>2, <2>1, SumDef
    <2>3. ASSUME s \ {Pick(s)} \in U PROVE s \in U
      <3>1. SumFunctionOnSet(f, s \ {Pick(s)}) \in Int /\ f[Pick(s)] \in Int
        BY <2>1, <2>3
      <3> QED
        BY <2>2, <3>1
    <2> QED
      BY <2>1, <2>3
  <1> HIDE DEF U
  <1>3. U \in SUBSET (SUBSET S)
    BY DEF U
  <1>4. S \in U
    BY <1>1, <1>2, <1>3, SetInduction
  <1> QED
    BY <1>4 DEF U

\* The order in which the elements are added does not matter.
LEMMA SumRemove ==
  ASSUME NEW f, NEW S, IsFiniteSet(S), \A y \in S : f[y] \in Int, NEW x \in S
  PROVE  SumFunctionOnSet(f, S) = f[x] + SumFunctionOnSet(f, S \ {x})
  <1> DEFINE Holds(s) == \A y \in s :
                            SumFunctionOnSet(f, s) = f[y] + SumFunctionOnSet(f, s \ {y})
             U == {s \in SUBSET S : ~ Holds(s)}
  <1> SUFFICES ASSUME U # {} PROVE FALSE
    OBVIOUS
  <1>1. PICK s \in U : \A t \in U : t \subseteq s => t = s
    <2>1. U \in SUBSET (SUBSET S)
      OBVIOUS
    <2> HIDE DEF U
    <2> QED
      BY <2>1, SmallestSet
  <1>2. s \in SUBSET S /\ IsFiniteSet(s)
    BY FS_Subset
  <1>3. PICK y \in s : SumFunctionOnSet(f, s) # f[y] + SumFunctionOnSet(f, s \ {y})
    OBVIOUS
  <1> DEFINE p == Pick(s)
  <1>4. p \in s /\ SumFunctionOnSet(f, s) = f[p] + SumFunctionOnSet(f, s \ {p})
    BY <1>2, SumDef, PickIn
  <1> HIDE DEF p
  <1>5. p # y
    BY <1>3, <1>4
  <1>6. Holds(s \ {p}) /\ Holds(s \ {y})
    <2>1. s \ {p} \in SUBSET S /\ s \ {p} # s /\ s \ {y} \in SUBSET S /\ s \ {y} # s
      BY <1>2, <1>4
    <2> HIDE DEF Holds
    <2> QED
      BY <1>1, <2>1
  <1>7. SumFunctionOnSet(f, s \ {p}) = f[y] + SumFunctionOnSet(f, (s \ {p}) \ {y})
    BY <1>5, <1>6
  <1>8. SumFunctionOnSet(f, s \ {y}) = f[p] + SumFunctionOnSet(f, (s \ {y}) \ {p})
    BY <1>4, <1>5, <1>6
  <1>9. (s \ {p}) \ {y} = (s \ {y}) \ {p}
    OBVIOUS
  <1>10. f[p] \in Int /\ f[y] \in Int
    BY <1>2, <1>4
  <1>11. SumFunctionOnSet(f, (s \ {y}) \ {p}) \in Int
    <2> DEFINE t == (s \ {y}) \ {p}
    <2>1. t \in SUBSET S /\ IsFiniteSet(t)
      BY <1>2, FS_Subset
    <2> HIDE DEF t
    <2>2. SumFunctionOnSet(f, t) \in Int
      BY <2>1, SumInt
    <2> QED
      BY <2>2 DEF t
  <1> DEFINE r == SumFunctionOnSet(f, (s \ {y}) \ {p})
  <1>12. f[p] + (f[y] + r) = f[y] + (f[p] + r)
    BY <1>10, <1>11
  <1> QED
    BY <1>3, <1>4, <1>7, <1>8, <1>9, <1>12

LEMMA SumMonotone ==
  ASSUME NEW f, NEW g, NEW S, IsFiniteSet(S),
         \A x \in S : f[x] \in Int /\ g[x] \in Int /\ f[x] <= g[x]
  PROVE  SumFunctionOnSet(f, S) <= SumFunctionOnSet(g, S)
  <1> DEFINE U == {s \in SUBSET S : SumFunctionOnSet(f, s) <= SumFunctionOnSet(g, s)}
  <1>1. {} \in U
    BY SumEmpty
  <1>2. ASSUME NEW s \in SUBSET S, s # {}
        PROVE  \E x \in s : s \ {x} \in U => s \in U
    <2>1. PICK x \in s : TRUE
      BY <1>2
    <2>2. IsFiniteSet(s) /\ IsFiniteSet(s \ {x})
      BY FS_Subset
    <2>3. /\ SumFunctionOnSet(f, s) = f[x] + SumFunctionOnSet(f, s \ {x})
          /\ SumFunctionOnSet(g, s) = g[x] + SumFunctionOnSet(g, s \ {x})
      BY <2>2, SumRemove
    <2>4. SumFunctionOnSet(f, s \ {x}) \in Int /\ SumFunctionOnSet(g, s \ {x}) \in Int
      BY <2>2, SumInt
    <2>5. f[x] \in Int /\ g[x] \in Int /\ f[x] <= g[x]
      OBVIOUS
    <2>6. ASSUME s \ {x} \in U PROVE s \in U
      <3>1. SumFunctionOnSet(f, s \ {x}) <= SumFunctionOnSet(g, s \ {x})
        BY <2>6
      <3>2. SumFunctionOnSet(f, s) <= SumFunctionOnSet(g, s)
        BY <2>3, <2>4, <2>5, <3>1
      <3> QED
        BY <3>2
    <2> QED
      BY <2>6
  <1> HIDE DEF U
  <1>3. U \in SUBSET (SUBSET S)
    BY DEF U
  <1>4. S \in U
    BY <1>1, <1>2, <1>3, SetInduction
  <1> QED
    BY <1>4 DEF U

LEMMA SumUnion ==
  ASSUME NEW f, NEW S, NEW T, IsFiniteSet(S), IsFiniteSet(T), S \cap T = {},
         \A x \in S \cup T : f[x] \in Int
  PROVE  SumFunctionOnSet(f, S \cup T) = SumFunctionOnSet(f, S) + SumFunctionOnSet(f, T)
  <1> DEFINE U == {s \in SUBSET S : SumFunctionOnSet(f, s \cup T) =
                                     SumFunctionOnSet(f, s) + SumFunctionOnSet(f, T)}
  <1>0. SumFunctionOnSet(f, T) \in Int
    BY SumInt
  <1>1. {} \in U
    BY <1>0, SumEmpty
  <1>2. ASSUME NEW s \in SUBSET S, s # {}
        PROVE  \E x \in s : s \ {x} \in U => s \in U
    <2>1. PICK x \in s : TRUE
      BY <1>2
    <2>2. IsFiniteSet(s) /\ IsFiniteSet(s \ {x}) /\ IsFiniteSet(s \cup T)
      BY FS_Subset, FS_Union
    <2>3. SumFunctionOnSet(f, s) = f[x] + SumFunctionOnSet(f, s \ {x})
      BY <2>2, SumRemove
    <2>4. (s \cup T) \ {x} = (s \ {x}) \cup T
      OBVIOUS
    <2>5. SumFunctionOnSet(f, s \cup T) = f[x] + SumFunctionOnSet(f, (s \ {x}) \cup T)
      <3>1. SumFunctionOnSet(f, s \cup T) = f[x] + SumFunctionOnSet(f, (s \cup T) \ {x})
        BY <2>2, SumRemove
      <3> QED
        BY <2>4, <3>1, Zenon
    <2>6. SumFunctionOnSet(f, s \ {x}) \in Int /\ f[x] \in Int
      BY <2>2, SumInt
    <2>7. ASSUME s \ {x} \in U PROVE s \in U
      <3>1. SumFunctionOnSet(f, (s \ {x}) \cup T) =
              SumFunctionOnSet(f, s \ {x}) + SumFunctionOnSet(f, T)
        BY <2>7
      <3>2. SumFunctionOnSet(f, s \cup T) =
              SumFunctionOnSet(f, s) + SumFunctionOnSet(f, T)
        BY <1>0, <2>3, <2>5, <2>6, <3>1
      <3> QED
        BY <3>2
    <2> QED
      BY <2>7
  <1> HIDE DEF U
  <1>3. U \in SUBSET (SUBSET S)
    BY DEF U
  <1>4. S \in U
    BY <1>1, <1>2, <1>3, SetInduction
  <1> QED
    BY <1>4 DEF U

LEMMA SumSame ==
  ASSUME NEW f, NEW g, NEW S, IsFiniteSet(S), \A x \in S : f[x] \in Int /\ f[x] = g[x]
  PROVE  SumFunctionOnSet(f, S) = SumFunctionOnSet(g, S)
  <1>1. SumFunctionOnSet(f, S) \in Int /\ SumFunctionOnSet(g, S) \in Int
    BY SumInt
  <1>2. SumFunctionOnSet(f, S) <= SumFunctionOnSet(g, S)
    BY SumMonotone
  <1>3. SumFunctionOnSet(g, S) <= SumFunctionOnSet(f, S)
    BY SumMonotone
  <1> QED
    BY <1>1, <1>2, <1>3

\* A sum is bounded by the bound of its terms times their number.
LEMMA SumBound ==
  ASSUME NEW f, NEW S, IsFiniteSet(S), NEW k \in Int,
         \A x \in S : f[x] \in Int /\ f[x] <= k
  PROVE  SumFunctionOnSet(f, S) <= k * Cardinality(S)
  <1> DEFINE U == {s \in SUBSET S : SumFunctionOnSet(f, s) <= k * Cardinality(s)}
  <1>1. {} \in U
    BY SumEmpty, FS_EmptySet
  <1>2. ASSUME NEW s \in SUBSET S, s # {}
        PROVE  \E x \in s : s \ {x} \in U => s \in U
    <2>1. PICK x \in s : TRUE
      BY <1>2
    <2>2. IsFiniteSet(s) /\ IsFiniteSet(s \ {x})
      BY FS_Subset
    <2>3. SumFunctionOnSet(f, s) = f[x] + SumFunctionOnSet(f, s \ {x})
      BY <2>2, SumRemove
    <2>4. SumFunctionOnSet(f, s \ {x}) \in Int /\ f[x] \in Int /\ f[x] <= k
      BY <2>2, SumInt
    <2>5. /\ Cardinality(s \ {x}) = Cardinality(s) - 1
          /\ Cardinality(s) \in Nat /\ Cardinality(s \ {x}) \in Nat
      BY <2>2, FS_RemoveElement, FS_CardinalityType
    <2> DEFINE c == Cardinality(s \ {x})
    <2>6. Cardinality(s) = c + 1 /\ c \in Int
      BY <2>5
    <2>7. k * (c + 1) = k * c + k /\ k * c \in Int
      BY <2>6
    <2>8. ASSUME s \ {x} \in U PROVE s \in U
      <3>1. SumFunctionOnSet(f, s \ {x}) <= k * c
        BY <2>8
      <3> HIDE DEF c
      <3>2. SumFunctionOnSet(f, s) <= k * c + k
        BY <2>3, <2>4, <2>7, <3>1
      <3> QED
        BY <2>6, <2>7, <3>2
    <2> QED
      BY <2>8
  <1> HIDE DEF U
  <1>3. U \in SUBSET (SUBSET S)
    BY DEF U
  <1>4. S \in U
    BY <1>1, <1>2, <1>3, SetInduction
  <1> QED
    BY <1>4 DEF U

LEMMA SumBoundBelow ==
  ASSUME NEW f, NEW S, IsFiniteSet(S), NEW k \in Int,
         \A x \in S : f[x] \in Int /\ k <= f[x]
  PROVE  k * Cardinality(S) <= SumFunctionOnSet(f, S)
  <1> DEFINE g == [x \in S |-> - f[x]]
             U == {s \in SUBSET S : SumFunctionOnSet(g, s) = - SumFunctionOnSet(f, s)}
  <1>1. {} \in U
    BY SumEmpty
  <1>2. ASSUME NEW s \in SUBSET S, s # {}
        PROVE  \E x \in s : s \ {x} \in U => s \in U
    <2>1. PICK x \in s : TRUE
      BY <1>2
    <2>2. IsFiniteSet(s) /\ IsFiniteSet(s \ {x})
      BY FS_Subset
    <2>3. /\ SumFunctionOnSet(f, s) = f[x] + SumFunctionOnSet(f, s \ {x})
          /\ SumFunctionOnSet(g, s) = g[x] + SumFunctionOnSet(g, s \ {x})
      <3>1. \A y \in s : f[y] \in Int /\ g[y] \in Int
        OBVIOUS
      <3> HIDE DEF g
      <3> QED
        BY <2>2, <3>1, SumRemove
    <2>4. SumFunctionOnSet(f, s \ {x}) \in Int
      BY <2>2, SumInt
    <2>5. f[x] \in Int /\ g[x] = - f[x]
      OBVIOUS
    <2> HIDE DEF g
    <2>6. ASSUME s \ {x} \in U PROVE s \in U
      BY <2>3, <2>4, <2>5, <2>6
    <2> QED
      BY <2>6
  <1>3. S \in U
    <2> HIDE DEF U
    <2>1. U \in SUBSET (SUBSET S)
      BY DEF U
    <2> QED
      BY <1>1, <1>2, <2>1, SetInduction
  <1>4. SumFunctionOnSet(g, S) <= (- k) * Cardinality(S)
    <2>1. \A x \in S : g[x] \in Int /\ g[x] <= - k
      OBVIOUS
    <2> HIDE DEF g
    <2> QED
      BY <2>1, SumBound
  <1>5. Cardinality(S) \in Nat /\ SumFunctionOnSet(f, S) \in Int
    BY FS_CardinalityType, SumInt
  <1>6. (- k) * Cardinality(S) = - (k * Cardinality(S)) /\ k * Cardinality(S) \in Int
    BY <1>5
  <1> QED
    BY <1>3, <1>4, <1>5, <1>6

LEMMA SumNat ==
  ASSUME NEW f, NEW S, IsFiniteSet(S), \A x \in S : f[x] \in Nat
  PROVE  SumFunctionOnSet(f, S) \in Nat
  <1>1. 0 * Cardinality(S) <= SumFunctionOnSet(f, S)
    BY SumBoundBelow
  <1>2. SumFunctionOnSet(f, S) \in Int /\ Cardinality(S) \in Nat
    BY SumInt, FS_CardinalityType
  <1> QED
    BY <1>1, <1>2

\* A finite set that is not empty has an element with the largest value of f.
LEMMA LargestExists ==
  ASSUME NEW f, NEW S, IsFiniteSet(S), S # {}, \A x \in S : f[x] \in Int
  PROVE  \E x \in S : \A y \in S : f[y] <= f[x]
  <1> DEFINE U == {s \in SUBSET S : s # {} => \E x \in s : \A y \in s : f[y] <= f[x]}
  <1>1. {} \in U
    OBVIOUS
  <1>2. ASSUME NEW s \in SUBSET S, s # {}
        PROVE  \E x \in s : s \ {x} \in U => s \in U
    <2>1. PICK x \in s : TRUE
      BY <1>2
    <2>2. ASSUME s \ {x} \in U PROVE \E z \in s : \A y \in s : f[y] <= f[z]
      <3>1. CASE s = {x}
        BY <3>1
      <3>2. CASE s # {x}
        <4>1. PICK z \in s \ {x} : \A y \in s \ {x} : f[y] <= f[z]
          BY <2>1, <2>2, <3>2
        <4>2. CASE f[x] <= f[z]
          BY <4>1, <4>2
        <4>3. CASE ~ (f[x] <= f[z])
          <5>1. \A y \in s : f[y] <= f[x]
            BY <4>1, <4>3
          <5> QED
            BY <5>1
        <4> QED
          BY <4>2, <4>3
      <3> QED
        BY <3>1, <3>2
    <2> QED
      BY <2>2
  <1> HIDE DEF U
  <1>3. U \in SUBSET (SUBSET S)
    BY DEF U
  <1>4. S \in U
    BY <1>1, <1>2, <1>3, SetInduction
  <1> QED
    BY <1>4 DEF U

\* A sum over n elements is at most n times some term and at least n times some term.
LEMMA SumNearSomeTerm ==
  ASSUME NEW f, NEW S, IsFiniteSet(S), S # {}, \A x \in S : f[x] \in Int
  PROVE  /\ \E x \in S : SumFunctionOnSet(f, S) <= f[x] * Cardinality(S)
         /\ \E x \in S : SumFunctionOnSet(f, S) >= f[x] * Cardinality(S)
  <1>1. PICK x \in S : \A y \in S : f[y] <= f[x]
    BY LargestExists
  <1>2. SumFunctionOnSet(f, S) <= f[x] * Cardinality(S)
    BY <1>1, SumBound
  <1> DEFINE g == [y \in S |-> - f[y]]
  <1>3. PICK z \in S : \A y \in S : g[y] <= g[z]
    <2>1. \A y \in S : g[y] \in Int
      OBVIOUS
    <2> HIDE DEF g
    <2> QED
      BY <2>1, LargestExists
  <1>4. \A y \in S : f[z] <= f[y]
    <2> TAKE y \in S
    <2>1. - f[y] <= - f[z]
      BY <1>3
    <2> QED
      BY <2>1
  <1>5. f[z] * Cardinality(S) <= SumFunctionOnSet(f, S)
    BY <1>4, SumBoundBelow
  <1>6. SumFunctionOnSet(f, S) \in Int /\ f[z] * Cardinality(S) \in Int
    BY SumInt, FS_CardinalityType
  <1> QED
    BY <1>2, <1>5, <1>6

LEMMA SumOf ==
  ASSUME NEW f
  PROVE  SumFunction(f) = SumFunctionOnSet(f, DOMAIN f)
  BY DEF SumFunction

-----------------------------------------------------------------------------
(* The aggregators.                                                        *)

\* A snapshot whose readings are readings.
IntSnapshot(s) ==
    /\ IsFiniteSet(DOMAIN s)
    /\ \A r \in Scraped(s) : s[r] \in ServiceReading

LEMMA ScrapedFinite ==
  ASSUME NEW s, IsFiniteSet(DOMAIN s)
  PROVE  /\ IsFiniteSet(Scraped(s)) /\ Cardinality(Scraped(s)) \in Nat
         /\ Cardinality(DOMAIN s) \in Nat
         /\ Cardinality(DOMAIN s \ Scraped(s)) = Cardinality(DOMAIN s) - Cardinality(Scraped(s))
         /\ IsFiniteSet(DOMAIN s \ Scraped(s)) /\ IsFiniteSet(Exposing(s))
  <1>1. Scraped(s) \in SUBSET DOMAIN s /\ Exposing(s) \in SUBSET DOMAIN s
    BY DEF Scraped, Exposing
  <1>2. DOMAIN s \cap Scraped(s) = Scraped(s)
    BY <1>1
  <1>3. IsFiniteSet(Scraped(s)) /\ IsFiniteSet(Exposing(s))
    BY <1>1, FS_Subset
  <1>4. /\ IsFiniteSet(DOMAIN s \ Scraped(s))
        /\ Cardinality(DOMAIN s \ Scraped(s)) =
             Cardinality(DOMAIN s) - Cardinality(DOMAIN s \cap Scraped(s))
    BY FS_Difference, Zenon
  <1>5. Cardinality(Scraped(s)) \in Nat /\ Cardinality(DOMAIN s) \in Nat
    BY <1>3, FS_CardinalityType
  <1> QED
    BY <1>2, <1>3, <1>4, <1>5

LEMMA ScalarSumIsSum ==
  ASSUME NEW s, IsFiniteSet(DOMAIN s), NEW load,
         \A r \in Scraped(s) : load[r] \in Int /\ Scalar(s[r]) = load[r]
  PROVE  /\ ScalarSum(s) = SumFunctionOnSet(load, Scraped(s))
         /\ ScalarSum(s) \in Int
  <1> DEFINE f == [r \in Scraped(s) |-> Scalar(s[r])]
  <1>1. \A r \in Scraped(s) : f[r] \in Int /\ f[r] = load[r]
    OBVIOUS
  <1>2. DOMAIN f = Scraped(s) /\ ScalarSum(s) = SumFunction(f)
    BY DEF ScalarSum
  <1>3. IsFiniteSet(Scraped(s))
    BY ScrapedFinite
  <1> HIDE DEF f
  <1>4. ScalarSum(s) = SumFunctionOnSet(f, Scraped(s))
    BY <1>2, SumOf
  <1>5. SumFunctionOnSet(f, Scraped(s)) = SumFunctionOnSet(load, Scraped(s))
    BY <1>1, <1>3, SumSame
  <1>6. SumFunctionOnSet(f, Scraped(s)) \in Int
    BY <1>1, <1>3, SumInt
  <1> QED
    BY <1>4, <1>5, <1>6

LEMMA ScalarSumInt ==
  ASSUME NEW s, IntSnapshot(s)
  PROVE  ScalarSum(s) \in Int
  <1> DEFINE load == [r \in Scraped(s) |-> Scalar(s[r])]
  <1>1. \A r \in Scraped(s) : load[r] \in Int /\ Scalar(s[r]) = load[r]
    BY DEF IntSnapshot, ServiceReading, Scalar
  <1> HIDE DEF load
  <1> QED
    BY <1>1, ScalarSumIsSum DEF IntSnapshot

LEMMA HistogramInt ==
  ASSUME NEW s, IntSnapshot(s)
  PROVE  HistogramSum(s) \in Int /\ HistogramCount(s) \in Int
  <1> DEFINE f == [r \in Exposing(s) |-> s[r].histogram.sum]
             g == [r \in Exposing(s) |-> s[r].histogram.count]
  <1>1. \A r \in Exposing(s) : s[r].histogram \in HistogramReading
    BY DEF IntSnapshot, Exposing, ServiceReading
  <1>2. \A r \in Exposing(s) : f[r] \in Int /\ g[r] \in Int
    BY <1>1 DEF HistogramReading
  <1>3. /\ DOMAIN f = Exposing(s) /\ HistogramSum(s) = SumFunction(f)
        /\ DOMAIN g = Exposing(s) /\ HistogramCount(s) = SumFunction(g)
    BY DEF HistogramSum, HistogramCount
  <1> HIDE DEF f, g
  <1> QED
    BY <1>2, <1>3, SumOf, SumInt, ScrapedFinite DEF IntSnapshot

LEMMA AverageType ==
  ASSUME NEW s, IntSnapshot(s)
  PROVE  ServiceAverage(s) \in Fraction \cup {NoValue}
  <1>1. CASE Exposed(s)
    <2>1. Scraped(s) # {}
      BY <1>1 DEF Exposed
    <2>2. Cardinality(Scraped(s)) \in Nat \ {0}
      BY <2>1, ScrapedFinite, FS_EmptySet DEF IntSnapshot
    <2>3. NonNegative(ScalarSum(s)) \in Nat
      BY ScalarSumInt DEF NonNegative
    <2> QED
      BY <1>1, <2>2, <2>3 DEF ServiceAverage, Fraction
  <1> QED
    BY <1>1 DEF ServiceAverage

LEMMA SumType ==
  ASSUME NEW s, IntSnapshot(s), NEW threshold \in Int
  PROVE  ServiceSum(s, threshold) \in Nat \cup {NoValue}
  <1> DEFINE scraped == Cardinality(Scraped(s))
             missing == Cardinality(DOMAIN s) - scraped
             sum == ScalarSum(s)
  <1>1. scraped \in Nat /\ missing \in Int /\ sum \in Int
    <2>1. scraped \in Nat /\ Cardinality(DOMAIN s) \in Nat
      BY ScrapedFinite DEF IntSnapshot
    <2> QED
      BY <2>1, ScalarSumInt
  <1>2. sum + threshold * missing \in Int
    BY <1>1
  <1> QED
    BY <1>1, <1>2 DEF ServiceSum, NonNegative

LEMMA WindowedType ==
  ASSUME NEW b, IntSnapshot(b), NEW n, IntSnapshot(n)
  PROVE  WindowedAverage(b, n) \in Fraction
  BY HistogramInt DEF WindowedAverage, Zero, Fraction

\* Without compensation missing services add nothing.
LEMMA SumUncompensated ==
  ASSUME NEW s, IntSnapshot(s), ServiceSum(s, 0) # NoValue
  PROVE  ServiceSum(s, 0) = NonNegative(ScalarSum(s))
  <1> DEFINE missing == Cardinality(DOMAIN s) - Cardinality(Scraped(s))
  <1>1. ScalarSum(s) \in Int /\ missing \in Int
    <2>1. Cardinality(Scraped(s)) \in Nat /\ Cardinality(DOMAIN s) \in Nat
      BY ScrapedFinite DEF IntSnapshot
    <2> QED
      BY <2>1, ScalarSumInt
  <1>2. ScalarSum(s) + 0 * missing = ScalarSum(s)
    BY <1>1
  <1> QED
    BY <1>2 DEF ServiceSum

\* The average of loads lies between two of them.
LEMMA AverageBetweenLoads ==
  ASSUME NEW s, IsFiniteSet(DOMAIN s), NEW load, ServiceAverage(s) # NoValue,
         \A r \in Scraped(s) : load[r] \in Nat /\ Scalar(s[r]) = load[r]
  PROVE  LET average == ServiceAverage(s)
         IN  /\ \E r \in Scraped(s) : average.num <= average.den * load[r]
             /\ \E r \in Scraped(s) : average.num >= average.den * load[r]
  <1> DEFINE sum == SumFunctionOnSet(load, Scraped(s))
             n == Cardinality(Scraped(s))
  <1>1. Exposed(s) /\ Scraped(s) # {}
    BY DEF ServiceAverage, Exposed
  <1>2. ScalarSum(s) = sum /\ sum \in Int
    BY ScalarSumIsSum
  <1>3. IsFiniteSet(Scraped(s)) /\ n \in Nat
    BY ScrapedFinite
  <1>4. 0 * n <= sum
    BY <1>3, SumBoundBelow
  <1>5. sum \in Nat
    BY <1>2, <1>3, <1>4
  <1>6. ServiceAverage(s) = [num |-> sum, den |-> n]
    BY <1>1, <1>2, <1>5 DEF ServiceAverage, NonNegative
  <1>7. /\ \E r \in Scraped(s) : sum <= load[r] * n
        /\ \E r \in Scraped(s) : sum >= load[r] * n
    BY <1>1, <1>3, SumNearSomeTerm
  <1>8. \A r \in Scraped(s) : load[r] * n = n * load[r]
    BY <1>3
  <1> HIDE DEF sum, n
  <1> QED
    BY <1>6, <1>7, <1>8

\* Loads below the threshold are never underestimated.
LEMMA SumCoversLoad ==
  ASSUME NEW s, IsFiniteSet(DOMAIN s), NEW load, DOMAIN load = DOMAIN s,
         NEW threshold \in Nat, \A r \in DOMAIN s : load[r] \in Nat /\ load[r] < threshold,
         \A r \in Scraped(s) : Scalar(s[r]) = load[r],
         ServiceSum(s, threshold) # NoValue
  PROVE  ServiceSum(s, threshold) >= SumFunction(load)
  <1> DEFINE there == Scraped(s)
             absent == DOMAIN s \ Scraped(s)
             sum == SumFunctionOnSet(load, there)
             rest == SumFunctionOnSet(load, absent)
             n == Cardinality(there)
             m == Cardinality(absent)
  <1>1. /\ IsFiniteSet(there) /\ IsFiniteSet(absent)
        /\ there \subseteq DOMAIN s /\ absent \subseteq DOMAIN s
        /\ there \cup absent = DOMAIN s /\ there \cap absent = {}
    BY ScrapedFinite DEF Scraped
  <1>2. n \in Nat /\ m \in Nat /\ m = Cardinality(DOMAIN s) - n
    BY <1>1, ScrapedFinite, FS_CardinalityType
  <1>3. ScalarSum(s) = sum /\ sum \in Int /\ rest \in Int
    BY <1>1, ScalarSumIsSum, SumInt
  <1>4. SumFunction(load) = sum + rest
    <2> HIDE DEF there, absent
    <2>1. SumFunctionOnSet(load, there \cup absent) = sum + rest
      BY <1>1, SumUnion
    <2> QED
      BY <1>1, <2>1, SumOf
  <1>5. n # 0
    BY DEF ServiceSum
  <1>6. sum <= (threshold - 1) * n
    BY <1>1, SumBound
  <1>7. (threshold - 1) * n = threshold * n - n /\ threshold * n \in Int
    BY <1>2
  <1>8. sum < threshold * n
    BY <1>2, <1>3, <1>5, <1>6, <1>7
  <1>9. rest <= threshold * m /\ threshold * m \in Int
    BY <1>1, <1>2, SumBound
  <1>10. CASE m = 0
    <2>1. absent = {}
      BY <1>1, <1>10, FS_EmptySet
    <2>2. rest = 0
      BY <2>1, SumEmpty
    <2>3. ServiceSum(s, threshold) = NonNegative(sum)
      BY <1>2, <1>3, <1>5, <1>10 DEF ServiceSum
    <2> QED
      BY <1>3, <1>4, <2>2, <2>3 DEF NonNegative
  <1>11. CASE m > 0
    <2>1. ServiceSum(s, threshold) = NonNegative(sum + threshold * m)
      BY <1>2, <1>3, <1>5, <1>8, <1>11 DEF ServiceSum
    <2> HIDE DEF sum, rest, m
    <2> QED
      BY <1>3, <1>4, <1>9, <2>1 DEF NonNegative
  <1> QED
    BY <1>2, <1>10, <1>11

-----------------------------------------------------------------------------
(* FleetMetrics: the log of all requests, and what a process exposes of it.*)

MadeIn(q, r, from, to) == {i \in (from + 1)..to : q[i].replica = r}

SumOver(q, I) == SumFunction([i \in I |-> q[i].value])

Exposes(q, I) ==
    IF I = {} THEN [scalar |-> Absent, histogram |-> Absent]
    ELSE [scalar |-> Cardinality(I),
          histogram |-> [sum |-> SumOver(q, I), count |-> Cardinality(I)]]

Request == [replica : Replicas, value : Values]

IsLog(q) == q \in Seq(Request)

ValueAt(q) == [i \in 1..Len(q) |-> q[i].value]

LEMMA LogValue ==
  ASSUME NEW q, IsLog(q), NEW I \in SUBSET (1..Len(q)), NEW i \in I
  PROVE  /\ q[i].value \in Nat
         /\ ValueAt(q)[i] = q[i].value
  <1>1. i \in 1..Len(q)
    OBVIOUS
  <1>2. q[i] \in Request
    BY <1>1 DEF IsLog
  <1> QED
    BY <1>1, <1>2, FleetAssumption DEF Request, ValueAt

LEMMA LogSum ==
  ASSUME NEW q, IsLog(q), NEW I \in SUBSET (1..Len(q))
  PROVE  /\ SumOver(q, I) = SumFunctionOnSet(ValueAt(q), I)
         /\ SumOver(q, I) \in Nat
         /\ IsFiniteSet(I) /\ Cardinality(I) \in Nat
         /\ \A i \in I : ValueAt(q)[i] \in Int
  <1> DEFINE f == [i \in I |-> q[i].value]
  <1>1. IsFiniteSet(I) /\ Cardinality(I) \in Nat
    <2>1. Len(q) \in Nat
      BY DEF IsLog
    <2>2. IsFiniteSet(1..Len(q))
      BY <2>1, FS_Interval
    <2>3. IsFiniteSet(I)
      BY <2>2, FS_Subset
    <2> QED
      BY <2>3, FS_CardinalityType
  <1>2. \A i \in I : f[i] \in Nat /\ f[i] = ValueAt(q)[i]
    <2> TAKE i \in I
    <2> QED
      BY LogValue
  <1>7. \A i \in I : f[i] \in Int /\ f[i] = ValueAt(q)[i]
    BY <1>2
  <1>3. SumOver(q, I) = SumFunction(f) /\ DOMAIN f = I
    BY DEF SumOver
  <1> HIDE DEF f
  <1>4. SumOver(q, I) = SumFunctionOnSet(f, I)
    BY <1>3, SumOf
  <1>5. SumFunctionOnSet(f, I) = SumFunctionOnSet(ValueAt(q), I)
    BY <1>1, <1>7, SumSame
  <1>6. SumFunctionOnSet(f, I) \in Nat
    BY <1>1, <1>2, SumNat
  <1> QED
    BY <1>1, <1>2, <1>4, <1>5, <1>6

\* Requests are summed up and counted part by part.
LEMMA LogParts ==
  ASSUME NEW q, IsLog(q), NEW I \in SUBSET (1..Len(q)), NEW J \in SUBSET (1..Len(q)),
         I \cap J = {}, NEW K, K = I \cup J
  PROVE  /\ SumOver(q, K) = SumOver(q, I) + SumOver(q, J)
         /\ Cardinality(K) = Cardinality(I) + Cardinality(J)
  <1>1. IsFiniteSet(I) /\ IsFiniteSet(J) /\ Cardinality(I) \in Nat /\ Cardinality(J) \in Nat
    BY LogSum
  <1>2. SumFunctionOnSet(ValueAt(q), I \cup J) =
          SumFunctionOnSet(ValueAt(q), I) + SumFunctionOnSet(ValueAt(q), J)
    <2>1. \A i \in I \cup J : ValueAt(q)[i] \in Int
      BY LogSum
    <2> QED
      BY <1>1, <2>1, SumUnion
  <1>3. I \cup J \subseteq 1..Len(q)
    OBVIOUS
  <1>4. SumOver(q, I \cup J) = SumOver(q, I) + SumOver(q, J)
    BY <1>2, <1>3, LogSum
  <1>5. Cardinality(I \cup J) = Cardinality(I) + Cardinality(J) - Cardinality(I \cap J)
    BY <1>1, FS_Union
  <1>6. Cardinality(I \cap J) = 0
    BY FS_EmptySet
  <1> QED
    BY <1>1, <1>4, <1>5, <1>6

\* What is exposed is a reading, and never a marker.
LEMMA ExposesReading ==
  ASSUME NEW q, IsLog(q), NEW I \in SUBSET (1..Len(q))
  PROVE  /\ Exposes(q, I) \in ServiceReading
         /\ Exposes(q, I) # Failed
         /\ Scalar(Exposes(q, I)) = Cardinality(I)
         /\ Exposes(q, I).scalar \in Nat \cup {Absent}
         /\ Exposes(q, I).histogram \in Histogram
         /\ Exposes(q, I).histogram # Absent <=> I # {}
         /\ I # {} => /\ Exposes(q, I).histogram.sum = SumOver(q, I)
                      /\ Exposes(q, I).histogram.count = Cardinality(I)
  <1>1. SumOver(q, I) \in Nat /\ Cardinality(I) \in Nat /\ (I = {} => Cardinality(I) = 0)
    <2>1. SumOver(q, I) \in Nat /\ Cardinality(I) \in Nat
      BY LogSum
    <2>2. I = {} => Cardinality(I) = 0
      BY FS_EmptySet, Zenon
    <2> QED
      BY <2>1, <2>2
  <1>2. CASE I = {}
    <2>1. Exposes(q, I) = [scalar |-> Absent, histogram |-> Absent]
      BY <1>2 DEF Exposes
    <2> QED
      BY <1>1, <1>2, <2>1, MarkerAssumption DEF ServiceReading, Scalar, Histogram
  <1>3. CASE I # {}
    <2> DEFINE h == [sum |-> SumOver(q, I), count |-> Cardinality(I)]
    <2>1. Exposes(q, I) = [scalar |-> Cardinality(I), histogram |-> h]
      BY <1>3 DEF Exposes
    <2>2. h \in HistogramReading /\ h \in Histogram
      BY <1>1 DEF HistogramReading, Histogram
    <2>3. h # Absent /\ Cardinality(I) # Absent
      BY <1>1, <2>2, MarkerAssumption
    <2>4. h.sum = SumOver(q, I) /\ h.count = Cardinality(I)
      OBVIOUS
    <2> HIDE DEF h
    <2>5. Exposes(q, I) \in ServiceReading
      BY <1>1, <2>1, <2>2 DEF ServiceReading
    <2> QED
      BY <1>1, <1>3, <2>1, <2>2, <2>3, <2>4, <2>5, MarkerAssumption DEF Scalar
  <1> QED
    BY <1>2, <1>3

AllOf(a, D) == UNION {a[r] : r \in D}

\* The histogram of a snapshot sums up the requests its services have counted, when
\* every service answered and no request is counted twice.
LEMMA HistogramOfLog ==
  ASSUME NEW q, IsLog(q), NEW s, IsFiniteSet(DOMAIN s), NEW a,
         \A r \in DOMAIN s : /\ a[r] \in SUBSET (1..Len(q))
                             /\ s[r] = Exposes(q, a[r])
                             /\ \A i \in a[r] : q[i].replica = r
  PROVE  /\ HistogramSum(s) = SumOver(q, AllOf(a, DOMAIN s))
         /\ HistogramCount(s) = Cardinality(AllOf(a, DOMAIN s))
         /\ AllOf(a, DOMAIN s) \in SUBSET (1..Len(q))
         /\ Exposing(s) = {} <=> AllOf(a, DOMAIN s) = {}
  <1> DEFINE E == Exposing(s)
             f == [r \in E |-> s[r].histogram.sum]
             c == [r \in E |-> s[r].histogram.count]
             Of(t) == AllOf(a, t)
             U == {t \in SUBSET E : /\ SumFunctionOnSet(f, t) = SumOver(q, Of(t))
                                    /\ SumFunctionOnSet(c, t) = Cardinality(Of(t))}
  <1>1. E = {r \in DOMAIN s : a[r] # {}}
    <2>1. \A r \in DOMAIN s : s[r] # Failed /\ (s[r].histogram # Absent <=> a[r] # {})
      BY ExposesReading
    <2> QED
      BY <2>1 DEF Exposing, Scraped
  <1>2. IsFiniteSet(E)
    BY ScrapedFinite
  <1>3. \A r \in E : f[r] = SumOver(q, a[r]) /\ c[r] = Cardinality(a[r])
    BY <1>1, ExposesReading
  <1>4. \A r \in E : f[r] \in Int /\ c[r] \in Int
    <2> TAKE r \in E
    <2>1. a[r] \subseteq 1..Len(q)
      BY <1>1
    <2> QED
      BY <1>3, <2>1, LogSum
  <1>5. SumFunction(f) = SumFunctionOnSet(f, E) /\ SumFunction(c) = SumFunctionOnSet(c, E)
    BY SumOf
  <1>6. HistogramSum(s) = SumFunction(f) /\ HistogramCount(s) = SumFunction(c)
    BY DEF HistogramSum, HistogramCount
  <1> HIDE DEF E, f, c
  <1>7. {} \in U
    <2>1. Of({}) = {}
      BY DEF AllOf
    <2>2. SumOver(q, {}) = 0
      BY LogSum, SumEmpty
    <2> HIDE DEF Of
    <2> QED
      BY <2>1, <2>2, SumEmpty, FS_EmptySet
  <1>8. ASSUME NEW t \in SUBSET E, t # {}
        PROVE  \E x \in t : t \ {x} \in U => t \in U
    <2>1. PICK x \in t : TRUE
      BY <1>8
    <2>2. IsFiniteSet(t)
      BY <1>2, FS_Subset
    <2>3. /\ SumFunctionOnSet(f, t) = f[x] + SumFunctionOnSet(f, t \ {x})
          /\ SumFunctionOnSet(c, t) = c[x] + SumFunctionOnSet(c, t \ {x})
      BY <1>4, <2>2, SumRemove
    <2>4. /\ Of(t) = a[x] \cup Of(t \ {x}) /\ a[x] \cap Of(t \ {x}) = {}
          /\ a[x] \subseteq 1..Len(q) /\ Of(t \ {x}) \subseteq 1..Len(q)
      BY <1>1 DEF AllOf
    <2> HIDE DEF Of
    <2>5. /\ SumOver(q, Of(t)) = SumOver(q, a[x]) + SumOver(q, Of(t \ {x}))
          /\ Cardinality(Of(t)) = Cardinality(a[x]) + Cardinality(Of(t \ {x}))
      <3> DEFINE I == a[x]
                 J == Of(t \ {x})
                 K == Of(t)
      <3>1. I \in SUBSET (1..Len(q)) /\ J \in SUBSET (1..Len(q)) /\ I \cap J = {} /\ K = I \cup J
        BY <2>4
      <3> HIDE DEF I, J, K
      <3>2. /\ SumOver(q, K) = SumOver(q, I) + SumOver(q, J)
            /\ Cardinality(K) = Cardinality(I) + Cardinality(J)
        BY <3>1, LogParts
      <3> QED
        BY <3>2 DEF I, J, K
    <2>6. f[x] = SumOver(q, a[x]) /\ c[x] = Cardinality(a[x])
      BY <1>3
    <2>7. ASSUME t \ {x} \in U PROVE t \in U
      <3>1. /\ SumFunctionOnSet(f, t \ {x}) = SumOver(q, Of(t \ {x}))
            /\ SumFunctionOnSet(c, t \ {x}) = Cardinality(Of(t \ {x}))
        BY <2>7
      <3>2. /\ SumFunctionOnSet(f, t) = SumOver(q, Of(t))
            /\ SumFunctionOnSet(c, t) = Cardinality(Of(t))
        BY <2>3, <2>5, <2>6, <3>1
      <3> QED
        BY <3>2
    <2> QED
      BY <2>7
  <1>9. E \in U
    <2> HIDE DEF U
    <2>1. U \in SUBSET (SUBSET E)
      BY DEF U
    <2> QED
      BY <1>2, <1>7, <1>8, <2>1, SetInduction
  <1>10. /\ Of(E) = Of(DOMAIN s) /\ Of(DOMAIN s) \subseteq 1..Len(q)
         /\ E = {} <=> Of(DOMAIN s) = {}
    BY <1>1 DEF AllOf
  <1> HIDE DEF Of
  <1>11. HistogramSum(s) = SumOver(q, Of(DOMAIN s)) /\ HistogramCount(s) = Cardinality(Of(DOMAIN s))
    BY <1>5, <1>6, <1>9, <1>10
  <1> QED
    BY <1>10, <1>11 DEF Of, E

-----------------------------------------------------------------------------
(* FleetMetrics: what relates a snapshot to the log.                       *)

PartialTo(V) == UNION {[D -> V] : D \in SUBSET Replicas}

SnapshotRecord ==
    [services : PartialTo(ServiceReading \cup {Failed}), load : PartialTo(Nat),
     seen : PartialTo(Nat), from : Nat, to : Nat]

\* What a snapshot is whatever the fleet did, n requests and d disturbances later: one
\* entry for every service that was asked, with a scalar that agrees with its load.
IsSnapshot(s, n, d) ==
    LET D == DOMAIN s.services
    IN  /\ s \in SnapshotRecord
        /\ D \in SUBSET Replicas
        /\ s.services \in [D -> ServiceReading \cup {Failed}]
        /\ s.load \in [D -> Nat]
        /\ s.seen \in [D -> 0..n]
        /\ \A r \in Scraped(s.services) :
              /\ s.services[r].scalar \in Nat \cup {Absent}
              /\ s.services[r].histogram \in Histogram
              /\ Scalar(s.services[r]) = s.load[r]
        /\ s.from <= s.to /\ s.to <= d

\* Every answer of s in the log q is that of a process which started at st.
Answers(s, q, st) ==
    \A r \in DOMAIN s.services :
        /\ st[r] <= s.seen[r]
        /\ s.services[r] \in {Failed, Exposes(q, MadeIn(q, r, st[r], s.seen[r]))}

\* All requests to r were made of the process that started at st.
Fresh(q, r, st) == MadeIn(q, r, 0, st[r]) = {}

\* b and n were taken, in this order, of processes that all ran throughout.
Linked(b, n, q) ==
    /\ DOMAIN b.services \subseteq DOMAIN n.services
    /\ \A r \in DOMAIN b.services : b.seen[r] <= n.seen[r]
    /\ \E st \in [Replicas -> 0..Len(q)] :
          /\ Answers(b, q, st) /\ Answers(n, q, st)
          /\ \A r \in DOMAIN n.services \ DOMAIN b.services : Fresh(q, r, st)

\* The requests a complete snapshot has counted.
Counted(s, st) ==
    AllOf([r \in DOMAIN s.services |-> MadeIn(requests, r, st[r], s.seen[r])], DOMAIN s.services)

LEMMA InCounted ==
  ASSUME NEW s, NEW st
  PROVE  \A i : i \in Counted(s, st) <=>
                   \E r \in DOMAIN s.services :
                      i \in (st[r] + 1)..s.seen[r] /\ requests[i].replica = r
  <1> DEFINE a == [r \in DOMAIN s.services |-> MadeIn(requests, r, st[r], s.seen[r])]
  <1>1. Counted(s, st) = AllOf(a, DOMAIN s.services)
    BY DEF Counted
  <1>2. \A r \in DOMAIN s.services : a[r] = MadeIn(requests, r, st[r], s.seen[r])
    OBVIOUS
  <1> HIDE DEF a
  <1>3. \A i : i \in Counted(s, st) <=>
                  \E r \in DOMAIN s.services : i \in MadeIn(requests, r, st[r], s.seen[r])
    BY <1>1, <1>2 DEF AllOf
  <1> QED
    BY <1>3 DEF MadeIn

LEMMA CompleteCounts ==
  ASSUME IsLog(requests), NEW s, NEW d, IsSnapshot(s, Len(requests), d), Complete(s),
         NEW st \in [Replicas -> 0..Len(requests)], Answers(s, requests, st)
  PROVE  /\ Counted(s, st) \in SUBSET (1..Len(requests))
         /\ HistogramSum(s.services) = SumOver(requests, Counted(s, st))
         /\ HistogramCount(s.services) = Cardinality(Counted(s, st))
         /\ Exposing(s.services) = {} <=> Counted(s, st) = {}
  <1> DEFINE a == [r \in DOMAIN s.services |-> MadeIn(requests, r, st[r], s.seen[r])]
  <1>1. IsFiniteSet(DOMAIN s.services)
    BY FleetAssumption, FS_Subset DEF IsSnapshot
  <1>2. ASSUME NEW r \in DOMAIN s.services
        PROVE  /\ a[r] \in SUBSET (1..Len(requests))
               /\ s.services[r] = Exposes(requests, a[r])
               /\ \A i \in a[r] : requests[i].replica = r
    <2>1. s.services[r] # Failed
      BY DEF Complete, Scraped
    <2>2. s.seen[r] \in 0..Len(requests) /\ st[r] \in 0..Len(requests) /\ Len(requests) \in Nat
      BY DEF IsSnapshot, IsLog
    <2>3. MadeIn(requests, r, st[r], s.seen[r]) \in SUBSET (1..Len(requests))
      BY <2>2 DEF MadeIn
    <2>4. \A i \in MadeIn(requests, r, st[r], s.seen[r]) : requests[i].replica = r
      BY DEF MadeIn
    <2>5. s.services[r] = Exposes(requests, MadeIn(requests, r, st[r], s.seen[r]))
      BY <2>1 DEF Answers
    <2> QED
      BY <2>3, <2>4, <2>5
  <1>3. Counted(s, st) = AllOf(a, DOMAIN s.services)
    BY DEF Counted
  <1> HIDE DEF a
  <1> QED
    BY <1>1, <1>2, <1>3, HistogramOfLog

LEMMA CountedBetween ==
  ASSUME IsLog(requests), NEW b, NEW n, NEW d,
         IsSnapshot(b, Len(requests), d), IsSnapshot(n, Len(requests), d),
         DOMAIN b.services \subseteq DOMAIN n.services,
         \A r \in DOMAIN b.services : b.seen[r] <= n.seen[r],
         NEW st \in [Replicas -> 0..Len(requests)],
         Answers(b, requests, st), Answers(n, requests, st),
         \A r \in DOMAIN n.services \ DOMAIN b.services : Fresh(requests, r, st)
  PROVE  /\ Counted(n, st) = Counted(b, st) \cup Between(b, n)
         /\ Counted(b, st) \cap Between(b, n) = {}
         /\ Between(b, n) \in SUBSET (1..Len(requests))
  <1> DEFINE B == DOMAIN b.services
             N == DOMAIN n.services
             who(i) == requests[i].replica
  <1>1. /\ Len(requests) \in Nat
        /\ \A r \in N : st[r] \in 0..Len(requests) /\ n.seen[r] \in 0..Len(requests)
        /\ \A r \in B : b.seen[r] \in 0..Len(requests) /\ st[r] <= b.seen[r]
        /\ DOMAIN b.seen = B /\ DOMAIN n.seen = N /\ B \subseteq N
    BY DEF IsSnapshot, IsLog, Answers
  <1>2. \A i : i \in Counted(n, st) <=>
                 /\ i \in 1..Len(requests)
                 /\ who(i) \in N /\ st[who(i)] < i /\ i <= n.seen[who(i)]
    <2>1. \A i : i \in Counted(n, st) <=>
                   \E r \in N : i \in (st[r] + 1)..n.seen[r] /\ who(i) = r
      BY InCounted
    <2> QED
      BY <1>1, <2>1
  <1>3. \A i : i \in Counted(b, st) <=>
                 /\ i \in 1..Len(requests)
                 /\ who(i) \in B /\ st[who(i)] < i /\ i <= b.seen[who(i)]
    <2>1. \A i : i \in Counted(b, st) <=>
                   \E r \in B : i \in (st[r] + 1)..b.seen[r] /\ who(i) = r
      BY InCounted
    <2> QED
      BY <1>1, <2>1
  <1>4. \A i \in 1..Len(requests) : who(i) \in N \ B => st[who(i)] < i
    <2> SUFFICES ASSUME NEW i \in 1..Len(requests), who(i) \in N \ B, ~ (st[who(i)] < i)
                 PROVE  FALSE
      OBVIOUS
    <2>1. i \in 1..st[who(i)]
      BY <1>1
    <2>2. i \in MadeIn(requests, who(i), 0, st[who(i)])
      BY <2>1 DEF MadeIn
    <2> QED
      BY <2>2 DEF Fresh
  <1>5. \A i : i \in Between(b, n) <=>
                 /\ i \in 1..Len(requests)
                 /\ who(i) \in N /\ i <= n.seen[who(i)]
                 /\ who(i) \in B => i > b.seen[who(i)]
    BY <1>1 DEF Between
  <1> HIDE DEF B, N, who
  <1>6. Counted(b, st) \cap Between(b, n) = {}
    BY <1>1, <1>3, <1>5
  <1>7. \A i : i \in Counted(n, st) <=> i \in Counted(b, st) \/ i \in Between(b, n)
    <2> TAKE i
    <2>1. CASE i \in 1..Len(requests) /\ who(i) \in N /\ who(i) \in B
      <3>1. b.seen[who(i)] <= n.seen[who(i)] /\ st[who(i)] <= b.seen[who(i)]
        BY <1>1, <2>1 DEF B
      <3> QED
        BY <1>1, <1>2, <1>3, <1>5, <2>1, <3>1
    <2>2. CASE i \in 1..Len(requests) /\ who(i) \in N /\ who(i) \notin B
      BY <1>2, <1>3, <1>4, <1>5, <2>2
    <2>3. CASE ~ (i \in 1..Len(requests) /\ who(i) \in N)
      BY <1>1, <1>2, <1>3, <1>5, <2>3
    <2> QED
      BY <2>1, <2>2, <2>3
  <1> QED
    BY <1>5, <1>6, <1>7

LEMMA LinkedIsExact ==
  ASSUME IsLog(requests), NEW b, NEW n, NEW d,
         IsSnapshot(b, Len(requests), d), IsSnapshot(n, Len(requests), d), Linked(b, n, requests),
         Complete(b), Complete(n), Exposing(b.services) # {}
  PROVE  LET average == WindowedAverage(b.services, n.services)
             I == Between(b, n)
         IN  IF I = {} THEN average = Zero
             ELSE average.num * Cardinality(I) = average.den * Total(I)
  <1> DEFINE I == Between(b, n)
             total == SumOver(requests, I)
             m == Cardinality(I)
  <1>1. PICK st \in [Replicas -> 0..Len(requests)] :
          /\ Answers(b, requests, st) /\ Answers(n, requests, st)
          /\ \A r \in DOMAIN n.services \ DOMAIN b.services : Fresh(requests, r, st)
    BY DEF Linked
  <1> DEFINE B == Counted(b, st)
             N == Counted(n, st)
  <1>2. /\ N = B \cup I /\ B \cap I = {} /\ I \in SUBSET (1..Len(requests))
    BY <1>1, CountedBetween DEF Linked
  <1>3. /\ B \in SUBSET (1..Len(requests)) /\ B # {}
        /\ HistogramSum(b.services) = SumOver(requests, B)
        /\ HistogramCount(b.services) = Cardinality(B)
    BY <1>1, CompleteCounts
  <1>4. /\ HistogramSum(n.services) = SumOver(requests, N)
        /\ HistogramCount(n.services) = Cardinality(N)
        /\ N # {} => Exposing(n.services) # {}
    BY <1>1, CompleteCounts
  <1> HIDE DEF B, N, I
  <1>5. /\ SumOver(requests, N) = SumOver(requests, B) + total
        /\ Cardinality(N) = Cardinality(B) + m
    <2>1. B \in SUBSET (1..Len(requests)) /\ I \in SUBSET (1..Len(requests)) /\ B \cap I = {}
      BY <1>2, <1>3
    <2> QED
      BY <1>2, <2>1, LogParts
  <1>6. /\ SumOver(requests, B) \in Nat /\ total \in Nat
        /\ Cardinality(B) \in Nat /\ m \in Nat /\ IsFiniteSet(I)
    BY <1>2, <1>3, LogSum
  <1>7. Exposing(n.services) # {}
    BY <1>2, <1>3, <1>4
  <1>8. /\ HistogramSum(n.services) - HistogramSum(b.services) = total
        /\ HistogramCount(n.services) - HistogramCount(b.services) = m
    BY <1>3, <1>4, <1>5, <1>6
  <1> HIDE DEF total, m
  <1>9. WindowedAverage(b.services, n.services) =
           IF m <= 0 THEN Zero ELSE [num |-> total, den |-> m]
    BY <1>6, <1>7, <1>8 DEF WindowedAverage
  <1>10. m = 0 <=> I = {}
    BY <1>6, FS_EmptySet DEF m
  <1>11. Total(I) = total
    BY DEF Total, total, SumOver
  <1>12. total * m = m * total
    BY <1>6
  <1> DEFINE average == WindowedAverage(b.services, n.services)
  <1>13. CASE I = {}
    BY <1>9, <1>10, <1>13 DEF I
  <1>14. CASE I # {}
    <2>1. average = [num |-> total, den |-> m]
      BY <1>6, <1>9, <1>10, <1>14
    <2>2. average.num = total /\ average.den = m
      BY <2>1
    <2>3. average.num * Cardinality(I) = average.den * Total(I)
      BY <1>11, <1>12, <2>2 DEF m
    <2> QED
      BY <1>14, <2>3 DEF I
  <1> QED
    BY <1>13, <1>14

-----------------------------------------------------------------------------
(* FleetMetrics: the inductive invariant.                                  *)

\* While nothing is disturbed: the processes that s asked still run, started at st, and
\* a member that s neither asked nor is going to ask has joined since.
Current(s, pending, q, st, m) ==
    /\ DOMAIN s.services \cup pending \subseteq m
    /\ Answers(s, q, st)
    /\ \A r \in m \ (DOMAIN s.services \cup pending) : Fresh(q, r, st)

LogOK ==
    /\ members \in SUBSET Replicas
    /\ gone \in SUBSET Replicas
    /\ IsLog(requests)
    /\ \A i \in 1..Len(requests) : requests[i].replica \in members \cup gone
    /\ started \in [Replicas -> 0..Len(requests)]
    /\ disturbances \in 0..MaxDisturbances
    /\ listed \in SUBSET Replicas

TakenOK ==
    /\ taken \in Seq(SnapshotRecord)
    /\ \A k \in 1..Len(taken) :
          /\ IsSnapshot(taken[k], Len(requests), disturbances)
          /\ taken[k].from = disturbances =>
                Current(taken[k], {}, requests, started, members)

TakingOK ==
    /\ IsSnapshot(taking, Len(requests), disturbances)
    /\ listed # {} =>
        /\ taking.from = disturbances => Current(taking, listed, requests, started, members)
        /\ \A k \in 1..Len(taken) :
              /\ taken[k].from <= taking.from
              /\ \A r \in DOMAIN taken[k].services \cap DOMAIN taking.services :
                    taken[k].seen[r] <= taking.seen[r]
              /\ taken[k].from = disturbances =>
                    DOMAIN taken[k].services \subseteq DOMAIN taking.services \cup listed

PairsLinked ==
    \A j, k \in 1..Len(taken) :
        j < k /\ taken[j].from = taken[k].to => Linked(taken[j], taken[k], requests)

FInv == LogOK /\ TakenOK /\ TakingOK /\ PairsLinked

-----------------------------------------------------------------------------
LEMMA AppendLog ==
  ASSUME NEW q, IsLog(q), NEW e \in Request
  PROVE  /\ IsLog(Append(q, e)) /\ Len(q) \in Nat /\ Len(Append(q, e)) = Len(q) + 1
         /\ \A i \in 1..Len(q) : Append(q, e)[i] = q[i]
         /\ Append(q, e)[Len(q) + 1] = e
  BY DEF IsLog

LEMMA MadeInPrefix ==
  ASSUME NEW q, IsLog(q), NEW e \in Request, NEW r,
         NEW from \in 0..Len(q), NEW to \in 0..Len(q)
  PROVE  /\ MadeIn(Append(q, e), r, from, to) = MadeIn(q, r, from, to)
         /\ Exposes(Append(q, e), MadeIn(q, r, from, to)) = Exposes(q, MadeIn(q, r, from, to))
  <1> DEFINE p == Append(q, e)
             I == MadeIn(q, r, from, to)
  <1>1. Len(q) \in Nat /\ \A i \in 1..Len(q) : p[i] = q[i]
    BY AppendLog
  <1> HIDE DEF p
  <1>2. \A i \in (from + 1)..to : p[i] = q[i]
    BY <1>1
  <1>3. MadeIn(p, r, from, to) = I
    BY <1>2 DEF MadeIn
  <1>4. \A i \in I : p[i] = q[i]
    BY <1>2 DEF MadeIn
  <1> HIDE DEF I
  <1>5. [i \in I |-> p[i].value] = [i \in I |-> q[i].value]
    BY <1>4
  <1>6. SumOver(p, I) = SumOver(q, I)
    BY <1>5, Zenon DEF SumOver
  <1>7. Exposes(p, I) = Exposes(q, I)
    BY <1>6, Zenon DEF Exposes
  <1> QED
    BY <1>3, <1>7 DEF p, I

LEMMA SnapshotAges ==
  ASSUME NEW s, NEW n \in Nat, NEW d \in Nat, IsSnapshot(s, n, d),
         NEW m \in Nat, n <= m, NEW e \in Nat, d <= e
  PROVE  IsSnapshot(s, m, e)
  <1>1. s.from \in Nat /\ s.to \in Nat
    BY DEF IsSnapshot, SnapshotRecord
  <1>2. s.seen \in [DOMAIN s.services -> 0..m]
    BY DEF IsSnapshot
  <1> QED
    BY <1>1, <1>2 DEF IsSnapshot

LEMMA AnswersPrefix ==
  ASSUME NEW q, IsLog(q), NEW e \in Request, NEW s, NEW d, IsSnapshot(s, Len(q), d),
         NEW st \in [Replicas -> 0..Len(q)], Answers(s, q, st)
  PROVE  Answers(s, Append(q, e), st)
  <1> SUFFICES ASSUME NEW r \in DOMAIN s.services
               PROVE  /\ st[r] <= s.seen[r]
                      /\ s.services[r] \in
                           {Failed, Exposes(Append(q, e), MadeIn(Append(q, e), r, st[r], s.seen[r]))}
    BY DEF Answers
  <1>1. st[r] \in 0..Len(q) /\ s.seen[r] \in 0..Len(q)
    BY DEF IsSnapshot
  <1>2. Exposes(Append(q, e), MadeIn(Append(q, e), r, st[r], s.seen[r]))
          = Exposes(q, MadeIn(q, r, st[r], s.seen[r]))
    BY <1>1, MadeInPrefix
  <1> QED
    BY <1>2 DEF Answers

LEMMA FreshPrefix ==
  ASSUME NEW q, IsLog(q), NEW e \in Request, NEW r \in Replicas,
         NEW st \in [Replicas -> 0..Len(q)], Fresh(q, r, st)
  PROVE  Fresh(Append(q, e), r, st)
  <1>1. st[r] \in 0..Len(q) /\ 0 \in 0..Len(q)
    BY DEF IsLog
  <1> QED
    BY <1>1, MadeInPrefix DEF Fresh

LEMMA CurrentPrefix ==
  ASSUME NEW q, IsLog(q), NEW e \in Request, NEW s, NEW d, IsSnapshot(s, Len(q), d),
         NEW st \in [Replicas -> 0..Len(q)], NEW pending, NEW m \in SUBSET Replicas,
         Current(s, pending, q, st, m)
  PROVE  Current(s, pending, Append(q, e), st, m)
  BY AnswersPrefix, FreshPrefix DEF Current

LEMMA LinkedPrefix ==
  ASSUME NEW q, IsLog(q), NEW e \in Request, NEW b, NEW n, NEW d,
         IsSnapshot(b, Len(q), d), IsSnapshot(n, Len(q), d), Linked(b, n, q)
  PROVE  Linked(b, n, Append(q, e))
  <1>1. PICK st \in [Replicas -> 0..Len(q)] :
          /\ Answers(b, q, st) /\ Answers(n, q, st)
          /\ \A r \in DOMAIN n.services \ DOMAIN b.services : Fresh(q, r, st)
    BY DEF Linked
  <1>2. st \in [Replicas -> 0..Len(Append(q, e))]
    <2>1. Len(q) \in Nat /\ Len(Append(q, e)) = Len(q) + 1
      BY AppendLog
    <2> QED
      BY <2>1
  <1>3. Answers(b, Append(q, e), st) /\ Answers(n, Append(q, e), st)
    BY <1>1, AnswersPrefix
  <1>4. \A r \in DOMAIN n.services \ DOMAIN b.services : Fresh(Append(q, e), r, st)
    BY <1>1, FreshPrefix DEF IsSnapshot
  <1> QED
    BY <1>2, <1>3, <1>4 DEF Linked

\* A name that was never used joins.
LEMMA CurrentJoin ==
  ASSUME NEW q, IsLog(q), NEW s, NEW st \in [Replicas -> 0..Len(q)], NEW pending,
         NEW m \in SUBSET Replicas, Current(s, pending, q, st, m),
         NEW r \in Replicas \ m, \A i \in 1..Len(q) : q[i].replica # r
  PROVE  Current(s, pending, q, [st EXCEPT ![r] = Len(q)], m \cup {r})
  <1> DEFINE now == [st EXCEPT ![r] = Len(q)]
  <1>1. now[r] = Len(q) /\ \A x \in m : now[x] = st[x]
    OBVIOUS
  <1> HIDE DEF now
  <1>2. Fresh(q, r, now)
    BY <1>1 DEF Fresh, MadeIn
  <1>3. \A x \in m : Fresh(q, x, st) => Fresh(q, x, now)
    BY <1>1 DEF Fresh
  <1>4. Answers(s, q, now)
    BY <1>1 DEF Current, Answers
  <1>5. Current(s, pending, q, now, m \cup {r})
    BY <1>2, <1>3, <1>4 DEF Current
  <1> QED
    BY <1>5 DEF now

\* Two snapshots that are both current are linked.
LEMMA CurrentLinked ==
  ASSUME NEW b, NEW n, NEW q, NEW st \in [Replicas -> 0..Len(q)], NEW m,
         Current(b, {}, q, st, m), Current(n, {}, q, st, m),
         DOMAIN b.services \subseteq DOMAIN n.services,
         \A r \in DOMAIN b.services : b.seen[r] <= n.seen[r]
  PROVE  Linked(b, n, q)
  <1>1. \A r \in DOMAIN n.services \ DOMAIN b.services : Fresh(q, r, st)
    BY DEF Current
  <1> QED
    BY <1>1 DEF Current, Linked

-----------------------------------------------------------------------------
(* FleetMetrics: its steps.                                                *)

LEMMA BlankSnapshot ==
  ASSUME NEW n \in Nat, NEW d \in Nat, NEW e \in Nat, d <= e
  PROVE  IsSnapshot(Blank(d), n, e) /\ DOMAIN Blank(d).services = {}
  <1> DEFINE s == Blank(d)
  <1>1. s.services = << >> /\ s.load = << >> /\ s.seen = << >> /\ s.from = d /\ s.to = d
    BY DEF Blank
  <1>2. \A V : << >> \in [{} -> V]
    OBVIOUS
  <1>3. \A V : << >> \in PartialTo(V)
    BY <1>2 DEF PartialTo
  <1>4. s \in SnapshotRecord
    BY <1>3 DEF Blank, SnapshotRecord
  <1>5. DOMAIN << >> = {} /\ Scraped(<< >>) = {}
    BY DEF Scraped
  <1> HIDE DEF s
  <1>6. IsSnapshot(s, n, e)
    BY <1>1, <1>2, <1>4, <1>5 DEF IsSnapshot
  <1> QED
    BY <1>1, <1>5, <1>6 DEF s

LEMMA BlankCurrent ==
  ASSUME NEW q, NEW st, NEW m, NEW d \in Nat
  PROVE  Current(Blank(d), m, q, st, m)
  <1>1. DOMAIN Blank(d).services = {}
    BY BlankSnapshot
  <1> QED
    BY <1>1 DEF Current, Answers

LEMMA FleetInitInv == FleetInit => FInv
  <1> SUFFICES ASSUME FleetInit PROVE FInv
    OBVIOUS
  <1>1. LogOK
    BY FleetAssumption DEF FleetInit, LogOK, IsLog
  <1>2. TakenOK /\ PairsLinked
    BY DEF FleetInit, TakenOK, PairsLinked
  <1>3. TakingOK
    <2>1. taking = Blank(0) /\ listed = {} /\ Len(requests) = 0 /\ disturbances = 0
      BY DEF FleetInit
    <2> QED
      BY <2>1, BlankSnapshot DEF TakingOK
  <1> QED
    BY <1>1, <1>2, <1>3 DEF FInv

LEMMA ServeInv ==
  ASSUME FInv, NEW r \in Replicas, NEW v \in Values, Serve(r, v)
  PROVE  FInv'
  <1> DEFINE e == [replica |-> r, value |-> v]
  <1>1. /\ e \in Request /\ r \in members /\ requests' = Append(requests, e)
        /\ UNCHANGED <<members, gone, started, disturbances, listed, taking, taken>>
    BY DEF Serve, Request
  <1>2. /\ IsLog(requests) /\ started \in [Replicas -> 0..Len(requests)]
        /\ disturbances \in Nat /\ members \in SUBSET Replicas
    BY FleetAssumption DEF FInv, LogOK
  <1>3. /\ IsLog(requests') /\ Len(requests) \in Nat /\ Len(requests') = Len(requests) + 1
        /\ \A i \in 1..Len(requests) : requests'[i] = requests[i]
        /\ requests'[Len(requests) + 1] = e
    BY <1>1, <1>2, AppendLog
  <1>4. e.replica = r
    OBVIOUS
  <1> HIDE DEF e
  <1>5. LogOK'
    <2>1. \A i \in 1..Len(requests') : requests'[i].replica \in members' \cup gone'
      BY <1>1, <1>3, <1>4 DEF FInv, LogOK
    <2> QED
      BY <1>1, <1>3, <2>1 DEF FInv, LogOK
  <1>6. TakenOK'
    <2>1. \A k \in 1..Len(taken) : IsSnapshot(taken[k], Len(requests'), disturbances)
      BY <1>2, <1>3, SnapshotAges DEF FInv, TakenOK
    <2>2. \A k \in 1..Len(taken) :
             taken[k].from = disturbances => Current(taken[k], {}, requests', started, members)
      BY <1>1, <1>2, CurrentPrefix DEF FInv, TakenOK
    <2> QED
      BY <1>1, <2>1, <2>2 DEF FInv, TakenOK
  <1>7. TakingOK'
    <2>1. IsSnapshot(taking, Len(requests'), disturbances)
      BY <1>2, <1>3, SnapshotAges DEF FInv, TakingOK
    <2>2. listed # {} /\ taking.from = disturbances =>
            Current(taking, listed, requests', started, members)
      BY <1>1, <1>2, CurrentPrefix DEF FInv, TakingOK
    <2> QED
      BY <1>1, <2>1, <2>2 DEF FInv, TakingOK
  <1>8. PairsLinked'
    <2>1. \A j, k \in 1..Len(taken) :
             j < k /\ taken[j].from = taken[k].to => Linked(taken[j], taken[k], requests')
      BY <1>1, <1>2, LinkedPrefix DEF FInv, PairsLinked, TakenOK
    <2> QED
      BY <1>1, <2>1 DEF PairsLinked
  <1> QED
    BY <1>5, <1>6, <1>7, <1>8 DEF FInv

LEMMA JoinInv ==
  ASSUME FInv, NEW r \in Replicas, Join(r)
  PROVE  FInv'
  <1>1. /\ r \notin members \cup gone /\ members' = members \cup {r}
        /\ started' = [started EXCEPT ![r] = Len(requests)]
        /\ UNCHANGED <<gone, requests, disturbances, listed, taking, taken>>
    BY DEF Join
  <1>2. /\ IsLog(requests) /\ started \in [Replicas -> 0..Len(requests)]
        /\ members \in SUBSET Replicas /\ Len(requests) \in Nat
        /\ r \in Replicas \ members /\ \A i \in 1..Len(requests) : requests[i].replica # r
    BY <1>1 DEF FInv, LogOK, IsLog
  <1>3. LogOK'
    BY <1>1, <1>2 DEF FInv, LogOK
  <1>4. \A s, pending : Current(s, pending, requests, started, members) =>
                           Current(s, pending, requests, started', members')
    BY <1>1, <1>2, CurrentJoin
  <1>5. TakenOK'
    BY <1>1, <1>4 DEF FInv, TakenOK
  <1>6. TakingOK'
    BY <1>1, <1>4 DEF FInv, TakingOK
  <1>7. PairsLinked'
    BY <1>1 DEF FInv, PairsLinked
  <1> QED
    BY <1>3, <1>5, <1>6, <1>7 DEF FInv

\* A disturbance: no snapshot is current any more.
LEMMA DisturbInv ==
  ASSUME FInv, Disturb, UNCHANGED <<requests, listed, taking, taken>>, LogOK'
  PROVE  FInv'
  <1>1. /\ disturbances \in Nat /\ disturbances' = disturbances + 1 /\ Len(requests) \in Nat
        /\ requests' = requests /\ listed' = listed /\ taking' = taking /\ taken' = taken
    BY DEF FInv, LogOK, IsLog, Disturb
  <1>2. ASSUME NEW s, IsSnapshot(s, Len(requests), disturbances)
        PROVE  IsSnapshot(s, Len(requests), disturbances') /\ s.from # disturbances'
    <2>1. s.from \in Nat /\ s.to \in Nat /\ s.from <= s.to /\ s.to <= disturbances
      BY <1>2 DEF IsSnapshot, SnapshotRecord
    <2>2. IsSnapshot(s, Len(requests), disturbances')
      BY <1>1, <1>2, SnapshotAges
    <2> QED
      BY <1>1, <2>1, <2>2
  <1>3. TakenOK'
    BY <1>1, <1>2 DEF FInv, TakenOK
  <1>4. TakingOK'
    BY <1>1, <1>2 DEF FInv, TakingOK, TakenOK
  <1>5. PairsLinked'
    BY <1>1 DEF FInv, PairsLinked
  <1> QED
    BY <1>3, <1>4, <1>5 DEF FInv

LEMMA LeaveInv ==
  ASSUME FInv, NEW r \in Replicas, Leave(r)
  PROVE  FInv'
  <1>1. LogOK'
    BY FleetAssumption DEF FInv, LogOK, Leave, Disturb
  <1> QED
    BY <1>1, DisturbInv DEF Leave

LEMMA RestartInv ==
  ASSUME FInv, NEW r \in Replicas, Restart(r)
  PROVE  FInv'
  <1>1. LogOK'
    BY FleetAssumption DEF FInv, LogOK, IsLog, Restart, Disturb
  <1> QED
    BY <1>1, DisturbInv DEF Restart

\* A snapshot is finished.
LEMMA FinishedInv ==
  ASSUME FInv, NEW s, taken' = Append(taken, s), listed' = {}, taking' = Blank(0) \/ taking' = taking,
         UNCHANGED <<members, gone, requests, started, disturbances>>,
         IsSnapshot(s, Len(requests), disturbances), s.to = disturbances,
         s.from = disturbances => Current(s, {}, requests, started, members),
         \A k \in 1..Len(taken) :
            /\ taken[k].from <= s.from
            /\ taken[k].from = disturbances =>
                  /\ DOMAIN taken[k].services \subseteq DOMAIN s.services
                  /\ \A r \in DOMAIN taken[k].services : taken[k].seen[r] <= s.seen[r]
  PROVE  FInv'
  <1>1. /\ requests' = requests /\ members' = members /\ started' = started
        /\ disturbances' = disturbances /\ disturbances \in Nat /\ Len(requests) \in Nat
        /\ started \in [Replicas -> 0..Len(requests)]
    BY FleetAssumption DEF FInv, LogOK, IsLog
  <1>2. /\ taken' \in Seq(SnapshotRecord) /\ Len(taken) \in Nat /\ Len(taken') = Len(taken) + 1
        /\ \A k \in 1..Len(taken) : taken'[k] = taken[k]
        /\ taken'[Len(taken) + 1] = s
        /\ s \in SnapshotRecord
    BY DEF FInv, TakenOK, IsSnapshot
  <1>3. LogOK'
    BY <1>1 DEF FInv, LogOK
  <1>4. TakenOK'
    BY <1>1, <1>2 DEF FInv, TakenOK
  <1>5. TakingOK'
    BY <1>1, BlankSnapshot DEF FInv, TakingOK
  <1>6. PairsLinked'
    <2> SUFFICES ASSUME NEW j \in 1..(Len(taken) + 1), NEW k \in 1..(Len(taken) + 1), j < k,
                        taken'[j].from = taken'[k].to
                 PROVE  Linked(taken'[j], taken'[k], requests)
      BY <1>1, <1>2 DEF PairsLinked
    <2>1. j \in 1..Len(taken) /\ taken'[j] = taken[j]
      BY <1>2
    <2>2. CASE k \in 1..Len(taken)
      BY <1>2, <2>1, <2>2 DEF FInv, PairsLinked
    <2>3. CASE k = Len(taken) + 1
      <3>1. taken[j].from = disturbances
        BY <1>2, <2>1, <2>3
      <3>2. s.from = disturbances
        <4>1. s.from \in Nat /\ s.to \in Nat /\ s.from <= s.to
          BY <1>2 DEF IsSnapshot, SnapshotRecord
        <4>2. taken[j].from <= s.from
          BY <2>1
        <4> QED
          BY <1>1, <3>1, <4>1, <4>2
      <3>3. Current(taken[j], {}, requests, started, members)
        BY <2>1, <3>1 DEF FInv, TakenOK
      <3>4. Current(s, {}, requests, started, members)
        BY <3>2
      <3>5. Linked(taken[j], s, requests)
        BY <1>1, <2>1, <3>1, <3>3, <3>4, CurrentLinked
      <3> QED
        BY <1>2, <2>1, <2>3, <3>5
    <2> QED
      BY <1>2, <2>2, <2>3
  <1> QED
    BY <1>3, <1>4, <1>5, <1>6 DEF FInv

LEMMA BeginScrapeInv ==
  ASSUME FInv, BeginScrape
  PROVE  FInv'
  <1> DEFINE s == Blank(disturbances)
  <1>1. /\ listed = {} /\ listed' = members
        /\ members = {} => taken' = Append(taken, s) /\ taking' = taking
        /\ members # {} => taking' = s /\ taken' = taken
        /\ UNCHANGED <<members, gone, requests, started, disturbances>>
    BY DEF BeginScrape
  <1>2. disturbances \in Nat /\ Len(requests) \in Nat
    BY FleetAssumption DEF FInv, LogOK, IsLog
  <1>3. /\ IsSnapshot(s, Len(requests), disturbances) /\ DOMAIN s.services = {}
        /\ s.from = disturbances /\ s.to = disturbances
        /\ Current(s, members, requests, started, members)
    BY <1>2, BlankSnapshot, BlankCurrent DEF Blank
  <1>4. \A k \in 1..Len(taken) :
           /\ taken[k].from <= s.from
           /\ taken[k].from = disturbances => DOMAIN taken[k].services \subseteq members
    <2> TAKE k \in 1..Len(taken)
    <2>1. /\ taken[k].from \in Nat /\ taken[k].to \in Nat
          /\ taken[k].from <= taken[k].to /\ taken[k].to <= disturbances
      BY DEF FInv, TakenOK, IsSnapshot, SnapshotRecord
    <2>2. taken[k].from = disturbances => DOMAIN taken[k].services \subseteq members
      BY DEF FInv, TakenOK, Current
    <2> QED
      BY <1>2, <1>3, <2>1, <2>2
  <1> HIDE DEF s
  <1>5. CASE members = {}
    <2>1. listed' = {}
      BY <1>1, <1>5
    <2>2. Current(s, {}, requests, started, members)
      BY <1>3, <1>5, Zenon
    <2>3. \A k \in 1..Len(taken) : taken[k].from = disturbances =>
                                      DOMAIN taken[k].services = {}
      BY <1>4, <1>5
    <2> QED
      BY <1>1, <1>3, <1>4, <1>5, <2>1, <2>2, <2>3, FinishedInv
  <1>6. CASE members # {}
    <2>1. /\ taking' = s /\ taken' = taken /\ listed' = members
          /\ requests' = requests /\ members' = members /\ started' = started
          /\ disturbances' = disturbances /\ gone' = gone
      BY <1>1, <1>6
    <2>2. LogOK'
      BY <2>1 DEF FInv, LogOK
    <2>3. TakenOK'
      BY <2>1 DEF FInv, TakenOK
    <2>4. TakingOK'
      BY <1>3, <1>4, <2>1 DEF TakingOK
    <2>5. PairsLinked'
      BY <2>1 DEF FInv, PairsLinked
    <2> QED
      BY <2>2, <2>3, <2>4, <2>5 DEF FInv
  <1> QED
    BY <1>5, <1>6

\* The next service answers, or does not.
LEMMA SnapshotGrows ==
  ASSUME NEW q, IsLog(q), NEW t, NEW d \in Nat, IsSnapshot(t, Len(q), d), NEW s,
         NEW r \in Replicas, NEW I \in SUBSET (1..Len(q)), NEW reply \in {Failed, Exposes(q, I)},
         s = [services |-> s.services, load |-> s.load, seen |-> s.seen,
              from |-> s.from, to |-> s.to],
         s.services = With(t.services, r, reply),
         s.load = With(t.load, r, Cardinality(I)),
         s.seen = With(t.seen, r, Len(q)), s.from = t.from, s.to = d
  PROVE  IsSnapshot(s, Len(q), d)
  <1> DEFINE T == DOMAIN t.services
             S == T \cup {r}
  <1>1. /\ T \in SUBSET Replicas /\ DOMAIN t.load = T /\ DOMAIN t.seen = T /\ Len(q) \in Nat
        /\ t.services \in [T -> ServiceReading \cup {Failed}]
        /\ t.load \in [T -> Nat] /\ t.seen \in [T -> 0..Len(q)]
        /\ t.from \in Nat /\ t.to \in Nat /\ t.from <= t.to /\ t.to <= d
    BY DEF IsSnapshot, IsLog, SnapshotRecord
  <1>2. Cardinality(I) \in Nat
    BY LogSum
  <1>3. reply \in ServiceReading \cup {Failed}
    BY ExposesReading
  <1> HIDE DEF T
  <1>4. /\ s.services \in [S -> ServiceReading \cup {Failed}]
        /\ s.load \in [S -> Nat] /\ s.seen \in [S -> 0..Len(q)]
    BY <1>1, <1>2, <1>3 DEF With, T
  <1>5. S \in SUBSET Replicas /\ DOMAIN s.services = S
    BY <1>1, <1>4
  <1>6. s \in SnapshotRecord
    <2>1. /\ s.services \in PartialTo(ServiceReading \cup {Failed})
          /\ s.load \in PartialTo(Nat) /\ s.seen \in PartialTo(Nat)
      <3>1. s.seen \in [S -> Nat]
        BY <1>4
      <3> HIDE DEF S
      <3> QED
        BY <1>4, <1>5, <3>1 DEF PartialTo
    <2> QED
      BY <1>1, <2>1 DEF SnapshotRecord
  <1>7. ASSUME NEW x \in Scraped(s.services)
        PROVE  /\ s.services[x].scalar \in Nat \cup {Absent}
               /\ s.services[x].histogram \in Histogram
               /\ Scalar(s.services[x]) = s.load[x]
    <2>1. CASE x = r
      <3>1. s.services[x] = Exposes(q, I) /\ s.load[x] = Cardinality(I)
        <4>1. s.services[x] = reply /\ s.load[x] = Cardinality(I)
          BY <1>1, <2>1 DEF With
        <4> QED
          BY <4>1 DEF Scraped
      <3> QED
        BY <3>1, ExposesReading
    <2>2. CASE x # r
      <3>1. x \in T /\ s.services[x] = t.services[x] /\ s.load[x] = t.load[x]
        BY <1>1, <1>5, <2>2 DEF With, Scraped, T
      <3> QED
        BY <3>1 DEF IsSnapshot, Scraped, T
    <2> QED
      BY <2>1, <2>2
  <1> HIDE DEF S
  <1> QED
    BY <1>1, <1>4, <1>5, <1>6, <1>7 DEF IsSnapshot

LEMMA ScrapeServiceInv ==
  ASSUME FInv, NEW r \in Replicas, NEW reply, ScrapeService(r, reply)
  PROVE  FInv'
  <1> DEFINE s == Asked(r, reply)
             D == DOMAIN taking.services
             now == Len(requests)
  <1>1. /\ r \in listed /\ listed' = listed \ {r}
        /\ reply = Failed \/ (r \in members /\ reply = Reading(r))
        /\ IF listed' = {} THEN taken' = Append(taken, s) /\ taking' = Blank(0)
                           ELSE taking' = s /\ UNCHANGED taken
        /\ UNCHANGED <<members, gone, requests, started, disturbances>>
    BY DEF ScrapeService
  <1>2. /\ IsLog(requests) /\ now \in Nat /\ disturbances \in Nat
        /\ started \in [Replicas -> 0..now]
        /\ IsSnapshot(taking, now, disturbances)
    BY FleetAssumption DEF FInv, LogOK, IsLog, TakingOK
  <1> DEFINE I == MadeIn(requests, r, started[r], now)
  <1>3. /\ I \in SUBSET (1..now) /\ Made(r) = I /\ Reading(r) = Exposes(requests, I)
        /\ Cardinality(I) \in Nat
    <2>1. started[r] \in 0..now
      BY <1>2
    <2>2. I \in SUBSET (1..now) /\ Made(r) = I
      BY <1>2, <2>1 DEF MadeIn, Made
    <2> HIDE DEF I
    <2>3. Reading(r) = Exposes(requests, I)
      BY <2>2, Zenon DEF Reading, Exposes, Total, SumOver
    <2>4. Cardinality(I) \in Nat
      BY <1>2, <2>2, LogSum
    <2> QED
      BY <2>2, <2>3, <2>4
  <1>4. reply \in {Failed, Exposes(requests, I)}
    BY <1>1, <1>3
  <1>5. /\ s.services = With(taking.services, r, reply)
        /\ s.load = With(taking.load, r, Cardinality(I))
        /\ s.seen = With(taking.seen, r, now)
        /\ s.from = taking.from /\ s.to = disturbances
        /\ s = [services |-> s.services, load |-> s.load, seen |-> s.seen,
                from |-> s.from, to |-> s.to]
    BY <1>3 DEF Asked
  <1>6. /\ DOMAIN s.services = D \cup {r} /\ s.services[r] = reply /\ s.seen[r] = now
        /\ \A x \in D \ {r} : s.services[x] = taking.services[x] /\ s.seen[x] = taking.seen[x]
    BY <1>2, <1>5 DEF With, IsSnapshot
  <1>7. IsSnapshot(s, now, disturbances)
    <2> HIDE DEF s, I
    <2> QED
      BY <1>2, <1>3, <1>4, <1>5, SnapshotGrows
  <1>8. taking.from = disturbances => Current(s, listed', requests, started, members)
    BY <1>1, <1>2, <1>4, <1>6 DEF FInv, TakingOK, Current, Answers
  <1>9. \A k \in 1..Len(taken) :
           /\ taken[k].from <= s.from
           /\ \A x \in DOMAIN taken[k].services \cap DOMAIN s.services :
                 taken[k].seen[x] <= s.seen[x]
           /\ taken[k].from = disturbances =>
                 DOMAIN taken[k].services \subseteq DOMAIN s.services \cup listed'
    <2> TAKE k \in 1..Len(taken)
    <2>1. taken[k].seen \in [DOMAIN taken[k].services -> 0..now]
      BY DEF FInv, TakenOK, IsSnapshot
    <2>2. /\ taken[k].from <= taking.from
          /\ \A x \in DOMAIN taken[k].services \cap D : taken[k].seen[x] <= taking.seen[x]
          /\ taken[k].from = disturbances => DOMAIN taken[k].services \subseteq D \cup listed
      BY <1>1 DEF FInv, TakingOK
    <2> HIDE DEF s, D
    <2>3. \A x \in DOMAIN taken[k].services \cap DOMAIN s.services :
             taken[k].seen[x] <= s.seen[x]
      <3> TAKE x \in DOMAIN taken[k].services \cap DOMAIN s.services
      <3>1. CASE x = r
        BY <1>2, <1>6, <2>1, <3>1
      <3>2. CASE x # r
        BY <1>6, <2>2, <3>2
      <3> QED
        BY <3>1, <3>2
    <2> QED
      BY <1>1, <1>5, <1>6, <2>2, <2>3
  <1> HIDE DEF s, D, now, I
  <1>10. CASE listed' = {}
    BY <1>1, <1>5, <1>7, <1>8, <1>9, <1>10, FinishedInv DEF now
  <1>11. CASE listed' # {}
    <2>1. /\ taking' = s /\ taken' = taken
          /\ requests' = requests /\ members' = members /\ started' = started
          /\ disturbances' = disturbances /\ gone' = gone
      BY <1>1, <1>11
    <2>2. LogOK'
      BY <1>1, <2>1 DEF FInv, LogOK
    <2>3. TakenOK'
      BY <2>1 DEF FInv, TakenOK
    <2>4. TakingOK'
      BY <1>5, <1>7, <1>8, <1>9, <2>1 DEF TakingOK, now
    <2>5. PairsLinked'
      BY <2>1 DEF FInv, PairsLinked
    <2> QED
      BY <2>2, <2>3, <2>4, <2>5 DEF FInv
  <1> QED
    BY <1>10, <1>11

LEMMA FleetNextInv == FInv /\ [FleetNext]_fleet => FInv'
  <1> SUFFICES ASSUME FInv, [FleetNext]_fleet PROVE FInv'
    OBVIOUS
  <1>1. ASSUME NEW r \in Replicas, NEW v \in Values, Serve(r, v) PROVE FInv'
    BY <1>1, ServeInv
  <1>2. ASSUME NEW r \in Replicas, Join(r) PROVE FInv'
    BY <1>2, JoinInv
  <1>3. ASSUME NEW r \in Replicas, Leave(r) PROVE FInv'
    BY <1>3, LeaveInv
  <1>4. ASSUME NEW r \in Replicas, Restart(r) PROVE FInv'
    BY <1>4, RestartInv
  <1>5. CASE BeginScrape
    BY <1>5, BeginScrapeInv
  <1>6. ASSUME NEW r \in Replicas, NEW reply, ScrapeService(r, reply) PROVE FInv'
    BY <1>6, ScrapeServiceInv
  <1>7. CASE UNCHANGED fleet
    BY <1>7 DEF fleet, FInv, LogOK, TakenOK, TakingOK, PairsLinked
  <1> QED
    BY <1>1, <1>2, <1>3, <1>4, <1>5, <1>6, <1>7 DEF FleetNext

\* Whatever joins, leaves, restarts or fails during a scrape, every snapshot is related
\* to the log of requests as FInv says (modelpod_source.go:64-89).
LEMMA FleetInvariant == FleetSpec => []FInv
  BY FleetInitInv, FleetNextInv, PTL DEF FleetSpec

\* A scrape records one entry, failed or read, for every workspace it listed, none
\* twice and no other (modelpod_source.go:76-89).
THEOREM FleetTypeCorrect == FleetSpec => []FleetTypeOK
  <1>1. FInv => FleetTypeOK
    <2> SUFFICES ASSUME FInv PROVE FleetTypeOK
      OBVIOUS
    <2>1. requests \in Seq([replica : Replicas, value : Values]) /\ started \in [Replicas -> Nat]
      BY DEF FInv, LogOK, IsLog, Request
    <2>2. \A k \in 1..Len(taken) : IsSnapshot(taken[k], Len(requests), disturbances)
      BY DEF FInv, TakenOK
    <2>3. \A k \in 1..Len(taken) :
             LET s == taken[k].services
             IN  /\ DOMAIN s \in SUBSET Replicas
                 /\ DOMAIN s = DOMAIN taken[k].load
                 /\ \A r \in Scraped(s) :
                       /\ s[r].scalar \in Nat \cup {Absent}
                       /\ s[r].histogram \in Histogram
      BY <2>2 DEF IsSnapshot
    <2> QED
      BY <2>1, <2>3 DEF FInv, LogOK, FleetTypeOK
  <1> QED
    BY <1>1, FleetInvariant, PTL

LEMMA SnapshotDomain ==
  ASSUME NEW s, NEW n, NEW d, IsSnapshot(s, n, d)
  PROVE  IsFiniteSet(DOMAIN s.services) /\ DOMAIN s.load = DOMAIN s.services
  BY FleetAssumption, FS_Subset DEF IsSnapshot

\* The histograms are cumulative and the services are asked one after the other: the
\* difference of two complete snapshots is nevertheless the sum over exactly the
\* requests between the scrapes of their replica, and the windowed average their mean,
\* for any number of replicas that join in between, once a replica of the older snapshot
\* exposes the histogram; before that it is 0 (metric_cache.go:257-308).
THEOREM ExactAverage == FleetSpec => []AverageIsExact
  <1>1. FInv => AverageIsExact
    <2> SUFFICES ASSUME FInv, NEW j \in 1..Len(taken), NEW k \in 1..Len(taken), j < k,
                        Complete(taken[j]), Complete(taken[k]), taken[j].from = taken[k].to
                 PROVE  LET average == WindowedAverage(taken[j].services, taken[k].services)
                            I == Between(taken[j], taken[k])
                        IN  IF Exposing(taken[j].services) = {} \/ I = {} THEN average = Zero
                            ELSE average.num * Cardinality(I) = average.den * Total(I)
      BY DEF AverageIsExact, Pairs
    <2>1. Linked(taken[j], taken[k], requests) /\ IsLog(requests)
      BY DEF FInv, PairsLinked, LogOK
    <2>2. /\ IsSnapshot(taken[j], Len(requests), disturbances)
          /\ IsSnapshot(taken[k], Len(requests), disturbances)
      BY DEF FInv, TakenOK
    <2>3. CASE Exposing(taken[j].services) # {}
      BY <2>1, <2>2, <2>3, LinkedIsExact
    <2>4. CASE Exposing(taken[j].services) = {}
      BY <2>4 DEF WindowedAverage
    <2> QED
      BY <2>3, <2>4
  <1> QED
    BY <1>1, FleetInvariant, PTL

\* Dividing by the services that answered keeps the average within their loads
\* (service_avg_aggregator.go:87-121).
THEOREM RealAverage == FleetSpec => []AverageIsReal
  <1>1. FInv => AverageIsReal
    <2> SUFFICES ASSUME FInv, NEW k \in 1..Len(taken), ServiceAverage(taken[k].services) # NoValue
                 PROVE  LET s == taken[k].services
                            average == ServiceAverage(s)
                        IN  /\ \E r \in Scraped(s) : average.num <= average.den * taken[k].load[r]
                            /\ \E r \in Scraped(s) : average.num >= average.den * taken[k].load[r]
      BY DEF AverageIsReal
    <2>1. IsSnapshot(taken[k], Len(requests), disturbances)
      BY DEF FInv, TakenOK
    <2>2. \A r \in Scraped(taken[k].services) :
             taken[k].load[r] \in Nat /\ Scalar(taken[k].services[r]) = taken[k].load[r]
      BY <2>1 DEF IsSnapshot, Scraped
    <2> QED
      BY <2>1, <2>2, SnapshotDomain, AverageBetweenLoads
  <1> QED
    BY <1>1, FleetInvariant, PTL

\* The compensation of the sum covers what the services that failed may carry, as long
\* as no service carries more than the threshold (service_sum_aggregator.go:94-111).
THEOREM MissingNotIdle == FleetSpec => []MissingIsNotIdle
  <1>1. FInv => MissingIsNotIdle
    <2> SUFFICES ASSUME FInv, NEW k \in 1..Len(taken),
                        \A r \in DOMAIN taken[k].load : taken[k].load[r] < Threshold,
                        ServiceSum(taken[k].services, Threshold) # NoValue
                 PROVE  ServiceSum(taken[k].services, Threshold) >= SumFunction(taken[k].load)
      BY DEF MissingIsNotIdle
    <2>1. IsSnapshot(taken[k], Len(requests), disturbances)
      BY DEF FInv, TakenOK
    <2>2. /\ \A r \in DOMAIN taken[k].services : taken[k].load[r] \in Nat
          /\ \A r \in Scraped(taken[k].services) :
                Scalar(taken[k].services[r]) = taken[k].load[r]
      BY <2>1 DEF IsSnapshot
    <2>3. IsFiniteSet(DOMAIN taken[k].services)
          /\ DOMAIN taken[k].load = DOMAIN taken[k].services
      BY <2>1, SnapshotDomain
    <2> QED
      BY <2>2, <2>3, FleetAssumption, SumCoversLoad
  <1> QED
    BY <1>1, FleetInvariant, PTL

-----------------------------------------------------------------------------
(* ScalerAnswers: triggers, and what is computed from the cache.           *)

\* What the snapshots of the cache reduce to.
LEMMA ReduceType ==
  ASSUME NEW c, c.threshold \in Int, NEW entry \in Entries, entry # Cold
  PROVE  Reduce(c, entry) \in Fraction \cup {NoValue}
  <1>1. entry.newest \in Snapshots /\ entry.baseline \in Snapshots \cup {Warming}
    BY DEF Entries
  <1>2. \A s \in Snapshots : IntSnapshot(s)
    BY AnswersAssumption DEF IntSnapshot, Scraped
  <1>3. CompensationThreshold(c) \in Int
    BY DEF CompensationThreshold
  <1>4. ServiceSum(entry.newest, CompensationThreshold(c)) \in Nat \cup {NoValue}
    BY <1>1, <1>2, <1>3, SumType
  <1>5. ServiceAverage(entry.newest) \in Fraction \cup {NoValue}
    BY <1>1, <1>2, AverageType
  <1>6. entry.baseline # Warming => WindowedAverage(entry.baseline, entry.newest) \in Fraction
    BY <1>1, <1>2, WindowedType
  <1>7. \A n \in Nat : Whole(n) \in Fraction
    BY DEF Whole, Fraction
  <1>8. CASE c.aggregation = "sum"
    BY <1>4, <1>7, <1>8 DEF Reduce
  <1>9. CASE c.aggregation = "service-avg"
    BY <1>5, <1>9 DEF Reduce
  <1>10. CASE c.aggregation \notin {"sum", "service-avg"}
    BY <1>6, <1>10 DEF Reduce
  <1> QED
    BY <1>8, <1>9, <1>10

\* What a call may return.
IsAnswer(a) ==
    /\ a.error \in {"none", "refused", "unavailable"}
    /\ a.value \in Fraction
    /\ a.used \in Entries

LEMMA SimpleAnswers ==
  /\ \A n \in Nat : IsAnswer(Value(Whole(n), Cold)) /\ Value(Whole(n), Cold).used = Cold
                    /\ Value(Whole(n), Cold).error = "none"
  /\ IsAnswer(Zeroed) /\ Zeroed.used = Cold /\ Zeroed.error = "none"
  /\ \A kind \in {"none", "refused", "unavailable"} :
        IsAnswer(Error(kind)) /\ Error(kind).used = Cold /\ Error(kind).error = kind
  BY DEF IsAnswer, Value, Whole, Zeroed, Error, Zero, Fraction, Entries

LEMMA CacheAnswer ==
  ASSUME NEW c, c.threshold \in Int, NEW entry \in Entries, entry # Cold
  PROVE  LET a == AnswerOf(Reduce(c, entry), entry)
         IN  /\ IsAnswer(a) /\ a.error # "refused"
             /\ a.used # Cold => a = Value(Reduce(c, entry), entry) /\ Reduce(c, entry) # NoValue
  <1> DEFINE v == Reduce(c, entry)
  <1>1. v \in Fraction \cup {NoValue}
    BY ReduceType
  <1> HIDE DEF v
  <1>2. CASE v = NoValue
    <2>1. AnswerOf(v, entry) = Error("unavailable")
      BY <1>2 DEF AnswerOf
    <2>2. /\ IsAnswer(AnswerOf(v, entry)) /\ AnswerOf(v, entry).error # "refused"
          /\ AnswerOf(v, entry).used = Cold
      BY <2>1, SimpleAnswers
    <2> QED
      BY <2>2 DEF v
  <1>3. CASE v # NoValue
    <2>1. AnswerOf(v, entry) = Value(v, entry)
      BY <1>3 DEF AnswerOf
    <2>2. IsAnswer(Value(v, entry)) /\ Value(v, entry).error # "refused"
      BY <1>1, <1>3 DEF IsAnswer, Value
    <2> QED
      BY <1>3, <2>1, <2>2 DEF v
  <1> QED
    BY <1>2, <1>3

LEMMA NamedWords ==
  /\ \A word \in {"modelpod", "epp"} \cup UserSelectable \cup FromStatus :
        word \in Words /\ word # Unset
  /\ Unset \notin Int
  BY AnswersAssumption DEF UserSelectable, FromStatus

LEMMA IsTrigger ==
  ASSUME NEW source \in Words \cup {Unset}, NEW aggregation \in Words \cup {Unset},
         NEW window \in Int \cup {Unset}, NEW optIn \in BOOLEAN
  PROVE  [source |-> source, aggregation |-> aggregation, threshold |-> Unset,
          window |-> window, optIn |-> optIn] \in Trigger
  BY DEF Trigger

\* What the fields of a rendered trigger are.
Rendered(t) ==
    /\ t \in Trigger
    /\ \/ t.source \in {"modelpod", "epp"} /\ t.aggregation \in UserSelectable
       \/ t.source = Unset /\ t.aggregation \in FromStatus
    /\ t.threshold = Unset
    /\ t.window = Unset \/ t.window > 0

LEMMA RenderedMetric ==
  ASSUME NEW entry \in Entry, EntryValid(entry), NEW toZero \in BOOLEAN
  PROVE  Rendered(MetricTrigger(entry, toZero))
  <1> DEFINE source == SourceForMetricSource(entry.source)
             aggregation == AggregationForSpec(entry)
             window == IF entry.type = "gauge" THEN Unset
                       ELSE IF entry.window = Unset THEN DefaultWindow ELSE entry.window
             optIn == toZero /\ source = "modelpod"
  <1>1. source \in {"modelpod", "epp"}
    BY DEF Entry, SourceForMetricSource
  <1>2. aggregation \in UserSelectable
    BY DEF EntryValid
  <1>3. window \in Int \cup {Unset} /\ (window = Unset \/ window > 0)
    <2>1. CASE entry.type = "gauge" \/ entry.window = Unset
      BY <2>1 DEF DefaultWindow
    <2>2. CASE ~ (entry.type = "gauge" \/ entry.window = Unset)
      <3>1. entry.window \in {0, 1} /\ entry.window > 0
        BY <2>2 DEF Entry, EntryValid
      <3>2. window = entry.window
        BY <2>2
      <3> QED
        BY <3>1, <3>2
    <2> QED
      BY <2>1, <2>2
  <1>4. optIn \in BOOLEAN
    OBVIOUS
  <1> DEFINE t == [source |-> source, aggregation |-> aggregation, threshold |-> Unset,
                   window |-> window, optIn |-> optIn]
  <1>5. MetricTrigger(entry, toZero) = t
    BY DEF MetricTrigger
  <1> HIDE DEF source, aggregation, window, optIn
  <1>6. t \in Trigger
    <2>1. source \in Words \cup {Unset} /\ aggregation \in Words \cup {Unset}
      BY <1>1, <1>2, NamedWords
    <2> QED
      BY <1>3, <1>4, <2>1, IsTrigger
  <1>7. Rendered(t)
    BY <1>1, <1>2, <1>3, <1>6 DEF Rendered
  <1> QED
    BY <1>5, <1>7

LEMMA RenderedTriggers ==
  ASSUME NEW t \in Provisioned
  PROVE  Rendered(t)
  <1>1. \A aggregation \in FromStatus : Rendered(Metadata(Unset, aggregation))
    <2> SUFFICES ASSUME NEW aggregation \in FromStatus
                 PROVE  Rendered(Metadata(Unset, aggregation))
      OBVIOUS
    <2>1. Metadata(Unset, aggregation) \in Trigger
      BY NamedWords, IsTrigger DEF Metadata
    <2> QED
      BY <2>1 DEF Metadata, Rendered
  <1>2. \/ \E entry \in {e \in Entry : EntryValid(e)}, toZero \in BOOLEAN :
              t = MetricTrigger(entry, toZero)
        \/ \E aggregation \in FromStatus : t = Metadata(Unset, aggregation)
    BY DEF Provisioned, FromStatus
  <1>3. \A entry \in {e \in Entry : EntryValid(e)}, toZero \in BOOLEAN :
            Rendered(MetricTrigger(entry, toZero))
    BY RenderedMetric
  <1> QED
    BY <1>1, <1>2, <1>3

LEMMA ParsedType ==
  ASSUME NEW t \in Trigger
  PROVE  ParseScalerMetadata(t) \in Config \cup {Invalid}
  <1> DEFINE source == IF t.source = Unset THEN "modelpod" ELSE t.source
             aggregation == IF t.aggregation = Unset THEN "sum" ELSE t.aggregation
             threshold == IF t.threshold = Unset THEN DefaultThreshold ELSE t.threshold
             c == [source |-> source, aggregation |-> aggregation,
                   threshold |-> threshold, optIn |-> t.optIn]
  <1>1. /\ t.source \in Words \cup {Unset} /\ t.aggregation \in Words \cup {Unset}
        /\ t.threshold \in Int \cup {Unset} /\ t.optIn \in BOOLEAN
    BY DEF Trigger
  <1>2. source \in Words /\ aggregation \in Words
    BY <1>1, NamedWords DEF UserSelectable
  <1>3. threshold \in Int
    BY <1>1 DEF DefaultThreshold
  <1>4. ParseScalerMetadata(t) \in {Invalid, c}
    BY DEF ParseScalerMetadata
  <1> HIDE DEF source, aggregation, threshold
  <1>5. c \in Config
    BY <1>1, <1>2, <1>3 DEF Config
  <1> QED
    BY <1>4, <1>5

\* A provisioned trigger parses, and to something the scaler can reduce.
LEMMA ServedParse ==
  ASSUME NEW t \in Provisioned, ~ (t.source = "modelpod" /\ t.aggregation = "sum")
  PROVE  LET c == ParseScalerMetadata(t)
         IN  c # Invalid /\ (c.aggregation \notin FromStatus => Known(c))
  <1>1. Rendered(t)
    BY RenderedTriggers
  <1> DEFINE source == IF t.source = Unset THEN "modelpod" ELSE t.source
             c == [source |-> source, aggregation |-> t.aggregation,
                   threshold |-> DefaultThreshold, optIn |-> t.optIn]
  <1>2. t.aggregation # Unset /\ source \in {"modelpod", "epp"}
    BY <1>1, NamedWords DEF Rendered
  <1>3. ThresholdOptional(t.aggregation) \/ (source = "epp" /\ t.aggregation = "sum")
    BY <1>1, NamedWords DEF Rendered, ThresholdOptional, UserSelectable, FromStatus
  <1>4. ~ (t.window # Unset /\ t.window <= 0)
    <2>1. t.window \in Int \/ t.window = Unset
      BY <1>1 DEF Rendered, Trigger
    <2> QED
      BY <1>1, <2>1 DEF Rendered
  <1>5. ParseScalerMetadata(t) = c
    BY <1>1, <1>2, <1>3, <1>4 DEF ParseScalerMetadata, Rendered
  <1>6. c # Invalid
    <2>1. t.aggregation \in Words /\ source \in Words /\ t.optIn \in BOOLEAN
      BY <1>1, <1>2, NamedWords DEF Rendered, Trigger
    <2>2. c \in Config
      BY <2>1 DEF Config, DefaultThreshold
    <2> QED
      BY <2>2, AnswersAssumption
  <1>7. c.aggregation \notin FromStatus => Known(c)
    BY <1>1, <1>2 DEF Known, Rendered
  <1> QED
    BY <1>5, <1>6, <1>7

-----------------------------------------------------------------------------
(* ScalerAnswers: parked and starting workloads.                           *)

DuringOK ==
    during = [seen |-> during.seen, steady |-> during.steady,
              changes |-> during.changes, failed |-> during.failed]

\* Under way: the call has begun and not returned.
UnderWay == pc \in Reads \cup {"cache"}

\* The history of a call under way agrees with the cluster as it is now.
HistoryAgrees ==
    UnderWay => desired \in during.seen /\ during.steady \subseteq present \cap services

\* Beyond the read of the desired replicas they were not 0 when they were read.
PastTheRead ==
    /\ pc = "status" => config.aggregation \in FromStatus
    /\ pc \in {"list", "look"} => config.optIn
    /\ pc \in {"list", "look", "cache"} /\ OfModelPods => \E n \in during.seen : n # 0

\* No Workspace that has had its Service throughout is crossed off the list.
SteadyIsLeft == pc = "look" => during.steady \subseteq left

Places == pc \in Reads \cup {"idle", "cache", "answered"}

IInv ==
    /\ DuringOK /\ Places /\ HistoryAgrees /\ PastTheRead /\ SteadyIsLeft
    /\ ParkedIsAnswered /\ ZeroIsEarned

LEMMA InitIInv == Init => IInv
  <1> SUFFICES ASSUME Init PROVE IInv
    OBVIOUS
  <1>1. DuringOK
    BY DEF Init, Nothing, DuringOK
  <1> QED
    BY <1>1
    DEF Init, IInv, Places, Reads, UnderWay, HistoryAgrees, PastTheRead, SteadyIsLeft,
        ParkedIsAnswered, ZeroIsEarned, Answered

\* A call that is not under way owes only its answer.
LEMMA ReturnedIInv ==
  ASSUME DuringOK', pc' \in {"idle", "answered"}, ParkedIsAnswered', ZeroIsEarned'
  PROVE  IInv'
  BY DEF IInv, Places, Reads, UnderWay, HistoryAgrees, PastTheRead, SteadyIsLeft

\* A call that is under way has no answer yet.
LEMMA UnderWayIInv ==
  ASSUME DuringOK', UnderWay', HistoryAgrees', PastTheRead', SteadyIsLeft'
  PROVE  IInv'
  BY DEF IInv, Places, Reads, UnderWay, ParkedIsAnswered, ZeroIsEarned, Answered

LEMMA BeginIInv ==
  ASSUME NEW t, Begin(t)
  PROVE  IInv'
  <1>1. DuringOK'
    BY DEF Begin, DuringOK
  <1>2. CASE ParseScalerMetadata(t) = Invalid
    <2>1. pc' = "answered" /\ config' = Invalid
      BY <1>2 DEF Begin
    <2>2. ParkedIsAnswered' /\ ZeroIsEarned'
      BY <2>1 DEF ParkedIsAnswered, ZeroIsEarned, Answered
    <2> QED
      BY <1>1, <2>1, <2>2, ReturnedIInv
  <1>3. CASE ParseScalerMetadata(t) # Invalid
    <2>1. /\ pc' = First(config')
          /\ desired' = desired /\ present' = present /\ services' = services
          /\ during'.seen = {desired} /\ during'.steady = present \cap services
      BY <1>3 DEF Begin, cluster
    <2>2. UnderWay' /\ pc' \notin {"list", "look"}
      BY <2>1 DEF UnderWay, Reads, First
    <2>3. HistoryAgrees'
      BY <2>1 DEF HistoryAgrees
    <2>4. PastTheRead'
      BY <2>1, <2>2 DEF PastTheRead, First, OfModelPods
    <2>5. SteadyIsLeft'
      BY <2>2 DEF SteadyIsLeft
    <2> QED
      BY <1>1, <2>2, <2>3, <2>4, <2>5, UnderWayIInv
  <1> QED
    BY <1>2, <1>3

\* What a call that returns owes.
LEMMA Returning ==
  ASSUME IInv, NEW a, Returns(a),
         OfModelPods /\ during.seen = {0} /\ ~ during.failed => a = Zeroed,
         OfModelPods /\ a.error = "none" /\ a.used = Cold =>
            \/ 0 \in during.seen
            \/ config.optIn /\ during.steady = {}
  PROVE  IInv'
  <1>1. /\ pc' = "answered" /\ answer' = a
        /\ config' = config /\ during' = during
    BY DEF Returns
  <1>2. DuringOK'
    BY <1>1 DEF IInv, DuringOK
  <1>3. ParkedIsAnswered'
    BY <1>1 DEF ParkedIsAnswered, OfModelPods, Answered, Zeroed, Value
  <1>4. ZeroIsEarned'
    BY <1>1 DEF ZeroIsEarned, OfModelPods, Answered
  <1> QED
    BY <1>1, <1>2, <1>3, <1>4, ReturnedIInv

\* A call that goes on to the list or to the cache.
LEMMA Continuing ==
  ASSUME IInv, NEW at \in {"list", "cache"}, Continues(at), UNCHANGED cluster, UnderWay,
         at = "list" => config.optIn,
         OfModelPods => \E n \in during.seen : n # 0
  PROVE  IInv'
  <1>1. /\ pc' = at /\ config' = config /\ during' = during /\ left' = left
        /\ desired' = desired /\ present' = present /\ services' = services
    BY DEF Continues, cluster
  <1>2. DuringOK' /\ UnderWay' /\ HistoryAgrees'
    BY <1>1 DEF IInv, DuringOK, UnderWay, Reads, HistoryAgrees
  <1>3. PastTheRead' /\ SteadyIsLeft'
    BY <1>1 DEF PastTheRead, SteadyIsLeft, OfModelPods
  <1> QED
    BY <1>2, <1>3, UnderWayIInv

LEMMA StatusIInv ==
  ASSUME IInv, AnswerFromStatus
  PROVE  IInv'
  <1>1. ~ OfModelPods
    BY DEF IInv, AnswerFromStatus, PastTheRead, OfModelPods
  <1>2. PICK a : Returns(a)
    BY DEF AnswerFromStatus
  <1> QED
    BY <1>1, <1>2, Returning

LEMMA ReadDesiredIInv ==
  ASSUME IInv, ReadDesired
  PROVE  IInv'
  <1>1. UnderWay /\ desired \in during.seen
    BY DEF IInv, ReadDesired, HistoryAgrees, UnderWay, Reads
  <1>2. CASE AtZero
    <2>1. Returns(Zeroed) /\ 0 \in during.seen
      BY <1>1, <1>2 DEF ReadDesired, AtZero
    <2> QED
      BY <2>1, Returning
  <1>3. CASE ~ AtZero
    <2>1. \E n \in during.seen : n # 0
      BY <1>1, <1>3 DEF AtZero
    <2>2. UNCHANGED cluster
      BY DEF ReadDesired
    <2>3. CASE config.optIn
      BY <1>1, <1>3, <2>1, <2>2, <2>3, Continuing DEF ReadDesired
    <2>4. CASE ~ config.optIn
      BY <1>1, <1>3, <2>1, <2>2, <2>4, Continuing DEF ReadDesired
    <2> QED
      BY <2>3, <2>4
  <1> QED
    BY <1>2, <1>3

\* hasModelService found nothing: every Workspace was crossed off.
LEMMA NoService ==
  ASSUME IInv, pc \in {"list", "look"}, during.steady = {}, Returns(Zeroed)
  PROVE  IInv'
  <1>1. config.optIn
    BY DEF IInv, PastTheRead
  <1>2. OfModelPods => during.seen # {0}
    BY DEF IInv, PastTheRead
  <1> QED
    BY <1>1, <1>2, Returning

LEMMA ListIInv ==
  ASSUME IInv, ListWorkspaces
  PROVE  IInv'
  <1>1. during.steady \subseteq present \cap services
    BY DEF IInv, ListWorkspaces, HistoryAgrees, UnderWay, Reads
  <1>2. CASE present = {}
    BY <1>1, <1>2, NoService DEF ListWorkspaces
  <1>3. CASE present # {}
    <2>1. /\ pc = "list" /\ pc' = "look" /\ left' = present
          /\ config' = config /\ during' = during
          /\ desired' = desired /\ present' = present /\ services' = services
      BY <1>3 DEF ListWorkspaces, cluster
    <2>2. DuringOK' /\ UnderWay' /\ HistoryAgrees'
      BY <2>1 DEF IInv, DuringOK, UnderWay, Reads, HistoryAgrees
    <2>3. PastTheRead' /\ SteadyIsLeft'
      BY <1>1, <2>1 DEF IInv, PastTheRead, SteadyIsLeft, OfModelPods
    <2> QED
      BY <2>2, <2>3, UnderWayIInv
  <1> QED
    BY <1>2, <1>3

LEMMA LookUpIInv ==
  ASSUME IInv, NEW w \in Workspaces, LookUp(w)
  PROVE  IInv'
  <1>1. /\ during.steady \subseteq services
        /\ during.steady \subseteq left
        /\ UnderWay /\ pc = "look"
    BY DEF IInv, LookUp, HistoryAgrees, SteadyIsLeft, UnderWay, Reads
  <1>2. OfModelPods => \E n \in during.seen : n # 0
    BY <1>1 DEF IInv, PastTheRead
  <1>3. CASE w \in services
    BY <1>1, <1>2, <1>3, Continuing DEF LookUp
  <1>4. CASE w \notin services /\ left = {w}
    <2>1. during.steady = {}
      BY <1>1, <1>4
    <2> QED
      BY <1>1, <1>4, <2>1, NoService DEF LookUp
  <1>5. CASE w \notin services /\ left # {w}
    <2>1. /\ pc' = "look" /\ left' = left \ {w}
          /\ config' = config /\ during' = during
          /\ desired' = desired /\ present' = present /\ services' = services
      BY <1>1, <1>5 DEF LookUp, cluster
    <2>2. DuringOK' /\ UnderWay'
      BY <2>1 DEF IInv, DuringOK, UnderWay, Reads
    <2>3. HistoryAgrees'
      BY <1>1, <2>1 DEF IInv, HistoryAgrees
    <2>4. PastTheRead'
      BY <1>1, <2>1 DEF IInv, PastTheRead, OfModelPods
    <2>5. SteadyIsLeft'
      BY <1>1, <1>5, <2>1 DEF SteadyIsLeft
    <2> QED
      BY <2>2, <2>3, <2>4, <2>5, UnderWayIInv
  <1> QED
    BY <1>3, <1>4, <1>5

LEMMA CacheIInv ==
  ASSUME IInv, NEW entry \in Entries, AnswerFromCache(entry)
  PROVE  IInv'
  <1>1. OfModelPods => during.seen # {0}
    BY DEF IInv, AnswerFromCache, PastTheRead
  <1> DEFINE computed == AnswerOf(Reduce(config, entry), entry)
             a == IF ~ Known(config) THEN Error("refused")
                  ELSE IF entry = Cold THEN Error("unavailable") ELSE computed
  <1>2. Returns(a)
    BY DEF AnswerFromCache
  <1>3. computed.error = "none" => computed.used = entry
    BY DEF AnswerOf, Value, Error
  <1>4. \A kind \in {"refused", "unavailable"} : Error(kind).error # "none"
    BY DEF Error
  <1> HIDE DEF computed
  <1>5. a.error = "none" => a.used # Cold
    BY <1>3, <1>4
  <1> HIDE DEF a
  <1> QED
    BY <1>1, <1>2, <1>5, Returning

LEMMA ReadFailsIInv ==
  ASSUME IInv, ReadFails
  PROVE  IInv'
  <1>1. pc' = "answered" /\ answer'.error = "unavailable"
    BY DEF ReadFails, OnError, Error
  <1>2. DuringOK' /\ during'.failed
    BY DEF IInv, ReadFails, DuringOK
  <1>3. ParkedIsAnswered' /\ ZeroIsEarned'
    BY <1>1, <1>2 DEF ParkedIsAnswered, ZeroIsEarned
  <1> QED
    BY <1>1, <1>2, <1>3, ReturnedIInv

LEMMA FinishIInv ==
  ASSUME IInv, Finish
  PROVE  IInv'
  <1>1. pc' = "idle" /\ during' = Nothing
    BY DEF Finish
  <1>2. DuringOK'
    BY <1>1 DEF DuringOK, Nothing
  <1>3. ParkedIsAnswered' /\ ZeroIsEarned'
    BY <1>1 DEF ParkedIsAnswered, ZeroIsEarned, Answered
  <1> QED
    BY <1>1, <1>2, <1>3, ReturnedIInv

LEMMA ClusterIInv ==
  ASSUME IInv, Changes
  PROVE  IInv'
  <1>1. /\ pc' = pc /\ config' = config /\ left' = left
        /\ pc \notin {"idle", "answered"}
    BY DEF Changes, call
  <1>2. /\ DuringOK'
        /\ during'.seen = during.seen \cup {desired'}
        /\ during'.steady = during.steady \cap present' \cap services'
    BY DEF IInv, Changes, DuringOK
  <1>3. UnderWay'
    BY <1>1 DEF IInv, Places, UnderWay
  <1>4. HistoryAgrees'
    BY <1>2 DEF HistoryAgrees
  <1>5. PastTheRead' /\ SteadyIsLeft'
    BY <1>1, <1>2 DEF IInv, PastTheRead, SteadyIsLeft, OfModelPods
  <1> QED
    BY <1>2, <1>3, <1>4, <1>5, UnderWayIInv

LEMMA NextIInv == IInv /\ [Next]_vars => IInv'
  <1> SUFFICES ASSUME IInv, [Next]_vars PROVE IInv'
    OBVIOUS
  <1>1. ASSUME NEW t, Begin(t) PROVE IInv'
    BY <1>1, BeginIInv
  <1>2. CASE AnswerFromStatus
    BY <1>2, StatusIInv
  <1>3. CASE ReadDesired
    BY <1>3, ReadDesiredIInv
  <1>4. CASE ListWorkspaces
    BY <1>4, ListIInv
  <1>5. ASSUME NEW w \in Workspaces, LookUp(w) PROVE IInv'
    BY <1>5, LookUpIInv
  <1>6. ASSUME NEW entry \in Entries, AnswerFromCache(entry) PROVE IInv'
    BY <1>6, CacheIInv
  <1>7. CASE ReadFails
    BY <1>7, ReadFailsIInv
  <1>8. CASE Finish
    BY <1>8, FinishIInv
  <1>9. CASE Changes
    BY <1>9, ClusterIInv
  <1>10. CASE UNCHANGED vars
    BY <1>10
    DEF vars, cluster, call, IInv, DuringOK, Places, UnderWay, HistoryAgrees, PastTheRead,
        SteadyIsLeft, OfModelPods, ParkedIsAnswered, ZeroIsEarned, Answered, Zeroed, Value
  <1> QED
    BY <1>1, <1>2, <1>3, <1>4, <1>5, <1>6, <1>7, <1>8, <1>9, <1>10 DEF Next, GetMetrics

\* While the desired replicas stay 0 no trigger of the model pods fails over the
\* missing backend, so that KEDA can always wake the workload (scaler.go:220-245).
THEOREM ParkedAnswered == Spec => []ParkedIsAnswered
  <1>1. IInv => ParkedIsAnswered
    BY DEF IInv
  <1> QED
    BY <1>1, InitIInv, NextIInv, PTL DEF Spec

\* A 0 without a scrape is never given while some Workspace has its Service from the
\* call's beginning to its end and the desired replicas are never 0, however the
\* cluster changes between the reads of hasModelService (scaler.go:240-255, 330-346).
THEOREM ZeroEarned == Spec => []ZeroIsEarned
  <1>1. IInv => ZeroIsEarned
    BY DEF IInv
  <1> QED
    BY <1>1, InitIInv, NextIInv, PTL DEF Spec

-----------------------------------------------------------------------------
(* What a call is made of, and what it may return.                         *)

ClusterType ==
    /\ desired \in 0..MaxDesired /\ ready \in 0..MaxDesired
    /\ present \in SUBSET Workspaces /\ services \in SUBSET Workspaces

\* Under way, a call works with what its trigger parses to.
ParsedTrigger ==
    UnderWay =>
        /\ trigger \in Provisioned \cup ByHand
        /\ config = ParseScalerMetadata(trigger)
        /\ config \in Config

\* The two aggregations read from the status never reach the sources.
PastTheStatus == pc \in {"desired", "list", "look", "cache"} => config.aggregation \notin FromStatus

LeftType ==
    /\ left \in SUBSET Workspaces
    /\ left # {} => pc \in {"look", "cache", "answered"}

OneAnswer ==
    /\ IsAnswer(answer)
    /\ pc # "answered" => answer = NoAnswer

AInv ==
    /\ ClusterType /\ Places /\ ParsedTrigger /\ PastTheStatus /\ LeftType /\ OneAnswer
    /\ NoPhantomDemand /\ AcceptedIsServed

LEMMA NoAnswerIsAnswer ==
  IsAnswer(NoAnswer) /\ NoAnswer.used = Cold /\ NoAnswer.error = "none"
  BY SimpleAnswers DEF NoAnswer

\* Without an answer nothing is owed.
LEMMA NotReturnedAInv ==
  ASSUME ClusterType', Places', ParsedTrigger', PastTheStatus', LeftType',
         pc' # "answered", answer' = NoAnswer
  PROVE  AInv'
  BY NoAnswerIsAnswer DEF AInv, OneAnswer, NoPhantomDemand, AcceptedIsServed, Answered

\* What a call that returns owes.
LEMMA ReturnedAInv ==
  ASSUME ClusterType', LeftType', pc' = "answered", IsAnswer(answer'),
         NoPhantomDemand', AcceptedIsServed'
  PROVE  AInv'
  BY DEF AInv, Places, ParsedTrigger, UnderWay, Reads, PastTheStatus, OneAnswer

\* An answer that no cache entry was used for, and that refuses nothing.
LEMMA PlainAInv ==
  ASSUME ClusterType', LeftType', pc' = "answered", IsAnswer(answer'),
         answer'.used = Cold, answer'.error # "refused"
  PROVE  AInv'
  BY ReturnedAInv DEF NoPhantomDemand, AcceptedIsServed

LEMMA ClusterKept ==
  ASSUME AInv, UNCHANGED cluster
  PROVE  ClusterType'
  BY DEF AInv, ClusterType, cluster

LEMMA InitAInv == Init => AInv
  <1> SUFFICES ASSUME Init PROVE AInv
    OBVIOUS
  <1>1. ClusterType /\ Places /\ LeftType /\ ~ UnderWay /\ PastTheStatus
    BY DEF Init, ClusterType, Places, LeftType, UnderWay, Reads, PastTheStatus
  <1>2. OneAnswer
    BY NoAnswerIsAnswer DEF Init, OneAnswer
  <1>3. NoPhantomDemand /\ AcceptedIsServed
    BY NoAnswerIsAnswer DEF Init, NoPhantomDemand, AcceptedIsServed, Answered
  <1> QED
    BY <1>1, <1>2, <1>3 DEF AInv, ParsedTrigger

LEMMA BeginAInv ==
  ASSUME AInv, NEW t \in Provisioned \cup ByHand, Begin(t)
  PROVE  AInv'
  <1> DEFINE c == ParseScalerMetadata(t)
  <1>1. /\ ClusterType' /\ left' = {} /\ trigger' = t /\ config' = c
        /\ pc = "idle" /\ answer = NoAnswer
    BY ClusterKept DEF Begin, AInv, OneAnswer
  <1>2. c \in Config \cup {Invalid}
    <2>1. t \in Trigger
      BY RenderedTriggers, AnswersAssumption DEF Rendered
    <2> QED
      BY <2>1, ParsedType
  <1>3. CASE c = Invalid
    <2>1. pc' = "answered" /\ answer' = Error("refused")
      BY <1>3 DEF Begin
    <2>2. IsAnswer(answer') /\ answer'.used = Cold
      BY <2>1, SimpleAnswers
    <2>3. AcceptedIsServed'
      BY <1>1, <1>3, ServedParse DEF AcceptedIsServed
    <2>4. NoPhantomDemand'
      BY <2>2 DEF NoPhantomDemand
    <2> QED
      BY <1>1, <2>1, <2>2, <2>3, <2>4, ReturnedAInv DEF LeftType
  <1>4. CASE c # Invalid
    <2>1. pc' = First(c) /\ answer' = NoAnswer
      BY <1>1, <1>4 DEF Begin
    <2>2. Places' /\ pc' # "answered" /\ UnderWay'
      BY <2>1 DEF First, Places, UnderWay, Reads
    <2>3. ParsedTrigger'
      BY <1>1, <1>2, <1>4 DEF ParsedTrigger
    <2>4. PastTheStatus'
      BY <1>1, <2>1 DEF PastTheStatus, First
    <2>5. LeftType'
      BY <1>1 DEF LeftType
    <2> QED
      BY <1>1, <2>1, <2>2, <2>3, <2>4, <2>5, NotReturnedAInv
  <1> QED
    BY <1>3, <1>4

\* Whoever returns leaves the list of Workspaces as it is.
LEMMA LeftOnReturn ==
  ASSUME AInv, pc' = "answered", left' = left
  PROVE  LeftType'
  BY DEF AInv, LeftType

LEMMA ReturnsPlainly ==
  ASSUME AInv, UNCHANGED cluster, NEW a, Returns(a), IsAnswer(a), a.used = Cold,
         a.error # "refused"
  PROVE  AInv'
  BY ClusterKept, LeftOnReturn, PlainAInv DEF Returns

LEMMA ContinuesAInv ==
  ASSUME AInv, UNCHANGED cluster, NEW at \in {"list", "cache"}, Continues(at),
         UnderWay, pc \in {"desired", "look"}, at = "list" => pc = "desired"
  PROVE  AInv'
  <1>1. /\ pc' = at /\ trigger' = trigger /\ config' = config /\ left' = left /\ answer' = answer
    BY DEF Continues
  <1>2. ClusterType'
    BY ClusterKept
  <1>3. Places' /\ pc' # "answered"
    BY <1>1 DEF Places, Reads
  <1>4. ParsedTrigger' /\ PastTheStatus'
    BY <1>1 DEF AInv, ParsedTrigger, PastTheStatus
  <1>5. LeftType'
    BY <1>1 DEF AInv, LeftType
  <1>6. answer' = NoAnswer
    BY <1>1 DEF AInv, OneAnswer
  <1> QED
    BY <1>2, <1>3, <1>4, <1>5, <1>6, NotReturnedAInv

LEMMA StatusAInv ==
  ASSUME AInv, AnswerFromStatus
  PROVE  AInv'
  <1> DEFINE v == IF config.aggregation = "gate" THEN ReadinessGateValue ELSE DesiredReplicas
  <1>1. \E n \in Nat : v = Whole(n)
    <2>1. Zero = Whole(0)
      BY DEF Zero, Whole
    <2>2. desired \in Nat
      BY AnswersAssumption DEF AInv, ClusterType
    <2> QED
      BY <2>1, <2>2 DEF ReadinessGateValue, DesiredReplicas
  <1>2. PICK n \in Nat : v = Whole(n)
    BY <1>1
  <1>3. Returns(Value(Whole(n), Cold)) /\ UNCHANGED cluster
    BY <1>2 DEF AnswerFromStatus
  <1> QED
    BY <1>3, SimpleAnswers, ReturnsPlainly

LEMMA ReturnsZeroed ==
  ASSUME AInv, UNCHANGED cluster, Returns(Zeroed)
  PROVE  AInv'
  BY SimpleAnswers, ReturnsPlainly

LEMMA ReadDesiredAInv ==
  ASSUME AInv, ReadDesired
  PROVE  AInv'
  <1>1. UnderWay /\ pc = "desired" /\ UNCHANGED cluster
    BY DEF ReadDesired, UnderWay, Reads
  <1>2. Returns(Zeroed) \/ Continues("list") \/ Continues("cache")
    BY DEF ReadDesired
  <1> QED
    BY <1>1, <1>2, ReturnsZeroed, ContinuesAInv

LEMMA ListAInv ==
  ASSUME AInv, ListWorkspaces
  PROVE  AInv'
  <1>1. CASE present = {}
    BY <1>1, ReturnsZeroed DEF ListWorkspaces
  <1>2. CASE present # {}
    <2>1. /\ pc = "list" /\ pc' = "look" /\ left' = present
          /\ trigger' = trigger /\ config' = config /\ answer' = answer
      BY <1>2 DEF ListWorkspaces
    <2>2. ClusterType'
      BY ClusterKept DEF ListWorkspaces
    <2>3. Places' /\ UnderWay
      BY <2>1 DEF Places, UnderWay, Reads
    <2>4. ParsedTrigger' /\ PastTheStatus'
      BY <2>1, <2>3 DEF AInv, ParsedTrigger, PastTheStatus
    <2>5. LeftType'
      BY <2>1 DEF AInv, LeftType, ClusterType
    <2>6. answer' = NoAnswer
      BY <2>1 DEF AInv, OneAnswer
    <2> QED
      BY <2>1, <2>2, <2>3, <2>4, <2>5, <2>6, NotReturnedAInv
  <1> QED
    BY <1>1, <1>2

LEMMA LookUpAInv ==
  ASSUME AInv, NEW w \in Workspaces, LookUp(w)
  PROVE  AInv'
  <1>1. UnderWay /\ pc = "look" /\ UNCHANGED cluster
    BY DEF LookUp, UnderWay, Reads
  <1>2. CASE w \in services
    BY <1>1, <1>2, ContinuesAInv DEF LookUp
  <1>3. CASE w \notin services /\ left = {w}
    BY <1>1, <1>3, ReturnsZeroed DEF LookUp
  <1>4. CASE w \notin services /\ left # {w}
    <2>1. /\ pc' = "look" /\ left' = left \ {w}
          /\ trigger' = trigger /\ config' = config /\ answer' = answer
      BY <1>1, <1>4 DEF LookUp
    <2>2. ClusterType'
      BY <1>1, ClusterKept
    <2>3. Places'
      BY <2>1 DEF Places, Reads
    <2>4. ParsedTrigger' /\ PastTheStatus'
      BY <1>1, <2>1 DEF AInv, ParsedTrigger, PastTheStatus
    <2>5. LeftType'
      BY <2>1 DEF AInv, LeftType
    <2>6. answer' = NoAnswer
      BY <1>1, <2>1 DEF AInv, OneAnswer
    <2> QED
      BY <2>1, <2>2, <2>3, <2>4, <2>5, <2>6, NotReturnedAInv
  <1> QED
    BY <1>2, <1>3, <1>4

\* The sum over the router's pods is the sum of those that answered.
LEMMA RouterSum ==
  ASSUME NEW c, c.source = "epp", c.aggregation = "sum", NEW entry \in Entries, entry # Cold,
         Reduce(c, entry) # NoValue
  PROVE  Reduce(c, entry).num <= NonNegative(ScalarSum(entry.newest))
  <1> DEFINE s == entry.newest
  <1>1. IntSnapshot(s)
    BY AnswersAssumption DEF Entries, IntSnapshot, Scraped
  <1>2. CompensationThreshold(c) = 0
    BY DEF CompensationThreshold
  <1> HIDE DEF s
  <1>3. Reduce(c, entry) = IF ServiceSum(s, 0) = NoValue THEN NoValue ELSE Whole(ServiceSum(s, 0))
    BY <1>2 DEF Reduce, s
  <1>4. ServiceSum(s, 0) # NoValue /\ Reduce(c, entry) = Whole(ServiceSum(s, 0))
    BY <1>3
  <1>5. ServiceSum(s, 0) = NonNegative(ScalarSum(s))
    BY <1>1, <1>4, SumUncompensated
  <1>6. NonNegative(ScalarSum(s)) \in Nat
    BY <1>1, ScalarSumInt DEF NonNegative
  <1> QED
    BY <1>4, <1>5, <1>6 DEF Whole, s

LEMMA CacheAInv ==
  ASSUME AInv, NEW entry \in Entries, AnswerFromCache(entry)
  PROVE  AInv'
  <1> DEFINE a == IF ~ Known(config) THEN Error("refused")
                  ELSE IF entry = Cold THEN Error("unavailable")
                  ELSE AnswerOf(Reduce(config, entry), entry)
  <1>1. pc = "cache" /\ Returns(a) /\ UNCHANGED cluster
    BY DEF AnswerFromCache
  <1>2. /\ pc' = "answered" /\ answer' = a /\ trigger' = trigger /\ config' = config
        /\ left' = left
    BY <1>1 DEF Returns
  <1>3. ClusterType' /\ LeftType'
    BY <1>1, <1>2, ClusterKept, LeftOnReturn
  <1>4. /\ trigger \in Provisioned \cup ByHand /\ config = ParseScalerMetadata(trigger)
        /\ config.threshold \in Int /\ config.aggregation \notin FromStatus
    BY <1>1 DEF AInv, ParsedTrigger, PastTheStatus, UnderWay, Config
  <1>5. CASE ~ Known(config)
    <2>1. answer' = Error("refused")
      BY <1>2, <1>5
    <2>2. IsAnswer(answer') /\ answer'.used = Cold
      BY <2>1, SimpleAnswers
    <2>3. AcceptedIsServed'
      BY <1>2, <1>4, <1>5, ServedParse DEF AcceptedIsServed
    <2>4. NoPhantomDemand'
      BY <2>2 DEF NoPhantomDemand
    <2> QED
      BY <1>2, <1>3, <2>2, <2>3, <2>4, ReturnedAInv
  <1>6. CASE Known(config) /\ entry = Cold
    <2>1. answer' = Error("unavailable")
      BY <1>2, <1>6
    <2> QED
      BY <1>2, <1>3, <2>1, SimpleAnswers, PlainAInv
  <1>7. CASE Known(config) /\ entry # Cold
    <2> DEFINE v == Reduce(config, entry)
    <2>1. answer' = AnswerOf(v, entry)
      BY <1>2, <1>7
    <2>2. /\ IsAnswer(answer') /\ answer'.error # "refused"
          /\ answer'.used # Cold => answer' = Value(v, entry) /\ v # NoValue
      BY <1>4, <1>7, <2>1, CacheAnswer
    <2>3. AcceptedIsServed'
      BY <2>2 DEF AcceptedIsServed
    <2> HIDE DEF v
    <2>4. NoPhantomDemand'
      <3> SUFFICES ASSUME config.source = "epp", config.aggregation = "sum", answer'.used # Cold
                   PROVE  answer'.value.num <= NonNegative(ScalarSum(answer'.used.newest))
        BY <1>2 DEF NoPhantomDemand
      <3>1. v.num <= NonNegative(ScalarSum(entry.newest))
        BY <1>7, <2>2, RouterSum DEF v
      <3>2. answer'.value = v /\ answer'.used = entry
        BY <2>2 DEF Value
      <3> QED
        BY <3>1, <3>2
    <2> QED
      BY <1>2, <1>3, <2>2, <2>3, <2>4, ReturnedAInv
  <1> QED
    BY <1>5, <1>6, <1>7

LEMMA ReadFailsAInv ==
  ASSUME AInv, ReadFails
  PROVE  AInv'
  <1>1. pc' = "answered" /\ answer' = Error("unavailable") /\ left' = left /\ UNCHANGED cluster
    BY DEF ReadFails, OnError
  <1> QED
    BY <1>1, ClusterKept, LeftOnReturn, SimpleAnswers, PlainAInv

LEMMA FinishAInv ==
  ASSUME AInv, Finish
  PROVE  AInv'
  <1>1. pc' = "idle" /\ left' = {} /\ answer' = NoAnswer /\ UNCHANGED cluster
    BY DEF Finish
  <1>2. Places' /\ ~ UnderWay' /\ PastTheStatus' /\ LeftType'
    BY <1>1 DEF Places, UnderWay, Reads, PastTheStatus, LeftType
  <1> QED
    BY <1>1, <1>2, ClusterKept, NotReturnedAInv DEF ParsedTrigger

LEMMA ClusterStepAInv ==
  ASSUME AInv, ClusterStep, Changes
  PROVE  AInv'
  <1>1. ClusterType'
    BY DEF AInv, ClusterType, ClusterStep, Scale, Report, Add, Remove, Expose, Withdraw
  <1>2. /\ pc' = pc /\ trigger' = trigger /\ config' = config /\ left' = left /\ answer' = answer
        /\ pc \notin {"idle", "answered"}
    BY DEF Changes, call
  <1>3. Places' /\ ParsedTrigger' /\ PastTheStatus' /\ LeftType'
    BY <1>2 DEF AInv, Places, ParsedTrigger, UnderWay, PastTheStatus, LeftType
  <1>4. answer' = NoAnswer
    BY <1>2 DEF AInv, OneAnswer
  <1> QED
    BY <1>1, <1>2, <1>3, <1>4, NotReturnedAInv

LEMMA NextAInv == AInv /\ [Next]_vars => AInv'
  <1> SUFFICES ASSUME AInv, [Next]_vars PROVE AInv'
    OBVIOUS
  <1>1. ASSUME NEW t \in Provisioned \cup ByHand, Begin(t) PROVE AInv'
    BY <1>1, BeginAInv
  <1>2. CASE AnswerFromStatus
    BY <1>2, StatusAInv
  <1>3. CASE ReadDesired
    BY <1>3, ReadDesiredAInv
  <1>4. CASE ListWorkspaces
    BY <1>4, ListAInv
  <1>5. ASSUME NEW w \in Workspaces, LookUp(w) PROVE AInv'
    BY <1>5, LookUpAInv
  <1>6. ASSUME NEW entry \in Entries, AnswerFromCache(entry) PROVE AInv'
    BY <1>6, CacheAInv
  <1>7. CASE ReadFails
    BY <1>7, ReadFailsAInv
  <1>8. CASE Finish
    BY <1>8, FinishAInv
  <1>9. CASE ClusterStep /\ Changes
    BY <1>9, ClusterStepAInv
  <1>10. CASE UNCHANGED vars
    <2>1. UNCHANGED cluster /\ UNCHANGED call
      BY <1>10 DEF vars
    <2>2. ClusterType' /\ Places' /\ ParsedTrigger' /\ PastTheStatus' /\ LeftType' /\ OneAnswer'
      BY <2>1, ClusterKept
      DEF call, AInv, Places, ParsedTrigger, UnderWay, PastTheStatus, LeftType, OneAnswer
    <2>3. NoPhantomDemand' /\ AcceptedIsServed'
      BY <2>1 DEF call, AInv, NoPhantomDemand, AcceptedIsServed, Answered
    <2> QED
      BY <2>2, <2>3 DEF AInv
  <1> QED
    BY <1>1, <1>2, <1>3, <1>4, <1>5, <1>6, <1>7, <1>8, <1>9, <1>10 DEF Next, GetMetrics

LEMMA AnswersInvariant == Spec => []AInv
  BY InitAInv, NextAInv, PTL DEF Spec

LEMMA AInvType == AInv => TypeOK
  <1> SUFFICES ASSUME AInv PROVE TypeOK
    OBVIOUS
  <1>1. UnderWay => config # Invalid
    BY AnswersAssumption DEF AInv, ParsedTrigger
  <1>2. answer.value # NoValue
    BY MarkerAssumption DEF AInv, OneAnswer, IsAnswer
  <1>3. answer.value.num \in Nat /\ answer.value.den \in Nat \ {0}
    BY DEF AInv, OneAnswer, IsAnswer, Fraction
  <1>4. /\ answer.error \in {"none", "refused", "unavailable"} /\ answer.used \in Entries
    BY DEF AInv, OneAnswer, IsAnswer
  <1>5. /\ desired \in 0..MaxDesired /\ ready \in 0..MaxDesired
        /\ present \in SUBSET Workspaces /\ services \in SUBSET Workspaces
        /\ pc \in Reads \cup {"idle", "cache", "answered"}
        /\ left \in SUBSET Workspaces
        /\ left # {} => pc \in {"look", "cache", "answered"}
    BY DEF AInv, ClusterType, Places, LeftType
  <1> QED
    BY <1>1, <1>2, <1>3, <1>4, <1>5 DEF TypeOK, UnderWay

\* Whatever a call reads, and however the cluster changes meanwhile, it returns a
\* fraction of naturals or an error (scaler.go:196-316).
THEOREM AnswersTypeCorrect == Spec => []TypeOK
  BY AnswersInvariant, AInvType, PTL

\* GetMetrics asks for no compensation of a sum over the router's pods, so that those
\* which could not be scraped add nothing (scaler.go:288-299).
THEOREM NoPhantom == Spec => []NoPhantomDemand
  <1>1. AInv => NoPhantomDemand
    BY DEF AInv
  <1> QED
    BY <1>1, AnswersInvariant, PTL

\* buildTriggers and parseScalerMetadata agree: what the one renders the other accepts
\* and GetMetrics can reduce, but for the sum of a gauge of the model pods
\* (provisioner.go:721-803, scaler.go:349-473).
THEOREM AcceptedServed == Spec => []AcceptedIsServed
  <1>1. AInv => AcceptedIsServed
    BY DEF AInv
  <1> QED
    BY <1>1, AnswersInvariant, PTL
===============================================================================
