--------------------------- MODULE MetricCacheProofs ---------------------------
(***************************************************************************)
(* Proofs about MetricCache: its types, the near-order of the snapshots,   *)
(* the span of a served average, and that a target in use is kept.         *)
(***************************************************************************)
EXTENDS MetricCache, WindowLemmas

\* The snapshots of a tracked target and the stamps in flight lie in the past,
\* a stamp at most AppendDelay back.
NotFromTheFuture ==
    /\ \A k \in Tracked : \A i \in 1..Len(entries[k].samples) :
          entries[k].samples[i] <= now
    /\ \A p \in Processes : pc[p] = "append" =>
          stamp[p] <= now /\ now <= stamp[p] + AppendDelay

\* A process about to evict was told NotFound, so its InferenceSet was deleted.
EvictionsJustified ==
    /\ \A s \in InferenceSets \ alive : deletions[s] > 0
    /\ \A p \in Processes :
          pc[p] = "evict" => deletions[InferenceSetOf[target[p]]] > 0

IndInv ==
    /\ TypeOK
    /\ NotFromTheFuture
    /\ SamplesNearlyOrdered
    /\ AverageSpansItsWindow
    /\ EvictionsJustified

-----------------------------------------------------------------------------
\* What one append and its prune do to a history.
LEMMA AppendAndPrune ==
  ASSUME NEW old \in Seq(Nat), NEW t \in Nat, NEW n \in Nat, NEW w \in Nat,
         \A i \in 1..Len(old) : old[i] <= n,
         t <= n, n <= t + AppendDelay, NearlyOrdered(old)
  PROVE  LET s == PruneSamples(Append(old, t), t, w)
         IN  /\ s \in Seq(Nat)
             /\ \A i \in 1..Len(s) : s[i] <= n
             /\ NearlyOrdered(s)
<1> DEFINE a == Append(old, t)
           s == PruneSamples(a, t, w)
<1>1. AppendDelay \in Nat
  BY CacheAssumption
<1>2. /\ a \in Seq(Nat)
      /\ Len(old) \in Nat
      /\ Len(a) = Len(old) + 1
      /\ \A i \in 1..Len(old) : a[i] = old[i]
      /\ a[Len(old) + 1] = t
      /\ \A i \in 1..Len(old) : old[i] \in Nat
  OBVIOUS
<1> HIDE DEF a
<1>9. \A i \in 1..Len(a) : i \in 1..Len(old) \/ i = Len(old) + 1
  <2>1. Len(old) \in Nat /\ Len(a) = Len(old) + 1
    BY <1>2
  <2> QED
    BY <2>1
<1>3. \A i \in 1..Len(a) : a[i] \in Nat /\ a[i] <= n
  <2> SUFFICES ASSUME NEW i \in 1..Len(a) PROVE a[i] \in Nat /\ a[i] <= n
    OBVIOUS
  <2>1. i \in 1..Len(old) \/ i = Len(old) + 1
    BY <1>9
  <2> QED
    BY <1>2, <2>1
<1>4. \A i, j \in 1..Len(a) : i < j => a[i] <= a[j] + AppendDelay
  <2> SUFFICES ASSUME NEW i \in 1..Len(a), NEW j \in 1..Len(a), i < j
               PROVE  a[i] <= a[j] + AppendDelay
    OBVIOUS
  <2>1. i \in 1..Len(old)
    BY <1>2
  <2>2. CASE j \in 1..Len(old)
    <3>1. old[i] <= old[j] + AppendDelay
      BY <2>1, <2>2 DEF NearlyOrdered
    <3> QED
      BY <1>2, <2>1, <2>2, <3>1
  <2>3. CASE j = Len(old) + 1
    <3>1. a[j] = t /\ a[i] \in Nat /\ a[i] <= n
      BY <1>2, <1>3, <2>3
    <3> QED
      BY <1>1, <3>1
  <2>4. j \in 1..Len(old) \/ j = Len(old) + 1
    BY <1>9
  <2> QED
    BY <2>2, <2>3, <2>4
<1>5. PICK d \in 0..(Len(a) - 1) :
           /\ s \in Seq(Nat)
           /\ Len(s) = Len(a) - d
           /\ \A i \in 1..Len(s) : s[i] = a[d + i]
  <2>1. Len(a) >= 1 /\ t \in Int /\ w \in Int
    BY <1>2
  <2> QED
    BY <1>2, <2>1, PruneSamplesSpec
<1> HIDE DEF s
<1>6. \A i \in 1..Len(s) : d + i \in 1..Len(a)
  BY <1>2, <1>5
<1>7. \A i \in 1..Len(s) : s[i] <= n
  BY <1>3, <1>5, <1>6
<1>8. NearlyOrdered(s)
  <2> SUFFICES ASSUME NEW i \in 1..Len(s), NEW j \in 1..Len(s), i < j
               PROVE  s[i] <= s[j] + AppendDelay
    BY DEF NearlyOrdered
  <2>1. d + i < d + j
    BY <1>5
  <2> QED
    BY <1>4, <1>5, <1>6, <2>1
<1> QED
  BY <1>5, <1>7, <1>8 DEF a, s

\* An appended entry is well formed, not from the future and nearly ordered.
LEMMA AppendedSpec ==
  ASSUME NEW e \in Entry, NEW t \in Nat, NEW n \in Nat,
         \A i \in 1..Len(e.samples) : e.samples[i] <= n,
         t <= n, n <= t + AppendDelay, NearlyOrdered(e.samples)
  PROVE  /\ Appended(e, t) \in Entry
         /\ \A i \in 1..Len(Appended(e, t).samples) : Appended(e, t).samples[i] <= n
         /\ NearlyOrdered(Appended(e, t).samples)
<1> DEFINE s == PruneSamples(Append(e.samples, t), t, e.window)
<1>1. e.samples \in Seq(Nat) /\ e.window \in Nat
  BY DEF Entry
<1>2. /\ s \in Seq(Nat)
      /\ \A i \in 1..Len(s) : s[i] <= n
      /\ NearlyOrdered(s)
  BY <1>1, AppendAndPrune
<1>3. Appended(e, t) = [e EXCEPT !.samples = s]
  BY CacheAssumption DEF Appended
<1> HIDE DEF s
<1>4. Appended(e, t) \in Entry /\ Appended(e, t).samples = s
  BY <1>2, <1>3 DEF Entry
<1> QED
  BY <1>2, <1>4

\* A history without snapshots is nearly ordered.
LEMMA NothingOrdered == NearlyOrdered(<< >>)
  BY DEF NearlyOrdered

\* The invariant holds of the empty cache.
LEMMA InitIndInv == Init => IndInv
<1> USE CacheAssumption
<1> SUFFICES ASSUME Init PROVE IndInv
  OBVIOUS
<1>1. TypeOK
  BY DEF Init, TypeOK, Processes, NoAnswer, AnswerKinds
<1>2. NotFromTheFuture /\ SamplesNearlyOrdered
  BY DEF Init, NotFromTheFuture, SamplesNearlyOrdered, Tracked, Processes
<1>3. AverageSpansItsWindow /\ EvictionsJustified
  BY DEF Init, AverageSpansItsWindow, EvictionsJustified, NoAnswer, Processes
<1> QED
  BY <1>1, <1>2, <1>3 DEF IndInv

\* Every step of a handler, the poller and the cluster keeps the invariant.
LEMMA NextIndInv == IndInv /\ [Next]_vars => IndInv'
<1> USE CacheAssumption
<1> SUFFICES ASSUME IndInv, [Next]_vars PROVE IndInv'
  OBVIOUS
<1>0. TypeOK /\ NotFromTheFuture /\ SamplesNearlyOrdered /\ AverageSpansItsWindow
         /\ EvictionsJustified
  BY DEF IndInv
<1>1. ASSUME NEW h \in Handlers, NEW k \in Keys, NEW w \in Windows, Ensure(h, k, w) PROVE IndInv'
  <2>6. /\ entries' \in [Keys -> Entry \cup {NoEntry}]
        /\ \A x \in Keys : entries'[x] # NoEntry =>
              \/ entries'[x].samples = << >>
              \/ entries[x] # NoEntry /\ entries'[x].samples = entries[x].samples
    <3>1. w \in Nat /\ now \in Nat
      BY <1>0 DEF TypeOK
    <3>2. CASE entries[k] = NoEntry
      <4>1. [window |-> w, lastAccess |-> now, samples |-> << >>] \in Entry
        BY <3>1 DEF Entry
      <4>2. entries' = [entries EXCEPT ![k] =
                           [window |-> w, lastAccess |-> now, samples |-> << >>]]
        BY <1>1, <3>2 DEF Ensure
      <4> QED
        BY <1>0, <4>1, <4>2 DEF TypeOK
    <3>3. CASE entries[k] # NoEntry
      <4>1. entries[k] \in Entry
        BY <1>0, <3>3 DEF TypeOK
      <4>2. /\ Touched(entries[k], w) \in Entry
            /\ Touched(entries[k], w).samples = entries[k].samples
        BY <3>1, <4>1 DEF Touched, Entry, Larger
      <4>3. entries' = [entries EXCEPT ![k] = Touched(entries[k], w)]
        BY <1>0, <1>1, <3>3 DEF TypeOK, Ensure
      <4> QED
        BY <1>0, <3>3, <4>2, <4>3 DEF TypeOK
    <3> QED
      BY <3>2, <3>3
  <2>1. TypeOK'
    BY <1>0, <1>1, <2>6 DEF TypeOK, Processes, AnswerKinds, Ensure, NoAnswer
  <2>2. NotFromTheFuture'
    <3>1. now' = now /\ stamp' = stamp
      BY <1>1 DEF Ensure
    <3>2. \A p \in Processes : pc'[p] = "append" => pc[p] = "append"
      BY <1>0, <1>1 DEF TypeOK, Ensure, Processes
    <3>3. \A x \in Tracked' : \A i \in 1..Len(entries'[x].samples) :
              entries'[x].samples[i] <= now
      BY <1>0, <2>6 DEF NotFromTheFuture, Tracked
    <3> QED
      BY <1>0, <3>1, <3>2, <3>3 DEF NotFromTheFuture
  <2>3. SamplesNearlyOrdered'
    BY <1>0, <2>6, NothingOrdered DEF SamplesNearlyOrdered, Tracked
  <2>4. AverageSpansItsWindow'
    BY <1>0, <1>1 DEF TypeOK, AverageSpansItsWindow, Processes, Ensure, Touched, NoAnswer, Larger
  <2>5. EvictionsJustified'
    BY <1>0, <1>1 DEF TypeOK, EvictionsJustified, Processes, Ensure, Touched, NoAnswer, Larger
  <2> QED
    BY <2>1, <2>2, <2>3, <2>4, <2>5 DEF IndInv
<1>2. ASSUME NEW h \in Handlers, Current(h) PROVE IndInv'
  <2>1. TypeOK'
    <3>1. pc' \in [Processes -> {"idle", "poll", "lookup", "get", "scrape",
                                  "append", "evict", "read", "aggregate"}]
      BY <1>0, <1>2 DEF TypeOK, Current, Processes
    <3>2. answer' \in [Handlers -> [kind : AnswerKinds, span : Int]]
      BY <1>0, <1>2 DEF TypeOK, Current, Reply, AnswerKinds
    <3> QED
      BY <1>0, <1>2, <3>1, <3>2 DEF TypeOK, Current
  <2>2. NotFromTheFuture'
    BY <1>0, <1>2 DEF TypeOK, NotFromTheFuture, Tracked, Processes, Current, Reply
  <2>3. SamplesNearlyOrdered'
    BY <1>0, <1>2 DEF TypeOK, SamplesNearlyOrdered, Tracked, NearlyOrdered, Current, Reply
  <2>4. AverageSpansItsWindow'
    BY <1>0, <1>2 DEF TypeOK, AverageSpansItsWindow, Processes, Current, Reply
  <2>5. EvictionsJustified'
    BY <1>0, <1>2 DEF TypeOK, EvictionsJustified, Processes, Current, Reply
  <2> QED
    BY <2>1, <2>2, <2>3, <2>4, <2>5 DEF IndInv
<1>3. ASSUME NEW h \in Handlers, Aggregate(h) PROVE IndInv'
  <2> DEFINE e == entries[target[h]]
  <2>6. /\ entries' \in [Keys -> Entry \cup {NoEntry}]
        /\ \A x \in Keys : entries'[x] # NoEntry =>
              \/ entries'[x].samples = << >>
              \/ entries[x] # NoEntry /\ entries'[x].samples = entries[x].samples
    <3>1. target[h] \in Keys /\ now \in Nat
      BY <1>0 DEF TypeOK, Processes
    <3>2. CASE e = NoEntry
      BY <1>0, <1>3, <3>2 DEF TypeOK, Aggregate
    <3>3. CASE e # NoEntry
      <4>1. e \in Entry
        BY <1>0, <3>1, <3>3 DEF TypeOK
      <4>2. /\ [e EXCEPT !.lastAccess = now] \in Entry
            /\ [e EXCEPT !.lastAccess = now].samples = e.samples
        BY <3>1, <4>1 DEF Entry
      <4>3. entries' = [entries EXCEPT ![target[h]] = [e EXCEPT !.lastAccess = now]]
        BY <1>0, <1>3, <3>1, <3>3, <4>1 DEF TypeOK, Aggregate, Entry
      <4> QED
        BY <1>0, <3>1, <3>3, <4>2, <4>3 DEF TypeOK
    <3> QED
      BY <3>2, <3>3
  <2> DEFINE Bounded(x) == /\ answer'[x].span >= (wanted[x] * 4) \div 5
                          /\ answer'[x].span <= wanted[x] + StaleAfter
             Good == /\ answer' \in [Handlers -> [kind : AnswerKinds, span : Int]]
                     /\ answer'[h].kind = "average" => Bounded(h)
  <2>7. ASSUME ~ (Fresh(e) /\ WindowCovered(e.samples, wanted[h])) PROVE Good
    <3>1. answer' \in [Handlers -> [kind : AnswerKinds, span : Int]]
      BY <1>0, <1>3, <2>7 DEF TypeOK, Aggregate, Reply, AnswerKinds
    <3>2. answer'[h].kind # "average"
      BY <1>0, <1>3, <2>7 DEF TypeOK, Aggregate, Reply
    <3> QED
      BY <3>1, <3>2
  <2>8. ASSUME Fresh(e), WindowCovered(e.samples, wanted[h]) PROVE Good
    <3> DEFINE span == Newest(e.samples) - WindowBaseline(e.samples, wanted[h])
    <3>1. e \in Entry /\ e.samples \in Seq(Nat) /\ wanted[h] \in Nat
      BY <1>0, <2>8 DEF TypeOK, Fresh, Entry, Processes
    <3>2. Len(e.samples) >= 2 /\ span >= (wanted[h] * 4) \div 5
      BY <2>8 DEF WindowCovered
    <3>3. Newest(e.samples) \in Nat
      BY <3>1, <3>2 DEF Newest
    <3>4. WindowBaseline(e.samples, wanted[h]) \in Nat /\ span <= wanted[h] + StaleAfter
      BY <3>1, <3>2, BaselineSpan
    <3>5. answer' = [answer EXCEPT ![h] = [kind |-> "average", span |-> span]]
      BY <1>3, <2>8 DEF Aggregate, Reply
    <3>6. span \in Int
      BY <3>3, <3>4
    <3> HIDE DEF span
    <3>7. answer' \in [Handlers -> [kind : AnswerKinds, span : Int]]
      BY <1>0, <3>5, <3>6 DEF TypeOK, AnswerKinds
    <3>8. answer'[h] = [kind |-> "average", span |-> span]
      BY <1>0, <3>5 DEF TypeOK
    <3> QED
      BY <3>2, <3>4, <3>7, <3>8
  <2>9. Good
    BY <2>7, <2>8
  <2>10. /\ UNCHANGED <<now, alive, deletions, target, wanted, stamp, scrapes, queue>>
         /\ pc' = [pc EXCEPT ![h] = "idle"]
    BY <1>3 DEF Aggregate
  <2>11. \A p \in Processes : pc'[p] # "idle" => pc'[p] = pc[p]
    BY <1>0, <2>10 DEF TypeOK
  <2>1. TypeOK'
    <3>1. pc' \in [Processes -> {"idle", "poll", "lookup", "get", "scrape",
                                  "append", "evict", "read", "aggregate"}]
      BY <1>0, <2>10 DEF TypeOK
    <3> QED
      BY <1>0, <2>6, <2>9, <2>10, <3>1 DEF TypeOK
  <2>2. NotFromTheFuture'
    <3>1. \A k \in Tracked' : \A i \in 1..Len(entries'[k].samples) :
              entries'[k].samples[i] <= now
      BY <1>0, <2>6 DEF NotFromTheFuture, Tracked
    <3>2. \A p \in Processes : pc'[p] = "append" =>
              stamp[p] <= now /\ now <= stamp[p] + AppendDelay
      BY <1>0, <2>11 DEF NotFromTheFuture
    <3> QED
      BY <2>10, <3>1, <3>2 DEF NotFromTheFuture
  <2>3. SamplesNearlyOrdered'
    BY <1>0, <2>6, NothingOrdered DEF SamplesNearlyOrdered, Tracked
  <2>4. AverageSpansItsWindow'
    <3>1. wanted' = wanted /\ \A x \in Handlers \ {h} : answer'[x] = answer[x]
      BY <1>0, <1>3 DEF TypeOK, Aggregate, Reply
    <3> QED
      BY <1>0, <2>9, <3>1 DEF AverageSpansItsWindow
  <2>5. EvictionsJustified'
    BY <1>0, <2>10, <2>11 DEF EvictionsJustified
  <2> QED
    BY <2>1, <2>2, <2>3, <2>4, <2>5 DEF IndInv
<1>4. ASSUME NEW p \in Processes, RefreshLookup(p) PROVE IndInv'
  <2>1. TypeOK'
    BY <1>0, <1>4 DEF TypeOK, Processes, Entry, AnswerKinds, RefreshLookup, Returned
  <2>2. NotFromTheFuture'
    BY <1>0, <1>4 DEF TypeOK, NotFromTheFuture, Tracked, Processes, RefreshLookup, Returned
  <2>3. SamplesNearlyOrdered'
    BY <1>0, <1>4 DEF TypeOK, SamplesNearlyOrdered, Tracked, NearlyOrdered, RefreshLookup, Returned
  <2>4. AverageSpansItsWindow'
    BY <1>0, <1>4 DEF TypeOK, AverageSpansItsWindow, Processes, RefreshLookup, Returned
  <2>5. EvictionsJustified'
    BY <1>0, <1>4 DEF TypeOK, EvictionsJustified, Processes, RefreshLookup, Returned
  <2> QED
    BY <2>1, <2>2, <2>3, <2>4, <2>5 DEF IndInv
<1>5. ASSUME NEW p \in Processes, GetInferenceSet(p) PROVE IndInv'
  <2>1. TypeOK'
    BY <1>0, <1>5 DEF TypeOK, Processes, Entry, AnswerKinds, GetInferenceSet
  <2>2. NotFromTheFuture'
    BY <1>0, <1>5 DEF TypeOK, NotFromTheFuture, Tracked, Processes, GetInferenceSet
  <2>3. SamplesNearlyOrdered'
    BY <1>0, <1>5 DEF TypeOK, SamplesNearlyOrdered, Tracked, NearlyOrdered, GetInferenceSet
  <2>4. AverageSpansItsWindow'
    BY <1>0, <1>5 DEF TypeOK, AverageSpansItsWindow, Processes, GetInferenceSet
  <2>5. EvictionsJustified'
    BY <1>0, <1>5 DEF TypeOK, EvictionsJustified, Processes, GetInferenceSet
  <2> QED
    BY <2>1, <2>2, <2>3, <2>4, <2>5 DEF IndInv
<1>6. ASSUME NEW p \in Processes, RefreshFails(p) PROVE IndInv'
  <2>1. TypeOK'
    BY <1>0, <1>6 DEF TypeOK, Processes, Entry, AnswerKinds, RefreshFails, Returned
  <2>2. NotFromTheFuture'
    BY <1>0, <1>6 DEF TypeOK, NotFromTheFuture, Tracked, Processes, RefreshFails, Returned
  <2>3. SamplesNearlyOrdered'
    BY <1>0, <1>6 DEF TypeOK, SamplesNearlyOrdered, Tracked, NearlyOrdered, RefreshFails, Returned
  <2>4. AverageSpansItsWindow'
    BY <1>0, <1>6 DEF TypeOK, AverageSpansItsWindow, Processes, RefreshFails, Returned
  <2>5. EvictionsJustified'
    BY <1>0, <1>6 DEF TypeOK, EvictionsJustified, Processes, RefreshFails, Returned
  <2> QED
    BY <2>1, <2>2, <2>3, <2>4, <2>5 DEF IndInv
<1>7. ASSUME NEW p \in Processes, Evict(p) PROVE IndInv'
  <2>1. TypeOK'
    BY <1>0, <1>7 DEF TypeOK, Processes, Entry, AnswerKinds, Evict, Returned
  <2>2. NotFromTheFuture'
    BY <1>0, <1>7 DEF TypeOK, NotFromTheFuture, Tracked, Processes, Evict, Returned
  <2>3. SamplesNearlyOrdered'
    BY <1>0, <1>7 DEF TypeOK, SamplesNearlyOrdered, Tracked, NearlyOrdered, Evict, Returned
  <2>4. AverageSpansItsWindow'
    BY <1>0, <1>7 DEF TypeOK, AverageSpansItsWindow, Processes, Evict, Returned
  <2>5. EvictionsJustified'
    BY <1>0, <1>7 DEF TypeOK, EvictionsJustified, Processes, Evict, Returned
  <2> QED
    BY <2>1, <2>2, <2>3, <2>4, <2>5 DEF IndInv
<1>8. ASSUME NEW p \in Processes, Scrape(p) PROVE IndInv'
  <2>1. TypeOK'
    BY <1>0, <1>8 DEF TypeOK, Processes, Entry, AnswerKinds, Scrape
  <2>2. NotFromTheFuture'
    BY <1>0, <1>8 DEF TypeOK, NotFromTheFuture, Tracked, Processes, Scrape
  <2>3. SamplesNearlyOrdered'
    BY <1>0, <1>8 DEF TypeOK, SamplesNearlyOrdered, Tracked, NearlyOrdered, Scrape
  <2>4. AverageSpansItsWindow'
    BY <1>0, <1>8 DEF TypeOK, AverageSpansItsWindow, Processes, Scrape
  <2>5. EvictionsJustified'
    BY <1>0, <1>8 DEF TypeOK, EvictionsJustified, Processes, Scrape
  <2> QED
    BY <2>1, <2>2, <2>3, <2>4, <2>5 DEF IndInv
<1>9. ASSUME NEW p \in Processes, AppendSample(p) PROVE IndInv'
  <2>6. /\ entries' \in [Keys -> Entry \cup {NoEntry}]
        /\ \A x \in Keys : entries'[x] # NoEntry =>
              /\ \A i \in 1..Len(entries'[x].samples) : entries'[x].samples[i] <= now
              /\ NearlyOrdered(entries'[x].samples)
    <3>1. target[p] \in Keys /\ now \in Nat /\ stamp[p] \in Nat
      BY <1>0 DEF TypeOK
    <3>2. \A x \in Keys : entries[x] # NoEntry =>
              /\ \A i \in 1..Len(entries[x].samples) : entries[x].samples[i] <= now
              /\ NearlyOrdered(entries[x].samples)
      BY <1>0 DEF NotFromTheFuture, SamplesNearlyOrdered, Tracked
    <3>3. CASE entries[target[p]] = NoEntry
      BY <1>0, <1>9, <3>2, <3>3 DEF AppendSample, Appended, TypeOK
    <3>4. CASE entries[target[p]] # NoEntry
      <4> DEFINE n == Appended(entries[target[p]], stamp[p])
      <4>1. entries[target[p]] \in Entry
        BY <1>0, <3>1, <3>4 DEF TypeOK
      <4>2. stamp[p] <= now /\ now <= stamp[p] + AppendDelay
        BY <1>0, <1>9 DEF NotFromTheFuture, AppendSample
      <4>3. /\ n \in Entry
            /\ \A i \in 1..Len(n.samples) : n.samples[i] <= now
            /\ NearlyOrdered(n.samples)
        BY <3>1, <3>2, <3>4, <4>1, <4>2, AppendedSpec
      <4>4. entries' = [entries EXCEPT ![target[p]] = n]
        BY <1>0, <1>9, <3>1 DEF AppendSample, TypeOK
      <4> HIDE DEF n
      <4> QED
        BY <1>0, <3>1, <3>2, <4>3, <4>4 DEF TypeOK
    <3> QED
      BY <3>3, <3>4
  <2>1. TypeOK'
    BY <1>0, <1>9, <2>6 DEF TypeOK, Processes, AppendSample, Returned
  <2>2. NotFromTheFuture'
    BY <1>0, <1>9, <2>6 DEF TypeOK, NotFromTheFuture, Tracked, AppendSample, Returned
  <2>3. SamplesNearlyOrdered'
    BY <2>6 DEF SamplesNearlyOrdered, Tracked
  <2>4. AverageSpansItsWindow'
    BY <1>0, <1>9 DEF TypeOK, AverageSpansItsWindow, Processes, AppendSample, Returned
  <2>5. EvictionsJustified'
    BY <1>0, <1>9 DEF TypeOK, EvictionsJustified, Processes, AppendSample, Returned
  <2> QED
    BY <2>1, <2>2, <2>3, <2>4, <2>5 DEF IndInv
<1>10. ASSUME StartPoll PROVE IndInv'
  <2>1. TypeOK'
    <3>1. entries' \in [Keys -> Entry \cup {NoEntry}]
      BY <1>0, <1>10 DEF TypeOK, StartPoll
    <3> QED
      BY <1>0, <1>10, <3>1 DEF TypeOK, Processes, StartPoll, Tracked
  <2>2. NotFromTheFuture'
    BY <1>0, <1>10 DEF TypeOK, NotFromTheFuture, Tracked, Processes, StartPoll
  <2>3. SamplesNearlyOrdered'
    BY <1>0, <1>10 DEF TypeOK, SamplesNearlyOrdered, Tracked, NearlyOrdered, StartPoll
  <2>4. AverageSpansItsWindow'
    BY <1>0, <1>10 DEF TypeOK, AverageSpansItsWindow, Processes, StartPoll
  <2>5. EvictionsJustified'
    BY <1>0, <1>10 DEF TypeOK, EvictionsJustified, Processes, StartPoll
  <2> QED
    BY <2>1, <2>2, <2>3, <2>4, <2>5 DEF IndInv
<1>11. ASSUME NEW k \in Keys, NextKey(k) PROVE IndInv'
  <2>1. TypeOK'
    BY <1>0, <1>11 DEF TypeOK, Processes, Entry, AnswerKinds, NextKey
  <2>2. NotFromTheFuture'
    BY <1>0, <1>11 DEF TypeOK, NotFromTheFuture, Tracked, Processes, NextKey
  <2>3. SamplesNearlyOrdered'
    BY <1>0, <1>11 DEF TypeOK, SamplesNearlyOrdered, Tracked, NearlyOrdered, NextKey
  <2>4. AverageSpansItsWindow'
    BY <1>0, <1>11 DEF TypeOK, AverageSpansItsWindow, Processes, NextKey
  <2>5. EvictionsJustified'
    BY <1>0, <1>11 DEF TypeOK, EvictionsJustified, Processes, NextKey
  <2> QED
    BY <2>1, <2>2, <2>3, <2>4, <2>5 DEF IndInv
<1>12. ASSUME EndPoll PROVE IndInv'
  <2>1. TypeOK'
    BY <1>0, <1>12 DEF TypeOK, Processes, Entry, AnswerKinds, EndPoll
  <2>2. NotFromTheFuture'
    BY <1>0, <1>12 DEF TypeOK, NotFromTheFuture, Tracked, Processes, EndPoll
  <2>3. SamplesNearlyOrdered'
    BY <1>0, <1>12 DEF TypeOK, SamplesNearlyOrdered, Tracked, NearlyOrdered, EndPoll
  <2>4. AverageSpansItsWindow'
    BY <1>0, <1>12 DEF TypeOK, AverageSpansItsWindow, Processes, EndPoll
  <2>5. EvictionsJustified'
    BY <1>0, <1>12 DEF TypeOK, EvictionsJustified, Processes, EndPoll
  <2> QED
    BY <2>1, <2>2, <2>3, <2>4, <2>5 DEF IndInv
<1>13. ASSUME Tick PROVE IndInv'
  <2>1. TypeOK'
    BY <1>0, <1>13 DEF TypeOK, Processes, Entry, AnswerKinds, Tick
  <2>2. NotFromTheFuture'
    <3>1. \A k \in Tracked : \A i \in 1..Len(entries[k].samples) :
              entries[k].samples[i] \in Nat
      BY <1>0 DEF TypeOK, Tracked, Entry
    <3>2. /\ now \in Nat /\ now' = now + 1
          /\ entries' = entries /\ Tracked' = Tracked /\ pc' = pc /\ stamp' = stamp
          /\ \A p \in Processes : pc[p] = "append" => now + 1 <= stamp[p] + AppendDelay
      BY <1>0, <1>13 DEF TypeOK, Tick, Tracked
    <3>3. \A p \in Processes : stamp[p] \in Nat
      BY <1>0 DEF TypeOK
    <3> QED
      BY <1>0, <3>1, <3>2, <3>3 DEF NotFromTheFuture
  <2>3. SamplesNearlyOrdered'
    BY <1>0, <1>13 DEF TypeOK, SamplesNearlyOrdered, Tracked, NearlyOrdered, Tick
  <2>4. AverageSpansItsWindow'
    BY <1>0, <1>13 DEF TypeOK, AverageSpansItsWindow, Processes, Tick
  <2>5. EvictionsJustified'
    BY <1>0, <1>13 DEF TypeOK, EvictionsJustified, Processes, Tick
  <2> QED
    BY <2>1, <2>2, <2>3, <2>4, <2>5 DEF IndInv
<1>14. ASSUME NEW s \in InferenceSets, DeleteInferenceSet(s) PROVE IndInv'
  <2>1. TypeOK'
    BY <1>0, <1>14 DEF TypeOK, Processes, Entry, AnswerKinds, DeleteInferenceSet
  <2>2. NotFromTheFuture'
    BY <1>0, <1>14 DEF TypeOK, NotFromTheFuture, Tracked, Processes, DeleteInferenceSet
  <2>3. SamplesNearlyOrdered'
    BY <1>0, <1>14 DEF TypeOK, SamplesNearlyOrdered, Tracked, NearlyOrdered, DeleteInferenceSet
  <2>4. AverageSpansItsWindow'
    BY <1>0, <1>14 DEF TypeOK, AverageSpansItsWindow, Processes, DeleteInferenceSet
  <2>5. EvictionsJustified'
    BY <1>0, <1>14 DEF TypeOK, EvictionsJustified, Processes, DeleteInferenceSet
  <2> QED
    BY <2>1, <2>2, <2>3, <2>4, <2>5 DEF IndInv
<1>15. ASSUME NEW s \in InferenceSets, CreateInferenceSet(s) PROVE IndInv'
  <2>1. TypeOK'
    BY <1>0, <1>15 DEF TypeOK, Processes, Entry, AnswerKinds, CreateInferenceSet
  <2>2. NotFromTheFuture'
    BY <1>0, <1>15 DEF TypeOK, NotFromTheFuture, Tracked, Processes, CreateInferenceSet
  <2>3. SamplesNearlyOrdered'
    BY <1>0, <1>15 DEF TypeOK, SamplesNearlyOrdered, Tracked, NearlyOrdered, CreateInferenceSet
  <2>4. AverageSpansItsWindow'
    BY <1>0, <1>15 DEF TypeOK, AverageSpansItsWindow, Processes, CreateInferenceSet
  <2>5. EvictionsJustified'
    BY <1>0, <1>15 DEF TypeOK, EvictionsJustified, Processes, CreateInferenceSet
  <2> QED
    BY <2>1, <2>2, <2>3, <2>4, <2>5 DEF IndInv
<1>16. CASE UNCHANGED vars
  BY <1>0, <1>16 DEF IndInv, TypeOK, NotFromTheFuture, SamplesNearlyOrdered,
     AverageSpansItsWindow, EvictionsJustified, Tracked, vars
<1> QED
  BY <1>1, <1>2, <1>3, <1>4, <1>5, <1>6, <1>7, <1>8, <1>9, <1>10, <1>11, <1>12, <1>13, <1>14, <1>15, <1>16
     DEF Next, Handler, PollLoop, Refresh, Environment, Processes


\* In every interleaving of the handlers and the poller (metriccache.go) the entries
\* are well formed, their snapshots nearly ordered, and only deleted targets evicted.
THEOREM InductiveInvariant == Spec => []IndInv
  BY InitIndInv, NextIndInv, PTL DEF Spec

-----------------------------------------------------------------------------
\* Every variable of the cache has its type, for every set of targets, handlers
\* and windows.
THEOREM TypeCorrect == Spec => []TypeOK
<1>1. IndInv => TypeOK
  BY DEF IndInv
<1> QED
  BY <1>1, InductiveInvariant, PTL

\* However seed and poll scrapes interleave, a target's snapshots are out of
\* order by at most the delay between refresh's clock reading and its lock; with
\* no delay, Current serves the newest snapshot there is.
THEOREM NearlyOrderedSamples == Spec => []SamplesNearlyOrdered
<1>1. IndInv => SamplesNearlyOrdered
  BY DEF IndInv
<1> QED
  BY <1>1, InductiveInvariant, PTL

\* Whatever the windows, the order of the snapshots and the length of an outage,
\* a served average covers its window and reaches at most staleAfter beyond it.
THEOREM ServedAverageSpan == Spec => []AverageSpansItsWindow
<1>1. IndInv => AverageSpansItsWindow
  BY DEF IndInv
<1> QED
  BY <1>1, InductiveInvariant, PTL

\* A target whose InferenceSet was never deleted loses its history only after
\* going unqueried for longer than the TTL and its window.
THEOREM InUseIsKept == Spec => KeptWhileInUse
<1>1. IndInv /\ [Next]_vars => [KeptStep]_vars
  <2> SUFFICES ASSUME IndInv, [Next]_vars,
                      NEW k \in Tracked, entries'[k] = NoEntry
               PROVE  Abandoned(entries[k]) \/ deletions[InferenceSetOf[k]] > 0
    BY DEF KeptStep
  <2> USE CacheAssumption
  <2>0. /\ TypeOK /\ EvictionsJustified
        /\ k \in Keys /\ entries[k] # NoEntry /\ entries[k] \in Entry
    BY DEF IndInv, Tracked, TypeOK
  <2>1. ASSUME NEW h \in Handlers, NEW x \in Keys, NEW w \in Windows, Ensure(h, x, w)
        PROVE  FALSE
    <3>1. w \in Nat /\ now \in Nat
      BY <2>0 DEF TypeOK
    <3>2. [window |-> w, lastAccess |-> now, samples |-> << >>] \in Entry
      BY <3>1 DEF Entry
    <3>3. entries[x] # NoEntry => Touched(entries[x], w) \in Entry
      BY <2>0, <3>1 DEF TypeOK, Touched, Entry, Larger
    <3>4. PICK e \in Entry : entries' = [entries EXCEPT ![x] = e]
      BY <2>1, <3>2, <3>3 DEF Ensure
    <3>5. entries'[k] \in Entry
      BY <2>0, <3>4 DEF TypeOK
    <3> QED
      BY <3>5
  <2>2. ASSUME NEW h \in Handlers, Aggregate(h) PROVE FALSE
    <3>1. entries[target[h]] # NoEntry =>
            [entries[target[h]] EXCEPT !.lastAccess = now] \in Entry
      BY <2>0 DEF TypeOK, Entry, Processes
    <3>2. \/ entries' = entries
          \/ \E e \in Entry : entries' = [entries EXCEPT ![target[h]] = e]
      BY <2>2, <3>1 DEF Aggregate
    <3>3. entries'[k] \in Entry
      BY <2>0, <3>2 DEF TypeOK
    <3> QED
      BY <3>3
  <2>3. ASSUME NEW p \in Processes, Evict(p) PROVE deletions[InferenceSetOf[k]] > 0
    BY <2>0, <2>3 DEF TypeOK, Evict, EvictionsJustified
  <2>4. ASSUME NEW p \in Processes, AppendSample(p) PROVE FALSE
    <3>1. target[p] \in Keys /\ now \in Nat /\ stamp[p] \in Nat
      BY <2>0 DEF TypeOK
    <3>2. ASSUME entries[target[p]] # NoEntry
          PROVE  Appended(entries[target[p]], stamp[p]) \in Entry
      <4>1. /\ entries[target[p]] \in Entry
            /\ stamp[p] <= now /\ now <= stamp[p] + AppendDelay
            /\ \A i \in 1..Len(entries[target[p]].samples) :
                  entries[target[p]].samples[i] <= now
            /\ NearlyOrdered(entries[target[p]].samples)
        BY <2>0, <2>4, <3>1, <3>2
           DEF TypeOK, AppendSample, IndInv, NotFromTheFuture,
               SamplesNearlyOrdered, Tracked
      <4> QED
        BY <3>1, <4>1, AppendedSpec
    <3> QED
      BY <2>0, <2>4, <3>1, <3>2 DEF TypeOK, AppendSample
  <2>5. ASSUME StartPoll PROVE Abandoned(entries[k])
    <3>1. Idle(entries[k])
      BY <2>0, <2>5 DEF TypeOK, StartPoll
    <3>2. entries[k].window \in Nat /\ entries[k].lastAccess \in Nat /\ now \in Nat
      BY <2>0 DEF TypeOK, Entry
    <3> QED
      BY <3>1, <3>2 DEF Idle, Abandoned, Larger
  <2>6. CASE entries' = entries
    BY <2>0, <2>6
  <2> QED
    BY <2>1, <2>2, <2>3, <2>4, <2>5, <2>6
       DEF Next, Handler, PollLoop, Refresh, Environment, Processes, vars,
           Current, RefreshLookup, GetInferenceSet, RefreshFails, Scrape,
           NextKey, EndPoll, Tick, DeleteInferenceSet, CreateInferenceSet
<1> QED
  BY <1>1, InductiveInvariant, PTL DEF Spec, KeptWhileInUse

-----------------------------------------------------------------------------
\* The table of the abstract specification, as the entries show it.
Store == [k \in Tracked |-> Kept(entries[k])]

Asks == [h \in Handlers |-> target[h]]

Kinds == [h \in Handlers |-> answer[h].kind]

Deleted == {k \in Keys : deletions[InferenceSetOf[k]] > 0}

\* The newest snapshot of a history that has just been appended to is that one.
LEMMA AppendedNewest ==
  ASSUME NEW e \in Entry, NEW t \in Nat
  PROVE  Kept(Appended(e, t)) = [Kept(e) EXCEPT !.latest = {t}]
<1> DEFINE s == PruneSamples(Append(e.samples, t), t, e.window)
<1>1. e.samples \in Seq(Nat) /\ e.window \in Nat
  BY DEF Entry
<1>2. s # << >> /\ Newest(s) = t
  <2> DEFINE a == Append(e.samples, t)
  <2>1. a \in Seq(Nat) /\ Len(a) >= 1 /\ a[Len(a)] = t /\ t \in Int /\ e.window \in Int
    BY <1>1
  <2> HIDE DEF a
  <2>2. PICK d \in 0..(Len(a) - 1) :
             /\ s \in Seq(Nat)
             /\ Len(s) = Len(a) - d
             /\ \A i \in 1..Len(s) : s[i] = a[d + i]
    BY <2>1, PruneSamplesSpec DEF a
  <2> HIDE DEF s
  <2>3. Len(s) \in 1..Len(s) /\ d + Len(s) = Len(a)
    BY <2>1, <2>2
  <2>4. s[Len(s)] = a[d + Len(s)]
    BY <2>2, <2>3
  <2> QED
    BY <2>1, <2>3, <2>4 DEF Newest
<1>3. Appended(e, t) = [e EXCEPT !.samples = s]
  BY CacheAssumption DEF Appended
<1> HIDE DEF s
<1>4. Latest(s) = {t}
  BY <1>2 DEF Latest
<1>5. /\ Appended(e, t).window = e.window
      /\ Appended(e, t).lastAccess = e.lastAccess
      /\ Appended(e, t).samples = s
  BY <1>3 DEF Entry
<1> QED
  BY <1>4, <1>5 DEF Kept

\* The empty cache is the empty table.
LEMMA InitTable == Init => Table!Init
<1> SUFFICES ASSUME Init PROVE Table!Init
  OBVIOUS
<1>1. Tracked = {}
  BY DEF Init, Tracked
<1>2. \E k \in Keys : [h \in Handlers |-> target[h]] = [h \in Handlers |-> k]
  BY DEF Init, Processes
<1>3. {k \in Keys : deletions[InferenceSetOf[k]] > 0} = {}
  BY CacheAssumption DEF Init
<1>4. [h \in Handlers |-> answer[h].kind] = [h \in Handlers |-> "none"]
  BY DEF Init, NoAnswer
<1>5. [k \in Tracked |-> Kept(entries[k])] = [k \in {} |-> {}]
  BY <1>1
<1>6. now = 0
  BY DEF Init
<1> QED
  BY <1>2, <1>3, <1>4, <1>5, <1>6 DEF Table!Init


\* Every step of the cache is a step of the table, or leaves the table alone.
LEMMA NextTable == IndInv /\ [Next]_vars => [Table!Next]_(Table!vars)
<1> USE CacheAssumption
<1> SUFFICES ASSUME IndInv, [Next]_vars PROVE [Table!Next]_(Table!vars)
  OBVIOUS
<1>0. /\ TypeOK /\ NotFromTheFuture /\ EvictionsJustified
      /\ \A h \in Handlers : target[h] \in Keys
      /\ \A k \in Tracked : entries[k] \in Entry
  BY DEF IndInv, TypeOK, Tracked, Processes
<1>1. ASSUME entries' = entries PROVE Store' = Store
  BY <1>1 DEF Store, Tracked
<1>2. ASSUME UNCHANGED <<now, entries, deletions>>, Asks' = Asks, Kinds' = Kinds
      PROVE  UNCHANGED Table!vars
  <2>1. Store' = Store /\ Deleted' = Deleted /\ now' = now
    BY <1>1, <1>2 DEF Deleted
  <2> QED
    BY <1>2, <2>1 DEF Table!vars, Store, Asks, Kinds, Deleted
<1>18. ASSUME NEW h \in Handlers, NEW how, NEW span, Reply(h, how, span)
       PROVE  Kinds' = [Kinds EXCEPT ![h] = how]
  <2>1. /\ answer' \in [Handlers -> {answer'[x] : x \in Handlers}]
        /\ answer'[h].kind = how
        /\ \A x \in Handlers \ {h} : answer'[x] = answer[x]
    BY <1>0, <1>18 DEF Reply, TypeOK
  <2> QED
    BY <2>1 DEF Kinds
<1>3. ASSUME NEW h \in Handlers, NEW k \in Keys, NEW w \in Windows, Ensure(h, k, w)
      PROVE  Table!Next
  <2>1. Asks' = [Asks EXCEPT ![h] = k]
    BY <1>0, <1>3 DEF Ensure, TypeOK, Processes, Asks
  <2>2. Kinds' = [Kinds EXCEPT ![h] = "none"]
    BY <1>0, <1>3 DEF Ensure, TypeOK, NoAnswer, Kinds
  <2>3. Store' = [x \in Tracked \cup {k} |->
           IF x # k THEN Store[x]
           ELSE IF k \notin Tracked
           THEN [window |-> w, lastAccess |-> now, latest |-> {}]
           ELSE [window |-> IF Store[k].window >= w THEN Store[k].window ELSE w,
                 lastAccess |-> now, latest |-> Store[k].latest]]
    <3> DEFINE new == [window |-> w, lastAccess |-> now, samples |-> << >>]
               old == Touched(entries[k], w)
    <3>1. w \in Nat /\ now \in Nat /\ new \in Entry
      BY <1>0 DEF TypeOK, Entry
    <3>2. CASE k \notin Tracked
      <4>1. entries' = [entries EXCEPT ![k] = new]
        BY <1>3, <3>2 DEF Ensure, Tracked
      <4>2. Tracked' = Tracked \cup {k}
        BY <1>0, <3>1, <4>1 DEF Tracked, TypeOK
      <4>3. Kept(new) = [window |-> w, lastAccess |-> now, latest |-> {}]
        BY DEF Kept, Latest
      <4> HIDE DEF new
      <4>4. Store' = [x \in Tracked \cup {k} |-> Kept(entries'[x])]
        BY <4>2 DEF Store
      <4>5. \A x \in Tracked \cup {k} :
              Kept(entries'[x]) = IF x # k THEN Store[x] ELSE Kept(new)
        BY <1>0, <4>1 DEF Store, Tracked, TypeOK
      <4> QED
        BY <3>2, <4>3, <4>4, <4>5
    <3>3. CASE k \in Tracked
      <4>1. entries' = [entries EXCEPT ![k] = old]
        BY <1>0, <1>3, <3>3 DEF Ensure, Tracked, TypeOK
      <4>2. /\ old \in Entry
            /\ Kept(old) = [window |-> IF entries[k].window >= w THEN entries[k].window ELSE w,
                            lastAccess |-> now, latest |-> Kept(entries[k]).latest]
        BY <1>0, <3>1, <3>3 DEF Touched, Entry, Larger, Kept
      <4> HIDE DEF old
      <4>3. Tracked' = Tracked \cup {k}
        BY <1>0, <3>3, <4>1, <4>2 DEF Tracked, TypeOK
      <4>4. Store' = [x \in Tracked \cup {k} |-> Kept(entries'[x])]
        BY <4>3 DEF Store
      <4>5. \A x \in Tracked \cup {k} :
              Kept(entries'[x]) = IF x # k THEN Store[x] ELSE Kept(old)
        BY <1>0, <3>3, <4>1 DEF Store, Tracked, TypeOK
      <4>6. Store[k].window = entries[k].window /\ Store[k].latest = Kept(entries[k]).latest
        BY <3>3 DEF Store, Kept
      <4> QED
        BY <3>3, <4>2, <4>4, <4>5, <4>6
    <3> QED
      BY <3>2, <3>3
  <2>4. now' = now /\ Deleted' = Deleted
    BY <1>3 DEF Ensure, Deleted
  <2>5. Table!Ask(h, k, w)
    BY <2>1, <2>2, <2>3, <2>4
       DEF Table!Ask, Table!Tracked, Store, Asks, Kinds, Deleted
  <2> QED
    BY <1>3, <2>5 DEF Table!Next
<1>4. ASSUME NEW h \in Handlers
      PROVE  Table!Fresh(Asks[h]) <=> target[h] \in Tracked /\ Fresh(entries[target[h]])
  <2>1. Asks[h] = target[h] /\ target[h] \in Keys
    BY <1>0 DEF Asks
  <2>2. CASE target[h] \in Tracked
    <3> DEFINE s == entries[target[h]].samples
    <3>1. Store[target[h]].latest = Latest(s)
      BY <2>2 DEF Store, Kept
    <3>2. Fresh(entries[target[h]]) <=> \E t \in Latest(s) : now - t <= StaleAfter
      BY <2>2 DEF Fresh, Latest, Tracked
    <3>3. Table!Fresh(target[h]) <=> \E t \in Latest(s) : now - t <= StaleAfter
      BY <2>2, <3>1 DEF Table!Fresh, Table!Tracked, Store
    <3> QED
      BY <2>1, <2>2, <3>2, <3>3
  <2>3. CASE target[h] \notin Tracked
    BY <2>1, <2>3 DEF Table!Fresh, Table!Tracked
  <2> QED
    BY <2>2, <2>3
<1>5. ASSUME NEW h \in Handlers, Current(h) PROVE Table!Next
  <2> DEFINE fresh == target[h] \in Tracked /\ Fresh(entries[target[h]])
  <2>1. now' = now /\ Asks' = Asks /\ Store' = Store /\ Deleted' = Deleted
    BY <1>5 DEF Current, Asks, Store, Tracked, Deleted
  <2>2. fresh <=> Fresh(entries[target[h]])
    BY <1>0 DEF Fresh, Tracked
  <2>3. CASE fresh
    <3>1. Kinds' = [Kinds EXCEPT ![h] = "snapshot"]
      <4>1. Reply(h, "snapshot", 0)
        BY <1>5, <2>2, <2>3 DEF Current
      <4> QED
        BY <1>18, <4>1
    <3>2. Table!Serve(h, "snapshot")
      BY <1>4, <2>1, <2>3, <3>1 DEF Table!Serve, Store, Asks, Kinds, Deleted
    <3> QED
      BY <3>2 DEF Table!Next
  <2>4. CASE ~ fresh
    <3>1. Kinds' = [Kinds EXCEPT ![h] = "unavailable"]
      <4>1. Reply(h, "unavailable", 0)
        BY <1>5, <2>2, <2>4 DEF Current
      <4> QED
        BY <1>18, <4>1
    <3>2. Table!Refuse(h)
      BY <1>4, <2>1, <2>4, <3>1 DEF Table!Refuse, Store, Asks, Kinds, Deleted
    <3> QED
      BY <3>2 DEF Table!Next
  <2> QED
    BY <2>3, <2>4
<1>6. ASSUME NEW h \in Handlers, Aggregate(h) PROVE Table!Next
  <2> DEFINE k == target[h]
             fresh == k \in Tracked /\ Fresh(entries[k])
  <2>1. now' = now /\ Asks' = Asks /\ Deleted' = Deleted /\ k \in Keys
    BY <1>0, <1>6 DEF Aggregate, Asks, Deleted
  <2>2. fresh <=> Fresh(entries[k])
    BY <1>0 DEF Fresh, Tracked
  <2>3. Store' = Store \/ Table!Renewed(k)
    <3>1. CASE k \notin Tracked
      <4>1. entries' = entries
        BY <1>6, <2>1, <3>1 DEF Aggregate, Tracked
      <4> QED
        BY <1>1, <4>1
    <3>2. CASE k \in Tracked
      <4> DEFINE e == [entries[k] EXCEPT !.lastAccess = now]
      <4>1. /\ e \in Entry
            /\ Kept(e) = [Kept(entries[k]) EXCEPT !.lastAccess = now]
        <5>1. entries[k] \in Entry /\ now \in Nat
          BY <1>0, <3>2 DEF TypeOK
        <5>2. /\ e \in Entry /\ e.window = entries[k].window
              /\ e.lastAccess = now /\ e.samples = entries[k].samples
          BY <5>1 DEF Entry
        <5> HIDE DEF e
        <5> QED
          BY <5>2 DEF Kept
      <4>2. entries' = [entries EXCEPT ![k] = e]
        BY <1>0, <1>6, <2>1, <3>2 DEF Aggregate, TypeOK, Tracked, Entry
      <4> HIDE DEF e
      <4>3. Tracked' = Tracked
        BY <1>0, <3>2, <4>1, <4>2 DEF Tracked, TypeOK
      <4>4. Store' = [Store EXCEPT ![k] = Kept(e)]
        <5>1. Store' = [x \in Tracked |-> Kept(entries'[x])]
          BY <4>3 DEF Store
        <5>2. \A x \in Tracked : Kept(entries'[x]) = IF x = k THEN Kept(e) ELSE Store[x]
          BY <1>0, <4>2 DEF Store, Tracked, TypeOK
        <5> QED
          BY <5>1, <5>2 DEF Store
      <4>5. Store[k] = Kept(entries[k])
        BY <3>2 DEF Store
      <4>6. Store' = [Store EXCEPT ![k].lastAccess = now]
        BY <4>1, <4>4, <4>5
      <4> QED
        BY <3>2, <4>6 DEF Table!Renewed, Table!Tracked, Store
    <3> QED
      BY <3>1, <3>2
  <2>4. k = Asks[h]
    BY DEF Asks
  <2> HIDE DEF k
  <2>5. CASE fresh
    <3>1. PICK how \in {"warming", "average"} : Kinds' = [Kinds EXCEPT ![h] = how]
      <4>1. \E how \in {"warming", "average"} : \E span : Reply(h, how, span)
        BY <1>6, <2>2, <2>5 DEF Aggregate, k
      <4> QED
        BY <1>18, <4>1
    <3>2. Table!Serve(h, how)
      BY <1>4, <2>1, <2>3, <2>4, <2>5, <3>1 DEF Table!Serve, Store, Asks, Kinds, Deleted, k
    <3> QED
      BY <3>2 DEF Table!Next
  <2>6. CASE ~ fresh
    <3>1. Kinds' = [Kinds EXCEPT ![h] = "unavailable"]
      <4>1. Reply(h, "unavailable", 0)
        BY <1>6, <2>2, <2>6 DEF Aggregate, k
      <4> QED
        BY <1>18, <4>1
    <3>2. Table!Refuse(h)
      BY <1>4, <2>1, <2>3, <2>4, <2>6, <3>1 DEF Table!Refuse, Store, Asks, Kinds, Deleted, k
    <3> QED
      BY <3>2 DEF Table!Next
  <2> QED
    BY <2>5, <2>6
<1>7. ASSUME NEW K \in SUBSET Tracked, UNCHANGED <<now, deletions, target, answer>>,
             \A k \in K : Abandoned(entries[k]) \/ deletions[InferenceSetOf[k]] > 0,
             entries' = [k \in Keys |-> IF k \in K THEN NoEntry ELSE entries[k]]
      PROVE  Table!Next
  <2>1. now' = now /\ Asks' = Asks /\ Kinds' = Kinds /\ Deleted' = Deleted
    BY <1>7 DEF Asks, Kinds, Deleted
  <2>2. Tracked' = Tracked \ K
    BY <1>7 DEF Tracked
  <2>3. Store' = [k \in Tracked \ K |-> Store[k]]
    BY <1>7, <2>2 DEF Store, Tracked
  <2>4. \A k \in K : Table!Abandoned(k) \/ k \in Deleted
    <3> SUFFICES ASSUME NEW k \in K PROVE Table!Abandoned(k) \/ k \in Deleted
      OBVIOUS
    <3>1. k \in Keys /\ Store[k] = Kept(entries[k])
      BY DEF Store, Tracked
    <3> QED
      BY <1>7, <3>1 DEF Table!Abandoned, Abandoned, Deleted, Kept, Store
  <2>5. Table!Forget(K)
    BY <2>1, <2>3, <2>4 DEF Table!Forget, Table!Tracked, Store, Asks, Kinds, Deleted
  <2> QED
    BY <2>5 DEF Table!Next, Table!Tracked
<1>8. ASSUME NEW p \in Processes, Evict(p) PROVE Table!Next
  <2> DEFINE K == {target[p]} \cap Tracked
  <2>1. entries' = [k \in Keys |-> IF k \in K THEN NoEntry ELSE entries[k]]
    BY <1>0, <1>8 DEF Evict, TypeOK, Tracked
  <2>2. \A k \in K : deletions[InferenceSetOf[k]] > 0
    BY <1>0, <1>8 DEF Evict, EvictionsJustified
  <2>3. UNCHANGED <<now, deletions, target, answer>>
    BY <1>8 DEF Evict
  <2> QED
    BY <1>7, <2>1, <2>2, <2>3
<1>9. ASSUME StartPoll PROVE Table!Next
  <2> DEFINE K == {k \in Tracked : Idle(entries[k])}
  <2>1. /\ UNCHANGED <<now, deletions, target, answer>>
        /\ entries' = [k \in Keys |-> IF k \in K THEN NoEntry ELSE entries[k]]
    BY <1>9 DEF StartPoll
  <2>2. \A k \in K : Abandoned(entries[k])
    <3> SUFFICES ASSUME NEW k \in K PROVE Abandoned(entries[k])
      OBVIOUS
    <3>1. entries[k].window \in Nat /\ entries[k].lastAccess \in Nat /\ now \in Nat
      BY <1>0 DEF TypeOK, Entry
    <3> QED
      BY <3>1 DEF Idle, Abandoned, Larger
  <2> QED
    BY <1>7, <2>1, <2>2
<1>10. ASSUME NEW p \in Processes, AppendSample(p) PROVE [Table!Next]_(Table!vars)
  <2> DEFINE k == target[p]
             t == stamp[p]
             e == Appended(entries[k], t)
  <2>1. UNCHANGED <<now, deletions, target, answer>> /\ k \in Keys /\ t \in Nat
    BY <1>0, <1>10 DEF AppendSample, TypeOK
  <2>2. now' = now /\ Asks' = Asks /\ Kinds' = Kinds /\ Deleted' = Deleted
    BY <2>1 DEF Asks, Kinds, Deleted
  <2>3. CASE k \notin Tracked
    <3>1. entries' = entries
      BY <1>0, <1>10, <2>1, <2>3 DEF AppendSample, Appended, Tracked, TypeOK
    <3> QED
      BY <1>2, <2>1, <2>2, <3>1
  <2>4. CASE k \in Tracked
    <3>1. t <= now /\ now <= t + AppendDelay /\ now \in Nat
      BY <1>0, <1>10 DEF AppendSample, NotFromTheFuture, TypeOK
    <3>2. e \in Entry /\ Kept(e) = [Kept(entries[k]) EXCEPT !.latest = {t}]
      <4>1. /\ \A i \in 1..Len(entries[k].samples) : entries[k].samples[i] <= now
            /\ NearlyOrdered(entries[k].samples)
        BY <1>0, <2>4 DEF IndInv, NotFromTheFuture, SamplesNearlyOrdered
      <4> QED
        BY <1>0, <2>1, <2>4, <3>1, <4>1, AppendedSpec, AppendedNewest
    <3>3. entries' = [entries EXCEPT ![k] = e]
      BY <1>0, <1>10, <2>1 DEF AppendSample, TypeOK
    <3> HIDE DEF e
    <3>4. Tracked' = Tracked
      BY <1>0, <2>4, <3>2, <3>3 DEF Tracked, TypeOK
    <3>5. Store' = [Store EXCEPT ![k] = Kept(e)]
      <4>1. Store' = [x \in Tracked |-> Kept(entries'[x])]
        BY <3>4 DEF Store
      <4>2. \A x \in Tracked : Kept(entries'[x]) = IF x = k THEN Kept(e) ELSE Store[x]
        BY <1>0, <3>3 DEF Store, Tracked, TypeOK
      <4> QED
        BY <4>1, <4>2 DEF Store
    <3>6. Store' = [Store EXCEPT ![k].latest = {t}]
      BY <2>4, <3>2, <3>5 DEF Store
    <3>9. now - AppendDelay <= t
      BY <2>1, <3>1
    <3> HIDE DEF k, t
    <3>7. Table!Learn(k, t)
      BY <2>2, <2>4, <3>6, <3>9 DEF Table!Learn, Table!Tracked, Store, Asks, Kinds, Deleted
    <3>8. t \in 0..now
      BY <2>1, <3>1
    <3> QED
      BY <2>1, <3>7, <3>8 DEF Table!Next
  <2> QED
    BY <2>3, <2>4
<1>11. ASSUME Tick PROVE Table!Next
  <2>1. now' = now + 1 /\ UNCHANGED <<entries, deletions, target, answer>>
    BY <1>11 DEF Tick
  <2>2. Store' = Store /\ Asks' = Asks /\ Kinds' = Kinds /\ Deleted' = Deleted
    BY <1>1, <2>1 DEF Asks, Kinds, Deleted
  <2>3. Table!Advance
    BY <2>1, <2>2 DEF Table!Advance, Store, Asks, Kinds, Deleted
  <2> QED
    BY <2>3 DEF Table!Next
<1>12. ASSUME NEW s \in InferenceSets, DeleteInferenceSet(s) PROVE Table!Next
  <2> DEFINE K == {k \in Keys : InferenceSetOf[k] = s}
  <2>1. UNCHANGED <<now, entries, target, answer>>
    BY <1>12 DEF DeleteInferenceSet
  <2>2. Store' = Store /\ Asks' = Asks /\ Kinds' = Kinds /\ now' = now
    BY <1>1, <2>1 DEF Asks, Kinds
  <2>3. Deleted' = Deleted \cup K
    <3>1. deletions' = [deletions EXCEPT ![s] = deletions[s] + 1] /\ deletions[s] \in Nat
      BY <1>0, <1>12 DEF DeleteInferenceSet, TypeOK
    <3> QED
      BY <1>0, <3>1 DEF Deleted, TypeOK
  <2>4. Table!Delete(K)
    BY <2>2, <2>3 DEF Table!Delete, Store, Asks, Kinds, Deleted
  <2> QED
    BY <2>4 DEF Table!Next
<1>13. ASSUME UNCHANGED <<now, entries, deletions, target, answer>>
       PROVE  UNCHANGED Table!vars
  <2>1. Asks' = Asks /\ Kinds' = Kinds
    BY <1>13 DEF Asks, Kinds
  <2> QED
    BY <1>2, <1>13, <2>1
<1>14. ASSUME NEW k \in Keys, NextKey(k) PROVE UNCHANGED Table!vars
  <2>1. Asks' = Asks
    BY <1>0, <1>14 DEF NextKey, TypeOK, Processes, Asks
  <2>2. UNCHANGED <<now, entries, deletions>> /\ Kinds' = Kinds
    BY <1>14 DEF NextKey, Kinds
  <2> QED
    BY <1>2, <2>1, <2>2
<1>15. ASSUME NEW p \in Processes,
              RefreshLookup(p) \/ GetInferenceSet(p) \/ RefreshFails(p) \/ Scrape(p)
       PROVE  UNCHANGED Table!vars
  BY <1>13, <1>15 DEF RefreshLookup, GetInferenceSet, RefreshFails, Scrape
<1>16. ASSUME EndPoll \/ \E s \in InferenceSets : CreateInferenceSet(s)
       PROVE  UNCHANGED Table!vars
  BY <1>13, <1>16 DEF EndPoll, CreateInferenceSet
<1>17. CASE UNCHANGED vars
  BY <1>13, <1>17 DEF vars
<1> QED
  BY <1>3, <1>5, <1>6, <1>8, <1>9, <1>10, <1>11, <1>12, <1>14, <1>15, <1>16, <1>17
     DEF Next, Handler, PollLoop, Refresh, Environment, Processes

\* For every set of targets, handlers, windows and delays the cache implements the
\* table of targets: queries look atomic, stale snapshots are never served, targets
\* in use are kept.
THEOREM CacheImplementsTable == Spec => ImplementsTargetTable
  BY InitTable, NextTable, InductiveInvariant, PTL
     DEF Spec, Table!Spec, ImplementsTargetTable

-----------------------------------------------------------------------------
\* A target comes into being by a query only, without history: no refresh brings
\* an evicted one back.
THEOREM NoResurrection == Spec => OnlyQueriesRegister
<1>1. IndInv /\ [Next]_vars => [RegisterStep]_vars
  <2> USE CacheAssumption
  <2> SUFFICES ASSUME IndInv, [Next]_vars,
                      NEW k \in Keys \ Tracked, entries'[k] # NoEntry
               PROVE  /\ entries'[k].samples = << >>
                      /\ \E h \in Handlers : pc[h] = "idle" /\ target'[h] = k
    BY DEF RegisterStep
  <2>0. TypeOK /\ entries[k] = NoEntry
    BY DEF IndInv, Tracked
  <2>1. ASSUME NEW h \in Handlers, NEW x \in Keys, NEW w \in Windows, Ensure(h, x, w)
        PROVE  x = k /\ entries'[k].samples = << >> /\ pc[h] = "idle" /\ target'[h] = k
    <3>1. x = k
      <4>1. CASE entries[x] = NoEntry
        BY <2>0, <2>1, <4>1 DEF Ensure, TypeOK
      <4>2. CASE entries[x] # NoEntry
        BY <2>0, <2>1, <4>2 DEF Ensure, TypeOK
      <4> QED
        BY <4>1, <4>2
    <3> QED
      BY <2>0, <2>1, <3>1 DEF Ensure, TypeOK, Processes
  <2>2. ASSUME NEW h \in Handlers, Aggregate(h) PROVE FALSE
    <3>1. CASE entries[target[h]] = NoEntry
      BY <2>0, <2>2, <3>1 DEF Aggregate
    <3>2. CASE entries[target[h]] # NoEntry
      BY <2>0, <2>2, <3>2 DEF Aggregate, TypeOK
    <3> QED
      BY <3>1, <3>2
  <2>3. ASSUME NEW p \in Processes, Evict(p) PROVE FALSE
    BY <2>0, <2>3 DEF Evict, TypeOK
  <2>4. ASSUME NEW p \in Processes, AppendSample(p) PROVE FALSE
    BY <2>0, <2>4 DEF AppendSample, Appended, TypeOK
  <2>5. ASSUME StartPoll PROVE FALSE
    BY <2>0, <2>5 DEF StartPoll
  <2>6. CASE entries' = entries
    BY <2>0, <2>6
  <2> QED
    BY <2>1, <2>2, <2>3, <2>4, <2>5, <2>6
       DEF Next, Handler, PollLoop, Refresh, Environment, Processes, vars,
           Current, RefreshLookup, GetInferenceSet, RefreshFails, Scrape,
           NextKey, EndPoll, Tick, DeleteInferenceSet, CreateInferenceSet
<1> QED
  BY <1>1, InductiveInvariant, PTL DEF Spec, OnlyQueriesRegister
===============================================================================
