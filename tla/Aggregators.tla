------------------------------ MODULE Aggregators ------------------------------
(***************************************************************************)
(* How the per-service values of a snapshot become the one value that KEDA *)
(* is told (pkg/aggregator and MetricCache.Aggregate).                     *)
(*                                                                         *)
(* A snapshot maps the name of each service to Failed, or to a reading     *)
(* [scalar, histogram] of the metric; either part may be Absent.  Numbers  *)
(* are integers and an average is a fraction [num, den] that is compared   *)
(* by cross-multiplication.  NoValue is an error of the aggregator.        *)
(***************************************************************************)
EXTENDS Integers, FiniteSets, Functions

CONSTANTS Failed, Absent, NoValue

HistogramReading == [sum : Int, count : Int]
ServiceReading == [scalar : Int \cup {Absent}, histogram : HistogramReading \cup {Absent}]
Fraction == [num : Nat, den : Nat \ {0}]

\* The markers are not values.
ASSUME MarkerAssumption ==
    /\ Absent \notin Int \cup HistogramReading
    /\ Failed \notin ServiceReading
    /\ NoValue \notin Int \cup Fraction

Zero == [num |-> 0, den |-> 1]

Scraped(snapshot) == {s \in DOMAIN snapshot : snapshot[s] # Failed}

Scalar(reading) == IF reading.scalar = Absent THEN 0 ELSE reading.scalar

ScalarSum(snapshot) ==
    SumFunction([s \in Scraped(snapshot) |-> Scalar(snapshot[s])])

NonNegative(n) == IF n < 0 THEN 0 ELSE n

Exposed(snapshot) == \E s \in Scraped(snapshot) : snapshot[s].scalar # Absent

\* Faulty: services that could not be scraped count as services without load.
ServiceAverageOfAll(snapshot) ==
    IF Exposed(snapshot)
    THEN [num |-> NonNegative(ScalarSum(snapshot)), den |-> Cardinality(DOMAIN snapshot)]
    ELSE NoValue

\* ServiceAverageAggregator: a metric that no service exposes is unknown, one that
\* some services do not expose is 0 there.
ServiceAverage(snapshot) ==
    IF Exposed(snapshot)
    THEN [num |-> NonNegative(ScalarSum(snapshot)), den |-> Cardinality(Scraped(snapshot))]
    ELSE NoValue

\* Faulty: missing services contribute nothing.
ServiceSumOfScraped(snapshot, threshold) ==
    IF Scraped(snapshot) = {} THEN NoValue ELSE NonNegative(ScalarSum(snapshot))

\* SumAggregator: below the threshold a missing service contributes the threshold.
ServiceSum(snapshot, threshold) ==
    LET scraped == Cardinality(Scraped(snapshot))
        missing == Cardinality(DOMAIN snapshot) - scraped
        sum == ScalarSum(snapshot)
    IN  IF scraped = 0 THEN NoValue
        ELSE IF missing > 0 /\ sum < threshold * scraped
        THEN NonNegative(sum + threshold * missing)
        ELSE NonNegative(sum)

\* histogramSumCount: one part of the histogram over all services that expose it.
Exposing(snapshot) == {s \in Scraped(snapshot) : snapshot[s].histogram # Absent}

HistogramSum(snapshot) ==
    SumFunction([s \in Exposing(snapshot) |-> snapshot[s].histogram.sum])

HistogramCount(snapshot) ==
    SumFunction([s \in Exposing(snapshot) |-> snapshot[s].histogram.count])

\* Faulty: the mean of everything the services ever observed.
WindowedAverageOfAll(baseline, newest) ==
    IF Exposing(newest) = {} \/ HistogramCount(newest) = 0 THEN Zero
    ELSE [num |-> HistogramSum(newest), den |-> HistogramCount(newest)]

\* The end of MetricCache.Aggregate: the mean of what was observed in between.
WindowedAverage(baseline, newest) ==
    LET sum == HistogramSum(newest) - HistogramSum(baseline)
        count == HistogramCount(newest) - HistogramCount(baseline)
    IN  IF Exposing(newest) = {} \/ Exposing(baseline) = {} \/ count <= 0 \/ sum < 0
        THEN Zero
        ELSE [num |-> sum, den |-> count]
===============================================================================
