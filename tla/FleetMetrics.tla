----------------------------- MODULE FleetMetrics -----------------------------
(***************************************************************************)
(* A changing fleet of replicas, the snapshots the modelpod source takes   *)
(* of it (pkg/metricsource/modelpod_source.go, Scrape) and what the        *)
(* aggregations make of them.                                              *)
(*                                                                         *)
(* A scrape lists the workspaces once and then asks one Service after the  *)
(* other while requests go on, replicas join, leave or restart, and single *)
(* Services do not answer.  A replica's counters live in its process: they *)
(* start from 0 again when it restarts.  Its scalar is the number of its   *)
(* requests; neither part is exposed before the first of them.             *)
(***************************************************************************)
EXTENDS Aggregators, Sequences

CONSTANTS
    Replicas,        \* names of workspaces, never used twice
    Values,          \* what a request may observe (a latency)
    Threshold,       \* the per-replica threshold of a sum trigger
    MaxRequests,     \* bound on the requests
    MaxSnapshots,    \* bound on the snapshots kept
    MaxDisturbances  \* bound on the replicas that leave or restart

ASSUME FleetAssumption ==
    /\ IsFiniteSet(Replicas)
    /\ Values \subseteq Nat
    /\ Threshold \in Nat
    /\ MaxRequests \in Nat
    /\ MaxSnapshots \in Nat
    /\ MaxDisturbances \in Nat

VARIABLES
    members,       \* the workspaces of the InferenceSet
    gone,          \* names that were used and left
    requests,      \* history: all requests, in order, with their replica
    started,       \* the requests made before each replica's process started
    disturbances,  \* replicas that left or restarted so far
    listed,        \* the workspaces the scrape under way has still to ask
    taking,        \* the snapshot it has so far
    taken          \* the finished snapshots

fleet == <<members, gone, requests, started, disturbances, listed, taking, taken>>

Made(r) ==
    {i \in (started[r] + 1)..Len(requests) : requests[i].replica = r}

Total(I) == SumFunction([i \in I |-> requests[i].value])

Reading(r) ==
    IF Made(r) = {} THEN [scalar |-> Absent, histogram |-> Absent]
    ELSE [scalar |-> Cardinality(Made(r)),
          histogram |-> [sum |-> Total(Made(r)), count |-> Cardinality(Made(r))]]

\* A snapshot of no service yet.  services is what the code keeps; the rest is
\* history: what was so when each service was asked.
Blank(d) == [services |-> << >>, load |-> << >>, seen |-> << >>, from |-> d, to |-> d]

FleetInit ==
    /\ members \in SUBSET Replicas
    /\ gone = {}
    /\ requests = << >>
    /\ started = [r \in Replicas |-> 0]
    /\ disturbances = 0
    /\ listed = {}
    /\ taking = Blank(0)
    /\ taken = << >>

-----------------------------------------------------------------------------
(* The fleet.                                                              *)

Serve(r, v) ==
    /\ Len(requests) < MaxRequests
    /\ r \in members
    /\ requests' = Append(requests, [replica |-> r, value |-> v])
    /\ UNCHANGED <<members, gone, started, disturbances, listed, taking, taken>>

Join(r) ==
    /\ r \notin members \cup gone
    /\ members' = members \cup {r}
    /\ started' = [started EXCEPT ![r] = Len(requests)]
    /\ UNCHANGED <<gone, requests, disturbances, listed, taking, taken>>

Disturb == /\ disturbances < MaxDisturbances
           /\ disturbances' = disturbances + 1

Leave(r) ==
    /\ Disturb
    /\ r \in members
    /\ members' = members \ {r}
    /\ gone' = gone \cup {r}
    /\ UNCHANGED <<requests, started, listed, taking, taken>>

Restart(r) ==
    /\ Disturb
    /\ r \in members
    /\ started' = [started EXCEPT ![r] = Len(requests)]
    /\ UNCHANGED <<members, gone, requests, listed, taking, taken>>

-----------------------------------------------------------------------------
(* Scrape.                                                                 *)

With(f, r, v) == [x \in DOMAIN f \cup {r} |-> IF x = r THEN v ELSE f[x]]

\* Faulty: a service that could not be scraped is left out of the snapshot.
AskedIfScraped(r, answer) ==
    [services |-> IF answer = Failed THEN taking.services ELSE With(taking.services, r, answer),
     load |-> With(taking.load, r, Cardinality(Made(r))),
     seen |-> With(taking.seen, r, Len(requests)),
     from |-> taking.from,
     to |-> disturbances]

Asked(r, answer) ==
    [services |-> With(taking.services, r, answer),
     load |-> With(taking.load, r, Cardinality(Made(r))),
     seen |-> With(taking.seen, r, Len(requests)),
     from |-> taking.from,
     to |-> disturbances]

\* A fleet without workspaces makes an empty snapshot, not an error.
BeginScrape ==
    LET first == Blank(disturbances)
    IN  /\ Len(taken) < MaxSnapshots
        /\ listed = {}
        /\ listed' = members
        /\ IF members = {}
           THEN /\ taken' = Append(taken, first)
                /\ UNCHANGED taking
           ELSE /\ taking' = first
                /\ UNCHANGED taken
        /\ UNCHANGED <<members, gone, requests, started, disturbances>>

\* A Service that does not answer, or no longer exists, is recorded as failed.
ScrapeService(r, answer) ==
    /\ r \in listed
    /\ answer = Failed \/ (r \in members /\ answer = Reading(r))
    /\ listed' = listed \ {r}
    /\ IF listed' = {}
       THEN /\ taken' = Append(taken, Asked(r, answer))
            /\ taking' = Blank(0)
       ELSE /\ taking' = Asked(r, answer)
            /\ UNCHANGED taken
    /\ UNCHANGED <<members, gone, requests, started, disturbances>>

FleetNext ==
    \/ \E r \in Replicas, v \in Values : Serve(r, v)
    \/ \E r \in Replicas : Join(r) \/ Leave(r) \/ Restart(r)
    \/ BeginScrape
    \/ \E r \in Replicas : \E answer \in {Failed, Reading(r)} : ScrapeService(r, answer)

FleetSpec == FleetInit /\ [][FleetNext]_fleet

-----------------------------------------------------------------------------
(* Properties                                                              *)

Histogram == [sum : Nat, count : Nat] \cup {Absent}

\* Types; every snapshot has one entry for every workspace that was listed.
FleetTypeOK ==
    /\ members \in SUBSET Replicas
    /\ gone \in SUBSET Replicas
    /\ requests \in Seq([replica : Replicas, value : Values])
    /\ started \in [Replicas -> Nat]
    /\ disturbances \in 0..MaxDisturbances
    /\ listed \in SUBSET Replicas
    /\ \A n \in 1..Len(taken) :
          LET s == taken[n].services
          IN  /\ DOMAIN s \in SUBSET Replicas
              /\ DOMAIN s = DOMAIN taken[n].load
              /\ \A r \in Scraped(s) :
                    /\ s[r].scalar \in Nat \cup {Absent}
                    /\ s[r].histogram \in Histogram

Complete(snapshot) == Scraped(snapshot.services) = DOMAIN snapshot.services

\* The requests between the scrapes of their replica in two snapshots.
Between(b, n) ==
    {i \in 1..Len(requests) :
        LET r == requests[i].replica
        IN  /\ r \in DOMAIN n.seen /\ i <= n.seen[r]
            /\ r \in DOMAIN b.seen => i > b.seen[r]}

Pairs == {p \in (1..Len(taken)) \X (1..Len(taken)) : p[1] < p[2]}

\* Between two snapshots in which every replica answers, and between which none leaves
\* or restarts, the windowed average is the mean of exactly the requests of the window,
\* however many replicas join, however unevenly they are loaded and whatever happens
\* between two scrapes of one snapshot.  The exception: it is 0, whatever the window
\* holds, if no replica of the older snapshot exposes the histogram, as in a fleet that
\* was empty or had not served its first request (metric_cache.go 257-261).
AverageIsExact ==
    \A p \in Pairs :
        LET b == taken[p[1]]
            n == taken[p[2]]
            average == WindowedAverage(b.services, n.services)
            I == Between(b, n)
        IN  (Complete(b) /\ Complete(n) /\ b.from = n.to) =>
                IF Exposing(b.services) = {} \/ I = {} THEN average = Zero
                ELSE average.num * Cardinality(I) = average.den * Total(I)

Loads(snapshot) == {snapshot.load[r] : r \in DOMAIN snapshot.load}

\* The average is one that the replicas that answered really have: not below the
\* least loaded and not above the most loaded of them, however many could not be
\* scraped (ServiceAverageAggregator divides by the successes alone).
AverageIsReal ==
    \A k \in 1..Len(taken) :
        LET s == taken[k].services
            average == ServiceAverage(s)
        IN  average # NoValue =>
                /\ \E r \in Scraped(s) : average.num <= average.den * taken[k].load[r]
                /\ \E r \in Scraped(s) : average.num >= average.den * taken[k].load[r]

\* While every replica is loaded below the threshold, replicas that cannot be
\* scraped never make the sum smaller than it really is, so that their absence
\* does not shrink the fleet.
MissingIsNotIdle ==
    \A k \in 1..Len(taken) :
        LET sum == ServiceSum(taken[k].services, Threshold)
            load == taken[k].load
        IN  (\A r \in DOMAIN load : load[r] < Threshold) =>
                \/ sum = NoValue
                \/ sum >= SumFunction(load)

\* The comment on MetricCache.Aggregate: replica churn "permits scale-down without
\* tripping scale-up", so no average exceeds every value that was ever observed.
ChurnDoesNotScaleUp ==
    \A p \in Pairs :
        LET average == WindowedAverage(taken[p[1]].services, taken[p[2]].services)
        IN  average.num > 0 =>
                \E i \in 1..Len(requests) : average.num <= average.den * requests[i].value
===============================================================================
