------------------------------ MODULE ScaleLoop ------------------------------
(***************************************************************************)
(* The closed loop around an auto-provisioned InferenceSet: the scaler     *)
(* answers each trigger of the ScaledObject (pkg/scaler/scaler.go,         *)
(* GetMetrics), KEDA evaluates the formula over the answers and wakes or   *)
(* parks the workload, the HPA moves it between 1 and max, KAITO brings    *)
(* replicas up, and the poller refreshes the snapshots that are served.    *)
(*                                                                         *)
(* KEDA asks for one trigger at a time, so an evaluation mixes answers     *)
(* from different moments.  The scaler reads the InferenceSet and the list *)
(* of its Workspaces from the informers of its manager, which lag behind;  *)
(* KEDA and the HPA read the replica count they change from the API        *)
(* server.  One pod of the scaler answers.  KEDA, the HPA and KAITO are    *)
(* external: they are modelled as far as the comments and the README of    *)
(* the repository rely on them.  Every scrape target serves one metric;    *)
(* Unknown stands for a cold or stale cache, or a snapshot the aggregation *)
(* rejects, Blank for a snapshot whose scrapes all failed and which a      *)
(* windowed average reads.                                                 *)
(***************************************************************************)
EXTENDS ScalingFormula, Sequences

CONSTANTS
    Configs,      \* the accepted configurations the user switches between
    Levels,       \* bound: the values a metric may have
    MaxReplicas,  \* bound on the replicas
    ByHand,       \* the replica counts the user sets out of band
    Cooldown,     \* cooldownPeriod, in evaluations
    MaxLag,       \* bound on the versions the informer is behind
    Windowed,     \* the metrics aggregated over the cache's window
    Unknown,      \* no answer for a metric
    Blank,        \* a snapshot without a value of the metric
    Unread        \* a trigger not asked yet in this evaluation

Gate == "readiness_gate"
ReplicaCount == "replica_count"
Triggers == Metrics \cup {Gate, ReplicaCount}

ASSUME LoopAssumption ==
    /\ Configs \subseteq {c \in Config : ConfigValid(c)}
    /\ \A c \in Configs : c.max <= MaxReplicas
    /\ Levels \subseteq Nat
    /\ 0 \in Levels
    /\ MaxReplicas \in Nat
    /\ ByHand \subseteq 0..MaxReplicas
    /\ Cooldown \in Nat
    /\ MaxLag \in Nat
    /\ Windowed \subseteq Metrics
    /\ {Unknown, Unread, Blank} \cap Int = {}
    /\ Unknown # Blank
    /\ {Gate, ReplicaCount} \cap Metrics = {}

VARIABLES
    object,     \* the ScaledObject in force
    replicas,   \* InferenceSet spec.replicas
    ready,      \* InferenceSet status.readyReplicas
    lag,        \* superseded versions the informer has still to replace
    service,    \* does a Workspace the informer shows have a model Service?
    load,       \* what each metric really is
    cache,      \* what the cache would serve for it
    asked,      \* the answers KEDA has in the evaluation under way
    inactive,   \* evaluations since the last active one, up to Cooldown
    idleSeen,   \* history: metrics that were idle when this evaluation asked for them
    misled      \* history: in this evaluation somebody set the replicas, or an
                \* informer asked showed no backend although there was one

vars == <<object, replicas, ready, lag, service, load, cache, asked,
          inactive, idleSeen, misled>>

workload == <<replicas, ready, service>>

Asking == [t \in Triggers |-> Unread]

SourceOf(m) == object.rules[m].source

Init ==
    /\ object \in Configs
    /\ replicas \in 0..1
    /\ ready = 0
    /\ lag = << >>
    /\ service = FALSE
    /\ load = [m \in Metrics |-> 0]
    /\ cache = [m \in Metrics |-> Unknown]
    /\ asked = Asking
    /\ inactive = 0
    /\ idleSeen = {}
    /\ misled = FALSE

-----------------------------------------------------------------------------
(* The informer, and GetMetrics.                                           *)

Current == [replicas |-> replicas, ready |-> ready]

\* getInferenceSet: what the informer shows.
Shown == IF lag = << >> THEN Current ELSE Head(lag)

\* An informer that is MaxLag versions behind misses the oldest of them.
Superseded ==
    LET versions == Append(lag, Current)
    IN  IF Len(versions) <= MaxLag THEN versions ELSE Tail(versions)

\* A change of the InferenceSet is a new version of it.
Publish == lag' = IF Current' = Current THEN lag ELSE Superseded

Deliver ==
    /\ lag # << >>
    /\ lag' = Tail(lag)
    /\ UNCHANGED <<object, replicas, ready, service, load, cache, asked, inactive>>

\* The sum and the count of a snapshot without values are both 0.
Served(m) == IF cache[m] = Blank THEN 0 ELSE cache[m]

\* Faulty: only an opted-in trigger reads zero replicas as 0.
MetricValueOptIn(m) ==
    IF /\ SourceOf(m) = "modelpod"
       /\ object.min = 0
       /\ Shown.replicas = 0 \/ ~ service
    THEN 0 ELSE Served(m)

\* Faulty: a metric is 0 at zero replicas only, not before the model Service.
MetricValueZeroOnly(m) ==
    IF SourceOf(m) = "modelpod" /\ Shown.replicas = 0 THEN 0 ELSE Served(m)

\* Faulty: every metric is scraped.
MetricValueScraped(m) == Served(m)

\* Faulty: an opted-in trigger reads a metric without a snapshot as 0.
MetricValueZeroIfUnknown(m) ==
    IF /\ SourceOf(m) = "modelpod"
       /\ Shown.replicas = 0 \/ (object.min = 0 /\ cache[m] = Unknown)
    THEN 0 ELSE Served(m)

\* A modelpod metric is 0 without a scrape at zero desired replicas, and, for a
\* trigger opted in by a minimum of 0, while no model Service is found.
MetricValue(m) ==
    IF /\ SourceOf(m) = "modelpod"
       /\ Shown.replicas = 0 \/ (object.min = 0 /\ ~ service)
    THEN 0 ELSE Served(m)

\* Faulty: a closed gate reports how many replicas are missing.
ReadinessGateMissing ==
    IF Shown.ready < Shown.replicas THEN Shown.ready - Shown.replicas ELSE 1

\* Faulty: the gate is open while one replica is missing.
ReadinessGateButOne == IF Shown.ready + 1 < Shown.replicas THEN 0 ELSE 1

ReadinessGate == IF Shown.ready < Shown.replicas THEN 0 ELSE 1

Answer(t) ==
    CASE t = Gate -> ReadinessGate
      [] t = ReplicaCount -> Shown.replicas
      [] OTHER -> MetricValue(t)

-----------------------------------------------------------------------------
(* The poller, and the load.                                               *)

\* A snapshot none of whose pods answered: an average over replicas rejects it,
\* a windowed average does not.
Unanswered(m) == IF m \in Windowed THEN Blank ELSE Unknown

\* A scrape: the router always answers, a model pod only once it is ready.
Scrape(m) ==
    /\ cache' = [cache EXCEPT ![m] =
           IF SourceOf(m) = "modelpod" /\ ready = 0 THEN Unanswered(m) ELSE load[m]]
    /\ UNCHANGED <<object, replicas, ready, service, load, asked, inactive>>

\* Scraping failed as a whole for longer than staleAfter, or no pod answered.
Outage(m) ==
    /\ \E unread \in {Unknown, Unanswered(m)} : cache' = [cache EXCEPT ![m] = unread]
    /\ UNCHANGED <<object, replicas, ready, service, load, asked, inactive>>

\* Backends have work only while a replica is ready.
Load(m, v) ==
    /\ SourceOf(m) = "modelpod" => (ready > 0 \/ v = 0)
    /\ load' = [load EXCEPT ![m] = v]
    /\ UNCHANGED <<object, replicas, ready, service, cache, asked, inactive>>

-----------------------------------------------------------------------------
(* KAITO, and the user.                                                    *)

LoadOf(n) ==
    [m \in Metrics |-> IF SourceOf(m) = "modelpod" /\ n = 0 THEN 0 ELSE load[m]]

\* spec.replicas is set: surplus replicas, and with the last of them the model
\* Service, go away.
ScaleTo(n) ==
    /\ replicas' = n
    /\ ready' = IF ready <= n THEN ready ELSE n
    /\ service' = (service /\ n > 0)
    /\ load' = LoadOf(ready')

\* A model Service is created, and the informer shows its Workspace; the replica may
\* be ready before that.
CreateService ==
    /\ replicas > 0
    /\ ~ service
    /\ service' = TRUE
    /\ UNCHANGED <<object, replicas, ready, load, cache, asked, inactive>>

ReplicaReady ==
    /\ ready < replicas
    /\ ready' = ready + 1
    /\ UNCHANGED <<object, replicas, service, load, cache, asked, inactive>>

\* Out of band: neither KEDA nor the HPA.
ScaleByHand(n) ==
    /\ n # replicas
    /\ ScaleTo(n)
    /\ UNCHANGED <<object, cache, asked, inactive>>

\* The annotations change, and the controller updates the ScaledObject: KEDA
\* starts over with it.
Reprovision(c) ==
    /\ c # object
    /\ \A m \in Metrics : c.rules[m].source = SourceOf(m)
    /\ object' = c
    /\ asked' = Asking
    /\ UNCHANGED <<workload, load, cache, inactive>>

-----------------------------------------------------------------------------
(* KEDA and the HPA.                                                       *)

\* One GetMetrics call of the evaluation.  An error abandons the evaluation:
\* KEDA treats it as "not active" and enforces nothing.
Ask(t) ==
    /\ asked[t] = Unread
    /\ asked' = IF Answer(t) = Unknown THEN Asking
                ELSE [asked EXCEPT ![t] = Answer(t)]
    /\ UNCHANGED <<object, workload, load, cache, inactive>>

Given(answers) ==
    [value |-> [m \in Metrics |-> answers[m]],
     gate |-> answers[Gate], replicas |-> answers[ReplicaCount]]

Larger(a, b) == IF a >= b THEN a ELSE b

\* All triggers answered: an active object is woken if it is at zero, one that
\* may park is parked once it was inactive for the cooldown.
Decide ==
    LET active == Signal(object, Given(asked)) > 0
    IN  /\ \A t \in Triggers : asked[t] # Unread
        /\ asked' = Asking
        /\ \/ /\ active
              /\ inactive' = 0
              /\ IF replicas = 0 THEN ScaleTo(Larger(object.min, 1))
                 ELSE UNCHANGED <<workload, load>>
           \/ /\ ~ active
              /\ IF object.min = 0 /\ replicas > 0 /\ inactive >= Cooldown
                 THEN ScaleTo(0) /\ UNCHANGED inactive
                 ELSE /\ inactive' = IF inactive < Cooldown THEN inactive + 1 ELSE inactive
                      /\ UNCHANGED <<workload, load>>
        /\ UNCHANGED <<object, cache>>

\* The HPA evaluates the formula at once and moves by one replica at most,
\* between max(min, 1) and max; it is off at zero replicas.
HPA ==
    LET answers == [t \in Triggers |-> Answer(t)]
        signal == Signal(object, Given(answers))
    IN  /\ replicas > 0
        /\ \A t \in Triggers : answers[t] # Unknown
        /\ \/ /\ signal > Hold
              /\ replicas < object.max
              /\ ScaleTo(replicas + 1)
           \/ /\ signal < Hold
              /\ replicas > Larger(object.min, 1)
              /\ ScaleTo(replicas - 1)
        /\ UNCHANGED <<object, cache, asked, inactive>>

Clamp(n) ==
    IF n > object.max THEN object.max ELSE Larger(n, Larger(object.min, 1))

\* The HPA enforces its bounds whatever the metrics say.
HPABounds ==
    /\ replicas > 0
    /\ Clamp(replicas) # replicas
    /\ ScaleTo(Clamp(replicas))
    /\ UNCHANGED <<object, cache, asked, inactive>>

KEDA == (\E t \in Triggers : Ask(t)) \/ Decide

Cluster ==
    \/ \E m \in Metrics, v \in Levels : Load(m, v)
    \/ CreateService
    \/ ReplicaReady
    \/ \E c \in Configs : Reprovision(c)

\* Could the scaler, as it is now, see m truly idle?  No backend is ready, or the
\* cache has a value at or below the threshold.
IdleNow(m) ==
    \/ SourceOf(m) = "modelpod" /\ ready = 0
    \/ /\ cache[m] \notin {Unknown, Blank}
       /\ object.rules[m].deactivation # Unset
       /\ cache[m] <= object.rules[m].deactivation

\* An informer still shows no backend although there is one.
Blind ==
    \/ Shown.replicas = 0 /\ replicas > 0
    \/ ~ service /\ ready > 0

\* The history ends with the evaluation.
Observe(hand) ==
    IF asked' = Asking THEN idleSeen' = {} /\ misled' = FALSE
    ELSE /\ idleSeen' = idleSeen \cup {m \in Metrics : asked'[m] # asked[m] /\ IdleNow(m)}
         /\ misled' = (hand \/ misled \/ (asked' # asked /\ Blind))

System ==
    \/ \E m \in Metrics : Scrape(m) \/ Outage(m)
    \/ KEDA
    \/ HPA
    \/ HPABounds
    \/ Cluster

Next ==
    \/ System /\ Publish /\ Observe(FALSE)
    \/ Deliver /\ Observe(FALSE)
    \/ \E n \in ByHand : ScaleByHand(n) /\ Publish /\ Observe(TRUE)

Spec == Init /\ [][Next]_vars

Fairness ==
    /\ WF_vars(KEDA /\ Publish /\ Observe(FALSE))
    /\ WF_vars(Deliver /\ Observe(FALSE))
    /\ \A m \in Metrics : WF_vars(Scrape(m) /\ Publish /\ Observe(FALSE))

\* The snapshot of a metric that could be scraped is lost.
Lost(m) ==
    /\ cache[m] \notin {Unknown, Blank}
    /\ cache'[m] \in {Unknown, Blank}
    /\ SourceOf(m) = "modelpod" => ready > 0

OutagesEnd == <>[][\A m \in Metrics : ~ Lost(m)]_cache

FairSpec == Spec /\ Fairness /\ OutagesEnd

-----------------------------------------------------------------------------
(* Properties                                                              *)

\* Every variable has its type.
TypeOK ==
    /\ object \in Configs
    /\ replicas \in 0..MaxReplicas
    /\ ready \in 0..replicas
    /\ lag \in Seq([replicas : 0..MaxReplicas, ready : 0..MaxReplicas])
    /\ Len(lag) <= MaxLag
    /\ service \in BOOLEAN
    /\ load \in [Metrics -> Levels]
    /\ cache \in [Metrics -> Levels \cup {Unknown, Blank}]
    /\ asked \in [Triggers -> Levels \cup 0..MaxReplicas \cup {0, 1, Unread}]
    /\ inactive \in 0..Cooldown
    /\ idleSeen \subseteq Metrics
    /\ misled \in BOOLEAN

ParkStep ==
    (asked # asked' /\ ~ misled /\ replicas > 0 /\ replicas' = 0) =>
        \A m \in Deactivating(object.rules) : m \in idleSeen

\* KEDA parks the workload on an evaluation only if every metric with a deactivation
\* threshold was truly idle at the moment the evaluation asked for it: a scrape outage, a
\* cold cache or answers mixed from different moments never pass for idleness while work
\* is queued at the router or running on a backend.  Excepted are evaluations during
\* which somebody scales by hand, and those that ask an informer which is so late that it
\* shows the workload at zero, or no Workspace with a Service, when there is a backend.
BusyIsNotParked == [][ParkStep]_vars

\* As long as nobody adds several by hand, one replica is added at a time: however
\* high the load, none is added to one that the informer shows warming up.  Every
\* version the informer is behind may hide one more, so that 1 + MaxLag may be missing.
OneReplicaAtATime == replicas - ready <= 1 + MaxLag

DemandWaits ==
    object.min = 0 /\ \E m \in Activating(object.rules) : load[m] > object.rules[m].activation

\* Work that keeps waiting at the router wakes the workload, also right after it
\* was parked, while model pods have nothing to scrape.
DemandIsServed == <>[]DemandWaits => []<>(replicas > 0)

\* A workload at zero replicas whose minimum is positive does not stay there,
\* whether the minimum was raised or the count was set out of band.
MinimumIsRestored == <>[](object.min > 0) => []<>(replicas > 0)

QuietAndReachable ==
    /\ object.min = 0
    /\ \A m \in Deactivating(object.rules) : load[m] <= object.rules[m].deactivation
    /\ service => ready > 0

\* A workload that stays idle is parked, even when its first replica never gets a
\* model Service.
IdleIsParked == <>[]QuietAndReachable => []<>(replicas = 0)

HeldStep ==
    (asked # asked' /\ ~ misled /\ replicas > 0 /\ replicas' = 0) =>
        \A m \in Deactivating(object.rules) :
            m \in idleSeen \/ load[m] <= object.rules[m].deactivation

\* What GetMetrics' and Aggregate's comments promise of a failing scrape, that KEDA
\* holds: running work is not parked by an evaluation that never saw it idle.
UnscrapedWorkIsNotParked == [][HeldStep]_vars
==============================================================================
