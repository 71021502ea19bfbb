----------------------------- MODULE ScalerAnswers -----------------------------
(***************************************************************************)
(* One GetMetrics call (pkg/scaler/scaler.go), read by read, while the     *)
(* cluster changes and reads fail.                                         *)
(*                                                                         *)
(* The InferenceSet and its Workspaces are what the informer shows; the    *)
(* Services are read from the API server.  What the metric cache holds for *)
(* the target at the moment it is asked is any of Entries: the cache has   *)
(* modules of its own.  The triggers asked for are those the provisioner   *)
(* renders for the metric entries it accepts, and some written by hand.    *)
(***************************************************************************)
EXTENDS Aggregators

CONSTANTS
    Workspaces,   \* names of workspaces; the model Service has the same name
    Snapshots,    \* snapshots of the target's metric
    Words,        \* what a trigger may give as its source or its aggregation
    Unset,        \* a field of an entry or of a trigger that is not given
    Invalid,      \* metadata that cannot be parsed
    Cold,         \* the cache has no fresh snapshot
    Warming,      \* the cache has no full window yet
    ByHand,       \* triggers written by hand
    MaxDesired,   \* bound on the replicas
    MaxChanges    \* bound on the cluster's steps during a call

\* Metadata of a trigger, and what they parse to.
Trigger == [source : Words \cup {Unset}, aggregation : Words \cup {Unset},
            threshold : Int \cup {Unset}, window : Int \cup {Unset}, optIn : BOOLEAN]
Config == [source : Words, aggregation : Words, threshold : Int, optIn : BOOLEAN]

ASSUME AnswersAssumption ==
    /\ \A s \in Snapshots :
          /\ IsFiniteSet(DOMAIN s)
          /\ \A name \in DOMAIN s : s[name] \in ServiceReading \cup {Failed}
    /\ {"modelpod", "epp", "sum", "service-avg", "windowed-avg", "gate", "replicas"}
          \subseteq Words
    /\ Unset \notin Words \cup Int
    /\ ByHand \subseteq Trigger
    /\ Invalid \notin Config
    /\ MaxDesired \in Nat
    /\ MaxChanges \in Nat

VARIABLES
    desired,    \* the InferenceSet's spec.replicas
    ready,      \* its status.readyReplicas
    present,    \* its Workspaces
    services,   \* the names that have a model Service
    pc,         \* where the call is
    trigger,    \* the metadata it came with
    config,     \* what they parse to
    left,       \* the Workspaces whose Service is still to be looked up
    answer,     \* what the call returns
    during      \* history: the desired replicas seen during the call, and the
                \* Workspaces that had their Service all the time

cluster == <<desired, ready, present, services>>
call == <<pc, trigger, config, left, answer>>
vars == <<cluster, call, during>>

-----------------------------------------------------------------------------
(* The triggers of an auto-provisioned ScaledObject.                       *)

\* An entry of the metrics annotation, as far as it decides how it is reduced.
Entry == [type : {"gauge", "histogram"},
          source : {Unset, "modelpod", "epp"},
          aggregation : {Unset, "sum", "service-avg", "windowed-avg", "gate"},
          window : {Unset, 0, 1}]

SourceForMetricSource(source) == IF source = Unset THEN "modelpod" ELSE source

Derived(entry) ==
    CASE entry.type = "histogram" -> "windowed-avg"
      [] entry.type = "gauge" /\ entry.source = "epp" -> "sum"
      [] OTHER -> "service-avg"

AggregationForSpec(entry) ==
    IF entry.aggregation = Unset THEN Derived(entry) ELSE entry.aggregation

UserSelectable == {"sum", "service-avg", "windowed-avg"}

EntryValid(entry) ==
    /\ AggregationForSpec(entry) \in UserSelectable
    /\ AggregationForSpec(entry) = "windowed-avg" <=> entry.type = "histogram"
    /\ entry.window # Unset => entry.type = "histogram" /\ entry.window > 0

DefaultWindow == 5

Metadata(source, aggregation) ==
    [source |-> source, aggregation |-> aggregation,
     threshold |-> Unset, window |-> Unset, optIn |-> FALSE]

MetricTrigger(entry, toZero) ==
    LET source == SourceForMetricSource(entry.source)
    IN  [source |-> source,
         aggregation |-> AggregationForSpec(entry),
         threshold |-> Unset,
         window |-> IF entry.type = "gauge" THEN Unset
                    ELSE IF entry.window = Unset THEN DefaultWindow ELSE entry.window,
         optIn |-> toZero /\ source = "modelpod"]

Provisioned ==
    {MetricTrigger(entry, toZero) : entry \in {e \in Entry : EntryValid(e)}, toZero \in BOOLEAN}
        \cup {Metadata(Unset, "gate"), Metadata(Unset, "replicas")}

-----------------------------------------------------------------------------
(* parseScalerMetadata.                                                    *)

DefaultThreshold == 1

\* Faulty: the window of an average is forgotten.
ThresholdOptionalForGauges(aggregation) == aggregation \in {"service-avg", "gate", "replicas"}

ThresholdOptional(aggregation) ==
    aggregation \in {"service-avg", "windowed-avg", "gate", "replicas"}

ParseScalerMetadata(t) ==
    LET source == IF t.source = Unset THEN "modelpod" ELSE t.source
        aggregation == IF t.aggregation = Unset THEN "sum" ELSE t.aggregation
        missing == /\ t.threshold = Unset
                   /\ ~ (source = "epp" /\ aggregation = "sum")
                   /\ ~ ThresholdOptional(aggregation)
    IN  IF missing \/ (t.window # Unset /\ t.window <= 0) THEN Invalid
        ELSE [source |-> source,
              aggregation |-> aggregation,
              threshold |-> IF t.threshold = Unset THEN DefaultThreshold ELSE t.threshold,
              optIn |-> t.optIn]

-----------------------------------------------------------------------------
(* GetMetrics.                                                             *)

Entries == {Cold} \cup [newest : Snapshots, baseline : Snapshots \cup {Warming}]

Whole(n) == [num |-> n, den |-> 1]

\* used is history: the cache entry the value was computed from.
Value(v, used) == [error |-> "none", value |-> v, used |-> used]
Zeroed == Value(Zero, Cold)
Error(kind) == [error |-> kind, value |-> Zero, used |-> Cold]

Returns(a) == pc' = "answered" /\ answer' = a /\ UNCHANGED <<trigger, config, left, during>>
Continues(at) == pc' = at /\ UNCHANGED <<trigger, config, left, answer, during>>

FromStatus == {"gate", "replicas"}

NoTrigger == Metadata(Unset, Unset)
NoAnswer == Error("none")
Nothing == [seen |-> {}, steady |-> {}, changes |-> 0, failed |-> FALSE]

\* The places at which the call is about to read from the cluster.
Reads == {"status", "desired", "list", "look"}

First(c) ==
    IF c.aggregation \in FromStatus THEN "status"
    ELSE IF c.source = "modelpod" THEN "desired"
    ELSE "cache"

Begin(t) ==
    LET c == ParseScalerMetadata(t)
    IN  /\ pc = "idle"
        /\ trigger' = t
        /\ config' = c
        /\ left' = {}
        /\ during' = [seen |-> {desired}, steady |-> present \cap services,
                      changes |-> 0, failed |-> FALSE]
        /\ IF c = Invalid
           THEN pc' = "answered" /\ answer' = Error("refused")
           ELSE pc' = First(c) /\ UNCHANGED answer
        /\ UNCHANGED cluster

DesiredReplicas == Whole(desired)
ReadinessGateValue == IF ready < desired THEN Zero ELSE Whole(1)

AnswerFromStatus ==
    /\ pc = "status"
    /\ Returns(Value(IF config.aggregation = "gate" THEN ReadinessGateValue
                     ELSE DesiredReplicas, Cold))
    /\ UNCHANGED cluster

\* Faulty: only a trigger that opted in is answered at zero replicas.
AtZeroIfOptedIn == desired = 0 /\ config.optIn

AtZero == desired = 0

ReadDesired ==
    /\ pc = "desired"
    /\ IF AtZero THEN Returns(Zeroed)
       ELSE Continues(IF config.optIn THEN "list" ELSE "cache")
    /\ UNCHANGED cluster

\* hasModelService: one list, then one read per Workspace until a Service is found.
ListWorkspaces ==
    /\ pc = "list"
    /\ IF present = {} THEN Returns(Zeroed)
       ELSE /\ pc' = "look"
            /\ left' = present
            /\ UNCHANGED <<trigger, config, answer, during>>
    /\ UNCHANGED cluster

LookUp(w) ==
    /\ pc = "look"
    /\ w \in left
    /\ IF w \in services THEN Continues("cache")
       ELSE IF left = {w} THEN Returns(Zeroed)
       ELSE /\ left' = left \ {w}
            /\ UNCHANGED <<pc, trigger, config, answer, during>>
    /\ UNCHANGED cluster

\* Faulty: a sum over the router's pods is compensated like one over model pods.
CompensationThresholdAlways(c) == c.threshold

CompensationThreshold(c) ==
    IF c.source = "epp" /\ c.aggregation = "sum" THEN 0 ELSE c.threshold

\* Faulty: the error of an aggregator is taken for its value.
AnswerOfAny(v, entry) == Value(v, entry)

AnswerOf(v, entry) == IF v = NoValue THEN Error("unavailable") ELSE Value(v, entry)

Reduce(c, entry) ==
    CASE c.aggregation = "sum" ->
            LET sum == ServiceSum(entry.newest, CompensationThreshold(c))
            IN  IF sum = NoValue THEN NoValue ELSE Whole(sum)
      [] c.aggregation = "service-avg" -> ServiceAverage(entry.newest)
      [] OTHER -> IF entry.baseline = Warming THEN NoValue
                  ELSE WindowedAverage(entry.baseline, entry.newest)

Known(c) ==
    /\ c.source \in {"modelpod", "epp"}
    /\ c.aggregation \in UserSelectable  \* the registered aggregators

\* From hasSource on.  No ready router pod is an error of its own, as is an empty sum.
AnswerFromCache(entry) ==
    /\ pc = "cache"
    /\ Returns(IF ~ Known(config) THEN Error("refused")
               ELSE IF entry = Cold THEN Error("unavailable")
               ELSE AnswerOf(Reduce(config, entry), entry))
    /\ UNCHANGED cluster

\* Faulty: a Service that could not be read counts as one that does not exist.
OnErrorNotFound == IF pc = "look" THEN Zeroed ELSE Error("unavailable")

\* Any error of a read, the list's after its retries, ends the call.
OnError == Error("unavailable")

ReadFails ==
    /\ pc \in Reads
    /\ pc' = "answered"
    /\ answer' = OnError
    /\ during' = [during EXCEPT !.failed = TRUE]
    /\ UNCHANGED <<trigger, config, left, cluster>>

Finish ==
    /\ pc = "answered"
    /\ pc' = "idle"
    /\ trigger' = NoTrigger
    /\ config' = Invalid
    /\ left' = {}
    /\ answer' = NoAnswer
    /\ during' = Nothing
    /\ UNCHANGED cluster

GetMetrics ==
    \/ \E t \in Provisioned \cup ByHand : Begin(t)
    \/ AnswerFromStatus
    \/ ReadDesired
    \/ ListWorkspaces
    \/ \E w \in Workspaces : LookUp(w)
    \/ \E entry \in Entries : AnswerFromCache(entry)
    \/ ReadFails
    \/ Finish

-----------------------------------------------------------------------------
(* The cluster: KEDA, the HPA, users and KAITO.                            *)

Changes ==
    /\ pc \notin {"idle", "answered"}
    /\ during.changes < MaxChanges
    /\ during' = [during EXCEPT !.changes = @ + 1,
                                !.seen = @ \cup {desired'},
                                !.steady = @ \cap present' \cap services']
    /\ UNCHANGED call

Scale(n) == desired' = n /\ UNCHANGED <<ready, present, services>>
Report(n) == ready' = n /\ UNCHANGED <<desired, present, services>>
Add(w) == present' = present \cup {w} /\ UNCHANGED <<desired, ready, services>>
Remove(w) == present' = present \ {w} /\ UNCHANGED <<desired, ready, services>>
Expose(w) == services' = services \cup {w} /\ UNCHANGED <<desired, ready, present>>
Withdraw(w) == services' = services \ {w} /\ UNCHANGED <<desired, ready, present>>

ClusterStep ==
    \/ \E n \in 0..MaxDesired \ {desired} : Scale(n)
    \/ \E n \in 0..MaxDesired \ {ready} : Report(n)
    \/ \E w \in Workspaces \ present : Add(w)
    \/ \E w \in present : Remove(w)
    \/ \E w \in Workspaces \ services : Expose(w)
    \/ \E w \in services : Withdraw(w)

Init ==
    /\ desired \in 0..MaxDesired
    /\ ready \in 0..MaxDesired
    /\ present \in SUBSET Workspaces
    /\ services \in SUBSET Workspaces
    /\ pc = "idle"
    /\ trigger = NoTrigger
    /\ config = Invalid
    /\ left = {}
    /\ answer = NoAnswer
    /\ during = Nothing

Next == GetMetrics \/ (ClusterStep /\ Changes)

Spec == Init /\ [][Next]_vars

-----------------------------------------------------------------------------
(* Properties                                                              *)

TypeOK ==
    /\ desired \in 0..MaxDesired /\ ready \in 0..MaxDesired
    /\ present \in SUBSET Workspaces /\ services \in SUBSET Workspaces
    /\ pc \in Reads \cup {"idle", "cache", "answered"}
    /\ pc \in Reads \cup {"cache"} => config # Invalid
    /\ left \in SUBSET Workspaces
    /\ left # {} => pc \in {"look", "cache", "answered"}
    /\ answer.error \in {"none", "refused", "unavailable"}
    /\ answer.value # NoValue /\ answer.value.num \in Nat /\ answer.value.den \in Nat \ {0}
    /\ answer.used \in Entries

Answered == pc = "answered" /\ config # Invalid

OfModelPods == config.source = "modelpod" /\ config.aggregation \notin FromStatus

\* A parked workload has nothing to scrape, and an error would keep KEDA from waking
\* it or restoring its minimum (scaler.go:220-226): while the desired replicas stay 0
\* every metric of the model pods is answered with 0, whatever the object's minimum,
\* the cache and the Services, unless the InferenceSet itself cannot be read.
ParkedIsAnswered ==
    Answered /\ OfModelPods /\ during.seen = {0} /\ ~ during.failed => answer = Zeroed

\* A 0 that no scrape backs is earned: the desired replicas were 0 at some moment of
\* the call, or the trigger opted in and no Workspace had its Service from the call's
\* beginning to its end, whatever came, went or failed in between.
ZeroIsEarned ==
    Answered /\ OfModelPods /\ answer.error = "none" /\ answer.used = Cold =>
        \/ 0 \in during.seen
        \/ config.optIn /\ during.steady = {}

\* Router pods that cannot be scraped never add to the demand: a parked workload is
\* not woken by an outage of the Endpoint Picker (scaler.go:288-291).
NoPhantomDemand ==
    Answered /\ config.source = "epp" /\ config.aggregation = "sum" /\ answer.used # Cold =>
        answer.value.num <= NonNegative(ScalarSum(answer.used.newest))

\* What the provisioner accepts and renders, the scaler can parse and knows how to
\* reduce.  The sum of a gauge of the model pods is excepted: the provisioner renders
\* no threshold, without which the scaler refuses it (scaler.go:397-398).
AcceptedIsServed ==
    /\ trigger \in Provisioned
    /\ ~ (trigger.source = "modelpod" /\ trigger.aggregation = "sum")
    => answer.error # "refused"
===============================================================================
