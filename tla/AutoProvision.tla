----------------------------- MODULE AutoProvision -----------------------------
(***************************************************************************)
(* The auto-provision controller                                           *)
(* (pkg/controllers/autoprovision/auto_provision_controller.go) for one    *)
(* InferenceSet: what Reconcile does with the ScaledObjects that target    *)
(* it, and which changes reach Reconcile at all.                           *)
(*                                                                         *)
(* Reconcile reads informer caches, which lag behind the API server: news  *)
(* and feed hold the versions that were not delivered yet.  With MaySkip a *)
(* delivery may skip versions, as a relist does.  Every write is a call of *)
(* its own and may fail.  The work queue is one flag: it holds the key at  *)
(* most once, and a requeue, delayed or rate limited, comes back some day. *)
(***************************************************************************)
EXTENDS Integers, Sequences

CONSTANTS
    Own,           \* the name of the InferenceSet, and of its ScaledObject
    Extra,         \* another name
    MetricLists,   \* values of the metrics annotation
    Accepted,      \* the pairs <<metrics, min>> that ValidateConfig accepts
    Declarations,  \* what the user may declare on the InferenceSet
    Specs,         \* the specs of objects the controller did not write
    NodeCounts,    \* target node counts a Workspace may report
    IsChild,       \* is the InferenceSet controlled by a MultiRoleInference?
    Absent,        \* no max-replicas annotation
    NoSet, NoObject, Nothing,
    ByHand,        \* the owner of a ScaledObject a user created
    MaxEdits,      \* bound on the actions of users
    MaxFailures,   \* bound on failing calls and restarts
    MaxUid,        \* bound on how often the InferenceSet is created
    MaxLag,        \* bound on the versions of an object still to be delivered
    MaySkip        \* may a watch break for so long that versions are missed?

Names == {Own, Extra}

\* limit is spec.nodeCountLimit, the rest are annotations.
Declaration == [auto : BOOLEAN, min : Nat, max : Nat \cup {Absent},
                metrics : MetricLists, limit : Nat]

Wanted == [min : Nat, max : Nat \ {0}, metrics : MetricLists]

\* created orders the creation timestamps: 2 is "since the controller started".
Object == [owner : 1..MaxUid \cup {ByHand}, spec : Wanted, created : 0..2,
           deleting : BOOLEAN]

SomeSet == [uid : 1..MaxUid, says : Declarations]

ASSUME ProvisionAssumption ==
    /\ Own # Extra
    /\ Declarations \subseteq Declaration
    /\ Specs \subseteq Wanted
    /\ NodeCounts \subseteq Nat \ {0}
    /\ IsChild \in BOOLEAN
    /\ Absent \notin Nat
    /\ ByHand \notin Nat
    /\ NoObject \notin Object
    /\ NoSet \notin SomeSet
    /\ Nothing \notin Wanted
    /\ MaxEdits \in Nat /\ MaxFailures \in Nat /\ MaxUid \in Nat \ {0}
    /\ MaxLag \in Nat \ {0}
    /\ MaySkip \in BOOLEAN

VARIABLES
    set,      \* the InferenceSet, [uid, says], or NoSet
    uids,     \* the uids given out so far
    nodes,    \* status.targetNodeCount of the Workspaces, 0 until one reports it
    objects,  \* the ScaledObjects that target the InferenceSet, by name
    news,     \* versions of the set not delivered to the informer yet
    seen,     \* the informer's InferenceSet
    feed,     \* versions of each object not delivered to the informer yet
    cached,   \* the informer's ScaledObjects
    queued,   \* is the key in the work queue?
    pc,       \* the call Reconcile makes next
    job,      \* what Reconcile holds between two calls
    edits, failures,
    peaceful, \* history: on from the start, nobody switched it off or deleted
              \* anything, and no two managed objects had the same age
    unheard   \* history: the last declaration changed the limit and no annotation

api == <<set, uids, nodes, objects>>
informers == <<news, seen, feed, cached>>
worker == <<queued, pc, job>>
vars == <<api, informers, worker, edits, failures, peaceful, unheard>>

\* stale: the object kept was written since the version Reconcile has of it.
NoJob == [uid |-> 0, desired |-> Nothing, todo |-> {}, kept |-> Own,
          changed |-> FALSE, stale |-> FALSE]

-----------------------------------------------------------------------------
(* What an InferenceSet asks for.                                          *)

\* Faulty: an invalid configuration counts as switched off.
RequestedIfValid(d) == d.auto /\ <<d.metrics, d.min>> \in Accepted

Requested(d) == d.auto

Valid(d) ==
    /\ IF d.max = Absent THEN d.limit # 0 ELSE d.max >= 1 /\ d.max >= d.min
    /\ <<d.metrics, d.min>> \in Accepted

MaxUnknown(d) == d.limit # 0 /\ nodes = 0

\* Faulty: a limit below the nodes of one replica gives a maximum of 0.
MaxReplicasUnclamped(d) == IF d.limit = 0 THEN d.max ELSE d.limit \div nodes

\* The limit, once it is set, wins over the annotation.
MaxReplicas(d) ==
    CASE d.limit = 0 -> d.max
      [] d.limit # 0 /\ d.limit < nodes -> 1
      [] OTHER -> d.limit \div nodes

Provisionable(d) ==
    Requested(d) /\ Valid(d) /\ ~ MaxUnknown(d) /\ MaxReplicas(d) >= d.min

Desired(d) == [min |-> d.min, max |-> MaxReplicas(d), metrics |-> d.metrics]

ManagedIn(copies, uid) ==
    {n \in Names : copies[n] # NoObject /\ copies[n].owner = uid}

-----------------------------------------------------------------------------
(* Which events put the key into the queue.                                *)

CreateFires(s) == ~ IsChild /\ Requested(s.says)

Annotations(d) == <<d.auto, d.min, d.max, d.metrics>>

\* Faulty: switching off goes unnoticed.
UpdateFiresIfRequested(old, new) ==
    /\ ~ IsChild
    /\ Annotations(old.says) # Annotations(new.says)
    /\ Requested(new.says)

UpdateFires(old, new) ==
    /\ ~ IsChild
    /\ Annotations(old.says) # Annotations(new.says)
    /\ Requested(new.says) \/ Requested(old.says)

\* A deletion never fires.
SetFires(old, new) ==
    \/ old = NoSet /\ new # NoSet /\ CreateFires(new)
    \/ old # NoSet /\ new # NoSet /\ UpdateFires(old, new)

\* The watch of the ScaledObjects is not filtered.
ObjectFires(old, new) == old # NoObject \/ new # NoObject

\* After a start both informers report everything they list.
StartFires(s, copies) ==
    \/ s # NoSet /\ CreateFires(s)
    \/ \E n \in Names : copies[n] # NoObject

\* How many versions the next delivery may take in.
Deliverable(versions) ==
    IF MaySkip THEN 1..Len(versions) ELSE {1} \cap 1..Len(versions)

DeliverSet(k) ==
    /\ seen' = news[k]
    /\ news' = SubSeq(news, k + 1, Len(news))
    /\ queued' = (queued \/ SetFires(seen, news[k]))
    /\ UNCHANGED <<api, feed, cached, pc, job, edits, failures, peaceful, unheard>>

DeliverObject(n, k) ==
    /\ cached' = [cached EXCEPT ![n] = feed[n][k]]
    /\ feed' = [feed EXCEPT ![n] = SubSeq(@, k + 1, Len(@))]
    /\ queued' = (queued \/ ObjectFires(cached[n], feed[n][k]))
    /\ UNCHANGED <<api, news, seen, pc, job, edits, failures, peaceful, unheard>>

-----------------------------------------------------------------------------
(* Reconcile.  One worker: the key is never processed twice at a time.     *)

Finish == pc' = "idle" /\ job' = NoJob /\ UNCHANGED queued

\* Faulty: an error is only logged.
RetryForgets == pc' = "idle" /\ job' = NoJob /\ UNCHANGED queued

\* An error puts the key back, rate limited.
Retry == pc' = "idle" /\ job' = NoJob /\ queued' = TRUE

\* An informer that is MaxLag versions behind misses the oldest of them.
Queue(versions, o) ==
    Append(IF Len(versions) < MaxLag THEN versions ELSE Tail(versions), o)

Put(n, o) ==
    /\ objects' = [objects EXCEPT ![n] = o]
    /\ feed' = [feed EXCEPT ![n] = Queue(@, o)]

\* Up to the first call: read the InferenceSet, validate it, resolve the maximum.
Begin ==
    /\ pc = "idle"
    /\ queued
    /\ \/ /\ seen # NoSet
          /\ ~ Requested(seen.says)
          /\ pc' = "list"
          /\ job' = [NoJob EXCEPT !.uid = seen.uid]
          /\ queued' = FALSE
       \/ /\ seen # NoSet
          /\ Provisionable(seen.says)
          /\ pc' = "list"
          /\ job' = [NoJob EXCEPT !.uid = seen.uid, !.desired = Desired(seen.says)]
          /\ queued' = FALSE
       \/ /\ seen # NoSet
          /\ Requested(seen.says)
          /\ ~ Provisionable(seen.says)
          /\ queued' = (Valid(seen.says) /\ MaxUnknown(seen.says))
          /\ UNCHANGED <<pc, job>>
       \/ /\ seen = NoSet
          /\ queued' = FALSE
          /\ UNCHANGED <<pc, job>>
    /\ UNCHANGED <<api, informers, edits, failures, peaceful, unheard>>

Oldest(names) ==
    {n \in names : \A m \in names : cached[n].created <= cached[m].created}

NextCall(j) ==
    CASE j.todo # {} -> "dedupe"
      [] j.todo = {} /\ j.changed -> "update"
      [] OTHER -> "idle"

\* Go on with j, or finish.
Proceed(j, call) ==
    /\ pc' = call
    /\ job' = IF call = "idle" THEN NoJob ELSE j
    /\ UNCHANGED queued

\* listManagedScaledObjects, and the choice of what to do.
List ==
    LET managed == ManagedIn(cached, job.uid)
        live == {n \in managed : ~ cached[n].deleting}
    IN  /\ pc = "list"
        /\ \/ /\ job.desired = Nothing
              /\ Proceed([job EXCEPT !.todo = live],
                         IF live = {} THEN "idle" ELSE "cleanup")
           \/ /\ job.desired # Nothing
              /\ managed = {}
              /\ Proceed(job, "create")
           \/ /\ job.desired # Nothing
              /\ \E n \in Oldest(managed) :
                    LET j == [job EXCEPT !.kept = n, !.todo = managed \ {n},
                                         !.changed = (cached[n].spec # job.desired),
                                         !.stale = (feed[n] # << >>)]
                    IN  Proceed(j, NextCall(j))
        /\ UNCHANGED <<api, informers, edits, failures, peaceful, unheard>>

\* A Delete call has no precondition: it takes whatever has the name now.
Delete(n) ==
    IF objects[n] = NoObject \/ objects[n].deleting THEN UNCHANGED <<objects, feed>>
    ELSE Put(n, [objects[n] EXCEPT !.deleting = TRUE])

\* cleanupManagedScaledObjects: NotFound is fine.
CleanUp(n) ==
    LET j == [job EXCEPT !.todo = @ \ {n}]
    IN  /\ pc = "cleanup"
        /\ n \in job.todo
        /\ Delete(n)
        /\ Proceed(j, IF j.todo = {} THEN "idle" ELSE "cleanup")
        /\ UNCHANGED <<set, uids, nodes, news, seen, cached, edits, failures, peaceful, unheard>>

\* syncDesired with several objects: NotFound is an error.
Deduplicate(n) ==
    LET j == [job EXCEPT !.todo = @ \ {n}]
    IN  /\ pc = "dedupe"
        /\ n \in job.todo
        /\ Delete(n)
        /\ IF objects[n] = NoObject THEN Retry ELSE Proceed(j, NextCall(j))
        /\ UNCHANGED <<set, uids, nodes, news, seen, cached, edits, failures, peaceful, unheard>>

\* syncDesired with no object: AlreadyExists is an error.
Create ==
    /\ pc = "create"
    /\ IF objects[Own] # NoObject THEN Retry /\ UNCHANGED <<objects, feed>>
       ELSE /\ Put(Own, [owner |-> job.uid, spec |-> job.desired, created |-> 2,
                         deleting |-> FALSE])
            /\ Finish
    /\ UNCHANGED <<set, uids, nodes, news, seen, cached, edits, failures, peaceful, unheard>>

\* Faulty: the update carries no resourceVersion.
RejectedIfGone == objects[job.kept] = NoObject

\* The update carries the resourceVersion that was listed.
Rejected == objects[job.kept] = NoObject \/ job.stale

\* reconcileTo
Update ==
    /\ pc = "update"
    /\ IF Rejected THEN Retry /\ UNCHANGED <<objects, feed>>
       ELSE /\ Put(job.kept, [objects[job.kept] EXCEPT !.spec = job.desired])
            /\ Finish
    /\ UNCHANGED <<set, uids, nodes, news, seen, cached, edits, failures, peaceful, unheard>>

CallFails ==
    /\ pc # "idle"
    /\ failures < MaxFailures
    /\ failures' = failures + 1
    /\ Retry
    /\ UNCHANGED <<api, informers, edits, peaceful, unheard>>

\* The process, or its leadership, is lost; the informers list everything anew.
Restart ==
    /\ failures < MaxFailures
    /\ failures' = failures + 1
    /\ seen' = set
    /\ news' = << >>
    /\ cached' = objects
    /\ feed' = [n \in Names |-> << >>]
    /\ queued' = StartFires(set, objects)
    /\ pc' = "idle"
    /\ job' = NoJob
    /\ UNCHANGED <<api, edits, peaceful, unheard>>

-----------------------------------------------------------------------------
(* KEDA, the garbage collector, KAITO and the users.                       *)

\* A write that is not Reconcile's.
Store(n, o) ==
    /\ Put(n, o)
    /\ job' = [job EXCEPT !.stale = @ \/ (pc \in {"dedupe", "update"} /\ n = job.kept)]
    /\ UNCHANGED <<set, uids, nodes, news, seen, cached, queued, pc>>

\* KEDA removes its finalizer.
Finalize(n) ==
    /\ objects[n] # NoObject
    /\ objects[n].deleting
    /\ Store(n, NoObject)
    /\ UNCHANGED <<edits, failures, peaceful, unheard>>

\* The owner of the object does not exist any more.
Collect(n) ==
    /\ objects[n] # NoObject
    /\ objects[n].owner # ByHand
    /\ ~ objects[n].deleting
    /\ IF set = NoSet THEN TRUE ELSE objects[n].owner # set.uid
    /\ Store(n, [objects[n] EXCEPT !.deleting = TRUE])
    /\ UNCHANGED <<edits, failures, peaceful, unheard>>

ReportNodes(c) ==
    /\ nodes = 0
    /\ nodes' = c
    /\ UNCHANGED <<set, uids, objects, informers, worker, edits, failures, peaceful, unheard>>

\* The InferenceSet is scaled to zero and its Workspaces are deleted.
Park ==
    /\ nodes # 0
    /\ nodes' = 0
    /\ UNCHANGED <<set, uids, objects, informers, worker, failures, peaceful, unheard>>

\* The user writes version v of the InferenceSet.
Edit(v) ==
    /\ set' = v
    /\ news' = Append(news, v)
    /\ UNCHANGED <<nodes, objects, seen, feed, cached, worker, failures>>

Declare(d) ==
    /\ set # NoSet
    /\ d # set.says
    /\ Edit([set EXCEPT !.says = d])
    /\ peaceful' = (peaceful /\ d.auto)
    /\ unheard' = (Annotations(d) = Annotations(set.says))
    /\ UNCHANGED uids

RemoveSet ==
    /\ set # NoSet
    /\ Edit(NoSet)
    /\ peaceful' = FALSE
    /\ UNCHANGED <<uids, unheard>>

CreateSet(d) ==
    /\ set = NoSet
    /\ uids < MaxUid
    /\ uids' = uids + 1
    /\ Edit([uid |-> uids + 1, says |-> d])
    /\ unheard' = FALSE
    /\ UNCHANGED peaceful

RemoveObject(n) ==
    /\ objects[n] # NoObject
    /\ ~ objects[n].deleting
    /\ Store(n, [objects[n] EXCEPT !.deleting = TRUE])
    /\ peaceful' = FALSE
    /\ UNCHANGED <<failures, unheard>>

CreateObject(n, w) ==
    /\ objects[n] = NoObject
    /\ Store(n, [owner |-> ByHand, spec |-> w, created |-> 2, deleting |-> FALSE])
    /\ UNCHANGED <<failures, peaceful, unheard>>

EditObject(n, w) ==
    /\ objects[n] # NoObject
    /\ objects[n].spec # w
    /\ Store(n, [objects[n] EXCEPT !.spec = w])
    /\ UNCHANGED <<failures, peaceful, unheard>>

User ==
    /\ edits < MaxEdits
    /\ edits' = edits + 1
    /\ \/ \E d \in Declarations : Declare(d) \/ CreateSet(d)
       \/ RemoveSet
       \/ Park
       \/ \E n \in Names : RemoveObject(n)
       \/ \E n \in Names, w \in Specs : CreateObject(n, w) \/ EditObject(n, w)

-----------------------------------------------------------------------------

\* Objects of an earlier controller and of users may be there already.
FirstObject ==
    {NoObject} \cup
    [owner : {1, ByHand}, spec : Specs, created : {0, 1}, deleting : {FALSE}]

Managed == IF set = NoSet THEN {} ELSE ManagedIn(objects, set.uid)

AgesDiffer ==
    \A m, n \in Managed : objects[m].created = objects[n].created => m = n

Init ==
    /\ set \in [uid : {1}, says : Declarations]
    /\ uids = 1
    /\ nodes = 0
    /\ objects \in [Names -> FirstObject]
    /\ news = << >>
    /\ seen = set
    /\ feed = [n \in Names |-> << >>]
    /\ cached = objects
    /\ queued = StartFires(set, objects)
    /\ pc = "idle"
    /\ job = NoJob
    /\ edits = 0
    /\ failures = 0
    /\ peaceful = (set.says.auto /\ AgesDiffer)
    /\ unheard = FALSE

Delivery ==
    \/ \E k \in Deliverable(news) : DeliverSet(k)
    \/ \E n \in Names : \E k \in Deliverable(feed[n]) : DeliverObject(n, k)

Reconcile ==
    \/ Begin
    \/ List
    \/ \E n \in Names : CleanUp(n) \/ Deduplicate(n)
    \/ Create
    \/ Update

Cluster ==
    \/ \E n \in Names : Finalize(n) \/ Collect(n)
    \/ \E c \in NodeCounts : ReportNodes(c)

Next == Delivery \/ Reconcile \/ CallFails \/ Restart \/ Cluster \/ User

Spec == Init /\ [][Next]_vars

(* Deliveries, the worker, the finalizer and the garbage collector do not   *)
(* stop; failures do.                                                      *)
Fairness ==
    /\ WF_vars(Reconcile)
    /\ WF_vars(\E k \in Deliverable(news) : DeliverSet(k))
    /\ \A n \in Names :
           /\ WF_vars(\E k \in Deliverable(feed[n]) : DeliverObject(n, k))
           /\ WF_vars(Finalize(n))
           /\ WF_vars(Collect(n))

FairSpec == Spec /\ Fairness

-----------------------------------------------------------------------------
(* Properties                                                              *)

\* Every variable has its type; what the controller writes is a legal spec.
TypeOK ==
    /\ set \in SomeSet \cup {NoSet}
    /\ uids \in 1..MaxUid
    /\ nodes \in NodeCounts \cup {0}
    /\ objects \in [Names -> Object \cup {NoObject}]
    /\ news \in Seq(SomeSet \cup {NoSet})
    /\ seen \in SomeSet \cup {NoSet}
    /\ feed \in [Names -> Seq(Object \cup {NoObject})]
    /\ cached \in [Names -> Object \cup {NoObject}]
    /\ queued \in BOOLEAN
    /\ pc \in {"idle", "list", "cleanup", "create", "dedupe", "update"}
    /\ job \in [uid : 0..MaxUid, desired : Wanted \cup {Nothing},
                todo : SUBSET Names, kept : Names, changed : BOOLEAN,
                stale : BOOLEAN]
    /\ edits \in 0..MaxEdits
    /\ failures \in 0..MaxFailures
    /\ peaceful \in BOOLEAN
    /\ unheard \in BOOLEAN

IsByHand(o) == o # NoObject /\ o.owner = ByHand

OverwriteStep ==
    \A n \in Names :
        (IsByHand(objects[n]) /\ edits' = edits /\ objects'[n] # NoObject) =>
            /\ IsByHand(objects'[n])
            /\ objects'[n].spec = objects[n].spec

\* The controller never changes a ScaledObject a user created, not even one that
\* took the place of its own object after Reconcile listed it.
ByHandIsNotOverwritten == [][OverwriteStep]_vars

Scaling(n, os) == os[n] # NoObject /\ ~ os[n].deleting

LastStep ==
    (/\ peaceful'
     /\ \E n \in Managed : Scaling(n, objects) /\ ~ Scaling(n, objects'))
    => \E m \in Managed : Scaling(m, objects')

\* As long as auto-provisioning stays switched on and nobody deletes anything, the
\* controller never takes the last ScaledObject away from the workload: not when
\* the configuration turns invalid, not when it deduplicates on stale reads, and
\* not when it fails half way.  (Of duplicates created in the same second it may
\* keep a different one every time.)
LastIsKept == [][LastStep]_vars

InForce(n, d) == Scaling(n, objects) /\ objects[n].spec = Desired(d)

Provisioned ==
    (set # NoSet /\ Provisionable(set.says)) =>
        \/ \E n \in Names : Managed = {n} /\ InForce(n, set.says)
        \/ Managed = {} /\ IsByHand(objects[Own])

Settled ==
    /\ (set # NoSet /\ ~ set.says.auto) => Managed = {}
    /\ unheard \/ Provisioned

\* Once users and failures rest, what the InferenceSet asks for comes true and
\* stays: one ScaledObject with the desired spec, or none when it is switched off,
\* whatever was lost, half done or read stale before.  Two exceptions: an object a
\* user created under the InferenceSet's name blocks it, and the maximum derived from
\* the limit may be an old one, or missing, if the last edit changed nodeCountLimit and
\* no annotation, which UpdateFunc does not notice (409).  (A node count that changes
\* would go unnoticed too: an instance for this property has one count.)
Converges == <>[]Settled
===============================================================================
