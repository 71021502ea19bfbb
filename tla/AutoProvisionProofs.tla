-------------------------- MODULE AutoProvisionProofs --------------------------
(***************************************************************************)
(* Proofs about AutoProvision: its type correctness; that Reconcile never  *)
(* changes a ScaledObject a user created; and that it never deletes the    *)
(* last ScaledObject it manages.                                           *)
(***************************************************************************)
EXTENDS AutoProvision, TLAPS

\* A call under way belongs to an InferenceSet that existed, and a write carries
\* a desired spec.
JobOK ==
    /\ pc # "idle" => job.uid \in 1..MaxUid
    /\ pc \in {"create", "dedupe", "update"} => job.desired # Nothing

TypeInv == TypeOK /\ JobOK

\* A copy that may be missing.
Copy == Object \cup {NoObject}

\* What Reconcile may hold.
Jobs == [uid : 0..MaxUid, desired : Wanted \cup {Nothing}, todo : SUBSET Names,
         kept : Names, changed : BOOLEAN, stale : BOOLEAN]

-----------------------------------------------------------------------------
(* The parts of a step.                                                    *)

\* What can be provisioned is a legal spec: the maximum is at least 1, whether it
\* is declared or the quotient of limit and node count.
LEMMA DesiredType ==
    ASSUME ProvisionAssumption, nodes \in NodeCounts \cup {0},
           NEW d \in Declarations, Provisionable(d)
    PROVE  Desired(d) \in Wanted
<1>1. d \in Declaration
  BY DEF ProvisionAssumption
<1>2. /\ d.min \in Nat
      /\ d.max \in Nat \cup {Absent}
      /\ d.metrics \in MetricLists
      /\ d.limit \in Nat
  BY <1>1 DEF Declaration
<1>3. SUFFICES MaxReplicas(d) \in Nat \ {0}
  BY <1>2 DEF Desired, Wanted
<1>4. CASE d.limit = 0
  <2>1. d.max # Absent /\ d.max >= 1
    BY <1>4 DEF Provisionable, Valid
  <2>. QED
    BY <1>2, <1>4, <2>1 DEF MaxReplicas
<1>5. CASE d.limit # 0
  <2>1. nodes \in Nat \ {0}
    BY <1>5 DEF Provisionable, MaxUnknown, ProvisionAssumption
  <2>2. CASE d.limit < nodes
    BY <1>2, <1>5, <2>2 DEF MaxReplicas
  <2>3. CASE ~ d.limit < nodes
    <3>1. d.limit \div nodes \in Nat \ {0}
      BY <1>2, <2>1, <2>3, SMTT(30)
    <3>. QED
      BY <1>2, <1>5, <2>3, <3>1 DEF MaxReplicas
  <2>. QED
    BY <2>2, <2>3
<1>. QED
  BY <1>4, <1>5

\* An object that is marked as deleted is an object.
LEMMA MarkedType ==
    ASSUME NEW o \in Object
    PROVE  [o EXCEPT !.deleting = TRUE] \in Object
BY DEF Object

\* An object that is given another spec is an object.
LEMMA EditedType ==
    ASSUME NEW o \in Object, NEW w \in Wanted
    PROVE  [o EXCEPT !.spec = w] \in Object
BY DEF Object

\* A queue that takes one more version has that version last.
LEMMA QueueType ==
    ASSUME ProvisionAssumption, NEW S, NEW s \in Seq(S), NEW o \in S
    PROVE  /\ Queue(s, o) \in Seq(S)
           /\ Len(Queue(s, o)) \in Nat \ {0}
           /\ Queue(s, o)[Len(Queue(s, o))] = o
<1>1. CASE Len(s) < MaxLag
  BY <1>1 DEF Queue
<1>2. CASE ~ Len(s) < MaxLag
  <2>1. s # << >>
    BY <1>2 DEF ProvisionAssumption
  <2>2. Tail(s) \in Seq(S)
    BY <2>1
  <2>. QED
    BY <1>2, <2>2 DEF Queue
<1>. QED
  BY <1>1, <1>2

\* A write leaves objects and feeds typed.
LEMMA PutType ==
    ASSUME ProvisionAssumption, TypeOK, NEW n \in Names, NEW o \in Copy, Put(n, o)
    PROVE  objects' \in [Names -> Copy] /\ feed' \in [Names -> Seq(Copy)]
<1>1. objects \in [Names -> Copy] /\ feed \in [Names -> Seq(Copy)]
  BY DEF TypeOK, Copy
<1>2. Queue(feed[n], o) \in Seq(Copy)
  BY <1>1, QueueType
<1>. QED
  BY <1>1, <1>2 DEF Put

\* So does a Delete, which writes at most a mark.
LEMMA DeleteType ==
    ASSUME ProvisionAssumption, TypeOK, NEW n \in Names, Delete(n)
    PROVE  objects' \in [Names -> Copy] /\ feed' \in [Names -> Seq(Copy)]
<1>1. objects \in [Names -> Copy] /\ feed \in [Names -> Seq(Copy)]
  BY DEF TypeOK, Copy
<1>2. CASE objects[n] = NoObject \/ objects[n].deleting
  BY <1>1, <1>2 DEF Delete
<1>3. CASE ~ (objects[n] = NoObject \/ objects[n].deleting)
  <2>1. [objects[n] EXCEPT !.deleting = TRUE] \in Copy
    BY <1>1, <1>3 DEF Copy, Object
  <2>. QED
    BY <1>3, <2>1, PutType DEF Delete
<1>. QED
  BY <1>2, <1>3

\* The empty job is a job.
LEMMA NoJobType ==
    ASSUME ProvisionAssumption
    PROVE  NoJob \in Jobs
BY DEF NoJob, Jobs, Names, ProvisionAssumption

\* How a call may end: the worker rests, or goes on with a job of its own.
LEMMA RestType ==
    ASSUME ProvisionAssumption, TypeOK, Finish \/ Retry
    PROVE  job' \in Jobs /\ queued' \in BOOLEAN /\ pc' = "idle"
BY NoJobType DEF Finish, Retry, TypeOK

\* Going on with a typed job that has what its next call needs keeps JobOK.
LEMMA ProceedType ==
    ASSUME ProvisionAssumption, TypeOK, NEW j \in Jobs, j.uid \in 1..MaxUid,
           NEW call \in {"idle", "cleanup", "create", "dedupe", "update"},
           call \in {"create", "dedupe", "update"} => j.desired # Nothing,
           Proceed(j, call)
    PROVE  job' \in Jobs /\ queued' \in BOOLEAN /\ pc' = call /\ JobOK'
BY NoJobType DEF Proceed, JobOK, TypeOK

\* After a list or a delete, Reconcile deletes, updates or is done.
LEMMA NextCallType ==
    ASSUME NEW j \in Jobs
    PROVE  NextCall(j) \in {"idle", "dedupe", "update"}
BY DEF NextCall, Jobs

-----------------------------------------------------------------------------
(* Every action preserves TypeInv.                                         *)

\* The first state: what was there before the controller.
LEMMA InitType ==
    ASSUME ProvisionAssumption, Init
    PROVE  TypeInv
<1>1. set \in SomeSet
  BY DEF Init, SomeSet, ProvisionAssumption
<1>2. FirstObject \subseteq Copy
  <2>1. /\ {1, ByHand} \subseteq 1..MaxUid \cup {ByHand}
        /\ {0, 1} \subseteq 0..2
        /\ {FALSE} \subseteq BOOLEAN
        /\ Specs \subseteq Wanted
    BY DEF ProvisionAssumption
  <2>. HIDE DEF Wanted
  <2>2. [owner : {1, ByHand}, spec : Specs, created : {0, 1}, deleting : {FALSE}]
          \subseteq Object
    BY <2>1 DEF Object
  <2>. QED
    BY <2>2 DEF FirstObject, Copy
<1>3. objects \in [Names -> Copy]
  BY <1>2 DEF Init
<1>4. feed \in [Names -> Seq(Copy)]
  BY DEF Init
<1>5. queued \in BOOLEAN /\ peaceful \in BOOLEAN /\ unheard \in BOOLEAN
  BY <1>1 DEF Init, StartFires, CreateFires, SomeSet, Requested, Declaration,
              ProvisionAssumption
<1>6. uids \in 1..MaxUid /\ edits \in 0..MaxEdits /\ failures \in 0..MaxFailures
  BY DEF Init, ProvisionAssumption
<1>. QED
  BY <1>1, <1>3, <1>4, <1>5, <1>6, NoJobType
     DEF Init, TypeInv, TypeOK, JobOK, Copy, Jobs

\* An informer moves on.
LEMMA DeliveryType ==
    ASSUME ProvisionAssumption, TypeInv, Delivery
    PROVE  TypeInv'
<1>1. ASSUME NEW k \in Deliverable(news), DeliverSet(k)
      PROVE  TypeInv'
  <2>1. k \in 1..Len(news) /\ news \in Seq(SomeSet \cup {NoSet})
    BY <1>1 DEF Deliverable, TypeInv, TypeOK
  <2>2. news[k] \in SomeSet \cup {NoSet}
    BY <2>1
  <2>3. SubSeq(news, k + 1, Len(news)) \in Seq(SomeSet \cup {NoSet})
    BY <2>1
  <2>. QED
    BY <1>1, <2>2, <2>3
       DEF DeliverSet, SetFires, api, TypeInv, TypeOK, JobOK
<1>2. ASSUME NEW n \in Names, NEW k \in Deliverable(feed[n]), DeliverObject(n, k)
      PROVE  TypeInv'
  <2>1. /\ feed \in [Names -> Seq(Copy)]
        /\ cached \in [Names -> Copy]
        /\ k \in 1..Len(feed[n])
    BY <1>2 DEF Deliverable, TypeInv, TypeOK, Copy
  <2>2. feed[n][k] \in Copy /\ SubSeq(feed[n], k + 1, Len(feed[n])) \in Seq(Copy)
    BY <2>1
  <2>3. cached' \in [Names -> Copy] /\ feed' \in [Names -> Seq(Copy)]
    BY <1>2, <2>1, <2>2 DEF DeliverObject
  <2>. QED
    BY <1>2, <2>3 DEF DeliverObject, ObjectFires, api, TypeInv, TypeOK, JobOK, Copy
<1>. QED
  BY <1>1, <1>2 DEF Delivery

\* Reconcile up to its first call: the maximum it resolves is legal.
LEMMA BeginType ==
    ASSUME ProvisionAssumption, TypeInv, Begin
    PROVE  TypeInv'
<1>1. seen # NoSet => seen.uid \in 1..MaxUid /\ seen.says \in Declarations
  BY DEF TypeInv, TypeOK, SomeSet
<1>2. NoJob \in Jobs
  BY NoJobType
<1>3. CASE seen # NoSet /\ ~ Requested(seen.says)
           /\ pc' = "list" /\ job' = [NoJob EXCEPT !.uid = seen.uid] /\ queued' = FALSE
  <2>1. job' \in Jobs /\ job'.uid \in 1..MaxUid
    BY <1>1, <1>2, <1>3 DEF Jobs
  <2>. QED
    BY <1>3, <2>1 DEF Begin, TypeInv, TypeOK, JobOK, Jobs, api, informers
<1>4. CASE seen # NoSet /\ Provisionable(seen.says) /\ pc' = "list" /\ queued' = FALSE
           /\ job' = [NoJob EXCEPT !.uid = seen.uid, !.desired = Desired(seen.says)]
  <2>1. Desired(seen.says) \in Wanted
    BY <1>1, <1>4, DesiredType DEF TypeInv, TypeOK
  <2>2. job' = [uid |-> seen.uid, desired |-> Desired(seen.says), todo |-> {},
                kept |-> Own, changed |-> FALSE, stale |-> FALSE]
    BY <1>4 DEF NoJob
  <2>3. seen.uid \in 1..MaxUid /\ seen.uid \in 0..MaxUid /\ Own \in Names
    BY <1>1, <1>4 DEF Names
  <2>4. job' \in Jobs /\ job'.uid \in 1..MaxUid
    BY ONLY <2>1, <2>2, <2>3 DEF Jobs
  <2>. QED
    BY <1>4, <2>4 DEF Begin, TypeInv, TypeOK, JobOK, Jobs, api, informers
<1>5. CASE queued' \in BOOLEAN /\ UNCHANGED <<pc, job>>
  BY <1>5 DEF Begin, TypeInv, TypeOK, JobOK, api, informers
<1>6. \/ queued' = FALSE
      \/ queued' = (Valid(seen.says) /\ MaxUnknown(seen.says))
  BY DEF Begin
<1>. QED
  BY <1>3, <1>4, <1>5, <1>6 DEF Begin

\* The list, and the choice of the next call.
LEMMA ListType ==
    ASSUME ProvisionAssumption, TypeInv, List
    PROVE  TypeInv'
<1>1. job \in Jobs /\ job.uid \in 1..MaxUid /\ pc = "list"
  BY DEF List, TypeInv, TypeOK, JobOK, Jobs
<1> DEFINE managed == ManagedIn(cached, job.uid)
           live == {n \in managed : ~ cached[n].deleting}
<1>2. managed \subseteq Names
  BY DEF ManagedIn
<1>3. job' \in Jobs /\ queued' \in BOOLEAN /\ JobOK'
      /\ pc' \in {"idle", "cleanup", "create", "dedupe", "update"}
  <2>1. CASE Proceed([job EXCEPT !.todo = live], IF live = {} THEN "idle" ELSE "cleanup")
    <3>1. [job EXCEPT !.todo = live] \in Jobs
          /\ [job EXCEPT !.todo = live].uid \in 1..MaxUid
      BY <1>1, <1>2 DEF Jobs
    <3>. QED
      BY <2>1, <3>1, ProceedType DEF TypeInv
  <2>2. CASE job.desired # Nothing /\ Proceed(job, "create")
    BY <1>1, <2>2, ProceedType DEF TypeInv
  <2>3. ASSUME job.desired # Nothing, NEW n \in Oldest(managed),
               NEW b \in BOOLEAN, NEW c \in BOOLEAN, NEW j,
               j = [job EXCEPT !.kept = n, !.todo = managed \ {n},
                               !.changed = b, !.stale = c],
               Proceed(j, NextCall(j))
        PROVE  job' \in Jobs /\ queued' \in BOOLEAN /\ JobOK'
               /\ pc' \in {"idle", "cleanup", "create", "dedupe", "update"}
    <3>1. n \in Names
      BY <1>2 DEF Oldest
    <3>2. j \in Jobs /\ j.uid = job.uid /\ j.desired = job.desired
      BY <1>1, <1>2, <2>3, <3>1 DEF Jobs
    <3>3. NextCall(j) \in {"idle", "dedupe", "update"}
      BY <3>2, NextCallType
    <3>. QED
      BY <1>1, <2>3, <3>2, <3>3, ProceedType DEF TypeInv
  <2>. QED
    BY <2>1, <2>2, <2>3 DEF List
<1>. QED
  BY <1>3 DEF List, TypeInv, TypeOK, Jobs, api, informers

\* A Delete of the clean-up.
LEMMA CleanUpType ==
    ASSUME ProvisionAssumption, TypeInv, NEW n \in Names, CleanUp(n)
    PROVE  TypeInv'
<1> DEFINE j == [job EXCEPT !.todo = @ \ {n}]
<1>1. job \in Jobs /\ job.uid \in 1..MaxUid
  BY DEF CleanUp, TypeInv, TypeOK, JobOK, Jobs
<1>2. j \in Jobs /\ j.uid \in 1..MaxUid
  BY <1>1 DEF Jobs
<1>3. Proceed(j, IF j.todo = {} THEN "idle" ELSE "cleanup")
  BY DEF CleanUp
<1>4. job' \in Jobs /\ queued' \in BOOLEAN /\ JobOK' /\ pc' \in {"idle", "cleanup"}
  <2>. HIDE DEF j
  <2>. QED
    BY <1>2, <1>3, ProceedType DEF TypeInv
<1>5. objects' \in [Names -> Copy] /\ feed' \in [Names -> Seq(Copy)]
  BY DeleteType DEF CleanUp, TypeInv
<1>. QED
  BY <1>4, <1>5 DEF CleanUp, TypeInv, TypeOK, Jobs, Copy

\* A Delete of the deduplication.
LEMMA DeduplicateType ==
    ASSUME ProvisionAssumption, TypeInv, NEW n \in Names, Deduplicate(n)
    PROVE  TypeInv'
<1> DEFINE j == [job EXCEPT !.todo = @ \ {n}]
<1>1. job \in Jobs /\ job.uid \in 1..MaxUid /\ job.desired # Nothing
  BY DEF Deduplicate, TypeInv, TypeOK, JobOK, Jobs
<1>2. j \in Jobs /\ j.uid \in 1..MaxUid /\ j.desired # Nothing
  BY <1>1 DEF Jobs
<1>3. Retry \/ Proceed(j, NextCall(j))
  BY DEF Deduplicate
<1>4. job' \in Jobs /\ queued' \in BOOLEAN /\ JobOK'
      /\ pc' \in {"idle", "dedupe", "update"}
  <2>. HIDE DEF j
  <2>1. CASE Retry
    BY <2>1, RestType DEF TypeInv, JobOK
  <2>2. CASE Proceed(j, NextCall(j))
    <3>1. NextCall(j) \in {"idle", "dedupe", "update"}
      BY <1>2, NextCallType
    <3>. QED
      BY <1>2, <2>2, <3>1, ProceedType DEF TypeInv
  <2>. QED
    BY <1>3, <2>1, <2>2
<1>5. objects' \in [Names -> Copy] /\ feed' \in [Names -> Seq(Copy)]
  BY DeleteType DEF Deduplicate, TypeInv
<1>. QED
  BY <1>4, <1>5 DEF Deduplicate, TypeInv, TypeOK, Jobs, Copy

\* The Create call writes the InferenceSet's own object.
LEMMA CreateType ==
    ASSUME ProvisionAssumption, TypeInv, Create
    PROVE  TypeInv'
<1>1. job \in Jobs /\ job.uid \in 1..MaxUid /\ job.desired \in Wanted
  BY DEF Create, TypeInv, TypeOK, JobOK, Jobs
<1>2. Finish \/ Retry
  BY DEF Create
<1>3. job' \in Jobs /\ queued' \in BOOLEAN /\ pc' = "idle"
  BY <1>2, RestType DEF TypeInv
<1>4. objects' \in [Names -> Copy] /\ feed' \in [Names -> Seq(Copy)]
  <2>1. CASE UNCHANGED <<objects, feed>>
    BY <2>1 DEF TypeInv, TypeOK, Copy
  <2> DEFINE o == [owner |-> job.uid, spec |-> job.desired, created |-> 2,
                   deleting |-> FALSE]
  <2>2. CASE Put(Own, o)
    <3>1. o \in Copy /\ Own \in Names
      BY <1>1 DEF Copy, Object, Names
    <3>. HIDE DEF o
    <3>. QED
      BY <2>2, <3>1, PutType DEF TypeInv
  <2>. QED
    BY <2>1, <2>2 DEF Create
<1>. QED
  BY <1>3, <1>4 DEF Create, TypeInv, TypeOK, JobOK, Jobs, Copy

\* The Update call replaces the spec of an object that is there.
LEMMA UpdateType ==
    ASSUME ProvisionAssumption, TypeInv, Update
    PROVE  TypeInv'
<1>1. job \in Jobs /\ job.kept \in Names /\ job.desired \in Wanted
  BY DEF Update, TypeInv, TypeOK, JobOK, Jobs
<1>2. Finish \/ Retry
  BY DEF Update
<1>3. job' \in Jobs /\ queued' \in BOOLEAN /\ pc' = "idle"
  BY <1>2, RestType DEF TypeInv
<1>4. objects' \in [Names -> Copy] /\ feed' \in [Names -> Seq(Copy)]
  <2>1. CASE UNCHANGED <<objects, feed>>
    BY <2>1 DEF TypeInv, TypeOK, Copy
  <2> DEFINE o == [objects[job.kept] EXCEPT !.spec = job.desired]
  <2>2. CASE ~ Rejected /\ Put(job.kept, o)
    <3>1. o \in Copy
      BY <1>1, <2>2, EditedType DEF Rejected, Copy, TypeInv, TypeOK
    <3>. HIDE DEF o
    <3>. QED
      BY <1>1, <2>2, <3>1, PutType DEF TypeInv
  <2>. QED
    BY <2>1, <2>2 DEF Update
<1>. QED
  BY <1>3, <1>4 DEF Update, TypeInv, TypeOK, JobOK, Jobs, Copy

\* All steps of Reconcile.
LEMMA ReconcileType ==
    ASSUME ProvisionAssumption, TypeInv, Reconcile
    PROVE  TypeInv'
BY BeginType, ListType, CleanUpType, DeduplicateType, CreateType, UpdateType
   DEF Reconcile

\* A failing call, a restart.
LEMMA FailureType ==
    ASSUME ProvisionAssumption, TypeInv, CallFails \/ Restart
    PROVE  TypeInv'
<1>1. CASE CallFails
  <2>1. job' \in Jobs /\ queued' \in BOOLEAN /\ pc' = "idle"
    BY <1>1, RestType DEF CallFails, TypeInv
  <2>2. failures' \in 0..MaxFailures
    BY <1>1 DEF CallFails, TypeInv, TypeOK, ProvisionAssumption
  <2>. QED
    BY <1>1, <2>1, <2>2
       DEF CallFails, TypeInv, TypeOK, JobOK, Jobs, api, informers
<1>2. CASE Restart
  <2>1. job' \in Jobs /\ pc' = "idle"
    BY <1>2, NoJobType DEF Restart
  <2>2. failures' \in 0..MaxFailures
    BY <1>2 DEF Restart, TypeInv, TypeOK, ProvisionAssumption
  <2>3. queued' \in BOOLEAN
    BY <1>2 DEF Restart, StartFires
  <2>4. feed' \in [Names -> Seq(Copy)] /\ news' \in Seq(SomeSet \cup {NoSet})
    BY <1>2 DEF Restart
  <2>. QED
    BY <1>2, <2>1, <2>2, <2>3, <2>4
       DEF Restart, TypeInv, TypeOK, JobOK, Jobs, Copy, api
<1>. QED
  BY <1>1, <1>2

\* A write that is not Reconcile's.
LEMMA StoreType ==
    ASSUME ProvisionAssumption, TypeInv, NEW n \in Names, NEW o \in Copy, Store(n, o),
           edits' \in 0..MaxEdits, failures' \in 0..MaxFailures, peaceful' \in BOOLEAN,
           unheard' \in BOOLEAN
    PROVE  TypeInv'
<1>1. objects' \in [Names -> Copy] /\ feed' \in [Names -> Seq(Copy)]
  BY PutType DEF Store, TypeInv
<1>2. job' \in Jobs /\ job'.uid = job.uid /\ job'.desired = job.desired
  BY DEF Store, Jobs, TypeInv, TypeOK
<1>. QED
  BY <1>1, <1>2 DEF Store, TypeInv, TypeOK, JobOK, Jobs, Copy

\* KEDA, the garbage collector and KAITO.
LEMMA ClusterType ==
    ASSUME ProvisionAssumption, TypeInv, Cluster
    PROVE  TypeInv'
<1>1. NoObject \in Copy
  BY DEF Copy
<1>2. ASSUME NEW n \in Names, Finalize(n)
      PROVE  TypeInv'
  BY <1>1, <1>2, StoreType DEF Finalize, TypeInv, TypeOK
<1>3. ASSUME NEW n \in Names, Collect(n)
      PROVE  TypeInv'
  <2>1. [objects[n] EXCEPT !.deleting = TRUE] \in Copy
    BY <1>3, MarkedType DEF Collect, Copy, TypeInv, TypeOK
  <2>. QED
    BY <1>3, <2>1, StoreType DEF Collect, TypeInv, TypeOK
<1>4. ASSUME NEW c \in NodeCounts, ReportNodes(c)
      PROVE  TypeInv'
  BY <1>4 DEF ReportNodes, TypeInv, TypeOK, JobOK, informers, worker
<1>. QED
  BY <1>2, <1>3, <1>4 DEF Cluster

\* The users.
LEMMA UserType ==
    ASSUME ProvisionAssumption, TypeInv, User
    PROVE  TypeInv'
<1>1. edits' \in 0..MaxEdits
  BY DEF User, TypeInv, TypeOK, ProvisionAssumption
<1>2. ASSUME NEW d \in Declarations, Declare(d) \/ CreateSet(d)
      PROVE  TypeInv'
  <2>1. /\ set' \in SomeSet
        /\ uids' \in 1..MaxUid
        /\ peaceful' \in BOOLEAN
        /\ unheard' \in BOOLEAN
        /\ Edit(set')
    <3>1. CASE Declare(d)
      <4>1. set \in SomeSet /\ d.auto \in BOOLEAN
        BY <3>1 DEF Declare, TypeInv, TypeOK, Declaration, ProvisionAssumption
      <4>2. [set EXCEPT !.says = d] \in SomeSet
        BY <4>1 DEF SomeSet
      <4>. QED
        BY <3>1, <4>1, <4>2 DEF Declare, Edit, TypeInv, TypeOK
    <3>2. CASE CreateSet(d)
      <4>1. uids + 1 \in 1..MaxUid
        BY <3>2 DEF CreateSet, TypeInv, TypeOK, ProvisionAssumption
      <4>. QED
        BY <3>2, <4>1 DEF CreateSet, Edit, TypeInv, TypeOK, SomeSet
    <3>. QED
      BY <1>2, <3>1, <3>2
  <2>2. news' \in Seq(SomeSet \cup {NoSet})
    BY <2>1 DEF Edit, TypeInv, TypeOK
  <2>. QED
    BY <1>1, <2>1, <2>2 DEF Edit, TypeInv, TypeOK, JobOK, worker
<1>3. CASE RemoveSet
  <2>1. news' \in Seq(SomeSet \cup {NoSet}) /\ set' = NoSet
    BY <1>3 DEF RemoveSet, Edit, TypeInv, TypeOK
  <2>. QED
    BY <1>1, <1>3, <2>1 DEF RemoveSet, Edit, TypeInv, TypeOK, JobOK, worker
<1>4. CASE Park
  BY <1>1, <1>4 DEF Park, TypeInv, TypeOK, JobOK, informers, worker
<1>5. ASSUME NEW n \in Names, RemoveObject(n)
      PROVE  TypeInv'
  <2>1. [objects[n] EXCEPT !.deleting = TRUE] \in Copy
    BY <1>5, MarkedType DEF RemoveObject, Copy, TypeInv, TypeOK
  <2>. QED
    BY <1>1, <1>5, <2>1, StoreType DEF RemoveObject, TypeInv, TypeOK
<1>6. ASSUME NEW n \in Names, NEW w \in Specs, CreateObject(n, w)
      PROVE  TypeInv'
  <2>1. [owner |-> ByHand, spec |-> w, created |-> 2, deleting |-> FALSE] \in Copy
    BY DEF Copy, Object, ProvisionAssumption
  <2>. QED
    BY <1>1, <1>6, <2>1, StoreType DEF CreateObject, TypeInv, TypeOK
<1>7. ASSUME NEW n \in Names, NEW w \in Specs, EditObject(n, w)
      PROVE  TypeInv'
  <2>1. w \in Wanted
    BY DEF ProvisionAssumption
  <2>2. [objects[n] EXCEPT !.spec = w] \in Copy
    BY <1>7, <2>1, EditedType DEF EditObject, Copy, TypeInv, TypeOK
  <2>. QED
    BY <1>1, <1>7, <2>2, StoreType DEF EditObject, TypeInv, TypeOK
<1>. QED
  BY <1>2, <1>3, <1>4, <1>5, <1>6, <1>7 DEF User

\* Every step preserves TypeInv.
LEMMA NextType ==
    ASSUME ProvisionAssumption, TypeInv, [Next]_vars
    PROVE  TypeInv'
<1>1. CASE Next
  BY <1>1, DeliveryType, ReconcileType, FailureType, ClusterType, UserType DEF Next
<1>2. CASE UNCHANGED vars
  BY <1>2 DEF vars, api, informers, worker, TypeInv, TypeOK, JobOK
<1>. QED
  BY <1>1, <1>2

\* TypeInv is an invariant.
LEMMA TypeInvariant == Spec => []TypeInv
<1>1. Init => TypeInv
  BY InitType, ProvisionAssumption
<1>2. TypeInv /\ [Next]_vars => TypeInv'
  BY NextType, ProvisionAssumption
<1>. QED
  BY <1>1, <1>2, PTL DEF Spec

\* Every variable keeps its type, and every object the controller writes has a
\* maximum of at least 1, whatever limit and node count it is derived from.
THEOREM TypeCorrect == Spec => []TypeOK
<1>1. TypeInv => TypeOK
  BY DEF TypeInv
<1>. QED
  BY <1>1, TypeInvariant, PTL

-----------------------------------------------------------------------------
(* Objects of users are never overwritten.                                 *)

\* The newest version of an object is delivered or the last to be delivered.
Latest ==
    \A n \in Names :
        IF feed[n] = << >> THEN cached[n] = objects[n]
        ELSE feed[n][Len(feed[n])] = objects[n]

\* Unless it was written since it was listed, the object that is kept is gone or
\* was written by the controller.
KeptIsOurs ==
    (pc \in {"dedupe", "update"} /\ ~ job.stale) => ~ IsByHand(objects[job.kept])

OwnerInv == Latest /\ KeptIsOurs

\* A write keeps Latest: the version is the last to be delivered.
LEMMA PutLatest ==
    ASSUME ProvisionAssumption, TypeInv, Latest, NEW n \in Names, NEW o \in Copy,
           Put(n, o), cached' = cached
    PROVE  Latest'
<1>1. objects \in [Names -> Copy] /\ feed \in [Names -> Seq(Copy)]
  BY DEF TypeInv, TypeOK, Copy
<1>2. /\ Queue(feed[n], o) \in Seq(Copy)
      /\ Len(Queue(feed[n], o)) \in Nat \ {0}
      /\ Queue(feed[n], o)[Len(Queue(feed[n], o))] = o
  BY <1>1, QueueType
<1>3. Queue(feed[n], o) # << >>
  BY <1>2
<1>4. objects'[n] = o /\ feed'[n] = Queue(feed[n], o)
  BY <1>1 DEF Put
<1>5. \A m \in Names \ {n} : objects'[m] = objects[m] /\ feed'[m] = feed[m]
  BY <1>1 DEF Put
<1>. QED
  BY <1>2, <1>3, <1>4, <1>5 DEF Latest

\* Delete puts a version, and leaves every object with its owner and its spec.
LEMMA DeleteKeeps ==
    ASSUME ProvisionAssumption, TypeInv, Latest, NEW n \in Names, Delete(n),
           cached' = cached
    PROVE  /\ Latest'
           /\ \A m \in Names : (objects'[m] = NoObject) <=> (objects[m] = NoObject)
           /\ \A m \in Names : objects[m] # NoObject =>
                  /\ objects'[m].owner = objects[m].owner
                  /\ objects'[m].spec = objects[m].spec
<1>1. objects \in [Names -> Copy]
  BY DEF TypeInv, TypeOK, Copy
<1>2. CASE objects[n] = NoObject \/ objects[n].deleting
  BY <1>1, <1>2 DEF Delete, Latest
<1>3. CASE ~ (objects[n] = NoObject \/ objects[n].deleting)
  <2> DEFINE o == [objects[n] EXCEPT !.deleting = TRUE]
  <2>1. objects[n] \in Object
    BY <1>1, <1>3 DEF Copy
  <2>2. o \in Object
    BY <2>1, MarkedType
  <2>3. o.owner = objects[n].owner /\ o.spec = objects[n].spec
    BY <2>1 DEF Object
  <2>4. Put(n, o)
    BY <1>3 DEF Delete
  <2>. HIDE DEF o
  <2>5. Latest'
    BY <2>2, <2>4, PutLatest DEF Copy
  <2>6. objects'[n] = o /\ \A m \in Names \ {n} : objects'[m] = objects[m]
    BY <1>1, <2>4 DEF Put
  <2>. QED
    BY <1>3, <2>2, <2>3, <2>5, <2>6 DEF ProvisionAssumption
<1>. QED
  BY <1>2, <1>3

\* A delivery of the last version makes the informer current.
LEMMA DeliveryOwner ==
    ASSUME ProvisionAssumption, TypeInv, OwnerInv, Delivery
    PROVE  OwnerInv'
<1>1. ASSUME NEW k \in Deliverable(news), DeliverSet(k)
      PROVE  OwnerInv'
  BY <1>1 DEF DeliverSet, api, OwnerInv, Latest, KeptIsOurs, IsByHand
<1>2. ASSUME NEW n \in Names, NEW k \in Deliverable(feed[n]), DeliverObject(n, k)
      PROVE  OwnerInv'
  <2>1. /\ feed \in [Names -> Seq(Copy)]
        /\ cached \in [Names -> Copy]
        /\ k \in 1..Len(feed[n])
    BY <1>2 DEF Deliverable, TypeInv, TypeOK, Copy
  <2> DEFINE rest == SubSeq(feed[n], k + 1, Len(feed[n]))
  <2>2. cached'[n] = feed[n][k] /\ feed'[n] = rest /\ objects' = objects
    BY <1>2, <2>1 DEF DeliverObject, api
  <2>3. \A m \in Names \ {n} : cached'[m] = cached[m] /\ feed'[m] = feed[m]
    BY <1>2, <2>1 DEF DeliverObject
  <2>4. feed[n][Len(feed[n])] = objects[n]
    BY <2>1 DEF OwnerInv, Latest
  <2>5. CASE k = Len(feed[n])
    <3>1. rest = << >>
      BY <2>1, <2>5
    <3>. QED
      BY <1>2, <2>2, <2>3, <2>4, <2>5, <3>1
         DEF DeliverObject, OwnerInv, Latest, KeptIsOurs, IsByHand
  <2>6. CASE k # Len(feed[n])
    <3>1. Len(rest) = Len(feed[n]) - k
      BY <2>1
    <3>2. \A i \in 1..Len(rest) : rest[i] = feed[n][k + i]
      BY <2>1
    <3>3. Len(rest) \in Nat \ {0} /\ Len(rest) \in 1..Len(rest)
      <4>1. Len(feed[n]) \in Nat
        BY <2>1
      <4>. HIDE DEF rest
      <4>. QED
        BY <2>1, <2>6, <3>1, <4>1
    <3>4. rest # << >> /\ rest[Len(rest)] = feed[n][Len(feed[n])]
      <4>1. rest[Len(rest)] = feed[n][k + Len(rest)]
        BY <3>2, <3>3
      <4>2. k + Len(rest) = Len(feed[n])
        BY <2>1, <3>1
      <4>3. Len(rest) # 0
        BY <3>3
      <4>. HIDE DEF rest
      <4>. QED
        BY <4>1, <4>2, <4>3
    <3>. HIDE DEF rest
    <3>. QED
      BY <1>2, <2>2, <2>3, <2>4, <3>4
         DEF DeliverObject, OwnerInv, Latest, KeptIsOurs, IsByHand
  <2>. QED
    BY <2>5, <2>6
<1>. QED
  BY <1>1, <1>2 DEF Delivery

\* What List keeps is the version stored, unless a newer one is on its way.
LEMMA ListOwner ==
    ASSUME ProvisionAssumption, TypeInv, OwnerInv, List
    PROVE  OwnerInv'
<1>1. job \in Jobs /\ job.uid \in 1..MaxUid
  BY DEF List, TypeInv, TypeOK, JobOK, Jobs
<1>2. Latest'
  BY DEF List, api, informers, OwnerInv, Latest
<1> DEFINE managed == ManagedIn(cached, job.uid)
<1>3. ASSUME NEW n \in Oldest(managed), NEW j,
             j = [job EXCEPT !.kept = n, !.todo = managed \ {n},
                             !.changed = (cached[n].spec # job.desired),
                             !.stale = (feed[n] # << >>)],
             Proceed(j, NextCall(j))
      PROVE  KeptIsOurs'
  <2>1. n \in Names /\ cached[n] # NoObject /\ cached[n].owner = job.uid
    BY DEF Oldest, ManagedIn
  <2>2. cached[n].owner # ByHand
    BY <1>1, <2>1 DEF ProvisionAssumption
  <2>3. j.kept = n /\ j.stale = (feed[n] # << >>)
    BY <1>1, <1>3 DEF Jobs
  <2>4. feed[n] = << >> => ~ IsByHand(objects[n])
    BY <2>1, <2>2 DEF OwnerInv, Latest, IsByHand
  <2>5. objects' = objects
    BY DEF List, api
  <2>6. pc' \in {"dedupe", "update"} => job' = j
    BY <1>3 DEF Proceed
  <2>. QED
    BY <2>3, <2>4, <2>5, <2>6 DEF KeptIsOurs, IsByHand
<1>4. CASE pc' \in {"idle", "cleanup", "create"}
  BY <1>2, <1>4 DEF OwnerInv, KeptIsOurs
<1>5. CASE pc' \notin {"idle", "cleanup", "create"}
  <2>1. PICK n \in Oldest(managed) :
          LET j == [job EXCEPT !.kept = n, !.todo = managed \ {n},
                               !.changed = (cached[n].spec # job.desired),
                               !.stale = (feed[n] # << >>)]
          IN  Proceed(j, NextCall(j))
    BY <1>5 DEF List, Proceed
  <2>. QED
    BY <1>2, <1>3, <2>1 DEF OwnerInv
<1>. QED
  BY <1>4, <1>5

\* The other steps of Reconcile leave the object that is kept to its owner.
LEMMA CallsOwner ==
    ASSUME ProvisionAssumption, TypeInv, OwnerInv, Reconcile, ~ List
    PROVE  OwnerInv'
<1>1. CASE Begin
  BY <1>1 DEF Begin, api, informers, OwnerInv, Latest, KeptIsOurs
<1>2. ASSUME NEW n \in Names, CleanUp(n)
      PROVE  OwnerInv'
  <2>1. Latest'
    BY <1>2, DeleteKeeps DEF CleanUp, OwnerInv
  <2>2. pc' \in {"idle", "cleanup"}
    BY <1>2 DEF CleanUp, Proceed
  <2>. QED
    BY <2>1, <2>2 DEF OwnerInv, KeptIsOurs
<1>3. ASSUME NEW n \in Names, Deduplicate(n)
      PROVE  OwnerInv'
  <2>1. /\ Latest'
        /\ \A m \in Names : IsByHand(objects'[m]) <=> IsByHand(objects[m])
    BY <1>3, DeleteKeeps DEF Deduplicate, OwnerInv, IsByHand
  <2>2. job \in Jobs /\ pc = "dedupe"
    BY <1>3 DEF Deduplicate, Jobs, TypeInv, TypeOK
  <2>3. pc' = "idle" \/ (job'.kept = job.kept /\ job'.stale = job.stale)
    BY <1>3, <2>2 DEF Deduplicate, Retry, Proceed, Jobs
  <2>4. job.kept \in Names
    BY <2>2 DEF Jobs
  <2>. QED
    BY <2>1, <2>2, <2>3, <2>4 DEF OwnerInv, KeptIsOurs, IsByHand
<1>4. CASE Create \/ Update
  <2>1. pc' = "idle"
    BY <1>4 DEF Create, Update, Finish, Retry
  <2>2. \/ UNCHANGED <<objects, feed>>
        \/ \E n \in Names, o \in Copy : Put(n, o)
    <3>1. CASE Create
      <4>1. [owner |-> job.uid, spec |-> job.desired, created |-> 2,
             deleting |-> FALSE] \in Copy
        BY <3>1 DEF Create, TypeInv, TypeOK, JobOK, Copy, Object
      <4>. QED
        BY <3>1, <4>1 DEF Create, Names
    <3>2. CASE Update
      <4>1. job.kept \in Names /\ job.desired \in Wanted
        BY <3>2 DEF Update, TypeInv, TypeOK, JobOK
      <4>2. ~ Rejected => [objects[job.kept] EXCEPT !.spec = job.desired] \in Copy
        BY <4>1, EditedType DEF Rejected, TypeInv, TypeOK, Copy
      <4>. QED
        BY <3>2, <4>1, <4>2 DEF Update
    <3>. QED
      BY <1>4, <3>1, <3>2
  <2>3. cached' = cached
    BY <1>4 DEF Create, Update
  <2>4. Latest'
    BY <2>2, <2>3, PutLatest DEF OwnerInv, Latest
  <2>. QED
    BY <2>1, <2>4 DEF OwnerInv, KeptIsOurs
<1>. QED
  BY <1>1, <1>2, <1>3, <1>4 DEF Reconcile

\* Another's write of the object that is kept makes the job stale.
LEMMA StoreOwner ==
    ASSUME ProvisionAssumption, TypeInv, OwnerInv, NEW n \in Names, NEW o \in Copy,
           Store(n, o)
    PROVE  OwnerInv'
<1>1. Latest'
  BY PutLatest DEF Store, OwnerInv
<1>2. /\ job \in Jobs
      /\ objects \in [Names -> Copy]
  BY DEF Jobs, Copy, TypeInv, TypeOK
<1>3. /\ job'.kept = job.kept
      /\ job'.stale = (job.stale \/ (pc \in {"dedupe", "update"} /\ n = job.kept))
      /\ pc' = pc
  BY <1>2 DEF Store, Jobs
<1>4. job.kept # n => objects'[job.kept] = objects[job.kept]
  BY <1>2 DEF Store, Put, Jobs
<1>5. KeptIsOurs'
  BY <1>3, <1>4 DEF KeptIsOurs, OwnerInv, IsByHand
<1>. QED
  BY <1>1, <1>5 DEF OwnerInv

\* Failures, the cluster and the users.
LEMMA OthersOwner ==
    ASSUME ProvisionAssumption, TypeInv, OwnerInv,
           CallFails \/ Restart \/ Cluster \/ User
    PROVE  OwnerInv'
<1>1. CASE CallFails
  BY <1>1 DEF CallFails, Retry, api, informers, OwnerInv, Latest, KeptIsOurs
<1>2. CASE Restart
  BY <1>2 DEF Restart, api, OwnerInv, Latest, KeptIsOurs
<1>3. CASE UNCHANGED <<objects, feed, cached, pc, job>>
  BY <1>3 DEF OwnerInv, Latest, KeptIsOurs, IsByHand
<1>4. ASSUME NEW n \in Names, NEW o \in Copy, Store(n, o)
      PROVE  OwnerInv'
  BY <1>4, StoreOwner
<1>5. CASE Cluster
  <2>1. ASSUME NEW n \in Names, Finalize(n)
        PROVE  OwnerInv'
    BY <1>4, <2>1 DEF Finalize, Copy
  <2>2. ASSUME NEW n \in Names, Collect(n)
        PROVE  OwnerInv'
    <3>1. [objects[n] EXCEPT !.deleting = TRUE] \in Copy
      BY <2>2, MarkedType DEF Collect, Copy, TypeInv, TypeOK
    <3>. QED
      BY <1>4, <2>2, <3>1 DEF Collect
  <2>3. ASSUME NEW c \in NodeCounts, ReportNodes(c)
        PROVE  OwnerInv'
    BY <1>3, <2>3 DEF ReportNodes, informers, worker
  <2>. QED
    BY <1>5, <2>1, <2>2, <2>3 DEF Cluster
<1>6. CASE User
  <2>1. ASSUME NEW n \in Names, RemoveObject(n)
        PROVE  OwnerInv'
    <3>1. [objects[n] EXCEPT !.deleting = TRUE] \in Copy
      BY <2>1, MarkedType DEF RemoveObject, Copy, TypeInv, TypeOK
    <3>. QED
      BY <1>4, <2>1, <3>1 DEF RemoveObject
  <2>2. ASSUME NEW n \in Names, NEW w \in Specs, CreateObject(n, w) \/ EditObject(n, w)
        PROVE  OwnerInv'
    <3>1. w \in Wanted
      BY DEF ProvisionAssumption
    <3>2. CASE CreateObject(n, w)
      <4>1. [owner |-> ByHand, spec |-> w, created |-> 2, deleting |-> FALSE] \in Copy
        BY <3>1 DEF Copy, Object
      <4>. QED
        BY <1>4, <3>2, <4>1 DEF CreateObject
    <3>3. CASE EditObject(n, w)
      <4>1. [objects[n] EXCEPT !.spec = w] \in Copy
        BY <3>1, <3>3, EditedType DEF EditObject, Copy, TypeInv, TypeOK
      <4>. QED
        BY <1>4, <3>3, <4>1 DEF EditObject
    <3>. QED
      BY <2>2, <3>2, <3>3
  <2>3. ASSUME NEW d \in Declarations, Declare(d) \/ CreateSet(d)
        PROVE  OwnerInv'
    BY <1>3, <2>3 DEF Declare, CreateSet, Edit, worker
  <2>4. ASSUME RemoveSet \/ Park
        PROVE  OwnerInv'
    BY <1>3, <2>4 DEF RemoveSet, Park, Edit, informers, worker
  <2>. QED
    BY <1>6, <2>1, <2>2, <2>3, <2>4 DEF User
<1>. QED
  BY <1>1, <1>2, <1>5, <1>6

\* Every step preserves OwnerInv.
LEMMA NextOwner ==
    ASSUME ProvisionAssumption, TypeInv, OwnerInv, [Next]_vars
    PROVE  OwnerInv'
<1>1. CASE Next
  BY <1>1, DeliveryOwner, ListOwner, CallsOwner, OthersOwner DEF Next
<1>2. CASE UNCHANGED vars
  BY <1>2 DEF vars, api, informers, worker, OwnerInv, Latest, KeptIsOurs, IsByHand
<1>. QED
  BY <1>1, <1>2

\* OwnerInv is an invariant.
LEMMA OwnerInvariant == Spec => [](TypeInv /\ OwnerInv)
<1>1. Init => OwnerInv
  BY DEF Init, OwnerInv, Latest, KeptIsOurs
<1>2. TypeInv /\ OwnerInv /\ [Next]_vars => OwnerInv'
  BY NextOwner, ProvisionAssumption
<1>. QED
  BY <1>1, <1>2, TypeInvariant, PTL DEF Spec

\* The steps that change an object without being a user's: a Delete keeps owner and
\* spec, and an Update that is accepted meets an object of the controller.
LEMMA NextOverwrite ==
    ASSUME ProvisionAssumption, TypeInv, OwnerInv, Next
    PROVE  OverwriteStep
<1>1. objects \in [Names -> Copy]
  BY DEF TypeInv, TypeOK, Copy
<1>2. CASE UNCHANGED objects
  BY <1>2 DEF OverwriteStep, IsByHand
<1>3. CASE Delivery
  BY <1>2, <1>3 DEF Delivery, DeliverSet, DeliverObject, api
<1>4. CASE Reconcile
  <2>1. CASE Begin \/ List
    BY <1>2, <2>1 DEF Begin, List, api
  <2>2. ASSUME NEW n \in Names, CleanUp(n) \/ Deduplicate(n)
        PROVE  OverwriteStep
    BY <2>2, DeleteKeeps
       DEF CleanUp, Deduplicate, OwnerInv, OverwriteStep, IsByHand
  <2>3. CASE Create
    <3>1. UNCHANGED objects \/ objects[Own] = NoObject
      BY <2>3 DEF Create
    <3>2. \A m \in Names \ {Own} : objects'[m] = objects[m]
      BY <1>1, <2>3 DEF Create, Put
    <3>. QED
      BY <1>2, <3>1, <3>2 DEF OverwriteStep, IsByHand
  <2>4. CASE Update
    <3>1. UNCHANGED objects \/ ~ IsByHand(objects[job.kept])
      BY <2>4 DEF Update, Rejected, OwnerInv, KeptIsOurs
    <3>2. \A m \in Names \ {job.kept} : objects'[m] = objects[m]
      BY <1>1, <2>4 DEF Update, Put
    <3>. QED
      BY <1>2, <3>1, <3>2 DEF OverwriteStep, IsByHand
  <2>. QED
    BY <1>4, <2>1, <2>2, <2>3, <2>4 DEF Reconcile
<1>5. CASE CallFails \/ Restart
  BY <1>2, <1>5 DEF CallFails, Restart, api
<1>6. CASE Cluster
  <2>1. ASSUME NEW n \in Names, Finalize(n)
        PROVE  OverwriteStep
    <3>1. objects'[n] = NoObject /\ \A m \in Names \ {n} : objects'[m] = objects[m]
      BY <1>1, <2>1 DEF Finalize, Store, Put
    <3>. QED
      BY <3>1 DEF OverwriteStep, IsByHand
  <2>2. ASSUME NEW n \in Names, Collect(n)
        PROVE  OverwriteStep
    <3>1. objects[n].owner # ByHand /\ \A m \in Names \ {n} : objects'[m] = objects[m]
      BY <1>1, <2>2 DEF Collect, Store, Put
    <3>. QED
      BY <3>1 DEF OverwriteStep, IsByHand
  <2>3. ASSUME NEW c \in NodeCounts, ReportNodes(c)
        PROVE  OverwriteStep
    BY <1>2, <2>3 DEF ReportNodes
  <2>. QED
    BY <1>6, <2>1, <2>2, <2>3 DEF Cluster
<1>7. CASE User
  <2>1. edits' # edits
    BY <1>7 DEF User, TypeInv, TypeOK
  <2>. QED
    BY <2>1 DEF OverwriteStep
<1>. QED
  BY <1>3, <1>4, <1>5, <1>6, <1>7 DEF Next

\* However stale its reads, and whatever fails: the controller never changes a
\* ScaledObject a user created, because an Update it decided on is accepted only if
\* nobody wrote the object since, and then the object is the controller's.
THEOREM UserObjectsKept == Spec => ByHandIsNotOverwritten
<1>1. TypeInv /\ OwnerInv /\ [Next]_vars => [OverwriteStep]_vars
  BY NextOverwrite, ProvisionAssumption
<1>. QED
  BY <1>1, OwnerInvariant, PTL DEF Spec, ByHandIsNotOverwritten
-----------------------------------------------------------------------------
(* The last object is kept.                                                *)

\* While it is peaceful there is one InferenceSet, and everybody sees it switched on.
IsOn(s) == s # NoSet /\ s.uid = 1 /\ s.says.auto

StaysOn ==
    /\ IsOn(set) /\ IsOn(seen)
    /\ \A i \in 1..Len(news) : IsOn(news[i])
    /\ pc # "idle" => job.uid = 1
    /\ pc = "list" => job.desired # Nothing
    /\ pc # "cleanup"

\* Every version of an object anybody has or is going to see.
Versions(n) == {objects[n], cached[n]} \cup {feed[n][i] : i \in 1..Len(feed[n])}

Ours(o) == o # NoObject /\ o.owner = 1

\* What Reconcile is going to delete as a duplicate.
Deleting == IF pc = "dedupe" THEN job.todo ELSE {}

\* k was there first, is older than any other managed object, and is never deleted.
Lasts(k, age) ==
    /\ \A v \in Versions(k) : Ours(v) /\ ~ v.deleting /\ v.created = age
    /\ \A n \in Names \ {k} : \A v \in Versions(n) : Ours(v) => v.created > age

\* There never was a managed object under the other name.
Alone == \A v \in Versions(Extra) : ~ Ours(v)

Keeps(k, age) == Lasts(k, age) /\ k \notin Deleting

Sole == Alone /\ Deleting = {}

PeaceInv ==
    peaceful => StaysOn /\ (Sole \/ \E k \in Names, age \in {0, 1} : Keeps(k, age))

\* A write adds one version, of one object.
LEMMA PutVersions ==
    ASSUME ProvisionAssumption, TypeInv, NEW n \in Names, NEW o \in Copy, Put(n, o),
           cached' = cached
    PROVE  /\ \A v \in Versions(n)' : v = o \/ v \in Versions(n)
           /\ \A m \in Names \ {n} : Versions(m)' = Versions(m)
<1>1. objects \in [Names -> Copy] /\ feed \in [Names -> Seq(Copy)]
  BY DEF TypeInv, TypeOK, Copy
<1> DEFINE old == feed[n]
           new == Queue(old, o)
<1>2. objects'[n] = o /\ feed'[n] = new /\ old \in Seq(Copy)
  BY <1>1 DEF Put
<1>3. \A m \in Names \ {n} : objects'[m] = objects[m] /\ feed'[m] = feed[m]
  BY <1>1 DEF Put
<1>. HIDE DEF old
<1>4. \A i \in 1..Len(new) : new[i] = o \/ \E j \in 1..Len(old) : new[i] = old[j]
  <2>1. CASE Len(old) < MaxLag
    <3>1. new = Append(old, o)
      BY <2>1 DEF Queue
    <3>. QED
      BY <1>2, <3>1
  <2>2. CASE ~ Len(old) < MaxLag
    <3>1. Len(old) \in Nat /\ Len(old) >= 1
      BY <1>2, <2>2 DEF ProvisionAssumption
    <3>2. new = Append(Tail(old), o)
      BY <2>2 DEF Queue
    <3>3. /\ Tail(old) \in Seq(Copy) /\ Len(Tail(old)) = Len(old) - 1
          /\ \A i \in 1..(Len(old) - 1) : Tail(old)[i] = old[i + 1]
      BY <1>2, <3>1
    <3>4. /\ Len(new) = Len(old) /\ new[Len(old)] = o
          /\ \A i \in 1..(Len(old) - 1) : new[i] = Tail(old)[i]
      BY <3>1, <3>2, <3>3
    <3>5. ASSUME NEW i \in 1..Len(new), i # Len(old)
          PROVE  i + 1 \in 1..Len(old) /\ new[i] = old[i + 1]
      <4>1. i \in 1..(Len(old) - 1)
        BY <3>1, <3>4, <3>5
      <4>2. new[i] = Tail(old)[i] /\ Tail(old)[i] = old[i + 1]
        BY <3>3, <3>4, <4>1
      <4>. QED
        BY <3>1, <4>1, <4>2
    <3>. QED
      BY <3>4, <3>5
  <2>. QED
    BY <2>1, <2>2
<1>5. \A v \in Versions(n)' : v = o \/ v \in Versions(n)
  <2>. HIDE DEF new
  <2>1. Versions(n)' = {o, cached[n]} \cup {new[i] : i \in 1..Len(new)}
    BY <1>2 DEF Versions
  <2>2. Versions(n) = {objects[n], cached[n]} \cup {old[i] : i \in 1..Len(old)}
    BY DEF Versions, old
  <2>. QED
    BY <1>4, <2>1, <2>2
<1>6. \A m \in Names \ {n} : Versions(m)' = Versions(m)
  BY <1>3 DEF Versions
<1>. QED
  BY <1>5, <1>6

\* What a write may be, for Lasts and for Alone to stay.
LEMMA WriteLasts ==
    ASSUME ProvisionAssumption, TypeInv, NEW n \in Names, NEW o \in Copy, Put(n, o),
           cached' = cached, NEW k \in Names, NEW age \in {0, 1}, Lasts(k, age),
           n = k => Ours(o) /\ ~ o.deleting /\ o.created = age,
           Ours(o) => o.created = 2 \/ (Ours(objects[n]) /\ o.created = objects[n].created)
    PROVE  Lasts(k, age)'
<1>1. objects[n] \in Versions(n)
  BY DEF Versions
<1>2. CASE n = k
  BY <1>2, PutVersions DEF Lasts
<1>3. CASE n # k
  <2>1. Ours(o) => o.created > age
    BY <1>1, <1>3 DEF Lasts
  <2>2. \A v \in Versions(k)' : v \in Versions(k)
    BY <1>3, PutVersions
  <2>3. ASSUME NEW m \in Names \ {k}, NEW v \in Versions(m)', Ours(v)
        PROVE  v.created > age
    <3>1. v \in Versions(m) \/ v = o
      BY PutVersions
    <3>. QED
      BY <2>1, <2>3, <3>1 DEF Lasts
  <2>. QED
    BY <2>2, <2>3 DEF Lasts
<1>. QED
  BY <1>2, <1>3

LEMMA WriteAlone ==
    ASSUME ProvisionAssumption, TypeInv, NEW n \in Names, NEW o \in Copy, Put(n, o),
           cached' = cached, Alone, n = Extra /\ Ours(o) => Ours(objects[n])
    PROVE  Alone'
<1>1. objects[n] \in Versions(n) /\ Extra \in Names
  BY DEF Versions, Names
<1>. QED
  BY <1>1, PutVersions DEF Alone

\* A step that adds no version.
LEMMA NothingNew ==
    ASSUME \A n \in Names : Versions(n)' \subseteq Versions(n), Deleting' \subseteq Deleting
    PROVE  /\ \A k \in Names, age \in {0, 1} : Keeps(k, age) => Keeps(k, age)'
           /\ Sole => Sole'
BY DEF Keeps, Lasts, Sole, Alone, Names

LEMMA SameVersions ==
    ASSUME UNCHANGED <<objects, feed, cached>>
    PROVE  \A n \in Names : Versions(n)' \subseteq Versions(n)
BY DEF Versions

\* Peace is never restored.
LEMMA PeaceOnce ==
    ASSUME ProvisionAssumption, TypeInv, Next, peaceful'
    PROVE  peaceful
BY DEF Next, Delivery, DeliverSet, DeliverObject, Reconcile, Begin, List, CleanUp,
       Deduplicate, Create, Update, CallFails, Restart, Cluster, Finalize, Collect,
       ReportNodes, User, Declare, RemoveSet, CreateSet, Park, RemoveObject, CreateObject,
       EditObject

\* Nothing comes of a first call but a list for the one InferenceSet.
LEMMA NextStaysOn ==
    ASSUME ProvisionAssumption, TypeInv, StaysOn, Next, peaceful'
    PROVE  StaysOn'
<1>1. CASE UNCHANGED <<set, news, seen>> /\ pc' = "idle"
  BY <1>1 DEF StaysOn
<1>2. CASE UNCHANGED <<set, news, seen>> /\ pc' = pc /\ job'.uid = job.uid
           /\ job'.desired = job.desired
  BY <1>2 DEF StaysOn
<1>3. ASSUME NEW k \in Deliverable(news), DeliverSet(k)
      PROVE  StaysOn'
  <2>1. k \in 1..Len(news) /\ news \in Seq(SomeSet \cup {NoSet})
    BY <1>3 DEF Deliverable, TypeInv, TypeOK
  <2>2. /\ Len(SubSeq(news, k + 1, Len(news))) = Len(news) - k
        /\ \A i \in 1..(Len(news) - k) : SubSeq(news, k + 1, Len(news))[i] = news[k + i]
    BY <2>1
  <2>3. \A i \in 1..(Len(news) - k) : k + i \in 1..Len(news)
    BY <2>1
  <2>4. \A i \in 1..Len(news') : IsOn(news'[i])
    BY <1>3, <2>2, <2>3 DEF DeliverSet, StaysOn
  <2>5. IsOn(seen')
    BY <1>3, <2>1 DEF DeliverSet, StaysOn
  <2>. QED
    BY <1>3, <2>4, <2>5 DEF DeliverSet, StaysOn, api, IsOn
<1>4. ASSUME NEW n \in Names, NEW k \in Deliverable(feed[n]), DeliverObject(n, k)
      PROVE  StaysOn'
  BY <1>2, <1>4 DEF DeliverObject, api
<1>5. CASE Begin
  <2>1. seen # NoSet /\ Requested(seen.says) /\ seen.uid = 1
    BY DEF StaysOn, IsOn, Requested
  <2>2. CASE pc' = "list" /\ job' = [NoJob EXCEPT !.uid = seen.uid,
                                                  !.desired = Desired(seen.says)]
             /\ Provisionable(seen.says)
    <3>1. job'.uid = 1 /\ job'.desired = Desired(seen.says)
      BY <2>1, <2>2 DEF NoJob
    <3>2. Desired(seen.says) \in Wanted
      BY <2>1, <2>2, DesiredType DEF TypeInv, TypeOK, SomeSet
    <3>3. job'.desired # Nothing
      BY <3>1, <3>2 DEF ProvisionAssumption
    <3>. QED
      BY <1>5, <2>2, <3>1, <3>3 DEF Begin, StaysOn, api, informers, IsOn
  <2>3. CASE UNCHANGED <<pc, job>>
    BY <1>2, <1>5, <2>3 DEF Begin, api, informers
  <2>. QED
    BY <1>5, <2>1, <2>2, <2>3 DEF Begin
<1>6. CASE List
  <2>1. job \in Jobs /\ job.uid = 1 /\ job.desired # Nothing
    BY <1>6 DEF List, StaysOn, TypeInv, TypeOK, Jobs
  <2>2. pc' \in {"idle", "create", "dedupe", "update"} /\ (pc' # "idle" => job'.uid = 1)
    <3>1. CASE Proceed(job, "create")
      BY <2>1, <3>1 DEF Proceed
    <3>2. ASSUME NEW n, NEW T, NEW b, NEW c, NEW j,
                 j = [job EXCEPT !.kept = n, !.todo = T, !.changed = b, !.stale = c],
                 Proceed(j, NextCall(j))
          PROVE  pc' \in {"idle", "create", "dedupe", "update"}
                 /\ (pc' # "idle" => job'.uid = 1)
      <4>1. j.uid = 1
        BY <2>1, <3>2 DEF Jobs
      <4>2. NextCall(j) \in {"idle", "dedupe", "update"}
        BY DEF NextCall
      <4>. QED
        BY <3>2, <4>1, <4>2 DEF Proceed
    <3>. QED
      BY <1>6, <2>1, <3>1, <3>2 DEF List
  <2>. QED
    BY <1>6, <2>2 DEF List, StaysOn, api, informers, IsOn
<1>7. ASSUME NEW n \in Names, CleanUp(n)
      PROVE  StaysOn'
  BY <1>7 DEF CleanUp, StaysOn
<1>8. ASSUME NEW n \in Names, Deduplicate(n)
      PROVE  StaysOn'
  <2> DEFINE j == [job EXCEPT !.todo = @ \ {n}]
  <2>1. job \in Jobs /\ job.uid = 1 /\ j \in Jobs /\ j.uid = 1
    BY <1>8 DEF Deduplicate, StaysOn, TypeInv, TypeOK, Jobs
  <2>2. Retry \/ Proceed(j, NextCall(j))
    BY <1>8 DEF Deduplicate
  <2>. HIDE DEF j
  <2>3. pc' \in {"idle", "dedupe", "update"} /\ (pc' # "idle" => job'.uid = 1)
    <3>1. NextCall(j) \in {"idle", "dedupe", "update"}
      BY <2>1, NextCallType
    <3>. QED
      BY <2>1, <2>2, <3>1 DEF Retry, Proceed
  <2>. QED
    BY <1>8, <2>3 DEF Deduplicate, StaysOn, IsOn
<1>9. CASE Create \/ Update \/ CallFails
  BY <1>1, <1>9 DEF Create, Update, CallFails, Finish, Retry, api, informers
<1>10. CASE Restart
  BY <1>10 DEF Restart, StaysOn, api, IsOn
<1>11. ASSUME NEW n, NEW o, Store(n, o)
       PROVE  StaysOn'
  <2>1. job'.uid = job.uid /\ job'.desired = job.desired
    BY <1>11 DEF Store, TypeInv, TypeOK
  <2>. QED
    BY <1>2, <1>11, <2>1 DEF Store
<1>12. CASE Cluster
  BY <1>2, <1>11, <1>12 DEF Cluster, Finalize, Collect, ReportNodes, informers, worker
<1>13. CASE User
  <2>1. ASSUME NEW d \in Declarations, Declare(d)
        PROVE  StaysOn'
    <3>1. set \in SomeSet /\ set.uid = 1 /\ d.auto
      BY <2>1 DEF Declare, StaysOn, IsOn, TypeInv, TypeOK
    <3>2. IsOn(set')
      <4>1. set' = [set EXCEPT !.says = d] /\ set' \in SomeSet
        BY <2>1, <3>1 DEF Declare, Edit, SomeSet
      <4>2. set'.uid = 1 /\ set'.says = d
        BY <3>1, <4>1 DEF SomeSet
      <4>. QED
        BY <3>1, <4>1, <4>2 DEF IsOn, ProvisionAssumption
    <3>3. news' = Append(news, set') /\ news \in Seq(SomeSet \cup {NoSet})
      BY <2>1 DEF Declare, Edit, TypeInv, TypeOK
    <3>4. \A i \in 1..Len(news') : IsOn(news'[i])
      <4>1. Len(news') = Len(news) + 1 /\ news'[Len(news) + 1] = set'
        BY <3>3
      <4>2. \A i \in 1..Len(news) : news'[i] = news[i]
        BY <3>3
      <4>3. Len(news) \in Nat
        BY <3>3
      <4>4. \A i \in 1..Len(news') : i \in 1..Len(news) \/ i = Len(news) + 1
        BY <4>1, <4>3
      <4>. QED
        BY <3>2, <4>1, <4>2, <4>4 DEF StaysOn
    <3>. QED
      BY <2>1, <3>2, <3>4 DEF Declare, Edit, StaysOn, worker, IsOn
  <2>2. ASSUME NEW d \in Declarations, CreateSet(d)
        PROVE  StaysOn'
    BY <2>2 DEF CreateSet, StaysOn, IsOn
  <2>3. CASE RemoveSet
    BY <2>3 DEF RemoveSet
  <2>4. CASE Park
    BY <1>2, <2>4 DEF Park, informers, worker
  <2>5. ASSUME NEW n \in Names, NEW w \in Specs,
               RemoveObject(n) \/ CreateObject(n, w) \/ EditObject(n, w)
        PROVE  StaysOn'
    BY <1>11, <2>5 DEF RemoveObject, CreateObject, EditObject
  <2>6. ASSUME NEW n \in Names, RemoveObject(n)
        PROVE  StaysOn'
    BY <1>11, <2>6 DEF RemoveObject
  <2>. QED
    BY <1>13, <2>1, <2>2, <2>3, <2>4, <2>5, <2>6 DEF User
<1>. QED
  BY <1>3, <1>4, <1>5, <1>6, <1>7, <1>8, <1>9, <1>10, <1>12, <1>13
     DEF Next, Delivery, Reconcile

\* An informer moves on, or lists everything.
LEMMA DeliveryNothingNew ==
    ASSUME ProvisionAssumption, TypeInv, Delivery \/ Restart
    PROVE  (\A n \in Names : Versions(n)' \subseteq Versions(n)) /\ Deleting' \subseteq Deleting
<1>1. ASSUME NEW k \in Deliverable(news), DeliverSet(k)
      PROVE  (\A n \in Names : Versions(n)' \subseteq Versions(n)) /\ Deleting' = Deleting
  BY <1>1, SameVersions DEF DeliverSet, Deleting, api
<1>2. ASSUME NEW n \in Names, NEW k \in Deliverable(feed[n]), DeliverObject(n, k)
      PROVE  (\A m \in Names : Versions(m)' \subseteq Versions(m)) /\ Deleting' = Deleting
  <2>1. /\ feed \in [Names -> Seq(Copy)]
        /\ cached \in [Names -> Copy]
        /\ k \in 1..Len(feed[n])
    BY <1>2 DEF Deliverable, TypeInv, TypeOK, Copy
  <2> DEFINE rest == SubSeq(feed[n], k + 1, Len(feed[n]))
  <2>2. cached'[n] = feed[n][k] /\ feed'[n] = rest /\ objects' = objects
    BY <1>2, <2>1 DEF DeliverObject, api
  <2>3. \A m \in Names \ {n} : cached'[m] = cached[m] /\ feed'[m] = feed[m]
    BY <1>2, <2>1 DEF DeliverObject
  <2>4. Len(rest) = Len(feed[n]) - k /\ \A i \in 1..Len(rest) : rest[i] = feed[n][k + i]
    BY <2>1
  <2>5. \A i \in 1..Len(rest) : \E j \in 1..Len(feed[n]) : rest[i] = feed[n][j]
    <3>1. \A i \in 1..Len(rest) : k + i \in 1..Len(feed[n])
      BY <2>1, <2>4
    <3>. QED
      BY <2>4, <3>1
  <2>. HIDE DEF rest
  <2>6. Versions(n)' = {objects[n], feed[n][k]} \cup {rest[i] : i \in 1..Len(rest)}
    BY <2>2 DEF Versions
  <2>7. Versions(n)' \subseteq Versions(n)
    BY <2>1, <2>5, <2>6 DEF Versions
  <2>8. \A m \in Names \ {n} : Versions(m)' = Versions(m)
    BY <2>2, <2>3 DEF Versions
  <2>. QED
    BY <1>2, <2>7, <2>8 DEF DeliverObject, Deleting
<1>3. CASE Restart
  <2>1. objects' = objects /\ cached' = objects /\ pc' = "idle"
        /\ \A n \in Names : feed'[n] = << >>
    BY <1>3 DEF Restart, api
  <2>2. ASSUME NEW n \in Names
        PROVE  Versions(n)' \subseteq Versions(n)
    <3>1. Len(feed'[n]) = 0
      BY <2>1
    <3>2. Versions(n)' = {objects[n]}
      BY <2>1, <3>1 DEF Versions
    <3>. QED
      BY <3>2 DEF Versions
  <2>. QED
    BY <2>1, <2>2 DEF Deleting
<1>. QED
  BY <1>1, <1>2, <1>3 DEF Delivery

\* The choice of what to delete spares the object that lasts.
LEMMA ListSpares ==
    ASSUME ProvisionAssumption, TypeInv, StaysOn, List
    PROVE  /\ \A k \in Names, age \in {0, 1} : Lasts(k, age) => k \notin Deleting'
           /\ Alone => Deleting' = {}
<1>1. job \in Jobs /\ job.uid = 1 /\ job.desired # Nothing
  BY DEF List, StaysOn, TypeInv, TypeOK, Jobs
<1> DEFINE managed == ManagedIn(cached, job.uid)
<1>2. managed = {n \in Names : Ours(cached[n])}
  BY <1>1 DEF ManagedIn, Ours
<1>3. CASE Proceed(job, "create")
  BY <1>3 DEF Proceed, Deleting
<1>4. ASSUME NEW n \in Oldest(managed), NEW b, NEW c, NEW j,
             j = [job EXCEPT !.kept = n, !.todo = managed \ {n}, !.changed = b, !.stale = c],
             Proceed(j, NextCall(j))
      PROVE  /\ \A k \in Names, age \in {0, 1} : Lasts(k, age) => k \notin Deleting'
             /\ Alone => Deleting' = {}
  <2>1. j.todo = managed \ {n}
    BY <1>1, <1>4 DEF Jobs
  <2>2. Deleting' \subseteq managed \ {n}
    BY <1>4, <2>1 DEF Proceed, Deleting
  <2>3. /\ n \in Names /\ Ours(cached[n])
        /\ \A m \in managed : cached[n].created <= cached[m].created
    BY <1>2 DEF Oldest
  <2>4. \A m \in Names : cached[m] \in Versions(m)
    BY DEF Versions
  <2>. HIDE DEF managed
  <2>5. ASSUME NEW k \in Names, NEW age \in {0, 1}, Lasts(k, age), k \in managed
        PROVE  n = k
    <3>1. cached[k].created = age
      BY <2>4, <2>5 DEF Lasts
    <3>2. cached[n].created <= age
      BY <2>3, <2>5, <3>1
    <3>3. cached[n].created \in 0..2
      BY <2>3 DEF Ours, TypeInv, TypeOK, Object
    <3>4. n # k => cached[n].created > age
      BY <2>3, <2>4, <2>5 DEF Lasts
    <3>. QED
      BY <3>2, <3>3, <3>4
  <2>6. Alone => managed \ {n} = {}
    <3> SUFFICES ASSUME Alone PROVE managed \ {n} = {}
      OBVIOUS
    <3>1. ~ Ours(cached[Extra])
      BY <2>4 DEF Alone, Names
    <3>2. managed \subseteq {Own}
      BY <1>2, <3>1 DEF Names
    <3>. QED
      BY <1>2, <2>3, <3>1, <3>2 DEF Names
  <2>. QED
    BY <2>2, <2>5, <2>6
<1>. QED
  BY <1>1, <1>3, <1>4 DEF List

\* What may be written into an object while it is peaceful.
Write(n, o) ==
    \/ ~ Ours(objects[n]) /\ ~ Ours(o)
    \/ objects[n] = NoObject /\ n = Own /\ o.created = 2
    \/ /\ Ours(objects[n]) /\ objects[n].deleting
       /\ Ours(o) => o.created = objects[n].created
    \/ /\ Ours(objects[n]) => Ours(o)
       /\ Ours(o) => /\ Ours(objects[n]) /\ o.created = objects[n].created
                     /\ o.deleting = objects[n].deleting

LEMMA PeacefulWrite ==
    ASSUME ProvisionAssumption, TypeInv, NEW n \in Names, NEW o \in Copy, Put(n, o),
           cached' = cached, Write(n, o), Deleting' \subseteq Deleting
    PROVE  /\ \A k \in Names, age \in {0, 1} : Keeps(k, age) => Keeps(k, age)'
           /\ Sole => Sole'
<1>1. objects[n] \in Versions(n)
  BY DEF Versions
<1>2. Ours(o) => o.created = 2 \/ (Ours(objects[n]) /\ o.created = objects[n].created)
  BY DEF Write
<1>3. ASSUME NEW k \in Names, NEW age \in {0, 1}, Keeps(k, age)
      PROVE  Keeps(k, age)'
  <2>1. n = k => Ours(objects[n]) /\ ~ objects[n].deleting /\ objects[n].created = age
    BY <1>1, <1>3 DEF Keeps, Lasts
  <2>2. n = k => Ours(o) /\ ~ o.deleting /\ o.created = age
    BY <2>1 DEF Write, Ours
  <2>3. Lasts(k, age)'
    BY <1>2, <1>3, <2>2, WriteLasts DEF Keeps
  <2>. QED
    BY <1>3, <2>3 DEF Keeps
<1>4. ASSUME Sole PROVE Sole'
  <2>1. n = Extra /\ Ours(o) => Ours(objects[n])
    BY DEF Write, ProvisionAssumption
  <2>2. Alone'
    BY <1>4, <2>1, WriteAlone DEF Sole
  <2>. QED
    BY <1>4, <2>2 DEF Sole
<1>. QED
  BY <1>3, <1>4

\* Another's write: what Reconcile holds stays the same but for stale.
LEMMA StoreDeleting ==
    ASSUME TypeInv, NEW n, NEW o, Store(n, o)
    PROVE  Put(n, o) /\ cached' = cached /\ Deleting' = Deleting
BY DEF Store, Deleting, TypeInv, TypeOK

\* A duplicate is marked as deleted.
LEMMA DeduplicateKeeps ==
    ASSUME ProvisionAssumption, TypeInv, NEW n \in Names, Deduplicate(n)
    PROVE  /\ \A k \in Names, age \in {0, 1} : Keeps(k, age) => Keeps(k, age)'
           /\ ~ Sole
<1>1. n \in Deleting
  BY DEF Deduplicate, Deleting
<1>2. Deleting' \subseteq Deleting
  <2> DEFINE j == [job EXCEPT !.todo = @ \ {n}]
  <2>1. job \in Jobs /\ pc = "dedupe"
    BY DEF Deduplicate, TypeInv, TypeOK, Jobs
  <2>2. j.todo = job.todo \ {n}
    BY <2>1 DEF Jobs
  <2>3. Retry \/ Proceed(j, NextCall(j))
    BY DEF Deduplicate
  <2>. HIDE DEF j
  <2>. QED
    BY <2>1, <2>2, <2>3 DEF Retry, Proceed, Deleting
<1>3. ASSUME NEW k \in Names, NEW age \in {0, 1}, Keeps(k, age)
      PROVE  Keeps(k, age)'
  <2>1. CASE UNCHANGED <<objects, feed>>
    <3>1. cached' = cached
      BY DEF Deduplicate
    <3>. QED
      BY <1>2, <1>3, <2>1, <3>1, SameVersions, NothingNew
  <2> DEFINE o == [objects[n] EXCEPT !.deleting = TRUE]
  <2>2. CASE objects[n] # NoObject /\ Put(n, o)
    <3>1. objects[n] \in Object
      BY <2>2 DEF TypeInv, TypeOK
    <3>2. /\ o \in Copy
          /\ o # NoObject /\ o.owner = objects[n].owner /\ o.created = objects[n].created
      BY <3>1, MarkedType DEF Copy, Object, ProvisionAssumption
    <3>. HIDE DEF o
    <3>3. n # k
      BY <1>1, <1>3 DEF Keeps
    <3>4. Ours(o) => Ours(objects[n]) /\ o.created = objects[n].created
      BY <2>2, <3>2 DEF Ours
    <3>5. cached' = cached
      BY DEF Deduplicate
    <3>6. Lasts(k, age)'
      BY <1>3, <2>2, <3>2, <3>3, <3>4, <3>5, WriteLasts DEF Keeps
    <3>. QED
      BY <1>2, <1>3, <3>6 DEF Keeps
  <2>. QED
    BY <2>1, <2>2 DEF Deduplicate, Delete
<1>. QED
  BY <1>1, <1>3 DEF Sole

\* An edit of the spec changes nobody's owner, age or fate.
LEMMA EditWrites ==
    ASSUME ProvisionAssumption, TypeInv, NEW n \in Names, objects[n] # NoObject,
           NEW w \in Wanted
    PROVE  LET o == [objects[n] EXCEPT !.spec = w]
           IN  /\ o \in Copy /\ Write(n, o)
               /\ o # NoObject /\ o.owner = objects[n].owner /\ o.deleting = objects[n].deleting
<1>1. objects[n] \in Object
  BY DEF TypeInv, TypeOK
<1> DEFINE o == [objects[n] EXCEPT !.spec = w]
<1>2. o \in Object
  BY <1>1, EditedType
<1>3. /\ o.owner = objects[n].owner /\ o.created = objects[n].created
      /\ o.deleting = objects[n].deleting
  BY <1>1 DEF Object
<1>. HIDE DEF o
<1>4. Ours(o) <=> Ours(objects[n])
  BY <1>2, <1>3 DEF Ours, ProvisionAssumption
<1>5. Write(n, o)
  BY <1>3, <1>4 DEF Write
<1>. QED
  BY <1>2, <1>3, <1>5 DEF Copy, ProvisionAssumption, o

\* The managed object that lasts, or the only one there ever was, outlives every step.
LEMMA NextPeace ==
    ASSUME ProvisionAssumption, TypeInv, StaysOn, Next, peaceful'
    PROVE  /\ \A k \in Names, age \in {0, 1} : Keeps(k, age) => Keeps(k, age)'
           /\ Sole => Sole'
<1> DEFINE Goal == /\ \A k \in Names, age \in {0, 1} : Keeps(k, age) => Keeps(k, age)'
                   /\ Sole => Sole'
<1>1. CASE Delivery \/ Restart
  BY <1>1, DeliveryNothingNew, NothingNew
<1>2. ASSUME UNCHANGED <<objects, feed, cached>>, Deleting' \subseteq Deleting
      PROVE  Goal
  <2>1. \A n \in Names : Versions(n)' \subseteq Versions(n)
    BY <1>2, SameVersions
  <2>. QED
    BY <1>2, <2>1, NothingNew
<1>3. ASSUME NEW n \in Names, NEW o \in Copy, Put(n, o), cached' = cached, Write(n, o),
             Deleting' \subseteq Deleting
      PROVE  Goal
  BY <1>3, PeacefulWrite
<1>4. CASE Begin
  <2>1. Deleting' = {}
    BY <1>4 DEF Begin, Deleting
  <2>. QED
    BY <1>2, <1>4, <2>1 DEF Begin, api, informers
<1>5. CASE List
  <2>1. \A n \in Names : Versions(n)' = Versions(n)
    BY <1>5 DEF List, api, informers, Versions
  <2>. QED
    BY <1>5, <2>1, ListSpares DEF Keeps, Lasts, Sole, Alone, Names
<1>6. ASSUME NEW n \in Names, CleanUp(n)
      PROVE  Goal
  BY <1>6 DEF CleanUp, StaysOn
<1>7. ASSUME NEW n \in Names, Deduplicate(n)
      PROVE  Goal
  BY <1>7, DeduplicateKeeps
<1>8. CASE Create
  <2>1. Deleting' = {} /\ cached' = cached
    BY <1>8 DEF Create, Finish, Retry, Deleting
  <2>2. CASE UNCHANGED <<objects, feed>>
    BY <1>2, <2>1, <2>2
  <2> DEFINE o == [owner |-> job.uid, spec |-> job.desired, created |-> 2,
                   deleting |-> FALSE]
  <2>3. CASE objects[Own] = NoObject /\ Put(Own, o)
    <3>1. o \in Copy /\ Own \in Names
      BY <1>8 DEF Create, TypeInv, TypeOK, JobOK, Copy, Object, Names
    <3>2. Write(Own, o)
      BY <2>3 DEF Write
    <3>. HIDE DEF o
    <3>. QED
      BY <1>3, <2>1, <2>3, <3>1, <3>2
  <2>. QED
    BY <1>8, <2>2, <2>3 DEF Create
<1>9. CASE Update
  <2>1. Deleting' = {} /\ cached' = cached
    BY <1>9 DEF Update, Finish, Retry, Deleting
  <2>2. CASE UNCHANGED <<objects, feed>>
    BY <1>2, <2>1, <2>2
  <2> DEFINE o == [objects[job.kept] EXCEPT !.spec = job.desired]
  <2>3. CASE objects[job.kept] # NoObject /\ Put(job.kept, o)
    <3>1. job.kept \in Names /\ job.desired \in Wanted
      BY <1>9 DEF Update, TypeInv, TypeOK, JobOK
    <3>2. o \in Copy /\ Write(job.kept, o)
      BY <2>3, <3>1, EditWrites
    <3>. HIDE DEF o
    <3>. QED
      BY <1>3, <2>1, <2>3, <3>1, <3>2
  <2>. QED
    BY <1>9, <2>2, <2>3 DEF Update, Rejected
<1>10. CASE CallFails
  <2>1. Deleting' = {}
    BY <1>10 DEF CallFails, Retry, Deleting
  <2>. QED
    BY <1>2, <1>10, <2>1 DEF CallFails, api, informers
<1>11. ASSUME NEW n \in Names, NEW o \in Copy, Store(n, o), Write(n, o)
       PROVE  Goal
  BY <1>3, <1>11, StoreDeleting
<1>12. ASSUME NEW n \in Names, Finalize(n)
       PROVE  Goal
  <2>1. NoObject \in Copy /\ Write(n, NoObject)
    BY <1>12 DEF Finalize, Copy, Write, Ours
  <2>. QED
    BY <1>11, <1>12, <2>1 DEF Finalize
<1>13. ASSUME NEW n \in Names, Collect(n)
       PROVE  Goal
  <2> DEFINE o == [objects[n] EXCEPT !.deleting = TRUE]
  <2>1. objects[n] \in Object /\ objects[n].owner # 1
    BY <1>13 DEF Collect, StaysOn, IsOn, TypeInv, TypeOK
  <2>2. o \in Copy /\ o.owner = objects[n].owner
    BY <2>1, MarkedType DEF Copy, Object
  <2>. HIDE DEF o
  <2>3. Write(n, o)
    BY <2>1, <2>2 DEF Write, Ours
  <2>4. Store(n, o)
    BY <1>13 DEF Collect, o
  <2>. QED
    BY <1>11, <2>2, <2>3, <2>4
<1>14. ASSUME NEW c \in NodeCounts, ReportNodes(c)
       PROVE  Goal
  BY <1>2, <1>14 DEF ReportNodes, informers, worker, Deleting
<1>15. CASE User
  <2>1. ASSUME NEW d \in Declarations, Declare(d) \/ CreateSet(d)
        PROVE  Goal
    BY <1>2, <2>1 DEF Declare, CreateSet, Edit, worker, Deleting
  <2>2. CASE RemoveSet \/ Park
    BY <1>2, <2>2 DEF RemoveSet, Park, Edit, informers, worker, Deleting
  <2>3. ASSUME NEW n \in Names, RemoveObject(n)
        PROVE  Goal
    BY <2>3 DEF RemoveObject
  <2>4. ASSUME NEW n \in Names, NEW w \in Specs, CreateObject(n, w)
        PROVE  Goal
    <3> DEFINE o == [owner |-> ByHand, spec |-> w, created |-> 2, deleting |-> FALSE]
    <3>1. o \in Copy
      BY DEF Copy, Object, ProvisionAssumption
    <3>2. ~ Ours(o) /\ ~ Ours(objects[n])
      BY <2>4 DEF CreateObject, Ours, ProvisionAssumption
    <3>3. Store(n, o)
      BY <2>4 DEF CreateObject
    <3>. HIDE DEF o
    <3>. QED
      BY <1>11, <3>1, <3>2, <3>3 DEF Write
  <2>5. ASSUME NEW n \in Names, NEW w \in Specs, EditObject(n, w)
        PROVE  Goal
    <3> DEFINE o == [objects[n] EXCEPT !.spec = w]
    <3>1. w \in Wanted /\ objects[n] # NoObject /\ Store(n, o)
      BY <2>5 DEF EditObject, ProvisionAssumption
    <3>2. o \in Copy /\ Write(n, o)
      BY <3>1, EditWrites
    <3>. HIDE DEF o
    <3>. QED
      BY <1>11, <3>1, <3>2
  <2>. QED
    BY <1>15, <2>1, <2>2, <2>3, <2>4, <2>5 DEF User
<1>. QED
  BY <1>1, <1>4, <1>5, <1>6, <1>7, <1>8, <1>9, <1>10, <1>12, <1>13, <1>14, <1>15
     DEF Next, Reconcile, Cluster

\* Among two objects of different ages one is older; a single one lasts as well.
LEMMA InitPeace ==
    ASSUME ProvisionAssumption, TypeInv, Init
    PROVE  PeaceInv
<1> SUFFICES ASSUME peaceful PROVE PeaceInv
  BY DEF PeaceInv
<1>1. StaysOn
  <2>1. set.uid = 1 /\ set.says.auto /\ set \in SomeSet /\ set # NoSet
    BY DEF Init, SomeSet, TypeInv, TypeOK, ProvisionAssumption
  <2>2. IsOn(set)
    BY <2>1 DEF IsOn
  <2>3. seen = set /\ Len(news) = 0 /\ pc = "idle"
    BY DEF Init
  <2>. QED
    BY <2>2, <2>3 DEF StaysOn, IsOn
<1>2. \A n \in Names : Versions(n) = {objects[n]}
  <2> TAKE n \in Names
  <2>1. Len(feed[n]) = 0 /\ cached[n] = objects[n]
    BY DEF Init
  <2>. QED
    BY <2>1 DEF Versions
<1>3. \A n \in Names : Ours(objects[n]) => objects[n].created \in {0, 1}
                                           /\ objects[n].deleting = FALSE
  BY DEF Init, FirstObject, Ours
<1>4. Deleting = {}
  BY DEF Init, Deleting
<1>5. Ours(objects[Own]) /\ Ours(objects[Extra]) =>
          objects[Own].created # objects[Extra].created
  <2>1. Managed = {n \in Names : Ours(objects[n])}
    BY <1>1 DEF Managed, ManagedIn, StaysOn, IsOn, Ours
  <2>2. AgesDiffer
    BY DEF Init
  <2>. QED
    BY <2>1, <2>2 DEF AgesDiffer, Names, ProvisionAssumption
<1>6. CASE ~ Ours(objects[Extra])
  BY <1>1, <1>2, <1>4, <1>6 DEF PeaceInv, Sole, Alone, Names
<1>7. ASSUME NEW k \in Names, Ours(objects[k]),
             \A n \in Names \ {k} : Ours(objects[n]) =>
                 objects[n].created > objects[k].created
      PROVE  PeaceInv
  <2>1. Keeps(k, objects[k].created)
    BY <1>2, <1>3, <1>4, <1>7 DEF Keeps, Lasts
  <2>2. objects[k].created \in {0, 1}
    BY <1>3, <1>7
  <2>. QED
    BY <1>1, <2>1, <2>2 DEF PeaceInv
<1>8. CASE Ours(objects[Extra]) /\ ~ Ours(objects[Own])
  BY <1>7, <1>8 DEF Names
<1>9. CASE Ours(objects[Extra]) /\ Ours(objects[Own])
  <2>1. \/ objects[Own].created < objects[Extra].created
        \/ objects[Extra].created < objects[Own].created
    BY <1>3, <1>5, <1>9 DEF Names
  <2>. QED
    BY <1>7, <1>9, <2>1 DEF Names
<1>. QED
  BY <1>6, <1>8, <1>9

LEMMA NextPeaceInv ==
    ASSUME ProvisionAssumption, TypeInv, PeaceInv, [Next]_vars
    PROVE  PeaceInv'
<1>1. CASE Next
  <2> SUFFICES ASSUME peaceful' PROVE PeaceInv'
    BY DEF PeaceInv
  <2>1. StaysOn /\ (Sole \/ \E k \in Names, age \in {0, 1} : Keeps(k, age))
    BY <1>1, PeaceOnce DEF PeaceInv
  <2>2. StaysOn'
    BY <1>1, <2>1, NextStaysOn
  <2>3. Sole' \/ \E k \in Names, age \in {0, 1} : Keeps(k, age)'
    BY <1>1, <2>1, NextPeace
  <2>. QED
    BY <2>2, <2>3 DEF PeaceInv
<1>2. CASE UNCHANGED vars
  <2>1. \A n \in Names : Versions(n)' = Versions(n)
    BY <1>2 DEF vars, api, informers, Versions
  <2>2. Deleting' = Deleting /\ (StaysOn => StaysOn') /\ peaceful' = peaceful
    BY <1>2 DEF vars, api, informers, worker, Deleting, StaysOn, IsOn
  <2>. QED
    BY <2>1, <2>2 DEF PeaceInv, Keeps, Lasts, Sole, Alone, Names
<1>. QED
  BY <1>1, <1>2

LEMMA PeaceInvariant == Spec => [](TypeInv /\ PeaceInv)
<1>1. Init => TypeInv /\ PeaceInv
  BY InitType, InitPeace, ProvisionAssumption DEF TypeInv
<1>2. TypeInv /\ PeaceInv /\ [Next]_vars => PeaceInv'
  BY NextPeaceInv, ProvisionAssumption
<1>. QED
  BY <1>1, <1>2, TypeInvariant, PTL DEF Spec

\* With nothing to deduplicate no managed object stops scaling.
LEMMA SoleStep ==
    ASSUME ProvisionAssumption, TypeInv, StaysOn, Sole, Next, peaceful',
           NEW n \in Names, Ours(objects[n]), Scaling(n, objects)
    PROVE  Scaling(n, objects')
<1>1. objects \in [Names -> Copy]
  BY DEF TypeInv, TypeOK, Copy
<1>2. CASE UNCHANGED objects
  BY <1>2 DEF Scaling
<1>3. ASSUME NEW m \in Names, NEW o, Put(m, o),
             m = n => o # NoObject /\ o.deleting = objects[m].deleting
      PROVE  Scaling(n, objects')
  BY <1>1, <1>3 DEF Put, Scaling
<1>4. CASE Delivery
  BY <1>2, <1>4 DEF Delivery, DeliverSet, DeliverObject, api
<1>5. CASE Reconcile
  <2>1. CASE Begin \/ List
    BY <1>2, <2>1 DEF Begin, List, api
  <2>2. ASSUME NEW m \in Names, CleanUp(m) \/ Deduplicate(m)
        PROVE  Scaling(n, objects')
    BY <2>2, DeduplicateKeeps DEF CleanUp, StaysOn
  <2>3. CASE Create
    <3>1. UNCHANGED objects \/ \E o : Put(Own, o) /\ n # Own
      BY <2>3 DEF Create, Ours
    <3>. QED
      BY <1>2, <1>3, <3>1 DEF Names
  <2>4. CASE Update
    <3>1. job.kept \in Names /\ job.desired \in Wanted
      BY <2>4 DEF Update, TypeInv, TypeOK, JobOK
    <3>. QED
      BY <1>2, <1>3, <2>4, <3>1, EditWrites DEF Update, Rejected
  <2>. QED
    BY <1>5, <2>1, <2>2, <2>3, <2>4 DEF Reconcile
<1>6. CASE CallFails \/ Restart
  BY <1>2, <1>6 DEF CallFails, Restart, api
<1>7. CASE Cluster
  <2>1. ASSUME NEW m \in Names, Finalize(m)
        PROVE  Scaling(n, objects')
    <3>1. m # n /\ Put(m, NoObject)
      BY <2>1 DEF Finalize, Store, Scaling
    <3>. QED
      BY <1>3, <3>1
  <2>2. ASSUME NEW m \in Names, Collect(m)
        PROVE  Scaling(n, objects')
    <3>1. m # n /\ \E o : Put(m, o)
      BY <2>2 DEF Collect, Store, Ours, StaysOn, IsOn
    <3>. QED
      BY <1>3, <3>1
  <2>3. ASSUME NEW c \in NodeCounts, ReportNodes(c)
        PROVE  Scaling(n, objects')
    BY <1>2, <2>3 DEF ReportNodes
  <2>. QED
    BY <1>7, <2>1, <2>2, <2>3 DEF Cluster
<1>8. CASE User
  <2>1. ASSUME NEW d \in Declarations, Declare(d) \/ CreateSet(d)
        PROVE  Scaling(n, objects')
    BY <1>2, <2>1 DEF Declare, CreateSet, Edit
  <2>2. CASE RemoveSet \/ Park
    BY <1>2, <2>2 DEF RemoveSet, Park, Edit
  <2>3. ASSUME NEW m \in Names, RemoveObject(m)
        PROVE  Scaling(n, objects')
    BY <2>3 DEF RemoveObject
  <2>4. ASSUME NEW m \in Names, NEW w \in Specs, CreateObject(m, w)
        PROVE  Scaling(n, objects')
    <3>1. m # n /\ \E o : Put(m, o)
      BY <2>4 DEF CreateObject, Store, Ours
    <3>. QED
      BY <1>3, <3>1
  <2>5. ASSUME NEW m \in Names, NEW w \in Specs, EditObject(m, w)
        PROVE  Scaling(n, objects')
    <3>1. w \in Wanted
      BY DEF ProvisionAssumption
    <3>. QED
      BY <1>3, <2>5, <3>1, EditWrites DEF EditObject, Store
  <2>. QED
    BY <1>8, <2>1, <2>2, <2>3, <2>4, <2>5 DEF User
<1>. QED
  BY <1>4, <1>5, <1>6, <1>7, <1>8 DEF Next

LEMMA NextLast ==
    ASSUME ProvisionAssumption, TypeInv, PeaceInv, Next
    PROVE  LastStep
<1> SUFFICES ASSUME peaceful', NEW n \in Managed, Scaling(n, objects),
                    ~ Scaling(n, objects')
             PROVE  \E m \in Managed : Scaling(m, objects')
  BY DEF LastStep
<1>1. StaysOn /\ (Sole \/ \E k \in Names, age \in {0, 1} : Keeps(k, age))
  BY PeaceOnce DEF PeaceInv
<1>2. Managed = {m \in Names : Ours(objects[m])}
  BY <1>1 DEF Managed, ManagedIn, StaysOn, IsOn, Ours
<1>3. ~ Sole
  BY <1>1, <1>2, SoleStep
<1>4. PICK k \in Names, age \in {0, 1} : Keeps(k, age)
  BY <1>1, <1>3
<1>5. Keeps(k, age)'
  BY <1>1, <1>4, NextPeace
<1>6. objects[k] \in Versions(k) /\ objects'[k] \in Versions(k)'
  BY DEF Versions
<1>7. Ours(objects[k]) /\ Ours(objects'[k]) /\ ~ objects'[k].deleting
  BY <1>4, <1>5, <1>6 DEF Keeps, Lasts
<1>. QED
  BY <1>2, <1>7 DEF Scaling, Ours

\* While the InferenceSet stays switched on and nobody else deletes a ScaledObject,
\* Reconcile never takes the last managed object that scales it, however old the lists
\* it decides on: syncDesired and cleanupManagedScaledObjects delete only what has an
\* older managed sibling (auto_provision_controller.go 225-265).
THEOREM LastKept == Spec => LastIsKept
<1>1. TypeInv /\ PeaceInv /\ [Next]_vars => [LastStep]_vars
  BY NextLast, ProvisionAssumption
<1>. QED
  BY <1>1, PeaceInvariant, PTL DEF Spec, LastIsKept
===============================================================================
