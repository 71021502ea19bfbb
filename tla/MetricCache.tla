------------------------------ MODULE MetricCache ------------------------------
(***************************************************************************)
(* The scaler's metric cache, pkg/scaler/metric_cache.go, under            *)
(* concurrency: gRPC handlers that serve KEDA (Current, then Aggregate for *)
(* a windowed average) and the background poller share one map of entries. *)
(* The mutex is held for the length of an action, never between two: every *)
(* action is one locked section, or one call made with the lock released   *)
(* (the API read, the scrape, the reading of the clock before an append).  *)
(*                                                                         *)
(* A snapshot is the time it is stamped with; its contents are the         *)
(* business of the aggregations.                                           *)
(***************************************************************************)
EXTENDS MetricWindow

CONSTANTS
    Keys,           \* scrape targets (entryKey: InferenceSet, endpoint, source)
    InferenceSets,
    InferenceSetOf, \* [Keys -> InferenceSets]
    Handlers,       \* gRPC calls in flight
    Poller,         \* the goroutine of Start
    Windows,        \* cache windows triggers ask for
    TTL,            \* MetricCache.ttl
    NoEntry,
    AppendDelay,    \* bound: clock units between reading the clock and the lock
    MaxTime,        \* bound on the clock
    MaxScrapes,     \* bound on the successful scrapes
    MaxDeletes      \* bound on the deletions of an InferenceSet

Processes == Handlers \cup {Poller}

Entry == [window : Nat, lastAccess : Nat, samples : Seq(Nat)]

ASSUME CacheAssumption ==
    /\ InferenceSetOf \in [Keys -> InferenceSets]
    /\ Poller \notin Handlers
    /\ Windows \subseteq Nat \ {0}
    /\ TTL \in Nat
    /\ NoEntry \notin Entry
    /\ AppendDelay \in Nat
    /\ MaxTime \in Nat
    /\ MaxScrapes \in Nat
    /\ MaxDeletes \in Nat

VARIABLES
    now,        \* the injected clock
    alive,      \* the InferenceSets the API server knows
    deletions,  \* how often each of them was deleted so far
    entries,    \* MetricCache.entries
    pc,         \* where each process is
    target,     \* the key each process works on
    wanted,     \* the window each handler's trigger asks for
    stamp,      \* the time read before the append, while it is in flight
    scrapes,    \* successful scrapes so far
    queue,      \* the keys the poller collected and has not refreshed yet
    answer      \* what each handler's last call returned, and over which span

vars == <<now, alive, deletions, entries, pc, target, wanted, stamp, scrapes,
          queue, answer>>

NoAnswer == [kind |-> "none", span |-> 0]

Tracked == {k \in Keys : entries[k] # NoEntry}

Larger(a, b) == IF a >= b THEN a ELSE b

Init ==
    /\ now = 0
    /\ alive = InferenceSets
    /\ deletions = [s \in InferenceSets |-> 0]
    /\ entries = [k \in Keys |-> NoEntry]
    /\ pc = [p \in Processes |-> "idle"]
    /\ target \in {[p \in Processes |-> k] : k \in Keys}
    /\ wanted \in {[h \in Handlers |-> w] : w \in Windows}
    /\ stamp = [p \in Processes |-> 0]
    /\ scrapes = 0
    /\ queue = {}
    /\ answer = [h \in Handlers |-> NoAnswer]

-----------------------------------------------------------------------------
(* A query: Current's ensure, the seed of a new entry, the read, Aggregate. *)

\* Faulty: the access is dated back to the start of the window.
TouchedAtWindowStart(e, w) ==
    [e EXCEPT !.window = Larger(@, w), !.lastAccess = now - w]

Touched(e, w) == [e EXCEPT !.window = Larger(@, w), !.lastAccess = now]

\* ensure, locked: register the target or renew it.
Ensure(h, k, w) ==
    /\ pc[h] = "idle"
    /\ target' = [target EXCEPT ![h] = k]
    /\ wanted' = [wanted EXCEPT ![h] = w]
    /\ answer' = [answer EXCEPT ![h] = NoAnswer]
    /\ \/ /\ entries[k] = NoEntry
          /\ entries' = [entries EXCEPT ![k] =
                 [window |-> w, lastAccess |-> now, samples |-> << >>]]
          /\ pc' = [pc EXCEPT ![h] = "lookup"]
       \/ /\ entries[k] # NoEntry
          /\ entries' = [entries EXCEPT ![k] = Touched(@, w)]
          /\ pc' = [pc EXCEPT ![h] = "read"]
    /\ UNCHANGED <<now, alive, deletions, stamp, scrapes, queue>>

\* Faulty: the age of the newest snapshot is not looked at.
FreshHoweverOld(e) == e # NoEntry /\ e.samples # << >>

Fresh(e) ==
    /\ e # NoEntry
    /\ e.samples # << >>
    /\ now - Newest(e.samples) <= StaleAfter

Reply(h, kind, span) ==
    answer' = [answer EXCEPT ![h] = [kind |-> kind, span |-> span]]

\* Current after ensure, locked.  A windowed average goes on to Aggregate.
Current(h) ==
    LET e == entries[target[h]]
    IN  /\ pc[h] = "read"
        /\ \/ /\ ~ Fresh(e)
              /\ Reply(h, "unavailable", 0)
              /\ pc' = [pc EXCEPT ![h] = "idle"]
           \/ /\ e # NoEntry
              /\ Fresh(e)
              /\ Reply(h, "snapshot", 0)
              /\ \E next \in {"idle", "aggregate"} : pc' = [pc EXCEPT ![h] = next]
        /\ UNCHANGED <<now, alive, deletions, entries, target, wanted, stamp,
                       scrapes, queue>>

\* Aggregate, locked: the entry may be gone, renewed or re-created since Current.
Aggregate(h) ==
    LET k == target[h]
        e == entries[k]
        w == wanted[h]
    IN  /\ pc[h] = "aggregate"
        /\ pc' = [pc EXCEPT ![h] = "idle"]
        /\ entries' = IF e = NoEntry THEN entries
                      ELSE [entries EXCEPT ![k].lastAccess = now]
        /\ \/ /\ ~ Fresh(e)
              /\ Reply(h, "unavailable", 0)
           \/ /\ Fresh(e)
              /\ ~ WindowCovered(e.samples, w)
              /\ Reply(h, "warming", 0)
           \/ /\ Fresh(e)
              /\ WindowCovered(e.samples, w)
              /\ Reply(h, "average", Newest(e.samples) - WindowBaseline(e.samples, w))
        /\ UNCHANGED <<now, alive, deletions, target, wanted, stamp, scrapes,
                       queue>>

-----------------------------------------------------------------------------
(* refresh, run by a handler for the seed and by the poller for every key. *)

Returned(p) == IF p = Poller THEN "poll" ELSE "read"

\* The first locked section: a target evicted meanwhile is left alone.
RefreshLookup(p) ==
    /\ pc[p] = "lookup"
    /\ pc' = [pc EXCEPT ![p] =
           IF entries[target[p]] = NoEntry THEN Returned(p) ELSE "get"]
    /\ UNCHANGED <<now, alive, deletions, entries, target, wanted, stamp,
                   scrapes, queue, answer>>

\* Faulty: NotFound is handled like any other error of the API read.
GetInferenceSetKeeps(p) ==
    /\ pc[p] = "get"
    /\ pc' = [pc EXCEPT ![p] =
           IF InferenceSetOf[target[p]] \in alive THEN "scrape" ELSE Returned(p)]
    /\ UNCHANGED <<now, alive, deletions, entries, target, wanted, stamp,
                   scrapes, queue, answer>>

\* kubeClient.Get answers: found, or NotFound.
GetInferenceSet(p) ==
    /\ pc[p] = "get"
    /\ pc' = [pc EXCEPT ![p] =
           IF InferenceSetOf[target[p]] \in alive THEN "scrape" ELSE "evict"]
    /\ UNCHANGED <<now, alive, deletions, entries, target, wanted, stamp,
                   scrapes, queue, answer>>

\* kubeClient.Get fails with another error, the source is unknown, or
\* source.Scrape fails.
RefreshFails(p) ==
    /\ pc[p] \in {"get", "scrape"}
    /\ pc' = [pc EXCEPT ![p] = Returned(p)]
    /\ UNCHANGED <<now, alive, deletions, entries, target, wanted, stamp,
                   scrapes, queue, answer>>

Evict(p) ==
    /\ pc[p] = "evict"
    /\ entries' = [entries EXCEPT ![target[p]] = NoEntry]
    /\ pc' = [pc EXCEPT ![p] = Returned(p)]
    /\ UNCHANGED <<now, alive, deletions, target, wanted, stamp, scrapes, queue,
                   answer>>

\* source.Scrape succeeds and the clock is read, before the lock is taken.
Scrape(p) ==
    /\ pc[p] = "scrape"
    /\ scrapes < MaxScrapes
    /\ scrapes' = scrapes + 1
    /\ stamp' = [stamp EXCEPT ![p] = now]
    /\ pc' = [pc EXCEPT ![p] = "append"]
    /\ UNCHANGED <<now, alive, deletions, entries, target, wanted, queue, answer>>

\* Faulty: the newest snapshot is put first.
AppendedFirst(e, t) ==
    IF e = NoEntry THEN NoEntry
    ELSE [e EXCEPT !.samples = PruneSamples(<<t>> \o @, t, e.window)]

\* Faulty: the entry is not looked up again and a removed one is stored back.
AppendedToRemoved(e, t) ==
    IF e = NoEntry THEN [window |-> 0, lastAccess |-> t, samples |-> <<t>>]
    ELSE [e EXCEPT !.samples = PruneSamples(Append(@, t), t, e.window)]

\* The second locked section: append and prune, if the target is still there.
Appended(e, t) ==
    IF e = NoEntry THEN NoEntry
    ELSE [e EXCEPT !.samples = PruneSamples(Append(@, t), t, e.window)]

AppendSample(p) ==
    /\ pc[p] = "append"
    /\ entries' = [entries EXCEPT ![target[p]] = Appended(@, stamp[p])]
    /\ stamp' = [stamp EXCEPT ![p] = 0]
    /\ pc' = [pc EXCEPT ![p] = Returned(p)]
    /\ UNCHANGED <<now, alive, deletions, target, wanted, scrapes, queue, answer>>

-----------------------------------------------------------------------------
(* poll: evict the idle targets, then refresh the others one by one.       *)

\* Faulty: only the TTL counts.
IdleForTTL(e) == now - e.lastAccess > TTL

Idle(e) == now - e.lastAccess > Larger(TTL, e.window)

\* Faulty: idle targets are skipped, not removed.
StartPollSkipping ==
    /\ pc[Poller] = "idle"
    /\ queue' = {k \in Tracked : ~ Idle(entries[k])}
    /\ pc' = [pc EXCEPT ![Poller] = "poll"]
    /\ UNCHANGED <<now, alive, deletions, entries, target, wanted, stamp,
                   scrapes, answer>>

StartPoll ==
    LET idle == {k \in Tracked : Idle(entries[k])}
    IN  /\ pc[Poller] = "idle"
        /\ entries' = [k \in Keys |-> IF k \in idle THEN NoEntry ELSE entries[k]]
        /\ queue' = Tracked \ idle
        /\ pc' = [pc EXCEPT ![Poller] = "poll"]
        /\ UNCHANGED <<now, alive, deletions, target, wanted, stamp, scrapes,
                       answer>>

NextKey(k) ==
    /\ pc[Poller] = "poll"
    /\ k \in queue
    /\ queue' = queue \ {k}
    /\ target' = [target EXCEPT ![Poller] = k]
    /\ pc' = [pc EXCEPT ![Poller] = "lookup"]
    /\ UNCHANGED <<now, alive, deletions, entries, wanted, stamp, scrapes, answer>>

EndPoll ==
    /\ pc[Poller] = "poll"
    /\ queue = {}
    /\ pc' = [pc EXCEPT ![Poller] = "idle"]
    /\ UNCHANGED <<now, alive, deletions, entries, target, wanted, stamp,
                   scrapes, queue, answer>>

-----------------------------------------------------------------------------
(* The environment: the clock, and the owners of the InferenceSets.        *)

\* A goroutine is never descheduled for more than AppendDelay between reading
\* the clock and taking the lock.
Tick ==
    /\ now < MaxTime
    /\ \A p \in Processes : pc[p] = "append" => now + 1 <= stamp[p] + AppendDelay
    /\ now' = now + 1
    /\ UNCHANGED <<alive, deletions, entries, pc, target, wanted, stamp, scrapes,
                   queue, answer>>

DeleteInferenceSet(s) ==
    /\ s \in alive
    /\ deletions[s] < MaxDeletes
    /\ alive' = alive \ {s}
    /\ deletions' = [deletions EXCEPT ![s] = @ + 1]
    /\ UNCHANGED <<now, entries, pc, target, wanted, stamp, scrapes, queue, answer>>

CreateInferenceSet(s) ==
    /\ s \notin alive
    /\ alive' = alive \cup {s}
    /\ UNCHANGED <<now, deletions, entries, pc, target, wanted, stamp, scrapes,
                   queue, answer>>

Refresh(p) ==
    \/ RefreshLookup(p)
    \/ GetInferenceSet(p)
    \/ RefreshFails(p)
    \/ Evict(p)
    \/ Scrape(p)
    \/ AppendSample(p)

Handler(h) ==
    \/ \E k \in Keys, w \in Windows : Ensure(h, k, w)
    \/ Current(h)
    \/ Aggregate(h)
    \/ Refresh(h)

PollLoop ==
    \/ StartPoll
    \/ \E k \in Keys : NextKey(k)
    \/ EndPoll
    \/ Refresh(Poller)

Environment ==
    \/ Tick
    \/ \E s \in InferenceSets : DeleteInferenceSet(s) \/ CreateInferenceSet(s)

Next ==
    \/ \E h \in Handlers : Handler(h)
    \/ PollLoop
    \/ Environment

Spec == Init /\ [][Next]_vars

(* The poller is a goroutine of its own and is scheduled; its API read of a *)
(* key that it keeps retrying does not fail for ever.                       *)
PollFairness ==
    /\ WF_vars(PollLoop)
    /\ \A k \in Keys : SF_vars(target[Poller] = k /\ GetInferenceSet(Poller))

FairSpec == Spec /\ PollFairness

-----------------------------------------------------------------------------
(* Properties                                                              *)

AnswerKinds == {"none", "unavailable", "snapshot", "warming", "average"}

\* Every variable has its type (MetricCache and cacheEntry).
TypeOK ==
    /\ now \in Nat
    /\ alive \subseteq InferenceSets
    /\ deletions \in [InferenceSets -> Nat]
    /\ entries \in [Keys -> Entry \cup {NoEntry}]
    /\ pc \in [Processes -> {"idle", "poll", "lookup", "get", "scrape", "append",
                             "evict", "read", "aggregate"}]
    /\ target \in [Processes -> Keys]
    /\ wanted \in [Handlers -> Windows]
    /\ stamp \in [Processes -> Nat]
    /\ scrapes \in Nat
    /\ queue \subseteq Keys
    /\ answer \in [Handlers -> [kind : AnswerKinds, span : Int]]

NearlyOrdered(s) == \A i, j \in 1..Len(s) : i < j => s[i] <= s[j] + AppendDelay

\* Whatever the interleaving of seed and poll scrapes, a later snapshot of a
\* target is never older than an earlier one by more than the delay between
\* refresh's clock reading and its lock: the newest snapshot served, taken for
\* the last of the slice, is at most that much behind the real newest.
SamplesNearlyOrdered == \A k \in Tracked : NearlyOrdered(entries[k].samples)

\* A windowed average is measured over at least the covered share of its window
\* and never stretches further than staleAfter beyond it, even when handlers and
\* poller appended out of order or another trigger widened the shared entry.
AverageSpansItsWindow ==
    \A h \in Handlers : answer[h].kind = "average" =>
        /\ answer[h].span >= (wanted[h] * 4) \div 5
        /\ answer[h].span <= wanted[h] + StaleAfter

\* Nobody queried the target for longer than the TTL and than its window.
Abandoned(e) == now - e.lastAccess > TTL /\ now - e.lastAccess > e.window

KeptStep ==
    \A k \in Tracked :
        entries'[k] = NoEntry =>
            Abandoned(entries[k]) \/ deletions[InferenceSetOf[k]] > 0

\* While its InferenceSet is never deleted, a target loses its history only
\* after nobody queried it for longer than the TTL and than its own window:
\* neither a failing API read or scrape nor a poll that overlaps a query drops it.
KeptWhileInUse == [][KeptStep]_vars

RegisterStep ==
    \A k \in Keys \ Tracked :
        entries'[k] # NoEntry =>
            /\ entries'[k].samples = << >>
            /\ \E h \in Handlers : pc[h] = "idle" /\ target'[h] = k

\* Only a query brings a target into being, and it starts without history: a
\* refresh that outlives the eviction of its target does not resurrect it.
OnlyQueriesRegister == [][RegisterStep]_vars

\* Once an InferenceSet is gone for good its targets are evicted, again and again
\* however often handlers keep registering them.
DeletedIsForgotten ==
    \A k \in Keys : <>[](InferenceSetOf[k] \notin alive) =>
                        []<>(entries[k] = NoEntry)

\* A target nobody queries any more does not stay in the map, even when its
\* InferenceSet lives on and its scrapes succeed.
AbandonedIsForgotten ==
    \A k \in Keys : (k \in Tracked /\ Abandoned(entries[k])) ~>
                        ~ (k \in Tracked /\ Abandoned(entries[k]))

Latest(ats) == IF ats = << >> THEN {} ELSE {Newest(ats)}

Kept(e) == [window |-> e.window, lastAccess |-> e.lastAccess,
            latest |-> Latest(e.samples)]

Table == INSTANCE TargetTable
    WITH Delay <- AppendDelay,
         store <- [k \in Tracked |-> Kept(entries[k])],
         asks <- [h \in Handlers |-> target[h]],
         kind <- [h \in Handlers |-> answer[h].kind],
         deleted <- {k \in Keys : deletions[InferenceSetOf[k]] > 0}

\* Handlers and poller, with their locks released between the steps of a query,
\* together behave as one table that answers each query in a single step: never
\* from a snapshot older than staleAfter, never dropping a target that is in use,
\* never bringing one back that no query asked for.
ImplementsTargetTable == Table!Spec
===============================================================================
