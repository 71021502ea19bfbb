------------------------------ MODULE TargetTable ------------------------------
(***************************************************************************)
(* What the metric cache promises the gRPC handlers that query it          *)
(* (pkg/scaler/metric_cache.go), without its goroutines, locks, histories  *)
(* and API reads: a table of targets in which each query renews its target *)
(* and is answered from a recent snapshot or refused.  MetricCache         *)
(* implements it.                                                          *)
(***************************************************************************)
EXTENDS Integers

CONSTANTS Keys, Handlers, Windows, StaleAfter, TTL, Delay

VARIABLES
    now,
    store,      \* what is kept of each tracked target
    asks,       \* the target of each handler's call
    kind,       \* the kind of answer the call has got so far
    deleted     \* the targets whose InferenceSet was ever deleted

vars == <<now, store, asks, kind, deleted>>

Tracked == DOMAIN store

\* latest holds the time of the snapshot that queries are answered from.
Fresh(k) == k \in Tracked /\ \E t \in store[k].latest : now - t <= StaleAfter

Abandoned(k) == /\ now - store[k].lastAccess > TTL
                /\ now - store[k].lastAccess > store[k].window

Init ==
    /\ now = 0
    /\ store = [k \in {} |-> {}]
    /\ \E k \in Keys : asks = [h \in Handlers |-> k]
    /\ kind = [h \in Handlers |-> "none"]
    /\ deleted = {}

Advance ==
    /\ now' = now + 1
    /\ UNCHANGED <<store, asks, kind, deleted>>

Ask(h, k, w) ==
    /\ asks' = [asks EXCEPT ![h] = k]
    /\ kind' = [kind EXCEPT ![h] = "none"]
    /\ store' = [x \in Tracked \cup {k} |->
           IF x # k THEN store[x]
           ELSE IF k \notin Tracked
           THEN [window |-> w, lastAccess |-> now, latest |-> {}]
           ELSE [window |-> IF store[k].window >= w THEN store[k].window ELSE w,
                 lastAccess |-> now, latest |-> store[k].latest]]
    /\ UNCHANGED <<now, deleted>>

Renewed(k) ==
    /\ k \in Tracked
    /\ store' = [store EXCEPT ![k].lastAccess = now]

\* A value, or that its history is too short, is only told from a recent snapshot.
Serve(h, how) ==
    /\ Fresh(asks[h])
    /\ kind' = [kind EXCEPT ![h] = how]
    /\ store' = store \/ Renewed(asks[h])
    /\ UNCHANGED <<now, asks, deleted>>

Refuse(h) ==
    /\ ~ Fresh(asks[h])
    /\ kind' = [kind EXCEPT ![h] = "unavailable"]
    /\ store' = store \/ Renewed(asks[h])
    /\ UNCHANGED <<now, asks, deleted>>

\* A tracked target gets a snapshot taken at most Delay ago.
Learn(k, t) ==
    /\ k \in Tracked
    /\ now - Delay <= t
    /\ store' = [store EXCEPT ![k].latest = {t}]
    /\ UNCHANGED <<now, asks, kind, deleted>>

Forget(K) ==
    /\ \A k \in K : Abandoned(k) \/ k \in deleted
    /\ store' = [k \in Tracked \ K |-> store[k]]
    /\ UNCHANGED <<now, asks, kind, deleted>>

Delete(K) ==
    /\ deleted' = deleted \cup K
    /\ UNCHANGED <<now, store, asks, kind>>

Next ==
    \/ Advance
    \/ \E h \in Handlers :
          \/ \E k \in Keys, w \in Windows : Ask(h, k, w)
          \/ \E how \in {"snapshot", "warming", "average"} : Serve(h, how)
          \/ Refuse(h)
    \/ \E k \in Keys : \E t \in 0..now : Learn(k, t)
    \/ \E K \in SUBSET Tracked : Forget(K)
    \/ \E K \in SUBSET Keys : Delete(K)

Spec == Init /\ [][Next]_vars
===============================================================================
