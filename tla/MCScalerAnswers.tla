---------------------------- MODULE MCScalerAnswers ----------------------------
(* Two workspaces; snapshots that are empty, failed, idle, busy or partial. *)
EXTENDS ScalerAnswers, TLC

CONSTANTS a, b

TwoWorkspaces == {a, b}

At(n) == [scalar |-> n, histogram |-> [sum |-> n, count |-> n]]
Blank == [scalar |-> Absent, histogram |-> Absent]

SomeSnapshots ==
    {<< >>, a :> Failed, a :> Blank, a :> At(0), (a :> At(0) @@ b :> Failed),
     (a :> At(2) @@ b :> Blank)}

\* The known names, and two that are not registered.
SomeWords ==
    {"modelpod", "epp", "other"}
        \cup {"sum", "service-avg", "windowed-avg", "gate", "replicas", "max"}

\* The legacy trigger, and misconfigured ones.
Manual ==
    {[Metadata(Unset, Unset) EXCEPT !.threshold = 2],
     Metadata("modelpod", "max"),
     [Metadata("other", "sum") EXCEPT !.threshold = 2],
     [Metadata("epp", "windowed-avg") EXCEPT !.window = 0]}

WorkspaceSymmetry == Permutations({a, b})
===============================================================================
