---------------------------- MODULE MCAutoProvision ----------------------------
(* Small instances of AutoProvision. *)
EXTENDS AutoProvision

CONSTANTS good, bad

Lists == {good, bad}
GoodOnly == {<<good, 0>>, <<good, 1>>}

On == [auto |-> TRUE, min |-> 1, max |-> 2, metrics |-> good, limit |-> 0]
Off == [On EXCEPT !.auto = FALSE]
Invalid == [On EXCEPT !.metrics = bad]
ByLimit == [On EXCEPT !.min = 0, !.max = Absent, !.limit = 1]
Unbounded == [ByLimit EXCEPT !.limit = 0]

Anything == {On, Off, Invalid, ByLimit, Unbounded}

Spec2 == [min |-> 1, max |-> 2, metrics |-> good]
OtherSpec == {[Spec2 EXCEPT !.max = 1]}

TwoNodes == {2}
===============================================================================
