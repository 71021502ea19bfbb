--------------------------- MODULE MCSampleHistory ---------------------------
(* A small instance of SampleHistory. *)
EXTENDS SampleHistory

SomeWindows == {1, 3, 5}
===============================================================================
