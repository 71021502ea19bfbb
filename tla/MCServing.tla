-------------------------------- MODULE MCServing --------------------------------
(* Two handshakes at a time. *)
EXTENDS Serving

CONSTANTS h1, h2

TwoHandshakes == {h1, h2}
===============================================================================
