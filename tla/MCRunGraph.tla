----------------------------- MODULE MCRunGraph -----------------------------
(* Small instances of RunGraph for TLC: what a round trip may cost.        *)
EXTENDS RunGraph
Free == {0}
OneOrTwo == {1, 2}
=============================================================================
