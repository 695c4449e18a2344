----------------------------- MODULE MCRecorder -----------------------------
(* Recorder for TLC: two ordinary exchanges and an awkward one, which the    *)
(* upstream may upgrade or whose handler may panic.                          *)
EXTENDS Recorder

CONSTANTS o1, o2, x
=============================================================================
