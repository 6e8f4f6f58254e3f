---------------------------- MODULE MCFillIngress ----------------------------
(* Instances of FillIngress for TLC: the second event is no fill. *)
EXTENDS FillIngress

AllButSecond == {1} \cup 3 .. MaxEvents
=============================================================================
