---------------------------- MODULE MCFillDelivery ----------------------------
(* Instances of FillDelivery for TLC. *)
EXTENDS FillDelivery
CONSTANTS f1, f2, n1

TwoFills == {f1, f2}
OneNotice == {n1}
==============================================================================
