---------------------------- MODULE MCBookEvidence ----------------------------
(* The instance of BookEvidence for TLC: every invariant treats the contents of *)
(* snapshots alike.                                                             *)
EXTENDS BookEvidence, TLC
CONSTANTS d1, d2

TwoDepths == {d1, d2}
DepthSymmetry == Permutations(TwoDepths)
==============================================================================
