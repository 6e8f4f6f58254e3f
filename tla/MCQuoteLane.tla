------------------------------ MODULE MCQuoteLane ------------------------------
(* The instance of QuoteLane for TLC. *)
EXTENDS QuoteLane
CONSTANTS t1

OneToken == {t1}
==============================================================================
