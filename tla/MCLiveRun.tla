------------------------------- MODULE MCLiveRun -------------------------------
(* The instance of LiveRun for TLC, with small intents. *)
EXTENDS LiveRun

\* A buy of two at up to 2005.
LiveIntents ==
    {[side |-> Buy, maxQuantity |-> 3, maxNotional |-> 6003, limitPrice |-> 2007,
      position |-> 0, minAfter |-> 0, maxAfter |-> 3, expiresAt |-> 3]}

\* One share: that a run ends does not depend on partial fills.
OneShare == {[i EXCEPT !.maxQuantity = 2, !.maxNotional = 4000] : i \in LiveIntents}

OneTouch == {[bid |-> 2000, ask |-> 2010]}
==============================================================================
