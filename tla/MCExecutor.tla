------------------------------ MODULE MCExecutor ------------------------------
(***************************************************************************)
(* Instances of Executor for TLC: small intents whose notional cap leaves  *)
(* room for one order of the full target and a part of a second one.       *)
(***************************************************************************)
EXTENDS Executor

\* A buy of two with cap 2005.  After a lost order at 2000 the notional left for
\* a third share is 2003, a price between two ticks.
BuyIntent == [side |-> Buy, maxQuantity |-> 3, maxNotional |-> 6003, limitPrice |-> 2007,
              position |-> 0, minAfter |-> 0, maxAfter |-> 3, expiresAt |-> 3]

\* A sell of two with cap 2005: together they fit max_notional_krw only at the
\* cap, so the order gives up price; one alone opens above it.
SellIntent == [side |-> Sell, maxQuantity |-> 2, maxNotional |-> 4015, limitPrice |-> 2002,
               position |-> 3, minAfter |-> 1, maxAfter |-> 3, expiresAt |-> 3]

BuyIntents == {BuyIntent}
BothIntents == {BuyIntent, SellIntent}

OneTouch == {[bid |-> 2000, ask |-> 2010]}
==============================================================================
