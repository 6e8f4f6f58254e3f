------------------------------- MODULE TickWalk -------------------------------
(***************************************************************************)
(* The walk of a resting order toward its cap: an intent's limit becomes   *)
(* the cap (Intent.Cap), the order opens at a grid price on the good side  *)
(* of it, and every amend moves it one step (decide, stepToward).          *)
(***************************************************************************)
EXTENDS KrxTick

CONSTANTS
    Limits,   \* the limit prices of the intents
    Reach     \* how far from the cap the order may open

ASSUME WalkAssumption == Limits \subseteq Nat \ {0} /\ Reach \in Nat

VARIABLES side, limit, cap, price

vars == <<side, limit, cap, price>>

NotWorse(p) == IF side = Buy THEN p <= cap ELSE p >= cap

Init ==
    /\ side \in Sides
    /\ limit \in Limits
    /\ cap = IF side = Buy THEN FloorTick(limit) ELSE CeilTick(limit)
    /\ price \in {p \in cap - Reach .. cap + Reach : OnGrid(p) /\ NotWorse(p)}

\* An amend: decide cancels instead once the order rests at the cap.
Step ==
    /\ price # cap
    /\ price' = StepToward(side, price, cap)
    /\ UNCHANGED <<side, limit, cap>>

Next == Step

Spec == Init /\ [][Next]_vars

\* The order's price goes on being amended while it may be.
FairSpec == Spec /\ WF_vars(Step)

-----------------------------------------------------------------------------
\* The grid prices up to the largest tick away from p.
GridAbove(p) == {g \in p .. p + 1000 : OnGrid(g)}
GridBelow(p) == {g \in p - 1000 .. p : OnGrid(g)}

\* The cap is the grid price nearest to the limit on the side that never pays
\* worse than it (Intent.Cap: "moved onto the tick grid in the side's favour").
CapIsNearest ==
    IF side = Buy THEN cap \in GridBelow(limit) /\ \A g \in GridBelow(limit) : g <= cap
                  ELSE cap \in GridAbove(limit) /\ \A g \in GridAbove(limit) : g >= cap

\* The price is on the grid and never past the cap, after any number of steps
\* and across band boundaries (stepToward: "never past it").
StaysOnGrid == OnGrid(price) /\ NotWorse(price)

\* No grid price is skipped: a step goes to the neighbouring one (krxBands:
\* "stepping up from a grid price lands on the grid of the next band").
StepIsAdjacent ==
    [][IF side = Buy THEN \A g \in GridAbove(price) : g > price => g >= price'
                     ELSE \A g \in GridBelow(price) : g < price => g <= price']_vars

\* The walk ends at the cap itself.
ReachesCap == <>(price = cap)
==============================================================================
