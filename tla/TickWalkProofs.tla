---------------------------- MODULE TickWalkProofs ----------------------------
(***************************************************************************)
(* The walk's properties for every limit and every opening price.          *)
(***************************************************************************)
EXTENDS TickWalk, ExecMachineProofs

\* What holds of the variables beside StaysOnGrid: the cap is a grid price.
WalkInv ==
    /\ side \in Sides
    /\ cap \in Nat /\ OnGrid(cap)
    /\ price \in Nat
    /\ StaysOnGrid

\* The walk starts in WalkInv (Intent.Cap puts the limit on the grid).
LEMMA WalkInit == Init => WalkInv
<1> SUFFICES ASSUME Init PROVE WalkInv
  OBVIOUS
<1>1. limit \in Nat \ {0}
  BY WalkAssumption DEF Init
<1>2. cap \in Nat /\ OnGrid(cap)
  BY <1>1, FloorBelow, CeilAbove DEF Init
<1> QED
  BY <1>2, WalkAssumption DEF Init, WalkInv, StaysOnGrid, OnGrid

\* Every amend keeps WalkInv and goes to the neighbouring grid price.
LEMMA WalkStep ==
    ASSUME WalkInv, Step
    PROVE  /\ WalkInv'
           /\ \A g \in Nat : /\ side = Buy /\ OnGrid(g) /\ g > price => g >= price'
                             /\ side # Buy /\ OnGrid(g) /\ g < price => g <= price'
<1>1. CASE side = Buy
  <2>1. price < cap
    BY <1>1 DEF WalkInv, Step, StaysOnGrid, NotWorse
  <2> QED
    BY <1>1, <2>1, BuyStep DEF WalkInv, Step, StaysOnGrid, NotWorse, Sides
<1>2. CASE side = Sell
  <2>1. price > cap
    BY <1>2 DEF WalkInv, Step, StaysOnGrid, NotWorse, Buy, Sell
  <2> QED
    BY <1>2, <2>1, SellStep DEF WalkInv, Step, StaysOnGrid, NotWorse, Sides, Buy, Sell
<1> QED
  BY <1>1, <1>2 DEF WalkInv, Sides

\* For every limit and every opening price, the order's price is on the KRX grid
\* and never past the cap.
THEOREM WalkStaysOnGrid == Spec => []StaysOnGrid
<1>1. WalkInv /\ UNCHANGED vars => WalkInv'
  BY DEF WalkInv, vars, StaysOnGrid, NotWorse
<1>2. WalkInv /\ [Next]_vars => WalkInv'
  BY <1>1, WalkStep DEF Next
<1>3. WalkInv => StaysOnGrid
  BY DEF WalkInv
<1> QED
  BY WalkInit, <1>2, <1>3, PTL DEF Spec

\* For every limit, no amend skips a grid price.
THEOREM WalkStepIsAdjacent == Spec => StepIsAdjacent
<1>1. WalkInv /\ UNCHANGED vars => WalkInv'
  BY DEF WalkInv, vars, StaysOnGrid, NotWorse
<1>2. WalkInv /\ [Next]_vars => WalkInv'
  BY <1>1, WalkStep DEF Next
<1>3. WalkInv /\ [Next]_vars =>
        [IF side = Buy THEN \A g \in GridAbove(price) : g > price => g >= price'
                       ELSE \A g \in GridBelow(price) : g < price => g <= price']_vars
  <2> SUFFICES ASSUME WalkInv, Step
               PROVE  IF side = Buy
                      THEN \A g \in GridAbove(price) : g > price => g >= price'
                      ELSE \A g \in GridBelow(price) : g < price => g <= price'
    BY DEF Next
  <2>1. \A g \in GridAbove(price) \cup GridBelow(price) : g \in Nat /\ OnGrid(g)
    BY DEF WalkInv, GridAbove, GridBelow, OnGrid
  <2> QED
    BY <2>1, WalkStep
<1> QED
  BY WalkInit, <1>2, <1>3, PTL DEF Spec, StepIsAdjacent

\* For every limit, the cap is the nearest grid price that pays no worse.
THEOREM WalkCapIsNearest == Spec => []CapIsNearest
<1>1. Init => CapIsNearest
  <2> SUFFICES ASSUME Init PROVE CapIsNearest
    OBVIOUS
  <2>1. limit \in Nat \ {0}
    BY WalkAssumption DEF Init
  <2>2. \A g \in GridAbove(limit) \cup GridBelow(limit) : g \in Nat /\ OnGrid(g)
    BY <2>1 DEF GridAbove, GridBelow, OnGrid
  <2>3. CASE side = Buy
    <3>1. cap = FloorTick(limit)
      BY <2>3 DEF Init
    <3> QED
      BY <2>1, <2>2, <2>3, <3>1, FloorBelow, FloorNearest DEF CapIsNearest, GridBelow
  <2>4. CASE side # Buy
    <3>1. cap = CeilTick(limit)
      BY <2>4 DEF Init
    <3> QED
      BY <2>1, <2>2, <2>4, <3>1, CeilAbove, CeilNearest DEF CapIsNearest, GridAbove
  <2> QED
    BY <2>3, <2>4
<1>2. CapIsNearest /\ [Next]_vars => CapIsNearest'
  BY DEF CapIsNearest, Next, Step, vars, GridAbove, GridBelow
<1> QED
  BY <1>1, <1>2, PTL DEF Spec
==============================================================================
