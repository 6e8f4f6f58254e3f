-------------------------- MODULE ExecMachineProofs ---------------------------
(***************************************************************************)
(* What decide and the transitions of Apply guarantee, for every state and *)
(* every intent.  Before it: the tick table, for every price, and what     *)
(* sums over finite sets are, by which fills and E1's exposure are counted.*)
(***************************************************************************)
EXTENDS ExecMachine, FiniteSetTheorems, WellFoundedInduction, TLAPS

-----------------------------------------------------------------------------
\* The tick table.  Modular arithmetic is within the prover's reach only for a
\* literal modulus, so each lemma goes through the seven bands.

\* OnGrid without its case distinction: each tick divides the next larger one
\* and the boundary between their bands (the comment on krxBands).
LEMMA GridIs ==
    ASSUME NEW g \in Nat \ {0}
    PROVE  OnGrid(g) <=> /\ g >= 2000 => g % 5 = 0
                         /\ g >= 5000 => g % 10 = 0
                         /\ g >= 20000 => g % 50 = 0
                         /\ g >= 50000 => g % 100 = 0
                         /\ g >= 200000 => g % 500 = 0
                         /\ g >= 500000 => g % 1000 = 0
BY DEF OnGrid, TickAt

\* FloorTick returns a grid price at or below p.
LEMMA FloorBelow ==
    ASSUME NEW p \in Nat \ {0}
    PROVE  /\ FloorTick(p) \in Nat
           /\ FloorTick(p) <= p /\ FloorTick(p) >= p - 1000
           /\ OnGrid(FloorTick(p))
<1>1. CASE p < 2000
  BY <1>1 DEF FloorTick, TickAt, OnGrid
<1>2. CASE p >= 2000 /\ p < 5000
  BY <1>2 DEF FloorTick, TickAt, OnGrid
<1>3. CASE p >= 5000 /\ p < 20000
  BY <1>3 DEF FloorTick, TickAt, OnGrid
<1>4. CASE p >= 20000 /\ p < 50000
  BY <1>4 DEF FloorTick, TickAt, OnGrid
<1>5. CASE p >= 50000 /\ p < 200000
  BY <1>5 DEF FloorTick, TickAt, OnGrid
<1>6. CASE p >= 200000 /\ p < 500000
  BY <1>6 DEF FloorTick, TickAt, OnGrid
<1>7. CASE p >= 500000
  BY <1>7 DEF FloorTick, TickAt, OnGrid
<1> QED
  BY <1>1, <1>2, <1>3, <1>4, <1>5, <1>6, <1>7

\* No grid price lies between FloorTick(p) and p.
LEMMA FloorNearest ==
    ASSUME NEW p \in Nat \ {0}, NEW g \in Nat, OnGrid(g), g <= p
    PROVE  g <= FloorTick(p)
<1>1. CASE p < 2000
  BY <1>1 DEF FloorTick, TickAt, OnGrid
<1>2. CASE p >= 2000 /\ p < 5000
  BY <1>2 DEF FloorTick, TickAt, OnGrid
<1>3. CASE p >= 5000 /\ p < 20000
  BY <1>3 DEF FloorTick, TickAt, OnGrid
<1>4. CASE p >= 20000 /\ p < 50000
  BY <1>4 DEF FloorTick, TickAt, OnGrid
<1>5. CASE p >= 50000 /\ p < 200000
  BY <1>5 DEF FloorTick, TickAt, OnGrid
<1>6. CASE p >= 200000 /\ p < 500000
  BY <1>6 DEF FloorTick, TickAt, OnGrid
<1>7. CASE p >= 500000
  BY <1>7 DEF FloorTick, TickAt, OnGrid
<1> QED
  BY <1>1, <1>2, <1>3, <1>4, <1>5, <1>6, <1>7

\* CeilTick returns a grid price at or above p.
LEMMA CeilAbove ==
    ASSUME NEW p \in Nat \ {0}
    PROVE  /\ CeilTick(p) \in Nat
           /\ CeilTick(p) >= p /\ CeilTick(p) <= p + 1000
           /\ OnGrid(CeilTick(p))
<1>1. CASE p < 2000
  <2> DEFINE c == IF p % 1 # 0 THEN (p - (p % 1)) + 1 ELSE p
  <2>1. CeilTick(p) = c
    BY <1>1 DEF CeilTick, TickAt
  <2>2. c \in Nat /\ c >= p /\ c <= p + 1 /\ c % 1 = 0 /\ c <= 2000
    BY <1>1
  <2> QED
    BY <1>1, <2>1, <2>2, GridIs
<1>2. CASE p >= 2000 /\ p < 5000
  <2> DEFINE c == IF p % 5 # 0 THEN (p - (p % 5)) + 5 ELSE p
  <2>1. CeilTick(p) = c
    BY <1>2 DEF CeilTick, TickAt
  <2>2. c \in Nat /\ c >= p /\ c <= p + 5 /\ c % 5 = 0 /\ c <= 5000
    BY <1>2
  <2> QED
    BY <1>2, <2>1, <2>2, GridIs
<1>3. CASE p >= 5000 /\ p < 20000
  <2> DEFINE c == IF p % 10 # 0 THEN (p - (p % 10)) + 10 ELSE p
  <2>1. CeilTick(p) = c
    BY <1>3 DEF CeilTick, TickAt
  <2>2. c \in Nat /\ c >= p /\ c <= p + 10 /\ c % 10 = 0 /\ c <= 20000
    BY <1>3
  <2> QED
    BY <1>3, <2>1, <2>2, GridIs
<1>4. CASE p >= 20000 /\ p < 50000
  <2> DEFINE c == IF p % 50 # 0 THEN (p - (p % 50)) + 50 ELSE p
  <2>1. CeilTick(p) = c
    BY <1>4 DEF CeilTick, TickAt
  <2>2. c \in Nat /\ c >= p /\ c <= p + 50 /\ c % 50 = 0 /\ c <= 50000
    BY <1>4
  <2> QED
    BY <1>4, <2>1, <2>2, GridIs
<1>5. CASE p >= 50000 /\ p < 200000
  <2> DEFINE c == IF p % 100 # 0 THEN (p - (p % 100)) + 100 ELSE p
  <2>1. CeilTick(p) = c
    BY <1>5 DEF CeilTick, TickAt
  <2>2. c \in Nat /\ c >= p /\ c <= p + 100 /\ c % 100 = 0 /\ c <= 200000
    BY <1>5
  <2> QED
    BY <1>5, <2>1, <2>2, GridIs
<1>6. CASE p >= 200000 /\ p < 500000
  <2> DEFINE c == IF p % 500 # 0 THEN (p - (p % 500)) + 500 ELSE p
  <2>1. CeilTick(p) = c
    BY <1>6 DEF CeilTick, TickAt
  <2>2. c \in Nat /\ c >= p /\ c <= p + 500 /\ c % 500 = 0 /\ c <= 500000
    BY <1>6
  <2> QED
    BY <1>6, <2>1, <2>2, GridIs
<1>7. CASE p >= 500000
  <2> DEFINE c == IF p % 1000 # 0 THEN (p - (p % 1000)) + 1000 ELSE p
  <2>1. CeilTick(p) = c
    BY <1>7 DEF CeilTick, TickAt
  <2>2. c \in Nat /\ c >= p /\ c <= p + 1000 /\ c % 1000 = 0
    BY <1>7
  <2> QED
    BY <1>7, <2>1, <2>2, GridIs
<1> QED
  BY <1>1, <1>2, <1>3, <1>4, <1>5, <1>6, <1>7

\* No grid price lies between p and CeilTick(p).
LEMMA CeilNearest ==
    ASSUME NEW p \in Nat \ {0}, NEW g \in Nat, OnGrid(g), g >= p
    PROVE  g >= CeilTick(p)
<1>0. g \in Nat \ {0}
  BY DEF OnGrid
<1>1. CASE p < 2000
  <2>1. CeilTick(p) = IF p % 1 # 0 THEN (p - (p % 1)) + 1 ELSE p
    BY <1>1 DEF CeilTick, TickAt
  <2>2. g % 1 = 0
    BY <1>0, <1>1, GridIs
  <2> QED
    BY <1>1, <2>1, <2>2
<1>2. CASE p >= 2000 /\ p < 5000
  <2>1. CeilTick(p) = IF p % 5 # 0 THEN (p - (p % 5)) + 5 ELSE p
    BY <1>2 DEF CeilTick, TickAt
  <2>2. g % 5 = 0
    BY <1>0, <1>2, GridIs
  <2> QED
    BY <1>2, <2>1, <2>2
<1>3. CASE p >= 5000 /\ p < 20000
  <2>1. CeilTick(p) = IF p % 10 # 0 THEN (p - (p % 10)) + 10 ELSE p
    BY <1>3 DEF CeilTick, TickAt
  <2>2. g % 10 = 0
    BY <1>0, <1>3, GridIs
  <2> QED
    BY <1>3, <2>1, <2>2
<1>4. CASE p >= 20000 /\ p < 50000
  <2>1. CeilTick(p) = IF p % 50 # 0 THEN (p - (p % 50)) + 50 ELSE p
    BY <1>4 DEF CeilTick, TickAt
  <2>2. g % 50 = 0
    BY <1>0, <1>4, GridIs
  <2> QED
    BY <1>4, <2>1, <2>2
<1>5. CASE p >= 50000 /\ p < 200000
  <2>1. CeilTick(p) = IF p % 100 # 0 THEN (p - (p % 100)) + 100 ELSE p
    BY <1>5 DEF CeilTick, TickAt
  <2>2. g % 100 = 0
    BY <1>0, <1>5, GridIs
  <2> QED
    BY <1>5, <2>1, <2>2
<1>6. CASE p >= 200000 /\ p < 500000
  <2>1. CeilTick(p) = IF p % 500 # 0 THEN (p - (p % 500)) + 500 ELSE p
    BY <1>6 DEF CeilTick, TickAt
  <2>2. g % 500 = 0
    BY <1>0, <1>6, GridIs
  <2> QED
    BY <1>6, <2>1, <2>2
<1>7. CASE p >= 500000
  <2>1. CeilTick(p) = IF p % 1000 # 0 THEN (p - (p % 1000)) + 1000 ELSE p
    BY <1>7 DEF CeilTick, TickAt
  <2>2. g % 1000 = 0
    BY <1>0, <1>7, GridIs
  <2> QED
    BY <1>7, <2>1, <2>2
<1> QED
  BY <1>1, <1>2, <1>3, <1>4, <1>5, <1>6, <1>7

\* A buy's step from a grid price short of a grid cap goes to the next grid
\* price, which is not past the cap (stepToward).
LEMMA BuyStep ==
    ASSUME NEW p \in Nat, NEW c \in Nat, OnGrid(p), OnGrid(c), p < c
    PROVE  LET n == StepToward(Buy, p, c) IN
           /\ n \in Nat /\ OnGrid(n) /\ n <= c
           /\ \A g \in Nat : OnGrid(g) /\ g > p => g >= n
<1>0. p \in Nat \ {0} /\ c \in Nat \ {0}
  BY DEF OnGrid
<1>1. CASE p < 2000
  <2>1. TickAt(p) = 1
    BY <1>0, <1>1 DEF TickAt
  <2>2. p % 1 = 0
    BY <1>0, <1>1, GridIs
  <2>3. ASSUME NEW g \in Nat, OnGrid(g), g > p
        PROVE  g >= p + 1
    <3>1. g >= 0 => g % 1 = 0
      BY <2>3, GridIs DEF OnGrid
    <3> QED
      BY <2>2, <2>3, <3>1, <1>1
  <2>4. c >= p + 1
    BY <1>0, <2>3
  <2>5. OnGrid(p + 1)
    BY <1>0, <2>2, <2>4, <1>1, GridIs
  <2>6. StepToward(Buy, p, c) = p + 1
    BY <2>1, <2>4 DEF StepToward, Smaller, Larger, Buy, Sell
  <2> QED
    BY <1>0, <2>3, <2>4, <2>5, <2>6
<1>2. CASE p >= 2000 /\ p < 5000
  <2>1. TickAt(p) = 5
    BY <1>0, <1>2 DEF TickAt
  <2>2. p % 5 = 0
    BY <1>0, <1>2, GridIs
  <2>3. ASSUME NEW g \in Nat, OnGrid(g), g > p
        PROVE  g >= p + 5
    <3>1. g >= 2000 => g % 5 = 0
      BY <2>3, GridIs DEF OnGrid
    <3> QED
      BY <2>2, <2>3, <3>1, <1>2
  <2>4. c >= p + 5
    BY <1>0, <2>3
  <2>5. OnGrid(p + 5)
    BY <1>0, <2>2, <2>4, <1>2, GridIs
  <2>6. StepToward(Buy, p, c) = p + 5
    BY <2>1, <2>4 DEF StepToward, Smaller, Larger, Buy, Sell
  <2> QED
    BY <1>0, <2>3, <2>4, <2>5, <2>6
<1>3. CASE p >= 5000 /\ p < 20000
  <2>1. TickAt(p) = 10
    BY <1>0, <1>3 DEF TickAt
  <2>2. p % 10 = 0
    BY <1>0, <1>3, GridIs
  <2>3. ASSUME NEW g \in Nat, OnGrid(g), g > p
        PROVE  g >= p + 10
    <3>1. g >= 5000 => g % 10 = 0
      BY <2>3, GridIs DEF OnGrid
    <3> QED
      BY <2>2, <2>3, <3>1, <1>3
  <2>4. c >= p + 10
    BY <1>0, <2>3
  <2>5. OnGrid(p + 10)
    BY <1>0, <2>2, <2>4, <1>3, GridIs
  <2>6. StepToward(Buy, p, c) = p + 10
    BY <2>1, <2>4 DEF StepToward, Smaller, Larger, Buy, Sell
  <2> QED
    BY <1>0, <2>3, <2>4, <2>5, <2>6
<1>4. CASE p >= 20000 /\ p < 50000
  <2>1. TickAt(p) = 50
    BY <1>0, <1>4 DEF TickAt
  <2>2. p % 50 = 0
    BY <1>0, <1>4, GridIs
  <2>3. ASSUME NEW g \in Nat, OnGrid(g), g > p
        PROVE  g >= p + 50
    <3>1. g >= 20000 => g % 50 = 0
      BY <2>3, GridIs DEF OnGrid
    <3> QED
      BY <2>2, <2>3, <3>1, <1>4
  <2>4. c >= p + 50
    BY <1>0, <2>3
  <2>5. OnGrid(p + 50)
    BY <1>0, <2>2, <2>4, <1>4, GridIs
  <2>6. StepToward(Buy, p, c) = p + 50
    BY <2>1, <2>4 DEF StepToward, Smaller, Larger, Buy, Sell
  <2> QED
    BY <1>0, <2>3, <2>4, <2>5, <2>6
<1>5. CASE p >= 50000 /\ p < 200000
  <2>1. TickAt(p) = 100
    BY <1>0, <1>5 DEF TickAt
  <2>2. p % 100 = 0
    BY <1>0, <1>5, GridIs
  <2>3. ASSUME NEW g \in Nat, OnGrid(g), g > p
        PROVE  g >= p + 100
    <3>1. g >= 50000 => g % 100 = 0
      BY <2>3, GridIs DEF OnGrid
    <3> QED
      BY <2>2, <2>3, <3>1, <1>5
  <2>4. c >= p + 100
    BY <1>0, <2>3
  <2>5. OnGrid(p + 100)
    BY <1>0, <2>2, <2>4, <1>5, GridIs
  <2>6. StepToward(Buy, p, c) = p + 100
    BY <2>1, <2>4 DEF StepToward, Smaller, Larger, Buy, Sell
  <2> QED
    BY <1>0, <2>3, <2>4, <2>5, <2>6
<1>6. CASE p >= 200000 /\ p < 500000
  <2>1. TickAt(p) = 500
    BY <1>0, <1>6 DEF TickAt
  <2>2. p % 500 = 0
    BY <1>0, <1>6, GridIs
  <2>3. ASSUME NEW g \in Nat, OnGrid(g), g > p
        PROVE  g >= p + 500
    <3>1. g >= 200000 => g % 500 = 0
      BY <2>3, GridIs DEF OnGrid
    <3> QED
      BY <2>2, <2>3, <3>1, <1>6
  <2>4. c >= p + 500
    BY <1>0, <2>3
  <2>5. OnGrid(p + 500)
    BY <1>0, <2>2, <2>4, <1>6, GridIs
  <2>6. StepToward(Buy, p, c) = p + 500
    BY <2>1, <2>4 DEF StepToward, Smaller, Larger, Buy, Sell
  <2> QED
    BY <1>0, <2>3, <2>4, <2>5, <2>6
<1>7. CASE p >= 500000
  <2>1. TickAt(p) = 1000
    BY <1>0, <1>7 DEF TickAt
  <2>2. p % 1000 = 0
    BY <1>0, <1>7, GridIs
  <2>3. ASSUME NEW g \in Nat, OnGrid(g), g > p
        PROVE  g >= p + 1000
    <3>1. g >= 500000 => g % 1000 = 0
      BY <2>3, GridIs DEF OnGrid
    <3> QED
      BY <2>2, <2>3, <3>1, <1>7
  <2>4. c >= p + 1000
    BY <1>0, <2>3
  <2>5. OnGrid(p + 1000)
    BY <1>0, <2>2, <2>4, <1>7, GridIs
  <2>6. StepToward(Buy, p, c) = p + 1000
    BY <2>1, <2>4 DEF StepToward, Smaller, Larger, Buy, Sell
  <2> QED
    BY <1>0, <2>3, <2>4, <2>5, <2>6
<1> QED
  BY <1>1, <1>2, <1>3, <1>4, <1>5, <1>6, <1>7

\* A sell's step, likewise, by the tick of the band just below p.
LEMMA SellStep ==
    ASSUME NEW p \in Nat, NEW c \in Nat, OnGrid(p), OnGrid(c), p > c
    PROVE  LET n == StepToward(Sell, p, c) IN
           /\ n \in Nat /\ OnGrid(n) /\ n >= c
           /\ \A g \in Nat : OnGrid(g) /\ g < p => g <= n
<1>0. p \in Nat \ {0} /\ c \in Nat \ {0}
  BY DEF OnGrid
<1>1. CASE p <= 2000
  <2>1. TickAt(p - 1) = 1
    BY <1>0, <1>1 DEF TickAt
  <2>2. p % 1 = 0
    BY <1>0, <1>1, GridIs
  <2>3. ASSUME NEW g \in Nat, OnGrid(g), g < p
        PROVE  g <= p - 1
    <3>1. g >= 0 => g % 1 = 0
      BY <2>3, GridIs DEF OnGrid
    <3> QED
      BY <2>2, <2>3, <3>1, <1>1
  <2>4. c <= p - 1
    BY <1>0, <2>3
  <2>5. OnGrid(p - 1)
    BY <1>0, <2>2, <2>4, <1>1, GridIs
  <2>6. StepToward(Sell, p, c) = p - 1
    BY <2>1, <2>4 DEF StepToward, Smaller, Larger, Buy, Sell
  <2> QED
    BY <1>0, <2>3, <2>4, <2>5, <2>6
<1>2. CASE p > 2000 /\ p <= 5000
  <2>1. TickAt(p - 1) = 5
    BY <1>0, <1>2 DEF TickAt
  <2>2. p % 5 = 0
    BY <1>0, <1>2, GridIs
  <2>3. ASSUME NEW g \in Nat, OnGrid(g), g < p
        PROVE  g <= p - 5
    <3>1. g >= 2000 => g % 5 = 0
      BY <2>3, GridIs DEF OnGrid
    <3> QED
      BY <2>2, <2>3, <3>1, <1>2
  <2>4. c <= p - 5
    BY <1>0, <2>3
  <2>5. OnGrid(p - 5)
    BY <1>0, <2>2, <2>4, <1>2, GridIs
  <2>6. StepToward(Sell, p, c) = p - 5
    BY <2>1, <2>4 DEF StepToward, Smaller, Larger, Buy, Sell
  <2> QED
    BY <1>0, <2>3, <2>4, <2>5, <2>6
<1>3. CASE p > 5000 /\ p <= 20000
  <2>1. TickAt(p - 1) = 10
    BY <1>0, <1>3 DEF TickAt
  <2>2. p % 10 = 0
    BY <1>0, <1>3, GridIs
  <2>3. ASSUME NEW g \in Nat, OnGrid(g), g < p
        PROVE  g <= p - 10
    <3>1. g >= 5000 => g % 10 = 0
      BY <2>3, GridIs DEF OnGrid
    <3> QED
      BY <2>2, <2>3, <3>1, <1>3
  <2>4. c <= p - 10
    BY <1>0, <2>3
  <2>5. OnGrid(p - 10)
    BY <1>0, <2>2, <2>4, <1>3, GridIs
  <2>6. StepToward(Sell, p, c) = p - 10
    BY <2>1, <2>4 DEF StepToward, Smaller, Larger, Buy, Sell
  <2> QED
    BY <1>0, <2>3, <2>4, <2>5, <2>6
<1>4. CASE p > 20000 /\ p <= 50000
  <2>1. TickAt(p - 1) = 50
    BY <1>0, <1>4 DEF TickAt
  <2>2. p % 50 = 0
    BY <1>0, <1>4, GridIs
  <2>3. ASSUME NEW g \in Nat, OnGrid(g), g < p
        PROVE  g <= p - 50
    <3>1. g >= 20000 => g % 50 = 0
      BY <2>3, GridIs DEF OnGrid
    <3> QED
      BY <2>2, <2>3, <3>1, <1>4
  <2>4. c <= p - 50
    BY <1>0, <2>3
  <2>5. OnGrid(p - 50)
    BY <1>0, <2>2, <2>4, <1>4, GridIs
  <2>6. StepToward(Sell, p, c) = p - 50
    BY <2>1, <2>4 DEF StepToward, Smaller, Larger, Buy, Sell
  <2> QED
    BY <1>0, <2>3, <2>4, <2>5, <2>6
<1>5. CASE p > 50000 /\ p <= 200000
  <2>1. TickAt(p - 1) = 100
    BY <1>0, <1>5 DEF TickAt
  <2>2. p % 100 = 0
    BY <1>0, <1>5, GridIs
  <2>3. ASSUME NEW g \in Nat, OnGrid(g), g < p
        PROVE  g <= p - 100
    <3>1. g >= 50000 => g % 100 = 0
      BY <2>3, GridIs DEF OnGrid
    <3> QED
      BY <2>2, <2>3, <3>1, <1>5
  <2>4. c <= p - 100
    BY <1>0, <2>3
  <2>5. OnGrid(p - 100)
    BY <1>0, <2>2, <2>4, <1>5, GridIs
  <2>6. StepToward(Sell, p, c) = p - 100
    BY <2>1, <2>4 DEF StepToward, Smaller, Larger, Buy, Sell
  <2> QED
    BY <1>0, <2>3, <2>4, <2>5, <2>6
<1>6. CASE p > 200000 /\ p <= 500000
  <2>1. TickAt(p - 1) = 500
    BY <1>0, <1>6 DEF TickAt
  <2>2. p % 500 = 0
    BY <1>0, <1>6, GridIs
  <2>3. ASSUME NEW g \in Nat, OnGrid(g), g < p
        PROVE  g <= p - 500
    <3>1. g >= 200000 => g % 500 = 0
      BY <2>3, GridIs DEF OnGrid
    <3> QED
      BY <2>2, <2>3, <3>1, <1>6
  <2>4. c <= p - 500
    BY <1>0, <2>3
  <2>5. OnGrid(p - 500)
    BY <1>0, <2>2, <2>4, <1>6, GridIs
  <2>6. StepToward(Sell, p, c) = p - 500
    BY <2>1, <2>4 DEF StepToward, Smaller, Larger, Buy, Sell
  <2> QED
    BY <1>0, <2>3, <2>4, <2>5, <2>6
<1>7. CASE p > 500000
  <2>1. TickAt(p - 1) = 1000
    BY <1>0, <1>7 DEF TickAt
  <2>2. p % 1000 = 0
    BY <1>0, <1>7, GridIs
  <2>3. ASSUME NEW g \in Nat, OnGrid(g), g < p
        PROVE  g <= p - 1000
    <3>1. g >= 500000 => g % 1000 = 0
      BY <2>3, GridIs DEF OnGrid
    <3> QED
      BY <2>2, <2>3, <3>1, <1>7
  <2>4. c <= p - 1000
    BY <1>0, <2>3
  <2>5. OnGrid(p - 1000)
    BY <1>0, <2>2, <2>4, <1>7, GridIs
  <2>6. StepToward(Sell, p, c) = p - 1000
    BY <2>1, <2>4 DEF StepToward, Smaller, Larger, Buy, Sell
  <2> QED
    BY <1>0, <2>3, <2>4, <2>5, <2>6
<1> QED
  BY <1>1, <1>2, <1>3, <1>4, <1>5, <1>6, <1>7

-----------------------------------------------------------------------------
\* Sums over finite sets, as SumFunctionOnSet computes them.

\* A set of naturals has a least element.
LEMMA LeastNat ==
    ASSUME NEW T \in SUBSET Nat, T # {}
    PROVE  \E x \in T : \A y \in T : x <= y
<1>1. PICK x \in T : \A y \in T : ~ (<<y, x>> \in OpToRel(<, Nat))
  BY NatLessThanWellFounded, WFMin
<1>2. \A a, b \in Nat : <<b, a>> \in OpToRel(<, Nat) <=> b < a
  BY DEF OpToRel
<1>3. \A y \in T : ~(y < x)
  BY <1>1, <1>2
<1>4. \A y \in T : x <= y
  BY <1>3
<1> QED
  BY <1>4

\* Induction over the subsets of a finite set, with the property as a set: a set
\* of subsets that holds T whenever it holds T without any one element.
LEMMA SubsetInduction ==
    ASSUME NEW S, IsFiniteSet(S), NEW G,
           \A T \in SUBSET S : (\A x \in T : T \ {x} \in G) => T \in G
    PROVE  \A T \in SUBSET S : T \in G
<1> SUFFICES ASSUME NEW T0 \in SUBSET S, T0 \notin G
             PROVE  FALSE
  OBVIOUS
<1> DEFINE Bad == {T \in SUBSET S : T \notin G}
           Sizes == {Cardinality(T) : T \in Bad}
<1>1. \A T \in SUBSET S : IsFiniteSet(T) /\ Cardinality(T) \in Nat
  BY FS_Subset, FS_CardinalityType
<1>2. Sizes \in SUBSET Nat /\ Sizes # {}
  BY <1>1
<1>3. PICK n \in Sizes : \A m \in Sizes : n <= m
  BY <1>2, LeastNat
<1>4. PICK T \in Bad : Cardinality(T) = n
  OBVIOUS
<1>5. ASSUME NEW x \in T PROVE T \ {x} \in G
  <2>1. IsFiniteSet(T) /\ Cardinality(T) \in Nat
    BY <1>1
  <2>2. Cardinality(T \ {x}) = n - 1
    BY <2>1, <1>4, FS_RemoveElement
  <2>3. T \ {x} \in SUBSET S
    OBVIOUS
  <2>4. T \ {x} \in Bad => Cardinality(T \ {x}) \in Sizes
    OBVIOUS
  <2> QED
    BY <1>3, <1>4, <2>1, <2>2, <2>3, <2>4
<1> QED
  BY <1>5

\* The recursion the community modules sum with: f[s] for every subset s of S.
IsSum(f, g, S) ==
    f = [s \in SUBSET S |->
            IF s = {} THEN 0
            ELSE g[CHOOSE x \in s : TRUE] + f[s \ {CHOOSE x \in s : TRUE}]]

\* Two solutions agree where both are defined.
LEMMA SumUnique ==
    ASSUME NEW g, NEW S, NEW T, NEW f, NEW h, IsFiniteSet(S),
           IsSum(f, g, S), IsSum(h, g, T)
    PROVE  \A s \in SUBSET S : s \in SUBSET T => f[s] = h[s]
<1> DEFINE G == {s \in SUBSET S : s \in SUBSET T => f[s] = h[s]}
<1>1. ASSUME NEW s \in SUBSET S, \A x \in s : s \ {x} \in G
      PROVE  s \in G
  <2> SUFFICES ASSUME s \in SUBSET T PROVE f[s] = h[s]
    OBVIOUS
  <2> DEFINE c == CHOOSE x \in s : TRUE
  <2>1. f[s] = IF s = {} THEN 0 ELSE g[c] + f[s \ {c}]
    BY Zenon DEF IsSum
  <2>2. h[s] = IF s = {} THEN 0 ELSE g[c] + h[s \ {c}]
    BY Zenon DEF IsSum
  <2>3. s # {} => c \in s
    OBVIOUS
  <2> HIDE DEF c
  <2>4. s # {} => f[s \ {c}] = h[s \ {c}]
    BY <1>1, <2>3
  <2> QED
    BY <2>1, <2>2, <2>4, Zenon
<1> HIDE DEF G
<1>2. \A s \in SUBSET S : s \in G
  BY <1>1, SubsetInduction
<1> QED
  BY <1>2 DEF G

\* There is a solution for every finite set.
LEMMA SumExists ==
    ASSUME NEW g, NEW S, IsFiniteSet(S)
    PROVE  \E f : IsSum(f, g, S)
<1> DEFINE G == {T \in SUBSET S : \A s \in SUBSET T : \E f : IsSum(f, g, s)}
<1>1. ASSUME NEW T \in SUBSET S, \A x \in T : T \ {x} \in G
      PROVE  \E f : IsSum(f, g, T)
  <2> DEFINE c(s) == CHOOSE x \in s : TRUE
             sol(s) == CHOOSE f : IsSum(f, g, s)
             f == [s \in SUBSET T |-> IF s = {} THEN 0
                                      ELSE g[c(s)] + sol(s \ {c(s)})[s \ {c(s)}]]
  <2>1. \A s \in SUBSET T : s # {} => c(s) \in s
    OBVIOUS
  <2>2. \A s \in SUBSET T : s # T => \E h : IsSum(h, g, s)
    <3> SUFFICES ASSUME NEW s \in SUBSET T, s # T PROVE \E h : IsSum(h, g, s)
      OBVIOUS
    <3>1. PICK x \in T : x \notin s
      OBVIOUS
    <3>2. T \ {x} \in G /\ s \in SUBSET (T \ {x})
      BY <1>1, <3>1
    <3> QED
      BY <3>2
  <2>3. \A s \in SUBSET T : s # T => IsSum(sol(s), g, s)
    <3> SUFFICES ASSUME NEW s \in SUBSET T, s # T PROVE IsSum(sol(s), g, s)
      OBVIOUS
    <3>1. PICK h : IsSum(h, g, s)
      BY <2>2
    <3> QED
      BY <3>1, Zenon
  <2>4. \A s \in SUBSET T : IsFiniteSet(s)
    BY FS_Subset
  <2>5. ASSUME NEW t \in SUBSET T, t # T PROVE f[t] = sol(t)[t]
    <3>1. f[t] = IF t = {} THEN 0 ELSE g[c(t)] + sol(t \ {c(t)})[t \ {c(t)}]
      OBVIOUS
    <3>2. IsSum(sol(t), g, t) /\ t \in SUBSET t
      BY <2>3, <2>5
    <3>3. sol(t)[t] = IF t = {} THEN 0 ELSE g[c(t)] + sol(t)[t \ {c(t)}]
      <4> HIDE DEF sol
      <4> QED
        BY <3>2, Zenon DEF IsSum
    <3>4. ASSUME t # {} PROVE sol(t)[t \ {c(t)}] = sol(t \ {c(t)})[t \ {c(t)}]
      <4>1. t \ {c(t)} \in SUBSET T /\ t \ {c(t)} # T /\ t \ {c(t)} \in SUBSET t
        BY <2>1, <3>4
      <4>2. IsSum(sol(t \ {c(t)}), g, t \ {c(t)})
        BY <4>1, <2>3
      <4>3. IsFiniteSet(t)
        BY <2>4
      <4> HIDE DEF sol, c
      <4>4. t \ {c(t)} \in SUBSET (t \ {c(t)})
        OBVIOUS
      <4> QED
        BY <3>2, <4>1, <4>2, <4>3, <4>4, SumUnique
    <3> HIDE DEF f, c, sol
    <3> QED
      BY <3>1, <3>3, <3>4, Zenon
  <2>6. \A s \in SUBSET T : s # {} => s \ {c(s)} \in SUBSET T /\ s \ {c(s)} # T
    BY <2>1
  <2>7. \A s \in SUBSET T : f[s] = IF s = {} THEN 0 ELSE g[c(s)] + f[s \ {c(s)}]
    <3> SUFFICES ASSUME NEW s \in SUBSET T
                 PROVE  f[s] = IF s = {} THEN 0 ELSE g[c(s)] + f[s \ {c(s)}]
      OBVIOUS
    <3>1. f[s] = IF s = {} THEN 0 ELSE g[c(s)] + sol(s \ {c(s)})[s \ {c(s)}]
      OBVIOUS
    <3>2. s # {} => s \ {c(s)} \in SUBSET T /\ s \ {c(s)} # T
      BY <2>6
    <3> HIDE DEF f, c, sol
    <3>3. s # {} => f[s \ {c(s)}] = sol(s \ {c(s)})[s \ {c(s)}]
      BY <2>5, <3>2
    <3> QED
      BY <3>1, <3>3, Zenon
  <2>8. f = [s \in SUBSET T |-> IF s = {} THEN 0 ELSE g[c(s)] + f[s \ {c(s)}]]
    <3>1. DOMAIN f = SUBSET T /\ f = [s \in SUBSET T |-> f[s]]
      OBVIOUS
    <3> HIDE DEF f, c
    <3> QED
      BY <2>7, <3>1
  <2> HIDE DEF f, sol
  <2>9. IsSum(f, g, T)
    BY <2>8, Zenon DEF IsSum
  <2> QED
    BY <2>9
<1>2. ASSUME NEW T \in SUBSET S, \A x \in T : T \ {x} \in G
      PROVE  T \in G
  <2> SUFFICES ASSUME NEW s \in SUBSET T PROVE \E f : IsSum(f, g, s)
    OBVIOUS
  <2>1. CASE s = T
    BY <1>1, <1>2, <2>1
  <2>2. CASE s # T
    <3>1. PICK x \in T : x \notin s
      BY <2>2
    <3>2. T \ {x} \in G /\ s \in SUBSET (T \ {x})
      BY <1>2, <3>1
    <3> QED
      BY <3>2
  <2> QED
    BY <2>1, <2>2
<1> HIDE DEF G
<1>3. S \in G
  BY <1>2, SubsetInduction
<1> QED
  BY <1>3 DEF G

\* SumFunctionOnSet is that solution.
LEMMA SumIs ==
    ASSUME NEW g, NEW S, IsFiniteSet(S)
    PROVE  \E f : IsSum(f, g, S) /\ SumFunctionOnSet(g, S) = f[S]
<1> DEFINE P(f) == IsSum(f, g, S)
<1>1. PICK k : P(k)
  BY SumExists
<1>2. PICK h : h = CHOOSE f : f = [s \in SUBSET S |->
            IF s = {} THEN 0
            ELSE g[CHOOSE x \in s : TRUE] + f[s \ {CHOOSE x \in s : TRUE}]]
  OBVIOUS
<1>3. SumFunctionOnSet(g, S) = h[S]
  BY <1>2 DEF SumFunctionOnSet, FoldFunctionOnSet, MapThenFoldSet
<1>4. h = CHOOSE f : P(f)
  BY <1>2, Zenon DEF IsSum
<1> HIDE DEF P
<1>5. P(h)
  BY <1>1, <1>4, Zenon
<1> QED
  BY <1>3, <1>5 DEF P

\* The sum of nothing, and one step of the recursion.
LEMMA SumChosen ==
    ASSUME NEW g, NEW S, IsFiniteSet(S)
    PROVE  /\ S = {} => SumFunctionOnSet(g, S) = 0
           /\ S # {} => \E c \in S : SumFunctionOnSet(g, S) = g[c] + SumFunctionOnSet(g, S \ {c})
<1> DEFINE c == CHOOSE x \in S : TRUE
<1>1. PICK f : IsSum(f, g, S) /\ SumFunctionOnSet(g, S) = f[S]
  BY SumIs
<1>2. f[S] = IF S = {} THEN 0 ELSE g[c] + f[S \ {c}]
  <2> S \in SUBSET S
    OBVIOUS
  <2> QED
    BY <1>1, Zenon DEF IsSum
<1>3. S # {} => c \in S
  OBVIOUS
<1> HIDE DEF c
<1>4. IsFiniteSet(S \ {c})
  BY FS_RemoveElement
<1>5. PICK h : IsSum(h, g, S \ {c}) /\ SumFunctionOnSet(g, S \ {c}) = h[S \ {c}]
  BY <1>4, SumIs
<1>6. S \ {c} \in SUBSET S /\ S \ {c} \in SUBSET (S \ {c})
  OBVIOUS
<1>7. f[S \ {c}] = h[S \ {c}]
  BY <1>1, <1>5, <1>6, SumUnique
<1> QED
  BY <1>1, <1>2, <1>3, <1>5, <1>7, Zenon

\* Sums of integers are integers, those of naturals naturals.
LEMMA SumType ==
    ASSUME NEW g, NEW S, IsFiniteSet(S), \A x \in S : g[x] \in Int
    PROVE  /\ SumFunctionOnSet(g, S) \in Int
           /\ (\A x \in S : g[x] >= 0) => SumFunctionOnSet(g, S) \in Nat
<1> DEFINE Sum(T) == SumFunctionOnSet(g, T)
           G == {T \in SUBSET S : /\ Sum(T) \in Int
                                  /\ (\A x \in T : g[x] >= 0) => Sum(T) \in Nat}
<1>1. ASSUME NEW T \in SUBSET S, \A x \in T : T \ {x} \in G
      PROVE  T \in G
  <2>1. IsFiniteSet(T)
    BY FS_Subset
  <2>2. CASE T = {}
    BY <2>1, <2>2, SumChosen
  <2>3. CASE T # {}
    <3>1. PICK c \in T : Sum(T) = g[c] + Sum(T \ {c})
      BY <2>1, <2>3, SumChosen
    <3>2. /\ Sum(T \ {c}) \in Int /\ g[c] \in Int
          /\ (\A x \in T : g[x] >= 0) => Sum(T \ {c}) \in Nat
      BY <1>1
    <3> HIDE DEF Sum
    <3> QED
      BY <3>1, <3>2
  <2> QED
    BY <2>2, <2>3
<1> HIDE DEF G
<1>2. \A T \in SUBSET S : T \in G
  BY <1>1, SubsetInduction, Zenon
<1> QED
  BY <1>2 DEF G

\* Any element may be taken out of a sum.
LEMMA SumRemove ==
    ASSUME NEW g, NEW S, IsFiniteSet(S), \A x \in S : g[x] \in Int
    PROVE  \A x \in S : SumFunctionOnSet(g, S) = g[x] + SumFunctionOnSet(g, S \ {x})
<1> DEFINE Sum(T) == SumFunctionOnSet(g, T)
           G == {T \in SUBSET S : \A x \in T : Sum(T) = g[x] + Sum(T \ {x})}
<1>1. ASSUME NEW T \in SUBSET S, \A x \in T : T \ {x} \in G
      PROVE  T \in G
  <2> SUFFICES ASSUME NEW x \in T PROVE Sum(T) = g[x] + Sum(T \ {x})
    OBVIOUS
  <2>1. IsFiniteSet(T)
    BY FS_Subset
  <2>2. PICK c \in T : Sum(T) = g[c] + Sum(T \ {c})
    BY <2>1, SumChosen
  <2>3. CASE x = c
    BY <2>2, <2>3
  <2>4. CASE x # c
    <3>1. T \ {c} \in G /\ x \in T \ {c} /\ T \ {x} \in G /\ c \in T \ {x}
      BY <1>1, <2>4
    <3>2. Sum(T \ {c}) = g[x] + Sum((T \ {c}) \ {x})
      BY <3>1
    <3>3. Sum(T \ {x}) = g[c] + Sum((T \ {x}) \ {c})
      BY <3>1
    <3>4. (T \ {c}) \ {x} = (T \ {x}) \ {c}
      OBVIOUS
    <3>5. Sum((T \ {c}) \ {x}) \in Int
      <4>1. IsFiniteSet((T \ {c}) \ {x}) /\ \A y \in (T \ {c}) \ {x} : g[y] \in Int
        BY <2>1, FS_RemoveElement
      <4> QED
        BY <4>1, SumType
    <3>6. g[x] \in Int /\ g[c] \in Int
      OBVIOUS
    <3> HIDE DEF Sum
    <3>7. \A a, b, r \in Int : a + (b + r) = b + (a + r)
      OBVIOUS
    <3>8. Sum(T) = g[c] + (g[x] + Sum((T \ {c}) \ {x}))
      BY <2>2, <3>2, Zenon
    <3>9. Sum(T) = g[x] + (g[c] + Sum((T \ {c}) \ {x}))
      BY <3>5, <3>6, <3>7, <3>8, Zenon
    <3> QED
      BY <3>3, <3>4, <3>9, Zenon
  <2> QED
    BY <2>3, <2>4
<1> HIDE DEF G
<1>2. \A T \in SUBSET S : T \in G
  BY <1>1, SubsetInduction, Zenon
<1> QED
  BY <1>2 DEF G

\* A new element adds its value.
LEMMA SumAdd ==
    ASSUME NEW g, NEW S, IsFiniteSet(S), NEW x, x \notin S, \A y \in S \cup {x} : g[y] \in Int
    PROVE  SumFunctionOnSet(g, S \cup {x}) = g[x] + SumFunctionOnSet(g, S)
<1>1. IsFiniteSet(S \cup {x}) /\ x \in S \cup {x}
  BY FS_AddElement
<1>2. (S \cup {x}) \ {x} = S
  OBVIOUS
<1> QED
  BY <1>1, <1>2, SumRemove

\* Sums compare as their summands do.
LEMMA SumMonotone ==
    ASSUME NEW g, NEW h, NEW S, IsFiniteSet(S),
           \A x \in S : g[x] \in Int /\ h[x] \in Int /\ g[x] <= h[x]
    PROVE  SumFunctionOnSet(g, S) <= SumFunctionOnSet(h, S)
<1> DEFINE G == {T \in SUBSET S : SumFunctionOnSet(g, T) <= SumFunctionOnSet(h, T)}
<1>1. ASSUME NEW T \in SUBSET S, \A x \in T : T \ {x} \in G
      PROVE  T \in G
  <2>1. IsFiniteSet(T)
    BY FS_Subset
  <2>2. CASE T = {}
    <3>1. SumFunctionOnSet(g, T) = 0 /\ SumFunctionOnSet(h, T) = 0
      BY <2>1, <2>2, SumChosen
    <3> QED
      BY <3>1
  <2>3. CASE T # {}
    <3>1. PICK c \in T : TRUE
      BY <2>3
    <3>2. SumFunctionOnSet(g, T) = g[c] + SumFunctionOnSet(g, T \ {c})
      BY <2>1, SumRemove
    <3>3. SumFunctionOnSet(h, T) = h[c] + SumFunctionOnSet(h, T \ {c})
      BY <2>1, SumRemove
    <3>4. SumFunctionOnSet(g, T \ {c}) <= SumFunctionOnSet(h, T \ {c})
      BY <1>1
    <3>5. IsFiniteSet(T \ {c})
      BY <2>1, FS_RemoveElement
    <3>6. SumFunctionOnSet(g, T \ {c}) \in Int /\ SumFunctionOnSet(h, T \ {c}) \in Int
      BY <3>5, SumType
    <3>7. g[c] \in Int /\ h[c] \in Int /\ g[c] <= h[c]
      OBVIOUS
    <3> QED
      BY <3>2, <3>3, <3>4, <3>6, <3>7
  <2> QED
    BY <2>2, <2>3
<1> HIDE DEF G
<1>2. \A T \in SUBSET S : T \in G
  BY <1>1, SubsetInduction, Zenon
<1> QED
  BY <1>2 DEF G

\* Equal summands give equal sums.
LEMMA SumSame ==
    ASSUME NEW g, NEW h, NEW S, IsFiniteSet(S), \A x \in S : g[x] \in Int /\ h[x] = g[x]
    PROVE  SumFunctionOnSet(h, S) = SumFunctionOnSet(g, S)
<1>1. SumFunctionOnSet(g, S) \in Int /\ SumFunctionOnSet(h, S) \in Int
  BY SumType
<1>2. \A x \in S : g[x] <= h[x] /\ h[x] <= g[x]
  OBVIOUS
<1>3. SumFunctionOnSet(g, S) <= SumFunctionOnSet(h, S)
  BY <1>2, SumMonotone
<1>4. SumFunctionOnSet(h, S) <= SumFunctionOnSet(g, S)
  BY <1>2, SumMonotone
<1> QED
  BY <1>1, <1>3, <1>4

\* A part of a sum of naturals is no larger than the whole.
LEMMA SumPart ==
    ASSUME NEW g, NEW S, IsFiniteSet(S), \A x \in S : g[x] \in Nat, NEW R \in SUBSET S
    PROVE  SumFunctionOnSet(g, R) <= SumFunctionOnSet(g, S)
<1> DEFINE Sum(T) == SumFunctionOnSet(g, T)
           G == {T \in SUBSET S : R \subseteq T => Sum(R) <= Sum(T)}
<1>1. ASSUME NEW T \in SUBSET S, \A x \in T : T \ {x} \in G
      PROVE  T \in G
  <2> SUFFICES ASSUME R \subseteq T PROVE Sum(R) <= Sum(T)
    OBVIOUS
  <2>1. IsFiniteSet(T) /\ IsFiniteSet(R)
    BY FS_Subset
  <2>2. Sum(T) \in Int /\ Sum(R) \in Int
    BY <2>1, SumType
  <2>3. CASE R = T
    BY <2>2, <2>3
  <2>4. CASE R # T
    <3>1. PICK c \in T : c \notin R
      BY <2>4
    <3>2. Sum(T) = g[c] + Sum(T \ {c})
      BY <2>1, SumRemove
    <3>3. Sum(R) <= Sum(T \ {c})
      BY <1>1, <3>1
    <3>4. Sum(T \ {c}) \in Int
      <4>1. IsFiniteSet(T \ {c})
        BY <2>1, FS_RemoveElement
      <4> QED
        BY <4>1, SumType
    <3>5. g[c] \in Nat
      OBVIOUS
    <3> HIDE DEF Sum
    <3> QED
      BY <2>2, <3>2, <3>3, <3>4, <3>5
  <2> QED
    BY <2>3, <2>4
<1> HIDE DEF G
<1>2. \A T \in SUBSET S : T \in G
  BY <1>1, SubsetInduction, Zenon
<1> QED
  BY <1>2 DEF G

\* A part of a sum of positive numbers that is as large as the whole is the whole.
LEMMA SumWhole ==
    ASSUME NEW g, NEW S, IsFiniteSet(S), \A x \in S : g[x] \in Nat /\ g[x] >= 1,
           NEW R \in SUBSET S, SumFunctionOnSet(g, R) = SumFunctionOnSet(g, S)
    PROVE  R = S
<1> SUFFICES ASSUME NEW x \in S, x \notin R PROVE FALSE
  OBVIOUS
<1>1. SumFunctionOnSet(g, S) = g[x] + SumFunctionOnSet(g, S \ {x})
  BY SumRemove
<1>2. IsFiniteSet(S \ {x}) /\ R \in SUBSET (S \ {x})
  BY FS_RemoveElement
<1>3. SumFunctionOnSet(g, R) <= SumFunctionOnSet(g, S \ {x})
  BY <1>2, SumPart
<1>4. SumFunctionOnSet(g, S \ {x}) \in Int
  BY <1>2, SumType
<1>5. g[x] \in Nat /\ g[x] >= 1
  OBVIOUS
<1> QED
  BY <1>1, <1>3, <1>4, <1>5

-----------------------------------------------------------------------------
\* decide.

\* The shape of a decision to send: the next key, a reason, and the working
\* order as the target of all but a submit.
SendShape(s, d) ==
    LET c == d.child IN
    /\ d.kind = "send"
    /\ d.reason \in Reasons
    /\ c = [key |-> Len(s.sent) + 1, action |-> c.action, target |-> c.target,
            qty |-> c.qty, price |-> c.price]
    /\ c.action \in {"submit", "amend", "cancel"}
    /\ c.target = IF c.action = "submit" THEN 0 ELSE s.order.key
    /\ c.action = "cancel" => c.qty = 0 /\ c.price = 0

\* Send builds decisions of that shape.
LEMMA SendHasShape ==
    ASSUME NEW s, NEW a \in {"submit", "amend", "cancel"}, NEW q, NEW p, NEW r \in Reasons,
           a = "cancel" => q = 0 /\ p = 0
    PROVE  SendShape(s, Send(s, a, q, p, r))
BY DEF Send, SendShape

\* decide does nothing, queries (only with a child unresolved), finishes with a
\* reason, or sends a child of SendShape.
LEMMA DecideForms ==
    ASSUME NEW s \in State, NEW t \in Top, NEW n \in Nat, NEW k \in BOOLEAN
    PROVE  LET d == Decide(s, t, n, k) IN
           \/ d = Nothing
           \/ d = Query /\ Unresolved(s)
           \/ d.kind = "finish" /\ d.reason \in Reasons \cup {""}
           \/ SendShape(s, d)
<1> DEFINE closing == Closing(s, t, n, k)
           d == Decide(s, t, n, k)
<1>1. closing \in Reasons \cup {""}
  <2>1. s.halt \in Reasons \cup {""}
    BY DEF State
  <2>2. \/ closing = "filled" \/ closing = "killed" \/ closing = "deadline"
        \/ closing = "stale_book" \/ closing = s.halt
    BY Zenon DEF Closing
  <2> HIDE DEF closing
  <2> QED
    BY <2>1, <2>2 DEF Reasons, FinishReasons
<1>2. "filled" \in Reasons /\ "cap" \in Reasons /\ "e1_caps" \in Reasons
      /\ "step" \in Reasons /\ "open" \in Reasons
  BY DEF Reasons, FinishReasons
<1>3. \A r \in Reasons : SendShape(s, CancelOrder(s, r))
  BY SendHasShape DEF CancelOrder
<1>4. \A q, p : SendShape(s, Send(s, "amend", q, p, "step"))
  BY <1>2, SendHasShape
<1>5. \A q, p : SendShape(s, Send(s, "submit", q, p, "open"))
  BY <1>2, SendHasShape
<1>6. DecideStep(s, t, n) = Nothing \/ SendShape(s, DecideStep(s, t, n))
  <2>1. LET e == DecideStep(s, t, n) IN
        \/ e = Nothing \/ e = CancelOrder(s, "cap") \/ e = CancelOrder(s, "e1_caps")
        \/ \E q, p : e = Send(s, "amend", q, p, "step")
    BY Zenon DEF DecideStep
  <2> QED
    BY <1>2, <1>3, <1>4, <2>1, Zenon
<1>7. LET e == DecideOpen(s, t, n) IN
      e = Nothing \/ e = Finish("e1_caps") \/ SendShape(s, e)
  <2>1. LET e == DecideOpen(s, t, n) IN
        \/ e = Nothing \/ e = Finish("e1_caps")
        \/ \E q, p : e = Send(s, "submit", q, p, "open")
    BY Zenon DEF DecideOpen
  <2> QED
    BY <1>5, <2>1, Zenon
<1>8. \/ d = Nothing
      \/ d = Query /\ Unresolved(s)
      \/ d = Finish("filled")
      \/ closing # "" /\ d = CancelOrder(s, closing)
      \/ closing # "" /\ d = Finish(closing)
      \/ d = DecideStep(s, t, n)
      \/ d = DecideOpen(s, t, n)
  BY Zenon DEF Decide
<1>9. \A r : Finish(r).kind = "finish" /\ Finish(r).reason = r
  BY DEF Finish
<1> HIDE DEF closing, d
<1>10. closing # "" => closing \in Reasons
  BY <1>1
<1>11. \/ d = Nothing
       \/ d = Query /\ Unresolved(s)
       \/ d = Finish("filled") \/ d = Finish("e1_caps") \/ d = Finish(closing)
       \/ SendShape(s, d)
  BY <1>3, <1>6, <1>7, <1>8, <1>10, Zenon
<1> QED
  BY <1>1, <1>2, <1>9, <1>11 DEF d

-----------------------------------------------------------------------------
\* Each transition keeps the type of the state and the journal's invariants.

\* The cap of a valid intent is a price that respects its limit (Cap), and its
\* target is a quantity.
LEMMA CapWithinLimit ==
    ASSUME NEW in \in IntentRecord, Validate(in)
    PROVE  /\ in.side \in Sides
           /\ Cap(in) \in Nat /\ WithinLimit(in, Cap(in))
           /\ TargetQty(in) \in Nat
<1>1. in.side \in Sides /\ in.limitPrice \in Nat \ {0} /\ Cap(in) >= 1
  BY DEF Validate, IntentRecord
<1>2. Cap(in) \in Nat /\ WithinLimit(in, Cap(in))
  BY <1>1, FloorBelow, CeilAbove DEF Cap, WithinLimit
<1>3. TargetQty(in) \in Nat
  <2>1. in.maxNotional \div Cap(in) \in Int /\ InventoryRoom(in) \in Int /\ in.maxQuantity \in Int
    BY <1>1, <1>2 DEF IntentRecord, InventoryRoom
  <2> QED
    BY <1>1, <1>2, <2>1 DEF TargetQty, Smaller, Larger
<1> QED
  BY <1>1, <1>2, <1>3

\* The types of the fields of a State.
LEMMA StateFields ==
    ASSUME NEW s \in State
    PROVE  /\ s.intent \in IntentRecord /\ s.cap \in Nat /\ s.target \in Nat
           /\ s.filled \in Nat /\ s.fills \in SUBSET Nat /\ s.brokerFilled \in Nat
           /\ s.sent \in Seq(Child) /\ s.inFlight \in Child /\ s.lastMove \in Nat
           /\ s.inFlightReason \in Reasons \cup {""}
           /\ s.halt \in Reasons \cup {""} /\ s.done \in Reasons \cup {""}
           /\ s.order \in Order /\ s.order.key \in Nat /\ s.order.price \in Nat
           /\ Len(s.sent) \in Nat /\ DOMAIN s.sent = 1 .. Len(s.sent)
<1>1. s.order \in Order /\ s.sent \in Seq(Child)
  BY DEF State
<1>2. s.order.key \in Nat /\ s.order.price \in Nat
  BY <1>1 DEF Order
<1>3. Len(s.sent) \in Nat /\ DOMAIN s.sent = 1 .. Len(s.sent)
  BY <1>1
<1> QED
  BY <1>1, <1>2, <1>3 DEF State

\* A new intent's state, valid or empty.
LEMMA NewStateOK ==
    ASSUME NEW in \in IntentRecord, NEW cap \in Nat, NEW target \in Nat,
           in # NoIntent => in.side \in Sides /\ WithinLimit(in, cap),
           in = NoIntent => cap = 0 /\ target = 0
    PROVE  LET n == NewState(in, cap, target) IN
           /\ n \in State /\ JournalOK(n) /\ PricesOK(n)
           /\ ~Unresolved(n) /\ ~HasOrder(n) /\ n.sent = <<>>
           /\ n.intent = in /\ n.brokerFilled = 0 /\ n.order.key = 0 /\ n.inFlight.key = 0
<1> DEFINE n == NewState(in, cap, target)
<1>1. NoOrder \in Order /\ NoChild \in Child /\ NoOrder.key = 0 /\ NoChild.key = 0
  BY DEF NoOrder, Order, NoChild, Child
<1>2. <<>> \in Seq(Child) /\ Len(<<>>) = 0 /\ DOMAIN <<>> = {}
  OBVIOUS
<1>3. n \in State
  BY <1>1, <1>2 DEF NewState, State
<1>4. /\ n.intent = in /\ n.cap = cap /\ n.sent = <<>> /\ n.order = NoOrder
      /\ n.inFlight = NoChild /\ n.done = "" /\ n.brokerFilled = 0
  BY DEF NewState
<1>5. in = NoIntent => n = Fresh
  BY DEF Fresh
<1> HIDE DEF n
<1>6. JournalOK(n) /\ PricesOK(n)
  BY <1>2, <1>4, <1>5 DEF JournalOK, PricesOK, Started, HasOrder, Unresolved
<1> QED
  BY <1>1, <1>3, <1>4, <1>6 DEF HasOrder, Unresolved, n

\* RecStart.
LEMMA StartOK ==
    ASSUME NEW in \in IntentRecord, in # NoIntent, Validate(in)
    PROVE  LET n == AfterStart(in) IN
           /\ n \in State /\ JournalOK(n) /\ PricesOK(n)
           /\ ~Unresolved(n) /\ ~HasOrder(n) /\ n.sent = <<>>
           /\ n.intent = in /\ n.brokerFilled = 0 /\ n.order.key = 0 /\ n.inFlight.key = 0
BY CapWithinLimit, NewStateOK DEF AfterStart

\* RecSend, of a child decide proposes.
LEMMA SendOK ==
    ASSUME NEW s \in State, JournalOK(s), PricesOK(s), NEW d, SendShape(s, d),
           SendApplies(s, d.child), NEW at \in Nat
    PROVE  LET n == AfterSend(s, d.child, d.reason, at) IN
           /\ n \in State /\ JournalOK(n) /\ PricesOK(n)
           /\ Unresolved(n) /\ n.inFlight = d.child /\ d.child.key = Len(s.sent) + 1
           /\ Len(n.sent) = Len(s.sent) + 1
           /\ n.order = s.order /\ n.intent = s.intent /\ n.cap = s.cap /\ n.target = s.target
<1> DEFINE c == d.child
           n == AfterSend(s, d.child, d.reason, at)
<1>1. c \in Child /\ c.key = Len(s.sent) + 1
  <2>1. s.order.key \in Nat /\ Len(s.sent) \in Nat
    BY StateFields
  <2>2. Opening(c) => c.qty \in Nat /\ c.price \in Nat
    <3>1. Opening(c) => c.qty \in 1 .. Remaining(s) /\ c.price \in Nat \ {0}
      BY Zenon DEF SendApplies
    <3>2. s.target \in Nat /\ s.filled \in Nat /\ s.brokerFilled \in Nat
      BY StateFields
    <3>3. Remaining(s) \in Int
      BY <3>2 DEF Remaining, Larger
    <3> HIDE DEF c
    <3> QED
      BY <3>1, <3>3
  <2>3. c.action \in {"submit", "amend", "cancel"} /\ c.target \in Nat
    BY <2>1 DEF SendShape
  <2>4. c.qty \in Nat /\ c.price \in Nat
    BY <2>2, <2>3 DEF SendShape, Opening
  <2>5. c = [key |-> Len(s.sent) + 1, action |-> c.action, target |-> c.target,
             qty |-> c.qty, price |-> c.price]
    BY DEF SendShape
  <2> HIDE DEF c
  <2> QED
    BY <2>1, <2>3, <2>4, <2>5 DEF Child
<1>2. d.reason \in Reasons
  BY DEF SendShape
<1>3. /\ n.sent = Append(s.sent, c) /\ n.inFlight = c /\ n.inFlightReason = d.reason
      /\ n.order = s.order /\ n.intent = s.intent /\ n.cap = s.cap /\ n.target = s.target
      /\ n.halt = s.halt /\ n.done = s.done
  BY DEF AfterSend, State
<1>4. n \in State
  <2>1. Append(s.sent, c) \in Seq(Child)
    <3>1. s.sent \in Seq(Child)
      BY StateFields
    <3> HIDE DEF c
    <3> QED
      BY <1>1, <3>1
  <2>2. d.reason \in Reasons \cup {""}
    BY <1>2
  <2> HIDE DEF c
  <2> QED
    BY <1>1, <2>1, <2>2 DEF AfterSend, State, c
<1>5. s.sent \in Seq(Child)
  BY StateFields
<1> HIDE DEF c, n
<1>6. /\ Len(n.sent) = Len(s.sent) + 1
      /\ \A i \in DOMAIN s.sent : n.sent[i] = s.sent[i]
      /\ n.sent[Len(n.sent)] = c
      /\ DOMAIN n.sent = DOMAIN s.sent \cup {Len(n.sent)}
  BY <1>1, <1>3, <1>5
<1>7. Unresolved(n) /\ Started(n)
  <2>1. c.key # NoChild.key
    BY <1>1, <1>5 DEF NoChild
  <2> QED
    BY <1>3, <2>1 DEF Unresolved, Started, SendApplies
<1>8. JournalOK(n)
  <2>1. \A i \in DOMAIN n.sent : n.sent[i].key = i
    BY <1>1, <1>6 DEF JournalOK
  <2>2. s.done = "" /\ c.action \in {"submit", "amend", "cancel"}
    BY DEF SendApplies, c
  <2>3. IF c.action = "submit" THEN ~HasOrder(s) ELSE HasOrder(s) /\ c.target = s.order.key
    BY DEF SendApplies, Opening, c
  <2>4. d.reason # ""
    BY <1>2 DEF Reasons, FinishReasons
  <2>5. Len(n.sent) >= 1
    BY <1>5, <1>6
  <2> QED
    BY <1>3, <1>6, <1>7, <2>1, <2>2, <2>3, <2>4, <2>5 DEF JournalOK, HasOrder, Started
<1>9. PricesOK(n)
  <2>1. Opening(c) => ~Worse(s.intent, c.price, s.cap)
    BY DEF SendApplies, c
  <2> QED
    BY <1>3, <1>6, <2>1 DEF PricesOK, Started, Opening, SendApplies
<1> QED
  BY <1>1, <1>3, <1>4, <1>6, <1>7, <1>8, <1>9 DEF n, c

\* The parts of a State that no resolution of a child changes.
SameBase(n, s) ==
    /\ n.intent = s.intent /\ n.cap = s.cap /\ n.target = s.target /\ n.sent = s.sent

\* Resolved and resolveCancel, field by field.
LEMMA ResolvedFields ==
    ASSUME NEW s \in State
    PROVE  LET n == Resolved(s) IN
           /\ n \in State /\ SameBase(n, s)
           /\ n.order = s.order /\ n.brokerFilled = s.brokerFilled
           /\ n.halt = s.halt /\ n.done = s.done /\ n.inFlight = NoChild
<1>1. NoChild \in Child
  BY DEF NoChild, Child
<1> QED
  BY <1>1 DEF Resolved, State, SameBase

\* resolveCancel sets the halt or the finish, and nothing else.
LEMMA ResolveCancelFields ==
    ASSUME NEW s \in State, NEW defer \in BOOLEAN
    PROVE  LET n == ResolveCancel(s, defer) IN
           /\ n \in State /\ SameBase(n, s)
           /\ n.order = s.order /\ n.brokerFilled = s.brokerFilled /\ n.inFlight = s.inFlight
           /\ n.halt = (IF defer THEN s.inFlightReason ELSE s.halt)
           /\ n.done = (IF defer THEN s.done ELSE s.inFlightReason)
<1>1. CASE defer
  BY <1>1 DEF ResolveCancel, State, SameBase
<1>2. CASE ~defer
  BY <1>2 DEF ResolveCancel, State, SameBase
<1> QED
  BY <1>1, <1>2

\* A state that resolved its child, with an order that has a key or none, keeps
\* the journal's invariants.
LEMMA ResolvedOK ==
    ASSUME NEW s \in State, JournalOK(s), PricesOK(s), Started(s), NEW n \in State,
           SameBase(n, s), n.inFlight = NoChild,
           HasOrder(n) => n.order.key >= 1, n.done # "" => ~HasOrder(n)
    PROVE  JournalOK(n) /\ PricesOK(n) /\ Started(n) /\ ~Unresolved(n)
BY DEF JournalOK, PricesOK, SameBase, Started, Unresolved

\* RecOutcome.
LEMMA OutcomeOK ==
    ASSUME NEW s \in State, JournalOK(s), PricesOK(s), Started(s), Unresolved(s),
           NEW status, NEW defer \in BOOLEAN
    PROVE  LET n == AfterOutcome(s, status, defer)
               c == s.inFlight IN
           /\ n \in State /\ JournalOK(n) /\ PricesOK(n) /\ SameBase(n, s)
           /\ n.brokerFilled = s.brokerFilled
           /\ IF Definite(c, status)
              THEN /\ ~Unresolved(n) /\ n.inFlight = NoChild
                   /\ status = "accepted" =>
                        IF c.action = "cancel"
                        THEN ~HasOrder(n) /\ (n.halt # "" \/ n.done # "")
                        ELSE HasOrder(n) /\ n.order.key = c.key
                   /\ status # "accepted" => n.order = s.order /\ n.halt # ""
              ELSE n = s
<1> DEFINE n == AfterOutcome(s, status, defer)
           c == s.inFlight
<1>1. c \in Child /\ c.key >= 1 /\ s.inFlightReason # "" /\ s.done = ""
  <2>1. s.inFlight \in Child /\ Len(s.sent) \in Nat /\ DOMAIN s.sent = 1 .. Len(s.sent)
    BY StateFields
  <2>2. /\ Len(s.sent) >= 1 /\ s.inFlight = s.sent[Len(s.sent)]
        /\ s.inFlightReason # "" /\ s.done = ""
        /\ \A i \in DOMAIN s.sent : s.sent[i].key = i
    BY DEF JournalOK
  <2>3. Len(s.sent) \in DOMAIN s.sent
    <3>1. \A l \in Nat : l >= 1 => l \in 1 .. l
      OBVIOUS
    <3> QED
      BY <2>1, <2>2, <3>1, Zenon
  <2>4. s.inFlight.key = Len(s.sent)
    BY <2>2, <2>3
  <2> QED
    BY <2>1, <2>2, <2>4
<1>2. c.action \in {"submit", "amend", "cancel"}
  BY DEF JournalOK
<1>3. CASE ~Definite(c, status)
  <2>1. n = s
    BY <1>3 DEF AfterOutcome, Definite
  <2> QED
    BY <1>3, <2>1 DEF SameBase
<1>4. CASE status = "accepted" /\ c.action = "cancel"
  <2> DEFINE e == [s EXCEPT !.order = NoOrder]
  <2>1. n = Resolved(ResolveCancel(e, defer)) /\ Definite(c, status)
    BY <1>4 DEF AfterOutcome, Definite
  <2>2. NoOrder \in Order
    BY DEF NoOrder, Order
  <2>3. /\ e \in State /\ SameBase(e, s) /\ e.order = NoOrder /\ e.brokerFilled = s.brokerFilled
        /\ e.inFlightReason = s.inFlightReason /\ e.done = s.done
    BY <2>2 DEF State, SameBase
  <2> HIDE DEF e
  <2>4. /\ n \in State /\ SameBase(n, s) /\ n.order = NoOrder /\ n.inFlight = NoChild
        /\ n.brokerFilled = s.brokerFilled /\ (n.halt # "" \/ n.done # "")
    <3> DEFINE e2 == ResolveCancel(e, defer)
    <3>1. /\ e2 \in State /\ SameBase(e2, e) /\ e2.order = e.order
          /\ e2.brokerFilled = e.brokerFilled
          /\ e2.halt = (IF defer THEN e.inFlightReason ELSE e.halt)
          /\ e2.done = (IF defer THEN e.done ELSE e.inFlightReason)
      BY <2>3, ResolveCancelFields
    <3>2. n = Resolved(e2)
      BY <2>1
    <3> HIDE DEF e2
    <3>3. /\ n \in State /\ SameBase(n, e2) /\ n.order = e2.order /\ n.inFlight = NoChild
          /\ n.brokerFilled = e2.brokerFilled /\ n.halt = e2.halt /\ n.done = e2.done
      BY <3>1, <3>2, ResolvedFields
    <3> HIDE DEF n, c
    <3> QED
      BY <1>1, <2>3, <3>1, <3>3 DEF SameBase
  <2> QED
    BY <1>4, <2>1, <2>4, ResolvedOK DEF HasOrder
<1>5. CASE status = "accepted" /\ c.action # "cancel"
  <2> DEFINE o == [key |-> c.key, price |-> c.price, qty |-> c.qty]
             e == [s EXCEPT !.order = o]
  <2>1. n = Resolved(e) /\ Definite(c, status)
    BY <1>5 DEF AfterOutcome, Definite
  <2>2. o \in Order /\ o.key = c.key /\ o # NoOrder
    <3>1. c.key \in Nat /\ c.price \in Nat /\ c.qty \in Nat
      BY <1>1 DEF Child
    <3>2. NoOrder.key = 0
      BY DEF NoOrder
    <3> HIDE DEF c
    <3>3. c.key # 0
      <4>1. \A k \in Nat : k >= 1 => k # 0
        OBVIOUS
      <4> QED
        BY <1>1, <3>1, <4>1, Zenon
    <3>4. o \in Order /\ o.key = c.key
      BY <3>1 DEF Order
    <3> HIDE DEF o
    <3> QED
      BY <3>2, <3>3, <3>4
  <2> HIDE DEF o
  <2>3. /\ e \in State /\ SameBase(e, s) /\ e.order = o /\ e.brokerFilled = s.brokerFilled
        /\ e.done = s.done
    BY <2>2 DEF State, SameBase
  <2> HIDE DEF e
  <2>4. /\ n \in State /\ SameBase(n, s) /\ n.order = o /\ n.inFlight = NoChild
        /\ n.brokerFilled = s.brokerFilled /\ n.done = ""
    <3>1. /\ n \in State /\ SameBase(n, e) /\ n.order = e.order /\ n.inFlight = NoChild
          /\ n.brokerFilled = e.brokerFilled /\ n.done = e.done
      BY <2>1, <2>3, ResolvedFields
    <3> HIDE DEF n
    <3> QED
      BY <1>1, <2>3, <3>1 DEF SameBase
  <2>5. JournalOK(n) /\ PricesOK(n) /\ ~Unresolved(n)
    BY <1>1, <2>2, <2>4, ResolvedOK
  <2> QED
    BY <1>5, <2>1, <2>2, <2>4, <2>5 DEF HasOrder
<1>6. CASE status = "refused" /\ c.action # "cancel"
  <2> DEFINE e == [s EXCEPT !.halt = "refused"]
  <2>1. n = Resolved(e) /\ Definite(c, status)
    BY <1>6 DEF AfterOutcome, Definite
  <2>2. "refused" \in Reasons \cup {""}
    BY DEF Reasons, FinishReasons
  <2>3. /\ e \in State /\ SameBase(e, s) /\ e.order = s.order /\ e.brokerFilled = s.brokerFilled
        /\ e.done = s.done /\ e.halt = "refused"
    BY <2>2 DEF State, SameBase
  <2> HIDE DEF e
  <2>4. /\ n \in State /\ SameBase(n, s) /\ n.order = s.order /\ n.inFlight = NoChild
        /\ n.brokerFilled = s.brokerFilled /\ n.done = "" /\ n.halt = "refused"
    <3>1. /\ n \in State /\ SameBase(n, e) /\ n.order = e.order /\ n.inFlight = NoChild
          /\ n.brokerFilled = e.brokerFilled /\ n.done = e.done /\ n.halt = e.halt
      BY <2>1, <2>3, ResolvedFields
    <3> HIDE DEF n
    <3> QED
      BY <1>1, <2>3, <3>1 DEF SameBase
  <2>5. HasOrder(n) => n.order.key >= 1
    BY <2>4 DEF JournalOK, HasOrder
  <2>6. JournalOK(n) /\ PricesOK(n) /\ ~Unresolved(n)
    BY <2>4, <2>5, ResolvedOK
  <2> QED
    BY <1>6, <2>1, <2>4, <2>6
<1> QED
  BY <1>3, <1>4, <1>5, <1>6 DEF Definite

\* RecReconcile.
LEMMA ReconcileOK ==
    ASSUME NEW s \in State, JournalOK(s), PricesOK(s), Started(s), Unresolved(s),
           NEW o \in Order, o # NoOrder => o.key >= 1, NEW q \in Nat, NEW defer \in BOOLEAN
    PROVE  LET n == AfterReconcile(s, [order |-> o, filled |-> q], defer) IN
           /\ n \in State /\ JournalOK(n) /\ PricesOK(n) /\ SameBase(n, s)
           /\ ~Unresolved(n) /\ n.inFlight = NoChild /\ n.order = o /\ n.brokerFilled >= q
<1> DEFINE n == AfterReconcile(s, [order |-> o, filled |-> q], defer)
           e == [s EXCEPT !.order = o, !.brokerFilled = Larger(@, q)]
           cancelled == s.inFlight.action = "cancel" /\ o = NoOrder
<1>1. n = IF cancelled THEN Resolved(ResolveCancel(e, defer)) ELSE Resolved(e)
  BY DEF AfterReconcile
<1>2. s.done = "" /\ s.brokerFilled \in Nat
  <2>1. s.brokerFilled \in Nat
    BY StateFields
  <2>2. s.done = ""
    BY DEF JournalOK
  <2> QED
    BY <2>1, <2>2
<1>3. Larger(s.brokerFilled, q) \in Nat /\ Larger(s.brokerFilled, q) >= q
  <2> DEFINE b == s.brokerFilled
  <2>1. b \in Nat
    BY <1>2
  <2> HIDE DEF b
  <2>2. Larger(b, q) \in Nat /\ Larger(b, q) >= q
    BY <2>1 DEF Larger
  <2> QED
    BY <2>2 DEF b
<1>4. /\ e \in State /\ SameBase(e, s) /\ e.order = o /\ e.brokerFilled >= q /\ e.done = ""
  BY <1>2, <1>3 DEF State, SameBase
<1> HIDE DEF e
<1>5. /\ n \in State /\ SameBase(n, s) /\ n.order = o /\ n.inFlight = NoChild
      /\ n.brokerFilled >= q /\ (n.done # "" => o = NoOrder)
  <2>1. CASE cancelled
    <3> DEFINE e2 == ResolveCancel(e, defer)
    <3>1. /\ e2 \in State /\ SameBase(e2, e) /\ e2.order = e.order
          /\ e2.brokerFilled = e.brokerFilled
      BY <1>4, ResolveCancelFields
    <3>2. n = Resolved(e2) /\ o = NoOrder
      BY <1>1, <2>1
    <3> HIDE DEF e2
    <3>3. /\ n \in State /\ SameBase(n, e2) /\ n.order = e2.order /\ n.inFlight = NoChild
          /\ n.brokerFilled = e2.brokerFilled
      BY <3>1, <3>2, ResolvedFields
    <3> HIDE DEF n
    <3> QED
      BY <1>4, <3>1, <3>2, <3>3 DEF SameBase
  <2>2. CASE ~cancelled
    <3>1. n = Resolved(e)
      BY <1>1, <2>2
    <3>2. /\ n \in State /\ SameBase(n, e) /\ n.order = e.order /\ n.inFlight = NoChild
          /\ n.brokerFilled = e.brokerFilled /\ n.done = e.done
      BY <1>4, <3>1, ResolvedFields
    <3> HIDE DEF n
    <3> QED
      BY <1>4, <3>2 DEF SameBase
  <2> QED
    BY <2>1, <2>2
<1> HIDE DEF n
<1>6. (HasOrder(n) => n.order.key >= 1) /\ (n.done # "" => ~HasOrder(n))
  BY <1>5 DEF HasOrder
<1>7. JournalOK(n) /\ PricesOK(n) /\ ~Unresolved(n)
  BY <1>5, <1>6, ResolvedOK
<1> QED
  BY <1>5, <1>7 DEF n

\* RecFill: only the count of fills changes.
LEMMA FillOK ==
    ASSUME NEW s \in State, JournalOK(s), PricesOK(s), Started(s),
           NEW id \in Nat, NEW key, NEW q \in Nat, NEW price
    PROVE  LET n == AfterFill(s, [id |-> id, key |-> key, qty |-> q, price |-> price]) IN
           /\ n \in State /\ JournalOK(n) /\ PricesOK(n) /\ SameBase(n, s) /\ Started(n)
           /\ n.order = s.order /\ n.inFlight = s.inFlight /\ n.brokerFilled = s.brokerFilled
           /\ n.halt = s.halt /\ n.done = s.done
<1> DEFINE n == AfterFill(s, [id |-> id, key |-> key, qty |-> q, price |-> price])
<1>1. s.filled + q \in Nat /\ s.fills \cup {id} \in SUBSET Nat
  <2>1. s.filled \in Nat /\ s.fills \in SUBSET Nat
    BY StateFields
  <2> QED
    BY <2>1
<1>2. /\ n \in State /\ SameBase(n, s)
      /\ n.order = s.order /\ n.inFlight = s.inFlight /\ n.brokerFilled = s.brokerFilled
      /\ n.halt = s.halt /\ n.done = s.done /\ n.inFlightReason = s.inFlightReason
  BY <1>1 DEF AfterFill, State, SameBase
<1> HIDE DEF n
<1> QED
  BY <1>2 DEF JournalOK, PricesOK, SameBase, Started, Unresolved, HasOrder, n

\* RecFinish.
LEMMA FinishOK ==
    ASSUME NEW s \in State, JournalOK(s), PricesOK(s), NEW r \in Reasons \cup {""},
           FinishApplies(s, r)
    PROVE  LET n == AfterFinish(s, r) IN
           /\ n \in State /\ JournalOK(n) /\ PricesOK(n) /\ SameBase(n, s)
           /\ n.order = s.order /\ n.inFlight = s.inFlight /\ n.brokerFilled = s.brokerFilled
           /\ n.done # ""
<1> DEFINE n == AfterFinish(s, r)
<1>1. /\ n \in State /\ SameBase(n, s) /\ n.order = s.order /\ n.inFlight = s.inFlight
      /\ n.brokerFilled = s.brokerFilled /\ n.done = r /\ r # ""
  BY DEF AfterFinish, State, SameBase, FinishApplies
<1>2. Started(s) /\ ~Unresolved(s) /\ ~HasOrder(s)
  BY DEF FinishApplies
<1> HIDE DEF n
<1> QED
  BY <1>1, <1>2 DEF JournalOK, PricesOK, SameBase, Started, Unresolved, HasOrder, n
-----------------------------------------------------------------------------
\* Finite images and maxima.

\* The image of a finite set is finite.
LEMMA FiniteImage ==
    ASSUME NEW S, IsFiniteSet(S), NEW f
    PROVE  IsFiniteSet({f[x] : x \in S})
<1> DEFINE T == {f[x] : x \in S}
           g == [x \in S |-> f[x]]
<1>1. g \in Surjection(S, T)
  BY DEF Surjection
<1> HIDE DEF g, T
<1>2. IsFiniteSet(T)
  BY <1>1, FS_Surjection
<1> QED
  BY <1>2 DEF T

\* A finite set of integers has a maximum.
LEMMA MaxIsGreatest ==
    ASSUME NEW S, IsFiniteSet(S), S # {}, S \subseteq Int
    PROVE  Max(S) \in S /\ \A y \in S : y <= Max(S)
<1> DEFINE G == {T \in SUBSET S : T # {} => \E x \in T : \A y \in T : x >= y}
<1>1. ASSUME NEW T \in SUBSET S, \A x \in T : T \ {x} \in G
      PROVE  T \in G
  <2> SUFFICES ASSUME T # {} PROVE \E x \in T : \A y \in T : x >= y
    OBVIOUS
  <2>1. PICK c \in T : TRUE
    OBVIOUS
  <2>2. CASE T = {c}
    BY <2>2
  <2>3. CASE T # {c}
    <3>1. PICK x \in T \ {c} : \A y \in T \ {c} : x >= y
      BY <1>1, <2>3
    <3>2. x \in Int /\ c \in Int /\ T \subseteq Int
      OBVIOUS
    <3>3. CASE x >= c
      BY <3>1, <3>3
    <3>4. CASE c >= x
      <4>1. \A y \in T : c >= y
        BY <3>1, <3>2, <3>4
      <4> QED
        BY <4>1
    <3> QED
      BY <3>2, <3>3, <3>4
  <2> QED
    BY <2>2, <2>3
<1> HIDE DEF G
<1>2. \A T \in SUBSET S : T \in G
  BY <1>1, SubsetInduction, Zenon
<1>3. \E x \in S : \A y \in S : x >= y
  BY <1>2 DEF G
<1>4. Max(S) \in S /\ \A y \in S : Max(S) >= y
  BY <1>3 DEF Max
<1> QED
  BY <1>4

-----------------------------------------------------------------------------
\* E1's exposure.

\* What counts towards the caps: finitely many quantities and notionals.
IsCounted(counted) ==
    /\ IsFiniteSet(counted)
    /\ \A c \in counted : c.qty \in Nat /\ c.notional \in Nat

\* Every State counts that way.
LEMMA CountedTyped ==
    ASSUME NEW s \in State
    PROVE  IsCounted(Counted(s))
<1> DEFINE D == {j \in DOMAIN s.sent : Opening(s.sent[j])}
           f == [i \in D |-> [root |-> RootOf(s, s.sent[i].key), qty |-> s.sent[i].qty,
                              notional |-> s.sent[i].qty * s.sent[i].price]]
<1>1. Len(s.sent) \in Nat /\ DOMAIN s.sent = 1 .. Len(s.sent) /\ s.sent \in Seq(Child)
  BY StateFields
<1>2. IsFiniteSet(D)
  <2>1. IsFiniteSet(1 .. Len(s.sent))
    BY <1>1, FS_Interval
  <2> QED
    BY <1>1, <2>1, FS_Subset
<1>3. Counted(s) = {f[i] : i \in D}
  BY DEF Counted
<1>4. IsFiniteSet(Counted(s))
  <2> HIDE DEF f, D
  <2> QED
    BY <1>2, <1>3, FiniteImage
<1>5. \A i \in D : s.sent[i].qty \in Nat /\ s.sent[i].qty * s.sent[i].price \in Nat
  <2>1. \A i \in D : s.sent[i] \in Child
    BY <1>1
  <2>2. \A c \in Child : c.qty \in Nat /\ c.price \in Nat
    BY DEF Child
  <2>3. \A a, b \in Nat : a * b \in Nat
    OBVIOUS
  <2> QED
    BY <2>1, <2>2, <2>3
<1>6. \A c \in Counted(s) : c.qty \in Nat /\ c.notional \in Nat
  BY <1>5 DEF Counted
<1> QED
  BY <1>4, <1>6 DEF IsCounted

\* A lineage's high-water marks are those of its children.
LEMMA HighWater ==
    ASSUME NEW counted, IsCounted(counted), NEW r \in Lineages(counted)
    PROVE  /\ HighQty(counted, r) \in Nat /\ HighNotional(counted, r) \in Nat
           /\ \A c \in counted : c.root = r => /\ c.qty <= HighQty(counted, r)
                                              /\ c.notional <= HighNotional(counted, r)
<1> DEFINE D == {d \in counted : d.root = r}
           Q == {c.qty : c \in D}
           N == {c.notional : c \in D}
           fq == [c \in D |-> c.qty]
           fn == [c \in D |-> c.notional]
<1>1. IsFiniteSet(D) /\ D # {}
  BY FS_Subset DEF IsCounted, Lineages
<1>2. Q = {fq[c] : c \in D} /\ N = {fn[c] : c \in D}
  OBVIOUS
<1>3. Q \subseteq Nat /\ N \subseteq Nat /\ Q # {} /\ N # {}
  BY <1>1 DEF IsCounted
<1>4. IsFiniteSet(Q) /\ IsFiniteSet(N)
  <2> HIDE DEF fq, fn, Q, N, D
  <2> QED
    BY <1>1, <1>2, FiniteImage
<1>5. \A c \in counted : c.root = r => c.qty \in Q /\ c.notional \in N
  OBVIOUS
<1>6. HighQty(counted, r) = Max(Q) /\ HighNotional(counted, r) = Max(N)
  BY DEF HighQty, HighNotional
<1> HIDE DEF Q, N
<1>7. Q \subseteq Int /\ N \subseteq Int
  BY <1>3
<1>8. Max(Q) \in Q /\ \A y \in Q : y <= Max(Q)
  BY <1>3, <1>4, <1>7, MaxIsGreatest
<1>9. Max(N) \in N /\ \A y \in N : y <= Max(N)
  BY <1>3, <1>4, <1>7, MaxIsGreatest
<1> QED
  BY <1>3, <1>5, <1>6, <1>8, <1>9

\* Lineages are finitely many.
LEMMA LineagesFinite ==
    ASSUME NEW counted, IsCounted(counted)
    PROVE  \A roots \in SUBSET Lineages(counted) : IsFiniteSet(roots)
<1> DEFINE f == [c \in counted |-> c.root]
<1>1. Lineages(counted) = {f[c] : c \in counted}
  BY DEF Lineages
<1>2. IsFiniteSet(Lineages(counted))
  <2> HIDE DEF f
  <2> QED
    BY <1>1, FiniteImage DEF IsCounted
<1> QED
  BY <1>2, FS_Subset

\* Totals are natural numbers.
LEMMA TotalsTyped ==
    ASSUME NEW counted, IsCounted(counted), NEW roots \in SUBSET Lineages(counted)
    PROVE  TotalQty(counted, roots) \in Nat /\ TotalNotional(counted, roots) \in Nat
<1> DEFINE q == [r \in roots |-> HighQty(counted, r)]
           n == [r \in roots |-> HighNotional(counted, r)]
<1>1. IsFiniteSet(roots)
  BY LineagesFinite
<1>2. \A r \in roots : q[r] \in Nat /\ n[r] \in Nat
  BY HighWater
<1>3. \A r \in roots : q[r] \in Int /\ n[r] \in Int /\ q[r] >= 0 /\ n[r] >= 0
  BY <1>2
<1>4. TotalQty(counted, roots) = SumFunctionOnSet(q, roots)
      /\ TotalNotional(counted, roots) = SumFunctionOnSet(n, roots)
  BY DEF TotalQty, TotalNotional
<1> HIDE DEF q, n
<1>5. SumFunctionOnSet(q, roots) \in Nat
  BY <1>1, <1>3, SumType
<1>6. SumFunctionOnSet(n, roots) \in Nat
  BY <1>1, <1>3, SumType
<1> QED
  BY <1>4, <1>5, <1>6

\* E1's room is a quantity and a notional.
LEMMA RoomTyped ==
    ASSUME NEW s \in State, NEW root
    PROVE  /\ E1RoomQty(s, root) \in Nat /\ E1RoomNotional(s, root) \in Nat
           /\ InventoryRoom(s.intent) \in Int
<1> DEFINE counted == Counted(s)
           roots == Lineages(counted) \ {root}
<1>1. TotalQty(counted, roots) \in Nat /\ TotalNotional(counted, roots) \in Nat
  BY CountedTyped, TotalsTyped
<1>2. s.intent \in IntentRecord
  BY StateFields
<1>3. /\ s.intent.maxQuantity \in Nat /\ s.intent.maxNotional \in Nat
      /\ InventoryRoom(s.intent) \in Int
  BY <1>2 DEF IntentRecord, InventoryRoom
<1>4. \A a, b, t \in Int : Larger(Smaller(a, b) - t, 0) \in Nat /\ Larger(a - t, 0) \in Nat
  BY DEF Larger, Smaller
<1>5. E1RoomQty(s, root) = Larger(Smaller(s.intent.maxQuantity, InventoryRoom(s.intent))
                                    - TotalQty(counted, roots), 0)
  BY DEF E1RoomQty
<1>6. E1RoomNotional(s, root) = Larger(s.intent.maxNotional - TotalNotional(counted, roots), 0)
  BY DEF E1RoomNotional
<1> HIDE DEF counted, roots
<1>7. /\ s.intent.maxQuantity \in Int /\ s.intent.maxNotional \in Int
      /\ TotalQty(counted, roots) \in Int /\ TotalNotional(counted, roots) \in Int
  BY <1>1, <1>3
<1> QED
  BY <1>3, <1>4, <1>5, <1>6, <1>7, Zenon

-----------------------------------------------------------------------------
\* Prices on the grid.

\* A price the grid has, or none.
Grid(p) == p = FloorTick(p)

\* A tick is positive.
LEMMA TickPositive ==
    ASSUME NEW p \in Int
    PROVE  TickAt(p) \in Nat \ {0}
<1>1. CASE p < 2000
  <2>1. TickAt(p) = 1
    BY <1>1, SMT DEF TickAt
  <2> QED
    BY <2>1
<1>2. CASE p >= 2000 /\ p < 5000
  <2>1. TickAt(p) = 5
    BY <1>2, SMT DEF TickAt
  <2> QED
    BY <2>1
<1>3. CASE p >= 5000 /\ p < 20000
  <2>1. TickAt(p) = 10
    BY <1>3, SMT DEF TickAt
  <2> QED
    BY <2>1
<1>4. CASE p >= 20000 /\ p < 50000
  <2>1. TickAt(p) = 50
    BY <1>4, SMT DEF TickAt
  <2> QED
    BY <2>1
<1>5. CASE p >= 50000 /\ p < 200000
  <2>1. TickAt(p) = 100
    BY <1>5, SMT DEF TickAt
  <2> QED
    BY <2>1
<1>6. CASE p >= 200000 /\ p < 500000
  <2>1. TickAt(p) = 500
    BY <1>6, SMT DEF TickAt
  <2> QED
    BY <2>1
<1>7. CASE p >= 500000
  <2>1. TickAt(p) = 1000
    BY <1>7, SMT DEF TickAt
  <2> QED
    BY <2>1
<1> QED
  BY <1>1, <1>2, <1>3, <1>4, <1>5, <1>6, <1>7

\* The grid prices are OnGrid's, and 0.
LEMMA GridPrice ==
    ASSUME NEW p \in Nat
    PROVE  Grid(p) <=> p = 0 \/ OnGrid(p)
<1>1. CASE p = 0
  BY <1>1 DEF Grid, FloorTick
<1>2. CASE p # 0
  <2>1. TickAt(p) \in Nat \ {0}
    BY TickPositive
  <2>2. p % TickAt(p) \in Nat
    BY <2>1
  <2> QED
    BY <1>2, <2>2 DEF Grid, FloorTick, OnGrid
<1> QED
  BY <1>1, <1>2

\* FloorTick moves a price onto the grid, not up, and past no grid price.
LEMMA FloorGrid ==
    ASSUME NEW p \in Nat
    PROVE  /\ FloorTick(p) \in Nat /\ FloorTick(p) <= p /\ Grid(FloorTick(p))
           /\ \A g \in Nat : Grid(g) /\ g <= p => g <= FloorTick(p)
<1>1. CASE p = 0
  BY <1>1 DEF Grid, FloorTick
<1>2. CASE p # 0
  <2>1. FloorTick(p) \in Nat /\ FloorTick(p) <= p /\ OnGrid(FloorTick(p))
    BY <1>2, FloorBelow
  <2>2. ASSUME NEW g \in Nat, Grid(g), g <= p PROVE g <= FloorTick(p)
    <3>1. CASE g = 0
      BY <2>1, <3>1
    <3>2. CASE OnGrid(g)
      BY <1>2, <2>2, <3>2, FloorNearest
    <3> QED
      BY <2>2, <3>1, <3>2, GridPrice
  <2> QED
    BY <2>1, <2>2, GridPrice
<1> QED
  BY <1>1, <1>2

\* A step of a working order's price stays on the grid, and does not pass the cap.
LEMMA StepGrid ==
    ASSUME NEW side \in Sides, NEW p \in Nat, NEW c \in Nat,
           IF side = Buy THEN c > p ELSE c < p, side = Sell => c >= 1
    PROVE  LET n == StepToward(side, p, c) IN
           /\ n \in Nat /\ n >= 1
           /\ IF side = Buy THEN n <= c ELSE n >= c
           /\ Grid(p) /\ Grid(c) => Grid(n)
<1> DEFINE n == StepToward(side, p, c)
<1>1. TickAt(p) \in Nat \ {0} /\ TickAt(p - 1) \in Nat \ {0}
  BY TickPositive
<1>2. CASE side = Buy
  <2>1. n \in Nat /\ n >= 1 /\ n <= c
    BY <1>1, <1>2 DEF StepToward, Smaller
  <2>2. ASSUME Grid(p), Grid(c) PROVE Grid(n)
    <3>1. OnGrid(c)
      BY <1>2, <2>2, GridPrice
    <3>2. CASE p = 0
      <4>1. TickAt(0) = 1 /\ TickAt(1) = 1
        BY SMT DEF TickAt
      <4>2. n = 1
        BY <1>2, <3>2, <4>1 DEF StepToward, Smaller
      <4>3. Grid(1)
        BY <4>1 DEF Grid, FloorTick
      <4> QED
        BY <4>2, <4>3
    <3>3. CASE OnGrid(p)
      <4>1. n \in Nat /\ OnGrid(n)
        BY <1>2, <3>1, <3>3, BuyStep
      <4> QED
        BY <4>1, GridPrice
    <3> QED
      BY <2>2, <3>2, <3>3, GridPrice
  <2> QED
    BY <1>2, <2>1, <2>2
<1>3. CASE side = Sell
  <2>0. side # Buy
    BY <1>3 DEF Buy, Sell
  <2>1. n \in Nat /\ n >= 1 /\ n >= c
    BY <1>1, <1>3, <2>0 DEF StepToward, Larger
  <2>2. ASSUME Grid(p), Grid(c) PROVE Grid(n)
    <3>1. OnGrid(c) /\ OnGrid(p) /\ p > c
      BY <1>3, <2>0, <2>2, GridPrice
    <3>2. n \in Nat /\ OnGrid(n)
      BY <1>3, <3>1, SellStep
    <3> QED
      BY <3>2, GridPrice
  <2> QED
    BY <2>0, <2>1, <2>2
<1> QED
  BY <1>2, <1>3 DEF Sides

\* The cap of a valid intent is a grid price.
LEMMA CapGrid ==
    ASSUME NEW in \in IntentRecord, Validate(in)
    PROVE  Cap(in) \in Nat /\ Cap(in) >= 1 /\ Grid(Cap(in))
<1>1. in.side \in Sides /\ in.limitPrice \in Nat \ {0} /\ Cap(in) >= 1
  BY SMT DEF Validate, IntentRecord
<1>2. Cap(in) \in Nat /\ OnGrid(Cap(in))
  BY <1>1, FloorBelow, CeilAbove DEF Cap
<1> QED
  BY <1>1, <1>2, GridPrice
-----------------------------------------------------------------------------
\* What division tells of products.
LEMMA Quotient ==
    ASSUME NEW a \in Nat, NEW b \in Nat \ {0}
    PROVE  /\ a \div b \in Nat
           /\ \A q \in Nat : /\ q * b <= a => q <= a \div b
                             /\ q * b > a => a \div b <= q
                             /\ q <= a \div b => q * b <= a
OBVIOUS

\* The state was started with a valid intent.
IntentOK(s) ==
    Started(s) => /\ Validate(s.intent)
                  /\ s.cap = Cap(s.intent) /\ s.target = TargetQty(s.intent)

\* What remains is an integer, at most the target.
LEMMA RemainingTyped ==
    ASSUME NEW s \in State
    PROVE  Remaining(s) \in Int /\ Remaining(s) <= s.target
<1>1. s.target \in Nat /\ s.filled \in Nat /\ s.brokerFilled \in Nat
  BY StateFields
<1> QED
  BY <1>1 DEF Remaining, Larger

\* fitNewOrder fits a new order into what remains and into E1's room, at a price
\* no worse than the cap.
LEMMA FitFits ==
    ASSUME NEW s \in State, IntentOK(s), Started(s), NEW p \in Nat \ {0},
           ~Worse(s.intent, p, s.cap), FitQty(s, p) >= 1
    PROVE  LET q == FitQty(s, p)
               price == FitPrice(s, p) IN
           /\ q \in Nat /\ q <= Remaining(s) /\ q <= E1RoomQty(s, 0)
           /\ price \in Nat \ {0} /\ ~Worse(s.intent, price, s.cap)
           /\ q * price <= E1RoomNotional(s, 0)
           /\ Grid(p) => Grid(price)
<1> DEFINE room == E1RoomNotional(s, 0)
           roomQ == E1RoomQty(s, 0)
           rest == Remaining(s)
           q0 == Smaller(rest, roomQ)
           q == FitQty(s, p)
           price == FitPrice(s, p)
           cap == s.cap
<1>1. room \in Nat /\ roomQ \in Nat /\ rest \in Int
  BY RoomTyped, RemainingTyped
<1>2. s.intent \in IntentRecord /\ Validate(s.intent) /\ s.intent.side \in Sides
  <2>1. Validate(s.intent) => s.intent.side \in Sides
    BY SMT DEF Validate
  <2> QED
    BY <2>1, StateFields DEF IntentOK
<1>3. cap \in Nat /\ cap >= 1 /\ Grid(cap)
  BY <1>2, CapGrid DEF IntentOK
<1>4. q = CASE q0 < 1 -> 0
            [] q0 >= 1 /\ s.intent.side = Buy -> Smaller(q0, room \div p)
            [] q0 >= 1 /\ s.intent.side # Buy ->
                  IF q0 * cap > room THEN room \div cap ELSE q0
  BY DEF FitQty
<1>5. price = IF s.intent.side = Buy \/ q < 1 THEN p ELSE Smaller(p, FloorTick(room \div q))
  BY DEF FitPrice
<1>6. q >= 1
  OBVIOUS
<1>7. Worse(s.intent, p, cap) <=> IF s.intent.side = Buy THEN p > cap ELSE p < cap
  BY DEF Worse
<1>8. Worse(s.intent, price, cap) <=> IF s.intent.side = Buy THEN price > cap ELSE price < cap
  BY DEF Worse
<1>9. ~Worse(s.intent, p, cap)
  OBVIOUS
<1> HIDE DEF room, roomQ, rest, q, price, cap
<1>10. q0 \in Int /\ q0 <= rest /\ q0 <= roomQ
  BY <1>1 DEF Smaller
<1> HIDE DEF q0
<1>11. q0 >= 1
  <2>1. CASE q0 < 1
    <3>1. q = 0
      BY <1>4, <1>10, <2>1
    <3> QED
      BY <1>6, <3>1
  <2> QED
    BY <1>10, <2>1
<1>12. room \div p \in Nat /\ room \div cap \in Nat
  BY <1>1, <1>3, Quotient
<1>13. CASE s.intent.side = Buy
  <2>1. q = Smaller(q0, room \div p)
    BY <1>4, <1>11, <1>13
  <2>2. q \in Nat /\ q <= q0 /\ q <= room \div p
    BY <1>6, <1>10, <1>12, <2>1 DEF Smaller
  <2>3. price = p
    BY <1>5, <1>13
  <2>4. q * p <= room
    BY <1>1, <2>2, Quotient
  <2> QED
    BY <1>1, <1>7, <1>8, <1>9, <1>10, <1>13, <2>2, <2>3, <2>4 DEF room, roomQ, rest, q, price, cap
<1>14. CASE s.intent.side # Buy
  <2>1. q = IF q0 * cap > room THEN room \div cap ELSE q0
    BY <1>4, <1>11, <1>14
  <2>2. q0 \in Nat /\ q0 * cap \in Nat
    BY <1>3, <1>10, <1>11
  <2>3. q \in Nat /\ q <= q0 /\ q * cap <= room
    <3>1. CASE q0 * cap > room
      BY <1>1, <1>3, <1>12, <2>1, <2>2, <3>1, Quotient
    <3>2. CASE ~(q0 * cap > room)
      BY <1>1, <2>1, <2>2, <3>2
    <3> QED
      BY <3>1, <3>2
  <2>4. q \in Nat \ {0}
    BY <1>6, <2>3
  <2>5. room \div q \in Nat /\ cap <= room \div q
    <3>1. cap * q <= room
      BY <1>3, <2>3
    <3> QED
      BY <1>1, <1>3, <2>4, <3>1, Quotient
  <2> DEFINE fl == FloorTick(room \div q)
  <2>6. fl \in Nat /\ fl <= room \div q /\ Grid(fl) /\ cap <= fl
    BY <1>3, <2>5, FloorGrid
  <2> HIDE DEF fl
  <2>7. price = Smaller(p, fl)
    BY <1>5, <1>14, <2>4 DEF fl
  <2>8. p >= cap
    BY <1>3, <1>7, <1>9, <1>14
  <2>9. price \in Nat /\ price >= cap /\ price <= fl /\ (Grid(p) => Grid(price))
    BY <1>3, <2>6, <2>7, <2>8 DEF Smaller
  <2>10. q * price <= room
    <3>1. price <= room \div q
      BY <2>5, <2>6, <2>9
    <3>2. price * q <= room
      BY <1>1, <2>4, <2>9, <3>1, Quotient
    <3> QED
      BY <2>4, <2>9, <3>2
  <2> QED
    BY <1>1, <1>3, <1>8, <1>10, <1>14, <2>3, <2>9, <2>10 DEF room, roomQ, rest, q, price, cap
<1> QED
  BY <1>13, <1>14

\* What an amend may carry: no more than remains, up to a cap on the grid and no
\* worse than the intent's.
LEMMA AmendFits ==
    ASSUME NEW s \in State, IntentOK(s), Started(s)
    PROVE  /\ AmendQty(s) \in Int /\ AmendQty(s) <= Remaining(s)
           /\ AmendCap(s) \in Nat /\ Grid(AmendCap(s)) /\ ~Worse(s.intent, AmendCap(s), s.cap)
           /\ s.intent.side # Buy => AmendCap(s) = s.cap
<1> DEFINE root == RootOf(s, s.order.key)
           room == E1RoomNotional(s, root)
           roomQ == E1RoomQty(s, root)
           rest == Remaining(s)
           q == AmendQty(s)
           fl == FloorTick(room \div q)
<1>1. room \in Nat /\ roomQ \in Nat /\ rest \in Int
  BY RoomTyped, RemainingTyped
<1>2. s.order.qty \in Nat
  BY StateFields DEF Order
<1>3. q = Smaller(IF s.order.qty > 0 THEN Smaller(rest, s.order.qty) ELSE rest, roomQ)
  BY DEF AmendQty
<1>4. s.intent \in IntentRecord /\ Validate(s.intent)
  BY StateFields DEF IntentOK
<1>5. s.cap \in Nat /\ s.cap >= 1 /\ Grid(s.cap)
  BY <1>4, CapGrid DEF IntentOK
<1>6. AmendCap(s) = IF s.intent.side = Buy /\ q > 0 THEN Smaller(s.cap, fl) ELSE s.cap
  BY DEF AmendCap
<1> HIDE DEF room, roomQ, rest, q, root
<1>7. q \in Int /\ q <= rest
  BY <1>1, <1>2, <1>3 DEF Smaller
<1>8. CASE s.intent.side = Buy /\ q > 0
  <2>1. room \div q \in Nat
    BY <1>1, <1>7, <1>8, Quotient
  <2>2. fl \in Nat /\ Grid(fl)
    BY <2>1, FloorGrid
  <2> HIDE DEF fl
  <2>3. AmendCap(s) \in Nat /\ Grid(AmendCap(s)) /\ AmendCap(s) <= s.cap
    BY <1>5, <1>6, <1>8, <2>2 DEF Smaller
  <2> QED
    BY <1>5, <1>7, <1>8, <2>3 DEF Worse, q, rest
<1>9. CASE ~(s.intent.side = Buy /\ q > 0)
  <2>1. AmendCap(s) = s.cap
    BY <1>6, <1>9
  <2> QED
    BY <1>5, <1>7, <2>1 DEF Worse, q, rest
<1> QED
  BY <1>8, <1>9
-----------------------------------------------------------------------------
\* rootOf is the recursion over the children that its definition says.

\* rootOf as a recursion over the children.
IsRoot(s, f, n) ==
    f = [i \in 1 .. n |->
            LET t == s.sent[i].target IN
            IF t = 0 THEN s.sent[i].key
            ELSE IF SentAmong(s, t, i - 1) THEN f[FirstSent(s, t, i - 1)]
            ELSE t]

\* Keys are numbered in the order they are sent.
LEMMA KeysInOrder ==
    ASSUME NEW s \in State, JournalOK(s)
    PROVE  /\ Len(s.sent) \in Nat /\ DOMAIN s.sent = 1 .. Len(s.sent)
           /\ \A i \in 1 .. Len(s.sent) : s.sent[i].key = i /\ s.sent[i] \in Child
                                        /\ s.sent[i].target \in Nat
<1>1. Len(s.sent) \in Nat /\ DOMAIN s.sent = 1 .. Len(s.sent) /\ s.sent \in Seq(Child)
  BY StateFields
<1>2. \A i \in DOMAIN s.sent : s.sent[i].key = i
  BY Zenon DEF JournalOK
<1>3. \A i \in 1 .. Len(s.sent) : s.sent[i] \in Child
  BY <1>1
<1>4. \A c \in Child : c.target \in Nat
  BY DEF Child
<1> QED
  BY <1>1, <1>2, <1>3, <1>4

\* With keys numbered in order, sentKey finds key k at place k.
LEMMA SentAt ==
    ASSUME NEW s \in State, JournalOK(s), NEW n \in 0 .. Len(s.sent), NEW k \in Nat
    PROVE  /\ SentAmong(s, k, n) <=> k \in 1 .. n
           /\ k \in 1 .. n => FirstSent(s, k, n) = k
<1>1. Len(s.sent) \in Nat /\ DOMAIN s.sent = 1 .. Len(s.sent)
  BY StateFields
<1>2. \A i \in 1 .. n : s.sent[i].key = i
  BY <1>1, KeysInOrder
<1>3. SentAmong(s, k, n) <=> k \in 1 .. n
  BY <1>2 DEF SentAmong
<1>4. ASSUME k \in 1 .. n PROVE FirstSent(s, k, n) = k
  <2>1. {i \in 1 .. n : s.sent[i].key = k} = {k}
    BY <1>2, <1>4
  <2>2. FirstSent(s, k, n) = Min({k})
    BY <2>1 DEF FirstSent
  <2>3. Min({k}) = k
    <3>1. \E x \in {k} : \A y \in {k} : x <= y
      OBVIOUS
    <3>2. Min({k}) \in {k}
      BY <3>1 DEF Min
    <3> QED
      BY <3>2
  <2> QED
    BY <2>2, <2>3
<1> QED
  BY <1>3, <1>4

\* What a child's root is, by its target.
LEMMA RootCase ==
    ASSUME NEW s \in State, JournalOK(s), NEW n \in 0 .. Len(s.sent), NEW f, IsRoot(s, f, n),
           NEW i \in 1 .. n
    PROVE  LET t == s.sent[i].target IN
           f[i] = IF t = 0 THEN i ELSE IF t \in 1 .. i - 1 THEN f[t] ELSE t
<1> DEFINE t == s.sent[i].target
<1>1. Len(s.sent) \in Nat
  BY StateFields
<1>2. i \in 1 .. Len(s.sent) /\ i - 1 \in 0 .. Len(s.sent)
  BY <1>1
<1>3. t \in Nat /\ s.sent[i].key = i
  BY <1>2, KeysInOrder
<1>4. f[i] = IF t = 0 THEN s.sent[i].key
             ELSE IF SentAmong(s, t, i - 1) THEN f[FirstSent(s, t, i - 1)] ELSE t
  BY Zenon DEF IsRoot
<1>5. /\ SentAmong(s, t, i - 1) <=> t \in 1 .. i - 1
      /\ t \in 1 .. i - 1 => FirstSent(s, t, i - 1) = t
  BY <1>2, <1>3, SentAt
<1> HIDE DEF t
<1>6. f[i] = IF t = 0 THEN i ELSE IF t \in 1 .. i - 1 THEN f[t] ELSE t
  BY <1>3, <1>4, <1>5
<1> QED
  BY <1>6 DEF t

\* The recursion has a solution up to every place.
LEMMA RootExists ==
    ASSUME NEW s \in State, JournalOK(s)
    PROVE  \A n \in 0 .. Len(s.sent) : \E f : IsRoot(s, f, n)
<1>1. Len(s.sent) \in Nat /\ DOMAIN s.sent = 1 .. Len(s.sent) /\ s.sent \in Seq(Child)
  BY StateFields
<1> DEFINE Bad == {n \in 0 .. Len(s.sent) : ~ \E f : IsRoot(s, f, n)}
<1> SUFFICES ASSUME Bad # {} PROVE FALSE
  OBVIOUS
<1>2. PICK n \in Bad : \A m \in Bad : n <= m
  <2>1. Bad \in SUBSET Nat
    BY <1>1
  <2> HIDE DEF Bad
  <2> QED
    BY <2>1, LeastNat
<1>3. n \in 0 .. Len(s.sent) /\ ~ \E f : IsRoot(s, f, n)
  OBVIOUS
<1>4. n # 0
  <2>1. IsRoot(s, [i \in 1 .. 0 |-> 0], 0)
    BY DEF IsRoot
  <2> QED
    BY <1>3, <2>1
<1>5. n - 1 \in 0 .. Len(s.sent) /\ n - 1 \notin Bad
  BY <1>1, <1>2, <1>3, <1>4
<1>6. PICK f : IsRoot(s, f, n - 1)
  BY <1>5
<1> DEFINE body(h, i) == LET t == s.sent[i].target IN
                         IF t = 0 THEN s.sent[i].key
                         ELSE IF SentAmong(s, t, i - 1) THEN h[FirstSent(s, t, i - 1)]
                         ELSE t
           g == [i \in 1 .. n |-> body(f, i)]
<1>7. \A i \in 1 .. n - 1 : f[i] = body(f, i)
  BY <1>6, Zenon DEF IsRoot
<1>8. \A i \in 1 .. n - 1 : g[i] = f[i]
  <2>1. \A i \in 1 .. n - 1 : i \in 1 .. n
    BY <1>1, <1>3
  <2> HIDE DEF body
  <2> QED
    BY <1>7, <2>1
<1>9. ASSUME NEW i \in 1 .. n PROVE body(g, i) = body(f, i)
  <2> DEFINE t == s.sent[i].target
  <2>1. i \in DOMAIN s.sent /\ i - 1 \in 0 .. Len(s.sent)
    BY <1>1, <1>3, <1>9
  <2>2. t \in Nat
    BY <1>1, <2>1, KeysInOrder
  <2>3. SentAmong(s, t, i - 1) => FirstSent(s, t, i - 1) \in 1 .. n - 1
    <3>1. /\ SentAmong(s, t, i - 1) <=> t \in 1 .. i - 1
          /\ t \in 1 .. i - 1 => FirstSent(s, t, i - 1) = t
      BY <2>1, <2>2, SentAt
    <3> HIDE DEF t
    <3> QED
      BY <1>1, <1>3, <1>9, <3>1
  <2> HIDE DEF g
  <2> QED
    BY <1>8, <2>3
<1>10. IsRoot(s, g, n)
  <2>1. g = [i \in 1 .. n |-> body(g, i)]
    <3> DEFINE g2 == [i \in 1 .. n |-> body(g, i)]
    <3>1. \A i \in 1 .. n : g[i] = body(f, i) /\ g2[i] = body(g, i)
      OBVIOUS
    <3> HIDE DEF body
    <3> QED
      BY <1>9, <3>1
  <2> HIDE DEF g
  <2> QED
    BY <2>1, Zenon DEF IsRoot
<1> QED
  BY <1>3, <1>10

\* So Roots solves it, and rootOf a sent key is found there.
LEMMA RootsAre ==
    ASSUME NEW s \in State, JournalOK(s)
    PROVE  /\ IsRoot(s, Roots(s), Len(s.sent))
           /\ \A k \in Nat : RootOf(s, k) = IF k \in 1 .. Len(s.sent) THEN Roots(s)[k] ELSE k
<1>1. Len(s.sent) \in Nat
  BY StateFields
<1>2. Roots(s) = CHOOSE f : IsRoot(s, f, Len(s.sent))
  BY Zenon DEF Roots, IsRoot
<1>3. \E f : IsRoot(s, f, Len(s.sent))
  BY <1>1, RootExists
<1>4. IsRoot(s, Roots(s), Len(s.sent))
  BY <1>2, <1>3, Zenon
<1>5. ASSUME NEW k \in Nat
      PROVE  RootOf(s, k) = IF k \in 1 .. Len(s.sent) THEN Roots(s)[k] ELSE k
  <2>1. /\ SentAmong(s, k, Len(s.sent)) <=> k \in 1 .. Len(s.sent)
        /\ k \in 1 .. Len(s.sent) => FirstSent(s, k, Len(s.sent)) = k
    BY <1>1, SentAt
  <2> QED
    BY <2>1 DEF RootOf
<1> QED
  BY <1>4, <1>5

\* A submit is its own root.
LEMMA SubmitRoot ==
    ASSUME NEW s \in State, JournalOK(s), NEW i \in DOMAIN s.sent, s.sent[i].target = 0
    PROVE  RootOf(s, s.sent[i].key) = i
<1>1. Len(s.sent) \in Nat /\ i \in 1 .. Len(s.sent)
  BY KeysInOrder
<1>2. s.sent[i].key = i /\ i \in Nat /\ i \in 1 .. Len(s.sent)
  BY <1>1, KeysInOrder
<1>3. RootOf(s, i) = Roots(s)[i] /\ IsRoot(s, Roots(s), Len(s.sent))
  BY <1>2, RootsAre
<1>4. Roots(s)[i] = i
  BY <1>1, <1>2, <1>3, RootCase
<1> QED
  BY <1>2, <1>3, <1>4
-----------------------------------------------------------------------------
\* What one more child adds to the lineages.

\* Every child targets one sent before it, or none; the order is one of them.
LineageOK(s) ==
    /\ \A i \in 1 .. Len(s.sent) : s.sent[i].target < i
    /\ s.order.key <= Len(s.sent)

\* Then every root is a child sent.
LEMMA RootsSent ==
    ASSUME NEW s \in State, JournalOK(s), LineageOK(s)
    PROVE  \A i \in 1 .. Len(s.sent) : RootOf(s, s.sent[i].key) \in 1 .. Len(s.sent)
<1>1. Len(s.sent) \in Nat
  BY StateFields
<1> DEFINE Bad == {i \in 1 .. Len(s.sent) : Roots(s)[i] \notin 1 .. Len(s.sent)}
<1>2. Bad = {}
  <2> SUFFICES ASSUME Bad # {} PROVE FALSE
    OBVIOUS
  <2>1. PICK i \in Bad : \A j \in Bad : i <= j
    <3>1. Bad \in SUBSET Nat
      BY <1>1
    <3> HIDE DEF Bad
    <3> QED
      BY <3>1, LeastNat
  <2> DEFINE t == s.sent[i].target
  <2>2. i \in 1 .. Len(s.sent) /\ Roots(s)[i] \notin 1 .. Len(s.sent)
    OBVIOUS
  <2>3. t \in Nat /\ t < i
    BY <2>2, KeysInOrder DEF LineageOK
  <2>4. Roots(s)[i] = IF t = 0 THEN i ELSE IF t \in 1 .. i - 1 THEN Roots(s)[t] ELSE t
    BY <1>1, <2>2, RootsAre, RootCase
  <2> HIDE DEF t
  <2>5. t # 0 => t \in 1 .. i - 1 /\ t \in 1 .. Len(s.sent)
    BY <1>1, <2>2, <2>3
  <2>6. t # 0 => Roots(s)[t] \in 1 .. Len(s.sent)
    BY <1>1, <2>1, <2>2, <2>3, <2>5
  <2> HIDE DEF Bad
  <2> QED
    BY <2>2, <2>4, <2>5, <2>6
<1>3. \A i \in 1 .. Len(s.sent) : s.sent[i].key = i /\ i \in Nat
  BY <1>1, KeysInOrder
<1>4. \A i \in 1 .. Len(s.sent) : RootOf(s, i) = Roots(s)[i]
  BY <1>3, RootsAre
<1> QED
  BY <1>2, <1>3, <1>4

\* A new lineage adds its one child to the totals.
LEMMA NewLineage ==
    ASSUME NEW counted, IsCounted(counted), NEW k, k \notin Lineages(counted),
           NEW q \in Nat, NEW m \in Nat
    PROVE  LET more == counted \cup {[root |-> k, qty |-> q, notional |-> m]}
               old == Lineages(counted)
               all == Lineages(more) IN
           /\ TotalQty(more, all) = q + TotalQty(counted, old)
           /\ TotalNotional(more, all) = m + TotalNotional(counted, old)
<1> DEFINE new == [root |-> k, qty |-> q, notional |-> m]
           more == counted \cup {new}
           old == Lineages(counted)
           all == Lineages(more)
           hq == [r \in old |-> HighQty(counted, r)]
           hn == [r \in old |-> HighNotional(counted, r)]
           gq == [r \in all |-> HighQty(more, r)]
           gn == [r \in all |-> HighNotional(more, r)]
<1>1. new.root = k /\ new.qty = q /\ new.notional = m
  OBVIOUS
<1> HIDE DEF new
<1>2. all = old \cup {k}
  BY <1>1 DEF Lineages
<1>3. IsCounted(more)
  BY <1>1, FS_AddElement DEF IsCounted
<1>4. IsFiniteSet(old)
  BY LineagesFinite
<1>5. \A r \in old : {d \in more : d.root = r} = {d \in counted : d.root = r}
  BY <1>1
<1>6. \A r \in old : HighQty(more, r) = HighQty(counted, r)
                     /\ HighNotional(more, r) = HighNotional(counted, r)
  BY <1>5, Zenon DEF HighQty, HighNotional
<1>7. HighQty(more, k) = q /\ HighNotional(more, k) = m
  <2>1. {d \in more : d.root = k} = {new}
    BY <1>1 DEF Lineages
  <2>2. {c.qty : c \in {new}} = {q} /\ {c.notional : c \in {new}} = {m}
    BY <1>1
  <2>3. \A x \in Nat : Max({x}) = x
    <3> SUFFICES ASSUME NEW x \in Nat PROVE Max({x}) = x
      OBVIOUS
    <3>1. \E y \in {x} : \A z \in {x} : y >= z
      OBVIOUS
    <3>2. Max({x}) \in {x}
      BY <3>1 DEF Max
    <3> QED
      BY <3>2
  <2>4. HighQty(more, k) = Max({q}) /\ HighNotional(more, k) = Max({m})
    BY <2>1, <2>2, Zenon DEF HighQty, HighNotional
  <2> QED
    BY <2>3, <2>4
<1>8. /\ \A r \in old : hq[r] \in Int /\ hn[r] \in Int /\ gq[r] = hq[r] /\ gn[r] = hn[r]
      /\ gq[k] = q /\ gn[k] = m
  <2>1. \A r \in old : HighQty(counted, r) \in Nat /\ HighNotional(counted, r) \in Nat
    BY HighWater
  <2> HIDE DEF more, old, all
  <2> QED
    BY <1>2, <1>6, <1>7, <2>1
<1>9. /\ TotalQty(more, all) = SumFunctionOnSet(gq, all)
      /\ TotalQty(counted, old) = SumFunctionOnSet(hq, old)
      /\ TotalNotional(more, all) = SumFunctionOnSet(gn, all)
      /\ TotalNotional(counted, old) = SumFunctionOnSet(hn, old)
  BY Zenon DEF TotalQty, TotalNotional
<1> HIDE DEF hq, hn, gq, gn, all, old
<1>10. /\ SumFunctionOnSet(gq, old \cup {k}) = gq[k] + SumFunctionOnSet(gq, old)
       /\ SumFunctionOnSet(gn, old \cup {k}) = gn[k] + SumFunctionOnSet(gn, old)
  <2>1. k \notin old
    BY DEF old
  <2>2. \A r \in old \cup {k} : gq[r] \in Int /\ gn[r] \in Int
    BY <1>8
  <2> QED
    BY <1>4, <2>1, <2>2, SumAdd
<1>11. /\ SumFunctionOnSet(gq, old) = SumFunctionOnSet(hq, old)
       /\ SumFunctionOnSet(gn, old) = SumFunctionOnSet(hn, old)
  BY <1>4, <1>8, SumSame
<1>12. /\ TotalQty(more, all) = q + TotalQty(counted, old)
       /\ TotalNotional(more, all) = m + TotalNotional(counted, old)
  BY <1>2, <1>8, <1>9, <1>10, <1>11
<1> QED
  BY <1>12 DEF more, old, all, new
==============================================================================
