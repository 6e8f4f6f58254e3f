------------------------------- MODULE KrxTick -------------------------------
(***************************************************************************)
(* The KRX equity tick table and the price arithmetic built on it          *)
(* (internal/exec/tick.go).  Prices are whole won.  Everything here is     *)
(* pure, so that the executor's modules and the proofs can share it.       *)
(***************************************************************************)
EXTENDS Integers

Buy == "buy"
Sell == "sell"
Sides == {Buy, Sell}

Smaller(a, b) == IF a <= b THEN a ELSE b
Larger(a, b) == IF a >= b THEN a ELSE b

\* krxBands: the first band whose upper bound lies above p gives the tick.
TickAt(p) ==
    CASE p <   2000 -> 1
      [] p >=   2000 /\ p <   5000 -> 5
      [] p >=   5000 /\ p <  20000 -> 10
      [] p >=  20000 /\ p <  50000 -> 50
      [] p >=  50000 /\ p < 200000 -> 100
      [] p >= 200000 /\ p < 500000 -> 500
      [] p >= 500000 -> 1000

FloorTick(p) == IF p < 1 THEN 0 ELSE p - (p % TickAt(p))

\* Mutant: a price already on the grid is moved as well.
CeilTickAlwaysUp(p) == IF p < 1 THEN 0 ELSE (p - (p % TickAt(p))) + TickAt(p)

CeilTick(p) ==
    IF p < 1 THEN 0
    ELSE LET r == p % TickAt(p) IN IF r # 0 THEN (p - r) + TickAt(p) ELSE p

\* Mutant: a sell steps by the tick of its own band, past the boundary's last
\* finer price.
StepTowardOwnBand(side, p, cap) ==
    IF side = Buy THEN Smaller(p + TickAt(p), cap) ELSE Larger(p - TickAt(p), cap)

\* Mutant: the last step before the cap is not taken.
StepTowardStalls(side, p, cap) ==
    IF side = Buy THEN (IF p + TickAt(p) >= cap THEN p ELSE p + TickAt(p))
                  ELSE (IF p - TickAt(p - 1) <= cap THEN p ELSE p - TickAt(p - 1))

\* Mutant: a buy, too, steps by the tick of the band just below p.
StepTowardLowerBand(side, p, cap) ==
    IF side = Buy THEN Smaller(p + TickAt(p - 1), cap)
                  ELSE Larger(p - TickAt(p - 1), cap)

\* A sell steps by the tick of the band just below p.
StepToward(side, p, cap) ==
    IF side = Buy THEN Smaller(p + TickAt(p), cap)
                  ELSE Larger(p - TickAt(p - 1), cap)

-----------------------------------------------------------------------------
\* A price one can quote: a positive multiple of the tick of its band.
OnGrid(p) == p >= 1 /\ p % TickAt(p) = 0
==============================================================================
