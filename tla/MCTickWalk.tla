------------------------------ MODULE MCTickWalk ------------------------------
(* The walk around every boundary of the KRX tick table.                     *)
EXTENDS TickWalk, FiniteSets

Boundaries == {2000, 5000, 20000, 50000, 200000, 500000}
Offsets == {-600, -501, -100, -51, -7, -1, 0, 1, 3, 49, 50, 499, 999}
NearBoundaries == {1, 2} \cup {b + d : b \in Boundaries, d \in Offsets}
==============================================================================
