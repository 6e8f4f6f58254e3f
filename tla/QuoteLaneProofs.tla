--------------------------- MODULE QuoteLaneProofs ---------------------------
(***************************************************************************)
(* LaneInv is inductive, and with it the two safety properties of the      *)
(* quote lane, for every schedule, limit, window, cool-down and capacity.  *)
(***************************************************************************)
EXTENDS QuoteLane, SequenceTheorems, WellFoundedInduction, TLAPS

\* The larger of two cool-downs.
LEMMA MaxOfTwo ==
    ASSUME NEW a \in Int, NEW b \in Int
    PROVE  Max({a, b}) = IF a >= b THEN a ELSE b
<1> DEFINE m == IF a >= b THEN a ELSE b
<1>1. m \in {a, b} /\ \A y \in {a, b} : m >= y
  OBVIOUS
<1>2. \A x \in {a, b} : (\A y \in {a, b} : x >= y) => x = m
  OBVIOUS
<1> QED
  BY <1>1, <1>2 DEF Max

\* A set of naturals has a least element.
LEMMA LeastNat ==
    ASSUME NEW T \in SUBSET Nat, T # {}
    PROVE  \E x \in T : \A y \in T : x <= y
<1>1. PICK x \in T : \A y \in T : ~ (<<y, x>> \in OpToRel(<, Nat))
  BY NatLessThanWellFounded, WFMin
<1>2. \A a, b \in Nat : <<b, a>> \in OpToRel(<, Nat) <=> b < a
  BY DEF OpToRel
<1>3. \A y \in T : ~(y < x)
  BY <1>1, <1>2
<1> QED
  BY <1>3

-----------------------------------------------------------------------------
\* reserve's loop over the admissions.

\* f is what the loop has kept of s after each number of admissions.
IsKept(f, s) ==
    f = [n \in 0 .. Len(s) |->
            IF n = 0 THEN <<>>
            ELSE IF s[n] < DeclareWindow THEN Append(f[n - 1], s[n])
            ELSE f[n - 1]]

\* Ages that never rise from one admission to the next are split at one place:
\* those before it are out of the window, the others in it.
LEMMA Split ==
    ASSUME NEW s \in Seq(Nat), \A i, j \in DOMAIN s : i <= j => s[i] >= s[j]
    PROVE  \E g \in 0 .. Len(s) : /\ \A i \in 1 .. g : s[i] >= DeclareWindow
                                  /\ \A i \in g + 1 .. Len(s) : s[i] < DeclareWindow
<1>0. Len(s) \in Nat /\ DOMAIN s = 1 .. Len(s) /\ DeclareWindow \in Nat
      /\ \A i \in 1 .. Len(s) : s[i] \in Nat
  BY LaneAssumption
<1> DEFINE T == {n \in 0 .. Len(s) : \A i \in n + 1 .. Len(s) : s[i] < DeclareWindow}
<1>1. Len(s) \in T /\ T \in SUBSET Nat
  BY <1>0
<1>2. PICK g \in T : \A n \in T : g <= n
  <2> HIDE DEF T
  <2> QED
    BY <1>1, LeastNat
<1>3. ASSUME NEW i \in 1 .. g PROVE s[i] >= DeclareWindow
  <2>1. g \in 1 .. Len(s) /\ g - 1 \in 0 .. Len(s) /\ i \in 1 .. Len(s) /\ i <= g
    BY <1>0, <1>3
  <2>2. g - 1 \notin T
    <3> HIDE DEF T
    <3> QED
      BY <1>0, <1>2, <2>1
  <2>3. PICK k \in (g - 1) + 1 .. Len(s) : ~(s[k] < DeclareWindow)
    BY <2>1, <2>2
  <2>4. k = g
    <3>1. k \in g + 1 .. Len(s) => s[k] < DeclareWindow
      BY <1>2
    <3> QED
      BY <1>0, <2>1, <2>3, <3>1
  <2>5. s[g] >= DeclareWindow
    BY <1>0, <2>1, <2>3, <2>4
  <2>6. s[i] >= s[g]
    BY <1>0, <2>1
  <2> QED
    BY <1>0, <2>1, <2>5, <2>6
<1> QED
  BY <1>2, <1>3

\* The first n of s without the first g.
Rest(s, g, n) == [i \in 1 .. n - g |-> s[i + g]]

\* It is a sequence of that length.
LEMMA RestIs ==
    ASSUME NEW s \in Seq(Nat), NEW g \in 0 .. Len(s), NEW n \in g .. Len(s)
    PROVE  /\ Rest(s, g, n) \in Seq(Nat) /\ Len(Rest(s, g, n)) = n - g
           /\ \A i \in 1 .. n - g : Rest(s, g, n)[i] = s[i + g]
<1>1. Len(s) \in Nat /\ n \in Nat /\ g \in Nat /\ n - g \in Nat /\ n <= Len(s)
  OBVIOUS
<1>2. \A i \in 1 .. n - g : i + g \in 1 .. Len(s)
  BY <1>1
<1>3. \A i \in 1 .. n - g : s[i + g] \in Nat
  BY <1>2
<1>4. Rest(s, g, n) \in [1 .. n - g -> Nat]
  BY <1>3 DEF Rest
<1>5. \A i \in 1 .. n - g : Rest(s, g, n)[i] = s[i + g]
  BY DEF Rest
<1>6. ASSUME NEW m \in Nat, NEW r \in [1 .. m -> Nat] PROVE r \in Seq(Nat) /\ Len(r) = m
  OBVIOUS
<1> QED
  BY <1>1, <1>4, <1>5, <1>6

\* One more of s is one more at its end.
LEMMA RestGrows ==
    ASSUME NEW s \in Seq(Nat), NEW g \in 0 .. Len(s), NEW n \in g + 1 .. Len(s)
    PROVE  Rest(s, g, n) = Append(Rest(s, g, n - 1), s[n])
<1>1. Len(s) \in Nat /\ n \in Nat /\ g \in Nat /\ n - 1 \in g .. Len(s) /\ n \in g .. Len(s)
      /\ n \in 1 .. Len(s)
  OBVIOUS
<1>2. s[n] \in Nat
  BY <1>1
<1>3. PICK r \in Seq(Nat) : /\ r = Rest(s, g, n - 1) /\ Len(r) = (n - 1) - g
                            /\ \A i \in 1 .. (n - 1) - g : r[i] = s[i + g]
  BY <1>1, RestIs
<1>4. PICK t \in Seq(Nat) : /\ t = Rest(s, g, n) /\ Len(t) = n - g
                            /\ \A i \in 1 .. n - g : t[i] = s[i + g]
  BY <1>1, RestIs
<1>5. Append(r, s[n]) \in Seq(Nat) /\ Len(Append(r, s[n])) = n - g
  BY <1>1, <1>2, <1>3
<1>6. ASSUME NEW i \in 1 .. n - g PROVE Append(r, s[n])[i] = t[i]
  <2>1. CASE i = n - g
    <3>1. Append(r, s[n])[i] = s[n]
      BY <1>1, <1>2, <1>3, <2>1
    <3>2. i + g = n
      BY <1>1, <2>1
    <3> QED
      BY <1>4, <3>1, <3>2
  <2>2. CASE i # n - g
    <3>1. i \in 1 .. (n - 1) - g
      BY <1>1, <2>2
    <3>2. Append(r, s[n])[i] = r[i]
      BY <1>1, <1>2, <1>3, <3>1
    <3> QED
      BY <1>3, <1>4, <3>1, <3>2
  <2> QED
    BY <2>1, <2>2
<1>7. t = Append(r, s[n])
  BY <1>4, <1>5, <1>6, SeqEqual
<1> QED
  BY <1>3, <1>4, <1>7

\* So what the loop keeps is the rest after that place.
LEMMA KeptIs ==
    ASSUME NEW s \in Seq(Nat), NEW g \in 0 .. Len(s),
           \A i \in 1 .. g : s[i] >= DeclareWindow,
           \A i \in g + 1 .. Len(s) : s[i] < DeclareWindow,
           NEW f, f = CHOOSE h : IsKept(h, s)
    PROVE  f[Len(s)] = Rest(s, g, Len(s))
<1>0. Len(s) \in Nat /\ DOMAIN s = 1 .. Len(s) /\ DeclareWindow \in Nat /\ g \in Nat
      /\ \A i \in 1 .. Len(s) : s[i] \in Nat
  BY LaneAssumption
<1>1. ASSUME NEW n \in 0 .. Len(s)
      PROVE  Rest(s, g, n) = IF n = 0 THEN <<>>
                             ELSE IF s[n] < DeclareWindow THEN Append(Rest(s, g, n - 1), s[n])
                             ELSE Rest(s, g, n - 1)
  <2>1. \A k \in Int : k <= g => Rest(s, g, k) = <<>>
    <3>1. \A k \in Int : k <= g => 1 .. k - g = {}
      BY <1>0
    <3> QED
      BY <3>1 DEF Rest
  <2>2. CASE n <= g
    <3>1. n # 0 => ~(s[n] < DeclareWindow)
      BY <1>0, <2>2
    <3>2. Rest(s, g, n) = <<>> /\ Rest(s, g, n - 1) = <<>>
      BY <1>0, <2>1, <2>2
    <3> QED
      BY <3>1, <3>2
  <2>3. CASE n > g
    <3>1. n \in g + 1 .. Len(s) /\ n # 0
      BY <1>0, <2>3
    <3> QED
      BY <3>1, RestGrows
  <2> QED
    BY <1>0, <2>2, <2>3
<1>2. \A n \in 0 .. Len(s) : n # 0 => n - 1 \in 0 .. Len(s)
  BY <1>0
<1> DEFINE h == [n \in 0 .. Len(s) |-> Rest(s, g, n)]
<1>3. IsKept(h, s)
  <2>1. \A n \in 0 .. Len(s) : h[n] = IF n = 0 THEN <<>>
                               ELSE IF s[n] < DeclareWindow THEN Append(h[n - 1], s[n])
                               ELSE h[n - 1]
    BY <1>1, <1>2
  <2>2. h = [n \in 0 .. Len(s) |-> h[n]]
    OBVIOUS
  <2> HIDE DEF h
  <2> QED
    BY <2>1, <2>2, Zenon DEF IsKept
<1>4. IsKept(f, s)
  BY <1>3
<1>5. \A n \in 0 .. Len(s) : f[n] = IF n = 0 THEN <<>>
                             ELSE IF s[n] < DeclareWindow THEN Append(f[n - 1], s[n])
                             ELSE f[n - 1]
  <2>1. \A n \in 0 .. Len(s) : f[n] = [k \in 0 .. Len(s) |->
            IF k = 0 THEN <<>>
            ELSE IF s[k] < DeclareWindow THEN Append(f[k - 1], s[k])
            ELSE f[k - 1]][n]
    BY <1>4, Zenon DEF IsKept
  <2> QED
    BY <2>1, Zenon
<1>6. \A n \in 0 .. Len(s) : f[n] = Rest(s, g, n)
  <2> DEFINE Bad == {n \in 0 .. Len(s) : f[n] # Rest(s, g, n)}
  <2> SUFFICES ASSUME Bad # {} PROVE FALSE
    OBVIOUS
  <2>1. PICK n \in Bad : \A m \in Bad : n <= m
    <3>1. Bad \in SUBSET Nat
      BY <1>0
    <3> HIDE DEF Bad
    <3> QED
      BY <3>1, LeastNat
  <2>2. n # 0 => f[n - 1] = Rest(s, g, n - 1)
    <3>1. n \in 0 .. Len(s) /\ n - 1 \notin Bad
      <4>1. n \in 0 .. Len(s)
        OBVIOUS
      <4> HIDE DEF Bad
      <4> QED
        BY <1>0, <2>1, <4>1
    <3> QED
      BY <1>2, <3>1
  <2>3. f[n] = Rest(s, g, n)
    BY <1>1, <1>5, <2>2
  <2> QED
    BY <2>3
<1>7. Len(s) \in 0 .. Len(s)
  BY <1>0
<1> QED
  BY <1>6, <1>7

-----------------------------------------------------------------------------
\* The admissions.

\* The admissions, as far as the type invariant and AdmissionsInv talk of them.
AdmissionsOK ==
    /\ limiter.admitted \in Seq(Ages) /\ Len(limiter.admitted) <= DeclareLimit
    /\ recent \in Seq(0 .. DeclareWindow) /\ Len(recent) = DeclareLimit
    /\ AdmissionsInv

\* The constants are numbers, and the limits and capacities are not 0.
LEMMA Numbers ==
    /\ Horizon \in Nat /\ MaxJumps \in Nat /\ MaxRedeclares \in Nat
    /\ DeclareLimit \in Nat /\ DeclareLimit >= 1 /\ DeclareWindow \in Nat /\ DeclareWindow >= 1
    /\ CoolDown \in Nat /\ CoolDown >= 1 /\ MaxRefused \in Nat /\ MaxRefused >= 1
    /\ ControlCap \in Nat /\ ControlCap >= 1 /\ Buffer \in Nat /\ Buffer >= 1
    /\ None \notin Tokens
BY LaneAssumption

\* What the admissions are, read off by index.
LEMMA AdmissionFacts ==
    ASSUME AdmissionsOK,
           NEW adm, adm = limiter.admitted, NEW old, old = DeclareLimit - Len(adm)
    PROVE  /\ adm \in Seq(Ages) /\ Len(adm) \in Nat /\ DOMAIN adm = 1 .. Len(adm)
           /\ Len(adm) <= DeclareLimit /\ old \in Nat /\ old + Len(adm) = DeclareLimit
           /\ recent \in Seq(0 .. DeclareWindow) /\ Len(recent) = DeclareLimit
           /\ DOMAIN recent = 1 .. DeclareLimit
           /\ \A i \in 1 .. Len(adm) : adm[i] \in Nat /\ adm[i] < DeclareWindow
           /\ \A i \in 1 .. DeclareLimit : recent[i] \in Nat /\ recent[i] <= DeclareWindow
           /\ \A i, j \in 1 .. DeclareLimit : i <= j => recent[i] >= recent[j]
           /\ \A i \in 1 .. old : recent[i] = DeclareWindow
           /\ \A i \in 1 .. Len(adm) : adm[i] = recent[old + i]
<1>0. DeclareLimit \in Nat /\ DeclareWindow \in Nat
  BY Numbers
<1>1. adm \in Seq(Ages) /\ Len(adm) <= DeclareLimit
  BY DEF AdmissionsOK
<1>2. recent \in Seq(0 .. DeclareWindow) /\ Len(recent) = DeclareLimit
  BY DEF AdmissionsOK
<1>3. Len(adm) \in Nat /\ DOMAIN adm = 1 .. Len(adm)
  BY <1>1
<1>4. DOMAIN recent = 1 .. DeclareLimit
  BY <1>2
<1>5. old \in Nat /\ old + Len(adm) = DeclareLimit
  BY <1>0, <1>1, <1>3
<1>6. \A i \in 1 .. Len(adm) : adm[i] \in Ages
  BY <1>1
<1>7. \A i \in 1 .. Len(adm) : adm[i] \in Nat /\ adm[i] < DeclareWindow
  BY <1>0, <1>6 DEF Ages
<1>8. \A i \in 1 .. DeclareLimit : recent[i] \in 0 .. DeclareWindow
  BY <1>2, ElementOfSeq
<1>9. \A i \in 1 .. DeclareLimit : recent[i] \in Nat /\ recent[i] <= DeclareWindow
  BY <1>0, <1>8
<1>10. AdmissionsInv
  BY DEF AdmissionsOK
<1>11. \A i, j \in 1 .. DeclareLimit : i <= j => recent[i] >= recent[j]
  BY <1>4, <1>10, Zenon DEF AdmissionsInv
<1>12. \A i \in 1 .. old : recent[i] = DeclareWindow
  BY <1>10, Zenon DEF AdmissionsInv
<1>13. \A i \in 1 .. Len(adm) : adm[i] = recent[old + i]
  BY <1>3, <1>10, Zenon DEF AdmissionsInv
<1> QED
  BY <1>1, <1>2, <1>3, <1>4, <1>5, <1>7, <1>9, <1>11, <1>12, <1>13

\* What a unit of time leaves of the admissions: the limiter forgets exactly
\* those that leave the window.
LEMMA KeptAges ==
    ASSUME AdmissionsOK
    PROVE  \E g \in 0 .. Len(limiter.admitted) :
             /\ Kept \in Seq(Ages) /\ Len(Kept) = Len(limiter.admitted) - g
             /\ \A i \in 1 .. g : limiter.admitted[i] + 1 = DeclareWindow
             /\ \A i \in 1 .. Len(limiter.admitted) - g :
                /\ Kept[i] = limiter.admitted[i + g] + 1
                /\ limiter.admitted[i + g] + 1 < DeclareWindow
<1> DEFINE adm == limiter.admitted
           aged == [i \in DOMAIN adm |-> adm[i] + 1]
<1>0. DeclareLimit \in Nat /\ DeclareWindow \in Nat /\ DeclareWindow >= 1
  BY Numbers
<1>1. /\ Len(adm) \in Nat /\ DOMAIN adm = 1 .. Len(adm) /\ Len(adm) <= DeclareLimit
      /\ \A i \in 1 .. Len(adm) : adm[i] \in Nat /\ adm[i] < DeclareWindow
  BY AdmissionFacts
<1>2. \A i, j \in 1 .. Len(adm) : i <= j => adm[i] >= adm[j]
  <2> DEFINE old == DeclareLimit - Len(adm)
  <2>1. /\ old \in Nat /\ old + Len(adm) = DeclareLimit
        /\ \A i, j \in 1 .. DeclareLimit : i <= j => recent[i] >= recent[j]
        /\ \A i \in 1 .. Len(adm) : adm[i] = recent[old + i]
    BY AdmissionFacts
  <2> HIDE DEF adm, old
  <2> SUFFICES ASSUME NEW i \in 1 .. Len(adm), NEW j \in 1 .. Len(adm), i <= j
               PROVE  adm[i] >= adm[j]
    OBVIOUS
  <2>2. old + i \in 1 .. DeclareLimit /\ old + j \in 1 .. DeclareLimit /\ old + i <= old + j
    BY <1>0, <1>1, <2>1
  <2> QED
    BY <2>1, <2>2
<1>3. \A i \in 1 .. Len(adm) : aged[i] = adm[i] + 1 /\ aged[i] \in Nat
  BY <1>1
<1>4. aged \in Seq(Nat) /\ Len(aged) = Len(adm)
  <2>1. aged \in [1 .. Len(adm) -> Nat]
    BY <1>1, <1>3
  <2>2. ASSUME NEW m \in Nat, NEW r \in [1 .. m -> Nat] PROVE r \in Seq(Nat) /\ Len(r) = m
    OBVIOUS
  <2> HIDE DEF aged
  <2> QED
    BY <1>1, <2>1, <2>2
<1>5. Kept = (CHOOSE h : IsKept(h, aged))[Len(aged)]
  BY Zenon DEF Kept, IsKept
<1> HIDE DEF aged
<1>6. \A i, j \in DOMAIN aged : i <= j => aged[i] >= aged[j]
  <2>1. DOMAIN aged = 1 .. Len(adm)
    BY <1>4
  <2> QED
    BY <1>1, <1>2, <1>3, <2>1
<1>7. PICK g \in 0 .. Len(aged) : /\ \A i \in 1 .. g : aged[i] >= DeclareWindow
                                  /\ \A i \in g + 1 .. Len(aged) : aged[i] < DeclareWindow
  BY <1>4, <1>6, Split
<1>8. Kept = Rest(aged, g, Len(aged))
  BY <1>4, <1>5, <1>7, KeptIs
<1>9. Len(aged) \in g .. Len(aged) /\ g \in Nat /\ g <= Len(adm)
  BY <1>1, <1>4
<1>10. /\ Kept \in Seq(Nat) /\ Len(Kept) = Len(adm) - g
       /\ \A i \in 1 .. Len(adm) - g : Kept[i] = aged[i + g]
  BY <1>4, <1>8, <1>9, RestIs
<1> HIDE DEF adm
<1>11. \A i \in 1 .. Len(adm) - g : Kept[i] = adm[i + g] + 1 /\ adm[i + g] + 1 < DeclareWindow
  <2> SUFFICES ASSUME NEW i \in 1 .. Len(adm) - g
               PROVE  Kept[i] = adm[i + g] + 1 /\ adm[i + g] + 1 < DeclareWindow
    OBVIOUS
  <2>1. i + g \in 1 .. Len(adm) /\ i + g \in g + 1 .. Len(aged)
    BY <1>1, <1>4, <1>9
  <2> QED
    BY <1>3, <1>7, <1>10, <2>1
<1>12. ASSUME NEW i \in 1 .. g PROVE adm[i] + 1 = DeclareWindow
  <2>1. i \in 1 .. Len(adm)
    BY <1>1, <1>9
  <2>2. adm[i] \in Nat /\ adm[i] < DeclareWindow /\ adm[i] + 1 >= DeclareWindow
    BY <1>1, <1>3, <1>7, <2>1
  <2> QED
    BY <1>0, <2>2
<1>13. Kept \in Seq(Ages)
  <2>1. ASSUME NEW i \in 1 .. Len(Kept) PROVE Kept[i] \in Ages
    <3>1. Kept[i] \in Nat /\ Kept[i] < DeclareWindow
      BY <1>10, <1>11
    <3> QED
      BY <1>0, <3>1 DEF Ages
  <2> QED
    BY <1>10, <2>1
<1> QED
  BY <1>1, <1>4, <1>9, <1>10, <1>11, <1>12, <1>13 DEF adm

\* A unit of time keeps the limiter's part of the admissions.
LEMMA SecondAdmissions ==
    ASSUME AdmissionsOK, Second PROVE AdmissionsOK'
<1> DEFINE adm == limiter.admitted
           old == DeclareLimit - Len(adm)
<1>0. DeclareLimit \in Nat /\ DeclareWindow \in Nat /\ DeclareWindow >= 1
  BY Numbers
<1>1. /\ Len(adm) \in Nat /\ DOMAIN adm = 1 .. Len(adm) /\ Len(adm) <= DeclareLimit
      /\ old \in Nat /\ old + Len(adm) = DeclareLimit
      /\ DOMAIN recent = 1 .. DeclareLimit
      /\ \A i \in 1 .. DeclareLimit : recent[i] \in Nat /\ recent[i] <= DeclareWindow
      /\ \A i, j \in 1 .. DeclareLimit : i <= j => recent[i] >= recent[j]
      /\ \A i \in 1 .. old : recent[i] = DeclareWindow
      /\ \A i \in 1 .. Len(adm) : adm[i] = recent[old + i]
  BY AdmissionFacts
<1>2. PICK g \in 0 .. Len(adm) :
             /\ Kept \in Seq(Ages) /\ Len(Kept) = Len(adm) - g
             /\ \A i \in 1 .. g : adm[i] + 1 = DeclareWindow
             /\ \A i \in 1 .. Len(adm) - g :
                    Kept[i] = adm[i + g] + 1 /\ adm[i + g] + 1 < DeclareWindow
  BY KeptAges
<1>3. limiter'.admitted = Kept
  BY DEF Second
<1>4. recent' = [i \in 1 .. DeclareLimit |->
                    IF recent[i] < DeclareWindow THEN recent[i] + 1 ELSE recent[i]]
  BY <1>1 DEF Second
<1>5. recent' \in Seq(0 .. DeclareWindow) /\ Len(recent') = DeclareLimit
  <2>1. recent' \in [1 .. DeclareLimit -> 0 .. DeclareWindow]
    BY <1>0, <1>1, <1>4
  <2>2. ASSUME NEW m \in Nat, NEW S, NEW r \in [1 .. m -> S] PROVE r \in Seq(S) /\ Len(r) = m
    OBVIOUS
  <2> QED
    BY <1>0, <2>1, <2>2
<1>6. \A i \in 1 .. DeclareLimit :
        recent'[i] = IF recent[i] < DeclareWindow THEN recent[i] + 1 ELSE recent[i]
  BY <1>4
<1> HIDE DEF adm
<1>7. \A i, j \in 1 .. DeclareLimit : i <= j => recent'[i] >= recent'[j]
  <2> SUFFICES ASSUME NEW i \in 1 .. DeclareLimit, NEW j \in 1 .. DeclareLimit, i <= j
               PROVE  recent'[i] >= recent'[j]
    OBVIOUS
  <2>1. /\ recent[i] \in Nat /\ recent[i] <= DeclareWindow
        /\ recent[j] \in Nat /\ recent[j] <= DeclareWindow /\ recent[i] >= recent[j]
    BY <1>1
  <2>2. /\ recent'[i] = IF recent[i] < DeclareWindow THEN recent[i] + 1 ELSE recent[i]
        /\ recent'[j] = IF recent[j] < DeclareWindow THEN recent[j] + 1 ELSE recent[j]
    BY <1>6
  <2> QED
    BY <1>0, <2>1, <2>2
<1>8. ASSUME NEW i \in 1 .. DeclareLimit - (Len(adm) - g) PROVE recent'[i] = DeclareWindow
  <2>1. i \in 1 .. DeclareLimit
    BY <1>0, <1>1
  <2>2. CASE i <= old
    BY <1>0, <1>1, <1>6, <2>1, <2>2
  <2>3. CASE i > old
    <3>1. i - old \in 1 .. g /\ i - old \in 1 .. Len(adm) /\ old + (i - old) = i
      BY <1>0, <1>1, <2>1, <2>3
    <3>2. recent[i] + 1 = DeclareWindow
      BY <1>1, <1>2, <3>1
    <3> QED
      BY <1>0, <1>1, <1>6, <2>1, <3>2
  <2> QED
    BY <1>0, <1>1, <2>1, <2>2, <2>3
<1>9. ASSUME NEW i \in 1 .. Len(adm) - g
      PROVE  Kept[i] = recent'[(DeclareLimit - (Len(adm) - g)) + i]
  <2>1. i + g \in 1 .. Len(adm) /\ old + (i + g) \in 1 .. DeclareLimit
        /\ (DeclareLimit - (Len(adm) - g)) + i = old + (i + g)
    BY <1>0, <1>1
  <2>2. Kept[i] = recent[old + (i + g)] + 1 /\ recent[old + (i + g)] + 1 < DeclareWindow
    BY <1>1, <1>2, <2>1
  <2>3. recent[old + (i + g)] < DeclareWindow
    BY <1>0, <1>1, <2>1, <2>2
  <2> QED
    BY <1>6, <2>1, <2>2, <2>3
<1>10. AdmissionsInv'
  <2>1. DOMAIN recent' = 1 .. DeclareLimit
    BY <1>4
  <2>2. DOMAIN Kept = 1 .. Len(adm) - g
    BY <1>2
  <2> QED
    BY <1>2, <1>3, <1>7, <1>8, <1>9, <2>1, <2>2 DEF AdmissionsInv
<1> QED
  BY <1>0, <1>1, <1>2, <1>3, <1>5, <1>10 DEF AdmissionsOK

\* So does an admission, which the limiter counts; and it comes a window after
\* the DeclareLimit-th last one before it.
LEMMA AdmitAdmissions ==
    ASSUME AdmissionsOK, limiter \in [admitted : Seq(Ages), cool : 0 .. CoolDown], Admit
    PROVE  AdmissionsOK' /\ recent[1] >= DeclareWindow
<1> DEFINE adm == limiter.admitted
           old == DeclareLimit - Len(adm)
<1>0. DeclareLimit \in Nat /\ DeclareLimit >= 1 /\ DeclareWindow \in Nat /\ DeclareWindow >= 1
  BY Numbers
<1>1. /\ Len(adm) \in Nat /\ DOMAIN adm = 1 .. Len(adm) /\ Len(adm) < DeclareLimit
      /\ old \in Nat /\ old + Len(adm) = DeclareLimit
      /\ DOMAIN recent = 1 .. DeclareLimit
      /\ \A i \in 1 .. DeclareLimit : recent[i] \in Nat /\ recent[i] <= DeclareWindow
      /\ \A i, j \in 1 .. DeclareLimit : i <= j => recent[i] >= recent[j]
      /\ \A i \in 1 .. old : recent[i] = DeclareWindow
      /\ \A i \in 1 .. Len(adm) : adm[i] = recent[old + i]
  <2>1. Len(adm) < DeclareLimit
    BY DEF Admit
  <2> QED
    BY <2>1, AdmissionFacts
<1>2. recent[1] >= DeclareWindow
  <2>1. 1 \in 1 .. old
    BY <1>0, <1>1
  <2> QED
    BY <1>0, <1>1, <2>1
<1>3. limiter'.admitted = Append(adm, 0) /\ recent' = Append(Tail(recent), 0)
  BY DEF Admit
<1>4. /\ limiter'.admitted \in Seq(Ages) /\ Len(limiter'.admitted) = Len(adm) + 1
      /\ \A i \in 1 .. Len(adm) : limiter'.admitted[i] = adm[i]
      /\ limiter'.admitted[Len(adm) + 1] = 0
  <2>1. adm \in Seq(Ages) /\ 0 \in Ages
    BY <1>0 DEF AdmissionsOK, Ages
  <2> HIDE DEF adm
  <2> QED
    BY <1>3, <2>1
<1>5. /\ recent' \in Seq(0 .. DeclareWindow) /\ Len(recent') = DeclareLimit
      /\ \A i \in 1 .. DeclareLimit - 1 : recent'[i] = recent[i + 1]
      /\ recent'[DeclareLimit] = 0
  <2>1. recent \in Seq(0 .. DeclareWindow) /\ Len(recent) = DeclareLimit /\ 0 \in 0 .. DeclareWindow
    BY <1>0 DEF AdmissionsOK
  <2>2. Tail(recent) \in Seq(0 .. DeclareWindow) /\ Len(Tail(recent)) = DeclareLimit - 1
        /\ \A i \in 1 .. DeclareLimit - 1 : Tail(recent)[i] = recent[i + 1]
    BY <1>0, <2>1
  <2> QED
    BY <1>0, <1>3, <2>1, <2>2
<1> HIDE DEF adm
<1>6. \A i, j \in 1 .. DeclareLimit : i <= j => recent'[i] >= recent'[j]
  <2> SUFFICES ASSUME NEW i \in 1 .. DeclareLimit, NEW j \in 1 .. DeclareLimit, i <= j
               PROVE  recent'[i] >= recent'[j]
    OBVIOUS
  <2>1. CASE j = DeclareLimit
    <3>1. recent'[i] \in 0 .. DeclareWindow
      BY <1>0, <1>5
    <3> QED
      BY <1>0, <1>5, <2>1, <3>1
  <2>2. CASE j # DeclareLimit
    <3>1. i \in 1 .. DeclareLimit - 1 /\ j \in 1 .. DeclareLimit - 1
          /\ i + 1 \in 1 .. DeclareLimit /\ j + 1 \in 1 .. DeclareLimit /\ i + 1 <= j + 1
      BY <1>0, <2>2
    <3> QED
      BY <1>1, <1>5, <3>1
  <2> QED
    BY <2>1, <2>2
<1>7. ASSUME NEW i \in 1 .. DeclareLimit - (Len(adm) + 1) PROVE recent'[i] = DeclareWindow
  <2>1. i \in 1 .. DeclareLimit - 1 /\ i + 1 \in 1 .. old
    BY <1>0, <1>1
  <2> QED
    BY <1>1, <1>5, <2>1
<1>8. ASSUME NEW i \in 1 .. Len(adm) + 1
      PROVE  limiter'.admitted[i] = recent'[(DeclareLimit - (Len(adm) + 1)) + i]
  <2>1. CASE i = Len(adm) + 1
    <3>1. (DeclareLimit - (Len(adm) + 1)) + i = DeclareLimit
      BY <1>0, <1>1, <2>1
    <3> QED
      BY <1>4, <1>5, <2>1, <3>1
  <2>2. CASE i # Len(adm) + 1
    <3> DEFINE k == (DeclareLimit - (Len(adm) + 1)) + i
    <3>1. i \in 1 .. Len(adm) /\ k \in 1 .. DeclareLimit - 1 /\ k + 1 = old + i
      <4>1. ASSUME NEW n \in Nat, n < DeclareLimit, i \in 1 .. n + 1, i # n + 1
            PROVE  /\ i \in 1 .. n /\ (DeclareLimit - (n + 1)) + i \in 1 .. DeclareLimit - 1
                   /\ ((DeclareLimit - (n + 1)) + i) + 1 = (DeclareLimit - n) + i
        BY <1>0, <4>1
      <4> QED
        BY <1>1, <2>2, <4>1
    <3>2. limiter'.admitted[i] = recent[old + i]
      BY <1>1, <1>4, <3>1
    <3>3. recent'[k] = recent[k + 1]
      BY <1>5, <3>1
    <3> HIDE DEF k
    <3>4. limiter'.admitted[i] = recent'[k]
      BY <3>1, <3>2, <3>3
    <3> QED
      BY <3>4 DEF k
  <2> QED
    BY <2>1, <2>2
<1>9. AdmissionsInv'
  <2>1. DOMAIN recent' = 1 .. DeclareLimit /\ DOMAIN limiter'.admitted = 1 .. Len(adm) + 1
    BY <1>0, <1>1, <1>4, <1>5
  <2> QED
    BY <1>4, <1>6, <1>7, <1>8, <2>1 DEF AdmissionsInv
<1> QED
  BY <1>0, <1>1, <1>2, <1>4, <1>5, <1>9 DEF AdmissionsOK

-----------------------------------------------------------------------------
\* The supervisor and its connection.

SupPcs == {"loop", "idle", "token", "dial", "dialing", "declare", "write", "serve", "closing",
           "sleep", "done"}
SupType == [pc : SupPcs, until : 0 .. Horizon + 2, token : Tokens \cup {None},
            redeclares : 0 .. MaxRedeclares, failed : BOOLEAN]

\* The supervisor's part of the invariant.
SupOK == sup \in SupType /\ {dialed, socket} \subseteq BOOLEAN /\ ConnectionInv

\* Goto changes where the supervisor is and nothing else.
LEMMA GotoIs ==
    ASSUME sup \in SupType, NEW pc \in SupPcs, Goto(pc)
    PROVE  sup' \in SupType /\ sup'.pc = pc /\ sup'.token = sup.token
BY DEF Goto, SupType

\* Leave is typed wherever it goes.
LEMMA LeaveIs ==
    ASSUME NEW pc \in SupPcs, NEW wake \in 0 .. Horizon + 2, Leave(pc, wake)
    PROVE  sup' \in SupType /\ sup'.pc = pc
<1>1. 0 \in 0 .. MaxRedeclares
  BY Numbers
<1> QED
  BY <1>1 DEF Leave, SupType

\* A run that ends is followed by a retry, the loop's head or the lane's end.
LEMMA AfterRunIs ==
    ASSUME sup \in SupType, NEW failed, AfterRun(failed)
    PROVE  sup' \in SupType /\ sup'.pc \in {"done", "sleep", "loop"}
<1>1. 0 \in 0 .. Horizon + 2 /\ sup.until \in 0 .. Horizon + 2
  BY Numbers DEF SupType
<1>2. \A wake \in Wakes(sup.until) : wake \in 0 .. Horizon + 2
  BY <1>1 DEF Wakes
<1>3. PICK pc \in {"done", "sleep", "loop"}, wake \in 0 .. Horizon + 2 : Leave(pc, wake)
  BY <1>1, <1>2 DEF AfterRun
<1>4. pc \in SupPcs
  BY DEF SupPcs
<1> QED
  BY <1>3, <1>4, LeaveIs

\* A return goes to the deferred calls.
LEMMA ReturnIs ==
    ASSUME sup \in SupType, NEW failed \in BOOLEAN, Return(failed)
    PROVE  sup' \in SupType /\ sup'.pc = "closing"
<1>1. (failed /\ ~windowDone) \in BOOLEAN
  OBVIOUS
<1>2. ASSUME NEW b \in BOOLEAN, sup' = [sup EXCEPT !.pc = "closing", !.failed = b]
      PROVE  sup' \in SupType /\ sup'.pc = "closing"
  BY <1>2 DEF SupType, SupPcs
<1> QED
  BY <1>1, <1>2 DEF Return

\* An early return leaves the run.
LEMMA ReturnEarlyIs ==
    ASSUME sup \in SupType, NEW failed, ReturnEarly(failed)
    PROVE  sup' \in SupType /\ sup'.pc \in {"done", "sleep", "loop"}
BY AfterRunIs DEF ReturnEarly

\* Where the supervisor goes without a connection, one is not held; where it
\* goes with one, it closes it later.
LEMMA SupStep ==
    ASSUME SupOK, wall \in 1 .. Horizon, cached \in Tokens \cup {None}, [Next]_vars
    PROVE  SupOK'
<1>0. Horizon \in Nat /\ MaxRedeclares \in Nat /\ None \notin Tokens
  BY Numbers
<1>1. sup \in SupType /\ dialed \in BOOLEAN /\ socket \in BOOLEAN
  BY DEF SupOK
<1>2. ConnectionInv
  BY DEF SupOK
<1>3. SUFFICES sup' \in SupType /\ dialed' \in BOOLEAN /\ socket' \in BOOLEAN /\ ConnectionInv'
  BY DEF SupOK
<1>4. ASSUME UNCHANGED <<sup, dialed, socket>>
      PROVE  sup' \in SupType /\ dialed' \in BOOLEAN /\ socket' \in BOOLEAN /\ ConnectionInv'
  BY <1>1, <1>2, <1>4 DEF ConnectionInv
<1>5. CASE \/ WallAdvances \/ WallJumpsBack \/ Second \/ TokenChanges \/ Halt
           \/ WatchWindow \/ ReadFrame \/ OfferTick \/ InstallCoolDown \/ QueueControl
           \/ ReadFails \/ InstallLate \/ WriteTick \/ UNCHANGED vars
  <2>1. UNCHANGED <<sup, dialed, socket>>
    BY <1>5 DEF WallAdvances, WallJumpsBack, Second, TokenChanges, Halt, WatchWindow, ReadFrame,
         OfferTick, InstallCoolDown, QueueControl, ReadFails, InstallLate, WriteTick, vars, run
  <2> QED
    BY <1>4, <2>1
<1>6. CASE Supervise
  <2>1. UNCHANGED <<dialed, socket>> /\ ~dialed /\ ~socket
    BY <1>2, <1>6 DEF Supervise, ConnectionInv
  <2>2. sup' \in SupType /\ sup'.pc \in {"done", "token", "idle"}
    <3>1. CASE Leave("done", 0)
      BY <1>0, <3>1, LeaveIs DEF SupPcs
    <3>2. CASE sup' = [sup EXCEPT !.pc = "token", !.until = Closes(wall)]
      <4>1. Closes(wall) \in 0 .. Horizon + 2
        BY <1>0 DEF Closes
      <4> QED
        BY <1>1, <3>2, <4>1 DEF SupType, SupPcs
    <3>3. CASE sup' = [sup EXCEPT !.pc = "idle", !.until = NextOpen(wall)]
      <4>1. NextOpen(wall) \in 0 .. Horizon + 2
        BY <1>0 DEF NextOpen
      <4> QED
        BY <1>1, <3>3, <4>1 DEF SupType, SupPcs
    <3> QED
      BY <1>6, <3>1, <3>2, <3>3 DEF Supervise
  <2> QED
    BY <1>1, <2>1, <2>2 DEF ConnectionInv
<1>7. CASE WaitUntilOpen
  <2>1. UNCHANGED <<dialed, socket>> /\ ~dialed /\ ~socket
    BY <1>2, <1>7 DEF WaitUntilOpen, ConnectionInv, run
  <2>2. sup' \in SupType /\ sup'.pc = "loop"
    BY <1>0, <1>7, LeaveIs DEF WaitUntilOpen, SupPcs
  <2> QED
    BY <1>1, <2>1, <2>2 DEF ConnectionInv
<1>8. CASE Retry
  <2>1. UNCHANGED <<dialed, socket>> /\ ~dialed /\ ~socket
    BY <1>2, <1>8 DEF Retry, ConnectionInv, run
  <2>2. sup' \in SupType /\ sup'.pc = "loop"
    BY <1>0, <1>8, LeaveIs DEF Retry, SupPcs
  <2> QED
    BY <1>1, <2>1, <2>2 DEF ConnectionInv
<1>9. CASE ReadToken
  <2>1. UNCHANGED <<dialed, socket>> /\ ~dialed /\ ~socket
    BY <1>2, <1>9 DEF ReadToken, ConnectionInv
  <2>2. CASE ReturnEarly(TRUE)
    <3>1. sup' \in SupType /\ sup'.pc \in {"done", "sleep", "loop"}
      BY <1>1, <2>2, ReturnEarlyIs
    <3> QED
      BY <1>1, <2>1, <3>1 DEF ConnectionInv
  <2>3. CASE cached # None /\ sup' = [sup EXCEPT !.pc = "dial", !.token = cached]
    <3>1. sup' \in SupType /\ sup'.pc = "dial" /\ sup'.token \in Tokens
      BY <1>1, <2>3 DEF SupType, SupPcs
    <3> QED
      BY <1>1, <2>1, <3>1 DEF ConnectionInv
  <2> QED
    BY <1>9, <2>2, <2>3 DEF ReadToken
<1>10. CASE ReadTokenCanceled
  <2>1. UNCHANGED <<dialed, socket>> /\ ~dialed /\ ~socket
    BY <1>2, <1>10 DEF ReadTokenCanceled, ConnectionInv
  <2>2. sup' \in SupType /\ sup'.pc \in {"done", "sleep", "loop"}
    BY <1>1, <1>10, ReturnEarlyIs DEF ReadTokenCanceled
  <2> QED
    BY <1>1, <2>1, <2>2 DEF ConnectionInv
<1>11. CASE Dial
  <2>1. UNCHANGED socket /\ ~dialed /\ ~socket /\ sup.token \in Tokens
    BY <1>2, <1>11 DEF Dial, ConnectionInv
  <2>2. Goto("dialing") /\ dialed' = TRUE
    BY <1>11, <2>1 DEF Dial
  <2>3. sup' \in SupType /\ sup'.pc = "dialing" /\ sup'.token \in Tokens
    BY <1>1, <2>1, <2>2, GotoIs DEF SupPcs
  <2> QED
    BY <1>1, <2>1, <2>2, <2>3 DEF ConnectionInv
<1>12. CASE DialSucceeds
  <2>1. sup' \in SupType /\ sup'.pc = "declare"
    BY <1>1, <1>12 DEF DialSucceeds, SupType, SupPcs
  <2>2. socket' = TRUE /\ UNCHANGED dialed
    BY <1>12 DEF DialSucceeds
  <2> QED
    BY <1>1, <2>1, <2>2 DEF ConnectionInv
<1>13. CASE DialFails \/ DialUnauthorized
  <2>1. dialed' = FALSE /\ UNCHANGED socket /\ ~socket
    BY <1>2, <1>13 DEF DialFails, DialUnauthorized, ConnectionInv
  <2>2. sup' \in SupType /\ sup'.pc \in {"done", "sleep", "loop"}
    BY <1>1, <1>13, ReturnEarlyIs DEF DialFails, DialUnauthorized
  <2> QED
    BY <1>1, <2>1, <2>2 DEF ConnectionInv
<1>14. CASE Admit
  <2>1. UNCHANGED <<dialed, socket>>
    BY <1>14 DEF Admit, run
  <2>2. sup' \in SupType /\ sup'.pc = "write"
    BY <1>1, <1>14, GotoIs DEF Admit, SupPcs
  <2> QED
    BY <1>1, <2>1, <2>2 DEF ConnectionInv
<1>15. CASE AdmitCanceled \/ ServeWindowEnds \/ ServeReaderDone \/ PingFails
  <2>1. UNCHANGED <<dialed, socket>>
    BY <1>15 DEF AdmitCanceled, ServeWindowEnds, ServeReaderDone, PingFails, run
  <2>2. Return(TRUE) \/ Return(FALSE)
    BY <1>15 DEF AdmitCanceled, ServeWindowEnds, ServeReaderDone, PingFails
  <2>3. sup' \in SupType /\ sup'.pc = "closing"
    BY <1>1, <2>2, ReturnIs
  <2> QED
    BY <1>1, <2>1, <2>3 DEF ConnectionInv
<1>16. CASE WriteDeclaration
  <2>1. UNCHANGED <<dialed, socket>>
    BY <1>16 DEF WriteDeclaration, run
  <2>2. Goto("serve") \/ Return(TRUE)
    BY <1>16 DEF WriteDeclaration
  <2>3. sup' \in SupType /\ sup'.pc \in {"serve", "closing"}
    BY <1>1, <2>2, ReturnIs, GotoIs DEF SupPcs
  <2> QED
    BY <1>1, <2>1, <2>3 DEF ConnectionInv
<1>17. CASE ServeControl
  <2>1. UNCHANGED <<dialed, socket>>
    BY <1>17 DEF ServeControl
  <2>2. CASE sup.redeclares < MaxRedeclares
             /\ sup' = [sup EXCEPT !.pc = "declare", !.redeclares = @ + 1]
    <3>1. sup.redeclares + 1 \in 0 .. MaxRedeclares
      BY <1>0, <1>1, <2>2 DEF SupType
    <3>2. sup' \in SupType /\ sup'.pc = "declare"
      BY <1>1, <2>2, <3>1 DEF SupType, SupPcs
    <3> QED
      BY <1>1, <2>1, <3>2 DEF ConnectionInv
  <2>3. CASE sup' = [sup EXCEPT !.pc = "closing", !.failed = TRUE]
    <3>1. sup' \in SupType /\ sup'.pc = "closing"
      BY <1>1, <2>3 DEF SupType, SupPcs
    <3> QED
      BY <1>1, <2>1, <3>1 DEF ConnectionInv
  <2> QED
    BY <1>17, <2>2, <2>3 DEF ServeControl
<1>18. CASE CloseTransport
  <2>1. dialed' = FALSE /\ socket' = FALSE
    BY <1>18 DEF CloseTransport, Release
  <2>2. AfterRun(sup.failed)
    BY <1>18 DEF CloseTransport
  <2>3. sup' \in SupType /\ sup'.pc \in {"done", "sleep", "loop"}
    BY <1>1, <2>2, AfterRunIs
  <2> QED
    BY <2>1, <2>3 DEF ConnectionInv
<1>19. CASE Panics
  <2>1. UNCHANGED <<dialed, socket>>
    BY <1>19 DEF Panics
  <2>2. UNCHANGED sup \/ (sup.pc = "serve" /\ Return(TRUE))
    BY <1>19 DEF Panics
  <2>3. CASE UNCHANGED sup
    BY <1>4, <2>1, <2>3
  <2>4. CASE sup.pc = "serve" /\ Return(TRUE)
    <3>1. sup' \in SupType /\ sup'.pc = "closing"
      BY <1>1, <2>4, ReturnIs
    <3> QED
      BY <1>1, <2>1, <3>1 DEF ConnectionInv
  <2> QED
    BY <2>2, <2>3, <2>4
<1> QED
  BY <1>5, <1>6, <1>7, <1>8, <1>9, <1>10, <1>11, <1>12, <1>13, <1>14, <1>15, <1>16, <1>17, <1>18,
     <1>19 DEF Next, Environment, Supervisor, Serve, Handle

-----------------------------------------------------------------------------
\* The limiter and the readers.

LimiterType == [admitted : Seq(Ages), cool : 0 .. CoolDown]
ReaderType == [pc : {"none", "read", "offer", "install", "queue", "done"},
               frame : Frames, left : 0 .. CoolDown]

\* What a cool-down that a reader installs does to the limiter.
Installs(left) == limiter' = [limiter EXCEPT !.cool = NotBefore(left)]

\* Time, an admission and a cool-down are all that changes the limiter; the
\* admissions are the business of the first two.
LEMMA LimiterSteps ==
    ASSUME [Next]_vars
    PROVE  \/ Second \/ Admit
           \/ UNCHANGED <<limiter, recent>>
           \/ reader.pc = "install" /\ Installs(reader.left) /\ UNCHANGED recent
           \/ (\E left \in late : Installs(left)) /\ UNCHANGED recent
<1>1. CASE Second \/ Admit
  BY <1>1
<1>2. CASE InstallCoolDown
  BY <1>2 DEF InstallCoolDown, Installs, history
<1>3. CASE InstallLate
  BY <1>3 DEF InstallLate, Installs
<1>4. CASE Environment /\ ~Second
  BY <1>4 DEF Environment, WallAdvances, WallJumpsBack, TokenChanges, Halt, history
<1>5. CASE Supervisor /\ ~Admit
  BY <1>5 DEF Supervisor, Supervise, WaitUntilOpen, Retry, ReadToken, ReadTokenCanceled, Dial,
       DialSucceeds, DialFails, DialUnauthorized, AdmitCanceled, WriteDeclaration, CloseTransport,
       history
<1>6. CASE Serve \/ PingFails \/ WatchWindow \/ ReadFrame \/ OfferTick \/ QueueControl \/ ReadFails
           \/ WriteTick \/ Panics \/ UNCHANGED vars
  BY <1>6 DEF Serve, ServeWindowEnds, ServeReaderDone, ServeControl, PingFails, WatchWindow,
       ReadFrame, OfferTick, QueueControl, ReadFails, WriteTick, Panics, vars, history
<1> QED
  BY <1>1, <1>2, <1>3, <1>4, <1>5, <1>6 DEF Next, Handle

\* The later end of two cool-downs is one of them and not before either.
LEMMA NotBeforeIs ==
    ASSUME limiter \in LimiterType, NEW left \in 0 .. CoolDown
    PROVE  /\ NotBefore(left) \in 0 .. CoolDown
           /\ NotBefore(left) >= left /\ NotBefore(left) >= limiter.cool
<1>1. limiter.cool \in 0 .. CoolDown /\ CoolDown \in Nat
  BY Numbers DEF LimiterType
<1>2. NotBefore(left) = IF limiter.cool >= left THEN limiter.cool ELSE left
  BY <1>1, MaxOfTwo DEF NotBefore
<1> QED
  BY <1>1, <1>2

\* So the limiter keeps its type, and its admissions stay the last ones.
LEMMA LimiterStep ==
    ASSUME AdmissionsOK, limiter \in LimiterType, reader \in ReaderType,
           late \subseteq 0 .. CoolDown, [Next]_vars
    PROVE  AdmissionsOK' /\ limiter' \in LimiterType
<1>0. CoolDown \in Nat /\ DeclareWindow \in Nat /\ DeclareWindow >= 1
  BY Numbers
<1>1. CASE Second
  <2>1. AdmissionsOK'
    BY <1>1, SecondAdmissions
  <2>2. Kept \in Seq(Ages)
    BY KeptAges
  <2>3. Down(limiter.cool) \in 0 .. CoolDown
    BY <1>0 DEF Down, LimiterType
  <2>4. limiter' = [admitted |-> Kept, cool |-> Down(limiter.cool)]
    BY <1>1 DEF Second
  <2> QED
    BY <2>1, <2>2, <2>3, <2>4 DEF LimiterType
<1>2. CASE Admit
  <2>1. AdmissionsOK'
    BY <1>2, AdmitAdmissions DEF LimiterType
  <2>2. limiter' = [limiter EXCEPT !.admitted = Append(limiter.admitted, 0)]
    BY <1>2 DEF Admit
  <2>3. limiter.admitted \in Seq(Ages) /\ 0 \in Ages
    BY <1>0 DEF LimiterType, Ages
  <2>4. Append(limiter.admitted, 0) \in Seq(Ages)
    BY <2>3
  <2> QED
    BY <2>1, <2>2, <2>4 DEF LimiterType
<1>3. CASE UNCHANGED <<limiter, recent>>
  BY <1>3 DEF AdmissionsOK, AdmissionsInv
<1>4. ASSUME NEW left \in 0 .. CoolDown, Installs(left), UNCHANGED recent
      PROVE  AdmissionsOK' /\ limiter' \in LimiterType
  <2>1. limiter' \in LimiterType /\ limiter'.admitted = limiter.admitted
    BY <1>4, NotBeforeIs DEF Installs, LimiterType
  <2> QED
    BY <1>4, <2>1 DEF AdmissionsOK, AdmissionsInv
<1>5. reader.left \in 0 .. CoolDown
  BY DEF ReaderType
<1> QED
  BY <1>1, <1>2, <1>3, <1>4, <1>5, LimiterSteps

\* The cool-downs' part of the invariant.
CoolOK ==
    /\ limiter.cool \in 0 .. CoolDown /\ reader \in ReaderType /\ late \subseteq 0 .. CoolDown
    /\ quiet \in 0 .. CoolDown /\ CoolInv

\* A reader is through with a rate-limit frame only after its cool-down is
\* installed, and no later one shortens it.
LEMMA CoolStep ==
    ASSUME CoolOK, limiter \in LimiterType, [Next]_vars
    PROVE  CoolOK'
<1>0. CoolDown \in Nat /\ 0 \in 0 .. CoolDown
  BY Numbers
<1>1. /\ limiter.cool \in 0 .. CoolDown /\ quiet \in 0 .. CoolDown /\ late \subseteq 0 .. CoolDown
      /\ reader \in ReaderType /\ reader.left \in 0 .. CoolDown
  BY DEF CoolOK, ReaderType
<1>2. /\ quiet <= limiter.cool
      /\ reader.pc = "queue" => reader.left <= limiter.cool
      /\ reader.pc \notin {"install", "queue"} => reader.left = 0
  BY DEF CoolOK, CoolInv
<1>3. NoFrame \in ReaderType /\ NoFrame.pc = "none" /\ NoFrame.left = 0
  BY <1>0 DEF NoFrame, ReaderType, Frames
<1>4. ASSUME NEW n \in 0 .. CoolDown, n <= limiter.cool, quiet' = Max({quiet, n})
      PROVE  quiet' \in 0 .. CoolDown /\ quiet' <= limiter.cool
  <2>1. quiet' = IF quiet >= n THEN quiet ELSE n
    BY <1>0, <1>1, <1>4, MaxOfTwo
  <2> QED
    BY <1>0, <1>1, <1>2, <1>4, <2>1
<1>5. CASE UNCHANGED <<limiter, reader, late, quiet>>
  BY <1>5 DEF CoolOK, CoolInv
<1>6. CASE Second
  <2>1. limiter'.cool = Down(limiter.cool) /\ quiet' = Down(quiet)
        /\ late' = {Down(left) : left \in late}
    BY <1>6 DEF Second
  <2>2. reader' = [reader EXCEPT !.left = Down(reader.left)]
    BY <1>6 DEF Second
  <2>3. \A n \in 0 .. CoolDown : Down(n) \in 0 .. CoolDown
    BY <1>0 DEF Down
  <2>4. \A m, n \in 0 .. CoolDown : m <= n => Down(m) <= Down(n)
    BY <1>0 DEF Down
  <2>5. Down(0) = 0
    BY DEF Down
  <2>6. late' \subseteq 0 .. CoolDown
    BY <1>1, <2>1, <2>3
  <2>7. reader' \in ReaderType /\ reader'.pc = reader.pc /\ reader'.left = Down(reader.left)
    BY <1>1, <2>2, <2>3 DEF ReaderType
  <2> QED
    BY <1>1, <1>2, <2>1, <2>3, <2>4, <2>5, <2>6, <2>7 DEF CoolOK, CoolInv
<1>7. CASE Admit
  <2>1. limiter'.cool = limiter.cool /\ UNCHANGED <<reader, late, quiet>>
    BY <1>7 DEF Admit, LimiterType, run
  <2> QED
    BY <2>1 DEF CoolOK, CoolInv
<1>8. CASE DialSucceeds
  <2>1. UNCHANGED <<limiter, late, quiet>>
    BY <1>8 DEF DialSucceeds, history
  <2>2. reader' \in ReaderType /\ reader'.pc = "read" /\ reader'.left = 0
    BY <1>0, <1>8 DEF DialSucceeds, ReaderType, Frames
  <2> QED
    BY <1>1, <1>2, <2>1, <2>2 DEF CoolOK, CoolInv
<1>9. CASE CloseTransport
  <2>1. UNCHANGED limiter /\ reader' = NoFrame
    BY <1>9 DEF CloseTransport
  <2>2. late' \subseteq 0 .. CoolDown
    BY <1>1, <1>9 DEF CloseTransport
  <2>3. quiet' \in 0 .. CoolDown /\ quiet' <= limiter.cool
    <3>1. CASE reader.pc = "queue"
      BY <1>1, <1>2, <1>4, <1>9, <3>1 DEF CloseTransport
    <3>2. CASE reader.pc # "queue"
      BY <1>1, <1>2, <1>9, <3>2 DEF CloseTransport
    <3> QED
      BY <3>1, <3>2
  <2> QED
    BY <1>1, <1>3, <2>1, <2>2, <2>3 DEF CoolOK, CoolInv
<1>10. CASE OfferTick
  <2>1. UNCHANGED <<limiter, late, quiet>>
    BY <1>10 DEF OfferTick, history
  <2>2. reader' \in ReaderType /\ reader'.pc = "read" /\ reader'.left = 0
    BY <1>1, <1>2, <1>10 DEF OfferTick, ReaderType
  <2> QED
    BY <1>1, <1>2, <2>1, <2>2 DEF CoolOK, CoolInv
<1>11. CASE ReadFrame
  <2>1. UNCHANGED <<limiter, late, quiet>> /\ reader.left = 0
    BY <1>2, <1>11 DEF ReadFrame, history
  <2>2. reader' \in ReaderType /\ (reader'.pc # "install" => reader'.left = 0)
    <3>1. CASE reader' = [reader EXCEPT !.pc = "offer"]
      BY <1>1, <2>1, <3>1 DEF ReaderType
    <3>2. CASE reader' = [reader EXCEPT !.pc = "queue", !.frame = "fatal"]
      BY <1>1, <2>1, <3>2 DEF ReaderType, Frames
    <3>3. CASE reader' = [pc |-> "install", frame |-> "rate", left |-> CoolDown]
      <4>1. CoolDown \in 0 .. CoolDown
        BY <1>0
      <4> QED
        BY <3>3, <4>1 DEF ReaderType, Frames
    <3> QED
      BY <1>11, <3>1, <3>2, <3>3 DEF ReadFrame
  <2> QED
    BY <1>1, <1>2, <2>1, <2>2 DEF CoolOK, CoolInv
<1>12. CASE InstallCoolDown
  <2>1. UNCHANGED <<late, quiet>>
    BY <1>12 DEF InstallCoolDown, history
  <2>2. reader' \in ReaderType /\ reader'.pc = "queue" /\ reader'.left = reader.left
    BY <1>1, <1>12 DEF InstallCoolDown, ReaderType
  <2>3. limiter'.cool = NotBefore(reader.left)
    BY <1>12 DEF InstallCoolDown, LimiterType
  <2>4. /\ limiter'.cool \in 0 .. CoolDown
        /\ limiter'.cool >= reader.left /\ limiter'.cool >= limiter.cool
    BY <1>1, <2>3, NotBeforeIs
  <2> QED
    BY <1>0, <1>1, <1>2, <2>1, <2>2, <2>4 DEF CoolOK, CoolInv
<1>13. CASE InstallLate
  <2>1. PICK left \in late : /\ limiter' = [limiter EXCEPT !.cool = NotBefore(left)]
                             /\ late' = late \ {left} /\ quiet' = Max({quiet, left})
    BY <1>13 DEF InstallLate
  <2>2. UNCHANGED reader /\ left \in 0 .. CoolDown
    BY <1>1, <1>13 DEF InstallLate, run
  <2>3. limiter'.cool = NotBefore(left)
    BY <2>1 DEF LimiterType
  <2>4. /\ limiter'.cool \in 0 .. CoolDown
        /\ limiter'.cool >= left /\ limiter'.cool >= limiter.cool
    BY <2>2, <2>3, NotBeforeIs
  <2>5. quiet' = IF quiet >= left THEN quiet ELSE left
    BY <1>0, <1>1, <2>1, <2>2, MaxOfTwo
  <2>6. quiet' \in 0 .. CoolDown /\ quiet' <= limiter'.cool
    BY <1>0, <1>1, <1>2, <2>2, <2>4, <2>5
  <2>7. late' \subseteq 0 .. CoolDown
    BY <1>1, <2>1
  <2>8. reader.pc = "queue" => reader.left <= limiter'.cool
    BY <1>0, <1>1, <1>2, <2>4
  <2> QED
    BY <1>1, <1>2, <2>2, <2>4, <2>6, <2>7, <2>8 DEF CoolOK, CoolInv
<1>14. CASE QueueControl
  <2>1. UNCHANGED <<limiter, late>> /\ reader.pc = "queue" /\ quiet' = Max({quiet, reader.left})
    BY <1>14 DEF QueueControl
  <2>2. reader' \in ReaderType /\ reader'.pc = "read" /\ reader'.left = 0
    BY <1>0, <1>14 DEF QueueControl, ReaderType, Frames
  <2>3. quiet' \in 0 .. CoolDown /\ quiet' <= limiter.cool
    BY <1>1, <1>2, <1>4, <2>1
  <2> QED
    BY <1>1, <2>1, <2>2, <2>3 DEF CoolOK, CoolInv
<1>15. CASE ReadFails
  <2>1. UNCHANGED <<limiter, late>> /\ reader.pc \in {"read", "queue"}
        /\ quiet' = Max({quiet, reader.left})
    BY <1>15 DEF ReadFails
  <2>2. reader' \in ReaderType /\ reader'.pc = "done" /\ reader'.left = 0
    BY <1>3, <1>15 DEF ReadFails, ReaderType, NoFrame
  <2>3. reader.left <= limiter.cool
    BY <1>0, <1>1, <1>2, <2>1
  <2>4. quiet' \in 0 .. CoolDown /\ quiet' <= limiter.cool
    BY <1>1, <1>4, <2>1, <2>3
  <2> QED
    BY <1>1, <2>1, <2>2, <2>4 DEF CoolOK, CoolInv
<1>16. CASE Panics
  <2>1. UNCHANGED <<limiter, late, quiet>> /\ (reader' = NoFrame \/ UNCHANGED reader)
    BY <1>16 DEF Panics, history
  <2> QED
    BY <1>1, <1>2, <1>3, <2>1 DEF CoolOK, CoolInv
<1>17. CASE Environment /\ ~Second
  BY <1>5, <1>17 DEF Environment, WallAdvances, WallJumpsBack, TokenChanges, Halt, run, history
<1>18. CASE Supervisor /\ ~Admit /\ ~DialSucceeds /\ ~CloseTransport
  BY <1>5, <1>18 DEF Supervisor, Supervise, WaitUntilOpen, Retry, ReadToken, ReadTokenCanceled,
       Dial, DialFails, DialUnauthorized, AdmitCanceled, WriteDeclaration, run, history
<1>19. CASE Serve \/ PingFails \/ WatchWindow \/ WriteTick \/ UNCHANGED vars
  BY <1>5, <1>19 DEF Serve, ServeWindowEnds, ServeReaderDone, ServeControl, PingFails, WatchWindow,
       WriteTick, vars, run, history
<1> QED
  BY <1>6, <1>7, <1>8, <1>9, <1>10, <1>11, <1>12, <1>13, <1>14, <1>15, <1>16, <1>17, <1>18, <1>19
     DEF Next, Handle

-----------------------------------------------------------------------------
\* The clock, the cache and the queues.

EnvType ==
    /\ wall \in 1 .. Horizon /\ jumps \in 0 .. MaxJumps
    /\ cached \in Tokens \cup {None}
    /\ stopped \in BOOLEAN /\ windowDone \in BOOLEAN

\* The environment and the run's context keep their types.
LEMMA EnvStep ==
    ASSUME EnvType, [Next]_vars PROVE EnvType'
<1>0. Horizon \in Nat /\ MaxJumps \in Nat
  BY Numbers
<1>1. /\ wall \in 1 .. Horizon /\ jumps \in 0 .. MaxJumps /\ cached \in Tokens \cup {None}
      /\ stopped \in BOOLEAN /\ windowDone \in BOOLEAN
  BY DEF EnvType
<1>2. wall' \in 1 .. Horizon /\ jumps' \in 0 .. MaxJumps
  <2>1. CASE WallAdvances
    BY <1>0, <1>1, <2>1 DEF WallAdvances
  <2>2. CASE WallJumpsBack
    BY <1>0, <1>1, <2>2 DEF WallJumpsBack
  <2>3. CASE UNCHANGED clock
    BY <1>1, <2>3 DEF clock
  <2>4. WallAdvances \/ WallJumpsBack \/ UNCHANGED clock
    BY DEF Next, Environment, Second, TokenChanges, Halt, Supervisor, Supervise, WaitUntilOpen,
         Retry, ReadToken, ReadTokenCanceled, Dial, DialSucceeds, DialFails, DialUnauthorized,
         Admit, AdmitCanceled, WriteDeclaration, CloseTransport, Serve, ServeWindowEnds,
         ServeReaderDone, ServeControl, PingFails, WatchWindow, ReadFrame, Handle, OfferTick,
         InstallCoolDown, QueueControl, ReadFails, InstallLate, WriteTick, Panics, vars
  <2> QED
    BY <2>1, <2>2, <2>3, <2>4
<1>3. cached' \in Tokens \cup {None}
  <2>1. CASE TokenChanges
    BY <2>1 DEF TokenChanges
  <2>2. TokenChanges \/ UNCHANGED cached
    BY DEF Next, Environment, WallAdvances, WallJumpsBack, Second, Halt, Supervisor, Supervise,
         WaitUntilOpen, Retry, ReadToken, ReadTokenCanceled, Dial, DialSucceeds, DialFails,
         DialUnauthorized, Admit, AdmitCanceled, WriteDeclaration, CloseTransport, Serve,
         ServeWindowEnds, ServeReaderDone, ServeControl, PingFails, WatchWindow, ReadFrame, Handle,
         OfferTick, InstallCoolDown, QueueControl, ReadFails, InstallLate, WriteTick, Panics, vars
  <2> QED
    BY <1>1, <2>1, <2>2
<1>4. \/ stopped' = stopped
      \/ stopped' = TRUE
  BY DEF Next, Environment, WallAdvances, WallJumpsBack, Second, TokenChanges, Halt, StopLane,
       Supervisor, Supervise, WaitUntilOpen, Retry, ReadToken, ReadTokenCanceled, Dial,
       DialSucceeds, DialFails, DialUnauthorized, Admit, AdmitCanceled, WriteDeclaration,
       CloseTransport, Serve, ServeWindowEnds, ServeReaderDone, ServeControl, PingFails,
       WatchWindow, ReadFrame, Handle, OfferTick, InstallCoolDown, QueueControl, ReadFails,
       InstallLate, WriteTick, Panics, vars
<1>5. \/ windowDone' = windowDone
      \/ windowDone' = TRUE
      \/ windowDone' = FALSE
  BY DEF Next, Environment, WallAdvances, WallJumpsBack, Second, TokenChanges, Halt, StopLane,
       Supervisor, Supervise, WaitUntilOpen, Retry, ReadToken, ReadTokenCanceled, ReturnEarly, Dial,
       DialSucceeds, DialFails, DialUnauthorized, Admit, AdmitCanceled, WriteDeclaration,
       CloseTransport, Serve, ServeWindowEnds, ServeReaderDone, ServeControl, PingFails,
       WatchWindow, ReadFrame, Handle, OfferTick, InstallCoolDown, QueueControl, ReadFails,
       InstallLate, WriteTick, Panics, vars, run
<1>6. stopped' \in BOOLEAN
  BY <1>1, <1>4
<1>7. windowDone' \in BOOLEAN
  BY <1>1, <1>5
<1> QED
  BY <1>2, <1>3, <1>6, <1>7 DEF EnvType

QueueType ==
    /\ refused \in Seq(Tokens) /\ Len(refused) <= MaxRefused
    /\ controls \in Seq(Frames) /\ Len(controls) <= ControlCap
    /\ ticks \in 0 .. Buffer

\* The memory of refused tokens, the controls and the ticks keep their bounds.
LEMMA QueueStep ==
    ASSUME QueueType, ConnectionInv, reader \in ReaderType, [Next]_vars
    PROVE  QueueType'
<1>0. /\ MaxRefused \in Nat /\ MaxRefused >= 1 /\ ControlCap \in Nat /\ ControlCap >= 1
      /\ Buffer \in Nat /\ Buffer >= 1
  BY Numbers
<1>1. /\ refused \in Seq(Tokens) /\ Len(refused) <= MaxRefused
      /\ controls \in Seq(Frames) /\ Len(controls) <= ControlCap
      /\ ticks \in 0 .. Buffer
  BY DEF QueueType
<1>2. refused' \in Seq(Tokens) /\ Len(refused') <= MaxRefused
  <2>1. CASE DialUnauthorized
    <3>1. sup.token \in Tokens
      BY <2>1 DEF DialUnauthorized, ConnectionInv
    <3>2. CASE refused' = refused
      BY <1>1, <3>2
    <3>3. CASE refused' = Append(refused, sup.token) /\ Len(refused) < MaxRefused
      BY <1>0, <1>1, <3>1, <3>3
    <3>4. CASE refused' = Append(Tail(refused), sup.token) /\ Len(refused) >= MaxRefused
      <4>1. Tail(refused) \in Seq(Tokens) /\ Len(Tail(refused)) + 1 <= MaxRefused
        BY <1>0, <1>1, <3>4
      <4>2. /\ Append(Tail(refused), sup.token) \in Seq(Tokens)
            /\ Len(Append(Tail(refused), sup.token)) = Len(Tail(refused)) + 1
        BY <3>1, <4>1
      <4> QED
        BY <3>4, <4>1, <4>2
    <3> QED
      BY <1>0, <1>1, <2>1, <3>2, <3>3, <3>4 DEF DialUnauthorized, AddRefused
  <2>2. CASE UNCHANGED refused
    BY <1>1, <2>2
  <2>3. DialUnauthorized \/ UNCHANGED refused
    BY DEF Next, Environment, WallAdvances, WallJumpsBack, Second, TokenChanges, Halt, Supervisor,
         Supervise, WaitUntilOpen, Retry, ReadToken, ReadTokenCanceled, Dial, DialSucceeds,
         DialFails, Admit, AdmitCanceled, WriteDeclaration, CloseTransport, Serve, ServeWindowEnds,
         ServeReaderDone, ServeControl, PingFails, WatchWindow, ReadFrame, Handle, OfferTick,
         InstallCoolDown, QueueControl, ReadFails, InstallLate, WriteTick, Panics, vars
  <2> QED
    BY <2>1, <2>2, <2>3
<1>3. controls' \in Seq(Frames) /\ Len(controls') <= ControlCap
  <2>1. CASE ServeControl
    <3>1. controls' = Tail(controls) /\ controls # <<>>
      BY <2>1 DEF ServeControl
    <3> QED
      BY <1>0, <1>1, <3>1
  <2>2. CASE QueueControl
    <3>1. controls' = Append(controls, reader.frame) /\ Len(controls) < ControlCap
      BY <2>2 DEF QueueControl
    <3>2. reader.frame \in Frames
      BY DEF ReaderType
    <3> QED
      BY <1>0, <1>1, <3>1, <3>2
  <2>3. CASE UNCHANGED controls \/ controls' = <<>>
    <3>1. CASE UNCHANGED controls
      BY <1>1, <3>1
    <3>2. CASE controls' = <<>>
      <4>1. <<>> \in Seq(Frames) /\ Len(<<>>) = 0
        OBVIOUS
      <4>2. 0 <= ControlCap
        BY <1>0
      <4> QED
        BY <3>2, <4>1, <4>2, Zenon
    <3> QED
      BY <2>3, <3>1, <3>2
  <2>4. ServeControl \/ QueueControl \/ UNCHANGED controls \/ controls' = <<>>
    BY DEF Next, Environment, WallAdvances, WallJumpsBack, Second, TokenChanges, Halt, Supervisor,
         Supervise, WaitUntilOpen, Retry, ReadToken, ReadTokenCanceled, Dial, DialSucceeds,
         DialFails, DialUnauthorized, Admit, AdmitCanceled, WriteDeclaration, CloseTransport, Serve,
         ServeWindowEnds, ServeReaderDone, PingFails, WatchWindow, ReadFrame, Handle, OfferTick,
         InstallCoolDown, ReadFails, InstallLate, WriteTick, Panics, vars, run
  <2> QED
    BY <2>1, <2>2, <2>3, <2>4
<1>4. ticks' \in 0 .. Buffer
  <2>1. CASE Offer
    BY <1>0, <1>1, <2>1 DEF Offer
  <2>2. CASE ticks > 0 /\ ticks' = ticks - 1
    BY <1>0, <1>1, <2>2
  <2>3. CASE ticks' = 0 \/ UNCHANGED ticks
    BY <1>0, <1>1, <2>3
  <2>4. Offer \/ (ticks > 0 /\ ticks' = ticks - 1) \/ ticks' = 0 \/ UNCHANGED ticks
    BY DEF Next, Environment, WallAdvances, WallJumpsBack, Second, TokenChanges, Halt, StopLane,
         Supervisor, Supervise, WaitUntilOpen, Retry, ReadToken, ReadTokenCanceled, Dial,
         DialSucceeds, DialFails, DialUnauthorized, Admit, AdmitCanceled, WriteDeclaration,
         CloseTransport, Serve, ServeWindowEnds, ServeReaderDone, ServeControl, PingFails,
         WatchWindow, ReadFrame, Handle, OfferTick, InstallCoolDown, QueueControl, ReadFails,
         InstallLate, WriteTick, Panics, vars
  <2> QED
    BY <2>1, <2>2, <2>3, <2>4
<1> QED
  BY <1>2, <1>3, <1>4 DEF QueueType

-----------------------------------------------------------------------------
\* LaneInv by its parts.

LaneParts ==
    EnvType /\ QueueType /\ SupOK /\ limiter \in LimiterType /\ AdmissionsOK /\ CoolOK

\* The parts are the whole, in this state.
LEMMA PartsAre == LaneInv <=> LaneParts
<1>1. limiter \in LimiterType => limiter.cool \in 0 .. CoolDown /\ limiter.admitted \in Seq(Ages)
  BY DEF LimiterType
<1>2. {stopped, windowDone, dialed, socket} \subseteq BOOLEAN <=>
            stopped \in BOOLEAN /\ windowDone \in BOOLEAN /\ {dialed, socket} \subseteq BOOLEAN
  OBVIOUS
<1> QED
  BY <1>1, <1>2, Zenon DEF LaneInv, LaneParts, TypeOK, EnvType, QueueType, SupOK, SupType, SupPcs,
     LimiterType, ReaderType, AdmissionsOK, CoolOK

\* And in the next.
LEMMA PartsAreNext == LaneInv' <=> LaneParts'
<1>1. limiter' \in LimiterType => limiter'.cool \in 0 .. CoolDown /\ limiter'.admitted \in Seq(Ages)
  BY DEF LimiterType
<1>2. {stopped', windowDone', dialed', socket'} \subseteq BOOLEAN <=>
            stopped' \in BOOLEAN /\ windowDone' \in BOOLEAN /\ {dialed', socket'} \subseteq BOOLEAN
  OBVIOUS
<1> QED
  BY <1>1, <1>2, Zenon DEF LaneInv, LaneParts, TypeOK, EnvType, QueueType, SupOK, SupType, SupPcs,
     LimiterType, ReaderType, AdmissionsOK, CoolOK

\* The lane starts in it: nothing is open, nothing admitted, nothing to wait for.
LEMMA LaneStart ==
    ASSUME Init PROVE LaneInv
<1>0. /\ DeclareLimit \in Nat /\ DeclareLimit >= 1 /\ DeclareWindow \in Nat /\ MaxJumps \in Nat
      /\ CoolDown \in Nat /\ MaxRefused \in Nat /\ ControlCap \in Nat /\ Buffer \in Nat
      /\ Horizon \in Nat /\ MaxRedeclares \in Nat
  BY Numbers
<1>1. EnvType
  <2>1. wall \in 1 .. Horizon /\ jumps \in 0 .. MaxJumps /\ cached \in Tokens \cup {None}
    BY <1>0 DEF Init
  <2>2. stopped \in BOOLEAN /\ windowDone \in BOOLEAN
    BY Zenon DEF Init
  <2> QED
    BY <2>1, <2>2, Zenon DEF EnvType
<1>2. QueueType
  BY <1>0 DEF Init, QueueType
<1>3. SupOK
  <2>1. sup = [pc |-> "loop", until |-> 0, token |-> None, redeclares |-> 0, failed |-> FALSE]
    BY DEF Init
  <2>2. sup \in SupType /\ sup.pc = "loop"
    BY <1>0, <2>1 DEF SupType, SupPcs
  <2> QED
    BY <2>2 DEF Init, SupOK, ConnectionInv
<1>4. limiter = [admitted |-> <<>>, cool |-> 0]
  BY DEF Init
<1>5. limiter \in LimiterType /\ limiter.admitted = <<>> /\ limiter.cool = 0
  BY <1>0, <1>4 DEF LimiterType
<1>6. AdmissionsOK
  <2>1. recent \in [1 .. DeclareLimit -> 0 .. DeclareWindow]
        /\ \A i \in 1 .. DeclareLimit : recent[i] = DeclareWindow
    BY <1>0 DEF Init
  <2>2. ASSUME NEW m \in Nat, NEW S, NEW r \in [1 .. m -> S] PROVE r \in Seq(S) /\ Len(r) = m
    OBVIOUS
  <2>3. recent \in Seq(0 .. DeclareWindow) /\ Len(recent) = DeclareLimit
        /\ DOMAIN recent = 1 .. DeclareLimit
    BY <1>0, <2>1, <2>2
  <2>4. Len(limiter.admitted) = 0 /\ DOMAIN limiter.admitted = {}
    BY <1>5
  <2>5. \A i, j \in DOMAIN recent : i <= j => recent[i] >= recent[j]
    BY <1>0, <2>1, <2>3
  <2>6. \A i \in 1 .. DeclareLimit - Len(limiter.admitted) : recent[i] = DeclareWindow
    BY <1>0, <2>1, <2>4
  <2>7. AdmissionsInv
    BY <2>4, <2>5, <2>6 DEF AdmissionsInv
  <2> QED
    BY <1>0, <1>5, <2>3, <2>4, <2>7 DEF AdmissionsOK, LimiterType
<1>7. CoolOK
  <2>1. reader \in ReaderType /\ reader.pc = "none" /\ reader.left = 0
    BY <1>0 DEF Init, NoFrame, ReaderType, Frames
  <2> QED
    BY <1>0, <1>5, <2>1 DEF Init, CoolOK, CoolInv
<1> QED
  BY <1>1, <1>2, <1>3, <1>5, <1>6, <1>7, PartsAre DEF LaneParts

\* Every step of the lane keeps it.
LEMMA LaneStep ==
    ASSUME LaneInv, [Next]_vars PROVE LaneInv'
<1>1. EnvType /\ QueueType /\ SupOK /\ limiter \in LimiterType /\ AdmissionsOK /\ CoolOK
  BY PartsAre DEF LaneParts
<1>2. /\ wall \in 1 .. Horizon /\ cached \in Tokens \cup {None} /\ ConnectionInv
      /\ reader \in ReaderType /\ late \subseteq 0 .. CoolDown
  BY <1>1 DEF EnvType, SupOK, CoolOK
<1>3. EnvType' /\ QueueType' /\ SupOK' /\ CoolOK'
  BY <1>1, <1>2, EnvStep, QueueStep, SupStep, CoolStep
<1>4. AdmissionsOK' /\ limiter' \in LimiterType
  BY <1>1, <1>2, LimiterStep
<1>5. LaneParts'
  BY <1>3, <1>4 DEF LaneParts, LimiterType, Ages
<1> QED
  BY <1>5, PartsAreNext

\* The lane keeps its types.
THEOREM LaneTypeCorrect == Spec => []TypeOK
<1>1. Init => LaneInv
  BY LaneStart
<1>2. LaneInv /\ [Next]_vars => LaneInv'
  BY LaneStep
<1>3. LaneInv => TypeOK
  BY DEF LaneInv
<1> QED
  BY <1>1, <1>2, <1>3, PTL DEF Spec

\* The lane dials only when the transport before it is closed and released: the
\* slot and the socket belong to a run that has still to close them.
THEOREM BreaksBeforeMake == Spec => []BreakBeforeMake
<1>1. Init => LaneInv
  BY LaneStart
<1>2. LaneInv /\ [Next]_vars => LaneInv'
  BY LaneStep
<1>3. LaneInv => BreakBeforeMake
  BY DEF LaneInv, ConnectionInv, BreakBeforeMake
<1> QED
  BY <1>1, <1>2, <1>3, PTL DEF Spec

\* Only an admission takes the supervisor from its wait to the write.
LEMMA OnlyAdmitWrites ==
    ASSUME LaneInv, [Next]_vars, sup.pc = "declare", sup'.pc = "write"
    PROVE  Admit
<1>1. sup \in SupType
  BY PartsAre DEF LaneParts, SupOK
<1>2. ASSUME UNCHANGED sup PROVE FALSE
  BY <1>2
<1>3. ASSUME Return(TRUE) PROVE FALSE
  BY <1>1, <1>3, ReturnIs
<1>4. ~(Environment \/ Serve \/ PingFails \/ WatchWindow \/ ReadFrame \/ Handle \/ ReadFails
        \/ InstallLate \/ WriteTick \/ Panics \/ UNCHANGED vars)
  BY <1>2, <1>3 DEF Environment, WallAdvances, WallJumpsBack, Second, TokenChanges, Halt, Serve,
       ServeWindowEnds, ServeReaderDone, ServeControl, PingFails, WatchWindow, ReadFrame, Handle,
       OfferTick, InstallCoolDown, QueueControl, ReadFails, InstallLate, WriteTick, Panics, vars
<1>5. Supervisor => Admit
  BY <1>3 DEF Supervisor, Supervise, WaitUntilOpen, Retry, ReadToken, ReadTokenCanceled, Dial,
       DialSucceeds, DialFails, DialUnauthorized, AdmitCanceled, WriteDeclaration, CloseTransport
<1> QED
  BY <1>4, <1>5 DEF Next

\* A declaration is admitted only a whole window after the DeclareLimit-th last
\* one, over all connections, and not within the cool-down of a rate-limit frame
\* any reader is through with: the limiter forgets only what is out of the
\* window, and no cool-down shortens another.
THEOREM DeclarationsKeepLimits == Spec => DeclaresWithinLimits
<1>1. Init => LaneInv
  BY LaneStart
<1>2. LaneInv /\ [Next]_vars => LaneInv'
  BY LaneStep
<1>3. LaneInv /\ [Next]_vars =>
        [sup.pc = "declare" /\ sup'.pc = "write" => quiet = 0 /\ recent[1] >= DeclareWindow]_vars
  <2> SUFFICES ASSUME LaneInv, [Next]_vars, sup.pc = "declare", sup'.pc = "write"
               PROVE  quiet = 0 /\ recent[1] >= DeclareWindow
    OBVIOUS
  <2>1. Admit
    BY OnlyAdmitWrites
  <2>2. AdmissionsOK /\ limiter \in LimiterType /\ CoolOK
    BY PartsAre DEF LaneParts
  <2>3. recent[1] >= DeclareWindow
    BY <2>1, <2>2, AdmitAdmissions DEF LimiterType
  <2>4. quiet \in 0 .. CoolDown /\ quiet <= limiter.cool /\ limiter.cool = 0
    BY <2>1, <2>2 DEF CoolOK, CoolInv, Admit
  <2> QED
    BY <2>3, <2>4, Numbers
<1> QED
  BY <1>1, <1>2, <1>3, PTL DEF Spec, DeclaresWithinLimits
==============================================================================
