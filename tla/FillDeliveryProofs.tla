-------------------------- MODULE FillDeliveryProofs --------------------------
(***************************************************************************)
(* FillDelivery implements AtLeastOnce, and reclaims before it reads, for  *)
(* any stream, page size and number of faults.                             *)
(*                                                                         *)
(* The induction theorems of the library cannot be instantiated by the     *)
(* provers, but the least element of a set of naturals can: an induction   *)
(* is the case of the least counterexample.                                *)
(***************************************************************************)
EXTENDS FillDelivery, FiniteSetTheorems, WellFoundedInduction, TLAPS

-----------------------------------------------------------------------------
\* Sets of naturals.

\* A set of naturals has a least element.
LEMMA LeastNat ==
    ASSUME NEW T \in SUBSET Nat, T # {}
    PROVE  \E x \in T : \A y \in T : x <= y
<1>1. PICK x \in T : \A y \in T : ~ (<<y, x>> \in OpToRel(<, Nat))
  BY NatLessThanWellFounded, WFMin
<1>2. \A a, b \in Nat : <<b, a>> \in OpToRel(<, Nat) <=> b < a
  BY DEF OpToRel
<1>3. \A y \in T : ~(y < x)
  BY <1>1, <1>2
<1>4. \A y \in T : x <= y
  BY <1>3
<1> QED
  BY <1>4

\* A bounded one has a greatest element.
LEMMA GreatestNat ==
    ASSUME NEW T \in SUBSET Nat, T # {}, NEW n \in Nat, \A y \in T : y <= n
    PROVE  \E x \in T : \A y \in T : y <= x
<1> DEFINE U == {m \in Nat : n - m \in T}
<1>1. \A y \in T : y \in Nat /\ y <= n /\ n - y \in Nat /\ n - (n - y) = y
  OBVIOUS
<1>2. \A y \in T : n - y \in U
  BY <1>1
<1>3. PICK u \in U : \A v \in U : u <= v
  <2> U \in SUBSET Nat /\ U # {}
    BY <1>2
  <2> QED
    BY LeastNat
<1>4. ASSUME NEW y \in T PROVE y <= n - u
  <2>1. u <= n - y
    BY <1>2, <1>3
  <2>2. u \in Nat /\ y \in Nat
    OBVIOUS
  <2> QED
    BY <2>1, <2>2
<1>5. n - u \in T
  OBVIOUS
<1> QED
  BY <1>4, <1>5

\* What Max and Min return.
LEMMA MaxIsGreatest ==
    ASSUME NEW T \in SUBSET Nat, T # {}, NEW n \in Nat, \A y \in T : y <= n
    PROVE  Max(T) \in T /\ \A y \in T : y <= Max(T)
<1>1. \E x \in T : \A y \in T : x >= y
  <2>1. PICK x \in T : \A y \in T : y <= x
    BY GreatestNat
  <2>2. \A y \in T : x >= y
    BY <2>1
  <2> QED
    BY <2>2
<1>2. Max(T) \in T /\ \A y \in T : Max(T) >= y
  BY <1>1 DEF Max
<1>3. \A y \in T : y <= Max(T)
  BY <1>2
<1> QED
  BY <1>2, <1>3

\* Min is the least element.
LEMMA MinIsLeast ==
    ASSUME NEW T \in SUBSET Nat, T # {}
    PROVE  Min(T) \in T /\ \A y \in T : Min(T) <= y
BY LeastNat DEF Min

\* Leading returns a page: no larger than allowed, before all that it leaves out,
\* and full if it leaves out anything.
IsPage(page, ids, n) ==
    /\ page \subseteq ids
    /\ Cardinality(page) = IF Cardinality(ids) < n THEN Cardinality(ids) ELSE n
    /\ \A i \in page, j \in ids \ page : i < j

\* There are pages of every length: one longer than the longest would be got by
\* adding the least id it leaves out.
LEMMA PageExists ==
    ASSUME NEW ids \in SUBSET Nat, IsFiniteSet(ids), NEW k \in 0 .. Cardinality(ids)
    PROVE  \E page \in SUBSET ids :
               Cardinality(page) = k /\ \A i \in page, j \in ids \ page : i < j
<1> DEFINE Is(page, m) == Cardinality(page) = m /\ \A i \in page, j \in ids \ page : i < j
           None == {m \in 0 .. Cardinality(ids) : ~ \E page \in SUBSET ids : Is(page, m)}
<1>1. Cardinality(ids) \in Nat
  BY FS_CardinalityType
<1> SUFFICES ASSUME None # {} PROVE FALSE
  OBVIOUS
<1>2. PICK m \in None : \A l \in None : m <= l
  <2> None \in SUBSET Nat
    BY <1>1
  <2> QED
    BY LeastNat
<1>3. m \in Nat /\ m <= Cardinality(ids) /\ ~ \E page \in SUBSET ids : Is(page, m)
  BY <1>1
<1>4. m # 0
  <2>1. Is({}, 0)
    BY FS_EmptySet
  <2> QED
    BY <2>1, <1>3
<1>5. m - 1 \in 0 .. Cardinality(ids) /\ m - 1 \notin None
  <2>1. m - 1 \in Nat /\ m - 1 < m /\ m - 1 <= Cardinality(ids)
    BY <1>1, <1>3, <1>4
  <2>2. m - 1 \notin None
    BY <2>1, <1>2, <1>3
  <2> QED
    BY <2>1, <2>2, <1>1
<1>6. PICK page \in SUBSET ids : Is(page, m - 1)
  BY <1>5
<1>7. IsFiniteSet(page) /\ Cardinality(page) = m - 1 /\ page # ids
  <2>1. Cardinality(page) = m - 1
    BY <1>6
  <2>2. m - 1 # Cardinality(ids)
    BY <1>1, <1>3
  <2>3. IsFiniteSet(page)
    BY FS_Subset
  <2> QED
    BY <2>1, <2>2, <2>3
<1>8. PICK x \in ids \ page : \A y \in ids \ page : x <= y
  <2> ids \ page \in SUBSET Nat /\ ids \ page # {}
    BY <1>7
  <2> QED
    BY LeastNat
<1>9. Cardinality(page \cup {x}) = m
  <2>1. Cardinality(page \cup {x}) = m - 1 + 1
    BY <1>7, <1>8, FS_AddElement
  <2> QED
    BY <2>1, <1>3
<1>10. ASSUME NEW i \in page \cup {x}, NEW j \in ids \ (page \cup {x})
       PROVE  i < j
  <2>1. CASE i \in page
    BY <2>1, <1>6
  <2>2. CASE i = x
    <3>1. x <= j /\ x # j /\ x \in Nat /\ j \in Nat
      BY <1>8
    <3> QED
      BY <2>2, <3>1
  <2> QED
    BY <2>1, <2>2
<1>11. Is(page \cup {x}, m)
  BY <1>9, <1>10
<1>12. page \cup {x} \in SUBSET ids
  BY <1>8
<1> QED
  BY <1>3, <1>11, <1>12

\* A page is never empty unless there is nothing left, and what is behind it comes later.
LEMMA LeadingIsPage ==
    ASSUME NEW ids \in SUBSET Nat, IsFiniteSet(ids), NEW n \in Nat
    PROVE  IsPage(Leading(ids, n), ids, n)
<1> DEFINE k == IF Cardinality(ids) < n THEN Cardinality(ids) ELSE n
<1>1. Cardinality(ids) \in Nat
  BY FS_CardinalityType
<1>2. k \in 0 .. Cardinality(ids)
  BY <1>1
<1>3. \E page \in SUBSET ids : Cardinality(page) = k /\ \A i \in page, j \in ids \ page : i < j
  BY <1>2, PageExists
<1> QED
  BY <1>3, Zenon DEF Leading, IsPage

\* A page that leaves something out, or comes from a set that is not empty, is not
\* empty, and one that leaves something out is full.
LEMMA PageFacts ==
    ASSUME NEW ids \in SUBSET Nat, IsFiniteSet(ids), NEW n \in Nat \ {0}, NEW page, IsPage(page, ids, n)
    PROVE  /\ IsFiniteSet(page) /\ Cardinality(page) <= n
           /\ page = {} => ids = {}
           /\ page # ids => Cardinality(page) = n
<1>1. page \in SUBSET ids
  BY DEF IsPage
<1>2. IsFiniteSet(page) /\ Cardinality(page) \in Nat /\ Cardinality(ids) \in Nat
  BY <1>1, FS_Subset, FS_CardinalityType
<1>3. Cardinality(page) <= n
  BY <1>2 DEF IsPage
<1>4. page # ids => Cardinality(page) = n
  BY <1>1, <1>2, FS_Subset DEF IsPage
<1>5. page = {} => ids = {}
  BY <1>2, <1>4, FS_EmptySet
<1> QED
  BY <1>2, <1>3, <1>4, <1>5

-----------------------------------------------------------------------------
\* The inductive invariant.

\* A group that does not exist has delivered nothing, and no sink runs on it.
GroupInv == ~group => lastId = 0 /\ pc = "down"

\* The ledger holds the fills that are to be acknowledged, and those of the batch
\* that an acknowledgement, taken for failed, has already removed from the pending
\* entries.
StoredInv ==
    /\ pc # "ack" => ackIds = {}
    /\ pc \notin {"post", "ack"} => batch = {}
    /\ \A i \in ackIds : IsFill(i) => log[i] \in ledger
    /\ \A i \in batch \ pending : IsFill(i) => log[i] \in ledger

\* What was claimable at the start and is not delivered yet is in the batch, was
\* lost with an answer, or is claimable, and at the cursor or behind it.
ToReclaim(i) == i \in lost \/ (cursor # 0 /\ i >= cursor /\ i \in idle)

ReclaimInv ==
    /\ pc = "down" => due = {} /\ lost = {}
    /\ pc = "read" => due \subseteq lost
    /\ pc = "claim" => \A i \in due : ToReclaim(i)
    /\ pc \in {"post", "ack"} => \A i \in due \ batch : ToReclaim(i)

IndInv == TypeOK /\ GroupInv /\ StoredInv /\ ReclaimInv

-----------------------------------------------------------------------------
\* Every action keeps IndInv and is a step of the abstract queue, or none.

QueueStep == Queue!Next \/ UNCHANGED Queue!vars

\* The numbers behind the types.
LEMMA Numbers ==
    ASSUME TypeOK
    PROVE  /\ Len(log) \in Nat /\ first \in Nat \ {0} /\ lastId \in Nat /\ cursor \in Nat
           /\ Ids \in SUBSET Nat /\ pending \subseteq Ids /\ pending \in SUBSET Nat
           /\ IsFiniteSet(Ids) /\ IsFiniteSet(pending) /\ IsFiniteSet(idle) /\ IsFiniteSet(batch)
           /\ faults \in Nat /\ MaxFaults \in Nat /\ BatchSize \in Nat \ {0}
<1>1. Len(log) \in Nat
  BY DEF TypeOK
<1>2. first \in Nat \ {0} /\ lastId \in Nat /\ cursor \in Nat /\ lastId <= Len(log)
  BY <1>1 DEF TypeOK
<1>3. Ids \in SUBSET Nat /\ IsFiniteSet(Ids)
  BY <1>1, FS_Interval DEF Ids
<1>4. pending \subseteq Ids
  BY <1>1, <1>2 DEF TypeOK, Ids
<1>5. pending \in SUBSET Nat /\ IsFiniteSet(pending)
  BY <1>3, <1>4, FS_Subset
<1>6. IsFiniteSet(idle)
  BY <1>5, FS_Subset DEF TypeOK
<1>7. IsFiniteSet(batch)
  BY <1>3, FS_Subset DEF TypeOK
<1> QED
  BY <1>1, <1>2, <1>3, <1>4, <1>5, <1>6, <1>7, DeliveryAssumption DEF TypeOK

\* An empty stream is an empty queue.
LEMMA InitOK == Init => IndInv /\ Queue!Init
<1> SUFFICES ASSUME Init PROVE IndInv /\ Queue!Init
  OBVIOUS
<1>1. Cardinality(batch) = 0
  BY FS_EmptySet DEF Init
<1>2. TypeOK
  <2>1. log \in Seq(Records) /\ Len(log) = 0 /\ Cardinality(batch) <= BatchSize
    BY <1>1, DeliveryAssumption DEF Init
  <2>2. first = 1 /\ lastId = 0 /\ cursor = 0 /\ faults = 0 /\ MaxFaults \in Nat
    BY DeliveryAssumption DEF Init
  <2>3. first \in 1 .. Len(log) + 1 /\ lastId \in 0 .. Len(log) /\ cursor \in 0 .. Len(log) + 1
        /\ faults \in 0 .. MaxFaults
    BY <2>1, <2>2
  <2> QED
    BY <2>1, <2>3 DEF Init, TypeOK
<1> QED
  BY <1>2 DEF Init, IndInv, GroupInv, StoredInv, ReclaimInv, Queue!Init

\* XADD adds one fill to the queue, or trims the oldest away.
LEMMA EnqueueOK == ASSUME IndInv, Enqueue PROVE IndInv' /\ QueueStep
<1> USE DEF IndInv
<1>1. PICK r \in Records : log' = Append(log, r)
  BY DEF Enqueue
<1>2. PICK f \in first .. Len(log) + 1 :
          (f = first \/ Len(log) + 1 - (f - 1) >= MaxLen) /\ first' = f
  BY DEF Enqueue
<1>3. log \in Seq(Records) /\ Len(log) \in Nat /\ first \in Nat \ {0}
  BY Numbers DEF TypeOK
<1>4. /\ log' \in Seq(Records) /\ Len(log') = Len(log) + 1
      /\ \A i \in Ids : log'[i] = log[i]
  BY <1>1, <1>3 DEF Ids
<1>5. Ids \subseteq Ids'
  BY <1>3, <1>4 DEF Ids
<1>6. UNCHANGED <<group, lastId, pending, idle, pc, cursor, batch, ackIds, ledger, rejected, due,
                  skipped, lost, faults>>
  BY DEF Enqueue, sink
<1>7. TypeOK'
  BY <1>2, <1>3, <1>4, <1>5, <1>6, Numbers DEF TypeOK
<1>8. \A i \in batch : IsFill(i)' <=> IsFill(i)
  BY <1>4 DEF TypeOK, IsFill
<1>9. StoredInv'
  BY <1>4, <1>6, <1>8 DEF StoredInv, TypeOK
<1>10. GroupInv' /\ ReclaimInv'
  BY <1>6 DEF GroupInv, ReclaimInv, ToReclaim
<1>11. Queue!Add
  <2>1. first' \in first .. Len(log) + 1
    BY <1>2
  <2>2. first' = first \/ Len(log') - first' + 1 >= MaxLen
    BY <1>2, <1>3, <1>4, DeliveryAssumption
  <2> QED
    BY <1>1, <1>6, <2>1, <2>2 DEF Queue!Add
<1> QED
  BY <1>7, <1>9, <1>10, <1>11 DEF QueueStep, Queue!Next

\* Entries become claimable by time alone.
LEMMA GrowIdleOK == ASSUME IndInv, GrowIdle PROVE IndInv' /\ QueueStep
<1> USE DEF IndInv
<1>1. TypeOK'
  BY DEF GrowIdle, TypeOK, sink, Ids
<1>2. GroupInv' /\ StoredInv'
  BY DEF GrowIdle, GroupInv, StoredInv, sink, IsFill
<1>3. ReclaimInv'
  BY DEF GrowIdle, ReclaimInv, ToReclaim, sink, TypeOK
<1>4. UNCHANGED Queue!vars
  BY DEF GrowIdle, Queue!vars
<1> QED
  BY <1>1, <1>2, <1>3, <1>4 DEF QueueStep

\* A restart makes the group if there is none and begins to reclaim.
LEMMA BootOK == ASSUME IndInv, Boot PROVE IndInv' /\ QueueStep
<1> USE DEF IndInv
<1>1. lastId' = lastId
  BY DEF Boot, EnsureGroup, GroupInv
<1>2. TypeOK'
  <2>1. Len(log) \in Nat
    BY Numbers
  <2> QED
    BY <1>1, <2>1, Numbers DEF Boot, TypeOK, Ids
<1>3. GroupInv' /\ StoredInv'
  BY DEF Boot, GroupInv, StoredInv, IsFill
<1>4. ReclaimInv'
  <2>1. \A i \in idle : i >= 1
    BY Numbers DEF TypeOK, Ids
  <2> QED
    BY <2>1 DEF Boot, ReclaimInv, ToReclaim
<1>5. UNCHANGED Queue!vars
  BY <1>1 DEF Boot, Queue!vars
<1> QED
  BY <1>2, <1>3, <1>4, <1>5 DEF QueueStep

\* What XAUTOCLAIM does to the group: it takes out entries that were trimmed, and
\* what it passes and leaves pending is not claimable any more.
LEMMA XAutoClaimFacts ==
    ASSUME IndInv, NEW next \in {0} \cup pending, XAutoClaim(next)
    PROVE  /\ Claimed(next) \subseteq pending' /\ Claimed(next) \subseteq Ids
           /\ Cardinality(Claimed(next)) <= BatchSize
           /\ pending' \subseteq 1 .. lastId /\ idle' \subseteq pending' /\ pending' \subseteq pending
           /\ next \in 0 .. Len(log) + 1
           /\ (ledger' = ledger => Queue!GiveUp)
           /\ UNCHANGED <<log, first, group, lastId>>
           /\ \A i \in idle \cap pending' :
                 i >= cursor => i \in Claimed(next) \/ (next # 0 /\ i >= next /\ i \in idle')
<1> USE DEF IndInv
<1>1. /\ pending' = pending \ Trimmed(next)
      /\ idle' = idle \ (Trimmed(next) \cup Claimed(next))
      /\ Cardinality(Claimed(next)) <= BatchSize
      /\ UNCHANGED <<log, first, group, lastId>>
  BY DEF XAutoClaim
<1>2. Claimed(next) \subseteq pending /\ \A i \in Claimed(next) : i >= first
  BY DEF Claimed, Passed
<1>3. \A i \in Trimmed(next) : i \in pending /\ i < first
  BY DEF Trimmed, Passed
<1>4. Claimed(next) \subseteq pending'
  <2> SUFFICES ASSUME NEW i \in Claimed(next) PROVE i \notin Trimmed(next)
    BY <1>1, <1>2
  <2>1. i \in Nat /\ first \in Nat /\ i >= first
    BY <1>2, Numbers
  <2> QED
    BY <2>1, <1>3
<1>5. Claimed(next) \subseteq Ids
  BY <1>2, Numbers
<1>6. pending' \subseteq 1 .. lastId /\ idle' \subseteq pending' /\ pending' \subseteq pending
  BY <1>1 DEF TypeOK
<1>7. next \in 0 .. Len(log) + 1
  <2>1. next = 0 \/ next \in Ids
    BY Numbers
  <2> QED
    BY <2>1, Numbers DEF Ids
<1>8. (ledger' = ledger => Queue!GiveUp)
  BY <1>1, <1>3 DEF Queue!GiveUp
<1>9. ASSUME NEW i \in idle \cap pending', i >= cursor, i \notin Claimed(next)
      PROVE  next # 0 /\ i >= next /\ i \in idle'
  <2>1. i \in pending /\ i \in Nat /\ next \in Nat /\ first \in Nat /\ i \notin Trimmed(next)
    BY <1>1, <1>6, <1>7, Numbers
  <2>2. i \notin Passed(next)
    <3>1. i >= first \/ i < first
      BY <2>1
    <3> QED
      BY <1>9, <2>1, <3>1 DEF Claimed, Trimmed
  <2>3. ~(next = 0 \/ i < next)
    BY <1>9, <2>1, <2>2 DEF Passed
  <2> QED
    BY <1>1, <1>9, <2>1, <2>3
<1> QED
  BY <1>1, <1>4, <1>5, <1>6, <1>7, <1>8, <1>9

\* A page of claimable entries is claimed, those it passes that were trimmed are
\* given up.
LEMMA AutoClaimOK == ASSUME IndInv, AutoClaim PROVE IndInv' /\ QueueStep
<1> USE DEF IndInv
<1>1. PICK next \in {0} \cup pending :
          XAutoClaim(next) /\ cursor' = next /\ Deliver(Claimed(next), Onward(next))
  BY Zenon DEF AutoClaim
<1>2. /\ pc = "claim" /\ due' = due \cap pending'
      /\ UNCHANGED <<ackIds, ledger, rejected, skipped, faults>>
  BY DEF AutoClaim
<1> DEFINE claimed == Claimed(next)
<1>3. /\ batch' = claimed /\ lost' = lost \ claimed
      /\ pc' = IF claimed = {} THEN (IF next = 0 THEN "read" ELSE "claim") ELSE "post"
  BY <1>1 DEF Deliver, Onward
<1>4. /\ claimed \subseteq pending' /\ claimed \subseteq Ids
      /\ Cardinality(claimed) <= BatchSize
      /\ pending' \subseteq 1 .. lastId /\ idle' \subseteq pending' /\ pending' \subseteq pending
      /\ next \in 0 .. Len(log) + 1
      /\ (ledger' = ledger => Queue!GiveUp)
      /\ UNCHANGED <<log, first, group, lastId>>
      /\ \A i \in idle \cap pending' :
             i >= cursor => i \in claimed \/ (next # 0 /\ i >= next /\ i \in idle')
  BY <1>1, XAutoClaimFacts
<1> HIDE DEF claimed
<1>5. ackIds = {}
  BY <1>2 DEF StoredInv
<1>6. TypeOK'
  BY <1>1, <1>2, <1>3, <1>4, <1>5 DEF TypeOK, Ids
<1>7. GroupInv'
  BY <1>2, <1>3, <1>4 DEF GroupInv
<1>8. StoredInv'
  BY <1>2, <1>3, <1>4, <1>5 DEF StoredInv, IsFill
<1>9. ASSUME NEW i \in due', i \notin claimed
      PROVE  i \in lost' \/ (next # 0 /\ i >= next /\ i \in idle')
  <2>1. i \in due /\ i \in pending'
    BY <1>2
  <2>2. i \in lost \/ (i >= cursor /\ i \in idle)
    BY <1>2, <2>1 DEF ReclaimInv, ToReclaim
  <2> QED
    BY <1>3, <1>4, <1>9, <2>1, <2>2
<1>10. ReclaimInv'
  BY <1>1, <1>3, <1>9 DEF ReclaimInv, ToReclaim
<1> QED
  BY <1>2, <1>4, <1>6, <1>7, <1>8, <1>10 DEF QueueStep, Queue!Next

\* After a command whose answer did not become a batch, the sink goes on where it
\* was, with that answer's entries lost, or its process ends.
LEMMA AnswerLostOK ==
    ASSUME IndInv, pc \in {"claim", "read"}, NEW entries \in SUBSET Ids, AnswerLost(entries),
           UNCHANGED <<log, first, group, ledger, rejected, skipped>>,
           lastId' \in 0 .. Len(log), pending' \subseteq 1 .. lastId', idle' \subseteq pending',
           batch \ pending' \subseteq batch \ pending,
           pc = "read" \/ \A i \in due \cap pending' :
               i \in lost \cup entries \/ (cursor # 0 /\ i >= cursor /\ i \in idle')
    PROVE  IndInv'
<1> USE DEF IndInv
<1>1. faults < MaxFaults /\ faults' = faults + 1
  BY DEF AnswerLost
<1>2. faults' \in 0 .. MaxFaults
  BY <1>1, Numbers DEF TypeOK
<1>3. group
  BY DEF GroupInv
<1>4. CASE lost' = lost \cup entries /\ due' = due \cap pending' /\ UNCHANGED sink
  <2>1. UNCHANGED <<pc, cursor, batch, ackIds>>
    BY <1>4 DEF sink
  <2>2. TypeOK'
    BY <1>2, <1>4, <2>1 DEF TypeOK, Ids
  <2>3. GroupInv' /\ StoredInv'
    BY <1>3, <2>1 DEF GroupInv, StoredInv, IsFill
  <2>4. ReclaimInv'
    <3>1. CASE pc = "claim"
      <4>1. \A i \in due' : i \in lost' \/ (cursor' # 0 /\ i >= cursor' /\ i \in idle')
        BY <1>4, <2>1, <3>1
      <4> QED
        BY <4>1, <2>1, <3>1 DEF ReclaimInv, ToReclaim
    <3>2. CASE pc = "read"
      BY <1>4, <2>1, <3>2 DEF ReclaimInv
    <3> QED
      BY <3>1, <3>2
  <2> QED
    BY <2>2, <2>3, <2>4
<1>5. CASE Ends
  <2>1. Cardinality({}) <= BatchSize
    BY FS_EmptySet, DeliveryAssumption
  <2>2. 0 \in 0 .. Len(log) + 1
    BY Numbers
  <2>3. TypeOK'
    BY <1>2, <1>5, <2>1, <2>2 DEF Ends, TypeOK, Ids
  <2>4. GroupInv' /\ StoredInv' /\ ReclaimInv'
    BY <1>3, <1>5 DEF Ends, GroupInv, StoredInv, ReclaimInv
  <2> QED
    BY <2>3, <2>4
<1> QED
  BY <1>4, <1>5 DEF AnswerLost

\* A claim whose answer is lost: its entries are not idle any more, and are lost to
\* this process.
LEMMA AutoClaimLostOK == ASSUME IndInv, AutoClaimLost PROVE IndInv' /\ QueueStep
<1>1. PICK next \in {0} \cup pending : XAutoClaim(next) /\ AnswerLost(Claimed(next))
  BY Zenon DEF AutoClaimLost
<1>2. pc = "claim" /\ UNCHANGED <<ledger, rejected, skipped>>
  BY DEF AutoClaimLost
<1>3. /\ Claimed(next) \subseteq pending' /\ Claimed(next) \subseteq Ids
      /\ pending' \subseteq 1 .. lastId /\ idle' \subseteq pending' /\ pending' \subseteq pending
      /\ (ledger' = ledger => Queue!GiveUp)
      /\ UNCHANGED <<log, first, group, lastId>>
      /\ \A i \in idle \cap pending' :
             i >= cursor => i \in Claimed(next) \/ (next # 0 /\ i >= next /\ i \in idle')
  BY <1>1, XAutoClaimFacts
<1>4. ASSUME NEW i \in due \cap pending'
      PROVE  i \in lost \cup Claimed(next) \/ (cursor # 0 /\ i >= cursor /\ i \in idle')
  BY <1>2, <1>3 DEF IndInv, ReclaimInv, ToReclaim
<1>5. batch \ pending' \subseteq batch \ pending
  BY <1>2 DEF IndInv, StoredInv
<1>6. lastId' \in 0 .. Len(log) /\ pending' \subseteq 1 .. lastId'
  BY <1>3 DEF IndInv, TypeOK
<1>7. IndInv'
  <2> HIDE DEF IndInv
  <2> QED
    BY <1>1, <1>2, <1>3, <1>4, <1>5, <1>6, AnswerLostOK
<1> QED
  BY <1>2, <1>3, <1>7 DEF QueueStep, Queue!Next

\* What XREADGROUP does to the group: the next entries are delivered, and no
\* retained one is left out.
LEMMA XReadGroupFacts ==
    ASSUME IndInv, XReadGroup, pc = "read"
    PROVE  /\ Fresh \subseteq Ids /\ Cardinality(Fresh) <= BatchSize
           /\ pending' = pending \cup Fresh
           /\ lastId' \in 0 .. Len(log) /\ pending' \subseteq 1 .. lastId'
           /\ UNCHANGED <<log, first, group, idle>>
           /\ ledger' = ledger => QueueStep
<1> USE DEF IndInv
<1> DEFINE fresh == {i \in Ids : i > lastId /\ i >= first}
           new == Fresh
<1>1. /\ lastId' = IF new = {} THEN lastId ELSE Max(new)
      /\ pending' = pending \cup new
      /\ UNCHANGED <<log, first, group, idle>>
  BY Zenon DEF XReadGroup
<1>2. fresh \in SUBSET Nat /\ IsFiniteSet(fresh) /\ fresh \subseteq Ids
  BY Numbers, FS_Subset
<1>3. IsPage(new, fresh, BatchSize)
  <2>1. IsPage(Leading(fresh, BatchSize), fresh, BatchSize)
    BY <1>2, Numbers, LeadingIsPage
  <2> QED
    BY <2>1, Zenon DEF Fresh
<1>4. /\ new \subseteq fresh /\ Cardinality(new) <= BatchSize
      /\ \A i \in new, j \in fresh \ new : i < j
  <2>1. Cardinality(new) <= BatchSize
    <3> HIDE DEF new, fresh
    <3> QED
      BY <1>2, <1>3, Numbers, PageFacts
  <2> QED
    BY <1>3, <2>1, Zenon DEF IsPage
<1> HIDE DEF new
<1>5. new # {} => Max(new) \in new /\ \A i \in new : i <= Max(new)
  <2>1. new \in SUBSET Nat /\ \A i \in new : i <= Len(log)
    BY <1>2, <1>4, Numbers DEF Ids
  <2> QED
    BY <2>1, Numbers, MaxIsGreatest
<1>6. /\ lastId' \in lastId .. Len(log)
      /\ new # {} => lastId' \in lastId + 1 .. Len(log)
      /\ new = {i \in lastId + 1 .. lastId' : i >= first}
  <2>1. CASE new = {}
    BY <1>1, <2>1, Numbers DEF TypeOK
  <2>2. CASE new # {}
    <3>1. lastId' \in new /\ lastId' \in fresh /\ \A i \in new : i <= lastId'
      BY <1>1, <1>4, <1>5, <2>2
    <3>2. lastId' \in lastId + 1 .. Len(log)
      BY <3>1, Numbers DEF Ids
    <3>3. new \subseteq {i \in lastId + 1 .. lastId' : i >= first}
      BY <1>4, <3>1, <3>2, Numbers DEF Ids
    <3>4. ASSUME NEW i \in lastId + 1 .. lastId', i >= first PROVE i \in new
      <4>1. i \in fresh /\ i <= lastId' /\ i \in Nat /\ lastId' \in Nat
        BY <3>2, <3>4, Numbers DEF Ids
      <4>2. ~(lastId' < i)
        BY <4>1
      <4> QED
        BY <1>4, <3>1, <4>1, <4>2
    <3>5. new = {i \in lastId + 1 .. lastId' : i >= first}
      BY <3>3, <3>4
    <3>6. lastId' \in lastId .. Len(log)
      BY <3>2, Numbers
    <3> QED
      BY <3>2, <3>5, <3>6
  <2> QED
    BY <2>1, <2>2
<1>7. pending' \subseteq 1 .. lastId'
  <2>1. lastId <= lastId' /\ lastId' \in Nat
    BY <1>6, Numbers
  <2>2. pending \subseteq 1 .. lastId'
    BY <2>1, Numbers DEF TypeOK
  <2>3. new \subseteq 1 .. lastId'
    BY <1>6, Numbers
  <2> QED
    BY <1>1, <2>2, <2>3
<1>8. lastId' \in 0 .. Len(log)
  BY <1>6, Numbers
<1>9. ASSUME ledger' = ledger PROVE QueueStep
  <2>1. CASE new = {}
    BY <1>1, <1>9, <2>1 DEF QueueStep, Queue!vars
  <2>2. CASE new # {}
    BY <1>1, <1>6, <1>9, <2>2, Zenon DEF QueueStep, Queue!Next, Queue!Take
  <2> QED
    BY <2>1, <2>2
<1>10. Fresh \subseteq Ids /\ Cardinality(Fresh) <= BatchSize
  BY <1>2, <1>4 DEF new
<1> QED
  BY <1>1, <1>7, <1>8, <1>9, <1>10 DEF new

\* The next entries become a batch.
LEMMA ReadNewOK == ASSUME IndInv, ReadNew PROVE IndInv' /\ QueueStep
<1> USE DEF IndInv
<1>1. /\ pc = "read" /\ XReadGroup
      /\ batch' = Fresh /\ lost' = lost \ Fresh
      /\ pc' = IF Fresh = {} THEN "read" ELSE "post"
      /\ UNCHANGED <<cursor, ackIds, ledger, rejected, due, skipped, faults>>
  BY DEF ReadNew, Deliver
<1>2. /\ Fresh \subseteq Ids /\ Cardinality(Fresh) <= BatchSize
      /\ pending' = pending \cup Fresh
      /\ lastId' \in 0 .. Len(log) /\ pending' \subseteq 1 .. lastId'
      /\ UNCHANGED <<log, first, group, idle>>
      /\ QueueStep
  BY <1>1, XReadGroupFacts
<1>3. ackIds = {}
  BY <1>1 DEF StoredInv
<1>4. TypeOK'
  BY <1>1, <1>2, <1>3 DEF TypeOK, Ids
<1>5. GroupInv'
  BY <1>1, <1>2 DEF GroupInv
<1>6. StoredInv'
  BY <1>1, <1>2, <1>3 DEF StoredInv, IsFill
<1>7. ReclaimInv'
  BY <1>1 DEF ReclaimInv, ToReclaim
<1> QED
  BY <1>2, <1>4, <1>5, <1>6, <1>7

\* A read whose answer is lost: its entries are pending, and lost to this process.
LEMMA ReadNewLostOK == ASSUME IndInv, ReadNewLost PROVE IndInv' /\ QueueStep
<1>1. /\ pc = "read" /\ XReadGroup /\ AnswerLost(Fresh)
      /\ UNCHANGED <<ledger, rejected, skipped>>
  BY DEF ReadNewLost
<1>2. /\ Fresh \subseteq Ids
      /\ pending' = pending \cup Fresh
      /\ lastId' \in 0 .. Len(log) /\ pending' \subseteq 1 .. lastId'
      /\ UNCHANGED <<log, first, group, idle>>
      /\ QueueStep
  BY <1>1, XReadGroupFacts
<1>3. idle' \subseteq pending' /\ batch \ pending' \subseteq batch \ pending
  BY <1>2 DEF IndInv, TypeOK
<1>4. IndInv'
  BY <1>1, <1>2, <1>3, AnswerLostOK
<1> QED
  BY <1>2, <1>4

\* What the ledger stores is delivered, or stored already.
LEMMA StoreOK ==
    ASSUME IndInv, NEW taken \in SUBSET ToPost, ledger' = ledger \cup RecordsOf(taken),
           UNCHANGED <<log, first, lastId, pending>>
    PROVE  QueueStep /\ ledger \subseteq ledger' /\ ledger' \subseteq Records
<1> DEFINE kept == taken \cap pending
<1>1. taken \subseteq Ids /\ \A i \in taken : IsFill(i) /\ i \in batch
  BY DEF IndInv, TypeOK, ToPost
<1>2. \A i \in taken \ pending : log[i] \in ledger
  BY <1>1 DEF IndInv, StoredInv
<1>3. ledger' = ledger \cup {log[i] : i \in kept}
  BY <1>2 DEF RecordsOf
<1>4. kept \in SUBSET {i \in pending : log[i] \in Fills}
  BY <1>1 DEF IsFill
<1>5. Queue!Store
  BY <1>3, <1>4 DEF Queue!Store
<1>6. ledger' \subseteq Records
  BY <1>1 DEF IndInv, TypeOK, RecordsOf, IsFill, Records
<1> QED
  BY <1>5, <1>6 DEF QueueStep, Queue!Next

\* The ledger takes what is posted; the queue does not move yet.
LEMMA PostOK == ASSUME IndInv, Post PROVE IndInv' /\ QueueStep
<1> DEFINE accepted(answer) == StoredBy(answer)
<1>1. PICK answer \in Answers :
        /\ accepted(answer) = ToPost \/ faults < MaxFaults
        /\ faults' = IF accepted(answer) = ToPost THEN faults ELSE faults + 1
        /\ ledger' = ledger \cup RecordsOf(accepted(answer))
        /\ rejected' = rejected \cup (ToPost \ accepted(answer))
        /\ ackIds' = NonFillIds \cup accepted(answer)
        /\ accepted(answer) \in SUBSET ToPost
  BY Zenon DEF Post, AckIds, StoredBy
<1> HIDE DEF accepted
<1>2. /\ pc = "post" /\ pc' = "ack"
      /\ UNCHANGED <<log, first, group, lastId, pending, idle, cursor, batch, due, skipped, lost>>
  BY DEF Post, queue
<1>3. QueueStep /\ ledger \subseteq ledger' /\ ledger' \subseteq Records
  BY <1>1, <1>2, StoreOK
<1> USE DEF IndInv
<1>4. ackIds' \subseteq batch /\ ToPost \subseteq batch /\ batch \subseteq Ids
  BY <1>1 DEF NonFillIds, ToPost, TypeOK
<1>5. faults' \in 0 .. MaxFaults
  BY <1>1, Numbers DEF TypeOK
<1>6. TypeOK'
  BY <1>1, <1>2, <1>3, <1>4, <1>5 DEF TypeOK, Ids
<1>7. GroupInv' /\ ReclaimInv'
  BY <1>2 DEF GroupInv, ReclaimInv, ToReclaim
<1>8. StoredInv'
  <2>1. \A i \in ackIds' : IsFill(i) => log[i] \in ledger'
    BY <1>1 DEF NonFillIds, RecordsOf
  <2> QED
    BY <1>2, <1>3, <2>1 DEF StoredInv, IsFill
<1> QED
  BY <1>3, <1>6, <1>7, <1>8

\* A failed post may have stored a part of the batch.
LEMMA PostFailsOK == ASSUME IndInv, PostFails PROVE IndInv' /\ QueueStep
<1>1. PICK taken \in SUBSET ToPost : ledger' = ledger \cup RecordsOf(taken)
  BY DEF PostFails
<1>2. /\ faults < MaxFaults /\ faults' = faults + 1
      /\ UNCHANGED <<log, first, group, lastId, pending, idle, pc, cursor, batch, ackIds, rejected,
                     due, skipped, lost>>
  BY DEF PostFails, queue, sink
<1>3. QueueStep /\ ledger \subseteq ledger' /\ ledger' \subseteq Records
  BY <1>1, <1>2, StoreOK
<1> USE DEF IndInv
<1>4. faults' \in 0 .. MaxFaults
  BY <1>2, Numbers DEF TypeOK
<1>5. TypeOK'
  BY <1>2, <1>3, <1>4 DEF TypeOK, Ids
<1>6. GroupInv' /\ ReclaimInv' /\ StoredInv'
  BY <1>2, <1>3 DEF GroupInv, ReclaimInv, ToReclaim, StoredInv, IsFill
<1> QED
  BY <1>3, <1>5, <1>6

\* Removing acknowledged entries from the pending ones.
LEMMA AcknowledgeOK ==
    ASSUME IndInv, NEW done \in SUBSET ackIds, pending' = pending \ done,
           UNCHANGED <<log, first, lastId, ledger>>
    PROVE  QueueStep
<1>1. \A i \in pending \ pending' : log[i] \in Fills => log[i] \in ledger
  BY DEF IndInv, StoredInv, IsFill
<1>2. Queue!Acknowledge
  BY <1>1 DEF Queue!Acknowledge
<1> QED
  BY <1>2 DEF QueueStep, Queue!Next

\* What is acknowledged was posted before.
LEMMA AckOK == ASSUME IndInv, Ack PROVE IndInv' /\ QueueStep
<1>1. /\ pc = "ack"
      /\ pending' = pending \ ackIds /\ idle' = idle \ ackIds
      /\ pc' = IF cursor = 0 THEN "read" ELSE "claim"
      /\ batch' = {} /\ ackIds' = {}
      /\ due' = due \ batch
      /\ UNCHANGED <<log, first, group, lastId, cursor, ledger, rejected, skipped, lost, faults>>
  BY DEF Ack, Delivered, Onward
<1>2. QueueStep
  BY <1>1, AcknowledgeOK
<1> USE DEF IndInv
<1>3. TypeOK'
  <2>1. Cardinality({}) <= BatchSize
    BY FS_EmptySet, DeliveryAssumption
  <2> QED
    BY <1>1, <2>1 DEF TypeOK, Ids
<1>4. GroupInv' /\ StoredInv'
  BY <1>1 DEF GroupInv, StoredInv
<1>5. ReclaimInv'
  BY <1>1 DEF ReclaimInv, ToReclaim, TypeOK
<1> QED
  BY <1>2, <1>3, <1>4, <1>5

\* A lost XACK answer took only entries that were posted.
LEMMA AckFailsOK == ASSUME IndInv, AckFails PROVE IndInv' /\ QueueStep
<1>1. PICK done \in {{}, ackIds} :
        pending' = pending \ done /\ idle' = idle \ done /\ due' = due \ done
  BY DEF AckFails
<1>2. /\ pc = "ack" /\ faults < MaxFaults /\ faults' = faults + 1
      /\ pc' = "post" /\ ackIds' = {}
      /\ UNCHANGED <<log, first, group, lastId, cursor, batch, ledger, rejected, skipped, lost>>
  BY DEF AckFails
<1>3. done \in SUBSET ackIds
  OBVIOUS
<1>4. QueueStep
  BY <1>1, <1>2, <1>3, AcknowledgeOK
<1> USE DEF IndInv
<1>5. faults' \in 0 .. MaxFaults
  BY <1>2, Numbers DEF TypeOK
<1>6. TypeOK'
  BY <1>1, <1>2, <1>5 DEF TypeOK, Ids
<1>7. GroupInv'
  BY <1>2 DEF GroupInv
<1>8. StoredInv'
  BY <1>1, <1>2, <1>3 DEF StoredInv, IsFill
<1>9. ReclaimInv'
  BY <1>1, <1>2, <1>3 DEF ReclaimInv, ToReclaim, TypeOK
<1> QED
  BY <1>4, <1>6, <1>7, <1>8, <1>9

\* The process ends and the group stays.
LEMMA StopOK == ASSUME IndInv, Stop PROVE IndInv' /\ QueueStep
<1> USE DEF IndInv
<1>1. faults' \in 0 .. MaxFaults
  BY Numbers DEF Stop, TypeOK
<1>2. TypeOK'
  <2>1. Cardinality({}) <= BatchSize
    BY FS_EmptySet, DeliveryAssumption
  <2>2. 0 \in 0 .. Len(log) + 1
    BY Numbers
  <2> QED
    BY <1>1, <2>1, <2>2 DEF Stop, Ends, TypeOK, queue, Ids
<1>3. GroupInv' /\ StoredInv' /\ ReclaimInv'
  BY DEF Stop, Ends, queue, GroupInv, StoredInv, ReclaimInv
<1>4. UNCHANGED Queue!vars
  BY DEF Stop, queue, Queue!vars
<1> QED
  BY <1>2, <1>3, <1>4 DEF QueueStep

\* Every step keeps the invariant and is a step of the queue, or none.
LEMMA NextOK == ASSUME IndInv, [Next]_vars PROVE IndInv' /\ QueueStep
<1>1. CASE Next
  BY <1>1, EnqueueOK, GrowIdleOK, BootOK, AutoClaimOK, AutoClaimLostOK, ReadNewOK, ReadNewLostOK,
     PostOK, PostFailsOK, AckOK, AckFailsOK, StopOK DEF Next, Run
<1>2. CASE UNCHANGED vars
  <2>1. IndInv'
    BY <1>2 DEF vars, queue, sink, IndInv, TypeOK, GroupInv, StoredInv, ReclaimInv, ToReclaim, Ids, IsFill
  <2>2. UNCHANGED Queue!vars
    BY <1>2 DEF vars, queue, Queue!vars
  <2> QED
    BY <2>1, <2>2 DEF QueueStep
<1> QED
  BY <1>1, <1>2

-----------------------------------------------------------------------------
\* The inductive invariant holds: variables have their types; what is acknowledged,
\* or was taken out of the pending entries by an XACK whose answer was lost, is in
\* the ledger; and what was claimable at the start is delivered, still ahead of the
\* cursor, or lost with an answer that the client asked for again.
THEOREM Invariance == Spec => []IndInv
<1>1. Init => IndInv
  BY InitOK
<1>2. IndInv /\ [Next]_vars => IndInv'
  BY NextOK
<1> QED
  BY <1>1, <1>2, PTL DEF Spec

\* Stream, consumer group and sink are an at-least-once queue: whatever posts and
\* acknowledgements fail or are repeated, and however often the process restarts,
\* a fill is acknowledged only when the ledger holds it, and the only loss is
\* trimming (DeliverOnce, reclaimPending, ReadNew, Enqueue).
THEOREM DeliveryIsAtLeastOnce == Spec => ImplementsAtLeastOnce
<1>1. Init => Queue!Init
  BY InitOK
<1>2. IndInv /\ [Next]_vars => [Queue!Next]_(Queue!vars)
  BY NextOK DEF QueueStep
<1> QED
  BY <1>1, <1>2, Invariance, PTL DEF Spec, ImplementsAtLeastOnce, Queue!Spec

\* A sink reads new entries only when it has delivered, page after page, all that
\* was claimable at its start, but for entries claimed by an XAUTOCLAIM whose answer
\* was lost and which the client repeated (reclaimPending before the loop of Run).
THEOREM ReclaimingComesFirst == Spec => []ReclaimedFirst
<1>1. IndInv => ReclaimedFirst
  BY DEF IndInv, ReclaimInv, ReclaimedFirst
<1> QED
  BY <1>1, Invariance, PTL

=============================================================================
