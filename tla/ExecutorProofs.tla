---------------------------- MODULE ExecutorProofs ----------------------------
(***************************************************************************)
(* IndInv is inductive, and with it the safety of the executor for every   *)
(* intent, clock, book, number of faults and number of steps per Tick.     *)
(*                                                                         *)
(* WorldInv is the part of IndInv that talks about the journal, the        *)
(* gateway and the broker.  Frame covers the actions that touch none of    *)
(* them; every other action has a lemma of its own.                        *)
(*                                                                         *)
(* On top of IndInv, StepKinds says what any step does to the journal and  *)
(* the broker.  FillsInv, LedgerInv, GridInv, CapsInv and SizedInv go      *)
(* through its cases, not through the actions again.                       *)
(*                                                                         *)
(* The last part shows that the live runner (LiveRun) implements the       *)
(* executor, so that all this holds for it.                                *)
(***************************************************************************)
EXTENDS LiveRun, ExecMachineProofs

WorldInv ==
    /\ JournalOK(disk) /\ PricesOK(disk) /\ GatewayInv /\ PriceInv
    /\ ~LateDelivery => BrokerInv /\ QuantityInv

world == <<disk, brokerVars, history>>

\* IndInv, by parts.
LEMMA Parts == IndInv <=> TypeOK /\ ProcessInv /\ WorldInv
BY Zenon DEF IndInv, WorldInv

\* A process that is up and has not latched an error holds the journal's state;
\* in the middle of a Tick that is so.
LEMMA InTick ==
    ASSUME IndInv, pc # "idle"
    PROVE  up /\ err = "" /\ mem = disk
BY DEF IndInv, ProcessInv, MemoryIsDurable, TypeOK

\* Keys that reached the gateway are positive, and key 0 means none.
LEMMA Keys ==
    ASSUME IndInv
    PROVE  /\ \A k \in requested : k \in Nat /\ k >= 1 /\ k <= Len(disk.sent)
           /\ \A o \in live : o.key # 0 /\ o.key \in requested
           /\ ~HasOrder(disk) => disk.order.key = 0
           /\ ~Unresolved(disk) => disk.inFlight.key = 0 /\ disk.inFlight.action = "none"
           /\ requested # {} => Started(disk)
<1>1. disk \in State /\ requested \subseteq 1 .. Len(disk.sent)
  BY DEF IndInv, TypeOK, GatewayInv
<1>2. Len(disk.sent) \in Nat
  BY <1>1, StateFields
<1>3. \A k \in requested : k \in Nat /\ k >= 1 /\ k <= Len(disk.sent)
  BY <1>1, <1>2
<1>4. \A o \in live : o.key \in requested
  BY DEF IndInv, GatewayInv
<1>5. \A k \in requested : k # 0
  BY <1>3
<1>6. NoOrder.key = 0 /\ NoChild.key = 0 /\ NoChild.action = "none"
  BY DEF NoOrder, NoChild
<1>7. requested # {} => Started(disk)
  <2>1. SUFFICES ASSUME ~Started(disk) PROVE requested = {}
    OBVIOUS
  <2>2. disk = Fresh
    BY <2>1 DEF IndInv, JournalOK
  <2>3. Fresh.sent = <<>>
    BY DEF Fresh, NewState
  <2>4. Len(disk.sent) = 0
    BY <2>2, <2>3
  <2> QED
    BY <1>1, <2>4
<1> QED
  BY <1>3, <1>4, <1>5, <1>6, <1>7 DEF HasOrder, Unresolved

\* A step that leaves the journal, the gateway's history and the broker alone.
LEMMA Frame ==
    ASSUME IndInv, UNCHANGED world,
           pc' \in {"idle", "tick"} \/ UNCHANGED <<pc, mem, answer>>
    PROVE  WorldInv'
<1>1. UNCHANGED <<disk, live, execs, brokerQty, late, requested, unanswered>>
  BY DEF world, brokerVars, history
<1>2. JournalOK(disk)' /\ PricesOK(disk)'
  BY <1>1 DEF IndInv
<1>3. GatewayInv'
  BY <1>1 DEF IndInv, GatewayInv, NoBlindSend, KeyUsedOnce
<1>4. PriceInv'
  BY <1>1 DEF IndInv, PriceInv, LimitRespected
<1>5. ~LateDelivery => BrokerInv' /\ QuantityInv'
  BY <1>1 DEF IndInv, BrokerInv, QuantityInv, OneLiveOrder, NoOverfill
<1> QED
  BY <1>2, <1>3, <1>4, <1>5 DEF WorldInv

\* The successor of a natural number is one.
LEMMA Successor == \A k \in Nat : k + 1 \in Nat
OBVIOUS

\* What commit leaves behind: the new state in memory and on disk, or the old one
\* in memory, either one on disk, and a latched error.
LEMMA Committed ==
    ASSUME IndInv, up, err = "", NEW n \in State, NEW ok \in BOOLEAN, NEW onDisk \in BOOLEAN,
           Commit(n, ok, onDisk)
    PROVE  /\ mem' \in State /\ disk' \in State /\ err' \in {"", "halted"} /\ faults' \in Nat
           /\ disk' = (IF onDisk THEN n ELSE disk)
           /\ ok => onDisk /\ mem' = n /\ disk' = n /\ err' = ""
           /\ ~ok => err' = "halted"
<1>1. mem \in State /\ disk \in State /\ faults \in Nat
  BY DEF IndInv, TypeOK
<1>2. faults' \in Nat
  <2>1. faults' = faults \/ faults' = faults + 1
    BY Zenon DEF Commit, Fault
  <2> QED
    BY <1>1, <2>1, Successor, Zenon
<1> QED
  BY <1>1, <1>2 DEF Commit

\* A Tick's next step stays within the bound.
LEMMA Stepping ==
    ASSUME IndInv, NextStep("tick") \/ EndTick
    PROVE  pc' \in {"idle", "tick"} /\ steps' \in 0 .. MaxStepsPerTick - 1
<1>1. MaxStepsPerTick \in Nat \ {0} /\ steps \in 0 .. MaxStepsPerTick - 1
  BY ExecutorAssumption DEF IndInv, TypeOK
<1> QED
  BY <1>1 DEF NextStep, EndTick
-----------------------------------------------------------------------------
\* The actions that leave the world alone.

\* OnBook touches only the top of the book.
LEMMA OnBookInv ==
    ASSUME IndInv, OnBook PROVE IndInv'
<1>1. WorldInv'
  BY Frame DEF OnBook, world
<1>2. top' \in Top
  <2>1. now \in Nat
    BY DEF IndInv, TypeOK
  <2> QED
    BY <2>1, ExecutorAssumption DEF OnBook, Top
<1>3. TypeOK'
  BY <1>2 DEF IndInv, TypeOK, OnBook, brokerVars, history
<1>4. ProcessInv'
  BY DEF IndInv, ProcessInv, MemoryIsDurable, OnBook, Started, Unresolved
<1> QED
  BY <1>1, <1>3, <1>4, Parts, PTL

\* SetLedgerComplete touches only its own flag.
LEMMA SetLedgerCompleteInv ==
    ASSUME IndInv, SetLedgerComplete PROVE IndInv'
<1>1. WorldInv'
  BY Frame DEF SetLedgerComplete, world
<1>2. ledgerComplete' \in BOOLEAN
  BY DEF SetLedgerComplete
<1>3. TypeOK'
  BY <1>2 DEF IndInv, TypeOK, SetLedgerComplete, brokerVars, history
<1>4. ProcessInv'
  BY DEF IndInv, ProcessInv, MemoryIsDurable, SetLedgerComplete, Started, Unresolved
<1> QED
  BY <1>1, <1>3, <1>4, Parts, PTL

\* A Tick begins only without a latched error, on a started intent.
LEMMA TickStartInv ==
    ASSUME IndInv, TickStart PROVE IndInv'
<1>1. WorldInv'
  BY Frame DEF TickStart, world
<1>2. TypeOK'
  BY DEF IndInv, TypeOK, TickStart, brokerVars, history
<1>3. ProcessInv'
  BY DEF IndInv, ProcessInv, MemoryIsDurable, TickStart, Idle, Started, Unresolved
<1> QED
  BY <1>1, <1>2, <1>3, Parts, PTL

\* A Tick that returns, with or without a latched error.
LEMMA TickEnds ==
    ASSUME IndInv, pc = "tick", EndTick, UNCHANGED <<world, up, killed, now, mem, top, answer>>,
           ledgerComplete' \in BOOLEAN, faults' \in Nat, err' \in {"", "incomplete"}
    PROVE  IndInv'
<1>1. WorldInv'
  BY Frame DEF EndTick
<1>2. TypeOK'
  BY Stepping DEF IndInv, TypeOK, world, brokerVars, history, EndTick
<1>3. ProcessInv'
  BY InTick DEF ProcessInv, MemoryIsDurable, EndTick, world
<1> QED
  BY <1>1, <1>2, <1>3, Parts, PTL

\* A process that ends forgets everything but the journal.
LEMMA ProcessEndsInv ==
    ASSUME IndInv, ProcessEnds, UNCHANGED <<world, killed, now>>, faults' \in Nat
    PROVE  IndInv'
<1>1. WorldInv'
  BY Frame DEF ProcessEnds
<1>2. Fresh \in State /\ NoTop \in Top
  <2>1. NoIntent \in IntentRecord
    BY DEF NoIntent, IntentRecord
  <2>2. NoTop \in Top
    BY DEF NoTop, Top
  <2> QED
    BY <2>1, <2>2, NewStateOK DEF Fresh
<1>3. 0 \in 0 .. MaxStepsPerTick - 1
  BY ExecutorAssumption
<1>4. TypeOK'
  BY <1>2, <1>3 DEF IndInv, TypeOK, ProcessEnds, world, brokerVars, history
<1>5. ProcessInv'
  BY DEF ProcessInv, MemoryIsDurable, ProcessEnds
<1> QED
  BY <1>1, <1>4, <1>5, Parts, PTL

\* A crash, at any point of a Tick.
LEMMA CrashInv ==
    ASSUME IndInv, Crash PROVE IndInv'
<1>1. faults \in Nat
  BY DEF IndInv, TypeOK
<1> QED
  BY <1>1, ProcessEndsInv DEF Crash, world

\* An executor that latched an error ends like a crash.
LEMMA ExitInv ==
    ASSUME IndInv, Exit PROVE IndInv'
<1>1. faults \in Nat
  BY DEF IndInv, TypeOK
<1> QED
  BY <1>1, ProcessEndsInv DEF Exit, world

\* A restart resumes from what the journal replays to.
LEMMA RestartInv ==
    ASSUME IndInv, Restart PROVE IndInv'
<1>1. pc' = "idle" /\ err' = "" /\ mem' = disk'
  BY DEF IndInv, ProcessInv, Restart
<1>2. WorldInv'
  BY <1>1, Frame DEF Restart, world
<1>3. TypeOK'
  BY DEF IndInv, TypeOK, Restart, brokerVars, history
<1>4. ProcessInv'
  BY <1>1 DEF ProcessInv, MemoryIsDurable, Restart
<1> QED
  BY <1>2, <1>3, <1>4, Parts, PTL

\* The kill switch changes nothing until the next decide.
LEMMA KillInv ==
    ASSUME IndInv, EngageKill \/ ReleaseKill PROVE IndInv'
<1>1. /\ UNCHANGED <<up, disk, now, faults, execVars, brokerVars, history>>
      /\ killed' \in BOOLEAN
  BY DEF EngageKill, ReleaseKill
<1>2. WorldInv'
  BY <1>1, Frame DEF world, execVars
<1>3. TypeOK'
  BY <1>1 DEF IndInv, TypeOK, execVars, brokerVars, history
<1>4. ProcessInv'
  BY <1>1 DEF IndInv, ProcessInv, MemoryIsDurable, execVars, Started, Unresolved
<1> QED
  BY <1>2, <1>3, <1>4, Parts, PTL

\* Time passes between Ticks.
LEMMA AdvanceInv ==
    ASSUME IndInv, Advance PROVE IndInv'
<1>1. /\ UNCHANGED <<up, disk, killed, faults, execVars, brokerVars, history>>
      /\ now' \in Nat
  <2>1. now \in Nat
    BY DEF IndInv, TypeOK
  <2> QED
    BY <2>1 DEF Advance
<1>2. WorldInv'
  BY <1>1, Frame DEF world, execVars
<1>3. TypeOK'
  BY <1>1 DEF IndInv, TypeOK, execVars, brokerVars, history
<1>4. ProcessInv'
  BY <1>1 DEF IndInv, ProcessInv, MemoryIsDurable, execVars, Started, Unresolved
<1> QED
  BY <1>2, <1>3, <1>4, Parts, PTL
-----------------------------------------------------------------------------
\* The broker.

\* Steps of the broker leave the executor and its journal alone.
LEMMA ExecutorUntouched ==
    ASSUME IndInv, UNCHANGED <<up, disk, killed, now, execVars, history>>
    PROVE  ProcessInv' /\ JournalOK(disk)' /\ PricesOK(disk)'
<1>1. ProcessInv'
  BY DEF IndInv, ProcessInv, MemoryIsDurable, execVars, Started, Unresolved
<1> QED
  BY <1>1 DEF IndInv

\* A fill moves open quantity of the live order to the executed quantity.
LEMMA BrokerFillInv ==
    ASSUME IndInv, BrokerFill PROVE IndInv'
<1>1. PICK o \in live : \E q \in 1 .. o.open :
        /\ execs' = Append(execs, [key |-> o.key, qty |-> q, price |-> o.price])
        /\ brokerQty' = brokerQty + q
        /\ live' = (live \ {o}) \cup (IF q = o.open THEN {} ELSE {[o EXCEPT !.open = @ - q]})
        /\ UNCHANGED <<up, disk, killed, now, faults, execVars, late, history>>
  BY DEF BrokerFill
<1>2. PICK q \in 1 .. o.open :
        /\ execs' = Append(execs, [key |-> o.key, qty |-> q, price |-> o.price])
        /\ brokerQty' = brokerQty + q
        /\ live' = (live \ {o}) \cup (IF q = o.open THEN {} ELSE {[o EXCEPT !.open = @ - q]})
        /\ UNCHANGED <<up, disk, killed, now, faults, execVars, late, history>>
  BY <1>1
<1> DEFINE rest == [o EXCEPT !.open = @ - q]
           e == [key |-> o.key, qty |-> q, price |-> o.price]
<1>3. o \in Working /\ live \subseteq Working /\ execs \in Seq(Execution) /\ brokerQty \in Nat
  BY DEF IndInv, TypeOK
<1>4. o.key \in Nat /\ o.price \in Nat /\ o.open \in Nat
  BY <1>3 DEF Working
<1>5. q \in Nat /\ q >= 1 /\ q <= o.open /\ o.open - q \in Nat
  BY <1>4
<1>6. /\ rest \in Working /\ rest.key = o.key /\ rest.price = o.price
      /\ rest.open = o.open - q
  BY <1>3, <1>5 DEF Working
<1>7. e \in Execution /\ e.key = o.key /\ e.price = o.price
  BY <1>4, <1>5 DEF Execution
<1>8. live' \subseteq (live \ {o}) \cup {rest} /\ execs' = Append(execs, e)
  BY <1>2
<1> HIDE DEF rest, e
<1>9. /\ execs' \in Seq(Execution)
      /\ \A i \in DOMAIN execs' : (i \in DOMAIN execs /\ execs'[i] = execs[i]) \/ execs'[i] = e
  BY <1>3, <1>7, <1>8
<1>10. \A p \in live' : p \in live \/ p = rest
  BY <1>8
<1>11. /\ UNCHANGED <<up, disk, killed, now, faults, execVars, late, history>>
       /\ brokerQty' = brokerQty + q
  BY <1>2
<1>12. TypeOK'
  <2>1. live' \subseteq Working /\ brokerQty' \in Nat
    BY <1>3, <1>5, <1>6, <1>10, <1>11
  <2> QED
    BY <1>9, <1>11, <2>1 DEF IndInv, TypeOK, execVars, history
<1>13. ProcessInv' /\ JournalOK(disk)' /\ PricesOK(disk)'
  BY <1>11, ExecutorUntouched
<1>14. GatewayInv'
  BY <1>6, <1>7, <1>9, <1>10, <1>11
     DEF IndInv, GatewayInv, NoBlindSend, KeyUsedOnce, execVars, history
<1>15. PriceInv'
  BY <1>6, <1>7, <1>9, <1>10, <1>11 DEF IndInv, PriceInv, LimitRespected
<1>16. ASSUME ~LateDelivery PROVE BrokerInv' /\ QuantityInv'
  <2>1. BrokerInv /\ QuantityInv
    BY <1>16 DEF IndInv
  <2>2. \A p \in live : p = o
    BY <2>1 DEF BrokerInv, OneLiveOrder
  <2>3. \A p \in live' : p = rest
    BY <1>8, <2>2
  <2>4. BrokerInv'
    BY <1>6, <1>11, <2>1, <2>3 DEF BrokerInv, OneLiveOrder, execVars
  <2>5. disk.target \in Nat
    BY StateFields DEF IndInv, TypeOK
  <2>6. brokerQty + o.open <= disk.target
    BY <2>1 DEF QuantityInv, NoOverfill
  <2>7. NoOverfill'
    <3>1. brokerQty' <= disk.target
      BY <1>3, <1>4, <1>5, <1>11, <2>5, <2>6
    <3>2. brokerQty' + rest.open <= disk.target
      BY <1>3, <1>4, <1>5, <1>6, <1>11, <2>5, <2>6
    <3> QED
      BY <1>11, <2>3, <3>1, <3>2 DEF NoOverfill
  <2>8. \/ HasOrder(disk) /\ o.key = disk.order.key
        \/ Unresolved(disk) /\ o.key = disk.inFlight.key
    BY <2>1, Keys DEF BrokerInv
  <2>9. ~(~HasOrder(disk) /\ ~Unresolved(disk))
    BY <2>8
  <2>10. ~(disk.inFlight.action = "submit" /\ disk.inFlight.key \notin requested)
    <3>1. SUFFICES ASSUME disk.inFlight.action = "submit", disk.inFlight.key \notin requested
                   PROVE  FALSE
      OBVIOUS
    <3>2. Unresolved(disk) /\ o.key \in requested
      BY <3>1, Keys
    <3>3. ~HasOrder(disk)
      BY <3>1, <3>2 DEF IndInv, JournalOK
    <3> QED
      BY <2>8, <3>1, <3>2, <3>3
  <2> QED
    BY <1>11, <2>4, <2>7, <2>9, <2>10 DEF QuantityInv, HasOrder, Unresolved, history
<1> QED
  <2>1. WorldInv'
    BY <1>13, <1>14, <1>15, <1>16 DEF WorldInv
  <2> QED
    BY <1>12, <1>13, <2>1, Parts, PTL

\* An order that ends at the broker leaves less to work.
LEMMA BrokerDropInv ==
    ASSUME IndInv, BrokerDrop PROVE IndInv'
<1>1. /\ UNCHANGED <<up, disk, killed, now, execVars, execs, brokerQty, late, history>>
      /\ live' \subseteq live /\ faults' \in Nat
  <2>1. faults \in Nat
    BY DEF IndInv, TypeOK
  <2>2. faults' \in Nat
    BY <2>1 DEF BrokerDrop
  <2> QED
    BY <2>2 DEF BrokerDrop
<1>2. TypeOK'
  BY <1>1 DEF IndInv, TypeOK, execVars, history
<1>3. ProcessInv' /\ JournalOK(disk)' /\ PricesOK(disk)'
  BY <1>1, ExecutorUntouched
<1>4. GatewayInv'
  BY <1>1 DEF IndInv, GatewayInv, NoBlindSend, KeyUsedOnce, execVars, history
<1>5. PriceInv'
  BY <1>1 DEF IndInv, PriceInv, LimitRespected
<1>6. ~LateDelivery => BrokerInv' /\ QuantityInv'
  BY <1>1 DEF IndInv, BrokerInv, QuantityInv, OneLiveOrder, NoOverfill, HasOrder, Unresolved,
              execVars, history
<1>7. WorldInv'
  BY <1>3, <1>4, <1>5, <1>6 DEF WorldInv
<1> QED
  BY <1>2, <1>3, <1>7, Parts, PTL

\* What the broker works after a child: what it worked, or the child's order.
LEMMA AfterBrokerForms ==
    ASSUME live \subseteq Working, NEW c \in Child
    PROVE  \A p \in AfterBroker(c) :
              \/ p \in live
              \/ /\ Opening(c) /\ p \in Working /\ p.key = c.key /\ p.price = c.price
                 /\ \/ c.action = "submit" /\ p.open = c.qty
                    \/ c.action = "amend" /\ \E o \in live : o.key = c.target /\ p.open <= o.open
<1>1. c.key \in Nat /\ c.price \in Nat /\ c.qty \in Nat
  BY DEF Child
<1>2. CASE c.action = "submit"
  <2>1. AfterBroker(c) = live \cup {[key |-> c.key, price |-> c.price, open |-> c.qty]}
    BY <1>2 DEF AfterBroker, BrokerTakes
  <2> QED
    BY <1>1, <1>2, <2>1 DEF Opening, Working
<1>3. CASE c.action = "amend" /\ BrokerTakes(c)
  <2> DEFINE new(o) == [key |-> c.key, price |-> c.price, open |-> Smaller(c.qty, o.open)]
  <2>1. \A o \in live : Smaller(c.qty, o.open) \in Nat /\ Smaller(c.qty, o.open) <= o.open
    <3>1. \A a, b \in Nat : Smaller(a, b) \in Nat /\ Smaller(a, b) <= b
      BY DEF Smaller
    <3>2. \A o \in live : o.open \in Nat
      BY DEF Working
    <3> QED
      BY <1>1, <3>1, <3>2
  <2>2. \A o \in live : /\ new(o) \in Working /\ new(o).key = c.key /\ new(o).price = c.price
                       /\ new(o).open <= o.open
    BY <1>1, <2>1 DEF Working
  <2>3. \A p \in AfterBroker(c) : p \in live \/ \E o \in live : o.key = c.target /\ p = new(o)
    BY <1>3 DEF AfterBroker
  <2> HIDE DEF new
  <2> QED
    BY <1>3, <2>2, <2>3 DEF Opening
<1>4. CASE c.action # "submit" /\ ~(c.action = "amend" /\ BrokerTakes(c))
  <2>1. AfterBroker(c) \subseteq live
    BY <1>4 DEF AfterBroker
  <2> QED
    BY <2>1
<1> QED
  BY <1>2, <1>3, <1>4

\* A price no worse than the cap respects the intent's limit.
LEMMA Priced ==
    ASSUME IndInv, Started(disk), NEW p \in Nat, ~Worse(disk.intent, p, disk.cap)
    PROVE  WithinLimit(disk.intent, p)
<1>1. disk.intent.side \in Sides /\ WithinLimit(disk.intent, disk.cap)
  BY DEF IndInv, PricesOK
<1>2. disk.intent \in IntentRecord /\ disk.cap \in Nat
  BY StateFields DEF IndInv, TypeOK
<1>3. disk.intent.limitPrice \in Nat
  BY <1>2 DEF IntentRecord
<1> QED
  BY <1>1, <1>2, <1>3 DEF Worse, WithinLimit, Sides, Buy, Sell

\* A late request adds at most its own order, at a price within the limit.
LEMMA LateArriveInv ==
    ASSUME IndInv, LateArrive PROVE IndInv'
<1>1. PICK c \in late :
        /\ live' = AfterBroker(c)
        /\ late' = late \ {c}
        /\ UNCHANGED <<up, disk, killed, now, faults, execVars, execs, brokerQty, history>>
  BY DEF LateArrive
<1>2. c \in Child /\ live \subseteq Working /\ late \subseteq Child /\ c.key \in requested
  BY DEF IndInv, TypeOK, GatewayInv
<1>3. \A p \in live' : p \in live \/ (Opening(c) /\ p \in Working /\ p.key = c.key /\ p.price = c.price)
  BY <1>1, <1>2, AfterBrokerForms
<1>4. Opening(c) => WithinLimit(disk.intent, c.price)
  <2>1. c.price \in Nat /\ Started(disk)
    BY <1>2, Keys DEF Child
  <2>2. Opening(c) => ~Worse(disk.intent, c.price, disk.cap)
    BY DEF IndInv, PriceInv
  <2> QED
    BY <2>1, <2>2, Priced
<1>5. TypeOK'
  <2>1. live' \subseteq Working /\ late' \subseteq Child
    BY <1>1, <1>2, <1>3
  <2> QED
    BY <1>1, <2>1 DEF IndInv, TypeOK, execVars, history
<1>6. ProcessInv' /\ JournalOK(disk)' /\ PricesOK(disk)'
  BY <1>1, ExecutorUntouched
<1>7. GatewayInv'
  BY <1>1, <1>2, <1>3 DEF IndInv, GatewayInv, NoBlindSend, KeyUsedOnce, execVars, history
<1>8. PriceInv'
  BY <1>1, <1>3, <1>4 DEF IndInv, PriceInv, LimitRespected
<1>9. LateDelivery
  BY DEF IndInv, BrokerInv
<1>10. WorldInv'
  BY <1>6, <1>7, <1>8, <1>9 DEF WorldInv
<1> QED
  BY <1>5, <1>6, <1>10, Parts, PTL

\* The unresolved child is the last one journaled.
LEMMA InFlight ==
    ASSUME IndInv, Unresolved(disk)
    PROVE  LET c == disk.inFlight IN
           /\ c \in Child /\ c.key = Len(disk.sent) /\ c.key \in 1 .. Len(disk.sent)
           /\ c.key \in Nat /\ c.qty \in Nat /\ c.price \in Nat
           /\ Started(disk)
           /\ c.action \in {"submit", "amend", "cancel"}
           /\ Opening(c) => ~Worse(disk.intent, c.price, disk.cap)
           /\ IF c.action = "submit" THEN ~HasOrder(disk)
              ELSE HasOrder(disk) /\ c.target = disk.order.key
<1> DEFINE c == disk.inFlight
<1>1. disk \in State /\ JournalOK(disk) /\ PricesOK(disk)
  BY DEF IndInv, TypeOK
<1>2. c \in Child /\ Len(disk.sent) \in Nat /\ DOMAIN disk.sent = 1 .. Len(disk.sent)
  BY <1>1, StateFields
<1>3. /\ Len(disk.sent) >= 1 /\ c = disk.sent[Len(disk.sent)]
      /\ c.action \in {"submit", "amend", "cancel"}
      /\ IF c.action = "submit" THEN ~HasOrder(disk)
         ELSE HasOrder(disk) /\ c.target = disk.order.key
      /\ \A i \in DOMAIN disk.sent : disk.sent[i].key = i
  BY <1>1 DEF JournalOK
<1>4. \A i \in DOMAIN disk.sent :
        Opening(disk.sent[i]) => ~Worse(disk.intent, disk.sent[i].price, disk.cap)
  BY <1>1 DEF PricesOK
<1>5. \A l \in Nat : l >= 1 => l \in 1 .. l
  OBVIOUS
<1>6. Len(disk.sent) \in DOMAIN disk.sent /\ Len(disk.sent) \in 1 .. Len(disk.sent)
  BY <1>2, <1>3, <1>5, Zenon
<1>7. c.key = Len(disk.sent) /\ (Opening(c) => ~Worse(disk.intent, c.price, disk.cap))
  BY <1>3, <1>4, <1>6
<1>8. c.qty \in Nat /\ c.price \in Nat
  BY <1>2 DEF Child
<1>9. Started(disk)
  <2>1. SUFFICES ASSUME disk = Fresh PROVE FALSE
    BY <1>1 DEF JournalOK
  <2>2. Fresh.inFlight = NoChild
    BY DEF Fresh, NewState
  <2> QED
    BY <2>1, <2>2 DEF Unresolved
<1> QED
  BY <1>2, <1>3, <1>6, <1>7, <1>8, <1>9, Zenon

\* The request leaves: what the gateway and the broker may do with it.
LEMMA GwSendInv ==
    ASSUME IndInv, GwSend PROVE IndInv'
<1> DEFINE c == disk.inFlight
<1>1. pc = "send" /\ up /\ err = "" /\ mem = disk /\ Unresolved(disk)
  <2>1. pc = "send" /\ up
    BY DEF GwSend
  <2>2. err = "" /\ mem = disk
    BY <2>1, InTick
  <2> QED
    BY <2>1, <2>2 DEF IndInv, ProcessInv
<1>2. /\ c \in Child /\ c.key \in 1 .. Len(disk.sent) /\ c.key \in Nat /\ c.qty \in Nat
      /\ c.price \in Nat /\ Started(disk)
      /\ c.action \in {"submit", "amend", "cancel"}
      /\ Opening(c) => ~Worse(disk.intent, c.price, disk.cap)
      /\ IF c.action = "submit" THEN ~HasOrder(disk)
         ELSE HasOrder(disk) /\ c.target = disk.order.key
  BY <1>1, InFlight
<1>3. c.key \notin requested
  BY <1>1 DEF IndInv, GatewayInv, KeyUsedOnce
<1>4. /\ live' = AfterBroker(c) \/ live' = live
      /\ late' = late \/ (LateDelivery /\ late' = late \cup {c})
      /\ answer' \in {"accepted", "refused", "uncertain"}
      /\ answer' = "accepted" => live' = AfterBroker(c) /\ BrokerTakes(c)
      /\ answer' = "refused" => live' = live
      /\ faults' = faults \/ faults' = faults + 1
  BY <1>1, Zenon DEF GwSend, Fault
<1>5. /\ pc' = "answer" /\ requested' = requested \cup {c.key} /\ unanswered' = TRUE
      /\ UNCHANGED <<up, disk, killed, now, mem, top, err, ledgerComplete, steps, execs, brokerQty>>
  BY <1>1 DEF GwSend
<1>6. live \subseteq Working /\ late \subseteq Child /\ faults \in Nat
  BY DEF IndInv, TypeOK
<1> HIDE DEF c
<1>7. \A p \in live' :
        \/ p \in live
        \/ /\ Opening(c) /\ p \in Working /\ p.key = c.key /\ p.price = c.price
           /\ \/ c.action = "submit" /\ p.open = c.qty
              \/ c.action = "amend" /\ \E o \in live : o.key = c.target /\ p.open <= o.open
  BY <1>2, <1>4, <1>6, AfterBrokerForms
<1>8. TypeOK'
  <2>1. live' \subseteq Working /\ late' \subseteq Child
    BY <1>2, <1>4, <1>6, <1>7
  <2>2. faults' \in Nat
    BY <1>4, <1>6, Successor, Zenon
  <2>3. requested' \in SUBSET Nat
    BY <1>2, <1>5 DEF IndInv, TypeOK
  <2>4. answer' \in {"", "accepted", "refused", "uncertain"}
    BY <1>4
  <2> QED
    BY <1>5, <2>1, <2>2, <2>3, <2>4 DEF IndInv, TypeOK
<1>9. ProcessInv'
  BY <1>1, <1>5 DEF ProcessInv, MemoryIsDurable, Unresolved
<1>10. JournalOK(disk)' /\ PricesOK(disk)'
  BY <1>5 DEF IndInv
<1>11. GatewayInv'
  <2>1. requested' \subseteq 1 .. Len(disk.sent)
    BY <1>2, <1>5 DEF IndInv, GatewayInv
  <2>2. \A o \in live' \cup late' : o.key \in requested'
    BY <1>4, <1>5, <1>7 DEF IndInv, GatewayInv
  <2> QED
    BY <1>1, <1>5, <2>1, <2>2 DEF IndInv, GatewayInv, NoBlindSend, KeyUsedOnce, Unresolved
<1>12. PriceInv'
  <2>1. Opening(c) => WithinLimit(disk.intent, c.price)
    BY <1>2, Priced
  <2>2. LimitRespected'
    BY <1>5, <1>7, <2>1 DEF IndInv, PriceInv, LimitRespected
  <2> QED
    BY <1>2, <1>4, <1>5, <2>2 DEF IndInv, PriceInv
<1>13. ASSUME ~LateDelivery PROVE BrokerInv' /\ QuantityInv'
  <2>1. BrokerInv /\ QuantityInv
    BY <1>13 DEF IndInv
  <2>2. \A o \in live : HasOrder(disk) /\ o.key = disk.order.key /\ o.key # c.key
    BY <1>3, <2>1, Keys DEF BrokerInv, c
  <2>3. c.action = "submit" => live = {}
    BY <1>2, <2>2
  <2>4. \A o1, o2 \in live : o1 = o2
    BY <2>1 DEF BrokerInv, OneLiveOrder
  <2>5. c.action # "submit" => \A o \in live : o.key = c.target
    BY <1>2, <2>2
  <2>6. CASE live' = live /\ answer' # "accepted"
    <3>1. BrokerInv'
      BY <1>4, <1>5, <1>13, <2>1, <2>2, <2>6 DEF BrokerInv, OneLiveOrder
    <3>2. QuantityInv'
      BY <1>1, <1>5, <2>1, <2>6 DEF QuantityInv, NoOverfill, Unresolved, c
    <3> QED
      BY <3>1, <3>2
  <2>7. CASE live' = AfterBroker(c)
    <3>1. CASE c.action = "submit"
      <4> DEFINE o == [key |-> c.key, price |-> c.price, open |-> c.qty]
      <4>1. live' = {o}
        BY <2>3, <2>7, <3>1 DEF AfterBroker, BrokerTakes
      <4>2. o.key = c.key /\ o.open = c.qty
        OBVIOUS
      <4> HIDE DEF o
      <4>3. brokerQty + c.qty <= disk.target
        BY <1>3, <2>1, <3>1 DEF QuantityInv, c
      <4>4. answer' # "refused"
        <5>1. o \notin live
          BY <2>3, <3>1
        <5> QED
          BY <1>4, <4>1, <5>1
      <4>5. BrokerInv'
        BY <1>4, <1>5, <1>13, <2>1, <3>1, <4>1, <4>2, <4>4 DEF BrokerInv, OneLiveOrder, c
      <4>6. QuantityInv'
        BY <1>1, <1>5, <2>1, <4>1, <4>2, <4>3 DEF QuantityInv, NoOverfill, Unresolved, c
      <4> QED
        BY <4>5, <4>6
    <3>2. CASE c.action # "submit" /\ live = {}
      <4>1. ~BrokerTakes(c) /\ live' = {}
        BY <2>7, <3>2 DEF AfterBroker, BrokerTakes
      <4>2. BrokerInv'
        BY <1>4, <1>5, <1>13, <2>1, <4>1 DEF BrokerInv, OneLiveOrder
      <4>3. QuantityInv'
        BY <1>1, <1>5, <2>1, <4>1 DEF QuantityInv, NoOverfill, Unresolved, c
      <4> QED
        BY <4>2, <4>3
    <3>3. CASE c.action = "cancel" /\ live # {}
      <4>1. live' = {}
        BY <2>5, <2>7, <3>3 DEF AfterBroker, BrokerTakes
      <4>2. BrokerInv'
        BY <1>4, <1>5, <1>13, <2>1, <4>1 DEF BrokerInv, OneLiveOrder
      <4>3. QuantityInv'
        BY <1>1, <1>5, <2>1, <4>1 DEF QuantityInv, NoOverfill, Unresolved, c
      <4> QED
        BY <4>2, <4>3
    <3>4. CASE c.action = "amend" /\ live # {}
      <4>1. PICK o \in live : TRUE
        BY <3>4
      <4>2. live = {o} /\ o.key = c.target
        BY <2>4, <2>5, <3>4, <4>1
      <4> DEFINE p == [key |-> c.key, price |-> c.price, open |-> Smaller(c.qty, o.open)]
      <4>3. live' = {p}
        BY <2>7, <3>4, <4>2 DEF AfterBroker, BrokerTakes
      <4>4. p.key = c.key /\ p.open <= o.open /\ p.open \in Nat
        <5>1. o.open \in Nat /\ \A a, b \in Nat : Smaller(a, b) \in Nat /\ Smaller(a, b) <= b
          BY <1>6 DEF Working, Smaller
        <5> QED
          BY <1>2, <5>1
      <4> HIDE DEF p
      <4>5. brokerQty + p.open <= disk.target
        <5>1. brokerQty + o.open <= disk.target
          BY <2>1 DEF QuantityInv, NoOverfill
        <5>2. brokerQty \in Nat /\ disk.target \in Nat /\ o.open \in Nat
          BY <1>6, StateFields DEF IndInv, TypeOK, Working
        <5> QED
          BY <4>4, <5>1, <5>2
      <4>6. answer' # "refused"
        <5>1. p \notin live
          BY <2>2, <4>4
        <5> QED
          BY <1>4, <4>3, <5>1
      <4>7. BrokerInv'
        BY <1>4, <1>5, <1>13, <2>1, <3>4, <4>3, <4>4, <4>6 DEF BrokerInv, OneLiveOrder, c
      <4>8. QuantityInv'
        BY <1>1, <1>5, <2>1, <4>3, <4>5 DEF QuantityInv, NoOverfill, Unresolved, c
      <4> QED
        BY <4>7, <4>8
    <3> QED
      BY <1>2, <3>1, <3>2, <3>3, <3>4
  <2> QED
    BY <1>4, <2>6, <2>7
<1>14. WorldInv'
  BY <1>10, <1>11, <1>12, <1>13 DEF WorldInv
<1> QED
  BY <1>8, <1>9, <1>14, Parts, PTL
-----------------------------------------------------------------------------
\* The actions that journal a record.

\* After a commit the process holds what is on disk, or has latched the failure.
LEMMA CommitProcess ==
    ASSUME IndInv, up, err = "", NEW n \in State, NEW ok \in BOOLEAN, NEW onDisk \in BOOLEAN,
           Commit(n, ok, onDisk), up' = up,
           ~ok => pc' = "idle",
           pc' = "tick" => Started(n),
           pc' \in {"send", "answer"} => Unresolved(n)
    PROVE  ProcessInv'
<1>1. CASE ok
  BY <1>1, Committed DEF ProcessInv, MemoryIsDurable
<1>2. CASE ~ok
  <2>1. err' = "halted" /\ pc' = "idle"
    BY <1>2, Committed
  <2> QED
    BY <2>1 DEF ProcessInv, MemoryIsDurable
<1> QED
  BY <1>1, <1>2

\* A record that keeps the intent and what was sent keeps the gateway's and the
\* prices' invariants.
LEMMA SameBaseWorld ==
    ASSUME IndInv, NEW n \in State, JournalOK(n), PricesOK(n), SameBase(n, disk), disk' = n,
           UNCHANGED <<brokerVars, requested>>, unanswered' => Unresolved(n),
           pc' \in {"idle", "tick"}
    PROVE  /\ JournalOK(disk)' /\ PricesOK(disk)' /\ GatewayInv' /\ PriceInv'
           /\ NoOverfill => NoOverfill'
<1>1. JournalOK(disk)' /\ PricesOK(disk)'
  OBVIOUS
<1>2. GatewayInv'
  BY DEF IndInv, GatewayInv, NoBlindSend, KeyUsedOnce, SameBase, brokerVars
<1>3. PriceInv'
  BY DEF IndInv, PriceInv, LimitRespected, SameBase, brokerVars
<1>4. NoOverfill => NoOverfill'
  BY DEF NoOverfill, SameBase, brokerVars
<1> QED
  BY <1>1, <1>2, <1>3, <1>4

\* A record that also keeps the order and the unresolved child, and leaves the
\* intent at least as closed as it was, keeps WorldInv.
LEMMA SameOrderWorld ==
    ASSUME IndInv, NEW n \in State, JournalOK(n), PricesOK(n), SameBase(n, disk), disk' = n,
           UNCHANGED <<brokerVars, history>>, pc' \in {"idle", "tick"},
           n.order = disk.order, n.inFlight = disk.inFlight, n.brokerFilled = disk.brokerFilled,
           n.halt = "" /\ n.done = "" => disk.halt = "" /\ disk.done = ""
    PROVE  WorldInv'
<1>1. unanswered' => Unresolved(n)
  BY DEF IndInv, GatewayInv, history, Unresolved
<1>2. UNCHANGED <<brokerVars, requested>>
  BY DEF history
<1>3. /\ JournalOK(disk)' /\ PricesOK(disk)' /\ GatewayInv' /\ PriceInv'
      /\ NoOverfill => NoOverfill'
  BY <1>1, <1>2, SameBaseWorld
<1>4. ~LateDelivery => BrokerInv'
  BY DEF IndInv, BrokerInv, OneLiveOrder, brokerVars
<1>5. ~LateDelivery => QuantityInv'
  BY <1>3 DEF IndInv, QuantityInv, HasOrder, Unresolved, brokerVars, history, SameBase
<1> QED
  BY <1>3, <1>4, <1>5 DEF WorldInv

\* Start journals the first record; nothing reached the gateway before it.
LEMMA StartInv ==
    ASSUME IndInv, Start PROVE IndInv'
<1>1. /\ up /\ pc = "idle" /\ err = ""
      /\ UNCHANGED <<up, killed, now, top, ledgerComplete, pc, steps, answer, brokerVars, history>>
  BY DEF Start, Idle
<1>2. PICK in \in Intents, ok \in BOOLEAN, onDisk \in BOOLEAN :
        StartApplies(mem, in) /\ Commit(AfterStart(in), ok, onDisk)
  BY DEF Start
<1> DEFINE n == AfterStart(in)
<1>3. /\ n \in State /\ JournalOK(n) /\ PricesOK(n) /\ n.sent = <<>>
      /\ n.inFlight.key = 0 /\ n.order.key = 0 /\ ~Unresolved(n) /\ n.target \in Nat
      /\ n.brokerFilled = 0
  <2>1. in \in IntentRecord /\ in # NoIntent /\ Validate(in)
    BY <1>2, ExecutorAssumption DEF StartApplies
  <2>2. /\ n \in State /\ JournalOK(n) /\ PricesOK(n) /\ n.sent = <<>>
        /\ n.inFlight.key = 0 /\ n.order.key = 0 /\ ~Unresolved(n) /\ n.brokerFilled = 0
    BY <2>1, StartOK
  <2> HIDE DEF n
  <2> QED
    BY <2>2, StateFields
<1>4. disk = Fresh /\ ~Unresolved(disk) /\ disk.target = 0 /\ disk.sent = <<>>
  <2>1. mem = disk
    BY <1>1 DEF IndInv, ProcessInv, MemoryIsDurable
  <2>2. disk = Fresh
    BY <1>2, <2>1 DEF StartApplies, IndInv, JournalOK
  <2> QED
    BY <2>2 DEF Fresh, NewState, Unresolved
<1>5. requested = {} /\ live = {} /\ late = {} /\ DOMAIN execs = {} /\ ~unanswered
  <2>1. requested \subseteq 1 .. Len(disk.sent)
    BY DEF IndInv, GatewayInv
  <2>2. requested = {}
    BY <1>4, <2>1
  <2> QED
    BY <1>4, <2>2 DEF IndInv, GatewayInv
<1>6. Commit(n, ok, onDisk)
  BY <1>2
<1> HIDE DEF n
<1>7. mem' \in State /\ disk' \in State /\ err' \in {"", "halted"} /\ faults' \in Nat
      /\ disk' = (IF onDisk THEN n ELSE disk)
  BY <1>1, <1>3, <1>6, Committed
<1>8. TypeOK'
  BY <1>1, <1>7 DEF IndInv, TypeOK, brokerVars, history
<1>9. ProcessInv'
  BY <1>1, <1>3, <1>6, CommitProcess
<1>10. WorldInv'
  <2>1. CASE disk' = disk
    BY <1>1, <2>1, Frame DEF world
  <2>2. CASE disk' = n
    <3>1. JournalOK(disk)' /\ PricesOK(disk)'
      BY <1>3, <2>2
    <3>2. GatewayInv'
      BY <1>1, <1>5 DEF GatewayInv, NoBlindSend, KeyUsedOnce, brokerVars, history
    <3>3. PriceInv'
      BY <1>1, <1>5 DEF PriceInv, LimitRespected, brokerVars
    <3>4. ASSUME ~LateDelivery PROVE BrokerInv' /\ QuantityInv'
      <4>1. brokerQty \in Nat /\ brokerQty <= 0
        BY <1>4, <3>4 DEF IndInv, TypeOK, QuantityInv, NoOverfill
      <4>2. brokerQty = 0
        BY <4>1
      <4>3. BrokerInv'
        BY <1>1, <1>5 DEF BrokerInv, OneLiveOrder, brokerVars
      <4>4. NoOverfill' /\ brokerQty' <= n.brokerFilled
        <5>1. brokerQty' = 0 /\ live' = {}
          BY <1>1, <1>5, <4>2 DEF brokerVars
        <5>2. \A k \in Nat : 0 <= k
          OBVIOUS
        <5>3. 0 <= n.target /\ 0 <= n.brokerFilled
          BY <1>3, <5>2, Zenon
        <5> QED
          BY <2>2, <5>1, <5>3, Zenon DEF NoOverfill
      <4>5. n.inFlight.action # "submit"
        BY <1>3 DEF Unresolved, NoChild
      <4> QED
        BY <2>2, <4>3, <4>4, <4>5 DEF QuantityInv
    <3> QED
      BY <3>1, <3>2, <3>3, <3>4 DEF WorldInv
  <2> QED
    BY <1>7, <2>1, <2>2
<1> QED
  BY <1>8, <1>9, <1>10, Parts, PTL

\* A fill record changes only the count of fills.
LEMMA OnFillInv ==
    ASSUME IndInv, OnFill PROVE IndInv'
<1>1. /\ up /\ pc = "idle" /\ err = ""
      /\ UNCHANGED <<up, killed, now, top, ledgerComplete, pc, steps, answer, brokerVars, history>>
  BY DEF OnFill, Idle
<1>2. PICK i \in DOMAIN execs, ok \in BOOLEAN, onDisk \in BOOLEAN :
        LET f == [id |-> i, key |-> execs[i].key, qty |-> execs[i].qty,
                  price |-> execs[i].price] IN
        FillApplies(mem, f) /\ Commit(AfterFill(mem, f), ok, onDisk)
  BY DEF OnFill
<1> DEFINE f == [id |-> i, key |-> execs[i].key, qty |-> execs[i].qty, price |-> execs[i].price]
           n == AfterFill(disk, f)
<1>3. mem = disk /\ disk \in State /\ JournalOK(disk) /\ PricesOK(disk)
  BY <1>1 DEF IndInv, TypeOK, ProcessInv, MemoryIsDurable
<1>4. Started(disk) /\ Commit(n, ok, onDisk)
  BY <1>2, <1>3 DEF FillApplies
<1>5. i \in Nat /\ execs[i].qty \in Nat
  <2>1. execs \in Seq(Execution)
    BY DEF IndInv, TypeOK
  <2>2. i \in Nat /\ execs[i] \in Execution
    BY <2>1
  <2> QED
    BY <2>2 DEF Execution
<1>6. /\ n \in State /\ JournalOK(n) /\ PricesOK(n) /\ SameBase(n, disk)
      /\ n.order = disk.order /\ n.inFlight = disk.inFlight
      /\ n.brokerFilled = disk.brokerFilled /\ n.halt = disk.halt /\ n.done = disk.done
  BY <1>3, <1>4, <1>5, FillOK
<1> HIDE DEF n
<1>7. mem' \in State /\ disk' \in State /\ err' \in {"", "halted"} /\ faults' \in Nat
      /\ disk' = (IF onDisk THEN n ELSE disk)
  BY <1>1, <1>4, <1>6, Committed
<1>8. TypeOK'
  BY <1>1, <1>7 DEF IndInv, TypeOK, brokerVars, history
<1>9. ProcessInv'
  BY <1>1, <1>4, <1>6, CommitProcess
<1>10. WorldInv'
  <2>1. CASE disk' = disk
    BY <1>1, <2>1, Frame DEF world
  <2>2. CASE disk' = n
    BY <1>1, <1>6, <2>2, SameOrderWorld
  <2> QED
    BY <1>7, <2>1, <2>2
<1> QED
  BY <1>8, <1>9, <1>10, Parts, PTL

\* A finish is journaled only when nothing works, or the Tick ends.
LEMMA TickFinishInv ==
    ASSUME IndInv, up, pc = "tick", NEW d, TickFinish(d), d.reason \in Reasons \cup {""}
    PROVE  IndInv'
<1>1. /\ err = "" /\ mem = disk
      /\ UNCHANGED <<up, killed, now, top, ledgerComplete, answer, brokerVars, history>>
  BY InTick DEF TickFinish
<1>2. CASE err' = "incomplete" /\ EndTick /\ UNCHANGED <<mem, disk, faults>>
  <2>1. ledgerComplete \in BOOLEAN /\ faults \in Nat
    BY DEF IndInv, TypeOK
  <2> QED
    BY <1>1, <1>2, <2>1, TickEnds DEF world
<1>3. ASSUME FinishApplies(mem, d.reason), NEW ok \in BOOLEAN, NEW onDisk \in BOOLEAN,
             Commit(AfterFinish(mem, d.reason), ok, onDisk),
             IF ok THEN NextStep("tick") ELSE EndTick
      PROVE  IndInv'
  <2> DEFINE n == AfterFinish(disk, d.reason)
  <2>1. disk \in State /\ JournalOK(disk) /\ PricesOK(disk)
    BY DEF IndInv, TypeOK
  <2>2. FinishApplies(disk, d.reason) /\ Commit(n, ok, onDisk)
    BY <1>1, <1>3
  <2>3. /\ n \in State /\ JournalOK(n) /\ PricesOK(n) /\ SameBase(n, disk)
        /\ n.order = disk.order /\ n.inFlight = disk.inFlight
        /\ n.brokerFilled = disk.brokerFilled /\ n.done # ""
    BY <2>1, <2>2, FinishOK
  <2> HIDE DEF n
  <2>4. mem' \in State /\ disk' \in State /\ err' \in {"", "halted"} /\ faults' \in Nat
        /\ disk' = (IF onDisk THEN n ELSE disk)
    BY <1>1, <2>2, <2>3, Committed
  <2>5. pc' \in {"idle", "tick"} /\ steps' \in 0 .. MaxStepsPerTick - 1 /\ (~ok => pc' = "idle")
    BY <1>3, Stepping DEF EndTick
  <2>6. TypeOK'
    BY <1>1, <2>4, <2>5 DEF IndInv, TypeOK, brokerVars, history
  <2>7. Started(n)
    BY <2>2, <2>3 DEF FinishApplies, Started, SameBase
  <2>8. ProcessInv'
    BY <1>1, <2>2, <2>3, <2>5, <2>7, CommitProcess
  <2>9. WorldInv'
    <3>1. CASE disk' = disk
      BY <1>1, <2>5, <3>1, Frame DEF world
    <3>2. CASE disk' = n
      BY <1>1, <2>3, <2>5, <3>2, SameOrderWorld
    <3> QED
      BY <2>4, <3>1, <3>2
  <2> QED
    BY <2>6, <2>8, <2>9, Parts, PTL
<1> QED
  BY <1>2, <1>3 DEF TickFinish

\* A send is journaled, with its key unused and its quantity within what remains,
\* before the gateway is called.
LEMMA TickSendInv ==
    ASSUME IndInv, up, pc = "tick", NEW d, TickSend(d), SendShape(disk, d)
    PROVE  IndInv'
<1>1. /\ err = "" /\ mem = disk
      /\ UNCHANGED <<up, killed, now, top, ledgerComplete, answer, brokerVars, history>>
  BY InTick DEF TickSend
<1>2. CASE EndTick /\ UNCHANGED <<mem, disk, err, faults>>
  <2>1. ledgerComplete \in BOOLEAN /\ faults \in Nat
    BY DEF IndInv, TypeOK
  <2> QED
    BY <1>1, <1>2, <2>1, TickEnds DEF world
<1>3. ASSUME SendApplies(mem, d.child), NEW ok \in BOOLEAN, NEW onDisk \in BOOLEAN,
             Commit(AfterSend(mem, d.child, d.reason, now), ok, onDisk),
             IF ok THEN pc' = "send" /\ UNCHANGED steps ELSE EndTick
      PROVE  IndInv'
  <2> DEFINE n == AfterSend(disk, d.child, d.reason, now)
             c == d.child
  <2>1. disk \in State /\ JournalOK(disk) /\ PricesOK(disk) /\ now \in Nat
    BY DEF IndInv, TypeOK
  <2>2. SendApplies(disk, c) /\ Commit(n, ok, onDisk)
    BY <1>1, <1>3
  <2>3. /\ n \in State /\ JournalOK(n) /\ PricesOK(n)
        /\ Unresolved(n) /\ n.inFlight = c /\ c.key = Len(disk.sent) + 1
        /\ Len(n.sent) = Len(disk.sent) + 1
        /\ n.order = disk.order /\ n.intent = disk.intent /\ n.cap = disk.cap
        /\ n.target = disk.target
    BY <2>1, <2>2, SendOK
  <2> HIDE DEF n
  <2>4. mem' \in State /\ disk' \in State /\ err' \in {"", "halted"} /\ faults' \in Nat
        /\ disk' = (IF onDisk THEN n ELSE disk) /\ (ok => onDisk /\ mem' = n)
    BY <1>1, <2>2, <2>3, Committed
  <2>5. /\ pc' \in {"idle", "send"} /\ steps' \in 0 .. MaxStepsPerTick - 1
        /\ ok => pc' = "send"
        /\ ~ok => pc' = "idle"
    <3>1. steps \in 0 .. MaxStepsPerTick - 1
      BY DEF IndInv, TypeOK
    <3> QED
      BY <1>3, <3>1, Stepping DEF EndTick
  <2>6. TypeOK'
    BY <1>1, <2>4, <2>5 DEF IndInv, TypeOK, brokerVars, history
  <2>7. ProcessInv'
    BY <1>1, <2>2, <2>3, <2>5, CommitProcess
  <2>8. CASE ~onDisk
    <3>1. disk' = disk /\ pc' = "idle"
      BY <2>4, <2>5, <2>8
    <3>2. WorldInv'
      BY <1>1, <3>1, Frame DEF world
    <3> QED
      BY <2>6, <2>7, <3>2, Parts, PTL
  <2>9. CASE onDisk
    <3>1. disk' = n
      BY <2>4, <2>9
    <3>2. ~Unresolved(disk) /\ ~unanswered /\ Len(disk.sent) \in Nat
      <4>1. ~Unresolved(disk)
        BY <2>2 DEF SendApplies
      <4> QED
        BY <2>1, <4>1, StateFields DEF IndInv, GatewayInv
    <3>3. /\ requested \subseteq 1 .. Len(disk.sent)
          /\ requested \subseteq 1 .. Len(n.sent) /\ c.key \notin requested
      <4>1. requested \subseteq 1 .. Len(disk.sent)
        BY DEF IndInv, GatewayInv
      <4> HIDE DEF c
      <4>2. \A l \in Nat : 1 .. l \subseteq 1 .. l + 1 /\ l + 1 \notin 1 .. l
        OBVIOUS
      <4> QED
        BY <2>3, <3>2, <4>1, <4>2
    <3>4. GatewayInv'
      <4>1. pc' = "send" => mem'.inFlight.key \notin requested'
        BY <1>1, <2>3, <2>4, <2>5, <3>3 DEF history
      <4> QED
        BY <1>1, <2>3, <3>1, <3>2, <3>3, <4>1
           DEF IndInv, GatewayInv, NoBlindSend, KeyUsedOnce, brokerVars, history
    <3>5. PriceInv'
      BY <1>1, <2>3, <3>1 DEF IndInv, PriceInv, LimitRespected, brokerVars
    <3>6. ASSUME ~LateDelivery PROVE BrokerInv' /\ QuantityInv'
      <4>1. BrokerInv /\ QuantityInv
        BY <3>6 DEF IndInv
      <4>2. \A o \in live : o.key = disk.order.key
        BY <3>2, <4>1, Keys DEF BrokerInv
      <4>3. BrokerInv'
        BY <1>1, <2>3, <2>5, <3>1, <4>1, <4>2 DEF BrokerInv, OneLiveOrder, brokerVars
      <4>4. NoOverfill'
        BY <1>1, <2>3, <3>1, <4>1 DEF QuantityInv, NoOverfill, brokerVars
      <4>5. ASSUME c.action = "submit" PROVE brokerQty + c.qty <= disk.target
        <5>1. /\ ~HasOrder(disk) /\ disk.halt = "" /\ disk.done = ""
              /\ c.qty \in 1 .. Remaining(disk)
          BY <2>2, <4>5 DEF SendApplies, Opening
        <5>2. brokerQty <= disk.brokerFilled
          BY <3>2, <4>1, <5>1 DEF QuantityInv
        <5>3. /\ brokerQty \in Nat /\ disk.brokerFilled \in Nat /\ disk.filled \in Nat
              /\ disk.target \in Nat
          BY <2>1, StateFields DEF IndInv, TypeOK
        <5>4. \A q, b, bf, fl, tg \in Nat :
                 q \in 1 .. tg - Larger(fl, bf) /\ b <= bf => b + q <= tg
          BY DEF Larger
        <5>5. c.qty \in Nat
          <6>1. Remaining(disk) \in Int
            BY <5>3 DEF Remaining, Larger
          <6>2. \A r \in Int : \A x \in 1 .. r : x \in Nat
            OBVIOUS
          <6> QED
            BY <5>1, <6>1, <6>2, Zenon
        <5> QED
          BY <5>1, <5>2, <5>3, <5>4, <5>5, Zenon DEF Remaining
      <4>6. QuantityInv'
        BY <1>1, <2>3, <3>1, <4>4, <4>5 DEF QuantityInv, brokerVars
      <4> QED
        BY <4>3, <4>6
    <3>7. WorldInv'
      BY <2>3, <3>1, <3>4, <3>5, <3>6 DEF WorldInv
    <3> QED
      BY <2>6, <2>7, <3>7, Parts, PTL
  <2> QED
    BY <2>8, <2>9
<1> QED
  BY <1>2, <1>3 DEF TickSend, SendCommits

\* The absent order has the type of an order.
LEMMA NoOrderTyped == NoOrder \in Order
BY DEF NoOrder, Order

\* A reconcile adopts the order the broker shows and what it has executed.
LEMMA TickQueryInv ==
    ASSUME IndInv, up, pc = "tick", NEW d, TickQuery(d), Unresolved(disk)
    PROVE  IndInv'
<1>1. /\ err = "" /\ mem = disk /\ Started(disk)
      /\ UNCHANGED <<up, killed, now, top, ledgerComplete, answer, brokerVars, requested>>
  BY InTick DEF TickQuery, IndInv, ProcessInv
<1>2. PICK o \in ViewOrders :
        LET v == [order |-> o, filled |-> brokerQty] IN
        \/ \E ok, onDisk \in BOOLEAN :
                /\ Commit(AfterReconcile(mem, v, RequireLedgerComplete), ok, onDisk)
                /\ unanswered' = (unanswered /\ ~onDisk)
                /\ IF ok THEN NextStep("tick") ELSE EndTick
        \/ EndTick /\ UNCHANGED <<mem, disk, err, faults, unanswered>>
  BY DEF TickQuery
<1>3. CASE EndTick /\ UNCHANGED <<mem, disk, err, faults, unanswered>>
  <2>1. ledgerComplete \in BOOLEAN /\ faults \in Nat
    BY DEF IndInv, TypeOK
  <2> QED
    BY <1>1, <1>3, <2>1, TickEnds DEF world, history
<1>4. ASSUME NEW ok \in BOOLEAN, NEW onDisk \in BOOLEAN,
             Commit(AfterReconcile(mem, [order |-> o, filled |-> brokerQty],
                                   RequireLedgerComplete), ok, onDisk),
             unanswered' = (unanswered /\ ~onDisk),
             IF ok THEN NextStep("tick") ELSE EndTick
      PROVE  IndInv'
  <2> DEFINE n == AfterReconcile(disk, [order |-> o, filled |-> brokerQty], RequireLedgerComplete)
  <2>1. /\ disk \in State /\ JournalOK(disk) /\ PricesOK(disk) /\ brokerQty \in Nat
        /\ live \subseteq Working /\ unanswered \in BOOLEAN
    BY DEF IndInv, TypeOK
  <2>2. /\ o \in Order /\ (o # NoOrder => o.key >= 1)
        /\ o = NoOrder => live = {}
        /\ o # NoOrder => \E p \in live : p.key = o.key
    <3>1. CASE live = {}
      BY <3>1, NoOrderTyped DEF ViewOrders
    <3>2. CASE live # {}
      <4>1. PICK p \in live : o = [key |-> p.key, price |-> p.price, qty |-> p.open]
        BY <3>2 DEF ViewOrders
      <4>2. p.key \in Nat /\ p.price \in Nat /\ p.open \in Nat
        BY <2>1 DEF Working
      <4>3. p.key # 0
        BY Keys
      <4>4. o \in Order /\ o.key = p.key
        BY <4>1, <4>2 DEF Order
      <4>5. o # NoOrder
        BY <4>3, <4>4 DEF NoOrder
      <4> QED
        BY <4>2, <4>3, <4>4, <4>5
    <3> QED
      BY <3>1, <3>2
  <2>3. Commit(n, ok, onDisk)
    BY <1>1, <1>4
  <2>4. /\ n \in State /\ JournalOK(n) /\ PricesOK(n) /\ SameBase(n, disk)
        /\ ~Unresolved(n) /\ n.inFlight = NoChild /\ n.order = o /\ n.brokerFilled >= brokerQty
    <3>1. RequireLedgerComplete \in BOOLEAN
      BY ConfigAssumption
    <3> QED
      BY <1>1, <2>1, <2>2, <3>1, ReconcileOK, ZenonT(60)
  <2> HIDE DEF n
  <2>5. mem' \in State /\ disk' \in State /\ err' \in {"", "halted"} /\ faults' \in Nat
        /\ disk' = (IF onDisk THEN n ELSE disk)
    BY <1>1, <2>3, <2>4, Committed
  <2>6. pc' \in {"idle", "tick"} /\ steps' \in 0 .. MaxStepsPerTick - 1 /\ (~ok => pc' = "idle")
    BY <1>4, Stepping DEF EndTick
  <2>7. TypeOK'
    <3>1. unanswered' \in BOOLEAN
      BY <1>4
    <3> QED
      BY <1>1, <2>5, <2>6, <3>1 DEF IndInv, TypeOK, brokerVars
  <2>8. ProcessInv'
    <3>1. Started(n)
      BY <1>1, <2>4 DEF SameBase, Started
    <3> QED
      BY <1>1, <2>3, <2>4, <2>6, <3>1, CommitProcess
  <2>9. CASE ~onDisk
    <3>1. disk' = disk /\ unanswered' = unanswered
      BY <1>4, <2>1, <2>5, <2>9
    <3>2. WorldInv'
      BY <1>1, <2>6, <3>1, Frame DEF world, history
    <3> QED
      BY <2>7, <2>8, <3>2, Parts, PTL
  <2>10. CASE onDisk
    <3>1. disk' = n /\ ~unanswered'
      BY <1>4, <2>5, <2>10
    <3>2. /\ JournalOK(disk)' /\ PricesOK(disk)' /\ GatewayInv' /\ PriceInv'
          /\ NoOverfill => NoOverfill'
      BY <1>1, <2>4, <2>6, <3>1, SameBaseWorld
    <3>3. ASSUME ~LateDelivery PROVE BrokerInv' /\ QuantityInv'
      <4>1. BrokerInv /\ QuantityInv
        BY <3>3 DEF IndInv
      <4>2. \A p \in live : p.key = o.key
        BY <2>2, <4>1 DEF BrokerInv, OneLiveOrder
      <4>3. BrokerInv'
        BY <1>1, <2>4, <2>6, <3>1, <4>1, <4>2 DEF BrokerInv, OneLiveOrder, brokerVars
      <4>4. brokerQty <= n.brokerFilled
        BY <2>1, <2>4, StateFields
      <4>5. n.inFlight.action # "submit"
        BY <2>4 DEF NoChild
      <4>6. NoOverfill'
        BY <3>2, <4>1 DEF QuantityInv
      <4> QED
        BY <1>1, <3>1, <4>3, <4>4, <4>5, <4>6 DEF QuantityInv, brokerVars
    <3>4. WorldInv'
      BY <3>2, <3>3 DEF WorldInv
    <3> QED
      BY <2>7, <2>8, <3>4, Parts, PTL
  <2> QED
    BY <2>9, <2>10
<1> QED
  BY <1>2, <1>3, <1>4

\* A definite answer resolves the child as the broker acted on it; any other
\* leaves the world as it is.
LEMMA SendOutcomeInv ==
    ASSUME IndInv, SendOutcome PROVE IndInv'
<1> DEFINE n == AfterOutcome(disk, answer, RequireLedgerComplete)
           c == disk.inFlight
<1>1. /\ up /\ pc = "answer" /\ err = "" /\ mem = disk /\ Unresolved(disk) /\ Started(disk)
      /\ answer' = "" /\ UNCHANGED <<up, killed, now, top, brokerVars, requested>>
  <2>1. up /\ pc = "answer" /\ OutcomeApplies(mem)
    BY DEF SendOutcome
  <2>2. err = "" /\ mem = disk
    BY <2>1, InTick
  <2> QED
    BY <2>1, <2>2 DEF SendOutcome, OutcomeApplies
<1>2. PICK ok \in BOOLEAN, onDisk \in BOOLEAN :
        /\ Commit(AfterOutcome(mem, answer, RequireLedgerComplete), ok, onDisk)
        /\ unanswered' = (unanswered /\ ~(onDisk /\ Definite(mem.inFlight, answer)))
        /\ ledgerComplete' = (ledgerComplete /\ ~(ok /\ RequireLedgerComplete))
        /\ IF ok /\ ~RequireLedgerComplete THEN NextStep("tick") ELSE EndTick
  BY DEF SendOutcome
<1>3. /\ disk \in State /\ JournalOK(disk) /\ PricesOK(disk) /\ unanswered \in BOOLEAN
      /\ answer \in {"", "accepted", "refused", "uncertain"} /\ ledgerComplete \in BOOLEAN
  BY DEF IndInv, TypeOK
<1>4. Commit(n, ok, onDisk) /\ unanswered' = (unanswered /\ ~(onDisk /\ Definite(c, answer)))
  BY <1>1, <1>2
<1>5. /\ n \in State /\ JournalOK(n) /\ PricesOK(n) /\ SameBase(n, disk)
      /\ IF Definite(c, answer)
         THEN /\ ~Unresolved(n) /\ n.inFlight = NoChild
              /\ answer = "accepted" =>
                   IF c.action = "cancel"
                   THEN ~HasOrder(n) /\ (n.halt # "" \/ n.done # "")
                   ELSE HasOrder(n) /\ n.order.key = c.key
              /\ answer # "accepted" => n.order = disk.order /\ n.halt # ""
         ELSE n = disk
  <2>1. RequireLedgerComplete \in BOOLEAN
    BY ConfigAssumption
  <2> QED
    BY <1>1, <1>3, <2>1, OutcomeOK, Zenon
<1> HIDE DEF n
<1>6. mem' \in State /\ disk' \in State /\ err' \in {"", "halted"} /\ faults' \in Nat
      /\ disk' = (IF onDisk THEN n ELSE disk)
  BY <1>1, <1>4, <1>5, Committed
<1>7. pc' \in {"idle", "tick"} /\ steps' \in 0 .. MaxStepsPerTick - 1 /\ (~ok => pc' = "idle")
  <2>1. (NextStep("tick") \/ EndTick) /\ (~ok => EndTick)
    BY <1>2
  <2> QED
    BY <2>1, Stepping DEF EndTick
<1>8. TypeOK'
  <2>1. unanswered' \in BOOLEAN /\ ledgerComplete' \in BOOLEAN
    BY <1>2
  <2> QED
    BY <1>1, <1>6, <1>7, <2>1 DEF IndInv, TypeOK, brokerVars
<1>9. ProcessInv'
  <2>1. Started(n)
    BY <1>1, <1>5 DEF SameBase, Started
  <2> QED
    BY <1>1, <1>4, <1>5, <1>7, <2>1, CommitProcess
<1>10. CASE ~(onDisk /\ Definite(c, answer))
  <2>1. disk' = disk /\ unanswered' = unanswered
    BY <1>3, <1>4, <1>5, <1>6, <1>10
  <2>2. WorldInv'
    BY <1>1, <1>7, <2>1, Frame DEF world, history
  <2> QED
    BY <1>8, <1>9, <2>2, Parts, PTL
<1>11. CASE onDisk /\ Definite(c, answer)
  <2>1. disk' = n /\ ~unanswered'
    BY <1>4, <1>6, <1>11
  <2>2. /\ JournalOK(disk)' /\ PricesOK(disk)' /\ GatewayInv' /\ PriceInv'
        /\ NoOverfill => NoOverfill'
    BY <1>1, <1>5, <1>7, <2>1, SameBaseWorld
  <2>3. ASSUME ~LateDelivery PROVE BrokerInv' /\ QuantityInv'
    <3>1. BrokerInv /\ QuantityInv
      BY <2>3 DEF IndInv
    <3>2. \A p \in live : p.key = n.order.key
      <4>1. CASE answer = "accepted"
        BY <1>1, <1>5, <1>11, <3>1, <4>1 DEF BrokerInv
      <4>2. CASE answer # "accepted"
        BY <1>1, <1>5, <1>11, <3>1, <4>2 DEF BrokerInv, Definite
      <4> QED
        BY <4>1, <4>2
    <3>3. BrokerInv'
      BY <1>1, <1>7, <2>1, <3>1, <3>2 DEF BrokerInv, OneLiveOrder, brokerVars
    <3>4. HasOrder(n) \/ n.halt # "" \/ n.done # ""
      BY <1>5, <1>11
    <3>5. n.inFlight.action # "submit"
      <4>1. n.inFlight = NoChild
        BY <1>5, <1>11
      <4> QED
        BY <4>1 DEF NoChild
    <3>6. NoOverfill'
      BY <2>2, <3>1 DEF QuantityInv
    <3> QED
      BY <2>1, <3>3, <3>4, <3>5, <3>6 DEF QuantityInv
  <2>4. WorldInv'
    BY <2>2, <2>3 DEF WorldInv
  <2> QED
    BY <1>8, <1>9, <2>4, Parts, PTL
<1> QED
  BY <1>10, <1>11
-----------------------------------------------------------------------------
\* One step of a Tick's loop, whatever decide chose.
LEMMA TickStepInv ==
    ASSUME IndInv, TickStep PROVE IndInv'
<1> DEFINE d == Decision
<1>1. up /\ pc = "tick" /\ mem = disk /\ err = ""
  BY InTick DEF TickStep
<1>2. TickNothing(d) \/ TickQueryFails(d) \/ TickQuery(d) \/ TickFinish(d) \/ TickSend(d)
  BY DEF TickStep
<1>3. disk \in State /\ top \in Top /\ now \in Nat /\ killed \in BOOLEAN
      /\ ledgerComplete \in BOOLEAN /\ faults \in Nat
  BY DEF IndInv, TypeOK
<1>4. \/ d = Nothing
      \/ d = Query /\ Unresolved(disk)
      \/ d.kind = "finish" /\ d.reason \in Reasons \cup {""}
      \/ SendShape(disk, d)
  BY <1>1, <1>3, DecideForms, Zenon DEF Decision
<1> HIDE DEF d
<1>10. /\ d = Nothing => d.kind = "none"
       /\ d = Query => d.kind = "query"
       /\ SendShape(disk, d) => d.kind = "send"
  <2>1. Nothing.kind = "none" /\ Query.kind = "query"
    BY DEF Nothing, Query
  <2>2. SendShape(disk, d) => d.kind = "send"
    BY Zenon DEF SendShape
  <2> QED
    BY <2>1, <2>2
<1>11. /\ d.kind = "query" => Unresolved(disk)
       /\ d.kind = "finish" => d.reason \in Reasons \cup {""}
       /\ d.kind = "send" => SendShape(disk, d)
  <2>1. CASE d = Nothing
    BY <1>10, <2>1
  <2>2. CASE d = Query /\ Unresolved(disk)
    BY <1>10, <2>2
  <2>3. CASE d.kind = "finish" /\ d.reason \in Reasons \cup {""}
    BY <2>3
  <2>4. CASE SendShape(disk, d)
    BY <1>10, <2>4
  <2> QED
    BY <1>4, <2>1, <2>2, <2>3, <2>4
<1>5. CASE TickNothing(d)
  BY <1>1, <1>3, <1>5, TickEnds DEF TickNothing, world
<1>6. CASE TickQueryFails(d)
  <2>1. faults' = faults \/ faults' = faults + 1
    BY <1>6 DEF TickQueryFails, Fault
  <2>2. faults' \in Nat
    BY <1>3, <2>1, Successor, Zenon
  <2> QED
    BY <1>1, <1>3, <1>6, <2>2, TickEnds DEF TickQueryFails, world
<1>7. CASE TickQuery(d)
  <2>1. Unresolved(disk)
    <3>1. d.kind = "query"
      BY <1>7 DEF TickQuery
    <3> QED
      BY <1>11, <3>1
  <2> QED
    BY <1>1, <1>7, <2>1, TickQueryInv
<1>8. CASE TickFinish(d)
  <2>1. d.reason \in Reasons \cup {""}
    <3>1. d.kind = "finish"
      BY <1>8 DEF TickFinish
    <3> QED
      BY <1>11, <3>1
  <2> QED
    BY <1>1, <1>8, <2>1, TickFinishInv
<1>9. CASE TickSend(d)
  <2>1. SendShape(disk, d)
    <3>1. d.kind = "send"
      BY <1>9 DEF TickSend
    <3> QED
      BY <1>11, <3>1
  <2> QED
    BY <1>1, <1>9, <2>1, TickSendInv
<1> QED
  BY <1>2, <1>5, <1>6, <1>7, <1>8, <1>9

\* The empty journal, before any record.
LEMMA InitInv == Init => IndInv
<1> SUFFICES ASSUME Init PROVE IndInv
  OBVIOUS
<1>1. NoIntent \in IntentRecord /\ NoTop \in Top
  BY DEF NoIntent, IntentRecord, NoTop, Top
<1>2. /\ Fresh \in State /\ JournalOK(Fresh) /\ PricesOK(Fresh) /\ Fresh.sent = <<>>
      /\ Fresh.brokerFilled = 0 /\ Fresh.target = 0
  <2>1. /\ Fresh \in State /\ JournalOK(Fresh) /\ PricesOK(Fresh) /\ Fresh.sent = <<>>
        /\ Fresh.brokerFilled = 0
    BY <1>1, NewStateOK DEF Fresh
  <2>2. Fresh.target = 0
    BY DEF Fresh, NewState
  <2> QED
    BY <2>1, <2>2
<1>3. 0 \in 0 .. MaxStepsPerTick - 1
  BY ExecutorAssumption
<1>4. TypeOK
  <2>1. <<>> \in Seq(Execution) /\ 1 \in Nat
    OBVIOUS
  <2> QED
    BY <1>1, <1>2, <1>3, <2>1 DEF Init, TypeOK
<1>5. ProcessInv
  BY DEF Init, ProcessInv, MemoryIsDurable
<1>6. GatewayInv /\ PriceInv
  <2>1. execs = <<>>
    BY DEF Init
  <2>2. DOMAIN execs = {}
    BY <2>1
  <2> QED
    BY <2>2 DEF Init, GatewayInv, NoBlindSend, KeyUsedOnce, PriceInv, LimitRespected
<1>7. BrokerInv
  BY DEF Init, BrokerInv, OneLiveOrder
<1>8. QuantityInv
  <2>1. Fresh.inFlight.action = "none"
    BY DEF Fresh, NewState, NoChild
  <2> QED
    <3>1. brokerQty = 0 /\ live = {} /\ disk = Fresh
      BY DEF Init
    <3>2. NoOverfill /\ brokerQty <= disk.brokerFilled
      BY <1>2, <3>1 DEF NoOverfill
    <3> QED
      BY <2>1, <3>1, <3>2 DEF QuantityInv
<1>9. JournalOK(disk) /\ PricesOK(disk)
  BY <1>2 DEF Init
<1> QED
  BY <1>4, <1>5, <1>6, <1>7, <1>8, <1>9 DEF IndInv

\* Every step keeps IndInv.
LEMMA NextInv == IndInv /\ [Next]_vars => IndInv'
<1> SUFFICES ASSUME IndInv, [Next]_vars PROVE IndInv'
  OBVIOUS
<1>1. CASE UNCHANGED vars
  <2>1. UNCHANGED <<up, disk, killed, now, faults, execVars, brokerVars, history>>
    BY <1>1 DEF vars
  <2>2. WorldInv'
    BY <2>1, Frame DEF world, execVars
  <2>3. TypeOK'
    BY <2>1 DEF IndInv, TypeOK, execVars, brokerVars, history
  <2>4. ProcessInv'
    BY <2>1 DEF IndInv, ProcessInv, MemoryIsDurable, execVars, Started, Unresolved
  <2> QED
    BY <2>2, <2>3, <2>4, Parts, PTL
<1>2. CASE Next
  BY <1>2, StartInv, OnBookInv, OnFillInv, SetLedgerCompleteInv, TickStartInv, TickStepInv,
     GwSendInv, SendOutcomeInv, CrashInv, ExitInv, RestartInv, BrokerFillInv, BrokerDropInv,
     LateArriveInv, KillInv, AdvanceInv DEF Next, Tick, Environment
<1> QED
  BY <1>1, <1>2

\* IndInv holds throughout every behaviour of the executor.
THEOREM Invariance == Spec => []IndInv
BY InitInv, NextInv, PTL DEF Spec

\* Every variable keeps its type; in particular no Tick exceeds its step bound.
THEOREM TypeCorrect == Spec => []TypeOK
<1>1. IndInv => TypeOK
  BY DEF IndInv
<1> QED
  BY <1>1, Invariance, PTL

\* The write-ahead rule of Tick and send, for every intent and any number of
\* crashes, lost requests and failed journal writes: gw.Send is never called
\* while an earlier request's fate is unknown.
THEOREM WriteAhead == Spec => []NoBlindSend
<1>1. IndInv => NoBlindSend
  BY DEF IndInv, GatewayInv
<1> QED
  BY <1>1, Invariance, PTL

\* No idempotency key reaches the gateway twice (sentKey, decide's numbering).
THEOREM KeysAreFresh == Spec => []KeyUsedOnce
<1>1. IndInv => KeyUsedOnce
  BY DEF IndInv, GatewayInv
<1> QED
  BY <1>1, Invariance, PTL

\* Memory never runs ahead of the journal (commit).
THEOREM JournalIsCurrent == Spec => []MemoryIsDurable
<1>1. IndInv => MemoryIsDurable
  BY DEF IndInv, ProcessInv
<1> QED
  BY <1>1, Invariance, PTL

\* The broker never works or fills at a price worse than the intent's limit,
\* even where requests arrive late (Cap, Apply's price check).
THEOREM LimitHolds == Spec => []LimitRespected
<1>1. IndInv => LimitRespected
  BY DEF IndInv, PriceInv
<1> QED
  BY <1>1, Invariance, PTL

\* With a gateway that never delivers a request after its Send failed and its
\* reconcile answered, at most one order is live (Order).
THEOREM OneOrder == ~LateDelivery => (Spec => []OneLiveOrder)
<1> SUFFICES ASSUME ~LateDelivery PROVE Spec => []OneLiveOrder
  OBVIOUS
<1>1. IndInv => OneLiveOrder
  BY DEF IndInv, BrokerInv
<1> QED
  BY <1>1, Invariance, PTL

\* With such a gateway, executed and open quantity stay within the target
\* (Remaining, Overfill).
THEOREM TargetHolds == ~LateDelivery => (Spec => []NoOverfill)
<1> SUFFICES ASSUME ~LateDelivery PROVE Spec => []NoOverfill
  OBVIOUS
<1>1. IndInv => NoOverfill
  BY DEF IndInv, QuantityInv
<1> QED
  BY <1>1, Invariance, PTL

\* With such a gateway, a finished intent has nothing working at the broker
\* (RecFinish, resolveCancel).
THEOREM FlatWhenDone == ~LateDelivery => (Spec => []DoneMeansFlat)
<1> SUFFICES ASSUME ~LateDelivery PROVE Spec => []DoneMeansFlat
  OBVIOUS
<1>1. IndInv => DoneMeansFlat
  <2> SUFFICES ASSUME IndInv, disk.done # "", NEW o \in live PROVE FALSE
    BY DEF DoneMeansFlat
  <2>1. ~HasOrder(disk) /\ ~Unresolved(disk)
    BY DEF IndInv, JournalOK
  <2>2. o.key = disk.order.key \/ o.key = disk.inFlight.key
    BY DEF IndInv, BrokerInv
  <2> QED
    BY <2>1, <2>2, Keys
<1> QED
  BY <1>1, Invariance, PTL
-----------------------------------------------------------------------------
\* The steps of the executor, by what they do to the journal and the broker.

\* Nothing happens to either; memory keeps its state, loses it, or is read back.
Quiet ==
    /\ UNCHANGED <<disk, brokerVars, requested>>
    /\ mem' \in {mem, disk, Fresh}

\* A record is committed that makes n of the journal's state: it is in memory and
\* on disk, or the append failed and an error is latched.
Journaled(n) ==
    /\ up /\ err = "" /\ mem = disk /\ n \in State
    /\ UNCHANGED <<brokerVars, requested>>
    /\ disk' \in {disk, n} /\ mem' \in {disk, n}
    /\ err' = "" => mem' = n /\ disk' = n

\* Execution i as a fill record, and order o as a view of the broker.
FillAt(i) == [id |-> i, key |-> execs[i].key, qty |-> execs[i].qty, price |-> execs[i].price]
ViewOf(o) == [order |-> o, filled |-> brokerQty]

\* One kind of record each: what it needs and what it makes of the state.
JournalStarts == \E in \in Intents : StartApplies(disk, in) /\ Journaled(AfterStart(in))
JournalFills ==
    \E i \in DOMAIN execs : FillApplies(disk, FillAt(i)) /\ Journaled(AfterFill(disk, FillAt(i)))
JournalReconciles ==
    \E o \in ViewOrders :
        /\ Unresolved(disk) /\ ReconcileApplies(disk, ViewOf(o))
        /\ Journaled(AfterReconcile(disk, ViewOf(o), RequireLedgerComplete))
JournalFinishes ==
    \E r \in Reasons : 
        /\ RequireLedgerComplete => ledgerComplete
        /\ pc = "tick" /\ FinishApplies(disk, r) /\ Journaled(AfterFinish(disk, r))
JournalSends ==
    \E d \in {Decide(disk, top, now, killed)} :
        /\ SendShape(disk, d) /\ SendCommits(d.child) /\ SendApplies(disk, d.child)
        /\ Journaled(AfterSend(disk, d.child, d.reason, now))
JournalOutcomes ==
    /\ pc = "answer" /\ Unresolved(disk)
    /\ Journaled(AfterOutcome(disk, answer, RequireLedgerComplete))

\* commit does what Journaled says.
LEMMA CommitJournals ==
    ASSUME IndInv, up, err = "", NEW n \in State, NEW ok \in BOOLEAN, NEW onDisk \in BOOLEAN,
           Commit(n, ok, onDisk), UNCHANGED <<brokerVars, requested>>
    PROVE  Journaled(n)
<1>1. mem = disk
  BY DEF IndInv, ProcessInv, MemoryIsDurable
<1> QED
  BY <1>1 DEF Commit, Journaled

\* Every step is of one of these kinds.
LEMMA StepKinds ==
    ASSUME IndInv, [Next]_vars
    PROVE  \/ Quiet \/ BrokerFill \/ BrokerDrop \/ LateArrive \/ GwSend
           \/ JournalStarts \/ JournalFills \/ JournalReconciles \/ JournalFinishes
           \/ JournalSends \/ JournalOutcomes
<1>1. disk \in State /\ JournalOK(disk) /\ PricesOK(disk) /\ now \in Nat /\ top \in Top
      /\ killed \in BOOLEAN /\ brokerQty \in Nat /\ live \subseteq Working
  BY DEF IndInv, TypeOK
<1>2. up /\ err = "" => mem = disk
  BY DEF IndInv, ProcessInv, MemoryIsDurable
<1>3. CASE UNCHANGED vars
  BY <1>3 DEF vars, Quiet, execVars, history
<1>4. CASE \/ OnBook \/ SetLedgerComplete \/ TickStart \/ Crash \/ Exit \/ Restart
           \/ EngageKill \/ ReleaseKill \/ Advance
  BY <1>4 DEF OnBook, SetLedgerComplete, TickStart, Crash, Exit, ProcessEnds, Restart,
              EngageKill, ReleaseKill, Advance, Quiet, execVars, history
<1>5. CASE Start
  <2>1. PICK in \in Intents, ok \in BOOLEAN, onDisk \in BOOLEAN :
          StartApplies(mem, in) /\ Commit(AfterStart(in), ok, onDisk)
    BY <1>5 DEF Start
  <2>2. up /\ err = "" /\ UNCHANGED <<brokerVars, requested>>
    BY <1>5 DEF Start, Idle, history
  <2>3. AfterStart(in) \in State
    BY <2>1, StartOK, ExecutorAssumption DEF StartApplies
  <2>4. Journaled(AfterStart(in))
    BY <2>1, <2>2, <2>3, CommitJournals
  <2> QED
    BY <1>2, <2>1, <2>2, <2>4 DEF JournalStarts
<1>6. CASE OnFill
  <2>1. PICK i \in DOMAIN execs, ok \in BOOLEAN, onDisk \in BOOLEAN :
          FillApplies(mem, FillAt(i)) /\ Commit(AfterFill(mem, FillAt(i)), ok, onDisk)
    BY <1>6, Zenon DEF OnFill, FillAt
  <2>2. up /\ err = "" /\ UNCHANGED <<brokerVars, requested>>
    BY <1>6 DEF OnFill, Idle, history
  <2>3. i \in Nat /\ execs[i].qty \in Nat /\ Started(disk)
    <3>1. execs \in Seq(Execution)
      BY DEF IndInv, TypeOK
    <3>2. i \in Nat /\ execs[i] \in Execution
      BY <3>1
    <3> QED
      BY <1>2, <2>1, <2>2, <3>2 DEF Execution, FillApplies
  <2>4. AfterFill(disk, FillAt(i)) \in State
    BY <1>1, <2>3, FillOK DEF FillAt
  <2>5. Journaled(AfterFill(disk, FillAt(i)))
    BY <1>2, <2>1, <2>2, <2>4, CommitJournals
  <2> QED
    BY <1>2, <2>1, <2>2, <2>5 DEF JournalFills
<1>7. CASE SendOutcome
  <2>1. up /\ pc = "answer" /\ err = "" /\ mem = disk /\ UNCHANGED <<brokerVars, requested>>
    BY <1>7, InTick DEF SendOutcome
  <2>2. Unresolved(disk) /\ Started(disk)
    BY <1>7, <2>1 DEF SendOutcome, OutcomeApplies
  <2>3. AfterOutcome(disk, answer, RequireLedgerComplete) \in State
    BY <1>1, <2>2, OutcomeOK, ConfigAssumption
  <2>4. PICK ok \in BOOLEAN, onDisk \in BOOLEAN :
          Commit(AfterOutcome(disk, answer, RequireLedgerComplete), ok, onDisk)
    BY <1>7, <2>1 DEF SendOutcome
  <2> QED
    BY <2>1, <2>2, <2>3, <2>4, CommitJournals DEF JournalOutcomes
<1>8. CASE TickStep
  <2> DEFINE d == Decide(disk, top, now, killed)
  <2>1. up /\ pc = "tick" /\ mem = disk /\ err = ""
    BY <1>8, InTick DEF TickStep
  <2>2. TickNothing(d) \/ TickQueryFails(d) \/ TickQuery(d) \/ TickFinish(d) \/ TickSend(d)
    BY <1>8, <2>1 DEF TickStep, Decision
  <2>3. \/ d = Nothing
        \/ d = Query /\ Unresolved(disk)
        \/ d.kind = "finish" /\ d.reason \in Reasons \cup {""}
        \/ SendShape(disk, d)
    BY <1>1, DecideForms, Zenon
  <2>4. d \in {Decide(disk, top, now, killed)}
    OBVIOUS
  <2> HIDE DEF d
  <2>5. /\ d.kind = "query" => Unresolved(disk)
        /\ d.kind = "finish" => d.reason \in Reasons \cup {""}
        /\ d.kind = "send" => SendShape(disk, d)
    <3>1. Nothing.kind = "none" /\ Query.kind = "query" /\ (SendShape(disk, d) => d.kind = "send")
      BY DEF Nothing, Query, SendShape
    <3>2. CASE d = Nothing
      BY <3>1, <3>2
    <3>3. CASE d = Query /\ Unresolved(disk)
      BY <3>1, <3>3
    <3>4. CASE d.kind = "finish" /\ d.reason \in Reasons \cup {""}
      BY <3>4
    <3>5. CASE SendShape(disk, d)
      BY <3>1, <3>5
    <3> QED
      BY <2>3, <3>2, <3>3, <3>4, <3>5
  <2>6. CASE TickNothing(d) \/ TickQueryFails(d)
    BY <2>6 DEF TickNothing, TickQueryFails, Quiet, history
  <2>7. CASE TickQuery(d)
    <3>1. UNCHANGED <<brokerVars, requested>> /\ Unresolved(disk)
      BY <2>5, <2>7 DEF TickQuery
    <3>2. CASE UNCHANGED <<mem, disk, err, faults, unanswered>>
      BY <3>1, <3>2 DEF Quiet
    <3>3. ASSUME NEW o \in ViewOrders, ReconcileApplies(mem, ViewOf(o)),
                 NEW ok \in BOOLEAN, NEW onDisk \in BOOLEAN,
                 Commit(AfterReconcile(mem, ViewOf(o), RequireLedgerComplete), ok, onDisk)
          PROVE  JournalReconciles
      <4>1. o \in Order
        <5>1. \A w \in Working : [key |-> w.key, price |-> w.price, qty |-> w.open] \in Order
          BY DEF Working, Order
        <5> QED
          BY <1>1, <3>3, <5>1, NoOrderTyped DEF ViewOrders
      <4>2. o # NoOrder => o.key >= 1
        <5>1. \A w \in live : w.key >= 1
          BY Keys
        <5> QED
          BY <3>3, <5>1 DEF ViewOrders
      <4>3. Started(disk)
        BY <2>1, <3>3 DEF ReconcileApplies
      <4>4. AfterReconcile(disk, ViewOf(o), RequireLedgerComplete) \in State
        BY <1>1, <3>1, <4>1, <4>2, <4>3, ReconcileOK, ConfigAssumption DEF ViewOf
      <4> QED
        BY <2>1, <3>1, <3>3, <4>4, CommitJournals DEF JournalReconciles
    <3> QED
      BY <2>7, <3>2, <3>3, Zenon DEF TickQuery, ViewOf
  <2>8. CASE TickFinish(d)
    <3>1. UNCHANGED <<brokerVars, requested>> /\ d.reason \in Reasons \cup {""}
      BY <2>5, <2>8 DEF TickFinish, history
    <3>2. CASE UNCHANGED <<mem, disk, faults>>
      BY <3>1, <3>2 DEF Quiet
    <3>3. ASSUME ~(RequireLedgerComplete /\ ~ledgerComplete), FinishApplies(mem, d.reason),
                 NEW ok \in BOOLEAN, NEW onDisk \in BOOLEAN,
                 Commit(AfterFinish(mem, d.reason), ok, onDisk)
          PROVE  JournalFinishes
      <4>1. AfterFinish(disk, d.reason) \in State /\ d.reason \in Reasons
        BY <1>1, <2>1, <3>1, <3>3, FinishOK DEF FinishApplies
      <4> QED
        BY <2>1, <3>1, <3>3, <4>1, CommitJournals DEF JournalFinishes
    <3> QED
      BY <2>8, <3>2, <3>3, Zenon DEF TickFinish
  <2>9. CASE TickSend(d)
    <3>1. UNCHANGED <<brokerVars, requested>> /\ SendShape(disk, d)
      BY <2>5, <2>9 DEF TickSend, history
    <3>2. CASE UNCHANGED <<mem, disk, err, faults>>
      BY <3>1, <3>2 DEF Quiet
    <3>3. ASSUME SendCommits(d.child), NEW ok \in BOOLEAN, NEW onDisk \in BOOLEAN,
                 Commit(AfterSend(mem, d.child, d.reason, now), ok, onDisk)
          PROVE  JournalSends
      <4>1. SendApplies(disk, d.child)
        BY <2>1, <3>3 DEF SendCommits
      <4>2. AfterSend(disk, d.child, d.reason, now) \in State
        BY <1>1, <3>1, <4>1, SendOK
      <4> QED
        BY <2>1, <2>4, <3>1, <3>3, <4>1, <4>2, CommitJournals DEF JournalSends
    <3> QED
      BY <2>9, <3>2, <3>3, Zenon DEF TickSend
  <2> QED
    BY <2>2, <2>6, <2>7, <2>8, <2>9
<1> QED
  BY <1>3, <1>4, <1>5, <1>6, <1>7, <1>8 DEF Next, Tick, Environment

-----------------------------------------------------------------------------
\* Fills.

\* Only a fill record touches the fills and their count.
SameFills(n, s) == n.fills = s.fills /\ n.filled = s.filled

\* RecOutcome changes nothing, or resolves the child with an order or a halt.
LEMMA OutcomeForms ==
    ASSUME NEW s, NEW status, NEW defer
    PROVE  \/ AfterOutcome(s, status, defer) = s
           \/ \E o, h : AfterOutcome(s, status, defer) \in
                {Resolved(ResolveCancel([s EXCEPT !.order = o], defer)),
                 Resolved([s EXCEPT !.order = o]), Resolved([s EXCEPT !.halt = h])}
<1>1. CASE ~Definite(s.inFlight, status)
  BY <1>1 DEF AfterOutcome, Definite
<1>2. CASE status = "accepted" /\ s.inFlight.action = "cancel"
  BY <1>2 DEF AfterOutcome, Definite
<1>3. CASE status = "accepted" /\ s.inFlight.action # "cancel"
  BY <1>3 DEF AfterOutcome, Definite
<1>4. CASE status = "refused" /\ s.inFlight.action # "cancel"
  BY <1>4 DEF AfterOutcome, Definite
<1> QED
  BY <1>1, <1>2, <1>3, <1>4 DEF Definite

\* The other records leave them alone.
LEMMA FillsKept ==
    ASSUME NEW s \in State, NEW c, NEW r, NEW at, NEW v, NEW status, NEW defer \in BOOLEAN
    PROVE  /\ SameFills(AfterSend(s, c, r, at), s)
           /\ SameFills(AfterFinish(s, r), s)
           /\ SameFills(AfterReconcile(s, v, defer), s)
           /\ SameFills(AfterOutcome(s, status, defer), s)
<1>1. SameFills(AfterSend(s, c, r, at), s) /\ SameFills(AfterFinish(s, r), s)
  BY DEF AfterSend, AfterFinish, State, SameFills
<1>2. \A o, b : LET e == [s EXCEPT !.order = o, !.brokerFilled = b] IN
                SameFills(Resolved(ResolveCancel(e, defer)), s) /\ SameFills(Resolved(e), s)
  BY DEF State, Resolved, ResolveCancel, SameFills
<1>3. SameFills(AfterReconcile(s, v, defer), s)
  BY <1>2 DEF AfterReconcile
<1>4. \A o, h : /\ SameFills(Resolved(ResolveCancel([s EXCEPT !.order = o], defer)), s)
                /\ SameFills(Resolved([s EXCEPT !.order = o]), s)
                /\ SameFills(Resolved([s EXCEPT !.halt = h]), s)
  BY DEF State, Resolved, ResolveCancel, SameFills
<1>5. SameFills(AfterOutcome(s, status, defer), s)
  <2>1. CASE AfterOutcome(s, status, defer) = s
    BY <2>1 DEF SameFills
  <2>2. CASE AfterOutcome(s, status, defer) # s
    <3>1. PICK o, h : AfterOutcome(s, status, defer) \in
             {Resolved(ResolveCancel([s EXCEPT !.order = o], defer)),
              Resolved([s EXCEPT !.order = o]), Resolved([s EXCEPT !.halt = h])}
      BY <2>2, OutcomeForms, Zenon
    <3> QED
      BY <1>4, <3>1, Zenon
  <2> QED
    BY <2>1, <2>2
<1> QED
  BY <1>1, <1>3, <1>5

\* The quantities of the executions.
ExecQty == [i \in DOMAIN execs |-> execs[i].qty]

\* The fills s counts are executions of the broker, each counted once.
FillsOK(s) == s.fills \subseteq DOMAIN execs /\ s.filled = SumFunctionOnSet(ExecQty, s.fills)

\* So it is in memory and in the journal: filled never counts a fill twice.
FillsInv == FillsOK(mem) /\ FillsOK(disk)

\* Executions are finitely many quantities.
LEMMA ExecQtys ==
    ASSUME execs \in Seq(Execution)
    PROVE  /\ IsFiniteSet(DOMAIN execs)
           /\ \A i \in DOMAIN execs : ExecQty[i] = execs[i].qty /\ ExecQty[i] \in Nat
<1>1. Len(execs) \in Nat /\ DOMAIN execs = 1 .. Len(execs)
  OBVIOUS
<1>2. IsFiniteSet(1 .. Len(execs))
  BY <1>1, FS_Interval
<1>3. \A i \in DOMAIN execs : execs[i] \in Execution
  OBVIOUS
<1> QED
  BY <1>1, <1>2, <1>3 DEF ExecQty, Execution

\* The empty count, of a new intent and of an empty journal.
LEMMA NoFills ==
    ASSUME NEW in, NEW cap, NEW target
    PROVE  FillsOK(NewState(in, cap, target))
<1>1. NewState(in, cap, target).fills = {} /\ NewState(in, cap, target).filled = 0
  BY DEF NewState
<1>2. SumFunctionOnSet(ExecQty, {}) = 0
  BY FS_EmptySet, SumChosen
<1> QED
  BY <1>1, <1>2 DEF FillsOK

\* Counting another fill.
LEMMA FillCounted ==
    ASSUME IndInv, NEW s \in State, FillsOK(s), NEW i \in DOMAIN execs, FillApplies(s, FillAt(i))
    PROVE  FillsOK(AfterFill(s, FillAt(i)))
<1>1. execs \in Seq(Execution)
  BY DEF IndInv, TypeOK
<1>2. /\ AfterFill(s, FillAt(i)).fills = s.fills \cup {i}
      /\ AfterFill(s, FillAt(i)).filled = s.filled + execs[i].qty
      /\ i \notin s.fills
  BY DEF AfterFill, FillAt, FillApplies, State
<1>3. IsFiniteSet(s.fills) /\ s.fills \subseteq DOMAIN execs
  BY <1>1, ExecQtys, FS_Subset DEF FillsOK
<1>4. \A j \in s.fills \cup {i} : ExecQty[j] \in Nat
  BY <1>1, <1>3, ExecQtys
<1>5. SumFunctionOnSet(ExecQty, s.fills \cup {i}) = ExecQty[i] + SumFunctionOnSet(ExecQty, s.fills)
  BY <1>2, <1>3, <1>4, SumAdd
<1>6. SumFunctionOnSet(ExecQty, s.fills) \in Int
  BY <1>3, <1>4, SumType
<1>7. ExecQty[i] = execs[i].qty /\ ExecQty[i] \in Nat
  BY <1>1, ExecQtys
<1> HIDE DEF FillApplies
<1> QED
  BY <1>2, <1>3, <1>5, <1>6, <1>7 DEF FillsOK

\* A new execution changes no earlier one.
LEMMA FillsStay ==
    ASSUME IndInv, NEW e \in Execution, execs' = Append(execs, e), NEW s, FillsOK(s)
    PROVE  s.fills \subseteq DOMAIN execs' /\ s.filled = SumFunctionOnSet(ExecQty', s.fills)
<1>1. execs \in Seq(Execution)
  BY DEF IndInv, TypeOK
<1>2. DOMAIN execs \subseteq DOMAIN execs' /\ \A i \in DOMAIN execs : execs'[i] = execs[i]
  BY <1>1
<1>3. IsFiniteSet(s.fills) /\ s.fills \subseteq DOMAIN execs
  BY <1>1, ExecQtys, FS_Subset DEF FillsOK
<1>4. \A i \in s.fills : ExecQty[i] \in Int /\ (ExecQty')[i] = ExecQty[i]
  <2>1. \A i \in DOMAIN execs : (ExecQty')[i] = ExecQty[i]
    BY <1>2 DEF ExecQty
  <2> QED
    BY <1>1, <1>3, <2>1, ExecQtys
<1>5. SumFunctionOnSet(ExecQty', s.fills) = SumFunctionOnSet(ExecQty, s.fills)
  BY <1>3, <1>4, SumSame
<1> QED
  BY <1>2, <1>3, <1>5 DEF FillsOK

\* Every step keeps FillsInv.
LEMMA FillsStep ==
    ASSUME IndInv, FillsInv, [Next]_vars PROVE FillsInv'
<1>1. disk \in State /\ mem \in State
  BY DEF IndInv, TypeOK
<1>2. FillsOK(Fresh)
  BY NoFills DEF Fresh
<1>3. CASE Quiet
  BY <1>2, <1>3 DEF Quiet, brokerVars, FillsInv, FillsOK, ExecQty
<1>4. ASSUME NEW n, Journaled(n), FillsOK(n) PROVE FillsInv'
  BY <1>4 DEF Journaled, brokerVars, FillsInv, FillsOK, ExecQty
<1>5. ASSUME NEW n, SameFills(n, disk) PROVE FillsOK(n)
  BY <1>5 DEF FillsInv, FillsOK, SameFills
<1>6. CASE JournalStarts
  BY <1>4, <1>6, NoFills DEF JournalStarts, AfterStart
<1>7. CASE JournalFills
  BY <1>1, <1>4, <1>7, FillCounted DEF JournalFills, FillsInv
<1>8. CASE JournalReconciles \/ JournalFinishes \/ JournalSends \/ JournalOutcomes
  BY <1>1, <1>4, <1>5, <1>8, FillsKept, ConfigAssumption
     DEF JournalReconciles, JournalFinishes, JournalSends, JournalOutcomes
<1>9. CASE BrokerDrop \/ LateArrive \/ GwSend
  BY <1>9 DEF BrokerDrop, LateArrive, GwSend, execVars, FillsInv, FillsOK, ExecQty
<1>10. CASE BrokerFill
  <2>1. PICK o \in live : \E q \in 1 .. o.open :
          /\ execs' = Append(execs, [key |-> o.key, qty |-> q, price |-> o.price])
          /\ UNCHANGED <<disk, mem>>
    BY <1>10 DEF BrokerFill, execVars
  <2>2. PICK q \in 1 .. o.open :
          /\ execs' = Append(execs, [key |-> o.key, qty |-> q, price |-> o.price])
          /\ UNCHANGED <<disk, mem>>
    BY <2>1
  <2>3. o \in Working
    BY DEF IndInv, TypeOK
  <2>4. [key |-> o.key, qty |-> q, price |-> o.price] \in Execution
    BY <2>3 DEF Working, Execution
  <2> QED
    BY <2>2, <2>4, FillsStay DEF FillsInv, FillsOK
<1> QED
  BY <1>3, <1>6, <1>7, <1>8, <1>9, <1>10, StepKinds

\* No fill is lost or counted twice, in whatever order and however often fills
\* are delivered and across restarts (OnFill, Apply of RecFill).
THEOREM FillsAreCountedOnce == Spec => []FillsCountedOnce
<1>1. Init => FillsInv
  BY NoFills DEF Init, FillsInv, Fresh
<1>2. FillsInv => FillsCountedOnce
  BY DEF FillsInv, FillsOK, FillsCountedOnce, ExecQty
<1> QED
  BY <1>1, <1>2, Invariance, FillsStep, PTL DEF Spec

-----------------------------------------------------------------------------
\* The ledger's completeness.

\* Where finishing is deferred, only a finish record sets done.
LEMMA DoneKept ==
    ASSUME NEW s \in State
    PROVE  /\ \A c, r, at : AfterSend(s, c, r, at).done = s.done
           /\ \A v : AfterReconcile(s, v, TRUE).done = s.done
           /\ \A status : AfterOutcome(s, status, TRUE).done = s.done
<1>1. \A c, r, at : AfterSend(s, c, r, at).done = s.done
  BY DEF AfterSend, State
<1>2. \A o, b : LET e == [s EXCEPT !.order = o, !.brokerFilled = b] IN
                Resolved(ResolveCancel(e, TRUE)).done = s.done /\ Resolved(e).done = s.done
  BY DEF State, Resolved, ResolveCancel
<1>3. \A v : AfterReconcile(s, v, TRUE).done = s.done
  BY <1>2 DEF AfterReconcile
<1> DEFINE Same(n) == n.done = s.done
<1>4. \A o, h : /\ Same(Resolved(ResolveCancel([s EXCEPT !.order = o], TRUE)))
                /\ Same(Resolved([s EXCEPT !.order = o]))
                /\ Same(Resolved([s EXCEPT !.halt = h]))
  BY DEF State, Resolved, ResolveCancel
<1>5. ASSUME NEW status PROVE Same(AfterOutcome(s, status, TRUE))
  <2>1. CASE AfterOutcome(s, status, TRUE) = s
    BY <2>1
  <2>2. CASE AfterOutcome(s, status, TRUE) # s
    <3>1. PICK o, h : AfterOutcome(s, status, TRUE) \in
             {Resolved(ResolveCancel([s EXCEPT !.order = o], TRUE)),
              Resolved([s EXCEPT !.order = o]), Resolved([s EXCEPT !.halt = h])}
      BY <2>2, OutcomeForms, Zenon
    <3> HIDE DEF Same
    <3> QED
      BY <1>4, <3>1, Zenon
  <2> QED
    BY <2>1, <2>2
<1> QED
  BY <1>1, <1>3, <1>5

\* The executor may act on the ledger's completeness.
Complete == ledgerComplete /\ err = "" /\ pc # "answer"

\* What SetLedgerComplete saw stays true until a request is made, and then the
\* live runner's executor forgets it; so what it finishes on is true.
LedgerInv ==
    RequireLedgerComplete =>
        /\ Complete => live = {} /\ LedgerAgreesWith(disk)
        /\ disk.done # "" => LedgerAgreesWith(disk)

\* Only SetLedgerComplete makes the executor take the ledger for complete.
LEMMA CompleteKept ==
    ASSUME IndInv, [Next]_vars, RequireLedgerComplete, Complete'
    PROVE  Complete \/ SetLedgerComplete
<1>1. CASE UNCHANGED vars
  BY <1>1 DEF vars, execVars, Complete
<1>2. CASE Start \/ OnFill
  BY <1>2 DEF Start, OnFill, Idle, Complete
<1>3. CASE OnBook \/ TickStart \/ EngageKill \/ ReleaseKill \/ Advance
           \/ BrokerFill \/ BrokerDrop \/ LateArrive \/ Restart
  BY <1>3 DEF OnBook, TickStart, Idle, EngageKill, ReleaseKill, Advance, BrokerFill, BrokerDrop,
              LateArrive, Restart, execVars, Complete
<1>4. CASE Crash \/ Exit
  BY <1>4 DEF Crash, Exit, ProcessEnds, Complete
<1>5. CASE TickStep
  <2>1. pc = "tick" /\ err = ""
    BY <1>5, InTick DEF TickStep
  <2>2. ledgerComplete' = ledgerComplete
    BY <1>5 DEF TickStep, TickNothing, TickQueryFails, TickQuery, TickFinish, TickSend
  <2> QED
    BY <2>1, <2>2 DEF Complete
<1>6. CASE GwSend
  BY <1>6 DEF GwSend, Complete
<1>7. CASE SendOutcome
  BY <1>7 DEF SendOutcome, Commit, Complete
<1> QED
  BY <1>1, <1>2, <1>3, <1>4, <1>5, <1>6, <1>7 DEF Next, Tick, Environment

\* A finished intent has nothing working, if no request arrives late.
LEMMA Flat == ASSUME IndInv, ~LateDelivery PROVE DoneMeansFlat
<1> SUFFICES ASSUME disk.done # "", NEW o \in live PROVE FALSE
  BY DEF DoneMeansFlat
<1>1. ~HasOrder(disk) /\ ~Unresolved(disk)
  BY DEF IndInv, JournalOK
<1>2. o.key = disk.order.key \/ o.key = disk.inFlight.key
  BY DEF IndInv, BrokerInv
<1> QED
  BY <1>1, <1>2, Keys

\* Nothing works and every execution is counted: neither changes but by a
\* request.
LEMMA AgreementStays ==
    ASSUME IndInv, [Next]_vars, live = {}, late = {}, LedgerAgreesWith(disk)
    PROVE  LedgerAgreesWith(disk)' /\ (live' = {} \/ GwSend)
<1>1. disk \in State
  BY DEF IndInv, TypeOK
<1>2. CASE Quiet
  BY <1>2 DEF Quiet, brokerVars, LedgerAgreesWith
<1>3. CASE BrokerFill \/ BrokerDrop \/ LateArrive
  BY <1>3 DEF BrokerFill, BrokerDrop, LateArrive
<1>4. ASSUME NEW n, Journaled(n), n.fills = disk.fills
      PROVE  LedgerAgreesWith(disk)' /\ live' = {}
  BY <1>4 DEF Journaled, brokerVars, LedgerAgreesWith
<1>5. CASE JournalStarts
  <2>1. disk = Fresh
    BY <1>5 DEF JournalStarts, StartApplies, IndInv, JournalOK
  <2>2. \A in : AfterStart(in).fills = disk.fills
    BY <2>1 DEF AfterStart, Fresh, NewState
  <2> QED
    BY <1>4, <1>5, <2>2 DEF JournalStarts
<1>6. CASE JournalFills
  BY <1>6 DEF JournalFills, FillApplies, FillAt, LedgerAgreesWith
<1>7. CASE JournalReconciles \/ JournalFinishes \/ JournalSends \/ JournalOutcomes
  BY <1>1, <1>4, <1>7, FillsKept, ConfigAssumption
     DEF JournalReconciles, JournalFinishes, JournalSends, JournalOutcomes, SameFills
<1>8. CASE GwSend
  BY <1>8 DEF GwSend, LedgerAgreesWith
<1> QED
  BY <1>2, <1>3, <1>5, <1>6, <1>7, <1>8, StepKinds

\* Only a finish that the ledger allows sets done.
LEMMA DoneIsNew ==
    ASSUME IndInv, [Next]_vars, RequireLedgerComplete, disk.done = "", disk'.done # ""
    PROVE  Complete
<1>0. RequireLedgerComplete = TRUE
  BY ConfigAssumption
<1>1. disk \in State
  BY DEF IndInv, TypeOK
<1>2. CASE Quiet \/ BrokerFill \/ BrokerDrop \/ LateArrive \/ GwSend
  BY <1>2 DEF Quiet, BrokerFill, BrokerDrop, LateArrive, GwSend
<1>3. ASSUME NEW n, Journaled(n), n.done = "" PROVE FALSE
  BY <1>3 DEF Journaled
<1>4. CASE JournalStarts
  <2>1. \A in : AfterStart(in).done = ""
    BY DEF AfterStart, NewState
  <2> QED
    BY <1>3, <1>4, <2>1 DEF JournalStarts
<1>5. CASE JournalFills
  <2>1. \A f : AfterFill(disk, f).done = ""
    BY <1>1 DEF AfterFill, State
  <2> QED
    BY <1>3, <1>5, <2>1 DEF JournalFills
<1>6. CASE JournalReconciles \/ JournalSends \/ JournalOutcomes
  <2>1. /\ \A v : AfterReconcile(disk, v, TRUE).done = ""
        /\ \A c, r, at : AfterSend(disk, c, r, at).done = ""
        /\ AfterOutcome(disk, answer, TRUE).done = ""
    <3>1. /\ \A v : AfterReconcile(disk, v, TRUE).done = disk.done
          /\ \A c, r, at : AfterSend(disk, c, r, at).done = disk.done
          /\ AfterOutcome(disk, answer, TRUE).done = disk.done
      BY <1>1, DoneKept, Zenon
    <3> QED
      BY <3>1
  <2> QED
    BY <1>0, <1>3, <1>6, <2>1, Zenon DEF JournalReconciles, JournalSends, JournalOutcomes
<1>7. CASE JournalFinishes
  BY <1>7 DEF JournalFinishes, Journaled, Complete
<1> QED
  BY <1>2, <1>4, <1>5, <1>6, <1>7, StepKinds

\* Every step keeps LedgerInv.
LEMMA LedgerStep ==
    ASSUME IndInv, LedgerInv, [Next]_vars, ~LateDelivery PROVE LedgerInv'
<1> SUFFICES ASSUME RequireLedgerComplete
             PROVE  /\ Complete' => live' = {} /\ LedgerAgreesWith(disk)'
                    /\ disk'.done # "" => LedgerAgreesWith(disk)'
  BY DEF LedgerInv
<1>1. late = {}
  BY DEF IndInv, BrokerInv
<1>2. Complete => live = {} /\ LedgerAgreesWith(disk)
  BY DEF LedgerInv
<1>3. disk.done # "" => live = {} /\ LedgerAgreesWith(disk)
  BY Flat DEF LedgerInv, DoneMeansFlat
<1>4. ASSUME Complete' PROVE live' = {} /\ LedgerAgreesWith(disk)'
  <2>1. CASE Complete
    <3>1. ~GwSend
      BY <1>4 DEF GwSend, Complete
    <3> QED
      BY <1>1, <1>2, <2>1, <3>1, AgreementStays
  <2>2. CASE SetLedgerComplete
    <3>1. err = "" /\ up /\ live = {} /\ LedgerAgreesWith(mem)
      BY <1>4, <2>2 DEF SetLedgerComplete, Idle, Complete
    <3>2. mem = disk
      BY <3>1 DEF IndInv, ProcessInv, MemoryIsDurable
    <3> QED
      BY <2>2, <3>1, <3>2 DEF SetLedgerComplete, brokerVars, LedgerAgreesWith
  <2> QED
    BY <1>4, <2>1, <2>2, CompleteKept
<1>5. ASSUME disk'.done # "" PROVE LedgerAgreesWith(disk)'
  <2>1. live = {} /\ LedgerAgreesWith(disk)
    BY <1>2, <1>3, <1>5, DoneIsNew
  <2> QED
    BY <1>1, <2>1, AgreementStays
<1> QED
  BY <1>4, <1>5

\* With a gateway that never delivers a request after its Send failed and its
\* reconcile answered, the live runner's executor finishes only with every
\* execution of the broker in its journal (Tick's ErrIncomplete,
\* SetLedgerComplete).
THEOREM LedgerCompleteWhenDone == ~LateDelivery => (Spec => []DoneMeansLedgerComplete)
<1> SUFFICES ASSUME ~LateDelivery PROVE Spec => []DoneMeansLedgerComplete
  OBVIOUS
<1>1. Init => LedgerInv
  <2>1. Fresh.done = ""
    BY DEF Fresh, NewState
  <2> QED
    BY <2>1 DEF Init, LedgerInv, Complete
<1>2. LedgerInv => DoneMeansLedgerComplete
  BY DEF LedgerInv, DoneMeansLedgerComplete
<1>3. IndInv /\ LedgerInv /\ [Next]_vars => LedgerInv'
  BY LedgerStep
<1> QED
  BY <1>1, <1>2, <1>3, Invariance, PTL DEF Spec
-----------------------------------------------------------------------------
\* What decide sends is on the price grid and fits the room it saw.

\* How decide comes to an opening send: only while the intent may go on working;
\* a step of the working order, or a new order at the touch or the cap.
AmendChosen(s, d) ==
    /\ HasOrder(s) /\ AmendQty(s) >= 1 /\ Worse(s.intent, AmendCap(s), s.order.price)
    /\ d = Send(s, "amend", AmendQty(s),
                StepToward(s.intent.side, s.order.price, AmendCap(s)), "step")
    /\ E1CapsRefusal(s, d.child) = ""
SubmitChosen(s, t, d) ==
    /\ ~HasOrder(s)
    /\ \E p \in Nat \ {0} :
        /\ p \in {s.cap, t.bid, t.ask} /\ ~Worse(s.intent, p, s.cap)
        /\ FitQty(s, p) >= 1
        /\ d = Send(s, "submit", FitQty(s, p), FitPrice(s, p), "open")

\* Every opening send is chosen that way.
LEMMA OpeningChosen ==
    ASSUME NEW s \in State, IntentOK(s), NEW t \in Top, NEW n \in Nat, NEW k \in BOOLEAN,
           NEW d, d = Decide(s, t, n, k), SendShape(s, d), Opening(d.child)
    PROVE  /\ Started(s) /\ s.done = "" /\ ~Unresolved(s) /\ s.halt = "" /\ ~(Remaining(s) < 1)
           /\ AmendChosen(s, d) \/ SubmitChosen(s, t, d)
<1> DEFINE closing == Closing(s, t, n, k)
<1>1. \A r : Finish(r).kind = "finish" /\ CancelOrder(s, r).child.action = "cancel"
  BY DEF Finish, CancelOrder, Send
<1>2. Nothing.kind = "none" /\ Query.kind = "query" /\ d.kind = "send"
      /\ d.child.action # "cancel"
  BY DEF Nothing, Query, SendShape, Opening
<1>3. d # Nothing /\ d # Query /\ \A r : d # Finish(r) /\ d # CancelOrder(s, r)
  BY <1>1, <1>2
<1>4. /\ Started(s) /\ s.done = "" /\ ~Unresolved(s) /\ closing = "" /\ ~(Remaining(s) < 1)
      /\ d = IF HasOrder(s) THEN DecideStep(s, t, n) ELSE DecideOpen(s, t, n)
  BY <1>3, Zenon DEF Decide
<1>5. s.halt = ""
  <2>1. \/ closing = "filled" \/ closing = "killed" \/ closing = "deadline"
        \/ closing = "stale_book" \/ closing = s.halt
    BY Zenon DEF Closing
  <2> QED
    BY <1>4, <2>1
<1>6. CASE HasOrder(s)
  <2> DEFINE q == AmendQty(s)
             step == Send(s, "amend", q,
                          StepToward(s.intent.side, s.order.price, AmendCap(s)), "step")
  <2>1. d = DecideStep(s, t, n)
    BY <1>4, <1>6
  <2>2. /\ ~(q < 1) /\ Worse(s.intent, AmendCap(s), s.order.price) /\ d = step
        /\ E1CapsRefusal(s, step.child) = ""
    BY <1>3, <2>1, Zenon DEF DecideStep
  <2>3. q \in Int /\ ~(q < 1)
    BY <1>4, <2>2, AmendFits
  <2> HIDE DEF q, step
  <2>4. q >= 1
    BY <2>3
  <2>5. AmendChosen(s, d)
    BY <1>6, <2>2, <2>4, Zenon DEF AmendChosen, q, step
  <2> QED
    BY <1>4, <1>5, <2>5
<1>7. CASE ~HasOrder(s)
  <2> DEFINE touch == IF s.intent.side = Sell THEN t.ask ELSE t.bid
             p == IF Worse(s.intent, touch, s.cap) THEN s.cap ELSE touch
  <2>1. d = DecideOpen(s, t, n)
    BY <1>4, <1>7
  <2>2. /\ BookUsable(t, n) /\ ~(FitQty(s, p) < 1)
        /\ d = Send(s, "submit", FitQty(s, p), FitPrice(s, p), "open")
    BY <1>3, <2>1, Zenon DEF DecideOpen
  <2>3. t.bid \in Nat \ {0} /\ t.ask \in Nat \ {0}
    BY <2>2 DEF BookUsable, Top
  <2>4. s.cap \in Nat \ {0}
    <3>1. s.intent \in IntentRecord /\ Validate(s.intent) /\ s.cap = Cap(s.intent)
      BY <1>4, StateFields DEF IntentOK
    <3>2. Cap(s.intent) \in Nat /\ Cap(s.intent) >= 1
      BY <3>1, CapGrid
    <3> QED
      BY <3>1, <3>2
  <2>5. p \in Nat \ {0} /\ p \in {s.cap, t.bid, t.ask}
    BY <2>3, <2>4
  <2>6. ~Worse(s.intent, p, s.cap)
    BY <2>4 DEF Worse
  <2> HIDE DEF p
  <2>7. FitQty(s, p) \in Int
    <3>1. E1RoomNotional(s, 0) \in Nat /\ E1RoomQty(s, 0) \in Nat /\ Remaining(s) \in Int
      BY RoomTyped, RemainingTyped
    <3>2. E1RoomNotional(s, 0) \div p \in Nat /\ E1RoomNotional(s, 0) \div s.cap \in Nat
      BY <2>4, <2>5, <3>1, Quotient
    <3> QED
      BY <3>1, <3>2 DEF FitQty, Smaller
  <2>8. FitQty(s, p) >= 1
    BY <2>2, <2>7
  <2>9. SubmitChosen(s, t, d)
    BY <1>7, <2>2, <2>5, <2>6, <2>8, Zenon DEF SubmitChosen
  <2> QED
    BY <1>4, <1>5, <2>9
<1> QED
  BY <1>6, <1>7

\* So a send is at a grid price, if the book and the working order are.
LEMMA SendGrid ==
    ASSUME NEW s \in State, IntentOK(s), NEW t \in Top, NEW n \in Nat, NEW k \in BOOLEAN,
           NEW d, d = Decide(s, t, n, k), SendShape(s, d), Opening(d.child),
           Grid(s.order.price), Grid(t.bid), Grid(t.ask)
    PROVE  Grid(d.child.price)
<1>1. Started(s) /\ (AmendChosen(s, d) \/ SubmitChosen(s, t, d))
  BY OpeningChosen
<1>2. s.intent \in IntentRecord /\ Validate(s.intent) /\ s.order.price \in Nat
  BY <1>1, StateFields DEF IntentOK, Order
<1>3. s.cap \in Nat /\ s.cap >= 1 /\ Grid(s.cap)
  BY <1>1, <1>2, CapGrid DEF IntentOK
<1>4. \A a, q, p, r : Send(s, a, q, p, r).child.price = p
  BY DEF Send
<1>5. CASE AmendChosen(s, d)
  <2> DEFINE c == AmendCap(s)
  <2>1. c \in Nat /\ Grid(c) /\ (s.intent.side # Buy => c = s.cap)
        /\ Worse(s.intent, c, s.order.price)
    BY <1>1, <1>5, AmendFits DEF AmendChosen
  <2>2. d.child.price = StepToward(s.intent.side, s.order.price, c)
    <3>1. d = Send(s, "amend", AmendQty(s), StepToward(s.intent.side, s.order.price, c), "step")
      BY <1>5, Zenon DEF AmendChosen
    <3> QED
      BY <1>4, <3>1
  <2>3. s.intent.side \in Sides
    BY <1>2, CapWithinLimit
  <2> HIDE DEF c
  <2>4. /\ IF s.intent.side = Buy THEN c > s.order.price ELSE c < s.order.price
        /\ s.intent.side = Sell => c >= 1
    <3>1. s.intent.side = Sell => s.intent.side # Buy
      BY DEF Sell, Buy
    <3> QED
      BY <1>3, <2>1, <3>1 DEF Worse
  <2>5. Grid(StepToward(s.intent.side, s.order.price, c))
    BY <1>2, <2>1, <2>3, <2>4, StepGrid
  <2> QED
    BY <2>2, <2>5
<1>6. CASE SubmitChosen(s, t, d)
  <2>1. PICK p \in Nat \ {0} :
          /\ p \in {s.cap, t.bid, t.ask} /\ ~Worse(s.intent, p, s.cap)
          /\ FitQty(s, p) >= 1
          /\ d = Send(s, "submit", FitQty(s, p), FitPrice(s, p), "open")
    BY <1>6, Zenon DEF SubmitChosen
  <2>2. Grid(p)
    BY <1>3, <2>1
  <2>3. Grid(FitPrice(s, p))
    BY <1>1, <2>1, <2>2, FitFits
  <2> QED
    BY <1>4, <2>1, <2>3
<1> QED
  BY <1>1, <1>5, <1>6

\* The working order a child becomes.
ChildOrder(c) == [key |-> c.key, price |-> c.price, qty |-> c.qty]

\* The order an outcome leaves: what was there, none, or the child's.
LEMMA OutcomeOrder ==
    ASSUME NEW s \in State, NEW status, NEW defer \in BOOLEAN
    PROVE  AfterOutcome(s, status, defer).order \in {s.order, NoOrder, ChildOrder(s.inFlight)}
<1>1. \A o : /\ Resolved(ResolveCancel([s EXCEPT !.order = o], defer)).order = o
             /\ Resolved([s EXCEPT !.order = o]).order = o
             /\ Resolved([s EXCEPT !.halt = "refused"]).order = s.order
  BY DEF Resolved, ResolveCancel, State
<1>2. CASE ~Definite(s.inFlight, status)
  BY <1>2 DEF AfterOutcome, Definite
<1>3. CASE status = "accepted" /\ s.inFlight.action = "cancel"
  <2>1. AfterOutcome(s, status, defer) = Resolved(ResolveCancel([s EXCEPT !.order = NoOrder], defer))
    BY <1>3 DEF AfterOutcome, Definite
  <2> QED
    BY <1>1, <2>1
<1>4. CASE status = "accepted" /\ s.inFlight.action # "cancel"
  <2>1. AfterOutcome(s, status, defer) = Resolved([s EXCEPT !.order = ChildOrder(s.inFlight)])
    BY <1>4 DEF AfterOutcome, Definite, ChildOrder
  <2> QED
    BY <1>1, <2>1
<1>5. CASE status = "refused" /\ s.inFlight.action # "cancel"
  <2>1. AfterOutcome(s, status, defer) = Resolved([s EXCEPT !.halt = "refused"])
    BY <1>5 DEF AfterOutcome, Definite
  <2> QED
    BY <1>1, <2>1
<1> QED
  BY <1>2, <1>3, <1>4, <1>5 DEF Definite

\* The unresolved child ends the list of children.
LEMMA LastSent ==
    ASSUME NEW s \in State, JournalOK(s), Unresolved(s)
    PROVE  Len(s.sent) \in DOMAIN s.sent /\ s.inFlight = s.sent[Len(s.sent)]
<1>1. Len(s.sent) \in Nat /\ DOMAIN s.sent = 1 .. Len(s.sent)
  BY StateFields
<1>2. Len(s.sent) >= 1 /\ s.inFlight = s.sent[Len(s.sent)]
  BY DEF JournalOK
<1> QED
  BY <1>1, <1>2

\* The journal starts an intent, appends a child, or keeps both intent and
\* children and changes at most the order, to one the broker or the child names.
DiskStarts ==
    ~Started(disk) /\ \E in \in Intents : Validate(in) /\ disk' = AfterStart(in)
DiskSends ==
    \E d \in {Decide(disk, top, now, killed)} :
        /\ SendShape(disk, d) /\ SendCommits(d.child) /\ SendApplies(disk, d.child) /\ mem = disk
        /\ disk' = AfterSend(disk, d.child, d.reason, now)
DiskKeeps ==
    /\ SameBase(disk', disk)
    /\ \/ disk'.order \in {disk.order, NoOrder}
       \/ Unresolved(disk) /\ disk'.order = ChildOrder(disk.inFlight)
       \/ disk'.order \in ViewOrders

\* Every step of the executor is one of the three.
LEMMA DiskSteps ==
    ASSUME IndInv, [Next]_vars
    PROVE  DiskStarts \/ DiskSends \/ DiskKeeps
<1>1. disk \in State /\ JournalOK(disk) /\ PricesOK(disk) /\ brokerQty \in Nat
      /\ live \subseteq Working /\ execs \in Seq(Execution)
  BY DEF IndInv, TypeOK
<1>2. CASE disk' = disk
  BY <1>2 DEF DiskKeeps, SameBase
<1>3. CASE Quiet \/ BrokerFill \/ BrokerDrop \/ LateArrive \/ GwSend
  BY <1>2, <1>3 DEF Quiet, BrokerFill, BrokerDrop, LateArrive, GwSend
<1>4. ASSUME NEW n, Journaled(n), SameBase(n, disk),
             \/ n.order \in {disk.order, NoOrder}
             \/ Unresolved(disk) /\ n.order = ChildOrder(disk.inFlight)
             \/ n.order \in ViewOrders
      PROVE  DiskKeeps \/ disk' = disk
  BY <1>4 DEF Journaled, DiskKeeps
<1>5. CASE JournalStarts
  BY <1>2, <1>5 DEF JournalStarts, Journaled, DiskStarts, StartApplies
<1>6. CASE JournalSends
  BY <1>2, <1>6 DEF JournalSends, Journaled, DiskSends
<1>7. CASE JournalFills
  <2>1. PICK i \in DOMAIN execs :
          FillApplies(disk, FillAt(i)) /\ Journaled(AfterFill(disk, FillAt(i)))
    BY <1>7 DEF JournalFills
  <2>4. SameBase(AfterFill(disk, FillAt(i)), disk) /\ AfterFill(disk, FillAt(i)).order = disk.order
    <3>1. AfterFill(disk, FillAt(i)).order = disk.order
      BY <1>1 DEF AfterFill, State
    <3>2. SameBase(AfterFill(disk, FillAt(i)), disk)
      BY <1>1 DEF AfterFill, State, SameBase
    <3> QED
      BY <3>1, <3>2
  <2> QED
    BY <1>2, <1>4, <2>1, <2>4
<1>8. CASE JournalReconciles
  <2>1. PICK o \in ViewOrders :
          /\ Unresolved(disk) /\ ReconcileApplies(disk, ViewOf(o))
          /\ Journaled(AfterReconcile(disk, ViewOf(o), RequireLedgerComplete))
    BY <1>8 DEF JournalReconciles
  <2>2. o \in Order
    <3>1. \A w \in Working : [key |-> w.key, price |-> w.price, qty |-> w.open] \in Order
      BY DEF Working, Order
    <3> QED
      BY <1>1, <2>1, <3>1, NoOrderTyped DEF ViewOrders
  <2>3. o # NoOrder => o.key >= 1
    <3>1. \A w \in live : w.key >= 1
      BY Keys
    <3> QED
      BY <2>1, <3>1 DEF ViewOrders
  <2>4. Started(disk)
    BY <2>1 DEF ReconcileApplies
  <2> DEFINE n == AfterReconcile(disk, ViewOf(o), RequireLedgerComplete)
  <2>5. SameBase(n, disk) /\ n.order = o
    BY <1>1, <2>1, <2>2, <2>3, <2>4, ReconcileOK, ConfigAssumption DEF ViewOf
  <2> HIDE DEF n
  <2> QED
    BY <1>2, <1>4, <2>1, <2>5 DEF n
<1>9. CASE JournalFinishes
  <2>1. PICK r \in Reasons : FinishApplies(disk, r) /\ Journaled(AfterFinish(disk, r))
    BY <1>9 DEF JournalFinishes
  <2>2. SameBase(AfterFinish(disk, r), disk) /\ AfterFinish(disk, r).order = disk.order
    BY <1>1, <2>1, FinishOK
  <2> QED
    BY <1>2, <1>4, <2>1, <2>2
<1>10. CASE JournalOutcomes
  <2> DEFINE n == AfterOutcome(disk, answer, RequireLedgerComplete)
  <2>1. Unresolved(disk) /\ Journaled(n)
    BY <1>10 DEF JournalOutcomes
  <2>2. Started(disk)
    BY <2>1, InFlight
  <2>3. SameBase(n, disk)
    BY <1>1, <2>1, <2>2, OutcomeOK, ConfigAssumption
  <2>4. n.order \in {disk.order, NoOrder, ChildOrder(disk.inFlight)}
    BY <1>1, OutcomeOrder, ConfigAssumption
  <2> HIDE DEF n
  <2> QED
    BY <1>2, <1>4, <2>1, <2>3, <2>4
<1> QED
  BY <1>3, <1>5, <1>6, <1>7, <1>8, <1>9, <1>10, StepKinds

\* The book an executor holds is none, the last one, or one it was given.
LEMMA TopSteps ==
    ASSUME [Next]_vars
    PROVE  \/ top' \in {top, NoTop}
           \/ \E t \in Touches : top'.bid = t.bid /\ top'.ask = t.ask
<1>1. CASE OnBook
  BY <1>1 DEF OnBook
<1>2. CASE Crash \/ Exit
  BY <1>2 DEF Crash, Exit, ProcessEnds
<1>3. CASE TickStep
  BY <1>3 DEF TickStep, TickNothing, TickQueryFails, TickQuery, TickFinish, TickSend
<1>4. CASE \/ Start \/ OnFill \/ SetLedgerComplete \/ TickStart \/ GwSend \/ SendOutcome
           \/ Restart \/ BrokerFill \/ BrokerDrop \/ LateArrive \/ EngageKill \/ ReleaseKill
           \/ Advance \/ UNCHANGED vars
  BY <1>4 DEF Start, OnFill, SetLedgerComplete, TickStart, GwSend, SendOutcome, Restart, BrokerFill,
              BrokerDrop, LateArrive, EngageKill, ReleaseKill, Advance, vars, execVars
<1> QED
  BY <1>1, <1>2, <1>3, <1>4 DEF Next, Tick, Environment

-----------------------------------------------------------------------------
\* The prices of an intent's state, and its cap, are on the grid; a cancel has
\* price 0.
GridState(s) ==
    /\ IntentOK(s) /\ Grid(s.order.price)
    /\ \A i \in DOMAIN s.sent : Grid(s.sent[i].price)

\* The journal, the broker and the requests in between, all on the grid.
GridInv ==
    /\ GridState(disk) /\ Grid(top.bid) /\ Grid(top.ask)
    /\ \A o \in live \cup late : Grid(o.price)

\* The book's prices are on the grid, as an exchange's are.
GridBook == \A t \in Touches : Grid(t.bid) /\ Grid(t.ask)

\* The journal keeps its part.
LEMMA GridDisk ==
    ASSUME IndInv, GridInv, [Next]_vars PROVE GridState(disk')
<1>0. Grid(0)
  BY DEF Grid, FloorTick
<1>1. disk \in State /\ JournalOK(disk) /\ top \in Top /\ now \in Nat /\ killed \in BOOLEAN
  BY DEF IndInv, TypeOK
<1>2. CASE DiskStarts
  <2>1. PICK in \in Intents : Validate(in) /\ disk' = AfterStart(in)
    BY <1>2 DEF DiskStarts
  <2>2. /\ disk'.intent = in /\ disk'.cap = Cap(in) /\ disk'.target = TargetQty(in)
        /\ disk'.sent = <<>> /\ disk'.order = NoOrder
    BY <2>1 DEF AfterStart, NewState
  <2>3. NoOrder.price = 0 /\ DOMAIN <<>> = {}
    BY DEF NoOrder
  <2> QED
    BY <1>0, <2>1, <2>2, <2>3 DEF GridState, IntentOK
<1>3. CASE DiskKeeps
  <2>1. SameBase(disk', disk)
    BY <1>3 DEF DiskKeeps
  <2>2. IntentOK(disk') /\ \A i \in DOMAIN disk'.sent : Grid(disk'.sent[i].price)
    BY <2>1 DEF GridInv, GridState, IntentOK, SameBase, Started
  <2>3. NoOrder.price = 0
    BY DEF NoOrder
  <2>4. Unresolved(disk) => Grid(ChildOrder(disk.inFlight).price)
    <3> SUFFICES ASSUME Unresolved(disk) PROVE Grid(disk.inFlight.price)
      BY DEF ChildOrder
    <3>1. Len(disk.sent) \in DOMAIN disk.sent /\ disk.inFlight = disk.sent[Len(disk.sent)]
      BY <1>1, LastSent
    <3> QED
      BY <3>1 DEF GridInv, GridState
  <2>5. \A o \in ViewOrders : Grid(o.price)
    BY <1>0, <2>3 DEF ViewOrders, GridInv
  <2>6. Grid(disk'.order.price)
    BY <1>0, <1>3, <2>3, <2>4, <2>5 DEF DiskKeeps, GridInv, GridState
  <2> QED
    BY <2>2, <2>6 DEF GridState
<1>4. CASE DiskSends
  <2>1. PICK d : /\ d = Decide(disk, top, now, killed)
                 /\ SendShape(disk, d) /\ SendApplies(disk, d.child)
                 /\ disk' = AfterSend(disk, d.child, d.reason, now)
    BY <1>4 DEF DiskSends
  <2>2. /\ disk'.intent = disk.intent /\ disk'.cap = disk.cap /\ disk'.target = disk.target
        /\ disk'.order = disk.order /\ disk'.sent = Append(disk.sent, d.child)
    BY <1>1, <2>1 DEF AfterSend, State
  <2>3. IntentOK(disk) /\ Grid(disk.order.price)
    BY DEF GridInv, GridState
  <2>4. Grid(d.child.price)
    <3>1. CASE Opening(d.child)
      BY <1>1, <2>1, <2>3, <3>1, SendGrid DEF GridInv
    <3>2. CASE ~Opening(d.child)
      <4>1. d.child.price = 0
        BY <2>1, <3>2 DEF SendShape, Opening
      <4> QED
        BY <1>0, <4>1
    <3> QED
      BY <3>1, <3>2
  <2>5. \A i \in DOMAIN disk'.sent : Grid(disk'.sent[i].price)
    <3>1. disk.sent \in Seq(Child)
      BY <1>1, StateFields
    <3> DEFINE s2 == Append(disk.sent, d.child)
    <3>2. \A i \in DOMAIN s2 : (i \in DOMAIN disk.sent /\ s2[i] = disk.sent[i]) \/ s2[i] = d.child
      BY <3>1
    <3> HIDE DEF s2
    <3>3. \A i \in DOMAIN s2 : Grid(s2[i].price)
      BY <2>4, <3>2 DEF GridInv, GridState
    <3> QED
      BY <2>2, <3>3 DEF s2
  <2> QED
    BY <2>2, <2>3, <2>5 DEF GridState, IntentOK, Started
<1> QED
  BY <1>2, <1>3, <1>4, DiskSteps

\* The broker and the requests under way keep theirs.
LEMMA GridBroker ==
    ASSUME IndInv, GridInv, [Next]_vars PROVE \A o \in live' \cup late' : Grid(o.price)
<1>1. live \subseteq Working /\ late \subseteq Child
  BY DEF IndInv, TypeOK
<1>2. ASSUME NEW c \in Child, Grid(c.price) PROVE \A o \in AfterBroker(c) : Grid(o.price)
  BY <1>1, <1>2, AfterBrokerForms DEF GridInv
<1>3. CASE UNCHANGED brokerVars
  BY <1>3 DEF brokerVars, GridInv
<1>4. CASE BrokerFill
  <2>1. \A o \in live' : \E w \in live : o.price = w.price
    <3>1. \A o \in live : \A q : [o EXCEPT !.open = @ - q].price = o.price
      BY <1>1 DEF Working
    <3> QED
      BY <1>4, <3>1 DEF BrokerFill
  <2> QED
    BY <1>4, <2>1 DEF BrokerFill, GridInv
<1>5. CASE BrokerDrop
  BY <1>5 DEF BrokerDrop, GridInv
<1>6. CASE LateArrive
  BY <1>1, <1>2, <1>6 DEF LateArrive, GridInv
<1>7. CASE GwSend
  <2>1. mem = disk /\ Unresolved(disk)
    BY <1>7, InTick DEF GwSend, IndInv, ProcessInv
  <2>2. disk.inFlight \in Child
    BY <2>1, InFlight
  <2>3. Grid(disk.inFlight.price)
    <3>1. disk \in State /\ JournalOK(disk)
      BY DEF IndInv, TypeOK
    <3>2. Len(disk.sent) \in DOMAIN disk.sent /\ disk.inFlight = disk.sent[Len(disk.sent)]
      BY <2>1, <3>1, LastSent
    <3> QED
      BY <3>2 DEF GridInv, GridState
  <2>4. live' \in {live, AfterBroker(disk.inFlight)} /\ late' \subseteq late \cup {disk.inFlight}
    BY <1>7, <2>1 DEF GwSend
  <2>5. \A o \in AfterBroker(disk.inFlight) : Grid(o.price)
    BY <1>2, <2>2, <2>3
  <2> QED
    BY <2>3, <2>4, <2>5 DEF GridInv
<1>8. CASE \/ Quiet \/ JournalStarts \/ JournalFills \/ JournalReconciles \/ JournalFinishes
           \/ JournalSends \/ JournalOutcomes
  BY <1>3, <1>8 DEF Quiet, JournalStarts, JournalFills, JournalReconciles, JournalFinishes,
                    JournalSends, JournalOutcomes, Journaled
<1> QED
  BY <1>4, <1>5, <1>6, <1>7, <1>8, StepKinds

\* Every price that reaches the broker is on the tick grid, after any number of
\* amends, crashes and restarts, if the book's prices are (decide, fitNewOrder,
\* the step's cap).
THEOREM PricesStayOnGrid == GridBook => (Spec => []PricesOnGrid)
<1> SUFFICES ASSUME GridBook PROVE Spec => []PricesOnGrid
  OBVIOUS
<1>0. Grid(0)
  BY DEF Grid, FloorTick
<1>1. Init => GridInv
  <2>1. /\ Fresh.intent = NoIntent /\ Fresh.order.price = 0 /\ Fresh.sent = <<>>
        /\ NoTop.bid = 0 /\ NoTop.ask = 0
    BY DEF Fresh, NewState, NoOrder, NoTop
  <2>2. GridState(Fresh)
    BY <1>0, <2>1 DEF GridState, IntentOK, Started
  <2> QED
    BY <1>0, <2>1, <2>2 DEF Init, GridInv
<1>2. GridInv => PricesOnGrid
  BY DEF GridInv, Grid, PricesOnGrid
<1>3. IndInv /\ GridInv /\ [Next]_vars => GridInv'
  <2> SUFFICES ASSUME IndInv, GridInv, [Next]_vars PROVE GridInv'
    OBVIOUS
  <2>1. Grid(top'.bid) /\ Grid(top'.ask)
    <3>1. NoTop.bid = 0 /\ NoTop.ask = 0
      BY DEF NoTop
    <3> QED
      BY <1>0, <3>1, TopSteps DEF GridInv, GridBook
  <2> QED
    BY <2>1, GridDisk, GridBroker DEF GridInv, GridState, IntentOK, Started
<1> QED
  BY <1>1, <1>2, <1>3, Invariance, PTL DEF Spec
-----------------------------------------------------------------------------
\* E1's caps at the broker.

\* The open quantity of working orders, and what sets of them sum to.
OpenOf == [o \in Working |-> o.open]
OpenIn(S) == SumFunctionOnSet(OpenOf, S)

\* Sums of open quantities: their type, their parts, one more order.
LEMMA OpenSums ==
    ASSUME NEW S \in SUBSET Working, IsFiniteSet(S)
    PROVE  /\ OpenIn(S) \in Nat
           /\ \A T \in SUBSET S : OpenIn(T) <= OpenIn(S) /\ IsFiniteSet(T)
           /\ \A o \in S : OpenIn(S) = o.open + OpenIn(S \ {o})
           /\ \A w \in Working : IsFiniteSet(S \cup {w}) /\ OpenIn(S \cup {w}) <= OpenIn(S) + w.open
<1>1. \A o \in Working : OpenOf[o] = o.open /\ OpenOf[o] \in Nat /\ OpenOf[o] \in Int
  BY DEF OpenOf, Working
<1>2. \A o \in S : OpenOf[o] \in Nat /\ OpenOf[o] \in Int /\ OpenOf[o] >= 0
  BY <1>1
<1>3. OpenIn(S) \in Nat
  BY <1>2, SumType DEF OpenIn
<1>4. \A T \in SUBSET S : OpenIn(T) <= OpenIn(S) /\ IsFiniteSet(T)
  BY <1>2, SumPart, FS_Subset DEF OpenIn
<1>5. \A o \in S : OpenIn(S) = o.open + OpenIn(S \ {o})
  BY <1>1, <1>2, SumRemove DEF OpenIn
<1>6. ASSUME NEW w \in Working
      PROVE  IsFiniteSet(S \cup {w}) /\ OpenIn(S \cup {w}) <= OpenIn(S) + w.open
  <2>1. IsFiniteSet(S \cup {w})
    BY FS_AddElement
  <2>2. CASE w \in S
    <3>1. S \cup {w} = S
      BY <2>2
    <3> QED
      BY <1>1, <1>3, <2>1, <3>1
  <2>3. CASE w \notin S
    <3>1. \A y \in S \cup {w} : OpenOf[y] \in Int
      BY <1>1
    <3>2. OpenIn(S \cup {w}) = OpenOf[w] + OpenIn(S)
      BY <2>3, <3>1, SumAdd DEF OpenIn
    <3> QED
      BY <1>1, <1>3, <2>1, <3>2
  <2> QED
    BY <2>2, <2>3
<1> QED
  BY <1>3, <1>4, <1>5, <1>6

\* Orders replaced by ones that have no more open sum to no more.
LEMMA OpenImage ==
    ASSUME NEW S \in SUBSET Working, IsFiniteSet(S), NEW f,
           \A o \in S : f[o] \in Working /\ f[o].open <= o.open
    PROVE  IsFiniteSet({f[o] : o \in S}) /\ OpenIn({f[o] : o \in S}) <= OpenIn(S)
<1> DEFINE Im(T) == {f[o] : o \in T}
           G == {T \in SUBSET S : OpenIn(Im(T)) <= OpenIn(T)}
<1>1. ASSUME NEW T \in SUBSET S, \A x \in T : T \ {x} \in G
      PROVE  T \in G
  <2>1. IsFiniteSet(T) /\ T \in SUBSET Working
    BY FS_Subset
  <2>2. CASE T = {}
    <3>1. Im(T) = T
      BY <2>2
    <3>2. OpenIn(T) \in Nat
      BY <2>1, OpenSums
    <3> HIDE DEF Im
    <3> QED
      BY <3>1, <3>2
  <2>3. CASE T # {}
    <3>1. PICK x \in T : TRUE
      BY <2>3
    <3> DEFINE R == T \ {x}
    <3>2. OpenIn(Im(R)) <= OpenIn(R)
      BY <1>1
    <3>3. Im(T) = Im(R) \cup {f[x]}
      OBVIOUS
    <3>4. f[x] \in Working /\ x \in Working /\ f[x].open <= x.open
      BY <2>1
    <3>5. Im(R) \in SUBSET Working /\ R \in SUBSET Working
      BY <2>1
    <3>6. IsFiniteSet(R) /\ IsFiniteSet(Im(R))
      <4>1. IsFiniteSet(R)
        BY <2>1, FS_Subset
      <4> HIDE DEF R
      <4>2. IsFiniteSet({f[o] : o \in R})
        BY <4>1, FiniteImage
      <4> QED
        BY <4>1, <4>2
    <3> HIDE DEF Im, R
    <3>7. OpenIn(Im(R) \cup {f[x]}) <= OpenIn(Im(R)) + f[x].open
          /\ OpenIn(Im(R)) \in Nat /\ OpenIn(R) \in Nat
      BY <3>4, <3>5, <3>6, OpenSums
    <3>8. OpenIn(T) = x.open + OpenIn(R)
      BY <2>1, OpenSums DEF R
    <3>9. f[x].open \in Nat /\ x.open \in Nat
      BY <3>4 DEF Working
    <3>10. IsFiniteSet(Im(R) \cup {f[x]}) /\ Im(R) \cup {f[x]} \in SUBSET Working
      BY <3>4, <3>5, <3>6, FS_AddElement
    <3>11. OpenIn(Im(R) \cup {f[x]}) \in Nat
      BY <3>10, OpenSums
    <3>12. OpenIn(Im(T)) <= OpenIn(T)
      BY <3>2, <3>3, <3>4, <3>7, <3>8, <3>9, <3>11
    <3> QED
      BY <3>12
  <2> QED
    BY <2>2, <2>3
<1> HIDE DEF G
<1>2. \A T \in SUBSET S : T \in G
  BY <1>1, SubsetInduction, Zenon
<1>3. S \in G
  BY <1>2
<1> QED
  BY <1>3, FiniteImage DEF G

\* A child adds no open quantity but a submit's own.
LEMMA AfterBrokerOpen ==
    ASSUME live \in SUBSET Working, IsFiniteSet(live), NEW c \in Child
    PROVE  /\ IsFiniteSet(AfterBroker(c)) /\ AfterBroker(c) \in SUBSET Working
           /\ OpenIn(AfterBroker(c)) \in Nat
           /\ OpenIn(AfterBroker(c)) <= OpenIn(live) + (IF c.action = "submit" THEN c.qty ELSE 0)
<1>1. c.key \in Nat /\ c.price \in Nat /\ c.qty \in Nat /\ OpenIn(live) \in Nat
  BY OpenSums DEF Child
<1>2. AfterBroker(c) \in SUBSET Working
  BY AfterBrokerForms
<1>3. CASE c.action = "submit"
  <2> DEFINE w == [key |-> c.key, price |-> c.price, open |-> c.qty]
  <2>1. AfterBroker(c) = live \cup {w}
    BY <1>3 DEF AfterBroker, BrokerTakes
  <2>2. w \in Working /\ w.open = c.qty
    BY <1>1 DEF Working
  <2> HIDE DEF w
  <2>3. IsFiniteSet(live \cup {w}) /\ OpenIn(live \cup {w}) <= OpenIn(live) + c.qty
    BY <2>2, OpenSums
  <2> QED
    BY <1>2, <1>3, <2>1, <2>3, OpenSums
<1>4. CASE c.action = "amend" /\ BrokerTakes(c)
  <2> DEFINE f == [o \in live |->
                     IF o.key = c.target
                     THEN [key |-> c.key, price |-> c.price, open |-> Smaller(c.qty, o.open)]
                     ELSE o]
  <2>1. AfterBroker(c) =
          (live \ {o \in live : o.key = c.target}) \cup
          {[key |-> c.key, price |-> c.price, open |-> Smaller(c.qty, o.open)] :
             o \in {o \in live : o.key = c.target}}
    BY <1>4 DEF AfterBroker
  <2>2. AfterBroker(c) = {f[o] : o \in live}
    BY <2>1
  <2>3. \A o \in live : f[o] \in Working /\ f[o].open <= o.open
    <3>1. \A a, b \in Nat : Smaller(a, b) \in Nat /\ Smaller(a, b) <= b
      BY DEF Smaller
    <3>2. \A o \in live : o.open \in Nat /\ o \in Working
      BY DEF Working
    <3>3. ASSUME NEW o \in live PROVE f[o] \in Working /\ f[o].open <= o.open
      <4>1. CASE o.key = c.target
        <5>1. f[o] = [key |-> c.key, price |-> c.price, open |-> Smaller(c.qty, o.open)]
          BY <4>1
        <5>2. Smaller(c.qty, o.open) \in Nat /\ Smaller(c.qty, o.open) <= o.open
          BY <1>1, <3>1, <3>2
        <5> QED
          BY <1>1, <5>1, <5>2 DEF Working
      <4>2. CASE o.key # c.target
        <5>1. f[o] = o
          BY <4>2
        <5> QED
          BY <3>2, <5>1
      <4> QED
        BY <4>1, <4>2
    <3> QED
      BY <3>3
  <2> HIDE DEF f
  <2>4. IsFiniteSet({f[o] : o \in live}) /\ OpenIn({f[o] : o \in live}) <= OpenIn(live)
    BY <2>3, OpenImage
  <2> QED
    BY <1>1, <1>2, <1>4, <2>2, <2>4, OpenSums
<1>5. CASE c.action # "submit" /\ ~(c.action = "amend" /\ BrokerTakes(c))
  <2>1. AfterBroker(c) \in SUBSET live
    BY <1>5 DEF AfterBroker
  <2>2. OpenIn(AfterBroker(c)) <= OpenIn(live) /\ IsFiniteSet(AfterBroker(c))
    BY <2>1, OpenSums
  <2> QED
    BY <1>1, <1>2, <1>5, <2>2, OpenSums
<1> QED
  BY <1>3, <1>4, <1>5

-----------------------------------------------------------------------------
\* What was submitted, and what it sums to.
Submits(s) == {i \in DOMAIN s.sent : s.sent[i].action = "submit"}
SentQty(s) == [i \in DOMAIN s.sent |-> s.sent[i].qty]
SentSum(s, I) == SumFunctionOnSet(SentQty(s), I)

\* The submits of an intent start lineages and fit E1's caps together.
CapsState(s) ==
    /\ \A i \in Submits(s) : s.sent[i].target = 0
    /\ SentSum(s, Submits(s)) <= s.intent.maxQuantity
    /\ SentSum(s, Submits(s)) <= Larger(InventoryRoom(s.intent), 0)

\* Sent quantities: finitely many naturals.
LEMMA SentSums ==
    ASSUME NEW s \in State
    PROVE  /\ IsFiniteSet(DOMAIN s.sent)
           /\ \A i \in DOMAIN s.sent : SentQty(s)[i] = s.sent[i].qty /\ SentQty(s)[i] \in Nat
           /\ \A I \in SUBSET DOMAIN s.sent :
                /\ IsFiniteSet(I) /\ SentSum(s, I) \in Nat
                /\ \A J \in SUBSET I : SentSum(s, J) <= SentSum(s, I)
<1>1. Len(s.sent) \in Nat /\ DOMAIN s.sent = 1 .. Len(s.sent) /\ s.sent \in Seq(Child)
  BY StateFields
<1>2. IsFiniteSet(DOMAIN s.sent)
  <2>1. 1 \in Int /\ Len(s.sent) \in Int
    BY <1>1
  <2>2. IsFiniteSet(1 .. Len(s.sent))
    BY ONLY <2>1, FS_Interval
  <2> QED
    BY <1>1, <2>2
<1>3. \A i \in DOMAIN s.sent : SentQty(s)[i] = s.sent[i].qty /\ SentQty(s)[i] \in Nat
  <2>1. \A i \in DOMAIN s.sent : s.sent[i] \in Child
    BY <1>1
  <2>2. \A c \in Child : c.qty \in Nat
    BY DEF Child
  <2> QED
    BY <2>1, <2>2 DEF SentQty
<1>4. ASSUME NEW I \in SUBSET DOMAIN s.sent
      PROVE  /\ IsFiniteSet(I) /\ SentSum(s, I) \in Nat
             /\ \A J \in SUBSET I : SentSum(s, J) <= SentSum(s, I)
  <2>1. IsFiniteSet(I)
    BY <1>2, FS_Subset
  <2>2. \A i \in I : SentQty(s)[i] \in Nat /\ SentQty(s)[i] \in Int /\ SentQty(s)[i] >= 0
    BY <1>3
  <2>3. SentSum(s, I) \in Nat
    BY <2>1, <2>2, SumType DEF SentSum
  <2>4. \A J \in SUBSET I : SentSum(s, J) <= SentSum(s, I)
    BY <2>1, <2>2, SumPart DEF SentSum
  <2> QED
    BY <2>1, <2>3, <2>4
<1> QED
  BY <1>2, <1>3, <1>4

\* E1 would take the child.
Allowed(s, c) == E1CapsRefusal(s, c) = ""

\* State n has one more child than s.
Appends(n, s, c) == n.sent = Append(s.sent, c)

\* The sums over the children sent before do not change with another one.
LEMMA SentAppend ==
    ASSUME NEW s \in State, NEW n \in State, NEW c, Appends(n, s, c)
    PROVE  /\ DOMAIN n.sent = DOMAIN s.sent \cup {Len(s.sent) + 1}
           /\ Len(s.sent) + 1 \notin DOMAIN s.sent /\ n.sent[Len(s.sent) + 1] = c
           /\ \A i \in DOMAIN s.sent : n.sent[i] = s.sent[i]
           /\ \A I \in SUBSET DOMAIN s.sent : SentSum(n, I) = SentSum(s, I)
<1>1. Len(s.sent) \in Nat /\ DOMAIN s.sent = 1 .. Len(s.sent) /\ s.sent \in Seq(Child)
  BY StateFields
<1>2. /\ DOMAIN n.sent = DOMAIN s.sent \cup {Len(s.sent) + 1}
      /\ Len(s.sent) + 1 \notin DOMAIN s.sent /\ n.sent[Len(s.sent) + 1] = c
      /\ \A i \in DOMAIN s.sent : n.sent[i] = s.sent[i]
  BY <1>1 DEF Appends
<1>3. ASSUME NEW I \in SUBSET DOMAIN s.sent PROVE SentSum(n, I) = SentSum(s, I)
  <2>1. IsFiniteSet(I)
    BY SentSums
  <2>2. \A i \in I : SentQty(s)[i] \in Int /\ SentQty(n)[i] = SentQty(s)[i]
    <3>1. \A i \in DOMAIN s.sent : SentQty(s)[i] \in Nat /\ SentQty(s)[i] = s.sent[i].qty
      BY SentSums
    <3>2. \A i \in DOMAIN s.sent : SentQty(n)[i] = n.sent[i].qty
      BY <1>2, SentSums
    <3> QED
      BY <1>2, <3>1, <3>2
  <2> QED
    BY <2>1, <2>2, SumSame DEF SentSum
<1> QED
  BY <1>2, <1>3

\* The backstop: a submit E1 would not refuse keeps all submits within the caps.
LEMMA SubmitFits ==
    ASSUME NEW s \in State, JournalOK(s), CapsState(s), s.intent.side \in Sides,
           NEW c \in Child, c.action = "submit", c.target = 0, c.key = Len(s.sent) + 1,
           Allowed(s, c),
           NEW n \in State, Appends(n, s, c)
    PROVE  /\ SentSum(n, Submits(n)) <= s.intent.maxQuantity
           /\ SentSum(n, Submits(n)) <= Larger(InventoryRoom(s.intent), 0)
<1> DEFINE new == [root |-> c.key, qty |-> c.qty, notional |-> c.qty * c.price]
           counted == Counted(s) \cup {new}
           L == Lineages(counted)
           H == [r \in L |-> HighQty(counted, r)]
           S == Submits(n)
           total == TotalQty(counted, L)
<1>1. c.qty \in Nat /\ c.qty * c.price \in Nat
  <2>1. c.qty \in Nat /\ c.price \in Nat
    BY DEF Child
  <2>2. \A a, b \in Nat : a * b \in Nat
    OBVIOUS
  <2> QED
    BY <2>1, <2>2, Zenon
<1>2. IsCounted(counted)
  <2>1. IsCounted(Counted(s))
    BY CountedTyped
  <2>2. IsFiniteSet(counted)
    BY <2>1, FS_AddElement DEF IsCounted
  <2>3. new.qty = c.qty /\ new.notional = c.qty * c.price
    OBVIOUS
  <2> HIDE DEF new
  <2> QED
    BY <1>1, <2>1, <2>2, <2>3, Zenon DEF IsCounted
<1>3. /\ DOMAIN n.sent = DOMAIN s.sent \cup {c.key} /\ n.sent[c.key] = c
      /\ c.key \notin DOMAIN s.sent
      /\ \A i \in DOMAIN s.sent : n.sent[i] = s.sent[i]
  <2> HIDE DEF new, counted, L, H, S, total
  <2> QED
    BY SentAppend
<1>4. ASSUME NEW i \in S PROVE \E e \in counted : e.root = i /\ e.qty = n.sent[i].qty
  <2>1. CASE i = c.key
    <3>1. new.root = i /\ new.qty = n.sent[i].qty /\ new \in counted
      BY <1>3, <2>1
    <3> HIDE DEF new, counted
    <3> QED
      BY <3>1
  <2>2. CASE i \in DOMAIN s.sent
    <3>1. n.sent[i] = s.sent[i] /\ s.sent[i].action = "submit" /\ i \in Submits(s)
      BY <1>3, <2>2, <1>4 DEF Submits
    <3>2. RootOf(s, s.sent[i].key) = i
      BY <2>2, <3>1, SubmitRoot DEF CapsState
    <3>3. Opening(s.sent[i])
      BY <3>1 DEF Opening
    <3> DEFINE e == [root |-> RootOf(s, s.sent[i].key), qty |-> s.sent[i].qty,
                     notional |-> s.sent[i].qty * s.sent[i].price]
    <3>4. e \in Counted(s)
      BY <2>2, <3>3 DEF Counted
    <3>5. e.root = i /\ e.qty = n.sent[i].qty
      BY <3>1, <3>2
    <3> HIDE DEF e
    <3> QED
      BY <3>4, <3>5
  <2> QED
    BY <1>3, <2>1, <2>2 DEF Submits
<1>5. total = SumFunctionOnSet(H, L) /\ total \in Nat
  BY <1>2, TotalsTyped DEF TotalQty
<1>6. S \in SUBSET DOMAIN n.sent
  BY DEF Submits
<1>7. E1CapsRefusal(s, c) =
        LET pos == IF s.intent.side = Sell THEN s.intent.position - total
                                           ELSE s.intent.position + total
        IN  IF total > s.intent.maxQuantity THEN "quantity_cap_exceeded"
            ELSE IF TotalNotional(counted, L) > s.intent.maxNotional
                 THEN "notional_cap_exceeded"
            ELSE IF pos < s.intent.minAfter \/ pos > s.intent.maxAfter
                 THEN "inventory_constraint_exceeded"
            ELSE ""
  BY DEF E1CapsRefusal
<1> HIDE DEF counted, L, H, S, total
<1>8. S \in SUBSET L /\ \A i \in S : n.sent[i].qty <= HighQty(counted, i)
  <2>1. \A i \in S : i \in L
    BY <1>4 DEF L, Lineages
  <2>2. \A i \in S : n.sent[i].qty <= HighQty(counted, i)
    BY <1>2, <1>4, <2>1, HighWater DEF L
  <2> QED
    BY <2>1, <2>2
<1>9. IsFiniteSet(L) /\ \A r \in L : H[r] = HighQty(counted, r) /\ H[r] \in Nat
  BY <1>2, LineagesFinite, HighWater DEF L, H
<1>10. SentSum(n, S) <= SumFunctionOnSet(H, S)
  <2>1. IsFiniteSet(S)
    BY <1>6, SentSums
  <2>2. \A i \in S : SentQty(n)[i] \in Int /\ H[i] \in Int /\ SentQty(n)[i] <= H[i]
    <3>1. \A i \in S : SentQty(n)[i] = n.sent[i].qty /\ SentQty(n)[i] \in Nat
      BY <1>6, SentSums
    <3>2. \A i \in S : H[i] = HighQty(counted, i) /\ H[i] \in Nat /\ n.sent[i].qty <= HighQty(counted, i)
      BY <1>8, <1>9
    <3> QED
      BY <3>1, <3>2
  <2> QED
    BY <2>1, <2>2, SumMonotone DEF SentSum
<1>11. SumFunctionOnSet(H, S) <= SumFunctionOnSet(H, L)
  BY <1>8, <1>9, SumPart
<1>12. SumFunctionOnSet(H, S) \in Int /\ SentSum(n, S) \in Nat
  <2>1. IsFiniteSet(S) /\ \A i \in S : H[i] \in Int
    <3>1. IsFiniteSet(S)
      BY <1>6, SentSums
    <3>2. \A i \in S : H[i] \in Nat
      BY <1>8, <1>9
    <3> QED
      BY <3>1, <3>2
  <2> QED
    BY <1>6, <2>1, SumType, SentSums
<1>13. SentSum(n, S) <= total
  <2>1. \A x, y, z \in Int : x <= y /\ y <= z => x <= z
    OBVIOUS
  <2>2. SentSum(n, S) \in Int /\ total \in Int
    BY <1>5, <1>12
  <2> QED
    BY <1>5, <1>10, <1>11, <1>12, <2>1, <2>2, Zenon
<1>14. /\ ~(total > s.intent.maxQuantity)
       /\ IF s.intent.side = Sell THEN ~(s.intent.position - total < s.intent.minAfter)
                                  ELSE ~(s.intent.position + total > s.intent.maxAfter)
  BY <1>7 DEF Allowed
<1>15. s.intent \in IntentRecord
  BY StateFields
<1>16. /\ s.intent.maxQuantity \in Nat /\ s.intent.position \in Nat
       /\ s.intent.minAfter \in Nat /\ s.intent.maxAfter \in Nat
  BY <1>15 DEF IntentRecord
<1>17. total <= InventoryRoom(s.intent) /\ InventoryRoom(s.intent) \in Int
  <2>1. CASE s.intent.side = Buy
    <3>1. s.intent.side # Sell
      BY <2>1 DEF Buy, Sell
    <3> QED
      BY <1>5, <1>14, <1>16, <2>1, <3>1 DEF InventoryRoom
  <2>2. CASE s.intent.side = Sell
    <3>1. s.intent.side # Buy
      BY <2>2 DEF Buy, Sell
    <3> QED
      BY <1>5, <1>14, <1>16, <2>2, <3>1 DEF InventoryRoom
  <2> QED
    BY <2>1, <2>2 DEF Sides
<1>18. SentSum(n, S) <= s.intent.maxQuantity /\ SentSum(n, S) <= InventoryRoom(s.intent)
  <2> HIDE DEF SentSum
  <2> QED
    BY <1>5, <1>12, <1>13, <1>14, <1>16, <1>17
<1>19. \A x, y \in Int : x <= y => x <= Larger(y, 0)
  BY DEF Larger
<1> QED
  BY <1>12, <1>17, <1>18, <1>19 DEF S

\* The submits that reached the broker: gw.Send was called with them and they
\* are not under way any more.
Reached == {i \in Submits(disk) : i \in requested /\ \A c \in late : c.key # i}

\* What has executed and what is open fits what reached the broker; requests
\* under way are children of the journal.
CapsInv ==
    /\ IsFiniteSet(live)
    /\ \A c \in late : c.key \in DOMAIN disk.sent /\ c = disk.sent[c.key]
    /\ CapsState(disk)
    /\ brokerQty + OpenIn(live) <= SentSum(disk, Reached)

\* The invariant bounds what the property bounds.
LEMMA CapsHold ==
    ASSUME IndInv, CapsInv PROVE WithinE1Caps
<1>1. disk \in State /\ live \in SUBSET Working /\ brokerQty \in Nat /\ IsFiniteSet(live)
  BY DEF IndInv, TypeOK, CapsInv
<1>2. OpenQty = OpenIn(live)
  <2> DEFINE g == [o \in live |-> o.open]
  <2>1. \A o \in live : OpenOf[o] \in Int /\ g[o] = OpenOf[o]
    BY <1>1 DEF OpenOf, Working
  <2>2. OpenQty = SumFunctionOnSet(g, live)
    BY DEF OpenQty
  <2> HIDE DEF g
  <2> QED
    BY <1>1, <2>1, <2>2, SumSame DEF OpenIn
<1>3. OpenIn(live) \in Nat
  BY <1>1, OpenSums
<1>4. Submits(disk) \in SUBSET DOMAIN disk.sent /\ Reached \in SUBSET Submits(disk)
  BY DEF Submits, Reached
<1>5. /\ SentSum(disk, Reached) \in Nat /\ SentSum(disk, Submits(disk)) \in Nat
      /\ SentSum(disk, Reached) <= SentSum(disk, Submits(disk))
  BY <1>1, <1>4, SentSums
<1>6. /\ SentSum(disk, Submits(disk)) <= disk.intent.maxQuantity
      /\ SentSum(disk, Submits(disk)) <= Larger(InventoryRoom(disk.intent), 0)
      /\ brokerQty + OpenIn(live) <= SentSum(disk, Reached)
  BY DEF CapsInv, CapsState
<1>7. disk.intent.maxQuantity \in Nat /\ Larger(InventoryRoom(disk.intent), 0) \in Int
  <2>1. disk.intent \in IntentRecord
    BY <1>1, StateFields
  <2>2. InventoryRoom(disk.intent) \in Int
    BY <1>1, RoomTyped
  <2> QED
    BY <2>1, <2>2 DEF IntentRecord, Larger
<1> QED
  BY <1>1, <1>2, <1>3, <1>5, <1>6, <1>7 DEF WithinE1Caps

\* The parts of CapsInv that speak of state s of the journal.
CapsOf(s) ==
    /\ \A c \in late : c.key \in DOMAIN s.sent /\ c = s.sent[c.key]
    /\ CapsState(s)
    /\ brokerQty + OpenIn(live) <=
         SentSum(s, {i \in Submits(s) : i \in requested /\ \A c \in late : c.key # i})

\* Another record of the journal keeps them.
LEMMA CapsDisk ==
    ASSUME IndInv, CapsInv, [Next]_vars PROVE CapsOf(disk')
<1>1. disk \in State /\ JournalOK(disk) /\ PricesOK(disk) /\ now \in Nat
      /\ requested \subseteq 1 .. Len(disk.sent) /\ brokerQty \in Nat /\ live \in SUBSET Working
  BY DEF IndInv, TypeOK, GatewayInv
<1>2. CapsOf(disk)
  BY DEF CapsInv, CapsOf, Reached
<1>3. ASSUME NEW n, n.sent = disk.sent PROVE Submits(n) = Submits(disk) /\ SentQty(n) = SentQty(disk)
  BY <1>3 DEF Submits, SentQty
<1>4. CASE DiskStarts
  <2>1. PICK in \in Intents : Validate(in) /\ disk' = AfterStart(in)
    BY <1>4 DEF DiskStarts
  <2>2. disk = Fresh
    BY <1>1, <1>4 DEF DiskStarts, JournalOK
  <2>3. disk.sent = <<>> /\ disk'.sent = <<>> /\ disk'.intent = in
    BY <2>1, <2>2 DEF Fresh, AfterStart, NewState
  <2>4. Submits(disk') = {} /\ late = {}
    <3>1. DOMAIN <<>> = {}
      OBVIOUS
    <3> QED
      BY <1>2, <2>3, <3>1 DEF Submits, CapsOf
  <2>5. SentSum(disk', {}) = 0
    BY FS_EmptySet, SumChosen DEF SentSum
  <2>6. in \in IntentRecord
    BY ExecutorAssumption
  <2>7. in.maxQuantity \in Nat /\ InventoryRoom(in) \in Int
    BY <2>6 DEF IntentRecord, InventoryRoom
  <2>8. CapsState(disk')
    BY <2>3, <2>4, <2>5, <2>7 DEF CapsState, Larger
  <2>9. brokerQty + OpenIn(live) <= 0
    <3>1. SentSum(disk, {}) = 0
      BY FS_EmptySet, SumChosen DEF SentSum
    <3>2. Submits(disk) = {}
      BY <1>3, <2>3, <2>4 DEF Submits
    <3> QED
      BY <1>2, <3>1, <3>2 DEF CapsOf
  <2> QED
    BY <2>4, <2>5, <2>8, <2>9 DEF CapsOf
<1>5. CASE DiskKeeps
  <2>1. disk'.sent = disk.sent /\ disk'.intent = disk.intent
    BY <1>5 DEF DiskKeeps, SameBase
  <2>2. Submits(disk') = Submits(disk) /\ SentQty(disk') = SentQty(disk)
    BY <1>3, <2>1
  <2> QED
    BY <1>2, <2>1, <2>2 DEF CapsOf, CapsState, SentSum
<1>6. CASE DiskSends
  <2>1. PICK d : /\ SendShape(disk, d) /\ SendCommits(d.child) /\ SendApplies(disk, d.child)
                 /\ mem = disk /\ disk' = AfterSend(disk, d.child, d.reason, now)
    BY <1>6 DEF DiskSends
  <2> DEFINE c == d.child
  <2>2. /\ disk' \in State /\ c.key = Len(disk.sent) + 1
        /\ disk'.intent = disk.intent /\ disk'.inFlight = c
    BY <1>1, <2>1, SendOK
  <2>3. Appends(disk', disk, c)
    BY <1>1, <2>1 DEF Appends, AfterSend, State
  <2>4. c \in Child
    BY <2>2, StateFields
  <2>5. c.action = "submit" => c.target = 0
    BY <2>1 DEF SendShape
  <2>6. c.action = "submit" => Allowed(disk, c)
    BY <2>1 DEF SendCommits, Opening, Allowed
  <2>7. Started(disk) /\ disk.intent.side \in Sides
    BY <1>1, <2>1 DEF SendApplies, PricesOK
  <2> HIDE DEF c
  <2>8. /\ DOMAIN disk'.sent = DOMAIN disk.sent \cup {c.key} /\ disk'.sent[c.key] = c
        /\ c.key \notin DOMAIN disk.sent
        /\ \A i \in DOMAIN disk.sent : disk'.sent[i] = disk.sent[i]
        /\ \A I \in SUBSET DOMAIN disk.sent : SentSum(disk', I) = SentSum(disk, I)
    BY <1>1, <2>2, <2>3, SentAppend
  <2>9. \A e \in late : e.key \in DOMAIN disk'.sent /\ e = disk'.sent[e.key]
    BY <1>2, <2>8 DEF CapsOf
  <2>10. Submits(disk) \in SUBSET DOMAIN disk.sent
    BY DEF Submits
  <2>11. CapsState(disk')
    <3>1. CASE c.action = "submit"
      <4>1. Submits(disk') = Submits(disk) \cup {c.key}
        BY <2>8, <3>1 DEF Submits
      <4>2. \A i \in Submits(disk') : disk'.sent[i].target = 0
        BY <1>2, <2>5, <2>8, <2>10, <3>1, <4>1 DEF CapsOf, CapsState
      <4>3. /\ SentSum(disk', Submits(disk')) <= disk.intent.maxQuantity
            /\ SentSum(disk', Submits(disk')) <= Larger(InventoryRoom(disk.intent), 0)
        BY <1>1, <1>2, <2>2, <2>3, <2>4, <2>5, <2>6, <2>7, <3>1, SubmitFits DEF CapsOf
      <4> QED
        BY <2>2, <4>2, <4>3 DEF CapsState
    <3>2. CASE c.action # "submit"
      <4>1. Submits(disk') = Submits(disk)
        BY <2>8, <3>2 DEF Submits
      <4> QED
        BY <1>2, <2>2, <2>8, <2>10, <4>1 DEF CapsState, CapsOf
    <3> QED
      BY <3>1, <3>2
  <2> DEFINE R(s) == {i \in Submits(s) : i \in requested /\ \A e \in late : e.key # i}
  <2>12. R(disk') = R(disk) /\ R(disk) \in SUBSET DOMAIN disk.sent
    <3>1. c.key \notin requested
      BY <1>1, <2>8, StateFields
    <3>2. \A i \in requested : i \in Submits(disk') <=> i \in Submits(disk)
      BY <2>8, <3>1 DEF Submits
    <3> QED
      BY <2>10, <3>2
  <2>13. brokerQty + OpenIn(live) <= SentSum(disk, R(disk))
    BY <1>2 DEF CapsOf
  <2>14. brokerQty + OpenIn(live) <= SentSum(disk', R(disk'))
    <3> HIDE DEF R
    <3> QED
      BY <2>8, <2>12, <2>13
  <2> QED
    BY <2>9, <2>11, <2>14 DEF CapsOf
<1> QED
  BY <1>4, <1>5, <1>6, DiskSteps

\* A child reaches the broker: it fits, as what it adds is its own submit.
LEMMA CapsReach ==
    ASSUME IndInv, CapsInv, NEW c \in Child, c.key \in DOMAIN disk.sent, c = disk.sent[c.key],
           c.key \notin Reached, NEW R \in SUBSET Submits(disk),
           Reached \subseteq R, c.action = "submit" => c.key \in R
    PROVE  brokerQty + OpenIn(AfterBroker(c)) <= SentSum(disk, R)
<1>1. disk \in State /\ live \in SUBSET Working /\ IsFiniteSet(live) /\ brokerQty \in Nat
  BY DEF IndInv, TypeOK, CapsInv
<1>2. R \in SUBSET DOMAIN disk.sent
  BY DEF Submits
<1>3. /\ OpenIn(AfterBroker(c)) \in Nat
      /\ OpenIn(AfterBroker(c)) <= OpenIn(live) + (IF c.action = "submit" THEN c.qty ELSE 0)
      /\ OpenIn(live) \in Nat /\ c.qty \in Nat
  BY <1>1, AfterBrokerOpen, OpenSums DEF Child
<1>4. /\ SentSum(disk, R) \in Nat /\ SentSum(disk, Reached) \in Nat
      /\ SentSum(disk, Reached) <= SentSum(disk, R)
  BY <1>1, <1>2, SentSums
<1>5. brokerQty + OpenIn(live) <= SentSum(disk, Reached)
  BY DEF CapsInv
<1>6. CASE c.action # "submit"
  BY <1>1, <1>3, <1>4, <1>5, <1>6
<1>7. CASE c.action = "submit"
  <2> DEFINE P == Reached \cup {c.key}
  <2>1. P \in SUBSET R /\ P \in SUBSET DOMAIN disk.sent /\ Reached \in SUBSET DOMAIN disk.sent
    BY <1>2, <1>7
  <2>2. SentSum(disk, P) = c.qty + SentSum(disk, Reached)
    <3>1. \A i \in P : SentQty(disk)[i] \in Int
      BY <1>1, <2>1, SentSums
    <3>2. IsFiniteSet(Reached) /\ SentQty(disk)[c.key] = c.qty
      BY <1>1, <2>1, SentSums
    <3>3. SumFunctionOnSet(SentQty(disk), P) =
            SentQty(disk)[c.key] + SumFunctionOnSet(SentQty(disk), Reached)
      BY <3>1, <3>2, SumAdd
    <3> QED
      BY <3>2, <3>3 DEF SentSum
  <2>3. SentSum(disk, P) <= SentSum(disk, R) /\ SentSum(disk, P) \in Nat
    BY <1>1, <1>2, <2>1, SentSums
  <2> HIDE DEF P
  <2> QED
    BY <1>1, <1>3, <1>4, <1>5, <1>7, <2>2, <2>3
<1> QED
  BY <1>6, <1>7

\* Every step keeps CapsInv.
LEMMA CapsStep ==
    ASSUME IndInv, CapsInv, [Next]_vars PROVE CapsInv'
<1>1. disk \in State /\ live \in SUBSET Working /\ IsFiniteSet(live) /\ brokerQty \in Nat
      /\ late \in SUBSET Child /\ OpenIn(live) \in Nat
  BY OpenSums DEF IndInv, TypeOK, CapsInv
<1>2. CASE UNCHANGED <<brokerVars, requested>>
  BY <1>2, CapsDisk DEF brokerVars, CapsInv, CapsOf, Reached, CapsState, Submits, SentSum, SentQty,
                        OpenIn, OpenOf, Larger, InventoryRoom
<1>3. CASE \/ Quiet \/ JournalStarts \/ JournalFills \/ JournalReconciles \/ JournalFinishes
           \/ JournalSends \/ JournalOutcomes
  BY <1>2, <1>3 DEF Quiet, JournalStarts, JournalFills, JournalReconciles, JournalFinishes,
                    JournalSends, JournalOutcomes, Journaled
<1>4. CASE BrokerFill
  <2>0. PICK o \in live : \E q \in 1 .. o.open :
          /\ brokerQty' = brokerQty + q
          /\ live' = (live \ {o}) \cup (IF q = o.open THEN {} ELSE {[o EXCEPT !.open = @ - q]})
          /\ UNCHANGED <<disk, late, requested>>
    BY <1>4 DEF BrokerFill, history
  <2>1. PICK q \in 1 .. o.open :
          /\ brokerQty' = brokerQty + q
          /\ live' = (live \ {o}) \cup (IF q = o.open THEN {} ELSE {[o EXCEPT !.open = @ - q]})
          /\ UNCHANGED <<disk, late, requested>>
    BY <2>0
  <2>2. o \in Working /\ o.open \in Nat /\ q \in Nat /\ q <= o.open
    BY <1>1, <2>1 DEF Working
  <2>3. /\ OpenIn(live) = o.open + OpenIn(live \ {o})
        /\ IsFiniteSet(live \ {o}) /\ live \ {o} \in SUBSET Working /\ OpenIn(live \ {o}) \in Nat
    <3>1. live \ {o} \in SUBSET Working /\ IsFiniteSet(live \ {o})
      BY <1>1, FS_Subset
    <3>2. OpenIn(live \ {o}) \in Nat
      BY <3>1, OpenSums
    <3>3. OpenIn(live) = o.open + OpenIn(live \ {o})
      BY <1>1, OpenSums
    <3> QED
      BY <3>1, <3>2, <3>3
  <2>4. IsFiniteSet(live') /\ OpenIn(live') \in Nat /\ OpenIn(live') + q <= OpenIn(live)
    <3>1. CASE q = o.open
      <4>1. live' = live \ {o}
        BY <2>1, <3>1
      <4> QED
        BY <2>2, <2>3, <3>1, <4>1
    <3>2. CASE q # o.open
      <4> DEFINE w == [o EXCEPT !.open = @ - q]
      <4>1. live' = (live \ {o}) \cup {w}
        BY <2>1, <3>2
      <4>2. w \in Working /\ w.open = o.open - q
        BY <2>2 DEF Working
      <4> HIDE DEF w
      <4>3. /\ IsFiniteSet((live \ {o}) \cup {w})
            /\ OpenIn((live \ {o}) \cup {w}) <= OpenIn(live \ {o}) + w.open
        BY <2>3, <4>2, OpenSums
      <4>4. OpenIn((live \ {o}) \cup {w}) \in Nat
        BY <2>3, <4>2, <4>3, OpenSums
      <4> QED
        BY <2>2, <2>3, <4>1, <4>2, <4>3, <4>4
    <3> QED
      BY <3>1, <3>2
  <2>5. brokerQty + OpenIn(live) <= SentSum(disk, Reached) /\ SentSum(disk, Reached) \in Nat
    BY <1>1, SentSums DEF CapsInv, Reached, Submits
  <2>6. brokerQty' + OpenIn(live') <= SentSum(disk, Reached)
    BY <1>1, <2>1, <2>2, <2>4, <2>5
  <2> QED
    BY <2>1, <2>4, <2>6 DEF CapsInv, Reached, OpenIn, OpenOf
<1>5. CASE BrokerDrop
  <2>1. live' \in SUBSET live /\ UNCHANGED <<disk, late, requested, brokerQty>>
    BY <1>5 DEF BrokerDrop, history
  <2>2. OpenIn(live') <= OpenIn(live) /\ IsFiniteSet(live')
    BY <1>1, <2>1, OpenSums
  <2>3. OpenIn(live') \in Nat
    BY <1>1, <2>1, <2>2, OpenSums
  <2>4. brokerQty + OpenIn(live) <= SentSum(disk, Reached) /\ SentSum(disk, Reached) \in Nat
    BY <1>1, SentSums DEF CapsInv, Reached, Submits
  <2>5. brokerQty + OpenIn(live') <= SentSum(disk, Reached)
    BY <1>1, <2>2, <2>3, <2>4
  <2> QED
    BY <2>1, <2>2, <2>5 DEF CapsInv, Reached, OpenIn, OpenOf
<1>6. CASE LateArrive
  <2>1. PICK c \in late : /\ live' = AfterBroker(c) /\ late' = late \ {c}
                          /\ UNCHANGED <<disk, requested, brokerQty>>
    BY <1>6 DEF LateArrive, history
  <2>2. c \in Child /\ c.key \in DOMAIN disk.sent /\ c = disk.sent[c.key]
    BY <1>1 DEF CapsInv
  <2>3. c.key \in requested
    BY DEF IndInv, GatewayInv
  <2> DEFINE R == {i \in Submits(disk) : i \in requested /\ \A e \in late \ {c} : e.key # i}
  <2>4. \A e \in late \ {c} : e.key # c.key
    BY <2>2 DEF CapsInv
  <2>5. R \in SUBSET Submits(disk) /\ Reached \subseteq R /\ c.key \notin Reached
    BY DEF Reached
  <2>6. c.action = "submit" => c.key \in R
    BY <2>2, <2>3, <2>4 DEF Submits
  <2> HIDE DEF R
  <2>7. brokerQty + OpenIn(AfterBroker(c)) <= SentSum(disk, R)
    BY <2>2, <2>5, <2>6, CapsReach
  <2>8. IsFiniteSet(AfterBroker(c))
    BY <1>1, <2>2, AfterBrokerOpen
  <2>9. Reached' = R
    BY <2>1 DEF R, Reached, Submits
  <2>10. /\ IsFiniteSet(live') /\ brokerQty' + OpenIn(live') <= SentSum(disk', Reached')
    BY <2>1, <2>7, <2>8, <2>9
  <2>11. CapsState(disk') /\ \A e \in late' : e.key \in DOMAIN disk'.sent /\ e = disk'.sent[e.key]
    BY <2>1 DEF CapsInv
  <2> QED
    BY <2>10, <2>11 DEF CapsInv, OpenIn, OpenOf, SentSum, SentQty, CapsState, Submits
<1>7. CASE GwSend
  <2> DEFINE c == disk.inFlight
  <2>1. mem = disk /\ Unresolved(disk) /\ pc = "send"
    BY <1>7, InTick DEF GwSend, IndInv, ProcessInv
  <2>2. c \in Child /\ c.key = Len(disk.sent)
    BY <2>1, InFlight
  <2>3. c.key \in DOMAIN disk.sent /\ c = disk.sent[c.key]
    BY <1>1, <2>1, <2>2, LastSent DEF IndInv
  <2>4. c.key \notin requested /\ \A e \in late : e.key \in requested
    BY <2>1 DEF IndInv, GatewayInv, KeyUsedOnce
  <2>5. /\ UNCHANGED <<disk, brokerQty>> /\ requested' = requested \cup {c.key}
        /\ \/ live' = AfterBroker(c) /\ late' = late
           \/ live' = live /\ late' \in {late, late \cup {c}}
    BY <1>7, <2>1 DEF GwSend
  <2> HIDE DEF c
  <2>6. c.key \notin Reached
    BY <2>4 DEF Reached
  <2> DEFINE R == Reached'
  <2>7. R \in SUBSET Submits(disk) /\ Reached \subseteq R
    BY <2>4, <2>5 DEF Reached, Submits
  <2>8. late' = late => (c.action = "submit" => c.key \in R)
    BY <2>3, <2>4, <2>5 DEF Reached, Submits
  <2> HIDE DEF R
  <2>9. IsFiniteSet(live') /\ brokerQty + OpenIn(live') <= SentSum(disk, R)
    <3>1. CASE live' = AfterBroker(c) /\ late' = late
      BY <1>1, <2>2, <2>3, <2>6, <2>7, <2>8, <3>1, CapsReach, AfterBrokerOpen
    <3>2. CASE live' = live
      <4>1. /\ SentSum(disk, R) \in Nat /\ SentSum(disk, Reached) \in Nat
            /\ SentSum(disk, Reached) <= SentSum(disk, R)
        <5>1. R \in SUBSET DOMAIN disk.sent
          BY <2>7 DEF Submits
        <5> QED
          BY <1>1, <2>7, <5>1, SentSums
      <4>2. brokerQty + OpenIn(live) <= SentSum(disk, Reached)
        BY DEF CapsInv
      <4> QED
        BY <1>1, <3>2, <4>1, <4>2
    <3> QED
      BY <2>5, <3>1, <3>2
  <2>10. CapsState(disk') /\ \A e \in late' : e.key \in DOMAIN disk'.sent /\ e = disk'.sent[e.key]
    BY <2>3, <2>5 DEF CapsInv
  <2>11. brokerQty' + OpenIn(live') <= SentSum(disk', Reached')
    BY <2>5, <2>9 DEF R
  <2> QED
    BY <2>9, <2>10, <2>11 DEF CapsInv, OpenIn, OpenOf, SentSum, SentQty, CapsState, Submits
<1> QED
  BY <1>3, <1>4, <1>5, <1>6, <1>7, StepKinds

\* What has executed and what may still execute stays within the quantity and the
\* inventory range E1 authorised, whatever is lost, delayed, repeated or amended,
\* with requests that arrive late included (commit's backstop, exposure.go).
THEOREM CapsAreKept == Spec => []WithinE1Caps
<1>1. Init => CapsInv
  <2> SUFFICES ASSUME Init PROVE CapsInv
    OBVIOUS
  <2>1. /\ live = {} /\ late = {} /\ brokerQty = 0 /\ disk.sent = <<>> /\ disk.intent = NoIntent
    BY DEF Init, Fresh, NewState
  <2>2. DOMAIN <<>> = {}
    OBVIOUS
  <2>3. Submits(disk) = {} /\ Reached = {}
    BY <2>1, <2>2 DEF Submits, Reached
  <2>4. SentSum(disk, {}) = 0 /\ OpenIn({}) = 0 /\ IsFiniteSet({})
    BY FS_EmptySet, SumChosen DEF SentSum, OpenIn
  <2>5. Larger(InventoryRoom(NoIntent), 0) = 0 /\ NoIntent.maxQuantity = 0
    BY DEF Larger, InventoryRoom, NoIntent, Buy
  <2> QED
    BY <2>1, <2>3, <2>4, <2>5 DEF CapsInv, CapsState
<1>2. IndInv /\ CapsInv => WithinE1Caps
  BY CapsHold
<1>3. IndInv /\ CapsInv /\ [Next]_vars => CapsInv'
  BY CapsStep
<1> QED
  BY <1>1, <1>2, <1>3, Invariance, PTL DEF Spec
-----------------------------------------------------------------------------
\* decide's room and commit's backstop agree.

\* The intent starts from a position inside its own inventory range.
InRange(in) == in.minAfter <= in.position /\ in.position <= in.maxAfter

\* The child fits what decide takes for E1's room.
FitsRoom(s, c) ==
    /\ c.qty \in Nat /\ c.price \in Nat /\ c.qty >= 1 /\ c.price >= 1
    /\ c.qty <= E1RoomQty(s, 0) /\ c.qty * c.price <= E1RoomNotional(s, 0)

\* A submit that fits E1's room is one E1 takes.
LEMMA RoomAllows ==
    ASSUME NEW s \in State, JournalOK(s), LineageOK(s), InRange(s.intent),
           s.intent.side \in Sides,
           NEW c, c.action = "submit", c.key = Len(s.sent) + 1, FitsRoom(s, c)
    PROVE  Allowed(s, c)
<1> DEFINE counted == Counted(s)
           old == Lineages(counted)
           k == c.key
           q == c.qty
           m == c.qty * c.price
           more == counted \cup {[root |-> k, qty |-> q, notional |-> m]}
           all == Lineages(more)
           tq == TotalQty(counted, old)
           tn == TotalNotional(counted, old)
           room == Smaller(s.intent.maxQuantity, InventoryRoom(s.intent))
<1>1. Len(s.sent) \in Nat /\ DOMAIN s.sent = 1 .. Len(s.sent)
  BY StateFields
<1>2. old \subseteq 1 .. Len(s.sent)
  BY <1>1, RootsSent DEF Counted, Lineages
<1>3. k \notin old /\ old \ {0} = old
  BY <1>1, <1>2
<1>4. IsCounted(counted)
  BY CountedTyped
<1>5. m \in Nat /\ m >= 1 /\ q \in Nat /\ q >= 1
  <2>1. \A a, b \in Nat : a >= 1 /\ b >= 1 => a * b \in Nat /\ a * b >= 1
    OBVIOUS
  <2> QED
    BY <2>1 DEF FitsRoom
<1>6. tq \in Nat /\ tn \in Nat
  BY <1>4, TotalsTyped
<1>7. E1RoomQty(s, 0) = Larger(room - tq, 0)
      /\ E1RoomNotional(s, 0) = Larger(s.intent.maxNotional - tn, 0)
  BY <1>3 DEF E1RoomQty, E1RoomNotional
<1>8. s.intent \in IntentRecord
  BY StateFields
<1>9. /\ s.intent.maxQuantity \in Nat /\ s.intent.maxNotional \in Nat /\ s.intent.position \in Nat
      /\ s.intent.minAfter \in Nat /\ s.intent.maxAfter \in Nat
      /\ InventoryRoom(s.intent) \in Int
  BY <1>8 DEF IntentRecord, InventoryRoom
<1>10. q <= E1RoomQty(s, 0) /\ m <= E1RoomNotional(s, 0)
  BY DEF FitsRoom
<1>11. E1CapsRefusal(s, c) =
        LET qty == TotalQty(more, all)
            pos == IF s.intent.side = Sell THEN s.intent.position - qty
                                           ELSE s.intent.position + qty
        IN  IF qty > s.intent.maxQuantity THEN "quantity_cap_exceeded"
            ELSE IF TotalNotional(more, all) > s.intent.maxNotional
                 THEN "notional_cap_exceeded"
            ELSE IF pos < s.intent.minAfter \/ pos > s.intent.maxAfter
                 THEN "inventory_constraint_exceeded"
            ELSE ""
  BY DEF E1CapsRefusal
<1> HIDE DEF counted, old, k, q, m, tq, tn
<1>12. TotalQty(more, all) = q + tq /\ TotalNotional(more, all) = m + tn
  <2>1. k \notin Lineages(counted) /\ q \in Nat /\ m \in Nat
    BY <1>3, <1>5 DEF old
  <2>2. LET e == counted \cup {[root |-> k, qty |-> q, notional |-> m]} IN
        /\ TotalQty(e, Lineages(e)) = q + TotalQty(counted, Lineages(counted))
        /\ TotalNotional(e, Lineages(e)) = m + TotalNotional(counted, Lineages(counted))
    BY <1>4, <2>1, NewLineage
  <2> QED
    BY <2>2 DEF old, tq, tn
<1> HIDE DEF more, all
<1>13. room \in Int /\ room <= s.intent.maxQuantity /\ room <= InventoryRoom(s.intent)
  BY <1>9 DEF Smaller
<1> HIDE DEF room
<1>14. q + tq <= s.intent.maxQuantity /\ q + tq <= InventoryRoom(s.intent)
       /\ m + tn <= s.intent.maxNotional
  <2>1. \A a, b, t \in Int : a >= 1 /\ a <= Larger(b - t, 0) => a + t <= b
    BY DEF Larger
  <2>2. q + tq <= room
    BY <1>5, <1>6, <1>7, <1>10, <1>13, <2>1
  <2>3. m + tn <= s.intent.maxNotional
    BY <1>5, <1>6, <1>7, <1>9, <1>10, <2>1
  <2>4. q + tq \in Int
    BY <1>5, <1>6
  <2> QED
    BY <1>9, <1>13, <2>2, <2>3, <2>4
<1>15. LET pos == IF s.intent.side = Sell THEN s.intent.position - (q + tq)
                                          ELSE s.intent.position + (q + tq)
       IN  ~(pos < s.intent.minAfter) /\ ~(pos > s.intent.maxAfter)
  <2>1. CASE s.intent.side = Buy
    <3>1. s.intent.side # Sell
      BY <2>1 DEF Buy, Sell
    <3>2. InventoryRoom(s.intent) = s.intent.maxAfter - s.intent.position
      BY <2>1 DEF InventoryRoom
    <3>3. s.intent.position + (q + tq) <= s.intent.maxAfter
          /\ s.intent.minAfter <= s.intent.position + (q + tq)
      BY <1>5, <1>6, <1>9, <1>14, <2>1, <3>2 DEF InRange
    <3> QED
      BY <1>5, <1>6, <1>9, <3>1, <3>3
  <2>2. CASE s.intent.side = Sell
    <3>1. s.intent.side # Buy
      BY <2>2 DEF Buy, Sell
    <3> QED
      BY <1>5, <1>6, <1>9, <1>14, <2>2, <3>1 DEF InventoryRoom, InRange
  <2> QED
    BY <2>1, <2>2 DEF Sides
<1>16. ~(q + tq > s.intent.maxQuantity) /\ ~(m + tn > s.intent.maxNotional)
  BY <1>5, <1>6, <1>9, <1>14
<1> QED
  BY <1>11, <1>12, <1>15, <1>16 DEF Allowed

\* decide finishes only what a finish record applies to.
LEMMA FinishChosen ==
    ASSUME NEW s \in State, NEW t \in Top, NEW n \in Nat, NEW k \in BOOLEAN,
           NEW d, d = Decide(s, t, n, k), d.kind = "finish"
    PROVE  FinishApplies(s, d.reason)
<1> DEFINE closing == Closing(s, t, n, k)
<1>1. \A a, q, p, r : Send(s, a, q, p, r).kind = "send" /\ CancelOrder(s, r).kind = "send"
  BY DEF CancelOrder, Send
<1>2. Nothing.kind = "none" /\ Query.kind = "query"
  BY DEF Nothing, Query
<1>3. d # Nothing /\ d # Query /\ (\A r : d # CancelOrder(s, r))
      /\ \A a, q, p, r : d # Send(s, a, q, p, r)
  BY <1>1, <1>2
<1>4. d # DecideStep(s, t, n)
  BY <1>3, Zenon DEF DecideStep
<1>5. d = DecideOpen(s, t, n) => d = Finish("e1_caps")
  BY <1>3, Zenon DEF DecideOpen
<1>6. /\ Started(s) /\ s.done = "" /\ ~Unresolved(s) /\ ~HasOrder(s)
      /\ d = Finish("filled") \/ d = Finish("e1_caps") \/ (closing # "" /\ d = Finish(closing))
  BY <1>3, <1>4, <1>5, Zenon DEF Decide
<1>7. \A r : Finish(r).reason = r
  BY DEF Finish
<1> HIDE DEF closing
<1>8. d.reason # ""
  BY <1>6, <1>7
<1> QED
  BY <1>6, <1>8 DEF FinishApplies

\* decide cancels only a working order.
LEMMA CancelChosen ==
    ASSUME NEW s \in State, NEW t \in Top, NEW n \in Nat, NEW k \in BOOLEAN,
           NEW d, d = Decide(s, t, n, k), d.kind = "send", d.child.action = "cancel"
    PROVE  Started(s) /\ s.done = "" /\ ~Unresolved(s) /\ HasOrder(s)
<1>1. \A q, p, r : Send(s, "submit", q, p, r).child.action = "submit"
  BY DEF Send
<1>2. Nothing.kind = "none" /\ Query.kind = "query" /\ \A r : Finish(r).kind = "finish"
  BY DEF Nothing, Query, Finish
<1>3. d # Nothing /\ d # Query /\ (\A r : d # Finish(r))
      /\ \A q, p, r : d # Send(s, "submit", q, p, r)
  BY <1>1, <1>2
<1>4. \/ DecideOpen(s, t, n) = Nothing
      \/ DecideOpen(s, t, n) = Finish("e1_caps")
      \/ \E q, p : DecideOpen(s, t, n) = Send(s, "submit", q, p, "open")
  BY Zenon DEF DecideOpen
<1>5. d # DecideOpen(s, t, n)
  BY <1>3, <1>4
<1> QED
  BY <1>3, <1>5, Zenon DEF Decide

\* What decide sends is journaled: it fits the intent, the working order and
\* E1's caps.
LEMMA SendCommitted ==
    ASSUME NEW s \in State, JournalOK(s), IntentOK(s), LineageOK(s), InRange(s.intent),
           NEW t \in Top, NEW n \in Nat, NEW k \in BOOLEAN,
           NEW d, d = Decide(s, t, n, k), SendShape(s, d)
    PROVE  (Opening(d.child) => Allowed(s, d.child)) /\ SendApplies(s, d.child)
<1> DEFINE c == d.child
<1>1. /\ d.kind = "send" /\ c.key = Len(s.sent) + 1 /\ c.action \in {"submit", "amend", "cancel"}
      /\ c.target = IF c.action = "submit" THEN 0 ELSE s.order.key
  BY DEF SendShape
<1>2. c.key # 0 /\ c.key \notin SentKeys(s)
  <2>1. Len(s.sent) \in Nat /\ \A i \in DOMAIN s.sent : s.sent[i].key = i /\ i \in 1 .. Len(s.sent)
    BY KeysInOrder
  <2> HIDE DEF c
  <2> QED
    BY <1>1, <2>1 DEF SentKeys
<1>3. CASE ~Opening(c)
  <2>1. c.action = "cancel"
    BY <1>1, <1>3 DEF Opening
  <2>2. Started(s) /\ s.done = "" /\ ~Unresolved(s) /\ HasOrder(s)
    BY <1>1, <2>1, CancelChosen
  <2> HIDE DEF c
  <2> QED
    BY <1>1, <1>2, <1>3, <2>1, <2>2 DEF SendApplies, c
<1>4. CASE Opening(c)
  <2>1. /\ Started(s) /\ s.done = "" /\ ~Unresolved(s) /\ s.halt = ""
        /\ AmendChosen(s, d) \/ SubmitChosen(s, t, d)
    BY <1>4, OpeningChosen
  <2>2. s.intent \in IntentRecord /\ Validate(s.intent) /\ s.cap = Cap(s.intent)
    BY <2>1, StateFields DEF IntentOK
  <2>3. s.cap \in Nat /\ s.cap >= 1 /\ s.intent.side \in Sides
    BY <2>2, CapGrid, CapWithinLimit
  <2>4. \A a, q, p, r : LET e == Send(s, a, q, p, r).child IN
                        e.action = a /\ e.qty = q /\ e.price = p
    BY DEF Send
  <2>5. Remaining(s) \in Int /\ s.order.price \in Nat
    BY RemainingTyped, StateFields
  <2>6. ASSUME c.qty \in Int, c.qty >= 1, c.qty <= Remaining(s), c.price \in Nat \ {0},
               ~Worse(s.intent, c.price, s.cap), (c.action = "submit") <=> ~HasOrder(s)
        PROVE  SendApplies(s, c)
    <3>1. c.qty \in 1 .. Remaining(s)
      BY <2>5, <2>6
    <3>2. c.action # "submit" => HasOrder(s) /\ c.target = s.order.key
      BY <1>1, <2>6
    <3> HIDE DEF c
    <3> QED
      BY <1>1, <1>2, <2>1, <2>6, <3>1, <3>2, Zenon DEF SendApplies
  <2>7. CASE AmendChosen(s, d)
    <3> DEFINE q == AmendQty(s)
               cp == AmendCap(s)
               p == StepToward(s.intent.side, s.order.price, cp)
    <3>1. /\ HasOrder(s) /\ q >= 1 /\ Worse(s.intent, cp, s.order.price)
          /\ d = Send(s, "amend", q, p, "step") /\ Allowed(s, c)
      BY <2>7, Zenon DEF AmendChosen, Allowed
    <3>2. c.action = "amend" /\ c.qty = q /\ c.price = p
      BY <2>4, <3>1
    <3>3. /\ q \in Int /\ q <= Remaining(s) /\ cp \in Nat /\ ~Worse(s.intent, cp, s.cap)
          /\ s.intent.side # Buy => cp = s.cap
      BY <2>1, AmendFits
    <3> HIDE DEF cp, q
    <3>4. /\ IF s.intent.side = Buy THEN cp > s.order.price ELSE cp < s.order.price
          /\ s.intent.side = Sell => cp >= 1
      <4>1. s.intent.side = Sell => s.intent.side # Buy
        BY DEF Sell, Buy
      <4> QED
        BY <2>3, <3>1, <3>3, <4>1 DEF Worse
    <3>5. /\ p \in Nat /\ p >= 1
          /\ IF s.intent.side = Buy THEN p <= cp ELSE p >= cp
      BY <2>3, <2>5, <3>3, <3>4, StepGrid
    <3> HIDE DEF p
    <3>6. ~Worse(s.intent, p, s.cap) /\ p \in Nat \ {0}
      BY <2>3, <3>3, <3>5 DEF Worse
    <3>7. SendApplies(s, c)
      <4>1. /\ c.qty \in Int /\ c.qty >= 1 /\ c.qty <= Remaining(s) /\ c.price \in Nat \ {0}
            /\ ~Worse(s.intent, c.price, s.cap) /\ ((c.action = "submit") <=> ~HasOrder(s))
        BY <3>1, <3>2, <3>3, <3>6
      <4> QED
        BY <2>6, <4>1
    <3> QED
      BY <3>1, <3>7
  <2>8. CASE SubmitChosen(s, t, d)
    <3>1. PICK p \in Nat \ {0} :
            /\ ~Worse(s.intent, p, s.cap) /\ FitQty(s, p) >= 1
            /\ d = Send(s, "submit", FitQty(s, p), FitPrice(s, p), "open")
      BY <2>8, Zenon DEF SubmitChosen
    <3> DEFINE q == FitQty(s, p)
               price == FitPrice(s, p)
    <3>2. c.action = "submit" /\ c.qty = q /\ c.price = price
      BY <2>4, <3>1
    <3>3. /\ q \in Nat /\ q <= Remaining(s) /\ q <= E1RoomQty(s, 0)
          /\ price \in Nat \ {0} /\ ~Worse(s.intent, price, s.cap)
          /\ q * price <= E1RoomNotional(s, 0) /\ q >= 1
      BY <2>1, <3>1, FitFits
    <3> HIDE DEF q, price
    <3>4. ~HasOrder(s)
      BY <2>8, Zenon DEF SubmitChosen
    <3>5. FitsRoom(s, c)
      BY <3>2, <3>3 DEF FitsRoom
    <3>6. Allowed(s, c)
      BY <1>1, <2>3, <3>2, <3>5, RoomAllows
    <3>7. SendApplies(s, c)
      <4>1. /\ c.qty \in Int /\ c.qty >= 1 /\ c.qty <= Remaining(s) /\ c.price \in Nat \ {0}
            /\ ~Worse(s.intent, c.price, s.cap) /\ ((c.action = "submit") <=> ~HasOrder(s))
        BY <3>2, <3>3, <3>4
      <4> QED
        BY <2>6, <4>1
    <3> QED
      BY <3>6, <3>7
  <2> QED
    BY <2>1, <2>7, <2>8
<1> QED
  BY <1>3, <1>4

\* The journal's intent is a valid one of Intents, and its children form lineages.
SizedInv ==
    IntentOK(disk) /\ LineageOK(disk) /\ (Started(disk) => disk.intent \in Intents)

\* Every step keeps SizedInv.
LEMMA SizedStep ==
    ASSUME IndInv, SizedInv, [Next]_vars PROVE SizedInv'
<1>1. disk \in State /\ JournalOK(disk) /\ PricesOK(disk) /\ now \in Nat /\ disk.order.key \in Nat
      /\ Len(disk.sent) \in Nat /\ requested \subseteq 1 .. Len(disk.sent)
  BY StateFields DEF IndInv, TypeOK, GatewayInv
<1>2. NoOrder.key = 0
  BY DEF NoOrder
<1>3. CASE DiskStarts
  <2>1. PICK in \in Intents : Validate(in) /\ disk' = AfterStart(in)
    BY <1>3 DEF DiskStarts
  <2>2. /\ disk'.intent = in /\ disk'.cap = Cap(in) /\ disk'.target = TargetQty(in)
        /\ disk'.sent = <<>> /\ disk'.order = NoOrder
    BY <2>1 DEF AfterStart, NewState
  <2>3. Len(<<>>) = 0
    OBVIOUS
  <2> QED
    BY <1>2, <2>1, <2>2, <2>3 DEF SizedInv, IntentOK, LineageOK, Started
<1>4. CASE DiskKeeps
  <2>1. /\ disk'.intent = disk.intent /\ disk'.cap = disk.cap /\ disk'.target = disk.target
        /\ disk'.sent = disk.sent
    BY <1>4 DEF DiskKeeps, SameBase
  <2>2. Unresolved(disk) => ChildOrder(disk.inFlight).key <= Len(disk.sent)
    BY <1>1, InFlight DEF ChildOrder
  <2>3. \A o \in ViewOrders : o.key <= Len(disk.sent)
    <3>1. \A w \in live : w.key <= Len(disk.sent)
      BY Keys
    <3> QED
      BY <1>1, <1>2, <3>1 DEF ViewOrders
  <2>4. disk'.order.key <= Len(disk.sent)
    BY <1>1, <1>2, <1>4, <2>2, <2>3 DEF DiskKeeps, SizedInv, LineageOK
  <2> QED
    BY <2>1, <2>4 DEF SizedInv, IntentOK, LineageOK, Started
<1>5. CASE DiskSends
  <2>1. PICK d : /\ SendShape(disk, d) /\ SendApplies(disk, d.child)
                 /\ disk' = AfterSend(disk, d.child, d.reason, now)
    BY <1>5 DEF DiskSends
  <2>2. /\ disk'.intent = disk.intent /\ disk'.cap = disk.cap /\ disk'.target = disk.target
        /\ disk'.order = disk.order /\ Appends(disk', disk, d.child)
    BY <1>1, <2>1 DEF AfterSend, State, Appends
  <2>3. disk' \in State /\ Len(disk'.sent) = Len(disk.sent) + 1
    BY <1>1, <2>1, SendOK
  <2>4. d.child.target < Len(disk.sent) + 1
    BY <1>1, <2>1 DEF SendShape, SizedInv, LineageOK
  <2>5. \A i \in 1 .. Len(disk'.sent) : disk'.sent[i].target < i
    <3>1. /\ DOMAIN disk.sent = 1 .. Len(disk.sent)
          /\ disk'.sent[Len(disk.sent) + 1] = d.child
          /\ \A i \in DOMAIN disk.sent : disk'.sent[i] = disk.sent[i]
      BY <1>1, <2>2, <2>3, SentAppend, StateFields
    <3>2. \A i \in 1 .. Len(disk'.sent) : i \in 1 .. Len(disk.sent) \/ i = Len(disk.sent) + 1
      BY <1>1, <2>3
    <3> QED
      BY <2>4, <3>1, <3>2 DEF SizedInv, LineageOK
  <2>6. disk'.order.key <= Len(disk'.sent)
    BY <1>1, <2>2, <2>3 DEF SizedInv, LineageOK
  <2> QED
    BY <2>2, <2>5, <2>6 DEF SizedInv, IntentOK, LineageOK, Started
<1> QED
  BY <1>3, <1>4, <1>5, DiskSteps

\* decide never proposes what commit's backstop or Apply refuses ("decide sizes
\* every send to E1's room, so this is the backstop"), for intents that start
\* inside their own inventory range.  Outside of it e1Room counts only the bound
\* the side moves towards and E1CapsRefusal counts both, so there decide proposes
\* an order that commit refuses.
THEOREM BackstopIsNeverUsed ==
    (\A in \in Intents : InRange(in)) => (Spec => []BackstopUnused)
<1> SUFFICES ASSUME \A in \in Intents : InRange(in) PROVE Spec => []BackstopUnused
  OBVIOUS
<1>1. Init => SizedInv
  <2>1. /\ Fresh.intent = NoIntent /\ Fresh.order.key = 0 /\ Fresh.sent = <<>>
    BY DEF Fresh, NewState, NoOrder
  <2>2. Len(Fresh.sent) = 0 /\ ~Started(Fresh)
    BY <2>1 DEF Started
  <2>3. IntentOK(Fresh) /\ LineageOK(Fresh)
    BY <2>1, <2>2 DEF IntentOK, LineageOK, Started
  <2> QED
    BY <2>1, <2>2, <2>3 DEF Init, SizedInv
<1>2. IndInv /\ SizedInv => BackstopUnused
  <2> SUFFICES ASSUME IndInv, SizedInv, up, pc = "tick"
               PROVE  /\ Decision.kind = "send" => SendCommits(Decision.child)
                      /\ Decision.kind = "finish" => FinishApplies(mem, Decision.reason)
    BY DEF BackstopUnused
  <2>1. mem = disk /\ Started(disk)
    BY InTick DEF IndInv, ProcessInv
  <2>2. disk \in State /\ JournalOK(disk) /\ top \in Top /\ now \in Nat /\ killed \in BOOLEAN
    BY DEF IndInv, TypeOK
  <2>3. IntentOK(disk) /\ LineageOK(disk) /\ InRange(disk.intent)
    BY <2>1 DEF SizedInv
  <2>4. PICK d : d = Decision
    OBVIOUS
  <2>5. d = Decide(disk, top, now, killed)
    BY <2>1, <2>4 DEF Decision
  <2>6. d.kind = "send" => SendShape(disk, d)
    <3>1. \/ d = Nothing
          \/ d = Query /\ Unresolved(disk)
          \/ d.kind = "finish" /\ d.reason \in Reasons \cup {""}
          \/ SendShape(disk, d)
      BY <2>2, <2>5, DecideForms, Zenon
    <3>2. Nothing.kind = "none" /\ Query.kind = "query"
      BY DEF Nothing, Query
    <3> QED
      BY <3>1, <3>2
  <2>7. d.kind = "send" => SendCommits(d.child)
    <3>1. d.kind = "send" =>
            (Opening(d.child) => Allowed(disk, d.child)) /\ SendApplies(disk, d.child)
      BY <2>2, <2>3, <2>5, <2>6, SendCommitted
    <3> QED
      BY <2>1, <3>1 DEF SendCommits, Allowed
  <2>8. d.kind = "finish" => FinishApplies(disk, d.reason)
    BY <2>2, <2>5, FinishChosen
  <2> QED
    BY <2>1, <2>4, <2>7, <2>8
<1>3. IndInv /\ SizedInv /\ [Next]_vars => SizedInv'
  BY SizedStep
<1> QED
  BY <1>1, <1>2, <1>3, Invariance, PTL DEF Spec

-----------------------------------------------------------------------------
\* The live runner.  LiveInv is kept together with the executor's invariants: a
\* step of the runner is a step of the executor because of it, and it is kept
\* because that step keeps IndInv, LedgerInv and PositiveInv.

\* Every price sent, worked and executed, and every quantity executed, is
\* positive.
PositiveInv ==
    /\ \A i \in DOMAIN disk.sent : Opening(disk.sent[i]) => disk.sent[i].price >= 1
    /\ \A o \in live : o.price >= 1
    /\ \A i \in DOMAIN execs : execs[i].qty >= 1 /\ execs[i].price >= 1

\* The journal keeps its part (Apply of RecSend refuses a price below 1).
LEMMA PositiveDisk ==
    ASSUME IndInv, PositiveInv, [Next]_vars
    PROVE  \A i \in DOMAIN disk'.sent : Opening(disk'.sent[i]) => disk'.sent[i].price >= 1
<1>1. disk \in State
  BY DEF IndInv, TypeOK
<1>2. CASE DiskStarts
  <2>1. PICK in \in Intents : disk' = AfterStart(in)
    BY <1>2 DEF DiskStarts
  <2>3. disk'.sent = <<>>
    BY <2>1 DEF AfterStart, NewState
  <2>2. DOMAIN <<>> = {}
    OBVIOUS
  <2> QED
    BY <2>2, <2>3
<1>3. CASE DiskKeeps
  BY <1>3 DEF DiskKeeps, SameBase, PositiveInv
<1>4. CASE DiskSends
  <2>1. PICK c, r : SendApplies(disk, c) /\ disk' = AfterSend(disk, c, r, now)
    BY <1>4 DEF DiskSends
  <2>2. disk'.sent = Append(disk.sent, c)
    BY <1>1, <2>1 DEF AfterSend, State
  <2>3. Opening(c) => c.price >= 1
    <3>1. Opening(c) => c.price \in Nat \ {0}
      BY <2>1, Zenon DEF SendApplies
    <3> QED
      BY <3>1
  <2>4. disk.sent \in Seq(Child)
    BY <1>1, StateFields
  <2> DEFINE s2 == Append(disk.sent, c)
  <2>5. \A i \in DOMAIN s2 : (i \in DOMAIN disk.sent /\ s2[i] = disk.sent[i]) \/ s2[i] = c
    BY <2>4
  <2> HIDE DEF s2
  <2>6. \A i \in DOMAIN s2 : Opening(s2[i]) => s2[i].price >= 1
    BY <2>3, <2>5 DEF PositiveInv
  <2> QED
    BY <2>2, <2>6 DEF s2
<1> QED
  BY <1>2, <1>3, <1>4, DiskSteps

\* An execution is of a working order, which it leaves with its price and key.
LEMMA FillIs ==
    ASSUME IndInv, BrokerFill
    PROVE  \E o \in live, q \in Nat \ {0} :
             /\ execs' = Append(execs, [key |-> o.key, qty |-> q, price |-> o.price])
             /\ DOMAIN execs' = DOMAIN execs \cup {Len(execs) + 1}
             /\ Len(execs) + 1 \notin DOMAIN execs
             /\ \A i \in DOMAIN execs : execs'[i] = execs[i]
             /\ execs'[Len(execs) + 1] = [key |-> o.key, qty |-> q, price |-> o.price]
             /\ \A p \in live' : \E w \in live : p.key = w.key /\ p.price = w.price
<1>1. live \subseteq Working /\ execs \in Seq(Execution)
  BY DEF IndInv, TypeOK
<1>2. PICK o \in live : \E q \in 1 .. o.open :
        /\ execs' = Append(execs, [key |-> o.key, qty |-> q, price |-> o.price])
        /\ live' = (live \ {o}) \cup (IF q = o.open THEN {} ELSE {[o EXCEPT !.open = @ - q]})
  BY DEF BrokerFill
<1>3. PICK q \in 1 .. o.open :
        /\ execs' = Append(execs, [key |-> o.key, qty |-> q, price |-> o.price])
        /\ live' = (live \ {o}) \cup (IF q = o.open THEN {} ELSE {[o EXCEPT !.open = @ - q]})
  BY <1>2
<1>4. o \in Working /\ o.open \in Nat /\ q \in Nat \ {0}
  BY <1>1 DEF Working
<1>5. [o EXCEPT !.open = @ - q].key = o.key /\ [o EXCEPT !.open = @ - q].price = o.price
  BY <1>4 DEF Working
<1>6. \A p \in live' : \E w \in live : p.key = w.key /\ p.price = w.price
  BY <1>3, <1>5
<1> DEFINE e == [key |-> o.key, qty |-> q, price |-> o.price]
<1>7. e \in Execution
  BY <1>4 DEF Working, Execution
<1> HIDE DEF e
<1>8. /\ DOMAIN Append(execs, e) = DOMAIN execs \cup {Len(execs) + 1}
      /\ Len(execs) + 1 \notin DOMAIN execs
      /\ \A i \in DOMAIN execs : Append(execs, e)[i] = execs[i]
      /\ Append(execs, e)[Len(execs) + 1] = e
  BY <1>1, <1>7
<1>9. execs' = Append(execs, e)
  BY <1>3 DEF e
<1> QED
  BY <1>4, <1>6, <1>8, <1>9 DEF e

\* Every step keeps PositiveInv.
LEMMA PositiveStep ==
    ASSUME IndInv, PositiveInv, [Next]_vars, ~LateDelivery PROVE PositiveInv'
<1>1. live \subseteq Working /\ late = {}
  BY DEF IndInv, TypeOK, BrokerInv
<1>2. CASE UNCHANGED brokerVars
  BY <1>2, PositiveDisk DEF brokerVars, PositiveInv
<1>3. CASE BrokerFill
  <2>1. PICK o \in live, q \in Nat \ {0} :
             /\ DOMAIN execs' = DOMAIN execs \cup {Len(execs) + 1}
             /\ \A i \in DOMAIN execs : execs'[i] = execs[i]
             /\ execs'[Len(execs) + 1] = [key |-> o.key, qty |-> q, price |-> o.price]
             /\ \A p \in live' : \E w \in live : p.key = w.key /\ p.price = w.price
    BY <1>3, FillIs
  <2>2. \A i \in DOMAIN execs' : execs'[i].qty >= 1 /\ execs'[i].price >= 1
    BY <2>1 DEF PositiveInv
  <2>3. \A p \in live' : p.price >= 1
    BY <2>1 DEF PositiveInv
  <2> QED
    BY <2>2, <2>3, PositiveDisk DEF PositiveInv
<1>4. CASE BrokerDrop
  BY <1>4, PositiveDisk DEF BrokerDrop, PositiveInv
<1>5. CASE LateArrive
  BY <1>1, <1>5 DEF LateArrive
<1>6. CASE GwSend
  <2>1. mem = disk /\ Unresolved(disk)
    BY <1>6, InTick DEF GwSend, IndInv, ProcessInv
  <2>2. disk.inFlight \in Child
    BY <2>1, InFlight
  <2>3. disk \in State /\ JournalOK(disk)
    BY DEF IndInv, TypeOK
  <2>4. Len(disk.sent) \in DOMAIN disk.sent /\ disk.inFlight = disk.sent[Len(disk.sent)]
    BY <2>1, <2>3, LastSent
  <2>5. Opening(disk.inFlight) => disk.inFlight.price >= 1
    BY <2>4 DEF PositiveInv
  <2>6. \A o \in AfterBroker(disk.inFlight) : o.price >= 1
    BY <1>1, <2>2, <2>5, AfterBrokerForms DEF PositiveInv
  <2>7. live' \in {live, AfterBroker(disk.inFlight)} /\ UNCHANGED execs
    BY <1>6, <2>1 DEF GwSend
  <2> QED
    BY <2>6, <2>7, PositiveDisk DEF PositiveInv
<1>7. CASE \/ Quiet \/ JournalStarts \/ JournalFills \/ JournalReconciles \/ JournalFinishes
           \/ JournalSends \/ JournalOutcomes
  BY <1>2, <1>7 DEF Quiet, JournalStarts, JournalFills, JournalReconciles, JournalFinishes,
                    JournalSends, JournalOutcomes, Journaled
<1> QED
  BY <1>3, <1>4, <1>5, <1>6, <1>7, StepKinds

\* Where driveLive has an executor that is ready for the next call.
Reading == {"ledger", "rows", "book", "tick", "wait"}

DrivePcs == Reading \cup {"off", "ticking", "over", "failed", "stop", "lastTick"}
DriveType == [pc : DrivePcs, rows : SUBSET Nat, left : SUBSET Nat, complete : BOOLEAN]

\* Where driveLive is, and what it relies on there.
DriveInv ==
    /\ drive \in DriveType
    /\ booked \subseteq DOMAIN execs
    /\ drive.pc # "off" => up
    /\ drive.pc \notin {"ticking", "over"} => pc = "idle"
    /\ drive.pc \in Reading => err = ""
    /\ drive.pc \in Reading \cup {"ticking"} => Started(disk)

\* Every order at the broker and every execution is of an order E1 placed, and E1
\* places what it was sent.
PlaceInv ==
    /\ placed \subseteq requested
    /\ \A o \in live : o.key \in placed
    /\ \A i \in DOMAIN execs : execs[i].key \in placed

\* A cached view of a terminal order stays the broker's view.
TerminalInv ==
    \A t \in terminal :
        /\ t.key \in placed /\ \A o \in live : o.key # t.key
        /\ t.filled = QtyOf(DOMAIN execs, t.key)

\* While the orders are read back: an order that was read as terminal has ended
\* at the broker and all its executions are counted, whatever the broker and the
\* ledger did since; and a ledger that was complete does not come out otherwise.
RowsOK ==
    /\ ~Unresolved(disk)
    /\ drive.rows \subseteq DOMAIN execs /\ drive.left \subseteq placed
    /\ ledgerComplete => drive.complete
    /\ drive.complete =>
        \A k \in placed \ drive.left :
            /\ \A o \in live : o.key # k
            /\ \A i \in DOMAIN execs : execs[i].key = k => i \in disk.fills
RowsInv == drive.pc = "rows" => RowsOK

\* The inductive invariant of the live runner.
LiveInv ==
    /\ IndInv /\ LedgerInv /\ PositiveInv
    /\ DriveInv /\ PlaceInv /\ TerminalInv /\ RowsInv

\* Between the reads of a round the executor is idle, started and without an
\* error, and holds the journal's state.
LEMMA Ready ==
    ASSUME LiveInv, drive.pc \in Reading
    PROVE  up /\ err = "" /\ pc = "idle" /\ mem = disk /\ Started(disk)
<1>1. drive.pc \notin {"off", "ticking", "over"}
  BY DEF Reading
<1>2. up /\ err = "" /\ pc = "idle" /\ Started(disk)
  BY <1>1 DEF LiveInv, DriveInv
<1> QED
  BY <1>2 DEF LiveInv, IndInv, ProcessInv, MemoryIsDurable

\* A row of the ledger is a fill the executor counts: it is of an order the
\* journal sent, and has a quantity and a price.
LEMMA RowApplies ==
    ASSUME LiveInv, drive.pc = "rows", NEW i \in NewRows
    PROVE  i \in DOMAIN execs /\ FillApplies(mem, FillOf(i))
<1>1. mem = disk /\ Started(disk)
  BY Ready DEF Reading
<1>2. i \in DOMAIN execs /\ i \notin mem.fills
  BY DEF NewRows, LiveInv, RowsInv, RowsOK
<1>3. execs[i].qty >= 1 /\ execs[i].price >= 1
  BY <1>2 DEF LiveInv, PositiveInv
<1>4. execs[i].key \in 1 .. Len(disk.sent)
  BY <1>2 DEF LiveInv, IndInv, GatewayInv
<1>5. disk \in State /\ JournalOK(disk)
  BY DEF LiveInv, IndInv, TypeOK
<1>6. disk.sent \in Seq(Child)
  BY <1>5, StateFields
<1>7. execs[i].key \in DOMAIN disk.sent
  BY <1>4, <1>6
<1>8. execs[i].key \in SentKeys(disk)
  BY <1>5, <1>7 DEF JournalOK, SentKeys
<1> QED
  BY <1>1, <1>2, <1>3, <1>8 DEF FillApplies, FillOf

\* Once every order was read back as terminal, the ledger and the broker agree as
\* if they had been looked at together.
LEMMA CompleteIsTrue ==
    ASSUME LiveInv, drive.pc = "rows", drive.left = {}, mem.fills \subseteq drive.rows,
           drive.complete
    PROVE  live = {} /\ LedgerAgreesWith(mem)
<1>1. mem = disk
  BY Ready DEF Reading
<1>2. \A k \in placed : /\ \A o \in live : o.key # k
                        /\ \A i \in DOMAIN execs : execs[i].key = k => i \in disk.fills
  BY DEF LiveInv, RowsInv, RowsOK
<1>3. live = {}
  BY <1>2 DEF LiveInv, PlaceInv
<1>4. DOMAIN execs \subseteq disk.fills
  BY <1>2 DEF LiveInv, PlaceInv
<1>5. disk.fills \subseteq DOMAIN execs
  BY <1>1 DEF LiveInv, RowsInv, RowsOK
<1> QED
  BY <1>1, <1>3, <1>4, <1>5 DEF LedgerAgreesWith

\* The reads of a round and the ledger's own steps leave the executor alone.
LEMMA ReadsStutter ==
    ASSUME \/ Drive \/ ReadLedger \/ ReadOrder \/ ReadFails \/ TickReturns \/ NextRound
           \/ Cancel \/ LedgerBooks \/ LedgerSupersedes
    PROVE  UNCHANGED vars
BY DEF Drive, ReadLedger, ReadOrder, ReadFails, TickReturns, NextRound, Cancel, LedgerBooks,
       LedgerSupersedes

\* Every step of the live runner is a step of the executor, or none.
LEMMA LiveSimulates ==
    ASSUME LiveInv, LiveNext, RequireLedgerComplete PROVE [Next]_vars
<1>1. CASE \/ Drive \/ ReadLedger \/ ReadOrder \/ ReadFails \/ TickReturns \/ NextRound
           \/ Cancel \/ LedgerBooks \/ LedgerSupersedes
  BY <1>1, ReadsStutter
<1>2. CASE Operator
  BY <1>2 DEF Operator, Next
<1>3. CASE LedgerRow
  <2>1. drive.pc = "rows" /\ up /\ pc = "idle"
    BY <1>3 DEF LedgerRow, At
  <2>2. err = ""
    BY <2>1, Ready DEF Reading
  <2>3. PICK i \in NewRows, ok \in BOOLEAN, onDisk \in BOOLEAN :
          Commit(AfterFill(mem, FillOf(i)), ok, onDisk)
    BY <1>3 DEF LedgerRow
  <2>4. i \in DOMAIN execs /\ FillApplies(mem, FillOf(i))
    BY <2>1, RowApplies
  <2>5. UNCHANGED <<up, killed, now, top, ledgerComplete, pc, steps, answer, brokerVars, history>>
    BY <1>3 DEF LedgerRow
  <2>6. OnFill
    BY <2>1, <2>2, <2>3, <2>4, <2>5 DEF OnFill, Idle, FillOf
  <2> QED
    BY <2>6 DEF Next
<1>4. CASE LedgerRead
  <2>1. drive.pc = "rows" /\ up /\ pc = "idle" /\ drive.left = {}
    BY <1>4 DEF LedgerRead, At
  <2>2. err = "" /\ mem = disk /\ Started(disk) /\ ~Unresolved(disk)
    BY <2>1, Ready DEF Reading, LiveInv, RowsInv, RowsOK
  <2>3. UNCHANGED <<up, disk, killed, now, faults, mem, top, err, pc, steps, answer, brokerVars,
                    history>>
    BY <1>4 DEF LedgerRead
  <2>4. CASE UNCHANGED ledgerComplete
    BY <2>3, <2>4 DEF vars, execVars
  <2>5. CASE mem.fills \subseteq drive.rows /\ ledgerComplete' = drive.complete
    <3>1. drive.complete \in BOOLEAN /\ ledgerComplete \in BOOLEAN
      BY DEF LiveInv, DriveInv, DriveType, IndInv, TypeOK
    <3>2. CASE drive.complete
      <4>1. live = {} /\ LedgerAgreesWith(mem)
        BY <2>1, <2>5, <3>2, CompleteIsTrue
      <4>2. ledgerComplete' = (live = {})
        BY <2>5, <3>1, <3>2, <4>1
      <4>3. SetLedgerComplete
        BY <2>1, <2>2, <2>3, <4>1, <4>2 DEF SetLedgerComplete, Idle
      <4> QED
        BY <4>3 DEF Next
    <3>3. CASE ~drive.complete
      <4>1. ledgerComplete' = ledgerComplete
        BY <2>1, <2>5, <3>1, <3>3 DEF LiveInv, RowsInv, RowsOK
      <4> QED
        BY <2>4, <4>1
    <3> QED
      BY <3>2, <3>3
  <2> QED
    BY <1>4, <2>4, <2>5 DEF LedgerRead
<1>5. CASE ReadBook
  BY <1>5 DEF ReadBook, Next
<1>6. CASE BeginTick \/ LastTick
  BY <1>6 DEF BeginTick, LastTick, Next, Tick
<1>7. CASE TickSteps
  BY <1>7 DEF TickSteps, Next, Tick
<1>8. CASE StopForReconcile
  <2>1. killed' = TRUE /\ up
        /\ UNCHANGED <<up, disk, now, faults, execVars, brokerVars, history>>
    BY <1>8 DEF StopForReconcile, At
  <2>2. killed \in BOOLEAN
    BY DEF LiveInv, IndInv, TypeOK
  <2>3. CASE killed
    BY <2>1, <2>2, <2>3 DEF vars
  <2>4. CASE ~killed
    BY <2>1, <2>4 DEF EngageKill, Next, Environment
  <2> QED
    BY <2>3, <2>4
<1>9. CASE RunReturns \/ RunCrashes
  BY <1>9 DEF RunReturns, RunCrashes, Next
<1>10. CASE Surroundings
  BY <1>10 DEF Surroundings, Next, Environment
<1> QED
  BY <1>1, <1>2, <1>3, <1>4, <1>5, <1>6, <1>7, <1>8, <1>9, <1>10 DEF LiveNext, DriveSteps

\* What a step of the live runner does to the broker and to E1's orders.
LEMMA LiveBroker ==
    ASSUME LiveInv, LiveNext
    PROVE  \/ UNCHANGED <<live, execs, placed, requested>>
           \/ (BrokerFill \/ BrokerDrop) /\ UNCHANGED <<placed, requested>>
           \/ GwSend /\ placed' = placed \cup {o.key : o \in live'}
<1> DEFINE Same == UNCHANGED <<live, execs, placed, requested>>
<1>1. CASE \/ Drive \/ ReadLedger \/ ReadOrder \/ ReadFails \/ TickReturns \/ NextRound
           \/ Cancel \/ LedgerBooks \/ LedgerSupersedes
  <2>1. UNCHANGED placed
    BY <1>1 DEF Drive, ReadLedger, ReadOrder, ReadFails, TickReturns, NextRound, Cancel,
                LedgerBooks, LedgerSupersedes, ledgerVars
  <2> QED
    BY <1>1, <2>1, ReadsStutter DEF vars, brokerVars, history
<1>2. CASE Operator
  <2>1. Start \/ Restart
    BY <1>2 DEF Operator
  <2>2. UNCHANGED <<brokerVars, history>>
    BY <2>1 DEF Start, Restart
  <2>3. UNCHANGED placed
    BY <1>2 DEF Operator, ledgerVars
  <2> QED
    BY <2>2, <2>3 DEF brokerVars, history
<1>3. CASE LedgerRow \/ LedgerRead
  BY <1>3 DEF LedgerRow, LedgerRead, ledgerVars, brokerVars, history
<1>4. CASE ReadBook \/ BeginTick \/ LastTick
  <2>1. OnBook \/ UNCHANGED vars \/ TickStart
    BY <1>4 DEF ReadBook, BeginTick, LastTick
  <2>2. UNCHANGED <<brokerVars, history>>
    BY <2>1 DEF OnBook, TickStart, vars
  <2>3. UNCHANGED placed
    BY <1>4 DEF ReadBook, BeginTick, LastTick, ledgerVars
  <2> QED
    BY <2>2, <2>3 DEF brokerVars, history
<1>5. CASE TickSteps
  <2>1. placed' = placed \cup {o.key : o \in live'}
    BY <1>5 DEF TickSteps
  <2>2. CASE TickStep \/ SendOutcome
    <3>1. UNCHANGED <<brokerVars, requested>>
      BY <2>2 DEF TickStep, SendOutcome, TickNothing, TickQueryFails, TickQuery, TickFinish,
                  TickSend, history
    <3>2. {o.key : o \in live} \subseteq placed
      BY DEF LiveInv, PlaceInv
    <3> QED
      BY <2>1, <3>1, <3>2 DEF brokerVars
  <2> QED
    BY <1>5, <2>1, <2>2 DEF TickSteps
<1>6. CASE StopForReconcile
  BY <1>6 DEF StopForReconcile, ledgerVars, brokerVars, history
<1>7. CASE RunReturns \/ RunCrashes
  BY <1>7 DEF RunReturns, RunCrashes, Exit, Crash, ledgerVars, brokerVars, history
<1>8. CASE Surroundings
  <2>1. UNCHANGED placed
    BY <1>8 DEF Surroundings, ledgerVars
  <2>2. BrokerFill \/ BrokerDrop \/ Advance
    BY <1>8 DEF Surroundings
  <2>3. UNCHANGED requested
    BY <2>2 DEF BrokerFill, BrokerDrop, Advance, history
  <2>4. Advance => UNCHANGED <<live, execs>>
    BY DEF Advance, brokerVars
  <2> QED
    BY <2>1, <2>2, <2>3, <2>4
<1> QED
  BY <1>1, <1>2, <1>3, <1>4, <1>5, <1>6, <1>7, <1>8 DEF LiveNext, DriveSteps

\* What gw.Send adds to the working orders has the key just sent.
LEMMA SendsKey ==
    ASSUME IndInv, GwSend
    PROVE  /\ UNCHANGED execs /\ disk.inFlight.key \notin requested
           /\ requested \subseteq requested'
           /\ \A p \in live' : p.key = disk.inFlight.key \/ \E o \in live : p.key = o.key
<1>1. mem = disk /\ Unresolved(disk)
  BY InTick DEF GwSend, IndInv, ProcessInv
<1>2. disk.inFlight \in Child
  BY <1>1, InFlight
<1>3. live' \in {live, AfterBroker(disk.inFlight)} /\ UNCHANGED execs
      /\ requested \subseteq requested' /\ pc = "send"
  BY <1>1 DEF GwSend
<1>4. live \subseteq Working
  BY DEF IndInv, TypeOK
<1>5. disk.inFlight.key \notin requested
  BY <1>1, <1>3 DEF IndInv, GatewayInv, KeyUsedOnce
<1> QED
  BY <1>2, <1>3, <1>4, <1>5, AfterBrokerForms

\* Every step keeps PlaceInv.
LEMMA PlaceStep ==
    ASSUME LiveInv, LiveNext, IndInv' PROVE PlaceInv'
<1>0. IndInv
  BY DEF LiveInv
<1>1. CASE UNCHANGED <<live, execs, placed, requested>>
  BY <1>1 DEF LiveInv, PlaceInv
<1>2. CASE BrokerFill /\ UNCHANGED <<placed, requested>>
  <2>1. PICK o \in live, q \in Nat \ {0} :
             /\ DOMAIN execs' = DOMAIN execs \cup {Len(execs) + 1}
             /\ \A i \in DOMAIN execs : execs'[i] = execs[i]
             /\ execs'[Len(execs) + 1] = [key |-> o.key, qty |-> q, price |-> o.price]
             /\ \A p \in live' : \E w \in live : p.key = w.key /\ p.price = w.price
    BY <1>0, <1>2, FillIs
  <2>2. \A p \in live' : p.key \in placed
    BY <2>1 DEF LiveInv, PlaceInv
  <2>3. \A i \in DOMAIN execs' : execs'[i].key \in placed
    BY <2>1 DEF LiveInv, PlaceInv
  <2> QED
    BY <1>2, <2>2, <2>3 DEF LiveInv, PlaceInv
<1>3. CASE BrokerDrop /\ UNCHANGED <<placed, requested>>
  BY <1>3 DEF BrokerDrop, LiveInv, PlaceInv
<1>4. CASE GwSend /\ placed' = placed \cup {o.key : o \in live'}
  <2>1. \A o \in live' : o.key \in requested'
    BY DEF IndInv, GatewayInv
  <2> QED
    BY <1>0, <1>4, <2>1, SendsKey DEF LiveInv, PlaceInv
<1> QED
  BY <1>1, <1>2, <1>3, <1>4, LiveBroker

\* An order that is not working fills no more: what it has executed stays.
LEMMA FilledStays ==
    ASSUME IndInv, BrokerFill, NEW k, \A o \in live : o.key # k
    PROVE  /\ \A o \in live' : o.key # k
           /\ QtyOf(DOMAIN execs, k)' = QtyOf(DOMAIN execs, k)
<1>1. PICK o \in live, q \in Nat \ {0} :
             /\ DOMAIN execs' = DOMAIN execs \cup {Len(execs) + 1}
             /\ \A i \in DOMAIN execs : execs'[i] = execs[i]
             /\ execs'[Len(execs) + 1] = [key |-> o.key, qty |-> q, price |-> o.price]
             /\ \A p \in live' : \E w \in live : p.key = w.key /\ p.price = w.price
  BY FillIs
<1> DEFINE S == {i \in DOMAIN execs : execs[i].key = k}
<1>2. {i \in DOMAIN execs' : execs'[i].key = k} = S
  BY <1>1
<1>3. execs \in Seq(Execution)
  BY DEF IndInv, TypeOK
<1>4. IsFiniteSet(S)
  BY <1>3, ExecQtys, FS_Subset
<1>5. \A i \in DOMAIN execs : (ExecQty')[i] = ExecQty[i] /\ ExecQty[i] \in Int
  BY <1>1, <1>3, ExecQtys DEF ExecQty
<1>6. SumFunctionOnSet(ExecQty', S) = SumFunctionOnSet(ExecQty, S)
  BY <1>4, <1>5, SumSame
<1>7. QtyOf(DOMAIN execs, k) = SumFunctionOnSet(ExecQty, S)
  BY DEF QtyOf, ExecQty
<1>8. QtyOf(DOMAIN execs, k)' = SumFunctionOnSet(ExecQty', S)
  BY <1>2 DEF QtyOf, ExecQty
<1>9. \A p \in live' : p.key # k
  BY <1>1
<1> QED
  BY <1>6, <1>7, <1>8, <1>9

\* So a cached view of a terminal order stays true.
LEMMA TerminalStays ==
    ASSUME LiveInv, LiveNext, NEW t \in terminal
    PROVE  /\ t.key \in placed' /\ \A o \in live' : o.key # t.key
           /\ t.filled = QtyOf(DOMAIN execs, t.key)'
<1>0. IndInv
  BY DEF LiveInv
<1>1. t.key \in placed /\ (\A o \in live : o.key # t.key) /\ t.filled = QtyOf(DOMAIN execs, t.key)
  BY DEF LiveInv, TerminalInv
<1>2. UNCHANGED execs => QtyOf(DOMAIN execs, t.key)' = QtyOf(DOMAIN execs, t.key)
  BY DEF QtyOf
<1>3. CASE UNCHANGED <<live, execs, placed, requested>>
  BY <1>1, <1>2, <1>3
<1>4. CASE BrokerFill /\ UNCHANGED <<placed, requested>>
  BY <1>0, <1>1, <1>4, FilledStays
<1>5. CASE BrokerDrop /\ UNCHANGED <<placed, requested>>
  BY <1>1, <1>2, <1>5 DEF BrokerDrop
<1>6. CASE GwSend /\ placed' = placed \cup {o.key : o \in live'}
  <2>1. t.key \in requested
    BY <1>1 DEF LiveInv, PlaceInv
  <2> QED
    BY <1>0, <1>1, <1>2, <1>6, <2>1, SendsKey
<1> QED
  BY <1>3, <1>4, <1>5, <1>6, LiveBroker

\* What ReadOrder takes for the order's view, cached or read, is the broker's,
\* and an order it takes for terminal has ended.
LEMMA OrderView ==
    ASSUME LiveInv, ReadOrder
    PROVE  \E k \in drive.left : \E v : \E ended \in BOOLEAN :
             /\ v.key = k /\ v.filled = QtyOf(DOMAIN execs, k)
             /\ ended <=> \A o \in live : o.key # k
             /\ {i \in NewRows : execs[i].key = k} = {}
             /\ terminal' = IF ended THEN terminal \cup {v} ELSE terminal
             /\ \/ /\ Agree(k, v.filled)
                   /\ drive' = [drive EXCEPT !.left = @ \ {k}, !.complete = @ /\ ended]
                \/ Failed
<1>1. PICK k \in drive.left :
        LET known == {t \in terminal : t.key = k}
            view == IF known # {} THEN CHOOSE t \in known : TRUE
                    ELSE [key |-> k, filled |-> QtyOf(DOMAIN execs, k)]
            ended == known # {} \/ IsTerminal(k)
        IN  /\ {i \in NewRows : execs[i].key = k} = {}
            /\ terminal' = IF ended THEN terminal \cup {view} ELSE terminal
            /\ IF Agree(k, view.filled)
               THEN drive' = [drive EXCEPT !.left = @ \ {k}, !.complete = @ /\ ended]
               ELSE Failed
  BY DEF ReadOrder
<1> DEFINE known == {t \in terminal : t.key = k}
           view == IF known # {} THEN CHOOSE t \in known : TRUE
                   ELSE [key |-> k, filled |-> QtyOf(DOMAIN execs, k)]
           ended == known # {} \/ IsTerminal(k)
<1>2. /\ {i \in NewRows : execs[i].key = k} = {}
      /\ terminal' = IF ended THEN terminal \cup {view} ELSE terminal
      /\ \/ /\ Agree(k, view.filled)
            /\ drive' = [drive EXCEPT !.left = @ \ {k}, !.complete = @ /\ ended]
         \/ Failed
  BY <1>1
<1>3. view.key = k /\ view.filled = QtyOf(DOMAIN execs, k)
  <2>1. CASE known # {}
    <3>1. view \in known
      BY <2>1
    <3> QED
      BY <3>1 DEF LiveInv, TerminalInv
  <2> QED
    BY <2>1
<1>4. ended \in BOOLEAN /\ (ended <=> \A o \in live : o.key # k)
  BY DEF LiveInv, TerminalInv, IsTerminal
<1> HIDE DEF view, ended
<1> QED
  BY <1>2, <1>3, <1>4

\* Every step keeps TerminalInv.
LEMMA TerminalStep ==
    ASSUME LiveInv, LiveNext PROVE TerminalInv'
<1>1. CASE terminal' \subseteq terminal
  BY <1>1, TerminalStays DEF TerminalInv
<1>2. CASE ReadOrder
  <2>1. PICK k \in drive.left : \E v : \E ended \in BOOLEAN :
          /\ v.key = k /\ v.filled = QtyOf(DOMAIN execs, k)
          /\ ended <=> \A o \in live : o.key # k
          /\ terminal' = IF ended THEN terminal \cup {v} ELSE terminal
    BY <1>2, OrderView
  <2>2. PICK v, ended :
          /\ ended \in BOOLEAN
          /\ v.key = k /\ v.filled = QtyOf(DOMAIN execs, k)
          /\ ended <=> \A o \in live : o.key # k
          /\ terminal' = IF ended THEN terminal \cup {v} ELSE terminal
    BY <2>1
  <2>3. k \in placed
    BY <1>2 DEF ReadOrder, At, LiveInv, RowsInv, RowsOK
  <2>4. UNCHANGED <<live, execs, placed>>
    BY <1>2 DEF ReadOrder, vars, brokerVars, ledgerVars
  <2>5. QtyOf(DOMAIN execs, k)' = QtyOf(DOMAIN execs, k)
    BY <2>4 DEF QtyOf
  <2>6. ended => /\ v.key \in placed' /\ \A o \in live' : o.key # v.key
                 /\ v.filled = QtyOf(DOMAIN execs, v.key)'
    BY <2>2, <2>3, <2>4, <2>5
  <2> QED
    BY <2>2, <2>6, TerminalStays DEF TerminalInv
<1>3. ~ReadOrder => terminal' \in {terminal, {}}
  BY DEF LiveNext, DriveSteps, Operator, Drive, ReadLedger, LedgerRow, LedgerRead, ReadBook, ReadFails,
         BeginTick, TickSteps, TickReturns, NextRound, StopForReconcile, LastTick, RunReturns,
         RunCrashes, Cancel, LedgerBooks, LedgerSupersedes, Surroundings, runVars, RunGone
<1> QED
  BY <1>1, <1>2, <1>3

\* An order whose quantity in the ledger is what the broker has filled, and whose
\* rows are all counted, has all its executions counted.
LEMMA AgreedIsCounted ==
    ASSUME LiveInv, drive.pc = "rows", NEW k \in drive.left, Agree(k, QtyOf(DOMAIN execs, k)),
           {i \in NewRows : execs[i].key = k} = {}
    PROVE  \A i \in DOMAIN execs : execs[i].key = k => i \in mem.fills
<1> DEFINE S == {i \in DOMAIN execs : execs[i].key = k}
           R == {i \in drive.rows : execs[i].key = k}
<1>1. drive.rows \subseteq DOMAIN execs
  BY DEF LiveInv, RowsInv, RowsOK
<1>2. execs \in Seq(Execution)
  BY DEF LiveInv, IndInv, TypeOK
<1>3. IsFiniteSet(S) /\ R \in SUBSET S
  BY <1>1, <1>2, ExecQtys, FS_Subset
<1>4. \A i \in S : ExecQty[i] \in Nat /\ ExecQty[i] >= 1
  BY <1>2, ExecQtys DEF LiveInv, PositiveInv
<1>5. SumFunctionOnSet(ExecQty, R) = SumFunctionOnSet(ExecQty, S)
  BY DEF Agree, QtyOf, ExecQty
<1>6. R = S
  BY <1>3, <1>4, <1>5, SumWhole
<1>7. \A i \in R : i \in mem.fills
  BY DEF NewRows
<1> QED
  BY <1>6, <1>7

\* Only these steps leave driveLive among the rows; they change the broker only
\* by its own steps.
LEMMA RowsSteps ==
    ASSUME LiveInv, LiveNext, drive'.pc = "rows"
    PROVE  \/ ReadLedger \/ LedgerRow \/ ReadOrder
           \/ drive' = drive /\ UNCHANGED <<disk, ledgerComplete, placed, live, execs>>
           \/ drive' = drive /\ UNCHANGED <<disk, ledgerComplete, placed>> /\ BrokerFill
           \/ drive' = drive /\ UNCHANGED <<disk, ledgerComplete, placed>> /\ BrokerDrop
<1>0. drive.pc = "rows" => up /\ pc = "idle"
  BY Ready DEF Reading
<1>1. CASE Drive \/ ReadFails \/ ReadBook \/ BeginTick \/ TickReturns \/ NextRound
           \/ LastTick \/ LedgerRead \/ StopForReconcile \/ RunReturns \/ RunCrashes
  <2>1. drive \in DriveType
    BY DEF LiveInv, DriveInv
  <2>2. \A next : [drive EXCEPT !.pc = next].pc = next /\ [NoDrive EXCEPT !.pc = next].pc = next
    BY <2>1 DEF NoDrive, DriveType
  <2>3. NoDrive.pc = "off"
    BY DEF NoDrive
  <2> QED
    BY <1>1, <2>2, <2>3 DEF Drive, ReadFails, ReadBook, BeginTick, TickReturns, NextRound, LastTick,
       LedgerRead, StopForReconcile, RunReturns, RunCrashes, RunGone, DriveTo, Failed
<1>2. CASE Cancel \/ LedgerBooks \/ LedgerSupersedes
  <2>1. UNCHANGED <<drive, placed>> /\ UNCHANGED vars
    BY <1>2, ReadsStutter DEF Cancel, LedgerBooks, LedgerSupersedes, runVars, ledgerVars
  <2> QED
    BY <2>1 DEF vars, execVars, brokerVars
<1>3. CASE TickSteps \/ Operator
  <2>1. drive' = drive
    BY <1>3 DEF TickSteps, Operator, runVars
  <2>2. (TickStep \/ GwSend \/ SendOutcome \/ Restart) \/ drive.pc = "off"
    BY <1>3 DEF TickSteps, Operator
  <2> QED
    BY <1>0, <2>1, <2>2 DEF TickStep, GwSend, SendOutcome, Restart
<1>4. CASE Surroundings
  <2>1. UNCHANGED <<drive, placed>> /\ (BrokerFill \/ BrokerDrop \/ Advance)
    BY <1>4 DEF Surroundings, runVars, ledgerVars
  <2>2. UNCHANGED <<disk, ledgerComplete>>
    BY <2>1 DEF BrokerFill, BrokerDrop, Advance, execVars
  <2>3. Advance => UNCHANGED <<live, execs>>
    BY DEF Advance, brokerVars
  <2> QED
    BY <2>1, <2>2, <2>3
<1> QED
  BY <1>1, <1>2, <1>3, <1>4 DEF LiveNext, DriveSteps

\* Every step keeps RowsInv.
LEMMA RowsStep ==
    ASSUME LiveInv, LiveNext, RequireLedgerComplete PROVE RowsInv'
<1> SUFFICES ASSUME drive'.pc = "rows" PROVE RowsOK'
  BY DEF RowsInv
<1>0. drive \in DriveType
  BY DEF LiveInv, DriveInv
<1>1. drive.pc = "rows" => RowsOK
  BY DEF LiveInv, RowsInv
<1>2. ~Failed
  BY DEF Failed, NoDrive
<1>3. CASE ReadLedger
  <2>1. drive.pc = "ledger" /\ ~Unresolved(mem)
        /\ drive' = [pc |-> "rows", rows |-> booked, left |-> placed, complete |-> TRUE]
    BY <1>2, <1>3 DEF ReadLedger, At
  <2>2. UNCHANGED <<disk, live, execs, ledgerComplete, placed>>
    BY <1>3 DEF ReadLedger, vars, execVars, brokerVars, ledgerVars
  <2>3. mem = disk
    BY <2>1, Ready DEF Reading
  <2>4. booked \subseteq DOMAIN execs
    BY DEF LiveInv, DriveInv
  <2>5. drive'.rows = booked /\ drive'.left = placed /\ drive'.complete = TRUE
    BY <2>1
  <2> QED
    BY <2>1, <2>2, <2>3, <2>4, <2>5 DEF RowsOK, Unresolved
<1>4. CASE LedgerRow
  <2>1. drive.pc = "rows"
    BY <1>4 DEF LedgerRow, At
  <2>2. PICK i \in NewRows, ok \in BOOLEAN, onDisk \in BOOLEAN :
          Commit(AfterFill(mem, FillOf(i)), ok, onDisk) /\ drive' = drive
    BY <1>2, <1>4 DEF LedgerRow
  <2>3. disk' \in {disk, AfterFill(disk, FillOf(i))}
    BY <2>1, <2>2, Ready DEF Reading, Commit
  <2>4. disk \in State
    BY DEF LiveInv, IndInv, TypeOK
  <2>5. disk.fills \subseteq disk'.fills /\ disk'.inFlight = disk.inFlight
    BY <2>3, <2>4 DEF AfterFill, State
  <2>6. UNCHANGED <<live, execs, ledgerComplete, placed>>
    BY <1>4 DEF LedgerRow, brokerVars, ledgerVars
  <2>7. RowsOK
    BY <1>1, <2>1
  <2> QED
    BY <2>2, <2>5, <2>6, <2>7 DEF RowsOK, Unresolved
<1>5. CASE ReadOrder
  <2>1. drive.pc = "rows"
    BY <1>5 DEF ReadOrder, At
  <2>2. PICK k \in drive.left : \E v : \E ended \in BOOLEAN :
          /\ v.filled = QtyOf(DOMAIN execs, k)
          /\ ended <=> \A o \in live : o.key # k
          /\ {i \in NewRows : execs[i].key = k} = {}
          /\ Agree(k, v.filled)
          /\ drive' = [drive EXCEPT !.left = @ \ {k}, !.complete = @ /\ ended]
    BY <1>2, <1>5, OrderView
  <2>3. PICK ended \in BOOLEAN :
          /\ ended <=> \A o \in live : o.key # k
          /\ {i \in NewRows : execs[i].key = k} = {}
          /\ Agree(k, QtyOf(DOMAIN execs, k))
          /\ drive' = [drive EXCEPT !.left = @ \ {k}, !.complete = @ /\ ended]
    BY <2>2
  <2>4. drive'.rows = drive.rows /\ drive'.left = drive.left \ {k}
        /\ drive'.complete = (drive.complete /\ ended)
    BY <1>0, <2>3 DEF DriveType
  <2>5. up /\ err = "" /\ pc = "idle" /\ mem = disk
    BY <2>1, Ready DEF Reading
  <2>6. \A i \in DOMAIN execs : execs[i].key = k => i \in disk.fills
    BY <2>1, <2>3, <2>5, AgreedIsCounted
  <2>7. ledgerComplete => ended
    <3>1. RequireLedgerComplete /\ ledgerComplete => live = {}
      BY <2>5 DEF LiveInv, LedgerInv, Complete
    <3> QED
      BY <2>3, <3>1
  <2>8. UNCHANGED <<disk, live, execs, ledgerComplete, placed>>
    BY <1>5 DEF ReadOrder, vars, execVars, brokerVars, ledgerVars
  <2>9. RowsOK
    BY <1>1, <2>1
  <2>10. ~Unresolved(disk')
    BY <2>8, <2>9 DEF RowsOK, Unresolved
  <2> QED
    BY <2>3, <2>4, <2>6, <2>7, <2>8, <2>9, <2>10 DEF RowsOK
<1>6. CASE drive' = drive /\ UNCHANGED <<disk, ledgerComplete, placed, live, execs>>
  BY <1>1, <1>6 DEF RowsOK, Unresolved
<1>7. CASE drive' = drive /\ UNCHANGED <<disk, ledgerComplete, placed>> /\ BrokerFill
  <2>0. IndInv /\ RowsOK
    BY <1>1, <1>7 DEF LiveInv
  <2>1. PICK o \in live, q \in Nat \ {0} :
             /\ DOMAIN execs' = DOMAIN execs \cup {Len(execs) + 1}
             /\ \A i \in DOMAIN execs : execs'[i] = execs[i]
             /\ execs'[Len(execs) + 1] = [key |-> o.key, qty |-> q, price |-> o.price]
             /\ \A p \in live' : \E w \in live : p.key = w.key /\ p.price = w.price
    BY <1>7, <2>0, FillIs
  <2>2. ASSUME NEW k \in placed \ drive.left, drive.complete
        PROVE  /\ \A p \in live' : p.key # k
               /\ \A i \in DOMAIN execs' : execs'[i].key = k => i \in disk.fills
    <3>1. (\A p \in live : p.key # k) /\ \A i \in DOMAIN execs : execs[i].key = k => i \in disk.fills
      BY <2>0, <2>2 DEF RowsOK
    <3> QED
      BY <2>1, <3>1
  <2>3. ~Unresolved(disk')
    BY <1>7, <2>0 DEF RowsOK, Unresolved
  <2> QED
    BY <1>7, <2>0, <2>1, <2>2, <2>3 DEF RowsOK
<1>8. CASE drive' = drive /\ UNCHANGED <<disk, ledgerComplete, placed>> /\ BrokerDrop
  <2>1. live' \subseteq live /\ UNCHANGED execs
    BY <1>8 DEF BrokerDrop
  <2> QED
    BY <1>1, <1>8, <2>1 DEF RowsOK, Unresolved
<1> QED
  BY <1>3, <1>4, <1>5, <1>6, <1>7, <1>8, RowsSteps

\* A started intent stays started.
LEMMA StaysStarted ==
    ASSUME IndInv, [Next]_vars, Started(disk) PROVE Started(disk)'
<1>1. disk \in State
  BY DEF IndInv, TypeOK
<1>2. CASE DiskKeeps
  BY <1>2 DEF DiskKeeps, SameBase, Started
<1>3. CASE DiskSends
  <2>1. PICK c, r : disk' = AfterSend(disk, c, r, now)
    BY <1>3 DEF DiskSends
  <2>2. disk'.intent = disk.intent
    BY <1>1, <2>1 DEF AfterSend, State
  <2> QED
    BY <2>2 DEF Started
<1> QED
  BY <1>2, <1>3, DiskSteps DEF DiskStarts

\* Every step keeps DriveInv.
LEMMA DriveStep ==
    ASSUME LiveInv, LiveNext, [Next]_vars PROVE DriveInv'
<1> DEFINE Place == /\ drive.pc # "off" => up
                    /\ drive.pc \notin {"ticking", "over"} => pc = "idle"
                    /\ drive.pc \in Reading => err = ""
                    /\ drive.pc \in Reading \cup {"ticking"} => Started(disk)
<1>0. /\ drive \in DriveType /\ booked \subseteq DOMAIN execs /\ Place
      /\ IndInv /\ execs \in Seq(Execution) /\ placed \subseteq Nat
  <2>1. requested \subseteq Nat
    BY DEF LiveInv, IndInv, TypeOK
  <2> QED
    BY <2>1 DEF LiveInv, DriveInv, IndInv, TypeOK, PlaceInv
<1>1. NoDrive \in DriveType /\ NoDrive.pc = "off"
      /\ \A next \in DrivePcs : /\ [drive EXCEPT !.pc = next] \in DriveType
                                /\ [NoDrive EXCEPT !.pc = next] \in DriveType
                                /\ [drive EXCEPT !.pc = next].pc = next
                                /\ [NoDrive EXCEPT !.pc = next].pc = next
  BY <1>0 DEF NoDrive, DriveType, DrivePcs
<1>2. {"ledger", "tick", "ticking", "over", "wait", "failed", "stop", "lastTick", "book"}
      \subseteq DrivePcs
  BY DEF Reading, DrivePcs
<1>3. SUFFICES drive' \in DriveType /\ booked' \subseteq DOMAIN execs' /\ Place'
  BY DEF DriveInv
<1>4. DOMAIN execs \subseteq DOMAIN execs'
  BY <1>0, LiveBroker, FillIs DEF BrokerDrop, GwSend
<1>5. booked' \subseteq DOMAIN execs'
  <2>1. LedgerBooks => booked' \subseteq DOMAIN execs
    BY <1>0 DEF LedgerBooks
  <2>2. ~LedgerBooks => booked' \subseteq booked
    BY DEF LiveNext, DriveSteps, Operator, Drive, ReadLedger, LedgerRow, ReadOrder, LedgerRead, ReadBook,
         ReadFails, BeginTick, TickSteps, TickReturns, NextRound, StopForReconcile, LastTick,
         RunReturns, RunCrashes, Cancel, LedgerSupersedes, Surroundings, ledgerVars
  <2> QED
    BY <1>0, <1>4, <2>1, <2>2
<1>6. Started(disk) => Started(disk')
  BY <1>0, StaysStarted DEF Started
<1>7. drive' \in DriveType /\ Place'
  <2>1. CASE Drive
    <3>1. up /\ pc = "idle" /\ err = "" /\ Started(mem) /\ drive' = [drive EXCEPT !.pc = "ledger"]
          /\ UNCHANGED vars
      BY <2>1 DEF Drive, At, DriveTo
    <3>2. mem = disk
      BY <1>0, <3>1 DEF IndInv, ProcessInv, MemoryIsDurable
    <3>3. UNCHANGED <<up, pc, err, disk>>
      BY <3>1 DEF vars, execVars
    <3> QED
      BY <1>1, <1>2, <3>1, <3>2, <3>3
  <2>2. CASE ReadLedger \/ ReadOrder \/ ReadFails \/ NextRound \/ TickReturns
    <3>1. up /\ pc = "idle" /\ UNCHANGED vars
      BY <2>2 DEF ReadLedger, ReadOrder, ReadFails, NextRound, TickReturns, At
    <3>2. UNCHANGED <<up, pc, err, disk>>
      BY <3>1 DEF vars, execVars
    <3>3. drive' \in DriveType
          /\ \/ drive'.pc \in Reading /\ (drive.pc \in Reading \/ (drive.pc = "ticking" /\ err = ""))
             \/ drive'.pc \in {"over", "failed", "stop"}
      <4>1. CASE ReadLedger
        <5>1. CASE Failed
          BY <1>1, <1>2, <5>1 DEF Failed
        <5>2. CASE drive' = [pc |-> "rows", rows |-> booked, left |-> placed, complete |-> TRUE]
          <6>1. drive.pc = "ledger"
            BY <4>1 DEF ReadLedger, At
          <6>2. booked \subseteq Nat
            <7>1. execs \in Seq(Execution)
              BY <1>0
            <7>2. DOMAIN execs \subseteq Nat
              BY <7>1
            <7> QED
              BY <1>0, <7>2, Zenon
          <6> QED
            BY <1>0, <5>2, <6>1, <6>2 DEF DriveType, DrivePcs, Reading
        <5> QED
          BY <4>1, <5>1, <5>2 DEF ReadLedger
      <4>2. CASE ReadOrder
        <5>1. CASE Failed
          BY <1>1, <1>2, <5>1 DEF Failed
        <5>2. CASE ~Failed
          <6>1. PICK k, ended : drive' = [drive EXCEPT !.left = @ \ {k}, !.complete = @ /\ ended]
            BY <4>2, <5>2, OrderView
          <6>2. drive.pc = "rows"
            BY <4>2 DEF ReadOrder, At
          <6> QED
            BY <1>0, <6>1, <6>2 DEF DriveType, DrivePcs, Reading
        <5> QED
          BY <5>1, <5>2
      <4>3. CASE ReadFails
        BY <1>1, <1>2, <4>3 DEF ReadFails, Failed
      <4>4. CASE NextRound
        <5>1. drive.pc = "wait" /\ drive' = [drive EXCEPT !.pc = "ledger"]
          BY <4>4 DEF NextRound, At, DriveTo
        <5>2. drive' \in DriveType /\ drive'.pc = "ledger"
          BY <1>1, <1>2, <5>1
        <5> QED
          BY <5>1, <5>2 DEF Reading
      <4>5. CASE TickReturns
        <5>1. CASE Failed
          BY <1>1, <1>2, <5>1 DEF Failed
        <5>2. CASE err = "" /\ DriveTo(IF mem.done # "" THEN "over" ELSE "wait")
          <6>1. drive.pc = "ticking"
            BY <4>5 DEF TickReturns, At
          <6> QED
            BY <1>1, <1>2, <5>2, <6>1 DEF DriveTo, Reading
        <5> QED
          BY <4>5, <5>1, <5>2 DEF TickReturns
      <4> QED
        BY <2>2, <4>1, <4>2, <4>3, <4>4, <4>5
    <3> QED
      BY <1>0, <3>1, <3>2, <3>3 DEF Reading
  <2>3. CASE Cancel \/ LedgerBooks \/ LedgerSupersedes
    <3>1. UNCHANGED <<vars, drive>>
      BY <2>3 DEF Cancel, LedgerBooks, LedgerSupersedes, runVars
    <3> QED
      BY <1>0, <3>1 DEF vars, execVars
  <2>4. CASE LedgerRow
    <3>1. drive.pc = "rows" /\ up /\ pc = "idle" /\ UNCHANGED <<up, pc>>
      BY <2>4 DEF LedgerRow, At
    <3>2. (drive' = drive /\ err' = err) \/ Failed
      BY <2>4 DEF LedgerRow, Commit
    <3>3. CASE Failed
      <4>1. drive' \in DriveType /\ drive'.pc = "failed"
        BY <1>1, <1>2, <3>3 DEF Failed
      <4> QED
        BY <3>1, <4>1 DEF Reading
    <3>4. CASE drive' = drive /\ err' = err
      BY <1>0, <1>6, <3>1, <3>4 DEF Reading
    <3> QED
      BY <3>2, <3>3, <3>4
  <2>5. CASE LedgerRead
    <3>1. drive.pc = "rows" /\ up /\ pc = "idle" /\ UNCHANGED <<up, pc, err, disk>>
      BY <2>5 DEF LedgerRead, At
    <3>2. drive' = [NoDrive EXCEPT !.pc = "book"] \/ drive' = [NoDrive EXCEPT !.pc = "failed"]
      BY <2>5 DEF LedgerRead, Failed
    <3>3. drive' \in DriveType /\ drive'.pc \in {"book", "failed"}
      BY <1>1, <1>2, <3>2
    <3>4. err = "" /\ Started(disk)
      BY <1>0, <3>1 DEF Reading
    <3> QED
      BY <3>1, <3>3, <3>4
  <2>6. CASE ReadBook
    <3>1. drive.pc = "book" /\ up /\ pc = "idle" /\ drive' = [drive EXCEPT !.pc = "tick"]
          /\ (OnBook \/ UNCHANGED vars)
      BY <2>6 DEF ReadBook, At, DriveTo
    <3>2. UNCHANGED <<up, pc, err, disk>>
      BY <3>1 DEF OnBook, vars, execVars
    <3> QED
      BY <1>0, <1>1, <1>2, <3>1, <3>2 DEF Reading
  <2>7. CASE BeginTick \/ LastTick
    <3>1. up /\ UNCHANGED <<up, disk>> /\ Started(mem) /\ mem = disk
      <4>1. TickStart /\ up
        BY <2>7 DEF BeginTick, LastTick, At
      <4> QED
        BY <1>0, <4>1 DEF TickStart, IndInv, ProcessInv, MemoryIsDurable
    <3>2. drive' = [drive EXCEPT !.pc = "ticking"] \/ drive' = [drive EXCEPT !.pc = "over"]
      BY <2>7 DEF BeginTick, LastTick, DriveTo
    <3>3. drive' \in DriveType /\ drive'.pc \in {"ticking", "over"}
      <4>1. CASE drive' = [drive EXCEPT !.pc = "ticking"]
        BY <1>1, <1>2, <4>1
      <4>2. CASE drive' = [drive EXCEPT !.pc = "over"]
        BY <1>1, <1>2, <4>2
      <4> QED
        BY <3>2, <4>1, <4>2
    <3> QED
      BY <3>1, <3>3 DEF Reading
  <2>8. CASE TickSteps
    <3>1. drive' = drive /\ (TickStep \/ GwSend \/ SendOutcome)
      BY <2>8 DEF TickSteps, runVars
    <3>2. up /\ pc # "idle"
      BY <3>1 DEF TickStep, GwSend, SendOutcome
    <3>3. up' = up
      BY <3>1 DEF TickStep, GwSend, SendOutcome, TickNothing, TickQueryFails, TickQuery,
                  TickFinish, TickSend
    <3> QED
      BY <1>0, <1>6, <3>1, <3>2, <3>3 DEF Reading
  <2>9. CASE StopForReconcile
    <3>1. up /\ pc = "idle" /\ UNCHANGED <<up, pc>> /\ drive' = [NoDrive EXCEPT !.pc = "lastTick"]
      BY <2>9 DEF StopForReconcile, At, execVars
    <3> QED
      BY <1>1, <1>2, <3>1 DEF Reading
  <2>10. CASE RunReturns \/ RunCrashes
    <3>1. drive' = NoDrive /\ pc' = "idle"
      BY <2>10 DEF RunReturns, RunCrashes, RunGone, Exit, Crash, ProcessEnds
    <3> QED
      BY <1>1, <3>1 DEF Reading
  <2>11. CASE Operator
    <3>1. drive' = drive /\ ((Start /\ drive.pc = "off") \/ Restart)
      BY <2>11 DEF Operator, runVars
    <3>2. drive.pc = "off" /\ pc' = pc
      BY <1>0, <3>1 DEF Start, Restart
    <3> QED
      BY <1>0, <3>1, <3>2 DEF Reading
  <2>12. CASE Surroundings
    <3>1. drive' = drive /\ (BrokerFill \/ BrokerDrop \/ Advance)
      BY <2>12 DEF Surroundings, runVars
    <3>2. UNCHANGED <<up, pc, err, disk>>
      BY <3>1 DEF BrokerFill, BrokerDrop, Advance, execVars
    <3> QED
      BY <1>0, <3>1, <3>2
  <2> QED
    BY <2>1, <2>2, <2>3, <2>4, <2>5, <2>6, <2>7, <2>8, <2>9, <2>10, <2>11, <2>12 DEF LiveNext, DriveSteps
<1> QED
  BY <1>5, <1>7

\* LiveInv holds at first.
LEMMA LiveStarts == LiveInit => LiveInv
<1> SUFFICES ASSUME LiveInit PROVE LiveInv
  OBVIOUS
<1>1. IndInv
  BY InitInv DEF LiveInit
<1>2. live = {} /\ execs = <<>> /\ up = TRUE /\ pc = "idle" /\ disk = Fresh
      /\ ledgerComplete = FALSE /\ requested = {}
  BY DEF LiveInit, Init
<1>3. Fresh.done = "" /\ Fresh.sent = <<>> /\ DOMAIN <<>> = {}
  BY DEF Fresh, NewState
<1>4. LedgerInv /\ PositiveInv
  BY <1>2, <1>3 DEF LedgerInv, Complete, PositiveInv
<1>5. NoDrive.pc = "off"
      /\ NoDrive \in DriveType
  BY DEF NoDrive, DriveType, DrivePcs
<1>6. DriveInv
  BY <1>2, <1>5 DEF LiveInit, DriveInv, Reading
<1>7. PlaceInv /\ TerminalInv /\ RowsInv
  BY <1>2, <1>3, <1>5 DEF LiveInit, PlaceInv, TerminalInv, RowsInv
<1> QED
  BY <1>1, <1>4, <1>6, <1>7 DEF LiveInv

\* Every step of the live runner keeps LiveInv and is a step of the executor.
LEMMA LiveStep ==
    ASSUME LiveInv, [LiveNext]_liveVars, RequireLedgerComplete, ~LateDelivery
    PROVE  LiveInv' /\ [Next]_vars
<1>1. CASE LiveNext
  <2>1. [Next]_vars
    BY <1>1, LiveSimulates
  <2>2. IndInv' /\ LedgerInv' /\ PositiveInv'
    BY <2>1, NextInv, LedgerStep, PositiveStep DEF LiveInv
  <2>3. DriveInv' /\ PlaceInv' /\ TerminalInv' /\ RowsInv'
    BY <1>1, <2>1, <2>2, DriveStep, PlaceStep, TerminalStep, RowsStep
  <2> QED
    BY <2>1, <2>2, <2>3 DEF LiveInv
<1>2. CASE UNCHANGED liveVars
  <2>1. UNCHANGED vars /\ UNCHANGED <<booked, placed, terminal, drive>>
    BY <1>2 DEF liveVars, ledgerVars, runVars
  <2>2. IndInv' /\ LedgerInv' /\ PositiveInv'
    BY <2>1, NextInv, LedgerStep, PositiveStep DEF LiveInv
  <2>3. UNCHANGED <<up, disk, err, ledgerComplete, pc, live, execs, requested>>
    BY <2>1 DEF vars, execVars, brokerVars, history
  <2>4. DriveInv' /\ PlaceInv' /\ RowsInv'
    BY <2>1, <2>3 DEF LiveInv, DriveInv, PlaceInv, RowsInv, RowsOK, Started,
                           Unresolved
  <2>5. TerminalInv'
    BY <2>1, <2>3 DEF LiveInv, TerminalInv, QtyOf
  <2> QED
    BY <2>1, <2>2, <2>4, <2>5 DEF LiveInv
<1> QED
  BY <1>1, <1>2

\* The live runner implements the executor: its reads of the ledger and of the
\* orders, one by one and with the broker and the ledger going on in between,
\* amount to the snapshot SetLedgerComplete takes, and every row it counts is a
\* fill OnFill accepts (refreshLedger, driveLive, OnLedgerFill).
THEOREM LiveRunImplements ==
    RequireLedgerComplete /\ ~LateDelivery => (LiveSpec => ImplementsExecutor)
<1> SUFFICES ASSUME RequireLedgerComplete, ~LateDelivery PROVE LiveSpec => Spec
  BY DEF ImplementsExecutor
<1>1. LiveInit => LiveInv /\ Init
  BY LiveStarts DEF LiveInit
<1>2. LiveInv /\ [LiveNext]_liveVars => LiveInv' /\ [Next]_vars
  BY LiveStep
<1> QED
  BY <1>1, <1>2, PTL DEF LiveSpec, Spec

\* So a live run finishes an intent only with every execution of the broker in
\* its journal, although it never sees the ledger and the broker at one time.
THEOREM LiveRunFinishesComplete ==
    RequireLedgerComplete /\ ~LateDelivery => (LiveSpec => []DoneMeansLedgerComplete)
BY LiveRunImplements, LedgerCompleteWhenDone, PTL DEF ImplementsExecutor
==============================================================================
