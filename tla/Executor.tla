------------------------------- MODULE Executor -------------------------------
(***************************************************************************)
(* One executor working one intent (internal/exec/executor.go, journal.go),*)
(* composed with what it depends on: the write-ahead journal, the E1       *)
(* gateway, the broker behind it, the ledger's fills and the book.         *)
(*                                                                         *)
(* The executor is driven from one goroutine, so OnBook, OnFill,           *)
(* SetLedgerComplete and Tick never overlap; the broker, the network, the  *)
(* kill switch and a crash interleave with every step of a Tick.  A Tick   *)
(* runs through the program counter pc:                                    *)
(*   "tick"    about to decide,                                            *)
(*   "send"    the child is journaled, gw.Send not called yet,             *)
(*   "answer"  gw.Send returned, its outcome is not journaled yet.         *)
(* The clock moves only between Ticks: a Tick reads the time once.         *)
(***************************************************************************)
EXTENDS ExecMachine

CONSTANTS
    Intents,          \* the intents Start may be called with
    Touches,          \* the best [bid, ask] a book may show
    MaxTime,          \* bound of the clock
    MaxFaults,        \* bound of injected faults
    MaxStepsPerTick,  \* maxStepsPerTick
    LateDelivery      \* a request whose Send failed may still arrive later

ASSUME ExecutorAssumption ==
    /\ MaxTime \in Nat
    /\ MaxFaults \in Nat
    /\ MaxStepsPerTick \in Nat \ {0}
    /\ LateDelivery \in BOOLEAN
    /\ Intents \subseteq IntentRecord \ {NoIntent}
    /\ Touches \subseteq [bid : Nat, ask : Nat]

VARIABLES
    up,              \* the process runs
    mem,             \* Executor.state
    disk,            \* the State the durable journal replays to
    top,             \* Executor.top
    err,             \* Executor.err, latched until the process ends
    ledgerComplete,  \* Executor.ledgerComplete
    killed,          \* KillSwitch.engaged
    pc, steps,       \* where a Tick is, and how many loop steps it took
    answer,          \* what gw.Send returned
    now,             \* the clock
    live,            \* the broker's working orders
    execs,           \* the broker's executions, the ledger's evidence; the
                     \* index in the sequence is the fill id
    brokerQty,       \* the quantity the broker has executed
    late,            \* requests still under way after their Send failed
    requested,       \* history: keys gw.Send was called with
    unanswered,      \* history: a request is out whose fate was not learned
    faults           \* faults injected so far

execVars == <<mem, top, err, ledgerComplete, pc, steps, answer>>
brokerVars == <<live, execs, brokerQty, late>>
history == <<requested, unanswered>>
vars == <<up, disk, killed, now, faults, execVars, brokerVars, history>>

-----------------------------------------------------------------------------
\* The broker, and E1 in front of it, as the executor's test double
\* (exec/exectest) and E1's client describe them.

\* Whether the broker acts on child c.
BrokerTakes(c) ==
    c.action = "submit" \/ \E o \in live : o.key = c.target

\* The working orders after c: a submit adds one, an amend replaces its target,
\* with no more open than there was, a cancel removes it.
AfterBroker(c) ==
    LET hit == {o \in live : o.key = c.target} IN
    CASE ~BrokerTakes(c) -> live
      [] c.action = "submit" -> live \cup {[key |-> c.key, price |-> c.price, open |-> c.qty]}
      [] BrokerTakes(c) /\ c.action = "amend" ->
            (live \ hit) \cup
            {[key |-> c.key, price |-> c.price, open |-> Smaller(c.qty, o.open)] : o \in hit}
      [] OTHER -> live \ hit

ViewOrders ==
    IF live = {} THEN {NoOrder}
    ELSE {[key |-> o.key, price |-> o.price, qty |-> o.open] : o \in live}

\* The broker executes part or all of a working order.
BrokerFill ==
    \E o \in live : \E q \in 1 .. o.open :
        /\ execs' = Append(execs, [key |-> o.key, qty |-> q, price |-> o.price])
        /\ brokerQty' = brokerQty + q
        /\ live' = (live \ {o}) \cup (IF q = o.open THEN {} ELSE {[o EXCEPT !.open = @ - q]})
        /\ UNCHANGED <<up, disk, killed, now, faults, execVars, late, history>>

\* The order ends at the broker without the executor (closed by an operator,
\* or by the venue).
BrokerDrop ==
    /\ faults < MaxFaults
    /\ \E o \in live : live' = live \ {o}
    /\ faults' = faults + 1
    /\ UNCHANGED <<up, disk, killed, now, execVars, execs, brokerQty, late, history>>

\* A request whose Send failed arrives after all; nobody reads the answer.
LateArrive ==
    \E c \in late :
        /\ live' = AfterBroker(c)
        /\ late' = late \ {c}
        /\ UNCHANGED <<up, disk, killed, now, faults, execVars, execs, brokerQty, history>>

-----------------------------------------------------------------------------
\* commit, once Apply accepted the record: the journal is appended and synced,
\* and only then is the next state current.  A failed append latches ErrHalted
\* and leaves the record on disk or not (a torn line is cut off on open; a line
\* whose Sync failed may be there).

Fault(ok) ==
    /\ ok \/ faults < MaxFaults
    /\ faults' = IF ok THEN faults ELSE faults + 1

\* Mutant: a failed append does not stop the executor.
CommitWithoutLatch(next, ok, onDisk) ==
    /\ ok => onDisk
    /\ Fault(ok)
    /\ disk' = IF onDisk THEN next ELSE disk
    /\ mem' = IF ok THEN next ELSE mem
    /\ err' = err

Commit(next, ok, onDisk) ==
    /\ ok => onDisk
    /\ Fault(ok)
    /\ disk' = IF onDisk THEN next ELSE disk
    /\ mem' = IF ok THEN next ELSE mem
    /\ err' = IF ok THEN err ELSE "halted"

Idle == up /\ pc = "idle"

\* Start: commit returns the latched error, if there is one, before Apply.
Start ==
    /\ Idle /\ err = ""
    /\ \E in \in Intents, ok, onDisk \in BOOLEAN :
        /\ StartApplies(mem, in)
        /\ Commit(AfterStart(in), ok, onDisk)
    /\ UNCHANGED <<up, killed, now, top, ledgerComplete, pc, steps, answer, brokerVars, history>>

OnBook ==
    /\ Idle
    /\ \E t \in Touches, at \in {now, now + 1}, synced \in BOOLEAN :
        top' = [bid |-> t.bid, ask |-> t.ask, at |-> at, synced |-> synced]
    /\ UNCHANGED <<up, disk, killed, now, faults, mem, err, ledgerComplete, pc, steps, answer,
                   brokerVars, history>>

\* OnFill: any execution, in any order and any number of times; a repeated id
\* or a foreign key changes nothing.
OnFill ==
    /\ Idle /\ err = ""
    /\ \E i \in DOMAIN execs, ok, onDisk \in BOOLEAN :
        LET f == [id |-> i, key |-> execs[i].key, qty |-> execs[i].qty,
                  price |-> execs[i].price] IN
        /\ FillApplies(mem, f)
        /\ Commit(AfterFill(mem, f), ok, onDisk)
    /\ UNCHANGED <<up, killed, now, top, ledgerComplete, pc, steps, answer, brokerVars, history>>

\* SetLedgerComplete, as refreshLedger calls it: nothing unresolved, every
\* execution of the broker recorded, and every order of the intent terminal.
\* Its reads of the ledger and of the broker's orders are one snapshot here;
\* LiveRun has them one by one.
LedgerAgreesWith(s) == DOMAIN execs = s.fills
SetLedgerComplete ==
    /\ Idle /\ RequireLedgerComplete
    /\ Started(mem) /\ ~Unresolved(mem) /\ LedgerAgreesWith(mem)
    /\ ledgerComplete' = (live = {})
    /\ UNCHANGED <<up, disk, killed, now, faults, mem, top, err, pc, steps, answer,
                   brokerVars, history>>

-----------------------------------------------------------------------------
\* Tick.

EndTick == pc' = "idle" /\ steps' = 0
\* Mutant: the loop of a Tick is not bounded.
NextStepUnbounded(next) == pc' = next /\ steps' = steps + 1

NextStep(next) ==
    IF steps + 1 = MaxStepsPerTick THEN EndTick ELSE pc' = next /\ steps' = steps + 1

TickStart ==
    /\ Idle /\ err = "" /\ Started(mem)
    /\ pc' = "tick"
    /\ UNCHANGED <<up, disk, killed, now, faults, mem, top, err, ledgerComplete, steps, answer,
                   brokerVars, history>>

\* decide reads the kill switch as the loop step begins.
Decision == Decide(mem, top, now, killed)

\* Nothing to do: Tick returns.
TickNothing(d) ==
    /\ d.kind = "none"
    /\ EndTick
    /\ UNCHANGED <<up, disk, killed, now, faults, mem, top, err, ledgerComplete, answer,
                   brokerVars, history>>

\* The query fails: still unresolved, nothing is sent.
TickQueryFails(d) ==
    /\ d.kind = "query"
    /\ Fault(FALSE)
    /\ EndTick
    /\ UNCHANGED <<up, disk, killed, now, mem, top, err, ledgerComplete, answer,
                   brokerVars, history>>

\* The query answers and the view is committed.  A view Apply refuses (a key
\* never sent, a price beyond the cap) ends the Tick.
TickQuery(d) ==
    /\ d.kind = "query"
    /\ \E o \in ViewOrders :
        LET v == [order |-> o, filled |-> brokerQty] IN
        \/ /\ ReconcileApplies(mem, v)
           /\ \E ok, onDisk \in BOOLEAN :
                /\ Commit(AfterReconcile(mem, v, RequireLedgerComplete), ok, onDisk)
                /\ unanswered' = (unanswered /\ ~onDisk)
                /\ IF ok THEN NextStep("tick") ELSE EndTick
        \/ /\ ~ReconcileApplies(mem, v)
           /\ EndTick
           /\ UNCHANGED <<mem, disk, err, faults, unanswered>>
    /\ UNCHANGED <<up, killed, now, top, ledgerComplete, answer, brokerVars, requested>>

\* The live runner's executor latches ErrIncomplete instead of finishing
\* without complete ledger evidence.
TickFinish(d) ==
    /\ d.kind = "finish"
    /\ \/ /\ RequireLedgerComplete /\ ~ledgerComplete
          /\ err' = "incomplete"
          /\ EndTick
          /\ UNCHANGED <<mem, disk, faults>>
       \/ /\ ~(RequireLedgerComplete /\ ~ledgerComplete)
          /\ FinishApplies(mem, d.reason)
          /\ \E ok, onDisk \in BOOLEAN :
                /\ Commit(AfterFinish(mem, d.reason), ok, onDisk)
                /\ IF ok THEN NextStep("tick") ELSE EndTick
    /\ UNCHANGED <<up, killed, now, top, ledgerComplete, answer, brokerVars, history>>

\* The backstop of commit, and then Apply.
SendCommits(c) ==
    /\ Opening(c) => E1CapsRefusal(mem, c) = ""
    /\ SendApplies(mem, c)

\* A send is journaled before gw.Send is called.
TickSend(d) ==
    /\ d.kind = "send"
    /\ LET c == d.child IN
       \/ /\ SendCommits(c)
          /\ \E ok, onDisk \in BOOLEAN :
                /\ Commit(AfterSend(mem, c, d.reason, now), ok, onDisk)
                /\ IF ok THEN pc' = "send" /\ UNCHANGED steps ELSE EndTick
       \/ /\ ~SendCommits(c)
          /\ EndTick
          /\ UNCHANGED <<mem, disk, err, faults>>
    /\ UNCHANGED <<up, killed, now, top, ledgerComplete, answer, brokerVars, history>>

TickStep ==
    /\ up /\ pc = "tick"
    /\ \E d \in {Decision} :
        TickNothing(d) \/ TickQueryFails(d) \/ TickQuery(d) \/ TickFinish(d) \/ TickSend(d)

\* gw.Send: E1 answers, refuses, answers "uncertain", or the call fails with
\* the request lost, applied, or still under way.
GwSend ==
    /\ up /\ pc = "send"
    /\ LET c == mem.inFlight
           applied == live' = AfterBroker(c)
       IN  \/ applied /\ Fault(TRUE) /\ UNCHANGED late
              /\ answer' = IF BrokerTakes(c) THEN "accepted" ELSE "uncertain"
           \/ applied /\ Fault(FALSE) /\ answer' = "uncertain" /\ UNCHANGED late
           \/ Fault(FALSE) /\ answer' = "refused" /\ UNCHANGED <<live, late>>
           \/ Fault(FALSE) /\ answer' = "uncertain" /\ UNCHANGED live
              /\ late' = IF LateDelivery THEN late \cup {c} ELSE late
    /\ pc' = "answer"
    /\ requested' = requested \cup {mem.inFlight.key}
    /\ unanswered' = TRUE
    /\ UNCHANGED <<up, disk, killed, now, mem, top, err, ledgerComplete, steps, execs, brokerQty>>

\* send journals the answer; the live runner's Tick ends with it.
SendOutcome ==
    /\ up /\ pc = "answer" /\ OutcomeApplies(mem)
    /\ \E ok, onDisk \in BOOLEAN :
        /\ Commit(AfterOutcome(mem, answer, RequireLedgerComplete), ok, onDisk)
        /\ unanswered' = (unanswered /\ ~(onDisk /\ Definite(mem.inFlight, answer)))
        /\ ledgerComplete' = (ledgerComplete /\ ~(ok /\ RequireLedgerComplete))
        /\ IF ok /\ ~RequireLedgerComplete THEN NextStep("tick") ELSE EndTick
    /\ answer' = ""
    /\ UNCHANGED <<up, killed, now, top, brokerVars, requested>>

-----------------------------------------------------------------------------
\* The process and its surroundings.

\* What the process held in memory is gone.
ProcessEnds ==
    /\ up' = FALSE
    /\ mem' = Fresh /\ top' = NoTop /\ err' = "" /\ ledgerComplete' = FALSE
    /\ pc' = "idle" /\ steps' = 0 /\ answer' = ""

Crash ==
    /\ up /\ faults < MaxFaults
    /\ ProcessEnds
    /\ faults' = faults + 1
    /\ UNCHANGED <<disk, killed, now, brokerVars, history>>

\* An executor that latched an error does nothing more; its caller returns.  The
\* live runner also returns for reasons of its own (LiveRun).
Exit ==
    /\ Idle /\ (err # "" \/ RequireLedgerComplete)
    /\ ProcessEnds
    /\ UNCHANGED <<disk, killed, now, faults, brokerVars, history>>

\* Mutant: a restart forgets the child whose outcome is unknown.
RestartForgets ==
    /\ ~up
    /\ up' = TRUE
    /\ mem' = Resolved(disk)
    /\ killed' = FALSE
    /\ UNCHANGED <<disk, now, faults, top, err, ledgerComplete, pc, steps, answer,
                   brokerVars, history>>

\* OpenJournal replays the journal and New resumes from its state; the kill
\* switch of the new process is released.
Restart ==
    /\ ~up
    /\ up' = TRUE
    /\ mem' = disk
    /\ killed' = FALSE
    /\ UNCHANGED <<disk, now, faults, top, err, ledgerComplete, pc, steps, answer,
                   brokerVars, history>>

EngageKill ==
    /\ up /\ ~killed
    /\ killed' = TRUE
    /\ UNCHANGED <<up, disk, now, faults, execVars, brokerVars, history>>

ReleaseKill ==
    /\ up /\ killed
    /\ killed' = FALSE
    /\ UNCHANGED <<up, disk, now, faults, execVars, brokerVars, history>>

Advance ==
    /\ pc = "idle" /\ now < MaxTime
    /\ now' = now + 1
    /\ UNCHANGED <<up, disk, killed, faults, execVars, brokerVars, history>>

-----------------------------------------------------------------------------
Init ==
    /\ up = TRUE /\ mem = Fresh /\ disk = Fresh
    /\ top = NoTop /\ err = "" /\ ledgerComplete = FALSE /\ killed = FALSE
    /\ pc = "idle" /\ steps = 0 /\ answer = "" /\ now = 1
    /\ live = {} /\ execs = <<>> /\ brokerQty = 0 /\ late = {}
    /\ requested = {} /\ unanswered = FALSE /\ faults = 0

Tick == TickStart \/ TickStep \/ GwSend \/ SendOutcome

Environment == \/ BrokerFill \/ BrokerDrop \/ LateArrive
               \/ EngageKill \/ ReleaseKill \/ Advance

Next == \/ Start \/ OnBook \/ OnFill \/ SetLedgerComplete
        \/ Tick \/ Crash \/ Exit \/ Restart \/ Environment

Spec == Init /\ [][Next]_vars

-----------------------------------------------------------------------------
\* Types.
Working == [key : Nat, price : Nat, open : Nat]
Execution == [key : Nat, qty : Nat, price : Nat]

\* Every variable has its type.
TypeOK ==
    /\ up \in BOOLEAN /\ mem \in State /\ disk \in State
    /\ top \in Top /\ err \in {"", "halted", "incomplete"}
    /\ ledgerComplete \in BOOLEAN /\ killed \in BOOLEAN
    /\ pc \in {"idle", "tick", "send", "answer"}
    /\ steps \in 0 .. MaxStepsPerTick - 1
    /\ answer \in {"", "accepted", "refused", "uncertain"}
    /\ now \in Nat
    /\ live \in SUBSET Working /\ execs \in Seq(Execution) /\ brokerQty \in Nat
    /\ late \in SUBSET Child
    /\ requested \in SUBSET Nat /\ unanswered \in BOOLEAN /\ faults \in Nat

\* The write-ahead rule: gw.Send is never called while the fate of an earlier
\* request is unknown, whatever crashed, timed out or failed to be journaled in
\* between (Tick reconciles first; "Never resend while an outcome is unknown").
NoBlindSend == pc = "send" => ~unanswered

\* No idempotency key reaches the gateway twice, across crashes, restarts and
\* failed journal writes: the key of the send about to be made is new.
KeyUsedOnce == pc = "send" => mem.inFlight.key \notin requested

\* While a process runs without a latched error, its memory is what the journal
\* replays to: a crash at that moment loses nothing (commit's order of steps).
MemoryIsDurable == up /\ err = "" => mem = disk

\* The broker never works or fills an order at a price worse than the intent's
\* limit (Cap: "the worst price the executor may ever send").
LimitRespected ==
    /\ \A o \in live : WithinLimit(disk.intent, o.price)
    /\ \A i \in DOMAIN execs : WithinLimit(disk.intent, execs[i].price)

\* Every price that reaches the broker lies on the KRX tick grid, after any
\* number of steps and whatever room E1's notional cap leaves, given a book
\* whose prices do.
PricesOnGrid == \A o \in live : o.price = FloorTick(o.price)

\* "Only one order lineage is ever live" (Order).
OneLiveOrder == \A o1, o2 \in live : o1 = o2

\* What has executed and what may still execute never exceeds the target
\* (Overfill: "Nothing the executor sends can cause it").
NoOverfill ==
    /\ brokerQty <= disk.target
    /\ \A o \in live : brokerQty + o.open <= disk.target

\* A finished intent leaves nothing working at the broker.
DoneMeansFlat == disk.done # "" => live = {}

OpenQty == SumFunctionOnSet([o \in live |-> o.open], live)

\* The quantities E1 authorised hold at the broker whatever was lost, delayed,
\* repeated or amended: executed and working quantity stay within max_quantity
\* and the inventory range (exposure.go counts every child ever sent).  The
\* notional is not bounded so: a lineage counts at its high-water notional, which
\* a partial fill followed by an amend at a worse price exceeds.
WithinE1Caps ==
    /\ brokerQty + OpenQty <= disk.intent.maxQuantity
    /\ brokerQty + OpenQty <= Larger(InventoryRoom(disk.intent), 0)

\* decide never proposes what Apply or the backstop in commit would refuse
\* ("decide sizes every send to E1's room, so this is the backstop").
BackstopUnused ==
    up /\ pc = "tick" =>
        /\ Decision.kind = "send" => SendCommits(Decision.child)
        /\ Decision.kind = "finish" => FinishApplies(mem, Decision.reason)

\* Every ledger fill is counted once and only once, in whatever order and
\* however often it is delivered, and across restarts.
FillsCountedOnce ==
    \A s \in {mem, disk} :
        s.filled = SumFunctionOnSet([i \in DOMAIN execs |-> execs[i].qty], s.fills)

\* In the live runner a finished intent has all of the broker's executions in
\* its journal: nothing was still executing or unreported when it finished.
DoneMeansLedgerComplete ==
    RequireLedgerComplete /\ disk.done # "" => LedgerAgreesWith(disk)

-----------------------------------------------------------------------------
\* The inductive invariant behind the safety properties.

\* Where a Tick is, and that memory is what the journal holds.
ProcessInv ==
    /\ MemoryIsDurable
    /\ ~up => pc = "idle" /\ err = ""
    /\ pc # "idle" => err = ""
    /\ pc = "tick" => Started(mem)
    /\ pc \in {"send", "answer"} => Unresolved(mem)

\* What reached the gateway was journaled, and is unresolved in the journal
\* until its fate is known.
GatewayInv ==
    /\ requested \subseteq 1 .. Len(disk.sent)
    /\ unanswered => Unresolved(disk)
    /\ NoBlindSend /\ KeyUsedOnce
    /\ \A o \in live \cup late : o.key \in requested
    /\ \A i \in DOMAIN execs : execs[i].key \in requested

\* Late requests and the broker respect the cap as well.
PriceInv ==
    /\ \A c \in late : Opening(c) => ~Worse(disk.intent, c.price, disk.cap)
    /\ LimitRespected

\* The broker works at most the order the journal names, or the one that the
\* unresolved child asks for.
BrokerInv ==
    /\ late = {}
    /\ OneLiveOrder
    /\ \A o \in live : o.key = disk.order.key \/ o.key = disk.inFlight.key
    /\ pc = "answer" /\ answer = "accepted" =>
        \A o \in live : disk.inFlight.action # "cancel" /\ o.key = disk.inFlight.key
    /\ pc = "answer" /\ answer = "refused" => \A o \in live : o.key = disk.order.key

\* Where nothing works and nothing is unresolved, the last view already showed
\* every execution; so a new order fits what really remains.
QuantityInv ==
    /\ NoOverfill
    /\ ~HasOrder(disk) /\ ~Unresolved(disk) /\ disk.halt = "" /\ disk.done = "" =>
        brokerQty <= disk.brokerFilled
    /\ disk.inFlight.action = "submit" /\ disk.inFlight.key \notin requested =>
        brokerQty + disk.inFlight.qty <= disk.target

\* The inductive invariant: the journal, the gateway and the broker agree on
\* what may be working, at every point of a Tick and across crashes.
IndInv ==
    /\ TypeOK /\ ProcessInv /\ JournalOK(disk) /\ PricesOK(disk) /\ GatewayInv /\ PriceInv
    /\ ~LateDelivery => BrokerInv /\ QuantityInv
==============================================================================
