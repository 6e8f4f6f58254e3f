-------------------------------- MODULE LiveRun --------------------------------
(***************************************************************************)
(* The live runner (cmd/execmock/live.go, broker.go, exec/ledger.go): the  *)
(* loop that drives the executor against the real ledger and broker.  Each *)
(* round reads the effective fills from E1's ledger, binds them to the     *)
(* orders of the journal, reads every order back from the broker, decides  *)
(* whether the ledger is complete, shows the executor a book and ticks it. *)
(*                                                                         *)
(* Every read is a step of its own: the broker goes on filling and the     *)
(* ledger goes on booking in between.  The steps of a Tick, the broker and *)
(* a crash are those of Executor.                                          *)
(***************************************************************************)
EXTENDS Executor

VARIABLES
    booked,      \* the executions the ledger holds
    placed,      \* keys of the orders E1 placed at the broker
    accepted,    \* keys of the orders the journal has a broker identity for
    terminal,    \* cacheTerminalBrokerViews: what the orders known to be
                 \* terminal had filled
    canceled,    \* the run's context has ended
    drive        \* driveLive: pc; the rows of the ledger read; the orders still
                 \* to be read back; whether all the others were terminal

ledgerVars == <<booked, placed, accepted>>
runVars == <<terminal, canceled, drive>>
liveVars == <<vars, ledgerVars, runVars>>

NoDrive == [pc |-> "off", rows |-> {}, left |-> {}, complete |-> TRUE]
At(pcs) == up /\ drive.pc \in pcs /\ pc = "idle"
DriveTo(next) == drive' = [drive EXCEPT !.pc = next]
Failed == drive' = [NoDrive EXCEPT !.pc = "failed"]

FillOf(i) == [id |-> i, key |-> execs[i].key, qty |-> execs[i].qty, price |-> execs[i].price]
QtyOf(ids, k) ==
    SumFunctionOnSet([i \in DOMAIN execs |-> execs[i].qty], {i \in ids : execs[i].key = k})

-----------------------------------------------------------------------------
\* The ledger books an execution.
LedgerBooks ==
    /\ \E i \in DOMAIN execs \ booked : booked' = booked \cup {i}
    /\ UNCHANGED <<vars, placed, accepted, runVars>>

\* A row is removed or superseded.
LedgerSupersedes ==
    /\ \E i \in booked : booked' = booked \ {i}
    /\ UNCHANGED <<vars, placed, accepted, runVars>>

\* The run is interrupted.
Cancel ==
    /\ up /\ drive.pc # "off" /\ ~canceled /\ canceled' = TRUE
    /\ UNCHANGED <<vars, ledgerVars, terminal, drive>>

-----------------------------------------------------------------------------
\* driveLive starts on a journal with an intent.
Drive ==
    /\ At({"off"}) /\ err = "" /\ Started(mem)
    /\ DriveTo("ledger")
    /\ UNCHANGED <<vars, ledgerVars, terminal, canceled>>

\* BrokerOrders: the orders the journal binds to a broker order.
BrokerOrders == accepted

\* The ledger's orders are the journal's, and the working order is one of them.
Attributed ==
    /\ placed = BrokerOrders
    /\ HasOrder(mem) => mem.order.key \in BrokerOrders

\* refreshLedger reads the ledger.  An unresolved child, or orders of the ledger
\* that are not those of the journal, end the run.
ReadLedger ==
    /\ At({"ledger"}) /\ ~canceled
    /\ IF Unresolved(mem) \/ ~Attributed
       THEN Failed
       ELSE drive' = [pc |-> "rows", rows |-> booked, left |-> placed, complete |-> TRUE]
    /\ UNCHANGED <<vars, ledgerVars, terminal, canceled>>

\* The rows of the orders still to be read back that are not counted yet.
NewRows == {i \in drive.rows \ mem.fills : execs[i].key \in drive.left}

\* OnLedgerFill: a row of the ledger is bound to its order and counted.
LedgerRow ==
    /\ At({"rows"})
    /\ \E i \in NewRows, ok, onDisk \in BOOLEAN :
        /\ Commit(AfterFill(mem, FillOf(i)), ok, onDisk)
        /\ IF ok THEN UNCHANGED drive ELSE Failed
    /\ UNCHANGED <<up, killed, now, top, ledgerComplete, pc, steps, answer, brokerVars, history,
                   ledgerVars, terminal, canceled>>

\* Mutant: an order with a fill counts as filled.
IsTerminalOnceFilled(k) == (\A o \in live : o.key # k) \/ QtyOf(DOMAIN execs, k) > 0

\* brokerView.Terminal: the order is filled, canceled or rejected at the broker.
IsTerminal(k) == \A o \in live : o.key # k

\* Mutant: what the broker has filled is not compared.
AgreeUnchecked(k, filled) == TRUE

\* The order's cumulative quantity in the ledger is what the broker has filled.
Agree(k, filled) == filled = QtyOf(drive.rows, k)

\* An order is read back, or its cached view is taken.  A terminal view is kept
\* for the run, whatever the comparison says.
ReadOrder ==
    /\ At({"rows"}) /\ ~canceled
    /\ \E k \in drive.left :
        LET known == {t \in terminal : t.key = k}
            view == IF known # {} THEN CHOOSE t \in known : TRUE
                    ELSE [key |-> k, filled |-> QtyOf(DOMAIN execs, k)]
            ended == known # {} \/ IsTerminal(k)
        IN  /\ {i \in NewRows : execs[i].key = k} = {}
            /\ terminal' = IF ended THEN terminal \cup {view} ELSE terminal
            /\ IF Agree(k, view.filled)
               THEN drive' = [drive EXCEPT !.left = @ \ {k}, !.complete = @ /\ ended]
               ELSE Failed
    /\ UNCHANGED <<vars, ledgerVars, canceled>>

\* Every order agrees: unless a counted row is gone, the decision is handed to
\* the executor.
LedgerRead ==
    /\ At({"rows"}) /\ drive.left = {}
    /\ IF mem.fills \subseteq drive.rows
       THEN ledgerComplete' = drive.complete /\ drive' = [NoDrive EXCEPT !.pc = "book"]
       ELSE Failed /\ UNCHANGED ledgerComplete
    /\ UNCHANGED <<up, disk, killed, now, faults, mem, top, err, pc, steps, answer, brokerVars,
                   history, ledgerVars, terminal, canceled>>

\* A book is read and shown to the executor, or there is none.
ReadBook ==
    /\ At({"book"}) /\ ~canceled
    /\ OnBook \/ UNCHANGED vars
    /\ DriveTo("tick")
    /\ UNCHANGED <<ledgerVars, terminal, canceled>>

\* A read fails; one that takes too long makes the run stop in an orderly way.
ReadFails ==
    /\ At({"ledger", "rows", "book"}) /\ ~canceled
    /\ Failed \/ drive' = [NoDrive EXCEPT !.pc = "stop"]
    /\ UNCHANGED <<vars, ledgerVars, terminal, canceled>>

BeginTick ==
    /\ At({"tick"}) /\ TickStart
    /\ DriveTo("ticking")
    /\ UNCHANGED <<ledgerVars, terminal, canceled>>

\* brokerKeys after a step: a submit or amend whose acceptance is journaled has a
\* broker identity.
BrokerKeys ==
    IF pc = "answer" /\ answer = "accepted" /\ Opening(mem.inFlight) /\ disk' # disk
    THEN accepted \cup {mem.inFlight.key} ELSE accepted

\* The steps of a Tick.  An order that reaches the broker is known to E1.
TickSteps ==
    /\ TickStep \/ GwSend \/ SendOutcome
    /\ placed' = placed \cup {o.key : o \in live'}
    /\ accepted' = BrokerKeys
    /\ UNCHANGED <<booked, runVars>>

\* After a Tick: its error, the intent's end, or the wait for the next round.
TickReturns ==
    /\ At({"ticking"})
    /\ \/ err # "" /\ Failed
       \/ err = "" /\ DriveTo(IF mem.done # "" THEN "over" ELSE "wait")
    /\ UNCHANGED <<vars, ledgerVars, terminal, canceled>>

NextRound ==
    /\ At({"wait"})
    /\ DriveTo("ledger")
    /\ UNCHANGED <<vars, ledgerVars, terminal, canceled>>

\* stopForReconcile: after an interrupt, which every read and wait notices, or a
\* read that took too long, the kill switch is engaged and the executor ticked
\* once.
Interrupted == canceled /\ drive.pc \in {"ledger", "rows", "book", "wait", "failed"}

StopForReconcile ==
    /\ At({"ledger", "rows", "book", "wait", "failed", "stop"})
    /\ Interrupted \/ drive.pc = "stop"
    /\ killed' = TRUE
    /\ drive' = [NoDrive EXCEPT !.pc = "lastTick"]
    /\ UNCHANGED <<up, disk, now, faults, execVars, brokerVars, history, ledgerVars, terminal, canceled>>

LastTick ==
    /\ At({"lastTick"}) /\ TickStart
    /\ DriveTo("over")
    /\ UNCHANGED <<ledgerVars, terminal, canceled>>

RunGone == terminal' = {} /\ canceled' = FALSE /\ drive' = NoDrive

\* driveLive returns, and with it the process.
RunReturns ==
    /\ \/ At({"over", "off"})
       \/ At({"failed"}) /\ ~canceled
       \/ At({"lastTick"}) /\ err # ""
    /\ Exit
    /\ RunGone
    /\ UNCHANGED ledgerVars

-----------------------------------------------------------------------------
\* What Executor has besides.
Surroundings ==
    /\ BrokerFill \/ BrokerDrop \/ Advance
    /\ UNCHANGED <<ledgerVars, runVars>>

Operator ==
    /\ (Start /\ drive.pc = "off") \/ Restart
    /\ UNCHANGED <<ledgerVars, runVars>>

RunCrashes == Crash /\ RunGone /\ UNCHANGED ledgerVars

LiveInit ==
    /\ Init
    /\ booked = {} /\ placed = {} /\ accepted = {}
    /\ terminal = {} /\ canceled = FALSE /\ drive = NoDrive

\* The steps of driveLive itself.
DriveSteps ==
    \/ ReadLedger \/ LedgerRow \/ ReadOrder \/ LedgerRead \/ ReadBook \/ ReadFails
    \/ BeginTick \/ TickSteps \/ TickReturns \/ NextRound \/ StopForReconcile \/ LastTick
    \/ RunReturns

LiveNext ==
    \/ Operator \/ Drive \/ DriveSteps \/ RunCrashes \/ Cancel
    \/ LedgerBooks \/ LedgerSupersedes \/ Surroundings

LiveSpec == LiveInit /\ [][LiveNext]_liveVars

\* A run goes on while its process lives: every read has a time limit of its own
\* (liveReadTimeout), a request to E1 ends by its client's, the ticker fires; and
\* the clock moves, between Ticks here, hence strong fairness.  Nothing is
\* assumed of the ledger, the broker or the operator, who may never restart it.
FairLiveSpec ==
    /\ LiveSpec
    /\ WF_liveVars(DriveSteps)
    /\ SF_liveVars(Advance /\ UNCHANGED <<ledgerVars, runVars>>)

-----------------------------------------------------------------------------
\* The live runner implements Executor: although the ledger and the orders are
\* read one after the other, while the broker fills and the ledger books, what it
\* tells the executor is what one look at both would have shown
\* (SetLedgerComplete), and it counts only executions of the intent's orders.  So
\* what is proved of Executor holds for the live runner.
ImplementsExecutor == Spec

\* No run goes on for ever: whatever the ledger, the broker and the operator do or
\* fail to do, driveLive returns, by the intent's end, which its deadline forces
\* unless a read disagrees or fails, or with the error that hands the intent to
\* the operator ("operator reconcile required").
RunEnds == drive.pc # "off" ~> drive.pc = "off"
==============================================================================
