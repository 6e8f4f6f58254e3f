# fillwire in TLA+

A verification development kept beside the fillwire repository. It models the
paths of the program that move money or money's evidence, the lock its processes
share and the lane that feeds it quotes, checks them with TLC on small instances
and proves the most important results with TLAPS:

* the **executor** (`internal/exec`), which works one approved intent at a
  broker through a gateway and journals every step before it acts, and the
  **live runner** (`cmd/execmock/live.go`), which drives it against the real
  ledger and broker;
* the **fill path** (`cmd/fillwire`, `internal/reader`, `internal/stream`,
  `internal/sink`), which carries executions from a websocket through a Redis
  stream to the execution ledger;
* the **approval key** (`internal/reader/approval.go`), which every process
  reads from Redis and at most one may be issuing;
* the **quote lane** (`internal/quote`), which keeps one websocket per trading
  window and declares its symbols within the server's limits;
* the **book evidence** (`internal/book`, `cmd/bookrec`), which records frames
  with a verdict on each, and replays the file.

Paths below are relative to the repository (`src/` in `PROJECT.json`).

## 1. Inventory

| Component | State | Operations | Talks to | What is hard |
|---|---|---|---|---|
| price grid, `internal/exec/tick.go` | none | TickAt, FloorTick, CeilTick, stepToward | state machine | band boundaries |
| intent, `intent.go` | none | Validate, Cap, TargetQty | state machine | rounding in the side's favour, zero room |
| state machine, `machine.go` | State | Apply (start, send, outcome, reconcile, fill, finish), decide | executor | unknown outcomes, late fills, halts |
| exposure, `exposure.go` | none | e1Room, E1CapsRefusal | decide, commit | lineages counted at their high-water mark |
| executor, `executor.go` | state, top, err, ledgerComplete, kill switch | Start, OnBook, OnFill, SetLedgerComplete, Tick | journal, gateway, clock, live runner | crash between journal, send and outcome |
| journal, `journal.go` | records on disk | OpenJournal, append | executor | torn and unsynced last record |
| ledger view, `ledger.go` | none | OnLedgerFill, BrokerOrders | executor, live runner | attribution of rows to keys |
| E1 client, `e1/` | none | Send, query | executor | a timed-out request may have arrived |
| live runner, `cmd/execmock/live.go` | loop, terminal views | refreshLedger, driveLive, stopForReconcile | executor, ledger, broker, book | reads of two systems that go on changing |
| reader, `internal/reader/reader.go` | session, last reconnect outcome | Run, reconnectState.record | KIS session, events channel | backpressure against shutdown, late outcomes |
| approval keys, `approval.go` | Redis key and lock | ApprovalKey, Reissue, RefreshLoop | reader, Redis, KIS | lock expiry, two issuers |
| ingress pipeline, `cmd/fillwire/main.go` | two channels, contexts | decoder and enqueuer goroutines | reader, stream | order of stopping, drain deadline |
| supervisor, `main.go` | stopErr | start, shutdown | everything | which of five ends comes first |
| stream, `internal/stream` | Redis stream and group | Enqueue, EnsureGroup, ReadNew, AutoClaim, Ack | pipeline, sink | trimming, pending entries |
| sink, `internal/sink` | batch | Run, reclaimPending, DeliverOnce | stream, ledger | lost answers, partial rejection, restarts |
| decoder, `internal/decode` | duplicate tracker, counters | Decode, ClassifyNotice | pipeline, sink | notices that are not fills |
| quote lane, `internal/quote` | window, connection, limiter, refused tokens, tick buffer | superviseLoop, runWindow, watchWindow, readLoop, writeLoop | Redis, Toss | windows against retries, clock jumps, rate limits, a stuck writer |
| order book, `internal/book` | tracker, evidence file | tracker.frame, reconnect, Recorder, Replay | `cmd/bookrec` | gaps, resync, torn lines |
| book feed, `internal/bookfeed` | one Redis stream per symbol | Publish, Latest | executor | stale snapshots |
| alerts, `internal/alert` | last sent per class | Alert | supervisor | rate limiting |
| commands and helpers | none | `execsim`, `bookrec`, `kisread`, `netpolicy`, `ctxwait`, `exitcode`, `jsonx`, `kst` | | |

What makes the parts correct: nothing is sent to the broker blind, twice,
beyond the limit or beyond the target, whatever crashes; a finished intent
leaves nothing working; no fill that reached the stream is forgotten before the
ledger holds it; the stream has no gaps; a shutdown ends, and in time loses
nothing and says why it happened; one process at a time issues an approval key,
and only when it must; the quote lane has one connection, in its window, and
stops when asked; a replayed evidence file shows what the recorder saw.

`PROJECT.json` lists the hazards behind these properties, at their lines.

## 2. Modules

```
KrxTick ── TickWalk ── MCTickWalk            ExecMachineProofs ── TickWalkProofs
   └─ ExecMachine                               └─ ExecutorProofs
         └─ Executor ── MCExecutor
               └─ LiveRun ── MCLiveRun            (LiveRun implements Executor)
FillIngress ── MCFillIngress                 FillIngressProofs
FillDelivery ── MCFillDelivery               FillDeliveryProofs
   └─ AtLeastOnce                                 (FillDelivery implements it)
ApprovalLock ── MCApprovalLock               ApprovalLockProofs
QuoteLane ── MCQuoteLane                     QuoteLaneProofs
BookEvidence ── MCBookEvidence               BookEvidenceProofs
```

**KrxTick** is `tick.go` as operators. **TickWalk** turns it into a behaviour:
an order that opens on the good side of its cap and is amended step by step.

**ExecMachine** is the pure part of `internal/exec`: the intent's bounds, the
State, E1's arithmetic, one pair of operators per journal record (`XApplies`,
`AfterX`, the two halves of Apply) and `Decide`. A child's key is its number, and
`Roots` is rootOf as a recursive function of that number.

**Executor** composes it with its surroundings. `mem` is `Executor.state`,
`disk` the state the journal would replay to; `pc` splits a Tick at the points
where the process can die or the world can move: before decide, after the send
is journaled, after gw.Send returned. The broker is the repository's own test
double (`exectest/fake.go`) with E1's answers (`e1/client.go`): accepted,
refused, uncertain, and a call that fails with the request lost, applied or
still under way. A journal append may fail with the record on disk or not. A
crash may come at any point; a restart replays. Fills are delivered in any
order and repeatedly. The clock advances between Ticks only, because a Tick
reads it once.

**LiveRun** is driveLive around Executor. `drive` is the loop: the rows of one
ledger read, the orders still to be read back, whether all of the others were
terminal. Every read is a step of its own, between which the broker fills and
the ledger books or supersedes rows; reads fail, the context ends anywhere, and
stopForReconcile then ticks once with the kill switch engaged. The steps of a
Tick, the broker and a crash are Executor's. `ImplementsExecutor` says that
every behaviour of LiveRun is one of Executor: the decisions the runner takes
from its separate reads are what Executor's atomic SetLedgerComplete and OnFill
allow. So the theorems about Executor hold for the live runner. `RunEnds` says that
a run returns whatever becomes of its intent: at the deadline by closing it, or
before with an error that leaves it to the operator. It does not say that every
intent is finished, which the code does not promise: an unresolved child ends each
run with ErrIncomplete, a run started again too.

**FillIngress** has the KIS session (external), the reader from its dial on,
decoder and enqueuer goroutines, both bounded channels, the two contexts and the
supervisor. `outcome` is reconnectState: what the session last reported, which a
resubscription still under way may report after the session's end. Every select is a set of
disjuncts, and the checks of a context before a select are steps of their own.
XADD may succeed (twice, if the client repeats a command), fail by its context
or by Redis, before or after it stored the entry.

**FillDelivery** has the stream with its consumer group, trimming and idle
times, and the sink: boot, claim page after page, read, post, acknowledge. The
ledger may take part of a post whose answer is lost, reject single records, and
an acknowledgement may fail with or without effect. Redis may execute XAUTOCLAIM
or XREADGROUP and its answer be lost: then either the client repeats the command
(go-redis does so by default, and the source leaves the default), and the repeat
returns other entries, or Run ends with the error, as it does when an entry cannot
be decoded. `lost` keeps what such answers carried. **AtLeastOnce** states what
this promises without processes, batches or answers: records are delivered in
order and none that is retained is left out, a fill is acknowledged only when it
is stored, and the only loss is the trimming of the oldest. A batch is a set of
ids, which are in stream order; the answer to a post is a sequence of statuses, and
`AckIds` matches it with the ids of the posted records by position, notices left
out. FillDelivery's `ImplementsAtLeastOnce` maps its variables to it.

**ApprovalLock** has Redis (the lock with its TTL, the cached key), the four
scripts and commands on it, and in each process a stream (ApprovalKey, Reissue)
and a refresher (RefreshLoop), which both go through singleFlight. `call[c].pc`
is the caller's next blocking call; `left` is what its publish deadline still
allows. Seconds are ticks, which stop at a holder whose deadline has come: its
context makes the call return. Only a fault (Stall) takes a caller past it. The
key's TTL of hours is fresh, due or gone and may run down at any moment; sleeps
and waits may end at any moment. A command whose caller gave up may be executed
at any later time, or never, and the client may have sent SETNX twice. A
cancelled context ends its process. A random token is nobody else's. KIS is
assumed to issue a new key at every call, in particular not the one it has just
rejected, with which singleFlight does not compare it; NeverRejectedAgain rests on
that.

**QuoteLane** has the supervisor (superviseLoop, runWindow), the window's
watcher, the reader and the writer, the controls and ticks channels, the
limiter, the memory of refused tokens and singleConnection. `sup.pc` is the
supervisor's next blocking point. Wall-clock time is a position on the schedule,
whose odd positions are windows, and may be set back; the limiter's monotonic
time is kept as ages and time left. The pause before a retry ends at a moment of the
monotonic clock, or, if that is later than the window's close, at the close on the
wall clock (`Wakes`); waitUntil looks at that moment only. A run leaves by any of its exits, and its
deferred calls are one step, CloseTransport. A reader that is not waited for may
install its cool-down after the next connection is up (InstallLate). A panic in
any goroutine stops the lane. Two history variables say what the limits are
about, independently of the limiter: `recent`, the ages of the last DeclareLimit
admissions, and `quiet`, what is left of the cool-downs the readers are through
with.

**BookEvidence** has the exchange (which issues snapshots and trades), the
recorder with its tracker and its streams' silence, the evidence file and the
replay of it. The file is kept as the replayer after its last line, so a line is
replayed once, when it is written. A write is cut off before, inside or at the
end of any line of a call, and the next recorder opens what is left.

## 3. Runs

| Run | Checks | Instance |
|---|---|---|
| `tick_walk` | CapIsNearest, StaysOnGrid, StepIsAdjacent, ReachesCap | limits on and around all six band boundaries, both sides, opening up to 1100 won away (more than the largest tick) |
| `recovery` | TypeOK, NoBlindSend, KeyUsedOnce, MemoryIsDurable, OneLiveOrder, NoOverfill, DoneMeansFlat, FillsCountedOnce, LimitRespected, PricesOnGrid, BackstopUnused | a buy and a sell of two with tight notional caps, two faults of any kind, deadline inside the run |
| `late` | WithinE1Caps | the buy; requests may arrive late, two faults, RequireLedgerComplete |
| `live_run` | DoneMeansLedgerComplete, ImplementsExecutor | a buy of two, one fault of Executor; the runner's own read failures and the interrupt are not counted |
| `live_run_ends` | RunEnds | a buy of one, one fault of Executor, RequireLedgerComplete |
| `late_overfill` | NoOverfill is violated | late requests, one fault |
| `ingress` | StreamHasNoGap, NothingLostInTime, StopReasonSurvives, ShutdownEnds | six events, channels of two |
| `ingress_redis_exit` | RedisFailureExits1 is violated | four events, channels of one |
| `delivery` | ReclaimedFirst, SettledUnlessSkipped, ImplementsAtLeastOnce | three entries (fills and notices), pages of up to two, stream of two, three faults |
| `approval` | DeadlineInsideLock, OneIssuer, IssuesOnlyWhenNeeded, NeverRejectedAgain | a stream and a refresher, lock TTL of two ticks, deadline of one, one fault |
| `quote_lane` | BreakBeforeMake, DeclaresWithinLimits, ReaderNeverStalls, ServesWindow, LeavesWithWindow, StopsWhenAsked | two windows, one token, one backward jump, one declaration in two seconds, a cool-down of one, channels of one |
| `book_evidence` | ReplayAgrees, SyncedIsFresh, TapeAccountsForVolume, ReplayAccepts | two days of two hours, trades of up to two in a volume of three, two crashes |

Bounds, and why they are enough. *MaxFaults* counts injected faults; every
scenario of `exec` that the source discusses (a lost answer, a crash, an unknown
cancel) needs one, and two allow a fault during the recovery from another.
*MaxTime* reaches the deadline. The buy's notional cap leaves an off-grid price
for a second order after a lost one, the sell's makes it give up price; the band
boundaries are `tick_walk`'s. *MaxStepsPerTick* is 3 instead of 8: a Tick is cut off more often,
never less. Channels of one and two slots fill up with the events given. Three
stream entries with pages of up to two give batches of a fill and a notice or of
two fills with different answers, and, since XAUTOCLAIM may stop behind any entry,
a reclaim of several pages; a stream of two gives the trimming of delivered and
undelivered entries. In `approval`
the stream and the refresher contend as two processes would, a deadline of one
tick and a TTL of two keep the code's order of 14 s and 15 s, and one fault is
enough for every kind of late command; the proofs cover any number of all. In
`quote_lane` a limit of one in two seconds makes every redeclaration wait, also
for an admission of the connection before; Horizon 3 is a window, the hours
after it and another window; one token is enough to be refused, forgotten (it is
the only one remembered) and replaced by none; channels of one are full after one
element. In `book_evidence` a volume of three is a baseline, a lost trade and one
behind it; two days are one change of day; two crashes are a line torn behind a
torn line. Snapshot contents are symmetric, because they are only compared for
equality. Deadlock is checked except where the system ends: a walk at its cap, a
process that exited, a lane that stopped.

### Fairness

* `LiveRun`: driveLive goes on while its process lives (weak fairness of its
  steps: every read has liveReadTimeout, a request to E1 its client's timeout, the
  ticker fires), and time passes. The clock stands still during a Tick in the
  model, so passing time is strong fairness of Advance. Nothing is assumed of the
  book, the ledger or the broker but that it refuses a finite number of cancels
  (a refusal is a fault), and nothing of the operator: a run that ended may never
  be started again (the runbook: "This build starts nothing automatically").
* `FillIngress`: only the reader, the supervisor and the drain timer are fair;
  the pipeline may hang in XADD, and no failure is assumed to happen.
* `FillDelivery`: the sink's steps, and the restart (`Restart=always` in the
  systemd unit). Appends, time and faults have no fairness.
* `QuoteLane`: the supervisor's goroutine runs (its dials, reads of the token and
  writes have timeouts), the watcher polls, the reader finishes what it does with
  a frame in hand, and monotonic seconds pass. Nothing is assumed of the server,
  the wall clock, the token's owner or the writer, whose XADD may hang.
* `Executor`, `BookEvidence`: none; the properties are safety.
* `ApprovalLock`: none, and no liveness. A contender waits 12 s while a holder
  may take 14 s, so whether a key comes back depends on how fast Redis and KIS
  answer, which nothing in the code bounds.

### What the violations show

1. `late_overfill`: machine.go says nothing the executor sends can overfill. A
   submit whose Send timed out can arrive after the reconcile that found no
   order; the next submit is for what E1's room leaves of the remainder (in the
   instance one share of two, since the lost submit still counts), and both fill.
   The quantity E1 authorised is not exceeded even so (`late`).
2. `ingress_redis_exit`: after a failed XADD the pipeline cancels the very
   context it then inspects, so the error becomes `context.Canceled`, and main
   takes that for a clean end: exit 0, no log, no alert, where the README
   promises exit 1.

### Observations

Made while modelling; the properties are worded around them.

* Ingress: the event in the reader's hand is dropped by a shutdown, though a
  comment in main.go promises every received fill an XADD; at the drain deadline
  only what lies in the channels is counted, and nothing if the stopped pipeline
  wins the select, though the README says what is in memory is counted.
* Delivery: pending entries are reclaimed once, at startup, and only if they are
  idle for `claim_min_idle` (1m in the example). A restart after 5 s skips them,
  and nothing looks again until the next restart; SettledUnlessSkipped excepts
  such an entry. The same becomes of entries whose delivery was in a lost answer
  of Redis: the repeated XREADGROUP reads those behind them, the repeated XAUTOCLAIM
  passes over what the first one claimed, whose idle time begins again, so Run goes
  on to new entries though its comment says that it "drains reclaimable pending
  messages before new ones". Both properties except such entries. A batch the ledger never accepts is retried for ever and holds
  up the later ones, by design.
* Executor: Validate accepts an intent whose position lies outside its own
  inventory range. For a buy below `min_position_after` e1Room looks only at
  `max_position_after`, E1CapsRefusal at both, so decide proposes an order that
  commit's backstop refuses, at every Tick until the deadline, although a comment
  at commit says that decide sizes every send. BackstopIsNeverUsed (section 4)
  shows that this is the only such case: its hypothesis is that intents start
  inside their range. Under late
  delivery the executed notional can exceed `max_notional_krw` by some ticks,
  because a lineage that is partly filled and then amended upward counts at its
  high-water notional only.
* Live runner: every fill the ledger lags behind the broker with ends the run
  with ErrIncomplete and leaves the order working; an unresolved child does the
  same, and only stopForReconcile's last Tick queries it. A run that is started
  again returns ErrIncomplete at its first refreshLedger; the runbook leaves the
  reconciling to the operator.
* Quote lane: waitUntil looks at its own deadline only, so a clock set back while
  the lane waits for the next opening, or in a retry pause that was cut to the
  window's close, makes it sleep through an earlier window, though the comment at
  maxWaitSlice says that a jump is noticed within a minute. ServesWindow excepts
  these waits. The limiter bounds admissions, not writes: a slow write can bring
  two declarations closer together. Ticks in the buffer when the lane stops are
  not counted as dropped.
* Book evidence: a session line torn directly behind a torn line makes Replay
  return ErrCorrupt for the rest of the file, though a comment in replay.go says
  a crash cannot have torn it; ReplayAccepts excepts that case. An older trade of
  the same day that is resent after a reconnect becomes the tape's baseline, and
  trades already on the tape are applied again. Recorder.Reconnect has no caller
  outside the tests.

## 4. Proofs

All theorems hold for every value of the constants; the assumptions are those of
the modules: constants have their types, intents are records, and Cap, TargetQty
and Validate are as in the source. Hypotheses beyond these are in the tables.

### Executor

`ExecutorProofs` proves, for every intent set, book, configuration and number of
faults, `Spec => []IndInv` and from it:

| Theorem | Property | Needs |
|---|---|---|
| TypeCorrect | TypeOK | |
| WriteAhead | NoBlindSend | |
| KeysAreFresh | KeyUsedOnce | |
| JournalIsCurrent | MemoryIsDurable | |
| LimitHolds | LimitRespected | |
| OneOrder | OneLiveOrder | no late delivery |
| TargetHolds | NoOverfill | no late delivery |
| FlatWhenDone | DoneMeansFlat | no late delivery |
| FillsAreCountedOnce | FillsCountedOnce | |
| LedgerCompleteWhenDone | DoneMeansLedgerComplete | no late delivery |
| PricesStayOnGrid | PricesOnGrid | the book's prices are on the grid |
| CapsAreKept | WithinE1Caps | |
| BackstopIsNeverUsed | BackstopUnused | intents start inside their inventory range |

The argument. NoBlindSend alone is not inductive: it needs that an unanswered
request is unresolved in the *journal* (GatewayInv), that memory equals the
journal unless an error is latched (ProcessInv), and that the unresolved child
is the last one journaled (JournalOK). OneLiveOrder needs that the broker works
at most the order the journal names or the one the unresolved child asks for
(BrokerInv). NoOverfill needs that whenever nothing works and nothing is
unresolved, the last reconcile already showed every execution (QuantityInv);
this is why Apply lets no new submit follow an accepted cancel without a view,
and it is what a late request breaks. IndInv was checked with TLC on the
instances of `recovery` and `late` before it was proved.

The later results do not go through the actions again. StepKinds says what a step
does to the journal and the broker: nothing, one record of one
of six kinds, or one event of the broker (DiskSteps keeps only the journal's
side). Each of the following is kept by every kind:

* *FillsInv*: in memory and on disk the counted fills are executions, and `filled`
  is the sum of their quantities. Executions are only appended, so a sum over
  fills that are counted already never changes.
* *LedgerInv*: what SetLedgerComplete saw (nothing works, every execution is
  counted) stays true until the next request, and the executor forgets it with
  the request. That no order can appear in between is IndInv's BrokerInv.
* *GridInv*: the cap, the children of the journal, the working order, the requests
  under way and the broker's orders are on the grid. An amend's price is the
  smaller of a step and the notional room's quotient, moved onto the grid; both
  are grid prices by the lemmas of `ExecMachineProofs`.
* *CapsInv*: what has executed and what is open is at most the sum of the submits
  that *reached* the broker. Late requests are children of the journal, and an
  amend takes over what is open of its order, so it adds nothing. The bound on all
  submits together is E1's: every submit starts a lineage of its own, whose
  high-water quantity is at least the submit's, and commit admitted the last one
  with all lineages counted.
* *SizedInv*: the journal's intent is valid, and every child targets an earlier
  one. With it RootOf is a child, e1Room counts the same lineages as
  E1CapsRefusal, and fitNewOrder's divisions leave a product inside the room
  (Quotient), also for a sell that gives up price.

`ExecMachineProofs` holds the arithmetic of the seven bands of the grid, the
lemmas about Apply and decide, one per record kind, those about E1's exposure, and
what sums are.

`TickWalkProofs` proves for every limit and every opening price that a walk
stays on the grid (WalkStaysOnGrid), skips no grid price (WalkStepIsAdjacent)
and that the cap is nearest to the limit (WalkCapIsNearest).

### Live runner

The end of `ExecutorProofs`, for every intent set, book and number of faults:

| Theorem | Property | Needs |
|---|---|---|
| LiveRunImplements | ImplementsExecutor | RequireLedgerComplete, no late delivery |
| LiveRunFinishesComplete | DoneMeansLedgerComplete | RequireLedgerComplete, no late delivery |

The first hypothesis is what live.go configures for every run that is not dry. The
second is what the argument needs: a request that arrives late can add an order
behind the reads. Every step of LiveRun is a step of Executor or leaves
Executor's variables alone; two of them need an argument.

*A row counted* (LedgerRow) must be a fill that OnFill accepts (RowApplies). Rows
are executions, executions are of orders E1 placed, which it was sent (PlaceInv),
and have a quantity and a price of at least 1, because Apply refuses a send
without them (PositiveInv). The executor is idle, without an error, and its memory
is the journal's state (DriveInv).

*The last order read back* (LedgerRead) must find what SetLedgerComplete's atomic
look would find. RowsOK is the invariant of the loop: as long as every order read
so far was terminal, each of them has ended at the broker *now*, and all its
executions are in the journal. It is kept because a terminal order does not come
back and fills no more, and because between Ticks nothing is sent; the cached
terminal views stay the broker's for the same reason (TerminalInv). The sum of an
order's rows equals the broker's filled quantity only if no execution is missing
(SumWhole): quantities are positive, so a proper subset has a smaller sum. When
no order is left to read, RowsOK is the snapshot (CompleteIsTrue). The converse
matters too: a ledger that was complete stays so, and the loop does not take the
flag back (`ledgerComplete => drive.complete`).

### Fill path

| Theorem of `FillDeliveryProofs` | Property |
|---|---|
| DeliveryIsAtLeastOnce | ImplementsAtLeastOnce |
| ReclaimingComesFirst | ReclaimedFirst |

Each action of FillDelivery is a step of AtLeastOnce or none. The invariant says
why the acknowledgement is one: whatever is to be acknowledged and is a fill is in
the ledger (StoredInv), also an entry of the batch that an acknowledgement taken
for failed has removed from the pending ones. ReclaimedFirst needs that what was
due at the start and is not delivered is in the batch, still claimable at the
cursor or behind it, or was in an answer that got lost (ReclaimInv): this is where
a page must end at the cursor that Redis returns, wherever that is, and where a
repeated XAUTOCLAIM may pass over nothing but what the lost one claimed. Lost
answers come from AnswerLost alone, so the theorem says that nothing else of the
code, pages, batches, failed posts or acknowledgements, lets a due entry slip.

| Theorem of `FillIngressProofs` | Property |
|---|---|
| TypeCorrect | TypeOK |
| NoGapInStream | StreamHasNoGap |
| DrainLosesNothing | NothingLostInTime |
| StopReasonIsKept | StopReasonSurvives |

Events are numbers, so the events channel is an interval that ends at the last
event put (ReaderInv). FlowInv: while the enqueuer appends, every fill the decoder
took is stored, in a hand or in the channel, each stage behind all earlier fills.
It holds only while the enqueuer appends, because a failed XADD drops its record
and the pipeline then never appends again. StopInv gives the order of stopping:
unless Redis failed or the deadline passed, a goroutine ends only when what is
before it has ended and nothing is left for it. ReasonInv: an outcome recorded of
a session that ended is not overwritten.

### Book evidence

| Theorem of `BookEvidenceProofs` | Property |
|---|---|
| ReplayIsFaithful | ReplayAgrees |
| BookIsFresh | SyncedIsFresh |
| TapeIsComplete | TapeAccountsForVolume |
| FilesAreReadable | ReplayAccepts |

The replayer is in step with the recorder after every line, not only after every
call (RecorderInv); a call cut off between its lines leaves a replayer that is
sound by itself (Sound), whatever recorder comes next. TapeAccountsForVolume needs
of the exchange that a trade's volume begins where an earlier one's ended, or
later (TradesInv), and of the tracker that its last trade is one of today unless
the next is a baseline (TapeInv).

### Approval key

`ApprovalLockProofs` proves, for every number of processes, callers and faults
and every PublishDeadline < ApprovalLockTTL, ApprovalLock's types and its four
properties. OneIssuer follows from DeadlineInsideLock: two issuers within their
deadlines would both hold the one token in Redis. DeadlineInsideLock is not
inductive: a release or a second SETNX still in flight could carry the holder's
token. The invariant CallOK adds that commands in flight with the token of an
attempt under way are only its own SETNX, that no two callers share a token, and
that before SETNX is answered the deadline is no further off than it was when
the attempt began.

### Quote lane

| Theorem of `QuoteLaneProofs` | Property |
|---|---|
| LaneTypeCorrect | TypeOK |
| BreaksBeforeMake | BreakBeforeMake |
| DeclarationsKeepLimits | DeclaresWithinLimits |

LaneInv, defined at the end of `QuoteLane`, has a part for each.

* *ConnectionInv*: the slot of singleConnection and the socket are held only where
  the supervisor has still to run the deferred calls, so not at the next dial.
* *AdmissionsInv*: the ages the limiter keeps are the youngest of `recent`, and
  the ones it forgot are out of the window. Ages never rise from one admission to
  the next, so reserve's loop, which drops every age out of the window wherever
  it stands, drops a prefix (Split, KeptIs); that makes "fewer than DeclareLimit
  are kept" the same as "the DeclareLimit-th last is a window old".
* *CoolInv*: notBefore is not before the end of any cool-down a reader is through
  with, nor of the one it is about to queue the frame of; a late reader's may only
  move it out (NotBeforeIs).

LaneInv was checked with TLC on an instance with a limit of two and a cool-down of
two before it was proved.

### Induction over data

The library's induction theorems take an operator as a parameter, which the
installed provers cannot instantiate. Sums, pages and lineages need induction all
the same. Where they do, a set of counterexamples is formed and its least element
refuted (LeastNat), or a set of subsets is shown to be all of them
(SubsetInduction). With these `ExecMachineProofs` proves that the fold behind
SumFunctionOnSet is a sum (of a union, of a set with one more element, of a
larger function) and that the recursion of `Roots` has a solution at all
(RootExists), which TLA+ does not grant a recursive function for free;
`QuoteLaneProofs` does the same for reserve's loop (KeptIs).

### Only model-checked

The liveness properties: RunEnds, ShutdownEnds, SettledUnlessSkipped,
ReachesCap, and QuoteLane's ReaderNeverStalls, ServesWindow, LeavesWithWindow and
StopsWhenAsked. They rest on fairness, which is out of the prover's reach. Every
safety property that a passing run checks is a theorem as well.

## 5. Not modelled, and left out of what is

Formats (JSON, HTTP, signatures, the fields of a frame), logging, metrics, retry
delays and jitter; configuration and its validation; `execsim` and `sim` (a
replay harness over the same executor), the dry run of `execmock`, `kisread` and
the small helpers; alerts and the book feed, on which no decision but the age of
a book depends. FillNotional and InFlightStatus of the State, which nothing
reads. Of the journal, its line format: what remains is that the last record may
be there or not. Of the approval provider, cache-only mode (one read, no lock)
and its counters. Of the decoder, all but whether an event is a fill: its
duplicate tracker only counts. Of the quote lane, the symbol lists and the
session calendar (a sequence of windows), and main's wait for the lane. Of the
book recorder, more than one symbol: trackers of different symbols share only the
day and a reconnect. Integers are unbounded: Validate keeps every product below
2^63.

## 6. What could follow

The models stop where section 5 says. The next parts worth a module are the book
feed, if the executor ever depends on more of a book than its age, and the
start-up of `cmd/fillwire`, which decides what runs beside what. A change to the
executor's records or to the order of its writes should start at `Executor` and
the run `recovery`; IndInv shows at once which argument it breaks.
