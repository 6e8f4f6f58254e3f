----------------------------- MODULE FillDelivery -----------------------------
(***************************************************************************)
(* From the durable stream to the execution ledger (internal/stream,       *)
(* internal/sink): the ingress appends records with XADD, one consumer     *)
(* reads them through a consumer group, posts them in batches and          *)
(* acknowledges what the ledger confirmed.                                 *)
(*                                                                         *)
(* A stream id is the entry's position in log, the sequence of all records *)
(* ever appended; id 0 is the source's "0-0".  Redis and the ledger are    *)
(* modelled from how the source uses them.  The sink is one goroutine; it  *)
(* interleaves with the ingress, the clock and the end of its process.     *)
(***************************************************************************)
EXTENDS Integers, Sequences, FiniteSets, FiniteSetsExt

CONSTANTS
    Fills,         \* records ClassifyNotice takes for fills
    Notices,       \* stored records of an older binary that are not fills
    MaxEntries,    \* bound on the records appended
    MaxLen,        \* Config.MaxLen
    BatchSize,     \* Config.BatchSize
    MaxFaults      \* bound of faults

Records == Fills \cup Notices

ASSUME DeliveryAssumption ==
    /\ Fills \cap Notices = {}
    /\ MaxEntries \in Nat /\ MaxFaults \in Nat
    /\ MaxLen \in Nat \ {0}
    /\ BatchSize \in Nat \ {0}

VARIABLES
    log,       \* every record appended to the stream
    first,     \* the oldest id MAXLEN has not trimmed
    group,     \* the consumer group exists
    lastId,    \* its last-delivered id
    pending,   \* its pending entries
    idle,      \* pending entries idle for ClaimMinIdle or longer
    pc,        \* "down", "claim", "read", "post" or "ack"
    cursor,    \* reclaimPending's cursor; 0 once it is through
    batch,     \* the messages being delivered; they are in the order of ids
    ackIds,    \* the ids the answer lets DeliverOnce acknowledge
    ledger,    \* the records the ledger holds
    rejected,  \* history: ids the ledger rejected at least once
    due,       \* history: entries claimable when this process started and
               \* neither delivered nor trimmed since
    skipped,   \* history: entries pending, but not claimable, at the last start
    lost,      \* history: entries whose delivery to this process was lost with
               \* Redis's answer and which it has not been given again
    faults

queue == <<log, first, group, lastId, pending, idle>>
sink == <<pc, cursor, batch, ackIds>>
vars == <<queue, sink, ledger, rejected, due, skipped, lost, faults>>

Ids == 1 .. Len(log)
IsFill(i) == log[i] \in Fills
RecordsOf(ids) == {log[i] : i \in ids}

\* The n smallest of a set of ids, or all of them: what COUNT lets through.
Leading(ids, n) ==
    CHOOSE page \in SUBSET ids :
        /\ Cardinality(page) = IF Cardinality(ids) < n THEN Cardinality(ids) ELSE n
        /\ \A i \in page, j \in ids \ page : i < j

TypeOK ==
    /\ log \in Seq(Records) /\ first \in 1 .. Len(log) + 1
    /\ group \in BOOLEAN /\ lastId \in 0 .. Len(log)
    /\ pending \subseteq 1 .. lastId /\ idle \subseteq pending
    /\ pc \in {"down", "claim", "read", "post", "ack"}
    /\ cursor \in 0 .. Len(log) + 1
    /\ batch \subseteq Ids /\ Cardinality(batch) <= BatchSize
    /\ ackIds \subseteq batch
    /\ ledger \subseteq Records /\ rejected \subseteq Ids
    /\ skipped \subseteq Ids /\ lost \subseteq Ids /\ due \subseteq pending
    /\ faults \in 0 .. MaxFaults

-----------------------------------------------------------------------------
\* Enqueue: XADD with an approximate MAXLEN, which may trim any of the oldest
\* entries beyond MaxLen, delivered or not.
Enqueue ==
    /\ Len(log) < MaxEntries
    /\ \E r \in Records : log' = Append(log, r)
    /\ \E f \in first .. Len(log) + 1 :
        /\ f = first \/ Len(log) + 1 - (f - 1) >= MaxLen
        /\ first' = f
    /\ UNCHANGED <<group, lastId, pending, idle, sink, ledger, rejected, due, skipped, lost, faults>>

\* Pending entries reach ClaimMinIdle.
GrowIdle ==
    /\ idle # pending
    /\ idle' = pending
    /\ UNCHANGED <<log, first, group, lastId, pending, sink, ledger, rejected, due, skipped, lost, faults>>

\* Mutant: a new group starts after what is already there.
EnsureGroupAtEnd == IF group THEN lastId ELSE Len(log)

\* EnsureGroup: a new group starts at 0; an existing one is left alone.
EnsureGroup == IF group THEN lastId ELSE 0

\* The process starts: Run ensures the group and begins to reclaim.
Boot ==
    /\ pc = "down"
    /\ group' = TRUE /\ lastId' = EnsureGroup
    /\ pc' = "claim" /\ cursor' = 1
    /\ due' = idle /\ skipped' = pending \ idle
    /\ UNCHANGED <<log, first, pending, idle, batch, ackIds, ledger, rejected, lost, faults>>

\* Hand a batch to deliverWithRetry; an empty one needs no delivery.
Deliver(messages, otherwise) ==
    /\ batch' = messages /\ lost' = lost \ messages
    /\ pc' = IF messages = {} THEN otherwise ELSE "post"

\* The process ends.
Ends ==
    /\ pc' = "down" /\ cursor' = 0 /\ batch' = {} /\ ackIds' = {}
    /\ due' = {} /\ lost' = {}

\* Redis executed a command, and the entries of its answer do not become a batch.
\* Either the connection broke and go-redis repeats the command, or its retries
\* are used up, or decodeEntries fails: then Run returns the error.
AnswerLost(entries) ==
    /\ faults < MaxFaults /\ faults' = faults + 1
    /\ \/ lost' = lost \cup entries /\ due' = due \cap pending' /\ UNCHANGED sink
       \/ Ends

\* XAUTOCLAIM walks over the pending entries from the cursor on and answers with
\* the one it stops at, or with 0 at the end.  It stops at COUNT entries, dropped
\* ones included, or after ten times as many that are not idle; the model lets it
\* stop anywhere behind the first entry.
Passed(next) == {i \in pending : i >= cursor /\ (next = 0 \/ i < next)}
Claimed(next) == {i \in Passed(next) : i \in idle /\ i >= first}
Trimmed(next) == {i \in Passed(next) : i < first}

\* It claims the idle entries it passes, which are not idle any more then, and
\* drops those that were trimmed.
XAutoClaim(next) ==
    /\ next = 0 \/ (next \in pending /\ Passed(next) # {})
    /\ Cardinality(Claimed(next)) <= BatchSize
    /\ pending' = pending \ Trimmed(next)
    /\ idle' = idle \ (Trimmed(next) \cup Claimed(next))
    /\ UNCHANGED <<log, first, group, lastId>>

\* Mutant: only the first page of pending entries is reclaimed.
OnwardToNew(next) == "read"

\* reclaimPending goes on with the next page, and ends at the last.
Onward(next) == IF next = 0 THEN "read" ELSE "claim"

\* AutoClaim: the next page of pending entries; an empty page is passed over.
AutoClaim ==
    /\ pc = "claim"
    /\ \E next \in {0} \cup pending :
        /\ XAutoClaim(next)
        /\ cursor' = next
        /\ Deliver(Claimed(next), Onward(next))
    /\ due' = due \cap pending'
    /\ UNCHANGED <<ackIds, ledger, rejected, skipped, faults>>

\* The answer of XAUTOCLAIM is lost: what it claimed is not idle any more and is
\* not in the answer of its repetition.
AutoClaimLost ==
    /\ pc = "claim"
    /\ \E next \in {0} \cup pending : XAutoClaim(next) /\ AnswerLost(Claimed(next))
    /\ UNCHANGED <<ledger, rejected, skipped>>

\* XREADGROUP with ">": the next entries never delivered, if there are any.
Fresh == Leading({i \in Ids : i > lastId /\ i >= first}, BatchSize)

XReadGroup ==
    /\ lastId' = IF Fresh = {} THEN lastId ELSE Max(Fresh)
    /\ pending' = pending \cup Fresh
    /\ UNCHANGED <<log, first, group, idle>>

ReadNew ==
    /\ pc = "read"
    /\ XReadGroup
    /\ Deliver(Fresh, "read")
    /\ UNCHANGED <<cursor, ackIds, ledger, rejected, due, skipped, faults>>

\* The answer of XREADGROUP is lost: its entries are pending, in no batch, and the
\* repetition reads those behind them.
ReadNewLost ==
    /\ pc = "read" /\ Fresh # {}
    /\ XReadGroup /\ AnswerLost(Fresh)
    /\ UNCHANGED <<ledger, rejected, skipped>>

-----------------------------------------------------------------------------
\* DeliverOnce.

ToPost == {i \in batch : IsFill(i)}
NonFillIds == {i \in batch : ~IsFill(i)}

\* The answer has one status per posted record, in the order of the post: where
\* the record with id i is among the ids of a list in stream order.
Place(i, ids) == Cardinality({j \in ids : j <= i})
Answers == [1 .. Cardinality(ToPost) -> {"stored", "rejected"}]

\* The posted records the ledger stored: inserted, updated or unchanged.
StoredBy(answer) == {i \in ToPost : answer[Place(i, ToPost)] = "stored"}

\* Mutant: as many ids as there are successes, from the first one on.
AckIdsByCount(answer) == NonFillIds \cup Leading(ToPost, Cardinality(StoredBy(answer)))

\* The ids an answer acknowledges: those whose status is a success, by position,
\* and those that were never posted.
AckIds(answer) == NonFillIds \cup {i \in ToPost : answer[Place(i, ToPost)] = "stored"}

\* The ledger answers every record of the post, which it holds then, or rejects.
\* A batch without fills is not posted at all.
Post ==
    /\ pc = "post"
    /\ \E answer \in Answers :
        /\ StoredBy(answer) = ToPost \/ faults < MaxFaults
        /\ faults' = IF StoredBy(answer) = ToPost THEN faults ELSE faults + 1
        /\ ledger' = ledger \cup RecordsOf(StoredBy(answer))
        /\ rejected' = rejected \cup (ToPost \ StoredBy(answer))
        /\ ackIds' = AckIds(answer)
    /\ pc' = "ack"
    /\ UNCHANGED <<queue, cursor, batch, due, skipped, lost>>

\* The post fails, or its answer is lost, has another number of results or an
\* unknown status: nothing is acknowledged and the whole batch is posted again,
\* whatever part of it the ledger took.
PostFails ==
    /\ pc = "post" /\ ToPost # {} /\ faults < MaxFaults
    /\ \E taken \in SUBSET ToPost : ledger' = ledger \cup RecordsOf(taken)
    /\ faults' = faults + 1
    /\ UNCHANGED <<queue, sink, rejected, due, skipped, lost>>

\* After a delivery: the next page of pending entries, or new ones.
Delivered ==
    /\ pc' = Onward(cursor)
    /\ batch' = {} /\ ackIds' = {}
    /\ due' = due \ batch

Ack ==
    /\ pc = "ack"
    /\ pending' = pending \ ackIds /\ idle' = idle \ ackIds
    /\ Delivered
    /\ UNCHANGED <<log, first, group, lastId, cursor, ledger, rejected, skipped, lost, faults>>

\* XACK fails, with or without effect: the whole batch is posted again.
AckFails ==
    /\ pc = "ack" /\ faults < MaxFaults
    /\ \E done \in {{}, ackIds} :
        /\ pending' = pending \ done /\ idle' = idle \ done /\ due' = due \ done
    /\ pc' = "post" /\ ackIds' = {}
    /\ faults' = faults + 1
    /\ UNCHANGED <<log, first, group, lastId, cursor, batch, ledger, rejected, skipped, lost>>

\* The process ends: a crash, a signal, or a Redis read that failed, which Run
\* returns and the process exits with.
Stop ==
    /\ pc # "down" /\ faults < MaxFaults
    /\ Ends
    /\ faults' = faults + 1
    /\ UNCHANGED <<queue, ledger, rejected, skipped>>

-----------------------------------------------------------------------------
Init ==
    /\ log = <<>> /\ first = 1 /\ group = FALSE /\ lastId = 0
    /\ pending = {} /\ idle = {}
    /\ pc = "down" /\ cursor = 0 /\ batch = {} /\ ackIds = {}
    /\ ledger = {} /\ rejected = {} /\ due = {} /\ skipped = {} /\ lost = {}
    /\ faults = 0

Run == Boot \/ AutoClaim \/ ReadNew \/ Post \/ Ack

Next ==
    \/ Enqueue \/ GrowIdle \/ Run
    \/ AutoClaimLost \/ ReadNewLost \/ PostFails \/ AckFails \/ Stop

Spec == Init /\ [][Next]_vars

\* The process is restarted when it ends (systemd, Restart=always), and the sink
\* goes on while it runs.
FairSpec == Spec /\ WF_vars(Run)

-----------------------------------------------------------------------------
\* Reclaiming comes before new entries: a process reads new entries only when
\* everything claimable at its start was delivered, trimmed or acknowledged, page
\* after page, but for what the client's own repetition of XAUTOCLAIM passes over
\* ("drains reclaimable pending messages before new ones").
ReclaimedFirst == pc = "read" => due \subseteq lost

\* An entry was read, if it is a fill stored, and acknowledged; or it was trimmed
\* or rejected, which ends its delivery.
Settled(i) ==
    \/ i < first \/ i \in rejected
    \/ i <= lastId /\ i \notin pending /\ (IsFill(i) => log[i] \in ledger)

\* Every entry appended to the stream is settled in the end, after any finite
\* number of failures and restarts, with two exceptions, which both wait for the
\* next start: the last start skipped it because it was not idle for ClaimMinIdle,
\* or the answer that carried it was lost and the client repeated the command.
SettledUnlessSkipped ==
    \A i \in 1 .. MaxEntries :
        <>[](Len(log) >= i => Settled(i) \/ i \in skipped \/ i \in lost)

-----------------------------------------------------------------------------
\* What the stream, the group and the sink promise together.
Queue == INSTANCE AtLeastOnce
    WITH appended <- log, oldest <- first, head <- lastId, unacked <- pending, store <- ledger

\* The sink with its batches, lost answers, repeated posts, half-done
\* acknowledgements and restarts is an at-least-once queue: the first delivery is
\* in stream order without a hole, only delivered fills reach the ledger, and an
\* acknowledgement follows the storing, so that no delivered fill is lost unless
\* it was trimmed ("Callers must never acknowledge an unconfirmed message").
ImplementsAtLeastOnce == Queue!Spec
==============================================================================
