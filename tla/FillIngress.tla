------------------------------ MODULE FillIngress ------------------------------
(***************************************************************************)
(* From the websocket to the durable stream (internal/reader, the ingress  *)
(* pipeline and the shutdown of cmd/fillwire): the reader puts events on a *)
(* bounded channel, the decoder turns fills into records on a second one,  *)
(* the enqueuer appends them with XADD, and the supervisor stops the       *)
(* socket first and lets the rest drain until a deadline.                  *)
(*                                                                         *)
(* An event is its number in the order the socket gave it.  A closed       *)
(* channel is one whose only writer is done: events when the reader is,    *)
(* records when the decoder is.  A Go select with several ready cases      *)
(* takes any of them, so each case is a disjunct.                          *)
(***************************************************************************)
EXTENDS Integers, Sequences, FiniteSets, SequencesExt

CONSTANTS
    MaxEvents,   \* bound on the events the socket delivers
    Fills,       \* the events Decode takes for fills
    Buffer       \* channel.buffer, at least 1 (config.go)

ASSUME IngressAssumption ==
    /\ MaxEvents \in Nat
    /\ Fills \subseteq 1 .. MaxEvents
    /\ Buffer \in Nat \ {0}

VARIABLES
    received,       \* events the reader took from the socket
    session,        \* the KIS session: "open", "stopping", "stopped" (closed after
                    \* KIS ended it) or "closed" (for another reason)
    outcome,        \* reconnectState: "going" (also before any report) or "stopped"
    rpc, hand,      \* the reader, and the event it wants to put on events
    put,            \* history: the last event it put there
    readerErr,      \* what Run returns
    readerStopped,  \* readerCtx is cancelled
    events,         \* the channel between reader and decoder
    dpc, decoded,   \* the decoder, and the record it wants to put on records
    records,        \* the channel between decoder and enqueuer
    epc, record,    \* the enqueuer, and the record it appends
    enqueueCtx,     \* the context of that XADD: "worker" or "drain"
    ingressErr,     \* what the pipeline returns
    workerStopped,  \* workerCtx is cancelled
    stream,         \* what XADD stored
    redisFailed,    \* history: Redis failed an XADD
    drain,          \* drainCtx: "no", "on", "expired" or "canceled"
    sup,            \* the supervisor: "run", "await", "drain" or "exit"
    ingressSeen,    \* ingressFinished
    stopErr,        \* what runWithDependencies returns
    dropped         \* the drain-dropped counter

sessionVars == <<session, outcome>>
readerVars == <<received, rpc, hand, put, readerErr, sessionVars>>
decoderVars == <<dpc, decoded>>
enqueuerVars == <<epc, record, enqueueCtx, ingressErr, stream, redisFailed>>
supVars == <<sup, ingressSeen, stopErr, dropped, readerStopped>>
vars == <<readerVars, events, decoderVars, records, enqueuerVars, workerStopped,
          drain, supVars>>

Event == 1 .. MaxEvents
NoEvent == 0

TypeOK ==
    /\ received \in 0 .. MaxEvents /\ put \in 0 .. received
    /\ session \in {"open", "stopping", "stopped", "closed"}
    /\ outcome \in {"going", "stopped"}
    /\ rpc \in {"dial", "subscribe", "top", "select", "send", "done"}
    /\ hand \in Event \cup {NoEvent}
    /\ readerErr \in {"nil", "reader", "closed", "stopped"}
    /\ events \in Seq(Event) /\ Len(events) <= Buffer
    /\ dpc \in {"top", "select", "offer", "send", "done"}
    /\ decoded \in Fills \cup {NoEvent}
    /\ records \in Seq(Fills) /\ Len(records) <= Buffer
    /\ epc \in {"top", "select", "xadd", "wait", "done"}
    /\ record \in Fills \cup {NoEvent} /\ enqueueCtx \in {"worker", "drain"}
    /\ ingressErr \in {"nil", "canceled", "xadd"}
    /\ stream \in Seq(Fills)
    /\ drain \in {"no", "on", "expired", "canceled"}
    /\ sup \in {"run", "await", "drain", "exit"}
    /\ stopErr \in {"nil", "canceled", "xadd", "reader", "closed", "stopped", "other"}
    /\ dropped \in 0 .. 2 * Buffer
    /\ {readerStopped, workerStopped, redisFailed, ingressSeen} \subseteq BOOLEAN

HasRoom(channel) == Len(channel) < Buffer

-----------------------------------------------------------------------------
\* The KIS session, and what its callback records of it.

\* Mutant: the latest outcome is kept.
RecordLatest(result) == result

\* reconnectState.record: the end of the session stays the last word.
Record(result) == IF outcome = "stopped" THEN outcome ELSE result

\* KIS ends the session for good (OPSP8996: it is occupied).
SessionStops == session = "open" /\ session' = "stopping" /\ outcome' = Record("stopped")

\* A resubscription that ran beside it reports its outcome only now.
LateOutcome ==
    session \in {"stopping", "stopped"} /\ outcome' = Record("going") /\ UNCHANGED session

\* The channel of events is closed, and empty.
SessionCloses ==
    /\ \/ session = "stopping" /\ session' = "stopped"
       \/ session = "open" /\ session' = "closed"
    /\ UNCHANGED outcome

Session ==
    /\ rpc \notin {"dial", "done"}
    /\ SessionStops \/ LateOutcome \/ SessionCloses
    /\ UNCHANGED <<received, rpc, hand, put, readerErr, events, decoderVars, records, enqueuerVars,
                   workerStopped, drain, supVars>>

-----------------------------------------------------------------------------
\* Reader.Run.

\* Mutant: the blocking send does not watch the context.
CancelPointsButSend == {"dial", "subscribe", "top", "select"}

\* Where Run notices that its context is cancelled.
CancelPoints == {"dial", "subscribe", "top", "select", "send"}

ReaderStops ==
    /\ readerStopped /\ rpc \in CancelPoints
    /\ rpc' = "done" /\ hand' = NoEvent
    /\ UNCHANGED <<received, put, readerErr, sessionVars, events>>

\* The session is dialled, then subscribed once.
ReaderConnects ==
    /\ \/ rpc = "dial" /\ rpc' = "subscribe"
       \/ rpc = "subscribe" /\ rpc' = "top"
    /\ UNCHANGED <<received, hand, put, readerErr, sessionVars, events>>

ReaderChecks ==
    /\ rpc = "top" /\ ~readerStopped
    /\ rpc' = "select"
    /\ UNCHANGED <<received, hand, put, readerErr, sessionVars, events>>

ReaderReceives ==
    /\ rpc = "select" /\ session \in {"open", "stopping"} /\ received < MaxEvents
    /\ received' = received + 1 /\ hand' = received + 1
    /\ rpc' = "send"
    /\ UNCHANGED <<put, readerErr, sessionVars, events>>

\* A book frame goes to OnBook and never to the channel.
ReaderBook ==
    /\ rpc = "select" /\ session \in {"open", "stopping"}
    /\ rpc' = "top"
    /\ UNCHANGED <<received, hand, put, readerErr, sessionVars, events>>

ReaderSends ==
    /\ rpc = "send" /\ HasRoom(events)
    /\ events' = Append(events, hand) /\ put' = hand
    /\ hand' = NoEvent /\ rpc' = "top"
    /\ UNCHANGED <<received, readerErr, sessionVars>>

\* The channel of events is closed: stoppedError says why, after a cancellation
\* nothing has to be said.
ReaderClosed ==
    /\ rpc = "select" /\ session \in {"stopped", "closed"}
    /\ rpc' = "done"
    /\ readerErr' = IF readerStopped THEN "nil"
                    ELSE IF outcome = "stopped" THEN "stopped" ELSE "closed"
    /\ UNCHANGED <<received, hand, put, sessionVars, events>>

\* The dial or the subscription fails, or the approval key fails for good.
ReaderFails ==
    /\ \/ rpc \in {"dial", "subscribe"} /\ ~readerStopped
       \/ rpc \in {"select", "send"}
    /\ rpc' = "done" /\ hand' = NoEvent /\ readerErr' = "reader"
    /\ UNCHANGED <<received, put, sessionVars, events>>

ReaderRuns ==
    /\ ReaderStops \/ ReaderChecks \/ ReaderReceives \/ ReaderSends \/ ReaderClosed
    /\ UNCHANGED <<decoderVars, records, enqueuerVars, workerStopped, drain, supVars>>

Reader ==
    \/ ReaderRuns
    \/ /\ ReaderConnects \/ ReaderBook \/ ReaderFails
       /\ UNCHANGED <<decoderVars, records, enqueuerVars, workerStopped, drain, supVars>>

-----------------------------------------------------------------------------
\* ingressPipeline.run, the decoder goroutine.

DecoderStops ==
    /\ workerStopped /\ dpc \in {"top", "select", "offer", "send"}
    /\ dpc' = "done" /\ decoded' = NoEvent
    /\ UNCHANGED <<events, records>>

DecoderChecks ==
    /\ dpc \in {"top", "offer"} /\ ~workerStopped
    /\ dpc' = IF dpc = "top" THEN "select" ELSE "send"
    /\ UNCHANGED <<decoded, events, records>>

\* Decode takes only fills; any other event is skipped.
DecoderReceives ==
    /\ dpc = "select" /\ events # <<>>
    /\ events' = Tail(events)
    /\ \/ Head(events) \in Fills /\ dpc' = "offer" /\ decoded' = Head(events)
       \/ Head(events) \notin Fills /\ dpc' = "top" /\ UNCHANGED decoded
    /\ UNCHANGED records

DecoderSends ==
    /\ dpc = "send" /\ HasRoom(records)
    /\ records' = Append(records, decoded)
    /\ decoded' = NoEvent /\ dpc' = "top"
    /\ UNCHANGED events

\* Mutant: the end of the reader ends the decoder, whatever is buffered.
DecoderEndsAtClose ==
    /\ dpc = "select" /\ rpc = "done"
    /\ dpc' = "done"
    /\ UNCHANGED <<decoded, events, records>>

DecoderEnds ==
    /\ dpc = "select" /\ rpc = "done" /\ events = <<>>
    /\ dpc' = "done"
    /\ UNCHANGED <<decoded, events, records>>

Decoder ==
    /\ DecoderStops \/ DecoderChecks \/ DecoderReceives \/ DecoderSends \/ DecoderEnds
    /\ UNCHANGED <<readerVars, enqueuerVars, workerStopped, drain, supVars>>

-----------------------------------------------------------------------------
\* ingressPipeline.run, the enqueuer.

CtxDone(ctx) == IF ctx = "worker" THEN workerStopped ELSE drain \in {"expired", "canceled"}

EnqueuerStops ==
    /\ workerStopped /\ epc \in {"top", "select"}
    /\ epc' = "wait" /\ ingressErr' = "canceled"
    /\ UNCHANGED <<record, enqueueCtx, stream, redisFailed, records, workerStopped>>

EnqueuerChecks ==
    /\ epc = "top" /\ ~workerStopped
    /\ epc' = "select"
    /\ UNCHANGED <<record, enqueueCtx, ingressErr, stream, redisFailed, records, workerStopped>>

\* enqueueContext: the drain context as soon as there is one.
EnqueuerReceives ==
    /\ epc = "select" /\ records # <<>>
    /\ record' = Head(records) /\ records' = Tail(records)
    /\ enqueueCtx' = IF drain = "no" THEN "worker" ELSE "drain"
    /\ epc' = "xadd"
    /\ UNCHANGED <<ingressErr, stream, redisFailed, workerStopped>>

\* The Redis client repeats a command whose answer it lost, so that an entry may
\* be stored twice.
XAdd ==
    /\ epc = "xadd"
    /\ \E copies \in {<<record>>, <<record, record>>} : stream' = stream \o copies
    /\ record' = NoEvent /\ epc' = "top"
    /\ UNCHANGED <<enqueueCtx, ingressErr, redisFailed, records, workerStopped>>

\* Mutant: a failed XADD is skipped.
XAddFailsAndGoesOn ==
    /\ epc = "xadd" /\ ~redisFailed
    /\ redisFailed' = TRUE
    /\ record' = NoEvent /\ epc' = "top"
    /\ UNCHANGED <<enqueueCtx, ingressErr, stream, records, workerStopped>>

\* XADD fails, by its context or by Redis, before or after the entry is stored.
XAddFails ==
    /\ epc = "xadd"
    /\ redisFailed' = ~CtxDone(enqueueCtx)
    /\ \E copies \in {<<>>, <<record>>} : stream' = stream \o copies
    /\ workerStopped' = TRUE
    /\ record' = NoEvent /\ epc' = "wait" /\ ingressErr' = "xadd"
    /\ UNCHANGED <<enqueueCtx, records>>

\* The pipeline returns once the decoder has.  A failed XADD is reported unless
\* its context is done by then, and a worker context always is.
EnqueuerReturns ==
    /\ epc = "wait" /\ dpc = "done"
    /\ ingressErr' = IF ingressErr = "xadd" /\ CtxDone(enqueueCtx) THEN "canceled" ELSE ingressErr
    /\ epc' = "done" /\ workerStopped' = TRUE
    /\ UNCHANGED <<record, enqueueCtx, stream, redisFailed, records>>

\* Everything decoded was appended.
EnqueuerEnds ==
    /\ epc = "select" /\ dpc = "done" /\ records = <<>>
    /\ epc' = "done" /\ workerStopped' = TRUE
    /\ UNCHANGED <<record, enqueueCtx, ingressErr, stream, redisFailed, records>>

Enqueuer ==
    /\ \/ EnqueuerStops \/ EnqueuerChecks \/ EnqueuerReceives
       \/ XAdd \/ XAddFails \/ EnqueuerReturns \/ EnqueuerEnds
    /\ UNCHANGED <<readerVars, events, decoderVars, drain, supVars>>

-----------------------------------------------------------------------------
\* runWithDependencies, once everything runs.

\* A signal, or the end of the delivery runner or the key refresher.
ShutdownRequested == sup = "run" /\ stopErr' \in {"nil", "other"} /\ ingressSeen' = FALSE

\* readerDone: a reader nobody stopped has failed.
ReaderEnded == sup = "run" /\ rpc = "done" /\ stopErr' = readerErr /\ ingressSeen' = FALSE

IngressEnded == sup = "run" /\ epc = "done" /\ stopErr' = ingressErr /\ ingressSeen' = TRUE

\* The socket is stopped first.
StopReader ==
    /\ ShutdownRequested \/ ReaderEnded \/ IngressEnded
    /\ readerStopped' = TRUE /\ sup' = "await"
    /\ UNCHANGED <<readerVars, events, decoderVars, records, enqueuerVars, workerStopped,
                   drain, dropped>>

\* The drain begins when the reader has returned; a pipeline that already ended
\* leaves nothing to drain.
BeginDrain ==
    /\ sup = "await" /\ rpc = "done"
    /\ stopErr' = IF stopErr = "nil" THEN readerErr ELSE stopErr
    /\ \/ ingressSeen /\ sup' = "exit" /\ drain' = "canceled" /\ workerStopped' = TRUE
       \/ ~ingressSeen /\ sup' = "drain" /\ drain' = "on" /\ UNCHANGED workerStopped
    /\ UNCHANGED <<readerVars, events, decoderVars, records, enqueuerVars, ingressSeen,
                   dropped, readerStopped>>

DrainExpires ==
    /\ drain = "on"
    /\ drain' = "expired"
    /\ UNCHANGED <<readerVars, events, decoderVars, records, enqueuerVars, workerStopped,
                   supVars>>

\* context.AfterFunc runs pipeline.stop on a goroutine of its own.
StopAtDrainDeadline ==
    /\ drain = "expired" /\ ~workerStopped
    /\ workerStopped' = TRUE
    /\ UNCHANGED <<readerVars, events, decoderVars, records, enqueuerVars, drain, supVars>>

\* ingressDone within the drain: its error counts unless it is the context's.
Drained ==
    /\ sup = "drain" /\ epc = "done"
    /\ stopErr' = IF ingressErr = "xadd" /\ stopErr = "nil" THEN "xadd" ELSE stopErr
    /\ ingressSeen' = TRUE /\ sup' = "exit"
    /\ drain' = IF drain = "on" THEN "canceled" ELSE drain
    /\ workerStopped' = TRUE
    /\ UNCHANGED <<readerVars, events, decoderVars, records, enqueuerVars, dropped, readerStopped>>

\* The deadline: what is left in the two channels is counted.
DrainGivenUp ==
    /\ sup = "drain" /\ drain = "expired"
    /\ dropped' = Len(events) + Len(records)
    /\ workerStopped' = TRUE /\ sup' = "exit"
    /\ UNCHANGED <<readerVars, events, decoderVars, records, enqueuerVars, drain, ingressSeen,
                   stopErr, readerStopped>>

Supervisor == StopReader \/ BeginDrain \/ Drained \/ DrainGivenUp

-----------------------------------------------------------------------------
Init ==
    /\ session = "open" /\ outcome = "going"
    /\ received = 0 /\ rpc = "dial" /\ hand = NoEvent /\ put = 0 /\ readerErr = "nil"
    /\ events = <<>> /\ dpc = "top" /\ decoded = NoEvent /\ records = <<>>
    /\ epc = "top" /\ record = NoEvent /\ enqueueCtx = "worker" /\ ingressErr = "nil"
    /\ workerStopped = FALSE /\ stream = <<>> /\ redisFailed = FALSE
    /\ drain = "no" /\ sup = "run" /\ ingressSeen = FALSE /\ stopErr = "nil"
    /\ dropped = 0 /\ readerStopped = FALSE

Next == Session \/ Reader \/ Decoder \/ Enqueuer \/ Supervisor \/ DrainExpires \/ StopAtDrainDeadline

Spec == Init /\ [][Next]_vars

\* The goroutines of the reader and the supervisor run and the drain timer
\* fires; nothing is assumed of the pipeline, whose XADD may hang.  Neither a
\* shutdown nor a failure of the reader is assumed to happen.
FairSpec ==
    /\ Spec
    /\ WF_vars(ReaderRuns) /\ WF_vars(DrainExpires)
    /\ WF_vars(BeginDrain) /\ WF_vars(Drained \/ DrainGivenUp)

-----------------------------------------------------------------------------
Stored == ToSet(stream)
FillsUpTo(e) == {f \in Fills : f <= e}

\* Append order and no gap: a fill is in the stream only behind every earlier
\* fill the socket delivered, whatever failed in between ("a full bounded
\* channel applies backpressure instead of silently dropping a fill").
StreamHasNoGap ==
    \A k \in DOMAIN stream :
        FillsUpTo(stream[k]) \subseteq {stream[j] : j \in 1 .. k}

\* A shutdown within the drain window loses nothing the reader handed over:
\* unless Redis failed or the window closed, every fill put on the events
\* channel is in the stream when the process exits.  (An event still in the
\* reader's hand is dropped by the cancelled context.)
NothingLostInTime ==
    sup = "exit" /\ ~redisFailed /\ drain # "expired" => FillsUpTo(put) \subseteq Stored

\* The process ends with the reason KIS gave, and only then: a session KIS ended
\* (exit 42, which systemd does not restart) is told from one that closed for
\* another reason, although a resubscription may report a success after the end
\* ("Keep the terminal outcome authoritative").
StopReasonSurvives ==
    stopErr \in {"closed", "stopped"} => (stopErr = "stopped" <=> session = "stopped")

\* A shutdown ends, even while the channels are full and XADD hangs.
ShutdownEnds == sup # "run" ~> sup = "exit"

-----------------------------------------------------------------------------
\* What the documents say.

\* "Network, KIS 5xx, Redis, and lock-timeout failures exit 1": main exits 0 and
\* silently when the error is context.Canceled, so a failed XADD that brings the
\* process down must not end as that.
RedisFailureExits1 == sup = "exit" /\ redisFailed => stopErr # "canceled"
==============================================================================
