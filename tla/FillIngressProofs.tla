-------------------------- MODULE FillIngressProofs ---------------------------
(***************************************************************************)
(* The ingress loses and reorders nothing, for any number of events and    *)
(* any channel size.                                                       *)
(***************************************************************************)
EXTENDS FillIngress, SequenceTheorems, TLAPS

\* The last event the decoder took from its channel.
Taken == put - Len(events)

\* What is decoded and on its way, or stored.
Under == Stored \cup {record} \cup ToSet(records)

\* The enqueuer has not given up.
Appending == epc \in {"top", "select", "xadd"}

\* The drain excuses losses: Redis failed, or the window closed.
Broken == redisFailed \/ drain = "expired"

-----------------------------------------------------------------------------
\* The inductive invariant.

\* The reader puts every event it receives on the channel, one after the other,
\* and stops at the one it drops.
ReaderInv ==
    /\ rpc \in {"dial", "subscribe", "top", "select"} => hand = NoEvent /\ put = received
    /\ rpc = "send" => hand = received /\ received = put + 1
    /\ Len(events) <= put
    /\ \A i \in 1 .. Len(events) : events[i] = Taken + i

\* A goroutine has a record in hand exactly where it needs one.
HandInv ==
    /\ IF dpc \in {"offer", "send"} THEN decoded \in Fills ELSE decoded = NoEvent
    /\ IF epc = "xadd" THEN record \in Fills ELSE record = NoEvent

\* While the enqueuer appends, every fill taken is under way or stored, and each
\* stage is behind all earlier fills.
FlowInv ==
    Appending =>
        /\ epc = "xadd" => \A f \in Fills : f < record => f \in Stored
        /\ \A k \in 1 .. Len(records) : \A f \in Fills :
               f < records[k] => f \in Stored \/ f = record \/ \E j \in 1 .. k - 1 : f = records[j]
        /\ dpc \in {"offer", "send"} => \A f \in Fills : f < decoded => f \in Under
        /\ dpc # "done" \/ ~workerStopped => \A f \in Fills : f <= Taken => f \in Under \/ f = decoded

\* The order of stopping: unless the drain is broken, a goroutine ends only when
\* what is before it has ended and nothing is left for it.
AllStored == \A f \in Fills : f <= put => f \in Stored

StopInv ==
    /\ sup \in {"drain", "exit"} => rpc = "done"
    /\ sup \in {"run", "await"} => drain = "no"
    /\ drain = "canceled" => sup = "exit"
    /\ ingressSeen => epc = "done"
    /\ redisFailed => epc \in {"wait", "done"}
    /\ ~Broken =>
        /\ workerStopped => epc = "done" \/ sup = "exit"
        /\ epc = "wait" => sup = "exit"
        /\ epc = "done" \/ sup = "exit" => AllStored /\ rpc = "done"
        /\ dpc = "done" => epc = "done" \/ sup = "exit" \/ (rpc = "done" /\ events = <<>>)

\* What is recorded of the session is true of it, and what the reader and the
\* supervisor return of it is no longer changed.
ReasonInv ==
    /\ outcome = "stopped" <=> session \in {"stopping", "stopped"}
    /\ \A e \in {readerErr, stopErr} :
        /\ e = "stopped" => rpc = "done" /\ session = "stopped"
        /\ e = "closed" => rpc = "done" /\ session = "closed"

IndInv ==
    TypeOK /\ ReaderInv /\ HandInv /\ StreamHasNoGap /\ FlowInv /\ StopInv /\ ReasonInv

-----------------------------------------------------------------------------
\* Every action keeps IndInv.

\* The record in the enqueuer's hand is behind all earlier fills, so that it may
\* be appended, also twice.
LEMMA AppendsInOrder ==
    ASSUME IndInv, epc = "xadd", NEW copies \in {<<record>>, <<record, record>>},
           stream' = stream \o copies
    PROVE  Stored' = Stored \cup {record} /\ StreamHasNoGap'
<1>1. record \in Fills /\ stream \in Seq(Fills) /\ \A f \in Fills : f < record => f \in Stored
  BY DEF IndInv, TypeOK, HandInv, FlowInv, Appending
<1>2. /\ Len(stream') \in {Len(stream) + 1, Len(stream) + 2} /\ Len(stream) \in Nat
      /\ DOMAIN stream' = 1 .. Len(stream') /\ DOMAIN stream = 1 .. Len(stream)
      /\ \A i \in 1 .. Len(stream) : stream'[i] = stream[i]
      /\ \A i \in 1 .. Len(stream') : i > Len(stream) => stream'[i] = record
  <2>1. CASE copies = <<record>>
    <3>1. copies \in Seq(Fills) /\ Len(copies) = 1 /\ copies[1] = record
      BY <1>1, <2>1
    <3>2. /\ stream \o copies \in Seq(Fills) /\ Len(stream \o copies) = Len(stream) + Len(copies)
          /\ \A i \in 1 .. Len(stream) + Len(copies) : (stream \o copies)[i] =
                IF i <= Len(stream) THEN stream[i] ELSE copies[i - Len(stream)]
      BY <1>1, <3>1, ConcatProperties
    <3>3. stream' \in Seq(Fills) /\ Len(stream) \in Nat /\ Len(stream') = Len(stream) + 1
      BY <1>1, <3>1, <3>2
    <3>4. ASSUME NEW i \in 1 .. Len(stream'), i > Len(stream)
          PROVE  stream'[i] = record
      <4>1. i - Len(stream) \in 1 .. 1 /\ stream'[i] = copies[i - Len(stream)]
        BY <3>2, <3>3, <3>4
      <4> QED
        BY <3>1, <4>1
    <3>5. \A i \in 1 .. Len(stream) : stream'[i] = stream[i]
      BY <3>1, <3>2, <3>3
    <3> QED
      BY <1>1, <3>3, <3>4, <3>5
  <2>2. CASE copies = <<record, record>>
    <3>1. copies \in Seq(Fills) /\ Len(copies) = 2 /\ copies[1] = record /\ copies[2] = record
      BY <1>1, <2>2
    <3>2. /\ stream \o copies \in Seq(Fills) /\ Len(stream \o copies) = Len(stream) + Len(copies)
          /\ \A i \in 1 .. Len(stream) + Len(copies) : (stream \o copies)[i] =
                IF i <= Len(stream) THEN stream[i] ELSE copies[i - Len(stream)]
      BY <1>1, <3>1, ConcatProperties
    <3>3. stream' \in Seq(Fills) /\ Len(stream) \in Nat /\ Len(stream') = Len(stream) + 2
      BY <1>1, <3>1, <3>2
    <3>4. ASSUME NEW i \in 1 .. Len(stream'), i > Len(stream)
          PROVE  stream'[i] = record
      <4>1. i - Len(stream) \in 1 .. 2 /\ stream'[i] = copies[i - Len(stream)]
        BY <3>2, <3>3, <3>4
      <4> QED
        BY <3>1, <4>1
    <3>5. \A i \in 1 .. Len(stream) : stream'[i] = stream[i]
      BY <3>1, <3>2, <3>3
    <3> QED
      BY <1>1, <3>3, <3>4, <3>5
  <2> QED
    BY <2>1, <2>2
<1>3. Stored' = Stored \cup {record}
  BY <1>2 DEF Stored, ToSet
<1>4. Fills \subseteq Nat
  BY IngressAssumption
<1>5. ASSUME NEW k \in DOMAIN stream', NEW f \in Fills, f <= stream'[k]
      PROVE  \E j \in 1 .. k : f = stream'[j]
  <2>1. CASE k <= Len(stream)
    BY <1>2, <1>5, <2>1 DEF IndInv, StreamHasNoGap, FillsUpTo
  <2>2. CASE k > Len(stream)
    <3>1. f = record \/ f \in Stored
      BY <1>1, <1>2, <1>4, <1>5, <2>2
    <3>2. f \in Stored => \E j \in 1 .. Len(stream) : f = stream[j]
      BY <1>2 DEF Stored, ToSet
    <3> QED
      BY <1>2, <2>2, <3>1, <3>2
  <2> QED
    BY <1>2, <2>1, <2>2
<1> QED
  BY <1>3, <1>5 DEF StreamHasNoGap, FillsUpTo

\* KIS ends the session.
LEMMA SessionStopsOK ==
    ASSUME IndInv, SessionStops,
           UNCHANGED <<received, rpc, hand, put, readerErr, events,
                       decoderVars, records, enqueuerVars, workerStopped, drain, supVars>>
    PROVE  IndInv'
<1> USE IngressAssumption
    DEF SessionStops, sessionVars, readerVars, decoderVars, enqueuerVars, supVars, NoEvent
<1>1. TypeOK'
  BY DEF IndInv, TypeOK, Event, HasRoom, Record
<1>2. ReaderInv'
  BY DEF IndInv, TypeOK, ReaderInv, Taken
<1>3. HandInv'
  BY DEF IndInv, TypeOK, HandInv
<1>4. StreamHasNoGap'
  BY DEF IndInv, TypeOK, StreamHasNoGap, FillsUpTo
<1>5. FlowInv'
  BY DEF IndInv, TypeOK, FlowInv, Appending, Taken, Under, Stored, ToSet
<1>6. StopInv'
  BY DEF IndInv, TypeOK, StopInv, Broken, AllStored, Stored, ToSet
<1>7. ReasonInv'
  BY DEF IndInv, TypeOK, ReasonInv, Record
<1> QED
  BY <1>1, <1>2, <1>3, <1>4, <1>5, <1>6, <1>7 DEF IndInv

\* A late success does not undo the end of the session.
LEMMA LateOutcomeOK ==
    ASSUME IndInv, LateOutcome,
           UNCHANGED <<received, rpc, hand, put, readerErr, events,
                       decoderVars, records, enqueuerVars, workerStopped, drain, supVars>>
    PROVE  IndInv'
<1> USE IngressAssumption
    DEF LateOutcome, sessionVars, readerVars, decoderVars, enqueuerVars, supVars, NoEvent
<1>1. TypeOK'
  BY DEF IndInv, TypeOK, Event, HasRoom, Record
<1>2. ReaderInv'
  BY DEF IndInv, TypeOK, ReaderInv, Taken
<1>3. HandInv'
  BY DEF IndInv, TypeOK, HandInv
<1>4. StreamHasNoGap'
  BY DEF IndInv, TypeOK, StreamHasNoGap, FillsUpTo
<1>5. FlowInv'
  BY DEF IndInv, TypeOK, FlowInv, Appending, Taken, Under, Stored, ToSet
<1>6. StopInv'
  BY DEF IndInv, TypeOK, StopInv, Broken, AllStored, Stored, ToSet
<1>7. ReasonInv'
  BY DEF IndInv, TypeOK, ReasonInv, Record
<1> QED
  BY <1>1, <1>2, <1>3, <1>4, <1>5, <1>6, <1>7 DEF IndInv

\* The session's channel is closed.
LEMMA SessionClosesOK ==
    ASSUME IndInv, SessionCloses,
           UNCHANGED <<received, rpc, hand, put, readerErr, events,
                       decoderVars, records, enqueuerVars, workerStopped, drain, supVars>>
    PROVE  IndInv'
<1> USE IngressAssumption
    DEF SessionCloses, sessionVars, readerVars, decoderVars, enqueuerVars, supVars, NoEvent
<1>1. TypeOK'
  BY DEF IndInv, TypeOK, Event, HasRoom
<1>2. ReaderInv'
  BY DEF IndInv, TypeOK, ReaderInv, Taken
<1>3. HandInv'
  BY DEF IndInv, TypeOK, HandInv
<1>4. StreamHasNoGap'
  BY DEF IndInv, TypeOK, StreamHasNoGap, FillsUpTo
<1>5. FlowInv'
  BY DEF IndInv, TypeOK, FlowInv, Appending, Taken, Under, Stored, ToSet
<1>6. StopInv'
  BY DEF IndInv, TypeOK, StopInv, Broken, AllStored, Stored, ToSet
<1>7. ReasonInv'
  BY DEF IndInv, TypeOK, ReasonInv, Record
<1> QED
  BY <1>1, <1>2, <1>3, <1>4, <1>5, <1>6, <1>7 DEF IndInv

\* A cancelled reader drops at most the event in its hand.
LEMMA ReaderStopsOK ==
    ASSUME IndInv, ReaderStops,
           UNCHANGED <<decoderVars, records, enqueuerVars, workerStopped, drain, supVars>>
    PROVE  IndInv'
<1> USE IngressAssumption
    DEF ReaderStops, sessionVars, readerVars, decoderVars, enqueuerVars, supVars, NoEvent
<1>1. TypeOK'
  BY DEF IndInv, TypeOK, Event, HasRoom
<1>2. ReaderInv'
  BY DEF IndInv, TypeOK, ReaderInv, Taken
<1>3. HandInv'
  BY DEF IndInv, TypeOK, HandInv
<1>4. StreamHasNoGap'
  BY DEF IndInv, TypeOK, StreamHasNoGap, FillsUpTo
<1>5. FlowInv'
  BY DEF IndInv, TypeOK, FlowInv, Appending, Taken, Under, Stored, ToSet
<1>6. StopInv'
  BY DEF IndInv, TypeOK, StopInv, Broken, AllStored, Stored, ToSet
<1>7. ReasonInv'
  BY DEF IndInv, TypeOK, ReasonInv, Record
<1> QED
  BY <1>1, <1>2, <1>3, <1>4, <1>5, <1>6, <1>7 DEF IndInv

\* The reader dials and subscribes.
LEMMA ReaderConnectsOK ==
    ASSUME IndInv, ReaderConnects,
           UNCHANGED <<decoderVars, records, enqueuerVars, workerStopped, drain, supVars>>
    PROVE  IndInv'
<1> USE IngressAssumption
    DEF ReaderConnects, sessionVars, readerVars, decoderVars, enqueuerVars, supVars, NoEvent
<1>1. TypeOK'
  BY DEF IndInv, TypeOK, Event, HasRoom
<1>2. ReaderInv'
  BY DEF IndInv, TypeOK, ReaderInv, Taken
<1>3. HandInv'
  BY DEF IndInv, TypeOK, HandInv
<1>4. StreamHasNoGap'
  BY DEF IndInv, TypeOK, StreamHasNoGap, FillsUpTo
<1>5. FlowInv'
  BY DEF IndInv, TypeOK, FlowInv, Appending, Taken, Under, Stored, ToSet
<1>6. StopInv'
  BY DEF IndInv, TypeOK, StopInv, Broken, AllStored, Stored, ToSet
<1>7. ReasonInv'
  BY DEF IndInv, TypeOK, ReasonInv, Record
<1> QED
  BY <1>1, <1>2, <1>3, <1>4, <1>5, <1>6, <1>7 DEF IndInv

\* The reader's check of its context.
LEMMA ReaderChecksOK ==
    ASSUME IndInv, ReaderChecks,
           UNCHANGED <<decoderVars, records, enqueuerVars, workerStopped, drain, supVars>>
    PROVE  IndInv'
<1> USE IngressAssumption
    DEF ReaderChecks, sessionVars, readerVars, decoderVars, enqueuerVars, supVars, NoEvent
<1>1. TypeOK'
  BY DEF IndInv, TypeOK, Event, HasRoom
<1>2. ReaderInv'
  BY DEF IndInv, TypeOK, ReaderInv, Taken
<1>3. HandInv'
  BY DEF IndInv, TypeOK, HandInv
<1>4. StreamHasNoGap'
  BY DEF IndInv, TypeOK, StreamHasNoGap, FillsUpTo
<1>5. FlowInv'
  BY DEF IndInv, TypeOK, FlowInv, Appending, Taken, Under, Stored, ToSet
<1>6. StopInv'
  BY DEF IndInv, TypeOK, StopInv, Broken, AllStored, Stored, ToSet
<1>7. ReasonInv'
  BY DEF IndInv, TypeOK, ReasonInv, Record
<1> QED
  BY <1>1, <1>2, <1>3, <1>4, <1>5, <1>6, <1>7 DEF IndInv

\* The reader takes the next event in hand.
LEMMA ReaderReceivesOK ==
    ASSUME IndInv, ReaderReceives,
           UNCHANGED <<decoderVars, records, enqueuerVars, workerStopped, drain, supVars>>
    PROVE  IndInv'
<1> USE IngressAssumption
    DEF ReaderReceives, sessionVars, readerVars, decoderVars, enqueuerVars, supVars, NoEvent
<1>1. TypeOK'
  BY DEF IndInv, TypeOK, Event, HasRoom
<1>2. ReaderInv'
  BY DEF IndInv, TypeOK, ReaderInv, Taken
<1>3. HandInv'
  BY DEF IndInv, TypeOK, HandInv
<1>4. StreamHasNoGap'
  BY DEF IndInv, TypeOK, StreamHasNoGap, FillsUpTo
<1>5. FlowInv'
  BY DEF IndInv, TypeOK, FlowInv, Appending, Taken, Under, Stored, ToSet
<1>6. StopInv'
  BY DEF IndInv, TypeOK, StopInv, Broken, AllStored, Stored, ToSet
<1>7. ReasonInv'
  BY DEF IndInv, TypeOK, ReasonInv, Record
<1> QED
  BY <1>1, <1>2, <1>3, <1>4, <1>5, <1>6, <1>7 DEF IndInv

\* A book frame is no event.
LEMMA ReaderBookOK ==
    ASSUME IndInv, ReaderBook,
           UNCHANGED <<decoderVars, records, enqueuerVars, workerStopped, drain, supVars>>
    PROVE  IndInv'
<1> USE IngressAssumption
    DEF ReaderBook, sessionVars, readerVars, decoderVars, enqueuerVars, supVars, NoEvent
<1>1. TypeOK'
  BY DEF IndInv, TypeOK, Event, HasRoom
<1>2. ReaderInv'
  BY DEF IndInv, TypeOK, ReaderInv, Taken
<1>3. HandInv'
  BY DEF IndInv, TypeOK, HandInv
<1>4. StreamHasNoGap'
  BY DEF IndInv, TypeOK, StreamHasNoGap, FillsUpTo
<1>5. FlowInv'
  BY DEF IndInv, TypeOK, FlowInv, Appending, Taken, Under, Stored, ToSet
<1>6. StopInv'
  BY DEF IndInv, TypeOK, StopInv, Broken, AllStored, Stored, ToSet
<1>7. ReasonInv'
  BY DEF IndInv, TypeOK, ReasonInv, Record
<1> QED
  BY <1>1, <1>2, <1>3, <1>4, <1>5, <1>6, <1>7 DEF IndInv

\* The event in hand follows the last one on the channel.
LEMMA ReaderSendsOK ==
    ASSUME IndInv, ReaderSends,
           UNCHANGED <<decoderVars, records, enqueuerVars, workerStopped, drain, supVars>>
    PROVE  IndInv'
<1> USE IngressAssumption
    DEF ReaderSends, sessionVars, readerVars, decoderVars, enqueuerVars, supVars, NoEvent
<1>1. TypeOK'
  <2>1. hand \in Event /\ hand <= received
    BY DEF IndInv, TypeOK, ReaderInv, Event
  <2>2. events' \in Seq(Event) /\ Len(events') = Len(events) + 1 /\ Len(events') <= Buffer
    BY <2>1 DEF IndInv, TypeOK, HasRoom
  <2> QED
    BY <2>1, <2>2 DEF IndInv, TypeOK, Event
<1>2. ReaderInv'
  BY DEF IndInv, TypeOK, ReaderInv, Taken
<1>3. HandInv'
  BY DEF IndInv, TypeOK, HandInv
<1>4. StreamHasNoGap'
  BY DEF IndInv, TypeOK, StreamHasNoGap, FillsUpTo
<1>5. FlowInv'
  <2>1. Taken' = Taken
    BY DEF IndInv, TypeOK, ReaderInv, Taken
  <2> QED
    BY <2>1 DEF IndInv, FlowInv, Appending, Under, Stored
<1>6. StopInv'
  BY DEF IndInv, TypeOK, StopInv, Broken, AllStored, Stored, ToSet
<1>7. ReasonInv'
  BY DEF IndInv, TypeOK, ReasonInv, Record
<1> QED
  BY <1>1, <1>2, <1>3, <1>4, <1>5, <1>6, <1>7 DEF IndInv

\* The reader returns the reason for the end.
LEMMA ReaderClosedOK ==
    ASSUME IndInv, ReaderClosed,
           UNCHANGED <<decoderVars, records, enqueuerVars, workerStopped, drain, supVars>>
    PROVE  IndInv'
<1> USE IngressAssumption
    DEF ReaderClosed, sessionVars, readerVars, decoderVars, enqueuerVars, supVars, NoEvent
<1>1. TypeOK'
  BY DEF IndInv, TypeOK, Event, HasRoom
<1>2. ReaderInv'
  BY DEF IndInv, TypeOK, ReaderInv, Taken
<1>3. HandInv'
  BY DEF IndInv, TypeOK, HandInv
<1>4. StreamHasNoGap'
  BY DEF IndInv, TypeOK, StreamHasNoGap, FillsUpTo
<1>5. FlowInv'
  BY DEF IndInv, TypeOK, FlowInv, Appending, Taken, Under, Stored, ToSet
<1>6. StopInv'
  BY DEF IndInv, TypeOK, StopInv, Broken, AllStored, Stored, ToSet
<1>7. ReasonInv'
  BY DEF IndInv, TypeOK, ReasonInv, Record
<1> QED
  BY <1>1, <1>2, <1>3, <1>4, <1>5, <1>6, <1>7 DEF IndInv

\* A failing reader drops at most the event in its hand.
LEMMA ReaderFailsOK ==
    ASSUME IndInv, ReaderFails,
           UNCHANGED <<decoderVars, records, enqueuerVars, workerStopped, drain, supVars>>
    PROVE  IndInv'
<1> USE IngressAssumption
    DEF ReaderFails, sessionVars, readerVars, decoderVars, enqueuerVars, supVars, NoEvent
<1>1. TypeOK'
  BY DEF IndInv, TypeOK, Event, HasRoom
<1>2. ReaderInv'
  BY DEF IndInv, TypeOK, ReaderInv, Taken
<1>3. HandInv'
  BY DEF IndInv, TypeOK, HandInv
<1>4. StreamHasNoGap'
  BY DEF IndInv, TypeOK, StreamHasNoGap, FillsUpTo
<1>5. FlowInv'
  BY DEF IndInv, TypeOK, FlowInv, Appending, Taken, Under, Stored, ToSet
<1>6. StopInv'
  BY DEF IndInv, TypeOK, StopInv, Broken, AllStored, Stored, ToSet
<1>7. ReasonInv'
  BY DEF IndInv, TypeOK, ReasonInv, Record
<1> QED
  BY <1>1, <1>2, <1>3, <1>4, <1>5, <1>6, <1>7 DEF IndInv

\* A cancelled decoder drops its record only when the worker is stopped.
LEMMA DecoderStopsOK ==
    ASSUME IndInv, DecoderStops,
           UNCHANGED <<readerVars, enqueuerVars, workerStopped, drain, supVars>>
    PROVE  IndInv'
<1> USE IngressAssumption
    DEF DecoderStops, sessionVars, readerVars, decoderVars, enqueuerVars, supVars, NoEvent
<1>1. TypeOK'
  BY DEF IndInv, TypeOK, Event, HasRoom
<1>2. ReaderInv'
  BY DEF IndInv, TypeOK, ReaderInv, Taken
<1>3. HandInv'
  BY DEF IndInv, TypeOK, HandInv
<1>4. StreamHasNoGap'
  BY DEF IndInv, TypeOK, StreamHasNoGap, FillsUpTo
<1>5. FlowInv'
  BY DEF IndInv, TypeOK, FlowInv, Appending, Taken, Under, Stored, ToSet
<1>6. StopInv'
  BY DEF IndInv, TypeOK, StopInv, Broken, AllStored, Stored, ToSet
<1>7. ReasonInv'
  BY DEF IndInv, TypeOK, ReasonInv, Record
<1> QED
  BY <1>1, <1>2, <1>3, <1>4, <1>5, <1>6, <1>7 DEF IndInv

\* The decoder's check of its context.
LEMMA DecoderChecksOK ==
    ASSUME IndInv, DecoderChecks,
           UNCHANGED <<readerVars, enqueuerVars, workerStopped, drain, supVars>>
    PROVE  IndInv'
<1> USE IngressAssumption
    DEF DecoderChecks, sessionVars, readerVars, decoderVars, enqueuerVars, supVars, NoEvent
<1>1. TypeOK'
  BY DEF IndInv, TypeOK, Event, HasRoom
<1>2. ReaderInv'
  BY DEF IndInv, TypeOK, ReaderInv, Taken
<1>3. HandInv'
  BY DEF IndInv, TypeOK, HandInv
<1>4. StreamHasNoGap'
  BY DEF IndInv, TypeOK, StreamHasNoGap, FillsUpTo
<1>5. FlowInv'
  BY DEF IndInv, TypeOK, FlowInv, Appending, Taken, Under, Stored, ToSet
<1>6. StopInv'
  BY DEF IndInv, TypeOK, StopInv, Broken, AllStored, Stored, ToSet
<1>7. ReasonInv'
  BY DEF IndInv, TypeOK, ReasonInv, Record
<1> QED
  BY <1>1, <1>2, <1>3, <1>4, <1>5, <1>6, <1>7 DEF IndInv

\* The next event is taken: a fill is now in the decoder's hand.
LEMMA DecoderReceivesOK ==
    ASSUME IndInv, DecoderReceives,
           UNCHANGED <<readerVars, enqueuerVars, workerStopped, drain, supVars>>
    PROVE  IndInv'
<1> USE IngressAssumption
    DEF DecoderReceives, sessionVars, readerVars, decoderVars, enqueuerVars, supVars, NoEvent
<1>1. TypeOK'
  BY DEF IndInv, TypeOK, Event, HasRoom
<1>2. ReaderInv'
  BY DEF IndInv, TypeOK, ReaderInv, Taken
<1>3. HandInv'
  BY DEF IndInv, TypeOK, HandInv
<1>4. StreamHasNoGap'
  BY DEF IndInv, TypeOK, StreamHasNoGap, FillsUpTo
<1>5. FlowInv'
  <2>1. Taken' = Taken + 1 /\ Head(events) = Taken + 1 /\ Taken \in Int
    BY DEF IndInv, TypeOK, ReaderInv, Taken
  <2>2. decoded = NoEvent /\ dpc' # "done" /\ UNCHANGED <<Stored, Under, record, records, epc, workerStopped>>
    BY DEF IndInv, HandInv, Stored, Under
  <2>3. Fills \subseteq Nat \ {0}
    OBVIOUS
  <2>4. CASE Head(events) \in Fills
    <3>1. decoded' = Taken + 1
      BY <2>1, <2>4
    <3>2. \A f \in Fills : f <= Taken + 1 => f <= Taken \/ f = decoded'
      BY <2>1, <2>3, <3>1
    <3> QED
      BY <2>1, <2>2, <2>3, <3>1, <3>2 DEF IndInv, FlowInv, Appending
  <2>5. CASE Head(events) \notin Fills
    <3>1. \A f \in Fills : f <= Taken + 1 => f <= Taken
      BY <2>1, <2>3, <2>5
    <3> QED
      BY <2>1, <2>2, <2>5, <3>1 DEF IndInv, FlowInv, Appending
  <2> QED
    BY <2>4, <2>5
<1>6. StopInv'
  BY DEF IndInv, TypeOK, StopInv, Broken, AllStored, Stored, ToSet
<1>7. ReasonInv'
  BY DEF IndInv, TypeOK, ReasonInv, Record
<1> QED
  BY <1>1, <1>2, <1>3, <1>4, <1>5, <1>6, <1>7 DEF IndInv

\* The decoded fill is behind all that is under way.
LEMMA DecoderSendsOK ==
    ASSUME IndInv, DecoderSends,
           UNCHANGED <<readerVars, enqueuerVars, workerStopped, drain, supVars>>
    PROVE  IndInv'
<1> USE IngressAssumption
    DEF DecoderSends, sessionVars, readerVars, decoderVars, enqueuerVars, supVars, NoEvent
<1>1. TypeOK'
  <2>1. decoded \in Fills
    BY DEF IndInv, HandInv
  <2>2. records' \in Seq(Fills) /\ Len(records') = Len(records) + 1 /\ Len(records') <= Buffer
    BY <2>1 DEF IndInv, TypeOK, HasRoom
  <2> QED
    BY <2>2 DEF IndInv, TypeOK
<1>2. ReaderInv'
  BY DEF IndInv, TypeOK, ReaderInv, Taken
<1>3. HandInv'
  BY DEF IndInv, TypeOK, HandInv
<1>4. StreamHasNoGap'
  BY DEF IndInv, TypeOK, StreamHasNoGap, FillsUpTo
<1>5. FlowInv'
  <2>1. decoded \in Fills /\ records \in Seq(Fills)
    BY DEF IndInv, HandInv, TypeOK
  <2>2. /\ Len(records') = Len(records) + 1 /\ records'[Len(records) + 1] = decoded
        /\ \A i \in 1 .. Len(records) : records'[i] = records[i]
    BY <2>1
  <2>3. Under' = Under \cup {decoded}
    BY <2>1, <2>2 DEF Under, Stored, ToSet
  <2>4. \A f \in Under : f \in Stored \/ f = record \/ \E j \in 1 .. Len(records) : f = records[j]
    BY <2>1 DEF Under, ToSet
  <2>5. Taken' = Taken /\ UNCHANGED <<Stored, record>>
    BY DEF Taken, Stored
  <2>6. ASSUME NEW k \in 1 .. Len(records'), NEW f \in Fills, f < records'[k], Appending
        PROVE  f \in Stored \/ f = record \/ \E j \in 1 .. k - 1 : f = records'[j]
    <3>1. CASE k \in 1 .. Len(records)
      BY <2>1, <2>2, <2>6, <3>1 DEF IndInv, FlowInv
    <3>2. CASE k = Len(records) + 1
      <4>1. f \in Under
        BY <2>2, <2>6, <3>2 DEF IndInv, FlowInv
      <4> QED
        BY <2>1, <2>2, <2>4, <3>2, <4>1
    <3> QED
      BY <2>1, <2>2, <3>1, <3>2
  <2> QED
    BY <2>3, <2>5, <2>6 DEF IndInv, FlowInv, Appending
<1>6. StopInv'
  BY DEF IndInv, TypeOK, StopInv, Broken, AllStored, Stored, ToSet
<1>7. ReasonInv'
  BY DEF IndInv, TypeOK, ReasonInv, Record
<1> QED
  BY <1>1, <1>2, <1>3, <1>4, <1>5, <1>6, <1>7 DEF IndInv

\* The decoder ends when the reader has and nothing is left.
LEMMA DecoderEndsOK ==
    ASSUME IndInv, DecoderEnds,
           UNCHANGED <<readerVars, enqueuerVars, workerStopped, drain, supVars>>
    PROVE  IndInv'
<1> USE IngressAssumption
    DEF DecoderEnds, sessionVars, readerVars, decoderVars, enqueuerVars, supVars, NoEvent
<1>1. TypeOK'
  BY DEF IndInv, TypeOK, Event, HasRoom
<1>2. ReaderInv'
  BY DEF IndInv, TypeOK, ReaderInv, Taken
<1>3. HandInv'
  BY DEF IndInv, TypeOK, HandInv
<1>4. StreamHasNoGap'
  BY DEF IndInv, TypeOK, StreamHasNoGap, FillsUpTo
<1>5. FlowInv'
  BY DEF IndInv, TypeOK, FlowInv, Appending, Taken, Under, Stored, ToSet
<1>6. StopInv'
  BY DEF IndInv, TypeOK, StopInv, Broken, AllStored, Stored, ToSet
<1>7. ReasonInv'
  BY DEF IndInv, TypeOK, ReasonInv, Record
<1> QED
  BY <1>1, <1>2, <1>3, <1>4, <1>5, <1>6, <1>7 DEF IndInv

\* A cancelled enqueuer appends no more.
LEMMA EnqueuerStopsOK ==
    ASSUME IndInv, EnqueuerStops,
           UNCHANGED <<readerVars, events, decoderVars, drain, supVars>>
    PROVE  IndInv'
<1> USE IngressAssumption
    DEF EnqueuerStops, sessionVars, readerVars, decoderVars, enqueuerVars, supVars, NoEvent
<1>1. TypeOK'
  BY DEF IndInv, TypeOK, Event, HasRoom
<1>2. ReaderInv'
  BY DEF IndInv, TypeOK, ReaderInv, Taken
<1>3. HandInv'
  BY DEF IndInv, TypeOK, HandInv
<1>4. StreamHasNoGap'
  BY DEF IndInv, TypeOK, StreamHasNoGap, FillsUpTo
<1>5. FlowInv'
  BY DEF IndInv, TypeOK, FlowInv, Appending, Taken, Under, Stored, ToSet
<1>6. StopInv'
  BY DEF IndInv, TypeOK, StopInv, Broken, AllStored, Stored, ToSet
<1>7. ReasonInv'
  BY DEF IndInv, TypeOK, ReasonInv, Record
<1> QED
  BY <1>1, <1>2, <1>3, <1>4, <1>5, <1>6, <1>7 DEF IndInv

\* The enqueuer's check of its context.
LEMMA EnqueuerChecksOK ==
    ASSUME IndInv, EnqueuerChecks,
           UNCHANGED <<readerVars, events, decoderVars, drain, supVars>>
    PROVE  IndInv'
<1> USE IngressAssumption
    DEF EnqueuerChecks, sessionVars, readerVars, decoderVars, enqueuerVars, supVars, NoEvent
<1>1. TypeOK'
  BY DEF IndInv, TypeOK, Event, HasRoom
<1>2. ReaderInv'
  BY DEF IndInv, TypeOK, ReaderInv, Taken
<1>3. HandInv'
  BY DEF IndInv, TypeOK, HandInv
<1>4. StreamHasNoGap'
  BY DEF IndInv, TypeOK, StreamHasNoGap, FillsUpTo
<1>5. FlowInv'
  BY DEF IndInv, TypeOK, FlowInv, Appending, Taken, Under, Stored, ToSet
<1>6. StopInv'
  BY DEF IndInv, TypeOK, StopInv, Broken, AllStored, Stored, ToSet
<1>7. ReasonInv'
  BY DEF IndInv, TypeOK, ReasonInv, Record
<1> QED
  BY <1>1, <1>2, <1>3, <1>4, <1>5, <1>6, <1>7 DEF IndInv

\* The first record is behind only what is stored.
LEMMA EnqueuerReceivesOK ==
    ASSUME IndInv, EnqueuerReceives,
           UNCHANGED <<readerVars, events, decoderVars, drain, supVars>>
    PROVE  IndInv'
<1> USE IngressAssumption
    DEF EnqueuerReceives, sessionVars, readerVars, decoderVars, enqueuerVars, supVars, NoEvent
<1>1. TypeOK'
  BY DEF IndInv, TypeOK, Event, HasRoom
<1>2. ReaderInv'
  BY DEF IndInv, TypeOK, ReaderInv, Taken
<1>3. HandInv'
  BY DEF IndInv, TypeOK, HandInv
<1>4. StreamHasNoGap'
  BY DEF IndInv, TypeOK, StreamHasNoGap, FillsUpTo
<1>5. FlowInv'
  <2>1. /\ Len(records') = Len(records) - 1 /\ record' = records[1] /\ Len(records) \in Nat \ {0}
        /\ \A i \in 1 .. Len(records') : records'[i] = records[i + 1]
    BY DEF IndInv, TypeOK
  <2>2. record = NoEvent /\ NoEvent \notin Fills /\ Taken' = Taken /\ UNCHANGED Stored
    BY DEF IndInv, HandInv, Taken, Stored
  <2>3. \A f \in Under : f = NoEvent \/ f \in Under'
    <3>1. ASSUME NEW f \in ToSet(records)
          PROVE  f = record' \/ f \in ToSet(records')
      <4>1. PICK i \in 1 .. Len(records) : f = records[i]
        BY DEF IndInv, TypeOK, ToSet
      <4>2. CASE i = 1
        BY <2>1, <4>1, <4>2
      <4>3. CASE i # 1
        <5>1. i - 1 \in 1 .. Len(records') /\ (i - 1) + 1 = i
          BY <2>1, <4>3
        <5>2. f = records'[i - 1]
          BY <2>1, <4>1, <5>1
        <5>3. DOMAIN records' = 1 .. Len(records')
          BY DEF IndInv, TypeOK
        <5> QED
          BY <5>1, <5>2, <5>3 DEF ToSet
      <4> QED
        BY <4>2, <4>3
    <3> QED
      BY <2>2, <3>1 DEF Under
  <2>4. ASSUME NEW k \in 1 .. Len(records'), NEW f \in Fills, f < records'[k]
        PROVE  f \in Stored \/ f = record' \/ \E j \in 1 .. k - 1 : f = records'[j]
    <3>1. f < records[k + 1] /\ k + 1 \in 1 .. Len(records)
      BY <2>1, <2>4
    <3>2. f \in Stored \/ \E j \in 1 .. k : f = records[j]
      BY <2>2, <3>1 DEF IndInv, FlowInv, Appending
    <3>3. ASSUME NEW j \in 1 .. k, f = records[j]
          PROVE  f = record' \/ \E i \in 1 .. k - 1 : f = records'[i]
      <4>1. j = 1 \/ (j - 1 \in 1 .. k - 1 /\ records'[j - 1] = records[j])
        BY <2>1
      <4> QED
        BY <2>1, <3>3, <4>1
    <3> QED
      BY <3>2, <3>3
  <2>5. \A f \in Fills : f < record' => f \in Stored
    BY <2>1, <2>2 DEF IndInv, FlowInv, Appending
  <2> QED
    BY <2>2, <2>3, <2>4, <2>5 DEF IndInv, FlowInv, Appending
<1>6. StopInv'
  BY DEF IndInv, TypeOK, StopInv, Broken, AllStored, Stored, ToSet
<1>7. ReasonInv'
  BY DEF IndInv, TypeOK, ReasonInv, Record
<1> QED
  BY <1>1, <1>2, <1>3, <1>4, <1>5, <1>6, <1>7 DEF IndInv

\* The record is appended, once or twice.
LEMMA XAddOK ==
    ASSUME IndInv, XAdd,
           UNCHANGED <<readerVars, events, decoderVars, drain, supVars>>
    PROVE  IndInv'
<1> USE IngressAssumption
    DEF XAdd, sessionVars, readerVars, decoderVars, enqueuerVars, supVars, NoEvent
<1>1. TypeOK'
  <2>1. stream' \in Seq(Fills)
    <3>1. record \in Fills /\ stream \in Seq(Fills)
      BY DEF IndInv, TypeOK, HandInv
    <3>2. <<>> \in Seq(Fills) /\ <<record>> \in Seq(Fills) /\ <<record, record>> \in Seq(Fills)
      BY <3>1
    <3>3. PICK copies \in {<<>>, <<record>>, <<record, record>>} : stream' = stream \o copies
      OBVIOUS
    <3> QED
      BY <3>1, <3>2, <3>3, ConcatProperties
  <2> QED
    BY <2>1 DEF IndInv, TypeOK
<1>2. ReaderInv'
  BY DEF IndInv, TypeOK, ReaderInv, Taken
<1>3. HandInv'
  BY DEF IndInv, TypeOK, HandInv
<1>4. StreamHasNoGap'
  <2>1. PICK copies \in {<<record>>, <<record, record>>} : stream' = stream \o copies
    OBVIOUS
  <2> QED
    BY <2>1, AppendsInOrder
<1>5. FlowInv'
  <2>1. Stored' = Stored \cup {record}
    <3>1. PICK copies \in {<<record>>, <<record, record>>} : stream' = stream \o copies
      OBVIOUS
    <3> QED
      BY <3>1, AppendsInOrder
  <2>2. record' = NoEvent /\ NoEvent \notin Fills /\ Taken' = Taken /\ UNCHANGED records
    BY DEF Taken
  <2>3. Under \subseteq Under'
    BY <2>1, <2>2 DEF Under
  <2> QED
    BY <2>1, <2>2, <2>3 DEF IndInv, FlowInv, Appending
<1>6. StopInv'
  <2>1. PICK copies \in {<<record>>, <<record, record>>} : stream' = stream \o copies
    OBVIOUS
  <2>2. Stored' = Stored \cup {record}
    BY <2>1, AppendsInOrder
  <2>3. AllStored => AllStored'
    BY <2>2 DEF AllStored
  <2> QED
    BY <2>3 DEF IndInv, TypeOK, StopInv, Broken
<1>7. ReasonInv'
  BY DEF IndInv, TypeOK, ReasonInv, Record
<1> QED
  BY <1>1, <1>2, <1>3, <1>4, <1>5, <1>6, <1>7 DEF IndInv

\* A failed XADD ends the appending, whether it stored the record or not.
LEMMA XAddFailsOK ==
    ASSUME IndInv, XAddFails,
           UNCHANGED <<readerVars, events, decoderVars, drain, supVars>>
    PROVE  IndInv'
<1> USE IngressAssumption
    DEF XAddFails, sessionVars, readerVars, decoderVars, enqueuerVars, supVars, NoEvent
<1>1. TypeOK'
  <2>1. stream' \in Seq(Fills)
    <3>1. record \in Fills /\ stream \in Seq(Fills)
      BY DEF IndInv, TypeOK, HandInv
    <3>2. <<>> \in Seq(Fills) /\ <<record>> \in Seq(Fills) /\ <<record, record>> \in Seq(Fills)
      BY <3>1
    <3>3. PICK copies \in {<<>>, <<record>>, <<record, record>>} : stream' = stream \o copies
      OBVIOUS
    <3> QED
      BY <3>1, <3>2, <3>3, ConcatProperties
  <2> QED
    BY <2>1 DEF IndInv, TypeOK, CtxDone
<1>2. ReaderInv'
  BY DEF IndInv, TypeOK, ReaderInv, Taken
<1>3. HandInv'
  BY DEF IndInv, TypeOK, HandInv
<1>4. StreamHasNoGap'
  <2>1. PICK copies \in {<<>>, <<record>>} : stream' = stream \o copies
    OBVIOUS
  <2>2. CASE copies = <<>>
    BY <2>1, <2>2, ConcatEmptySeq DEF IndInv, TypeOK, StreamHasNoGap, FillsUpTo
  <2> QED
    BY <2>1, <2>2, AppendsInOrder
<1>5. FlowInv'
  BY DEF IndInv, TypeOK, FlowInv, Appending, Taken, Under, Stored, ToSet
<1>6. StopInv'
  <2>1. Stored \subseteq Stored'
    BY DEF IndInv, TypeOK, HandInv, Stored, ToSet
  <2>2. CtxDone(enqueueCtx) => workerStopped \/ drain = "expired" \/ sup = "exit"
    BY DEF IndInv, StopInv, CtxDone
  <2> QED
    BY <2>1, <2>2 DEF IndInv, StopInv, Broken, AllStored
<1>7. ReasonInv'
  BY DEF IndInv, TypeOK, ReasonInv, Record
<1> QED
  BY <1>1, <1>2, <1>3, <1>4, <1>5, <1>6, <1>7 DEF IndInv

\* The pipeline returns when its decoder has.
LEMMA EnqueuerReturnsOK ==
    ASSUME IndInv, EnqueuerReturns,
           UNCHANGED <<readerVars, events, decoderVars, drain, supVars>>
    PROVE  IndInv'
<1> USE IngressAssumption
    DEF EnqueuerReturns, sessionVars, readerVars, decoderVars, enqueuerVars, supVars, NoEvent
<1>1. TypeOK'
  BY DEF IndInv, TypeOK, Event, HasRoom
<1>2. ReaderInv'
  BY DEF IndInv, TypeOK, ReaderInv, Taken
<1>3. HandInv'
  BY DEF IndInv, TypeOK, HandInv
<1>4. StreamHasNoGap'
  BY DEF IndInv, TypeOK, StreamHasNoGap, FillsUpTo
<1>5. FlowInv'
  BY DEF IndInv, TypeOK, FlowInv, Appending, Taken, Under, Stored, ToSet
<1>6. StopInv'
  BY DEF IndInv, TypeOK, StopInv, Broken, AllStored, Stored, ToSet
<1>7. ReasonInv'
  BY DEF IndInv, TypeOK, ReasonInv, Record
<1> QED
  BY <1>1, <1>2, <1>3, <1>4, <1>5, <1>6, <1>7 DEF IndInv

\* The pipeline ends with everything decoded in the stream.
LEMMA EnqueuerEndsOK ==
    ASSUME IndInv, EnqueuerEnds,
           UNCHANGED <<readerVars, events, decoderVars, drain, supVars>>
    PROVE  IndInv'
<1> USE IngressAssumption
    DEF EnqueuerEnds, sessionVars, readerVars, decoderVars, enqueuerVars, supVars, NoEvent
<1>1. TypeOK'
  BY DEF IndInv, TypeOK, Event, HasRoom
<1>2. ReaderInv'
  BY DEF IndInv, TypeOK, ReaderInv, Taken
<1>3. HandInv'
  BY DEF IndInv, TypeOK, HandInv
<1>4. StreamHasNoGap'
  BY DEF IndInv, TypeOK, StreamHasNoGap, FillsUpTo
<1>5. FlowInv'
  BY DEF IndInv, TypeOK, FlowInv, Appending, Taken, Under, Stored, ToSet
<1>6. StopInv'
  <2>1. record = NoEvent /\ decoded = NoEvent /\ NoEvent \notin Fills
    BY DEF IndInv, HandInv
  <2>2. Under \subseteq Stored \cup {NoEvent}
    BY <2>1 DEF Under, ToSet
  <2>3. ~workerStopped /\ rpc = "done" /\ events = <<>> => AllStored
    BY <2>1, <2>2 DEF IndInv, TypeOK, FlowInv, Appending, AllStored, Taken
  <2>4. ~Broken => AllStored /\ rpc = "done"
    BY <2>3 DEF IndInv, StopInv
  <2> QED
    BY <2>4 DEF IndInv, StopInv, Broken, AllStored, Stored
<1>7. ReasonInv'
  BY DEF IndInv, TypeOK, ReasonInv, Record
<1> QED
  BY <1>1, <1>2, <1>3, <1>4, <1>5, <1>6, <1>7 DEF IndInv

\* The supervisor stops the reader for whatever reason.
LEMMA StopReaderOK == ASSUME IndInv, StopReader PROVE IndInv'
<1> USE IngressAssumption
    DEF StopReader, sessionVars, readerVars, decoderVars, enqueuerVars, supVars, NoEvent
<1>1. TypeOK'
  <2>1. stopErr' \in {"nil", "other", readerErr, ingressErr} /\ ingressSeen' \in BOOLEAN
    BY DEF ShutdownRequested, ReaderEnded, IngressEnded
  <2>2. stopErr' \in {"nil", "canceled", "xadd", "reader", "closed", "stopped", "other"}
    BY <2>1 DEF IndInv, TypeOK
  <2> QED
    BY <2>1, <2>2 DEF IndInv, TypeOK
<1>2. ReaderInv'
  BY DEF IndInv, TypeOK, ReaderInv, Taken
<1>3. HandInv'
  BY DEF IndInv, TypeOK, HandInv
<1>4. StreamHasNoGap'
  BY DEF IndInv, TypeOK, StreamHasNoGap, FillsUpTo
<1>5. FlowInv'
  BY DEF IndInv, FlowInv, Appending, Taken, Under, Stored
<1>6. StopInv'
  BY DEF IndInv, StopInv, Broken, AllStored, Stored, ShutdownRequested, ReaderEnded, IngressEnded
<1>7. ReasonInv'
  BY DEF IndInv, TypeOK, ReasonInv, ShutdownRequested, ReaderEnded, IngressEnded
<1> QED
  BY <1>1, <1>2, <1>3, <1>4, <1>5, <1>6, <1>7 DEF IndInv

\* The drain begins when the reader is done.
LEMMA BeginDrainOK == ASSUME IndInv, BeginDrain PROVE IndInv'
<1> USE IngressAssumption
    DEF BeginDrain, sessionVars, readerVars, decoderVars, enqueuerVars, supVars, NoEvent
<1>1. TypeOK'
  <2>1. stopErr' \in {"nil", "canceled", "xadd", "reader", "closed", "stopped", "other"}
    BY DEF IndInv, TypeOK
  <2>2. drain' \in {"on", "canceled"} /\ sup' \in {"drain", "exit"} /\ workerStopped' \in BOOLEAN
    BY DEF IndInv, TypeOK
  <2> QED
    BY <2>1, <2>2 DEF IndInv, TypeOK
<1>2. ReaderInv'
  BY DEF IndInv, TypeOK, ReaderInv, Taken
<1>3. HandInv'
  BY DEF IndInv, TypeOK, HandInv
<1>4. StreamHasNoGap'
  BY DEF IndInv, TypeOK, StreamHasNoGap, FillsUpTo
<1>5. FlowInv'
  BY Zenon DEF IndInv, FlowInv, Appending, Taken, Under, Stored
<1>6. StopInv'
  BY DEF IndInv, TypeOK, StopInv, Broken, AllStored, Stored, ToSet
<1>7. ReasonInv'
  BY DEF IndInv, TypeOK, ReasonInv, Record
<1> QED
  BY <1>1, <1>2, <1>3, <1>4, <1>5, <1>6, <1>7 DEF IndInv

\* The pipeline ended within the drain.
LEMMA DrainedOK == ASSUME IndInv, Drained PROVE IndInv'
<1> USE IngressAssumption
    DEF Drained, sessionVars, readerVars, decoderVars, enqueuerVars, supVars, NoEvent
<1>1. TypeOK'
  BY DEF IndInv, TypeOK, Event, HasRoom
<1>2. ReaderInv'
  BY DEF IndInv, TypeOK, ReaderInv, Taken
<1>3. HandInv'
  BY DEF IndInv, TypeOK, HandInv
<1>4. StreamHasNoGap'
  BY DEF IndInv, TypeOK, StreamHasNoGap, FillsUpTo
<1>5. FlowInv'
  BY DEF IndInv, TypeOK, FlowInv, Appending, Taken, Under, Stored, ToSet
<1>6. StopInv'
  BY DEF IndInv, TypeOK, StopInv, Broken, AllStored, Stored, ToSet
<1>7. ReasonInv'
  BY DEF IndInv, TypeOK, ReasonInv, Record
<1> QED
  BY <1>1, <1>2, <1>3, <1>4, <1>5, <1>6, <1>7 DEF IndInv

\* The supervisor gives up at the deadline.
LEMMA DrainGivenUpOK == ASSUME IndInv, DrainGivenUp PROVE IndInv'
<1> USE IngressAssumption
    DEF DrainGivenUp, sessionVars, readerVars, decoderVars, enqueuerVars, supVars, NoEvent
<1>1. TypeOK'
  BY DEF IndInv, TypeOK, Event, HasRoom
<1>2. ReaderInv'
  BY DEF IndInv, TypeOK, ReaderInv, Taken
<1>3. HandInv'
  BY DEF IndInv, TypeOK, HandInv
<1>4. StreamHasNoGap'
  BY DEF IndInv, TypeOK, StreamHasNoGap, FillsUpTo
<1>5. FlowInv'
  BY DEF IndInv, TypeOK, FlowInv, Appending, Taken, Under, Stored, ToSet
<1>6. StopInv'
  BY DEF IndInv, TypeOK, StopInv, Broken, AllStored, Stored, ToSet
<1>7. ReasonInv'
  BY DEF IndInv, TypeOK, ReasonInv, Record
<1> QED
  BY <1>1, <1>2, <1>3, <1>4, <1>5, <1>6, <1>7 DEF IndInv

\* The drain window closes.
LEMMA DrainExpiresOK == ASSUME IndInv, DrainExpires PROVE IndInv'
<1> USE IngressAssumption
    DEF DrainExpires, sessionVars, readerVars, decoderVars, enqueuerVars, supVars, NoEvent
<1>1. TypeOK'
  BY DEF IndInv, TypeOK, Event, HasRoom
<1>2. ReaderInv'
  BY DEF IndInv, TypeOK, ReaderInv, Taken
<1>3. HandInv'
  BY DEF IndInv, TypeOK, HandInv
<1>4. StreamHasNoGap'
  BY DEF IndInv, TypeOK, StreamHasNoGap, FillsUpTo
<1>5. FlowInv'
  BY DEF IndInv, TypeOK, FlowInv, Appending, Taken, Under, Stored, ToSet
<1>6. StopInv'
  BY DEF IndInv, TypeOK, StopInv, Broken, AllStored, Stored, ToSet
<1>7. ReasonInv'
  BY DEF IndInv, TypeOK, ReasonInv, Record
<1> QED
  BY <1>1, <1>2, <1>3, <1>4, <1>5, <1>6, <1>7 DEF IndInv

\* The deadline's callback stops the worker.
LEMMA StopAtDrainDeadlineOK == ASSUME IndInv, StopAtDrainDeadline PROVE IndInv'
<1> USE IngressAssumption
    DEF StopAtDrainDeadline, sessionVars, readerVars, decoderVars, enqueuerVars, supVars, NoEvent
<1>1. TypeOK'
  BY DEF IndInv, TypeOK, Event, HasRoom
<1>2. ReaderInv'
  BY DEF IndInv, TypeOK, ReaderInv, Taken
<1>3. HandInv'
  BY DEF IndInv, TypeOK, HandInv
<1>4. StreamHasNoGap'
  BY DEF IndInv, TypeOK, StreamHasNoGap, FillsUpTo
<1>5. FlowInv'
  BY DEF IndInv, TypeOK, FlowInv, Appending, Taken, Under, Stored, ToSet
<1>6. StopInv'
  BY DEF IndInv, TypeOK, StopInv, Broken, AllStored, Stored, ToSet
<1>7. ReasonInv'
  BY DEF IndInv, TypeOK, ReasonInv, Record
<1> QED
  BY <1>1, <1>2, <1>3, <1>4, <1>5, <1>6, <1>7 DEF IndInv

\* Nothing was received yet.
LEMMA InitOK == Init => IndInv
<1> SUFFICES ASSUME Init PROVE IndInv
  OBVIOUS
<1> USE IngressAssumption
    DEF Init, NoEvent
<1>1. TypeOK
  <2>1. events \in Seq(Event) /\ records \in Seq(Fills) /\ stream \in Seq(Fills)
    OBVIOUS
  <2>2. Len(events) = 0 /\ Len(records) = 0 /\ 0 <= Buffer
    OBVIOUS
  <2>3. received \in 0 .. MaxEvents /\ put \in 0 .. received /\ dropped \in 0 .. 2 * Buffer
    OBVIOUS
  <2> QED
    BY <2>1, <2>2, <2>3 DEF TypeOK
<1>2. ReaderInv /\ HandInv /\ StreamHasNoGap
  BY DEF ReaderInv, HandInv, StreamHasNoGap, Taken
<1>3. FlowInv
  BY DEF FlowInv, Taken
<1>4. StopInv /\ ReasonInv
  BY DEF StopInv, ReasonInv, Broken
<1> QED
  BY <1>1, <1>2, <1>3, <1>4 DEF IndInv

\* Every step keeps the invariant.
LEMMA NextOK == ASSUME IndInv, [Next]_vars PROVE IndInv'
<1>1. CASE Session
  BY <1>1, SessionStopsOK, LateOutcomeOK, SessionClosesOK DEF Session
<1>2. CASE Reader
  BY <1>2, ReaderStopsOK, ReaderConnectsOK, ReaderChecksOK, ReaderReceivesOK, ReaderBookOK,
     ReaderSendsOK, ReaderClosedOK, ReaderFailsOK DEF Reader, ReaderRuns
<1>3. CASE Decoder
  BY <1>3, DecoderStopsOK, DecoderChecksOK, DecoderReceivesOK, DecoderSendsOK, DecoderEndsOK
     DEF Decoder
<1>4. CASE Enqueuer
  BY <1>4, EnqueuerStopsOK, EnqueuerChecksOK, EnqueuerReceivesOK, XAddOK, XAddFailsOK,
     EnqueuerReturnsOK, EnqueuerEndsOK DEF Enqueuer
<1>5. CASE Supervisor \/ DrainExpires \/ StopAtDrainDeadline
  BY <1>5, StopReaderOK, BeginDrainOK, DrainedOK, DrainGivenUpOK,
     DrainExpiresOK, StopAtDrainDeadlineOK DEF Supervisor
<1>6. CASE UNCHANGED vars
  BY <1>6 DEF vars, sessionVars, readerVars, decoderVars, enqueuerVars, supVars, IndInv, TypeOK, ReaderInv, HandInv,
     StreamHasNoGap, FillsUpTo, FlowInv, StopInv, ReasonInv, Taken, Under, Stored, Appending,
     Broken, AllStored
<1> QED
  BY <1>1, <1>2, <1>3, <1>4, <1>5, <1>6 DEF Next

-----------------------------------------------------------------------------
\* The inductive invariant holds: every fill taken from the socket is in exactly
\* the stage its predecessors have passed, and a goroutine stops after those
\* before it.
THEOREM Invariance == Spec => []IndInv
<1>1. Init => IndInv
  BY InitOK
<1>2. IndInv /\ [Next]_vars => IndInv'
  BY NextOK
<1> QED
  BY <1>1, <1>2, PTL DEF Spec

\* The variables of the ingress keep their types; the channels never hold more
\* than their capacity.
THEOREM TypeCorrect == Spec => []TypeOK
<1>1. IndInv => TypeOK
  BY DEF IndInv
<1> QED
  BY <1>1, Invariance, PTL

\* A fill is appended only behind every earlier fill of the socket, whatever
\* backpressure, failed or repeated XADDs and shutdowns do (ingressPipeline.run).
THEOREM NoGapInStream == Spec => []StreamHasNoGap
<1>1. IndInv => StreamHasNoGap
  BY DEF IndInv
<1> QED
  BY <1>1, Invariance, PTL

\* A process that exits with its drain in time and Redis working has appended
\* every fill its reader put on the channel (the shutdown of runWithDependencies).
THEOREM DrainLosesNothing == Spec => []NothingLostInTime
<1>1. IndInv => NothingLostInTime
  BY DEF IndInv, StopInv, Broken, AllStored, NothingLostInTime, FillsUpTo
<1> QED
  BY <1>1, Invariance, PTL

\* The error the process exits with tells a session that KIS ended from one that
\* closed for another reason (reconnectState.record, stoppedError).
THEOREM StopReasonIsKept == Spec => []StopReasonSurvives
<1>1. IndInv => StopReasonSurvives
  BY DEF IndInv, ReasonInv, StopReasonSurvives
<1> QED
  BY <1>1, Invariance, PTL

=============================================================================
