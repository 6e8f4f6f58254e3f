-------------------------- MODULE BookEvidenceProofs --------------------------
(***************************************************************************)
(* The evidence file says what the recorder knew, for any number of        *)
(* records, days, sessions and crashes.                                    *)
(***************************************************************************)
EXTENDS BookEvidence, SequenceTheorems, TLAPS

-----------------------------------------------------------------------------
\* The inductive invariant.

Tracker ==
    [day : Nat,
     book : [last : Snapshots \cup {None}, synced : BOOLEAN],
     trade : [last : TradesOf \cup {None}, resync : BOOLEAN, restart : BOOLEAN]]

Replayer ==
    [tracker : Tracker, book : Snapshots \cup {None},
     tape : [base : Int, counted : Int, missing : Int], stale : [Streams -> Nat],
     mismatch : BOOLEAN, open : BOOLEAN, torn : BOOLEAN, corrupt : BOOLEAN]

\* The exchange: a trade's volume begins where an earlier trade's volume ended,
\* or later.
TradesInv ==
    /\ day \in Nat \ {0} /\ volume \in Nat /\ trades \subseteq TradesOf
    /\ \A s \in trades : s.acml <= volume
    /\ \A s, t \in trades : s.acml < t.acml => s.acml <= t.acml - t.qty

\* The tape of a replayer adds up, and its cursor is a trade of today unless the
\* next one is a baseline.
TapeInv(r) ==
    LET t == r.tracker IN
    /\ t.day <= day
    /\ t.trade.last # None =>
        /\ t.day # 0
        /\ r.tape.base + r.tape.counted + r.tape.missing = t.trade.last.acml
        /\ t.day = day /\ ~t.trade.restart => t.trade.last \in trades

\* A replayer of lines that recorders wrote.
Sound(r) == r \in Replayer /\ ~r.mismatch /\ TapeInv(r)

\* One that can read another line of the same session, or none at all.
Usable(r) == r.corrupt \/ (r.open /\ ~r.torn)

\* The book of a tracker is the freshest snapshot since it was unsynced.
FreshInv(t, snapshots) ==
    /\ snapshots \subseteq Snapshots
    /\ t.book.synced = (snapshots # {})
    /\ t.book.synced => /\ t.book.last \in snapshots
                        /\ \A s \in snapshots : s.hour <= t.book.last.hour

\* A recorder that runs, and the file it writes.
RecorderInv ==
    IF up
    THEN /\ Usable(rp)
         /\ ~rp.corrupt =>
              /\ rp.tracker = tracker
              /\ \A s \in Streams : rp.stale[s] = (IF streams[s] = "stale" THEN 1 ELSE 0)
              /\ rp.book = (IF tracker.book.synced THEN tracker.book.last ELSE None)
              /\ FreshInv(tracker, since)
    ELSE tracker = NewTracker /\ streams = [s \in Streams |-> "new"] /\ since = {}

IndInv ==
    /\ TradesInv /\ Sound(rp) /\ RecorderInv
    /\ streams \in [Streams -> {"new", "heard", "silent", "stale"}]
    /\ tornTwice \in BOOLEAN
    /\ rp.corrupt => tornTwice

-----------------------------------------------------------------------------
\* The tracker.

\* What arrives is of today, and a trade is one of today's.
LEMMA Arrived ==
    ASSUME TradesInv, NEW a \in Arrivals
    PROVE  /\ a.kind = "frame" /\ a.tr \in Streams /\ a.at = day
           /\ a.tr = "book" => a.record \in Snapshots
           /\ a.tr = "trade" => a.record \in trades /\ a.record \in TradesOf
BY DEF Arrivals, Streams, TradesInv

\* The zero values have their types.
LEMMA NewTyped == NewTracker \in Tracker /\ NewReplayer \in Replayer
<1>1. NewTracker \in Tracker
  BY DEF NewTracker, Tracker
<1> QED
  BY <1>1 DEF NewReplayer, Replayer

\* A frame of today moves the tracker to today; on a new day the book is
\* unsynced and the next trade is a baseline.
LEMMA DayFields ==
    ASSUME NEW t \in Tracker, NEW at \in Nat
    PROVE  /\ OnDay(t, at) \in Tracker
           /\ OnDay(t, at).day = IF at > t.day THEN at ELSE t.day
           /\ OnDay(t, at).book.last = t.book.last
           /\ OnDay(t, at).book.synced = (t.book.synced /\ ~NewDay(t, at))
           /\ OnDay(t, at).trade.last = t.trade.last
           /\ OnDay(t, at).trade.resync = t.trade.resync
           /\ OnDay(t, at).trade.restart =
                IF NewDay(t, at) THEN t.trade.last # None ELSE t.trade.restart
<1>1. CASE ~(at > t.day)
  BY <1>1 DEF OnDay, NewDay, Tracker
<1>2. CASE at > t.day /\ ~NewDay(t, at)
  BY <1>2 DEF OnDay, Tracker
<1>3. CASE at > t.day /\ NewDay(t, at)
  BY <1>3 DEF OnDay, StartDay, Tracker
<1> QED
  BY <1>1, <1>2, <1>3 DEF Tracker

\* A tracker after a frame.
LEMMA TrackFields ==
    ASSUME TradesInv, NEW t \in Tracker, NEW a \in Arrivals
    PROVE  LET q == TrackFrame(t, a)
               d == OnDay(t, a.at) IN
           /\ q \in Tracker
           /\ q.day = d.day
           /\ a.tr = "book" => /\ q.trade = d.trade
                               /\ q.book = IF Applied(VerdictOn(t, a))
                                           THEN [last |-> a.record, synced |-> TRUE] ELSE d.book
           /\ a.tr # "book" => /\ q.book = d.book
                               /\ ~q.trade.restart
                               /\ q.trade.last = IF Applied(VerdictOn(t, a))
                                                 THEN a.record ELSE d.trade.last
<1> DEFINE d == OnDay(t, a.at)
           ok == Applied(VerdictOn(t, a))
<1>1. a.at \in Nat /\ a.tr \in Streams
  BY Arrived DEF TradesInv
<1>2. d \in Tracker
  BY <1>1, DayFields
<1> HIDE DEF d, ok
<1>3. CASE a.tr = "book"
  <2>1. a.record \in Snapshots
    BY <1>3, Arrived
  <2> QED
    BY <1>2, <1>3, <2>1 DEF TrackFrame, Tracker, d, ok
<1>4. CASE a.tr # "book"
  <2>1. a.record \in TradesOf
    BY <1>1, <1>4, Arrived DEF Streams
  <2>2. TrackFrame(t, a) = [d EXCEPT !.trade = [last |-> IF ok THEN a.record ELSE @.last,
                                                resync |-> FALSE, restart |-> FALSE]]
    BY <1>4 DEF TrackFrame, d, ok
  <2>3. TrackFrame(t, a) = [d EXCEPT !.trade = [last |-> IF ok THEN a.record ELSE d.trade.last,
                                                resync |-> FALSE, restart |-> FALSE]]
    BY <1>2, <2>2 DEF Tracker
  <2>4. PICK c : c = [last |-> IF ok THEN a.record ELSE d.trade.last, resync |-> FALSE, restart |-> FALSE]
    OBVIOUS
  <2>5. /\ c \in [last : TradesOf \cup {None}, resync : BOOLEAN, restart : BOOLEAN]
        /\ ~c.restart /\ c.last = IF ok THEN a.record ELSE d.trade.last
    BY <1>2, <2>1, <2>4 DEF Tracker
  <2>6. TrackFrame(t, a) = [d EXCEPT !.trade = c]
    BY <2>3, <2>4
  <2>7. /\ TrackFrame(t, a) \in Tracker /\ TrackFrame(t, a).day = d.day
        /\ TrackFrame(t, a).book = d.book /\ TrackFrame(t, a).trade = c
    BY <1>2, <2>5, <2>6 DEF Tracker
  <2> QED
    BY <1>4, <2>5, <2>7 DEF d, ok
<1> QED
  BY <1>3, <1>4

\* A snapshot is applied when the book is not synced, or when it is another one
\* and not older.
LEMMA BookApplied ==
    ASSUME NEW c \in [last : Snapshots \cup {None}, synced : BOOLEAN], NEW r \in Snapshots
    PROVE  /\ BookVerdict(c, r).missing \in Int
           /\ c.synced /\ c.last # None =>
                (Applied(BookVerdict(c, r)) <=> r # c.last /\ ~(r.hour < c.last.hour))
           /\ ~c.synced => Applied(BookVerdict(c, r))
BY DEF BookVerdict, Verdict, Applied

\* The tape goes on from its cursor by the trade and what is missing before it.
LEMMA TradeApplied ==
    ASSUME NEW c \in [last : TradesOf \cup {None}, resync : BOOLEAN, restart : BOOLEAN],
           NEW r \in TradesOf, Applied(TradeVerdict(c, r)), ~IsBaseline(c, r)
    PROVE  /\ c.last \in TradesOf /\ ~c.restart
           /\ r.acml > c.last.acml
           /\ TradeVerdict(c, r).missing = IF Gap(c, r) > 0 THEN Gap(c, r) ELSE 0
<1>1. c.last \in TradesOf /\ ~c.restart
  BY DEF IsBaseline
<1>2. r.acml \in Int /\ r.qty \in Int /\ c.last.acml \in Int
  BY <1>1, EvidenceAssumption DEF TradesOf
<1>3. c.last # None
  BY <1>1, EvidenceAssumption
<1> QED
  BY <1>1, <1>2, <1>3 DEF IsBaseline, TradeVerdict, Verdict, Applied, Gap

\* The tape adds up after a trade.
LEMMA TradeAddsUp ==
    ASSUME TradesInv, NEW c \in [last : TradesOf \cup {None}, resync : BOOLEAN, restart : BOOLEAN],
           NEW r \in trades, Applied(TradeVerdict(c, r)), ~IsBaseline(c, r), c.last \in trades
    PROVE  r.qty + TradeVerdict(c, r).missing = r.acml - c.last.acml
<1>1. r \in TradesOf /\ c.last \in TradesOf
  BY DEF TradesInv
<1>2. r.acml \in Int /\ r.qty \in Int /\ c.last.acml \in Int
  BY <1>1, EvidenceAssumption DEF TradesOf
<1>3. r.acml > c.last.acml /\ TradeVerdict(c, r).missing = IF Gap(c, r) > 0 THEN Gap(c, r) ELSE 0
  BY <1>1, TradeApplied
<1>4. c.last.acml <= r.acml - r.qty
  BY <1>2, <1>3 DEF TradesInv
<1> QED
  BY <1>2, <1>3, <1>4 DEF Gap

-----------------------------------------------------------------------------
\* What replay makes of each line.

\* A torn line is tolerated once; the second one in a row ends the replay.
LEMMA TornLine ==
    ASSUME NEW r, Sound(r), TradesInv
    PROVE  LET q == ReplayLine(r, [kind |-> "torn"]) IN
           Sound(q) /\ (q.corrupt => r.corrupt \/ r.torn)
<1> DEFINE q == ReplayLine(r, [kind |-> "torn"])
<1>1. r \in Replayer /\ ~r.mismatch
  BY DEF Sound
<1>2. CASE r.corrupt
  <2>1. q = r
    BY <1>2 DEF ReplayLine
  <2> QED
    BY <1>2, <2>1
<1>3. CASE ~r.corrupt /\ r.torn
  <2>1. q = Corrupt(r)
    BY <1>3 DEF ReplayLine
  <2>2. q \in Replayer /\ ~q.mismatch /\ q.tracker = NewTracker
    BY <1>1, <2>1, NewTyped DEF Corrupt, NewReplayer, Replayer
  <2> QED
    BY <1>3, <2>2 DEF Sound, TapeInv, NewTracker, TradesInv
<1>4. CASE ~r.corrupt /\ ~r.torn
  <2>1. q = [r EXCEPT !.torn = TRUE]
    BY <1>4 DEF ReplayLine
  <2>2. q \in Replayer /\ ~q.mismatch /\ ~q.corrupt /\ q.tracker = r.tracker /\ q.tape = r.tape
    BY <1>1, <1>4, <2>1 DEF Replayer
  <2> QED
    BY <2>2 DEF Sound, TapeInv
<1> QED
  BY <1>2, <1>3, <1>4

\* A session line starts afresh, also behind a torn line.
LEMMA SessionLine ==
    ASSUME NEW r, Sound(r), TradesInv
    PROVE  LET q == ReplayLine(r, Session) IN
           /\ Sound(q) /\ Usable(q) /\ (q.corrupt => r.corrupt)
           /\ ~q.corrupt => /\ q.tracker = NewTracker /\ q.book = None
                            /\ q.stale = [s \in Streams |-> 0]
<1> DEFINE q == ReplayLine(r, Session)
<1>1. r \in Replayer /\ ~r.mismatch
  BY DEF Sound
<1>2. CASE r.corrupt
  <2>1. q = r
    BY <1>2 DEF ReplayLine
  <2> QED
    BY <1>2, <2>1 DEF Usable
<1>3. CASE ~r.corrupt
  <2>1. q = ReplaySession(r)
    BY <1>3 DEF ReplayLine, Session
  <2>2. /\ q \in Replayer /\ ~q.mismatch /\ q.tracker = NewTracker
        /\ q.open /\ ~q.torn /\ ~q.corrupt /\ q.book = None /\ q.stale = [s \in Streams |-> 0]
    BY <1>1, <2>1, NewTyped DEF ReplaySession, NewReplayer, Replayer
  <2> QED
    BY <2>2 DEF Sound, TapeInv, NewTracker, TradesInv, Usable
<1> QED
  BY <1>2, <1>3

\* A line of the session being read changes nothing behind a corrupt file.
LEMMA CorruptStays ==
    ASSUME NEW r, NEW l, r.corrupt
    PROVE  ReplayLine(r, l) = r
BY DEF ReplayLine

\* A stale line only counts.
LEMMA StaleMark ==
    ASSUME NEW r, Sound(r), Usable(r), NEW s \in Streams
    PROVE  LET q == ReplayLine(r, StaleLine(s)) IN
           /\ Sound(q) /\ Usable(q) /\ q.corrupt = r.corrupt
           /\ q.tracker = r.tracker /\ q.book = r.book
           /\ ~q.corrupt => q.stale = [r.stale EXCEPT ![s] = @ + 1]
<1> DEFINE q == ReplayLine(r, StaleLine(s))
<1>1. r \in Replayer /\ ~r.mismatch
  BY DEF Sound
<1>2. CASE r.corrupt
  BY <1>2, CorruptStays
<1>3. CASE ~r.corrupt
  <2>1. q = [r EXCEPT !.stale[s] = @ + 1]
    BY <1>3 DEF ReplayLine, StaleLine, Usable
  <2>2. r.stale \in [Streams -> Nat]
    BY <1>1 DEF Replayer
  <2>3. q = [r EXCEPT !.stale = [r.stale EXCEPT ![s] = @ + 1]]
    BY <1>1, <2>1 DEF Replayer
  <2>4. [r.stale EXCEPT ![s] = @ + 1] \in [Streams -> Nat]
    BY <2>2
  <2>5. /\ q \in Replayer /\ ~q.mismatch /\ q.tracker = r.tracker /\ q.tape = r.tape /\ q.book = r.book
        /\ q.open = r.open /\ q.torn = r.torn /\ q.corrupt = r.corrupt
        /\ q.stale = [r.stale EXCEPT ![s] = @ + 1]
    BY <1>1, <2>3, <2>4 DEF Replayer
  <2> QED
    BY <2>5 DEF Sound, TapeInv, Usable
<1> QED
  BY <1>2, <1>3

\* A reconnect line unsyncs the book and leaves the tape as it is.
LEMMA ReconnectionLine ==
    ASSUME NEW r, Sound(r), Usable(r)
    PROVE  LET q == ReplayLine(r, Reconnection) IN
           /\ Sound(q) /\ Usable(q) /\ q.corrupt = r.corrupt
           /\ ~q.corrupt => q.tracker = Reconnected(r.tracker) /\ q.book = None /\ q.stale = r.stale
<1> DEFINE q == ReplayLine(r, Reconnection)
           t == Reconnected(r.tracker)
<1>1. r \in Replayer /\ ~r.mismatch /\ r.tracker \in Tracker
  BY DEF Sound, Replayer
<1>2. CASE r.corrupt
  BY <1>2, CorruptStays
<1>3. CASE ~r.corrupt
  <2>1. q = [r EXCEPT !.tracker = Reconnected(@), !.book = None]
    BY <1>3 DEF ReplayLine, Reconnection, Usable
  <2>2. /\ t \in Tracker /\ t.day = r.tracker.day /\ t.trade.last = r.tracker.trade.last
        /\ t.trade.restart = r.tracker.trade.restart
    BY <1>1 DEF Reconnected, Tracker
  <2>3. /\ q \in Replayer /\ ~q.mismatch /\ q.tracker = t /\ q.tape = r.tape /\ q.book = None
        /\ q.open = r.open /\ q.torn = r.torn /\ q.corrupt = r.corrupt /\ q.stale = r.stale
    <3> HIDE DEF t
    <3>1. q = [r EXCEPT !.tracker = t, !.book = None]
      BY <1>1, <2>1 DEF t, Replayer
    <3> QED
      BY <1>1, <2>2, <3>1 DEF Replayer
  <2> QED
    BY <2>2, <2>3 DEF Sound, TapeInv, Usable
<1> QED
  BY <1>2, <1>3

\* A frame that did not parse changes nothing.
LEMMA BadLine ==
    ASSUME NEW r, Sound(r), Usable(r)
    PROVE  ReplayLine(r, BadFrame) = r
BY DEF ReplayLine, BadFrame, Usable

\* The verdict on a line is the one on what arrived.
FrameLine(a, v) == [kind |-> "frame", tr |-> a.tr, at |-> a.at, record |-> a.record, verdict |-> v]

\* The verdict depends on the transaction, the time and the record alone.
LEMMA SameVerdict ==
    ASSUME NEW t, NEW a, NEW v
    PROVE  /\ VerdictOn(t, FrameLine(a, v)) = VerdictOn(t, a)
           /\ TrackFrame(t, FrameLine(a, v)) = TrackFrame(t, a)
BY DEF FrameLine, VerdictOn, TrackFrame

\* So do the book and the tape.
LEMMA SameAfter ==
    ASSUME NEW r, NEW a, NEW v
    PROVE  /\ BookAfter(r, FrameLine(a, v)) = BookAfter(r, a)
           /\ TapeAfter(r, FrameLine(a, v)) = TapeAfter(r, a)
<1>1. VerdictOn(r.tracker, FrameLine(a, v)) = VerdictOn(r.tracker, a)
  BY SameVerdict
<1> QED
  BY <1>1 DEF FrameLine, BookAfter, TapeAfter

\* The tape adds up after a frame.
LEMMA TapeGoesOn ==
    ASSUME TradesInv, NEW r, Sound(r), NEW a \in Arrivals, NEW q \in Replayer,
           q.tracker = TrackFrame(r.tracker, a), q.tape = TapeAfter(r, a)
    PROVE  TapeInv(q)
<1> DEFINE t == r.tracker
           d == OnDay(t, a.at)
           applied == Applied(VerdictOn(t, a))
<1>1. t \in Tracker /\ TapeInv(r) /\ t.day \in Nat
  BY DEF Sound, Replayer, Tracker
<1>2. a.tr \in Streams /\ a.at = day /\ day \in Nat /\ day > 0 /\ (a.tr # "book" => a.record \in trades)
  BY Arrived DEF Streams, TradesInv
<1>3. d \in Tracker /\ d.day = day /\ d.trade.last = t.trade.last
  <2>1. t.day <= day
    BY <1>1 DEF TapeInv
  <2>2. /\ d \in Tracker /\ d.day = (IF a.at > t.day THEN a.at ELSE t.day)
        /\ d.trade.last = t.trade.last
    BY <1>1, <1>2, DayFields
  <2> QED
    BY <1>1, <1>2, <2>1, <2>2
<1>4. d.trade.last # None =>
        /\ r.tape.base + r.tape.counted + r.tape.missing = d.trade.last.acml
        /\ ~d.trade.restart => d.trade.last \in trades
  <2>1. NewDay(t, day) \/ t.day = day \/ t.trade.last = None
    BY <1>1, <1>2 DEF TapeInv, NewDay
  <2>2. d.trade.restart = IF NewDay(t, day) THEN t.trade.last # None ELSE t.trade.restart
    BY <1>1, <1>2, DayFields
  <2> QED
    BY <1>1, <1>3, <2>1, <2>2 DEF TapeInv
<1>5. q.tracker.day = day
  <2>1. TrackFrame(t, a).day = OnDay(t, a.at).day
    BY <1>1, TrackFields
  <2> QED
    BY <1>3, <2>1
<1> HIDE DEF d
<1>6. CASE a.tr = "book"
  <2>1. q.tracker.trade = d.trade /\ q.tape = r.tape
    <3>1. TrackFrame(t, a).trade = OnDay(t, a.at).trade
      BY <1>1, <1>6, TrackFields
    <3>2. q.tape = r.tape
      BY <1>6 DEF TapeAfter
    <3> QED
      BY <3>1, <3>2 DEF d
  <2> QED
    BY <1>2, <1>4, <1>5, <2>1 DEF TapeInv
<1>7. CASE a.tr # "book" /\ ~applied
  <2>1. q.tracker.trade.last = d.trade.last /\ q.tape = r.tape
    BY <1>1, <1>7, TrackFields DEF TapeAfter, d
  <2>2. ~IsBaseline(d.trade, a.record)
    BY <1>7 DEF VerdictOn, TradeVerdict, Applied, Verdict, d
  <2> QED
    BY <1>2, <1>4, <1>5, <2>1, <2>2 DEF TapeInv, IsBaseline
<1>8. CASE a.tr # "book" /\ applied /\ IsBaseline(d.trade, a.record)
  <2>1. q.tracker.trade.last = a.record /\ q.tape = [base |-> a.record.acml, counted |-> 0, missing |-> 0]
    BY <1>1, <1>8, TrackFields DEF TapeAfter, d
  <2>2. a.record.acml \in Int
    BY <1>2, <1>8, EvidenceAssumption DEF TradesInv, TradesOf
  <2> QED
    BY <1>2, <1>5, <1>8, <2>1, <2>2 DEF TapeInv
<1>9. CASE a.tr # "book" /\ applied /\ ~IsBaseline(d.trade, a.record)
  <2> DEFINE v == TradeVerdict(d.trade, a.record)
  <2>1. VerdictOn(t, a) = v
    BY <1>9 DEF VerdictOn, d
  <2> HIDE DEF v
  <2>2. d.trade.last # None /\ d.trade.last \in trades
    BY <1>4, <1>9 DEF IsBaseline
  <2>3. /\ d.trade \in [last : TradesOf \cup {None}, resync : BOOLEAN, restart : BOOLEAN]
        /\ a.record \in TradesOf /\ a.record \in trades
    BY <1>2, <1>3, <1>9 DEF Tracker, TradesInv
  <2>4. a.record.qty + v.missing = a.record.acml - d.trade.last.acml
    BY <1>9, <2>1, <2>2, <2>3, TradeAddsUp DEF v
  <2>5. v.missing \in Int /\ a.record.acml \in Int /\ a.record.qty \in Int /\ d.trade.last.acml \in Int
    BY <1>9, <2>1, <2>2, <2>3, TradeApplied, EvidenceAssumption DEF v, TradesInv, TradesOf, Gap
  <2>6. r.tape \in [base : Int, counted : Int, missing : Int]
    BY DEF Sound, Replayer
  <2>7. q.tape = [r.tape EXCEPT !.counted = @ + a.record.qty, !.missing = @ + v.missing]
    BY <1>9, <2>1 DEF TapeAfter, d
  <2>8. q.tape.base + q.tape.counted + q.tape.missing = a.record.acml
    <3>1. /\ q.tape.base = r.tape.base /\ q.tape.counted = r.tape.counted + a.record.qty
          /\ q.tape.missing = r.tape.missing + v.missing
      BY <2>6, <2>7
    <3>2. r.tape.base \in Int /\ r.tape.counted \in Int /\ r.tape.missing \in Int
      BY <2>6
    <3>3. r.tape.base + r.tape.counted + r.tape.missing = d.trade.last.acml
      BY <1>4, <2>2
    <3> QED
      BY <2>4, <2>5, <3>1, <3>2, <3>3
  <2>9. q.tracker.trade.last = a.record
    BY <1>1, <1>9, TrackFields DEF d
  <2> QED
    BY <1>2, <1>5, <2>3, <2>8, <2>9 DEF TapeInv
<1> QED
  BY <1>6, <1>7, <1>8, <1>9

\* The tape stays a record of volumes.
LEMMA TapeTyped ==
    ASSUME TradesInv, NEW r, Sound(r), NEW a \in Arrivals
    PROVE  TapeAfter(r, a) \in [base : Int, counted : Int, missing : Int]
<1> DEFINE d == OnDay(r.tracker, a.at)
           v == TradeVerdict(d.trade, a.record)
<1>1. r.tape \in [base : Int, counted : Int, missing : Int] /\ r.tracker \in Tracker
  BY DEF Sound, Replayer
<1>2. CASE a.tr = "book"
  BY <1>1, <1>2 DEF TapeAfter
<1>3. CASE a.tr # "book"
  <2>1. a.record \in TradesOf /\ a.record.acml \in Int /\ a.record.qty \in Int
    BY <1>3, Arrived, EvidenceAssumption DEF TradesOf, Streams
  <2>2. d \in Tracker
    BY <1>1, Arrived, DayFields DEF TradesInv
  <2>3. d.trade \in [last : TradesOf \cup {None}, resync : BOOLEAN, restart : BOOLEAN]
    BY <2>2 DEF Tracker
  <2> HIDE DEF d
  <2>4. ASSUME Applied(v), ~IsBaseline(d.trade, a.record) PROVE v.missing \in Int
    BY <2>1, <2>3, <2>4, TradeApplied, EvidenceAssumption DEF Gap, TradesOf
  <2>5. VerdictOn(r.tracker, a) = v
    BY <1>3 DEF VerdictOn, d
  <2> HIDE DEF v
  <2> QED
    <3>1. CASE ~Applied(v)
      BY <1>1, <1>3, <2>5, <3>1 DEF TapeAfter
    <3>2. CASE Applied(v) /\ IsBaseline(d.trade, a.record)
      <4>1. TapeAfter(r, a) = [base |-> a.record.acml, counted |-> 0, missing |-> 0]
        BY <1>3, <2>5, <3>2 DEF TapeAfter, d
      <4> QED
        BY <2>1, <4>1
    <3>3. CASE Applied(v) /\ ~IsBaseline(d.trade, a.record)
      <4>1. TapeAfter(r, a) = [r.tape EXCEPT !.counted = @ + a.record.qty, !.missing = @ + v.missing]
        BY <1>3, <2>5, <3>3 DEF TapeAfter, d
      <4> QED
        <5>1. r.tape.counted + a.record.qty \in Int /\ r.tape.missing + v.missing \in Int
          BY <1>1, <2>1, <2>4, <3>3
        <5> QED
          BY <1>1, <4>1, <5>1
    <3> QED
      BY <3>1, <3>2, <3>3
<1> QED
  BY <1>2, <1>3

\* A frame the recorder classified: replay classifies it alike, and its tape
\* still adds up.
LEMMA FrameRead ==
    ASSUME TradesInv, NEW r, Sound(r), Usable(r), NEW a \in Arrivals, NEW v,
           r.corrupt \/ v = VerdictOn(r.tracker, a)
    PROVE  LET q == ReplayLine(r, FrameLine(a, v)) IN
           /\ Sound(q) /\ Usable(q) /\ q.corrupt = r.corrupt
           /\ ~q.corrupt => /\ q.tracker = TrackFrame(r.tracker, a)
                            /\ q.stale = [r.stale EXCEPT ![a.tr] = 0]
                            /\ q.book = BookAfter(r, a)
<1> DEFINE q == ReplayLine(r, FrameLine(a, v))
           t == r.tracker
<1>1. r \in Replayer /\ ~r.mismatch /\ t \in Tracker /\ TapeInv(r)
  BY DEF Sound, Replayer
<1>2. CASE r.corrupt
  BY <1>2, CorruptStays
<1>3. CASE ~r.corrupt
  <2>1. v = VerdictOn(t, a)
    BY <1>3
  <2>2. q = ReplayFrame(r, FrameLine(a, v))
    BY <1>3 DEF ReplayLine, FrameLine, Usable
  <2>3. /\ a.tr \in Streams /\ a.at = day /\ day \in Nat
        /\ (a.tr = "book" => a.record \in Snapshots) /\ (a.tr # "book" => a.record \in trades)
    BY Arrived DEF Streams, TradesInv
  <2>6. q = [r EXCEPT !.tracker = TrackFrame(t, a), !.mismatch = FALSE,
                      !.stale = [r.stale EXCEPT ![a.tr] = 0],
                      !.book = BookAfter(r, a), !.tape = TapeAfter(r, a)]
    <3>1. PICK l : l = FrameLine(a, v)
      OBVIOUS
    <3>2. l.tr = a.tr /\ l.verdict = v /\ VerdictOn(t, l) = v
      BY <2>1, <3>1, SameVerdict DEF FrameLine
    <3>3. /\ TrackFrame(t, l) = TrackFrame(t, a)
          /\ BookAfter(r, l) = BookAfter(r, a) /\ TapeAfter(r, l) = TapeAfter(r, a)
      BY <3>1, SameVerdict, SameAfter
    <3>4. q = [r EXCEPT !.tracker = TrackFrame(@, l), !.mismatch = @ \/ VerdictOn(t, l) # l.verdict,
                        !.stale[l.tr] = 0, !.book = BookAfter(r, l), !.tape = TapeAfter(r, l)]
      BY <2>2, <3>1 DEF ReplayFrame
    <3> QED
      BY <1>1, <3>2, <3>3, <3>4 DEF Replayer
  <2>7. TrackFrame(t, a) \in Tracker
    BY <1>1, TrackFields
  <2>8. BookAfter(r, a) \in Snapshots \cup {None}
    BY <1>1, <2>3 DEF Replayer, BookAfter
  <2>9. [r.stale EXCEPT ![a.tr] = 0] \in [Streams -> Nat]
    BY <1>1, <2>3 DEF Replayer
  <2>10. TapeAfter(r, a) \in [base : Int, counted : Int, missing : Int]
    BY TapeTyped
  <2>11. /\ q \in Replayer /\ ~q.mismatch /\ q.tracker = TrackFrame(t, a)
         /\ q.tape = TapeAfter(r, a) /\ q.book = BookAfter(r, a)
         /\ q.open = r.open /\ q.torn = r.torn /\ q.corrupt = r.corrupt
         /\ q.stale = [r.stale EXCEPT ![a.tr] = 0]
    BY <1>1, <2>6, <2>7, <2>8, <2>9, <2>10 DEF Replayer
  <2>12. TapeInv(q)
    BY <2>11, TapeGoesOn
  <2> QED
    BY <2>11, <2>12 DEF Sound, Usable
<1> QED
  BY <1>2, <1>3

\* The recorder's book after a frame is the freshest snapshot, and replay's.
LEMMA FreshAfter ==
    ASSUME TradesInv, NEW r \in Replayer, NEW S, FreshInv(r.tracker, S), NEW a \in Arrivals,
           r.book = IF r.tracker.book.synced THEN r.tracker.book.last ELSE None
    PROVE  LET q == TrackFrame(r.tracker, a) IN
           /\ FreshInv(q, (IF NewDay(r.tracker, a.at) THEN {} ELSE S)
                             \cup (IF a.tr = "book" THEN {a.record} ELSE {}))
           /\ BookAfter(r, a) = IF q.book.synced THEN q.book.last ELSE None
<1> DEFINE t == r.tracker
           d == OnDay(t, a.at)
           q == TrackFrame(t, a)
           S0 == IF NewDay(t, a.at) THEN {} ELSE S
<1>1. t \in Tracker /\ a.at \in Nat /\ (a.tr = "book" => a.record \in Snapshots)
  BY Arrived DEF TradesInv, Replayer
<1>2. d.book \in [last : Snapshots \cup {None}, synced : BOOLEAN] /\ FreshInv(d, S0)
  <2>1. /\ d \in Tracker /\ d.book.last = t.book.last
        /\ d.book.synced = (t.book.synced /\ ~NewDay(t, a.at))
    BY <1>1, DayFields
  <2>2. t.book.synced \in BOOLEAN /\ d.book.synced \in BOOLEAN
    BY <1>1, <2>1 DEF Tracker
  <2> QED
    BY <2>1, <2>2 DEF Tracker, FreshInv
<1>3. (IF NewDay(t, a.at) THEN None ELSE r.book) = IF d.book.synced THEN d.book.last ELSE None
  <2>1. /\ d.book.last = t.book.last
        /\ d.book.synced = (t.book.synced /\ ~NewDay(t, a.at))
    BY <1>1, DayFields
  <2> QED
    BY <2>1
<1>4. CASE a.tr = "book"
  <2>1. VerdictOn(t, a) = BookVerdict(d.book, a.record)
    BY <1>4 DEF VerdictOn
  <2>2. q.book = IF Applied(BookVerdict(d.book, a.record))
                 THEN [last |-> a.record, synced |-> TRUE] ELSE d.book
    BY <1>1, <1>4, <2>1, TrackFields
  <2>3. BookAfter(r, a) = IF Applied(BookVerdict(d.book, a.record)) THEN a.record
                          ELSE IF d.book.synced THEN d.book.last ELSE None
    BY <1>3, <1>4, <2>1 DEF BookAfter
  <2> HIDE DEF d, q, S0
  <2>4. CASE ~d.book.synced
    <3>1. Applied(BookVerdict(d.book, a.record))
      BY <1>1, <1>2, <1>4, <2>4, BookApplied
    <3>2. S0 = {}
      BY <1>2, <2>4 DEF FreshInv
    <3>3. q.book.last = a.record /\ q.book.synced = TRUE /\ BookAfter(r, a) = a.record
      BY <2>2, <2>3, <3>1
    <3>4. a.record.hour <= a.record.hour
      BY <1>1, <1>4, EvidenceAssumption DEF Snapshots
    <3>5. FreshInv(q, S0 \cup {a.record})
      BY <1>1, <1>4, <3>2, <3>3, <3>4 DEF FreshInv
    <3> QED
      BY <1>4, <3>3, <3>5 DEF q, S0
  <2>5. CASE d.book.synced
    <3>1. /\ d.book.last \in S0 /\ S0 \subseteq Snapshots /\ S0 # {}
          /\ \A s \in S0 : s.hour <= d.book.last.hour
      BY <1>2, <2>5 DEF FreshInv
    <3>2. d.book.last \in Snapshots /\ d.book.last # None
      BY <3>1, EvidenceAssumption
    <3>3. Applied(BookVerdict(d.book, a.record))
            <=> a.record # d.book.last /\ ~(a.record.hour < d.book.last.hour)
      BY <1>1, <1>2, <1>4, <2>5, <3>2, BookApplied
    <3>4. \A s \in Snapshots : s.hour \in Int
      BY EvidenceAssumption DEF Snapshots
    <3>5. CASE Applied(BookVerdict(d.book, a.record))
      <4>1. q.book.last = a.record /\ q.book.synced = TRUE /\ BookAfter(r, a) = a.record
        BY <2>2, <2>3, <3>5
      <4>2. \A s \in S0 \cup {a.record} : s.hour <= a.record.hour
        BY <1>1, <1>4, <3>1, <3>2, <3>3, <3>4, <3>5
      <4>3. FreshInv(q, S0 \cup {a.record})
        BY <1>1, <1>4, <3>1, <4>1, <4>2 DEF FreshInv
      <4> QED
        BY <1>4, <4>1, <4>3 DEF q, S0
    <3>6. CASE ~Applied(BookVerdict(d.book, a.record))
      <4>1. q.book = d.book /\ BookAfter(r, a) = d.book.last
        BY <2>2, <2>3, <2>5, <3>6
      <4>2. \A s \in S0 \cup {a.record} : s.hour <= d.book.last.hour
        BY <1>1, <1>4, <3>1, <3>2, <3>3, <3>4, <3>6
      <4>3. FreshInv(q, S0 \cup {a.record})
        BY <1>1, <1>2, <1>4, <2>5, <3>1, <4>1, <4>2 DEF FreshInv
      <4> QED
        BY <1>4, <2>5, <4>1, <4>3 DEF q, S0
    <3> QED
      BY <3>5, <3>6
  <2> QED
    BY <1>2, <2>4, <2>5
<1>5. CASE a.tr # "book"
  <2>1. q.book = d.book
    BY <1>1, <1>5, TrackFields
  <2>2. BookAfter(r, a) = IF d.book.synced THEN d.book.last ELSE None
    BY <1>3, <1>5 DEF BookAfter
  <2> HIDE DEF d, q, S0
  <2>3. FreshInv(q, S0)
    BY <1>2, <2>1 DEF FreshInv
  <2> QED
    BY <1>5, <2>1, <2>2, <2>3 DEF q, S0
<1> QED
  BY <1>4, <1>5

-----------------------------------------------------------------------------
\* The lines of a call, each of which leaves a sound file.
OKLines(lines) ==
    /\ Len(lines) \in {1, 2}
    /\ \A n \in 0 .. Len(lines) :
        Sound(ReplayFirst(lines, n)) /\ (ReplayFirst(lines, n).corrupt => rp.corrupt)

\* Wherever a call is cut off, the file stays sound.
LEMMA CutOffOK ==
    ASSUME IndInv, NEW lines, OKLines(lines), CutOff(lines, TRUE), UNCHANGED exchange
    PROVE  IndInv'
<1>1. PICK n \in 0 .. Len(lines) - 1, cut \in {"nothing", "part", "line"} :
        LET before == ReplayFirst(lines, n) IN
        /\ rp' = CASE cut = "nothing" -> before
                   [] cut = "part" -> AppendLine(before, [kind |-> "torn"], TRUE)
                   [] cut = "line" -> AppendLine(before, lines[n + 1], TRUE)
        /\ tornTwice' = (tornTwice \/ (before.torn /\ cut = "part"))
  BY DEF CutOff
<1> DEFINE before == ReplayFirst(lines, n)
<1>2. n \in {0, 1} /\ n \in 0 .. Len(lines) /\ n + 1 \in 0 .. Len(lines)
  <2>1. Len(lines) = 1 \/ Len(lines) = 2
    BY DEF OKLines
  <2>2. CASE Len(lines) = 1
    BY <2>2
  <2>3. CASE Len(lines) = 2
    BY <2>3
  <2> QED
    BY <2>1, <2>2, <2>3
<1>3. Sound(before) /\ (before.corrupt => rp.corrupt) /\ before \in Replayer
  BY <1>2 DEF OKLines, Sound
<1>4. ReplayFirst(lines, n + 1) = ReplayLine(before, lines[n + 1])
  <2>1. CASE n = 0
    BY <2>1 DEF ReplayFirst
  <2>2. CASE n = 1
    BY <2>2 DEF ReplayFirst
  <2> QED
    BY <1>2, <2>1, <2>2
<1>5. Sound(ReplayFirst(lines, n + 1)) /\ (ReplayFirst(lines, n + 1).corrupt => rp.corrupt)
  BY <1>2 DEF OKLines
<1> HIDE DEF before
<1>6. TradesInv /\ tornTwice \in BOOLEAN /\ (rp.corrupt => tornTwice)
  BY DEF IndInv
<1>7. Sound(rp') /\ tornTwice' \in BOOLEAN /\ (rp'.corrupt => tornTwice')
  <2>1. CASE cut = "nothing"
    <3>1. rp' = before
      BY <1>1, <2>1 DEF before
    <3> QED
      BY <1>1, <1>3, <1>6, <2>1, <3>1
  <2>2. CASE cut = "part"
    <3>1. rp' = ReplayLine(before, [kind |-> "torn"]) /\ tornTwice' = (tornTwice \/ before.torn)
      BY <1>1, <2>2 DEF AppendLine, before
    <3>2. Sound(rp') /\ (rp'.corrupt => before.corrupt \/ before.torn)
      BY <1>3, <1>6, <3>1, TornLine
    <3>3. before.torn \in BOOLEAN
      BY <1>3 DEF Replayer
    <3> QED
      BY <1>3, <1>6, <3>1, <3>2, <3>3
  <2>3. CASE cut = "line"
    <3>1. rp' = ReplayFirst(lines, n + 1)
      BY <1>1, <1>4, <2>3 DEF AppendLine, before
    <3> QED
      BY <1>1, <1>5, <1>6, <2>3, <3>1
  <2> QED
    BY <2>1, <2>2, <2>3
<1>8. TradesInv' /\ Sound(rp)'
  BY <1>6, <1>7 DEF TradesInv, Sound, TapeInv, exchange
<1>9. ~up' /\ tracker' = NewTracker /\ streams' = [s \in Streams |-> "new"] /\ since' = {}
  BY DEF CutOff
<1> QED
  BY <1>7, <1>8, <1>9 DEF IndInv, RecorderInv

\* A line that keeps a session usable is written.
LEMMA OneLine ==
    ASSUME IndInv, NEW l, Sound(ReplayLine(rp, l)), ReplayLine(rp, l).corrupt => rp.corrupt
    PROVE  /\ OKLines(<<l>>)
           /\ WriteAll(<<l>>) => rp' = ReplayLine(rp, l) /\ tornTwice' = tornTwice
<1>1. Len(<<l>>) = 1 /\ <<l>>[1] = l
  OBVIOUS
<1>2. ReplayFirst(<<l>>, 0) = rp /\ ReplayFirst(<<l>>, 1) = ReplayLine(rp, l)
  BY <1>1 DEF ReplayFirst
<1>3. 0 .. 1 = {0, 1}
  OBVIOUS
<1> QED
  BY <1>1, <1>2, <1>3 DEF OKLines, WriteAll, IndInv

\* The same for two lines.
LEMMA TwoLines ==
    ASSUME IndInv, NEW k, NEW l, Sound(ReplayLine(rp, k)), Sound(ReplayLine(ReplayLine(rp, k), l)),
           ReplayLine(rp, k).corrupt => rp.corrupt,
           ReplayLine(ReplayLine(rp, k), l).corrupt => rp.corrupt
    PROVE  /\ OKLines(<<k, l>>)
           /\ WriteAll(<<k, l>>) =>
                rp' = ReplayLine(ReplayLine(rp, k), l) /\ tornTwice' = tornTwice
<1>1. Len(<<k, l>>) = 2 /\ <<k, l>>[1] = k /\ <<k, l>>[2] = l
  OBVIOUS
<1>2. /\ ReplayFirst(<<k, l>>, 0) = rp /\ ReplayFirst(<<k, l>>, 1) = ReplayLine(rp, k)
      /\ ReplayFirst(<<k, l>>, 2) = ReplayLine(ReplayLine(rp, k), l)
  BY <1>1 DEF ReplayFirst
<1>3. 0 .. 2 = {0, 1, 2}
  OBVIOUS
<1> QED
  BY <1>1, <1>2, <1>3 DEF OKLines, WriteAll, IndInv

-----------------------------------------------------------------------------
\* One lemma for every action.

\* A new trade begins where the volume ended.
LEMMA ExchangeTradesOK == ASSUME IndInv, ExchangeTrades PROVE IndInv'
<1>1. PICK qty \in 1 .. MaxQty :
        /\ volume + qty <= MaxVol /\ volume' = volume + qty
        /\ trades' = trades \cup {[acml |-> volume + qty, qty |-> qty]}
  BY DEF ExchangeTrades
<1> DEFINE new == [acml |-> volume + qty, qty |-> qty]
<1>2. /\ day \in Nat \ {0} /\ volume \in Nat /\ trades \subseteq TradesOf
      /\ \A s \in trades : s.acml <= volume /\ s.acml \in Int /\ s.qty \in Int
      /\ MaxQty \in Nat /\ MaxVol \in Nat
  BY EvidenceAssumption DEF IndInv, TradesInv, TradesOf
<1>3. new \in TradesOf /\ new.acml = volume + qty /\ new.qty = qty
  BY <1>1, <1>2 DEF TradesOf
<1>4. UNCHANGED <<day, up, tracker, streams, rp, tornTwice, since>>
  BY DEF ExchangeTrades, file
<1> HIDE DEF new
<1>5. TradesInv'
  <2>1. trades' = trades \cup {new}
    BY <1>1 DEF new
  <2>2. \A s \in trades' : s.acml <= volume'
    BY <1>1, <1>2, <1>3, <2>1
  <2>3. ASSUME NEW s \in trades', NEW t \in trades', s.acml < t.acml
        PROVE  s.acml <= t.acml - t.qty
    <3>1. CASE s \in trades /\ t \in trades
      BY <2>3, <3>1 DEF IndInv, TradesInv
    <3>2. CASE s \in trades /\ t = new
      BY <1>1, <1>2, <1>3, <3>2
    <3>3. CASE s = new
      BY <1>1, <1>2, <1>3, <2>1, <2>3, <3>3
    <3> QED
      BY <2>1, <3>1, <3>2, <3>3
  <2> QED
    BY <1>1, <1>2, <1>3, <1>4, <2>1, <2>2, <2>3 DEF TradesInv
<1>6. Sound(rp)'
  BY <1>1, <1>4 DEF IndInv, Sound, TapeInv
<1> QED
  BY <1>4, <1>5, <1>6 DEF IndInv, RecorderInv, Usable, FreshInv

\* The time of day is in no part of the invariant.
LEMMA HourPassesOK == ASSUME IndInv, HourPasses PROVE IndInv'
BY DEF IndInv, HourPasses, file, TradesInv, Sound, TapeInv, RecorderInv, Usable, FreshInv

\* Yesterday's cursor is no trade of today, and today's first frame restarts the tape.
LEMMA DayPassesOK == ASSUME IndInv, DayPasses PROVE IndInv'
<1>1. /\ day' = day + 1 /\ volume' = 0 /\ trades' = {} /\ day \in Nat \ {0}
      /\ UNCHANGED <<up, tracker, streams, rp, tornTwice, since>>
  BY DEF DayPasses, file, IndInv, TradesInv
<1>2. TradesInv'
  BY <1>1 DEF TradesInv
<1>3. rp \in Replayer /\ rp.tracker.day \in Nat /\ rp.tracker.day <= day
  BY DEF IndInv, Sound, TapeInv, Replayer, Tracker
<1>4. rp.tracker.day # day' /\ rp.tracker.day <= day'
  BY <1>1, <1>3
<1>5. Sound(rp)'
  BY <1>1, <1>4 DEF IndInv, Sound, TapeInv
<1> QED
  BY <1>1, <1>2, <1>5 DEF IndInv, RecorderInv, Usable, FreshInv

\* A silence that is not marked is not in the file yet.
LEMMA SilenceOK == ASSUME IndInv, Silence PROVE IndInv'
<1>1. PICK s \in Streams : streams[s] = "heard" /\ streams' = [streams EXCEPT ![s] = "silent"]
  BY DEF Silence
<1>2. UNCHANGED <<exchange, up, tracker, rp, tornTwice, since>>
  BY DEF Silence, file
<1>3. /\ streams \in [Streams -> {"new", "heard", "silent", "stale"}]
      /\ streams' \in [Streams -> {"new", "heard", "silent", "stale"}]
      /\ \A k \in Streams : (streams'[k] = "stale") = (streams[k] = "stale")
  BY <1>1 DEF IndInv
<1>4. up
  BY <1>1 DEF IndInv, RecorderInv
<1> QED
  BY <1>2, <1>3, <1>4
  DEF IndInv, exchange, TradesInv, Sound, TapeInv, RecorderInv, Usable, FreshInv

\* A recorder starts with a session line, behind whatever the file ends with.
LEMMA StartOK == ASSUME IndInv, Start PROVE IndInv'
<1> DEFINE q == ReplayLine(rp, Session)
<1>1. /\ ~up /\ up' /\ UNCHANGED <<exchange, tracker, streams, since>> /\ WriteAll(<<Session>>)
      /\ tracker = NewTracker /\ streams = [s \in Streams |-> "new"] /\ since = {}
  BY DEF Start, OpenEvidence, IndInv, RecorderInv
<1>2. /\ Sound(q) /\ Usable(q) /\ (q.corrupt => rp.corrupt)
      /\ ~q.corrupt => /\ q.tracker = NewTracker /\ q.book = None
                       /\ q.stale = [s \in Streams |-> 0]
  BY SessionLine DEF IndInv
<1>3. rp' = q /\ tornTwice' = tornTwice
  BY <1>1, <1>2, OneLine
<1> HIDE DEF q
<1>4. TradesInv' /\ Sound(rp)'
  BY <1>1, <1>2, <1>3 DEF IndInv, TradesInv, Sound, TapeInv, exchange
<1>5. ~NewTracker.book.synced /\ NewTracker.book.synced = FALSE
  BY DEF NewTracker
<1>6. RecorderInv'
  BY <1>1, <1>2, <1>3, <1>5 DEF RecorderInv, Usable, FreshInv
<1> QED
  BY <1>1, <1>2, <1>3, <1>4, <1>6 DEF IndInv

\* The session line itself is cut off.
LEMMA StartCutOffOK == ASSUME IndInv, StartCutOff PROVE IndInv'
<1>1. CutOff(<<Session>>, TRUE) /\ UNCHANGED exchange
  BY DEF StartCutOff, OpenEvidence
<1>2. OKLines(<<Session>>)
  BY SessionLine, OneLine DEF IndInv
<1> QED
  BY <1>1, <1>2, CutOffOK

\* While a recorder runs, a call that writes its lines.
LEMMA Written ==
    ASSUME IndInv, up, up', UNCHANGED exchange,
           streams' \in [Streams -> {"new", "heard", "silent", "stale"}],
           tornTwice' = tornTwice, Sound(rp'), Usable(rp'), rp'.corrupt = rp.corrupt,
           ~rp.corrupt =>
              /\ rp'.tracker = tracker'
              /\ \A s \in Streams : rp'.stale[s] = (IF streams'[s] = "stale" THEN 1 ELSE 0)
              /\ rp'.book = (IF tracker'.book.synced THEN tracker'.book.last ELSE None)
              /\ FreshInv(tracker', since')
    PROVE  IndInv'
<1>1. TradesInv' /\ Sound(rp)'
  BY DEF IndInv, TradesInv, Sound, TapeInv, exchange
<1>2. RecorderInv'
  BY DEF RecorderInv, Usable, FreshInv
<1> QED
  BY <1>1, <1>2 DEF IndInv

\* What is known while a recorder runs.
LEMMA Running ==
    ASSUME IndInv, up
    PROVE  /\ TradesInv /\ Sound(rp) /\ rp \in Replayer /\ Usable(rp)
           /\ streams \in [Streams -> {"new", "heard", "silent", "stale"}]
           /\ ~rp.corrupt =>
                /\ rp.tracker = tracker
                /\ \A s \in Streams : rp.stale[s] = (IF streams[s] = "stale" THEN 1 ELSE 0)
                /\ rp.book = (IF tracker.book.synced THEN tracker.book.last ELSE None)
                /\ FreshInv(tracker, since)
BY DEF IndInv, RecorderInv, Sound

\* A frame that does not parse is written, or cut off.
LEMMA FrameMalformedOK == ASSUME IndInv, FrameMalformed PROVE IndInv'
<1>1. ReplayLine(rp, BadFrame) = rp /\ up
  BY Running, BadLine DEF FrameMalformed
<1>2. OKLines(<<BadFrame>>) /\ (WriteAll(<<BadFrame>>) => rp' = rp /\ tornTwice' = tornTwice)
  BY <1>1, Running, OneLine
<1>3. CASE WriteAll(<<BadFrame>>) /\ UNCHANGED <<up, tracker, streams, since>>
  BY <1>1, <1>2, <1>3, Running, Written DEF FrameMalformed
<1>4. CASE CutOff(<<BadFrame>>, TRUE)
  BY <1>2, <1>4, CutOffOK DEF FrameMalformed
<1> QED
  BY <1>3, <1>4 DEF FrameMalformed

\* The reconnect is written and the tracker follows, or the line is cut off.
LEMMA ReconnectOK == ASSUME IndInv, Reconnect PROVE IndInv'
<1> DEFINE q == ReplayLine(rp, Reconnection)
<1>1. /\ up /\ UNCHANGED exchange /\ Sound(q) /\ Usable(q) /\ q.corrupt = rp.corrupt
      /\ ~q.corrupt => q.tracker = Reconnected(rp.tracker) /\ q.book = None /\ q.stale = rp.stale
  BY Running, ReconnectionLine DEF Reconnect
<1>2. /\ OKLines(<<Reconnection>>)
      /\ WriteAll(<<Reconnection>>) => rp' = q /\ tornTwice' = tornTwice
  BY <1>1, OneLine
<1> HIDE DEF q
<1>3. CASE /\ WriteAll(<<Reconnection>>)
           /\ tracker' = Reconnected(tracker) /\ since' = {} /\ UNCHANGED <<up, streams>>
  <2>1. rp' = q /\ tornTwice' = tornTwice
    BY <1>2, <1>3
  <2>2. ASSUME ~rp.corrupt
        PROVE  /\ q.tracker = tracker'
               /\ \A s \in Streams : q.stale[s] = (IF streams'[s] = "stale" THEN 1 ELSE 0)
               /\ q.book = (IF tracker'.book.synced THEN tracker'.book.last ELSE None)
               /\ FreshInv(tracker', since')
    <3>1. rp.tracker \in Tracker /\ rp.tracker = tracker
      BY <1>1, <2>2, Running DEF Replayer
    <3>2. tracker'.book.synced = FALSE
      BY <1>3, <3>1 DEF Reconnected, Tracker
    <3> QED
      BY <1>1, <1>3, <2>2, <3>1, <3>2, Running DEF FreshInv
  <2> QED
    BY <1>1, <1>3, <2>1, <2>2, Running, Written
<1>4. CASE CutOff(<<Reconnection>>, TRUE)
  BY <1>1, <1>2, <1>4, CutOffOK
<1> QED
  BY <1>3, <1>4 DEF Reconnect

\* A sequence of two lines.
LEMMA PairIs ==
    ASSUME NEW x, NEW y
    PROVE  Append(<<x>>, y) = <<x, y>> /\ <<x>> \o <<y>> = <<x, y>>
<1> DEFINE S == {x, y}
<1>1. x \in S /\ y \in S /\ <<x>> \in Seq(S) /\ <<y>> \in Seq(S) /\ <<x, y>> \in Seq(S)
  OBVIOUS
<1>2. /\ Len(<<x>>) = 1 /\ Len(<<y>>) = 1 /\ Len(<<x, y>>) = 2
      /\ <<x>>[1] = x /\ <<y>>[1] = y /\ <<x, y>>[1] = x /\ <<x, y>>[2] = y
  OBVIOUS
<1> HIDE DEF S
<1>3. <<x>> \o <<y>> = <<x, y>>
  <2> DEFINE z == <<x>> \o <<y>>
  <2>1. /\ z \in Seq(S) /\ Len(z) = Len(<<x>>) + Len(<<y>>)
        /\ \A i \in 1 .. Len(<<x>>) + Len(<<y>>) :
             z[i] = IF i <= Len(<<x>>) THEN <<x>>[i] ELSE <<y>>[i - Len(<<x>>)]
    BY <1>1, ConcatProperties
  <2> HIDE DEF z
  <2>2. Len(z) = 2 /\ z[1] = x /\ z[2] = y
    BY <1>2, <2>1
  <2>3. \A i \in 1 .. Len(z) : z[i] = <<x, y>>[i]
    BY <1>2, <2>2
  <2>4. z = <<x, y>>
    BY <1>1, <1>2, <2>1, <2>2, <2>3, SeqEqual
  <2> QED
    BY <2>4 DEF z
<1>4. Append(<<x>>, y) = <<x>> \o <<y>>
  BY <1>1, AppendIsConcat
<1> QED
  BY <1>3, <1>4

\* A frame on a replayer that agrees with the recorder, but for the silence of
\* the frame's own stream.
LEMMA FrameWritten ==
    ASSUME IndInv, up, NEW a \in Arrivals, NEW r, Sound(r), Usable(r), r.corrupt = rp.corrupt,
           r.tracker = rp.tracker, r.book = rp.book,
           \A s \in Streams \ {a.tr} : ~rp.corrupt => r.stale[s] = rp.stale[s],
           UNCHANGED <<up, exchange>>, tornTwice' = tornTwice,
           rp' = ReplayLine(r, FrameLine(a, VerdictOn(tracker, a))),
           tracker' = TrackFrame(tracker, a), streams' = [streams EXCEPT ![a.tr] = "heard"],
           since' = (IF NewDay(tracker, a.at) THEN {} ELSE since)
                        \cup (IF a.tr = "book" THEN {a.record} ELSE {})
    PROVE  IndInv'
<1>1. TradesInv /\ a.tr \in Streams /\ r \in Replayer
  BY Running, Arrived DEF Sound
<1>2. r.corrupt \/ VerdictOn(tracker, a) = VerdictOn(r.tracker, a)
  BY Running
<1>3. /\ Sound(rp') /\ Usable(rp') /\ rp'.corrupt = rp.corrupt
      /\ ~rp'.corrupt => /\ rp'.tracker = TrackFrame(r.tracker, a)
                         /\ rp'.stale = [r.stale EXCEPT ![a.tr] = 0]
                         /\ rp'.book = BookAfter(r, a)
  BY <1>1, <1>2, FrameRead
<1>4. streams' \in [Streams -> {"new", "heard", "silent", "stale"}]
  BY <1>1, Running
<1>5. ASSUME ~rp.corrupt
      PROVE  /\ rp'.tracker = tracker'
             /\ \A s \in Streams : rp'.stale[s] = (IF streams'[s] = "stale" THEN 1 ELSE 0)
             /\ rp'.book = (IF tracker'.book.synced THEN tracker'.book.last ELSE None)
             /\ FreshInv(tracker', since')
  <2>1. r.tracker = tracker /\ FreshInv(tracker, since)
    BY <1>5, Running
  <2>2. r.book = IF r.tracker.book.synced THEN r.tracker.book.last ELSE None
    BY <1>5, <2>1, Running
  <2>3. FreshInv(tracker', since') /\ rp'.book = IF tracker'.book.synced THEN tracker'.book.last ELSE None
    BY <1>1, <1>3, <1>5, <2>1, <2>2, FreshAfter
  <2>4. ASSUME NEW s \in Streams
        PROVE  rp'.stale[s] = (IF streams'[s] = "stale" THEN 1 ELSE 0)
    <3>1. r.stale \in [Streams -> Nat] /\ streams \in [Streams -> {"new", "heard", "silent", "stale"}]
      BY <1>1, Running DEF Replayer
    <3> QED
      BY <1>1, <1>3, <1>5, <2>4, <3>1, Running
  <2> QED
    BY <1>3, <1>5, <2>1, <2>3, <2>4
<1> QED
  BY <1>3, <1>4, <1>5, Written

\* A frame, with the mark of the silence it ends before it.
LEMMA FrameOK == ASSUME IndInv, Frame PROVE IndInv'
<1>1. up /\ UNCHANGED exchange
  BY DEF Frame
<1>2. PICK a \in Arrivals :
        LET l == FrameLine(a, VerdictOn(tracker, a))
            lines == Append(StaleBefore(a.tr), l)
        IN  \/ /\ WriteAll(lines)
               /\ tracker' = TrackFrame(tracker, a)
               /\ streams' = [streams EXCEPT ![a.tr] = "heard"]
               /\ since' = (IF NewDay(tracker, a.at) THEN {} ELSE since)
                                \cup (IF a.tr = "book" THEN {a.record} ELSE {})
               /\ UNCHANGED up
            \/ CutOff(lines, TRUE)
  BY DEF Frame, FrameLine
<1> DEFINE l == FrameLine(a, VerdictOn(tracker, a))
           lines == Append(StaleBefore(a.tr), l)
<1>3. /\ TradesInv /\ Sound(rp) /\ rp \in Replayer /\ Usable(rp) /\ a.tr \in Streams
      /\ rp.corrupt \/ rp.tracker = tracker
  BY <1>1, Running, Arrived
<1>4. CASE streams[a.tr] = "silent"
  <2> DEFINE k == StaleLine(a.tr)
             r == ReplayLine(rp, k)
             q == ReplayLine(r, l)
  <2>1. lines = <<k, l>>
    <3>1. StaleBefore(a.tr) = <<k>>
      BY <1>4 DEF StaleBefore
    <3> HIDE DEF k, l
    <3>2. Append(<<k>>, l) = <<k, l>>
      BY PairIs
    <3> QED
      BY <3>1, <3>2
  <2>2. /\ Sound(r) /\ Usable(r) /\ r.corrupt = rp.corrupt /\ r.tracker = rp.tracker
        /\ r.book = rp.book /\ (~r.corrupt => r.stale = [rp.stale EXCEPT ![a.tr] = @ + 1])
    BY <1>3, StaleMark
  <2> HIDE DEF k, r
  <2>3. Sound(q) /\ q.corrupt = r.corrupt
    <3>1. r.corrupt \/ VerdictOn(tracker, a) = VerdictOn(r.tracker, a)
      BY <1>3, <2>2
    <3>2. TradesInv /\ Sound(r) /\ Usable(r)
      BY <1>3, <2>2
    <3> QED
      BY <3>1, <3>2, FrameRead
  <2> HIDE DEF l, q
  <2>4. OKLines(<<k, l>>) /\ (WriteAll(<<k, l>>) => rp' = q /\ tornTwice' = tornTwice)
    BY <2>2, <2>3, TwoLines DEF r, q
  <2>5. CASE CutOff(lines, TRUE)
    BY <1>1, <2>1, <2>4, <2>5, CutOffOK
  <2>6. CASE ~CutOff(lines, TRUE)
    <3>1. /\ WriteAll(lines) /\ tracker' = TrackFrame(tracker, a)
          /\ streams' = [streams EXCEPT ![a.tr] = "heard"]
          /\ since' = (IF NewDay(tracker, a.at) THEN {} ELSE since)
                           \cup (IF a.tr = "book" THEN {a.record} ELSE {})
          /\ UNCHANGED up
      BY <1>2, <2>6 DEF l
    <3>2. rp' = ReplayLine(r, FrameLine(a, VerdictOn(tracker, a))) /\ tornTwice' = tornTwice
      BY <2>1, <2>4, <3>1 DEF q, l
    <3>3. \A s \in Streams \ {a.tr} : ~rp.corrupt => r.stale[s] = rp.stale[s]
      BY <1>3, <2>2 DEF Replayer
    <3> QED
      BY <1>1, <2>2, <3>1, <3>2, <3>3, FrameWritten
  <2> QED
    BY <2>5, <2>6
<1>5. CASE streams[a.tr] # "silent"
  <2> DEFINE q == ReplayLine(rp, l)
  <2>1. lines = <<l>>
    BY <1>5 DEF StaleBefore
  <2>2. Sound(q) /\ q.corrupt = rp.corrupt
    BY <1>3, FrameRead
  <2> HIDE DEF l, q
  <2>3. OKLines(<<l>>) /\ (WriteAll(<<l>>) => rp' = q /\ tornTwice' = tornTwice)
    BY <2>2, OneLine DEF q
  <2>4. CASE CutOff(lines, TRUE)
    BY <1>1, <2>1, <2>3, <2>4, CutOffOK
  <2>5. CASE ~CutOff(lines, TRUE)
    <3>1. /\ WriteAll(lines) /\ tracker' = TrackFrame(tracker, a)
          /\ streams' = [streams EXCEPT ![a.tr] = "heard"]
          /\ since' = (IF NewDay(tracker, a.at) THEN {} ELSE since)
                           \cup (IF a.tr = "book" THEN {a.record} ELSE {})
          /\ UNCHANGED up
      BY <1>2, <2>5 DEF l
    <3>2. rp' = ReplayLine(rp, FrameLine(a, VerdictOn(tracker, a))) /\ tornTwice' = tornTwice
      BY <2>1, <2>3, <3>1 DEF q, l
    <3> QED
      BY <1>1, <1>3, <3>1, <3>2, FrameWritten
  <2> QED
    BY <2>4, <2>5
<1> QED
  BY <1>4, <1>5

\* The silences a Tick marks, in a file that agrees with the recorder.
LEMMA TickWritten ==
    ASSUME IndInv, up, UNCHANGED <<up, exchange, tracker, since>>, tornTwice' = tornTwice,
           streams' = [s \in Streams |-> IF streams[s] = "silent" THEN "stale" ELSE streams[s]],
           Sound(rp'), Usable(rp'), rp'.corrupt = rp.corrupt,
           rp'.tracker = rp.tracker, rp'.book = rp.book,
           ~rp.corrupt => \A s \in Streams :
                rp'.stale[s] = IF streams[s] = "silent" THEN rp.stale[s] + 1 ELSE rp.stale[s]
    PROVE  IndInv'
<1>1. streams' \in [Streams -> {"new", "heard", "silent", "stale"}]
  BY Running
<1>2. ASSUME ~rp.corrupt, NEW s \in Streams
      PROVE  rp'.stale[s] = (IF streams'[s] = "stale" THEN 1 ELSE 0)
  BY <1>2, Running
<1> QED
  BY <1>1, <1>2, Running, Written

\* The marks of one or two silences.
LEMMA TickOK == ASSUME IndInv, Tick PROVE IndInv'
<1> DEFINE lines == StaleBefore("book") \o StaleBefore("trade")
           b == StaleLine("book")
           t == StaleLine("trade")
<1>1. /\ up /\ UNCHANGED exchange
      /\ streams["book"] = "silent" \/ streams["trade"] = "silent"
      /\ \/ /\ WriteAll(lines)
            /\ streams' = [s \in Streams |-> IF streams[s] = "silent" THEN "stale" ELSE streams[s]]
            /\ UNCHANGED <<up, tracker, since>>
         \/ CutOff(lines, TRUE)
  BY DEF Tick, Streams
<1>2. /\ Sound(rp) /\ Usable(rp) /\ rp \in Replayer /\ rp.stale \in [Streams -> Nat]
      /\ "book" \in Streams /\ "trade" \in Streams /\ \A s \in Streams : s = "book" \/ s = "trade"
  BY <1>1, Running DEF Streams, Replayer
<1>3. ASSUME OKLines(lines), NEW q, Sound(q), Usable(q), q.corrupt = rp.corrupt,
             q.tracker = rp.tracker, q.book = rp.book,
             WriteAll(lines) => rp' = q /\ tornTwice' = tornTwice,
             ~rp.corrupt => \A s \in Streams :
                q.stale[s] = IF streams[s] = "silent" THEN rp.stale[s] + 1 ELSE rp.stale[s]
      PROVE  IndInv'
  <2> HIDE DEF lines
  <2>1. CASE CutOff(lines, TRUE)
    BY <1>1, <1>3, <2>1, CutOffOK
  <2>2. CASE ~CutOff(lines, TRUE)
    BY <1>1, <1>3, <2>2, TickWritten
  <2> QED
    BY <2>1, <2>2
<1>4. CASE streams["book"] = "silent" /\ streams["trade"] = "silent"
  <2> DEFINE r == ReplayLine(rp, b)
             q == ReplayLine(r, t)
  <2>1. lines = <<b, t>>
    <3>1. StaleBefore("book") = <<b>> /\ StaleBefore("trade") = <<t>>
      BY <1>4 DEF StaleBefore
    <3> HIDE DEF b, t
    <3>2. <<b>> \o <<t>> = <<b, t>>
      BY PairIs
    <3> QED
      BY <3>1, <3>2
  <2>2. /\ Sound(r) /\ Usable(r) /\ r.corrupt = rp.corrupt /\ r.tracker = rp.tracker
        /\ r.book = rp.book /\ (~r.corrupt => r.stale = [rp.stale EXCEPT !["book"] = @ + 1])
    BY <1>2, StaleMark
  <2> HIDE DEF b, r
  <2>3. /\ Sound(q) /\ Usable(q) /\ q.corrupt = r.corrupt /\ q.tracker = r.tracker
        /\ q.book = r.book /\ (~q.corrupt => q.stale = [r.stale EXCEPT !["trade"] = @ + 1])
    BY <1>2, <2>2, StaleMark
  <2> HIDE DEF t, q
  <2>4. OKLines(<<b, t>>) /\ (WriteAll(<<b, t>>) => rp' = q /\ tornTwice' = tornTwice)
    BY <2>2, <2>3, TwoLines DEF r, q
  <2>5. ~rp.corrupt => \A s \in Streams :
                q.stale[s] = IF streams[s] = "silent" THEN rp.stale[s] + 1 ELSE rp.stale[s]
    BY <1>2, <1>4, <2>2, <2>3
  <2> QED
    BY <1>3, <2>1, <2>2, <2>3, <2>4, <2>5
<1>5. CASE streams["book"] = "silent" /\ streams["trade"] # "silent"
  <2> DEFINE q == ReplayLine(rp, b)
  <2>1. lines = <<b>>
    BY <1>5 DEF StaleBefore
  <2>2. /\ Sound(q) /\ Usable(q) /\ q.corrupt = rp.corrupt /\ q.tracker = rp.tracker
        /\ q.book = rp.book /\ (~q.corrupt => q.stale = [rp.stale EXCEPT !["book"] = @ + 1])
    BY <1>2, StaleMark
  <2> HIDE DEF b, q
  <2>3. OKLines(<<b>>) /\ (WriteAll(<<b>>) => rp' = q /\ tornTwice' = tornTwice)
    BY <2>2, OneLine DEF q
  <2>4. ~rp.corrupt => \A s \in Streams :
                q.stale[s] = IF streams[s] = "silent" THEN rp.stale[s] + 1 ELSE rp.stale[s]
    BY <1>2, <1>5, <2>2
  <2> QED
    BY <1>3, <2>1, <2>2, <2>3, <2>4
<1>6. CASE streams["book"] # "silent" /\ streams["trade"] = "silent"
  <2> DEFINE q == ReplayLine(rp, t)
  <2>1. lines = <<t>>
    BY <1>6 DEF StaleBefore
  <2>2. /\ Sound(q) /\ Usable(q) /\ q.corrupt = rp.corrupt /\ q.tracker = rp.tracker
        /\ q.book = rp.book /\ (~q.corrupt => q.stale = [rp.stale EXCEPT !["trade"] = @ + 1])
    BY <1>2, StaleMark
  <2> HIDE DEF t, q
  <2>3. OKLines(<<t>>) /\ (WriteAll(<<t>>) => rp' = q /\ tornTwice' = tornTwice)
    BY <2>2, OneLine DEF q
  <2>4. ~rp.corrupt => \A s \in Streams :
                q.stale[s] = IF streams[s] = "silent" THEN rp.stale[s] + 1 ELSE rp.stale[s]
    BY <1>2, <1>6, <2>2
  <2> QED
    BY <1>3, <2>1, <2>2, <2>3, <2>4
<1> QED
  BY <1>1, <1>4, <1>5, <1>6

\* What a recorder knew is gone with it; the file stays.
LEMMA StopOK == ASSUME IndInv, Stop PROVE IndInv'
<1>1. /\ UNCHANGED <<exchange, rp, tornTwice>> /\ ~up'
      /\ tracker' = NewTracker /\ streams' = [s \in Streams |-> "new"] /\ since' = {}
  BY DEF Stop, file
<1>2. TradesInv' /\ Sound(rp)'
  BY <1>1 DEF IndInv, TradesInv, Sound, TapeInv, exchange
<1> QED
  BY <1>1, <1>2 DEF IndInv, RecorderInv

\* An empty file.
LEMMA InitOK == Init => IndInv
<1> SUFFICES ASSUME Init PROVE IndInv
  OBVIOUS
<1>1. TradesInv
  BY DEF Init, TradesInv
<1>2. rp \in Replayer /\ ~rp.mismatch /\ ~rp.corrupt /\ rp.tracker = NewTracker
  BY NewTyped DEF Init, NewReplayer
<1>3. Sound(rp)
  BY <1>2 DEF Init, Sound, TapeInv, NewTracker
<1> QED
  BY <1>1, <1>2, <1>3 DEF Init, IndInv, RecorderInv

\* Every step keeps the invariant.
LEMMA NextOK == IndInv /\ [Next]_vars => IndInv'
<1> SUFFICES ASSUME IndInv, [Next]_vars PROVE IndInv'
  OBVIOUS
<1>1. CASE UNCHANGED vars
  BY <1>1 DEF vars, exchange, file, IndInv, TradesInv, Sound, TapeInv, RecorderInv, Usable, FreshInv
<1>2. CASE Next
  BY <1>2, ExchangeTradesOK, HourPassesOK, DayPassesOK, SilenceOK, StartOK, StartCutOffOK, FrameOK,
     FrameMalformedOK, ReconnectOK, TickOK, StopOK DEF Next
<1> QED
  BY <1>1, <1>2

-----------------------------------------------------------------------------
\* The inductive invariant holds: file, recorder and exchange agree at every
\* point, wherever a write is cut off.
THEOREM Invariance == Spec => []IndInv
BY InitOK, NextOK, PTL DEF Spec

\* Replay classifies every frame as the recorder did and sees every silence the
\* recorder marked, in any session and behind any crash (replayer.line, tracker).
THEOREM ReplayIsFaithful == Spec => []ReplayAgrees
<1>1. IndInv => ReplayAgrees
  BY DEF IndInv, RecorderInv, Sound, ReplayAgrees, Live
<1> QED
  BY <1>1, Invariance, PTL

\* The book of a running session is synced once a snapshot has arrived, and is then
\* the freshest one since the last reconnect or new day (tracker.book,
\* replayer.unsyncBooks).
THEOREM BookIsFresh == Spec => []SyncedIsFresh
<1>1. IndInv => SyncedIsFresh
  BY DEF IndInv, RecorderInv, FreshInv, SyncedIsFresh, Live
<1> QED
  BY <1>1, Invariance, PTL

\* The tape of a replay accounts for the whole cumulative volume since its
\* baseline (tracker.trade).
THEOREM TapeIsComplete == Spec => []TapeAccountsForVolume
<1>1. IndInv => TapeAccountsForVolume
  BY DEF IndInv, Sound, TapeInv, TapeAccountsForVolume
<1> QED
  BY <1>1, Invariance, PTL

\* Replay refuses no file of recorders that crashed anywhere, unless a session line
\* was torn behind a torn line (replayer.line, terminateTornLine).
THEOREM FilesAreReadable == Spec => []ReplayAccepts
<1>1. IndInv => ReplayAccepts
  BY DEF IndInv, ReplayAccepts
<1> QED
  BY <1>1, Invariance, PTL
=============================================================================
