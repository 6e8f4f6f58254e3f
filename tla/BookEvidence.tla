----------------------------- MODULE BookEvidence -----------------------------
(***************************************************************************)
(* The order book's evidence (internal/book, cmd/bookrec record): a        *)
(* recorder classifies the frames of one symbol it is handed and appends   *)
(* them to an evidence file; replay reads the file, classifies the frames  *)
(* again and rebuilds the book and the trade tape.                         *)
(*                                                                         *)
(* The file is kept as what replay makes of its bytes so far: rp is the    *)
(* replayer after the last line.  A write may be cut off by a crash or by  *)
(* an error of the disk, at any line of a call and in any part of it.      *)
(* The exchange issues snapshots with its time of day and trades with the  *)
(* day's cumulative volume; the wire may lose, repeat and delay them.      *)
(***************************************************************************)
EXTENDS Integers, Sequences, FiniteSets

CONSTANTS
    Depths,       \* contents of a snapshot
    None,
    MaxHour, MaxQty, MaxVol, MaxDay,   \* bounds of the exchange
    MaxCrashes    \* bound on failed or interrupted writes

Snapshots == [hour : 1 .. MaxHour, depth : Depths]
TradesOf == [acml : 1 .. MaxVol, qty : 1 .. MaxQty]
Streams == {"book", "trade"}

ASSUME EvidenceAssumption ==
    /\ {MaxHour, MaxQty, MaxVol, MaxDay, MaxCrashes} \subseteq Nat
    /\ None \notin Snapshots \cup TradesOf

VARIABLES
    day, hour,    \* the exchange's day and its time of day
    volume,       \* the day's cumulative volume
    trades,       \* the day's trades, each with the cumulative volume after it
    up,           \* a recorder has the file open
    tracker,      \* its tracker
    streams,      \* its streams: "new", "heard", "silent" (for longer than the
                  \* threshold) or "stale" (silent, and marked)
    rp,           \* the replayer of the file
    terminated,   \* the file is empty or ends with a newline
    since,        \* history: the snapshots received since the book was last
                  \* unsynced
    tornTwice,    \* history: a session line was torn behind a torn line
    crashes

exchange == <<day, hour, volume, trades>>
file == <<rp, terminated, tornTwice, crashes>>
vars == <<exchange, up, tracker, streams, file, since>>

-----------------------------------------------------------------------------
\* tracker: the continuity of the book and of the tape, with the latest record
\* applied as cursor.

NewTracker == [day |-> 0,
               book |-> [last |-> None, synced |-> FALSE],
               trade |-> [last |-> None, resync |-> FALSE, restart |-> FALSE]]

\* reconnect: books are unsynced, the next trade of a symbol is a resync.
Reconnected(t) ==
    [t EXCEPT !.book.synced = FALSE, !.trade.resync = t.trade.last # None]

NewDay(t, at) == at > t.day /\ t.day # 0

\* startDay: books are unsynced, the next trade is the day's baseline.
StartDay(t) ==
    [t EXCEPT !.book.synced = FALSE, !.trade.restart = t.trade.last # None]

\* The part of frame before its records.
OnDay(t, at) ==
    IF at > t.day THEN [(IF NewDay(t, at) THEN StartDay(t) ELSE t) EXCEPT !.day = at] ELSE t

Verdict(class, resync, missing) == [class |-> class, resync |-> resync, missing |-> missing]

\* Mutant: an earlier exchange time is applied like any other snapshot.
BookVerdictAnyHour(c, r) ==
    IF c.last = None THEN Verdict("ok", FALSE, 0)
    ELSE IF ~c.synced THEN Verdict("ok", TRUE, 0)
    ELSE Verdict(IF r = c.last THEN "duplicate" ELSE "ok", FALSE, 0)

\* book: every snapshot is whole, so only repetition and regression are skipped;
\* the first one after the book was unsynced is applied in any case.
BookVerdict(c, r) ==
    IF c.last = None THEN Verdict("ok", FALSE, 0)
    ELSE IF ~c.synced THEN Verdict("ok", TRUE, 0)
    ELSE IF r = c.last THEN Verdict("duplicate", FALSE, 0)
    ELSE IF r.hour < c.last.hour THEN Verdict("regress", FALSE, 0)
    ELSE Verdict("ok", FALSE, 0)

\* Mutant: the trade's own quantity counts as missing too.
GapWithTrade(c, r) == r.acml - c.last.acml

\* MissingVol: the volume between the cursor and the trade.
Gap(c, r) == r.acml - r.qty - c.last.acml

\* The trade starts the tape afresh.
IsBaseline(c, r) == c.last = None \/ c.restart \/ (c.resync /\ r.acml < c.last.acml)

\* trade: a trade continues the tape, repeats it, falls behind it or leaves a gap;
\* the first one of a day, and one that falls behind after a reconnect, is a
\* baseline.
TradeVerdict(c, r) ==
    IF IsBaseline(c, r) THEN Verdict("ok", c.last # None, 0)
    ELSE IF r.acml = c.last.acml THEN Verdict("duplicate", c.resync, 0)
    ELSE IF r.acml < c.last.acml THEN Verdict("regress", c.resync, 0)
    ELSE IF Gap(c, r) > 0 THEN Verdict("gap", c.resync, Gap(c, r))
    ELSE Verdict("ok", c.resync, 0)

Applied(v) == v.class \in {"ok", "gap"}

\* frame with one record: its verdict, and the tracker after it.
VerdictOn(t, l) ==
    IF l.tr = "book" THEN BookVerdict(OnDay(t, l.at).book, l.record)
    ELSE TradeVerdict(OnDay(t, l.at).trade, l.record)

TrackFrame(t, l) ==
    LET d == OnDay(t, l.at) IN
    IF l.tr = "book"
    THEN IF Applied(VerdictOn(t, l)) THEN [d EXCEPT !.book = [last |-> l.record, synced |-> TRUE]] ELSE d
    ELSE [d EXCEPT !.trade =
            [last |-> IF Applied(VerdictOn(t, l)) THEN l.record ELSE @.last,
             resync |-> FALSE, restart |-> FALSE]]

-----------------------------------------------------------------------------
\* Replay: the replayer and what it makes of a line.

NewReplayer ==
    [tracker |-> NewTracker,
     book |-> None,                       \* the book of State.Books while it is synced
     tape |-> [base |-> 0, counted |-> 0, missing |-> 0],   \* the tape since its baseline
     stale |-> [s \in Streams |-> 0],     \* stale lines since the stream's last frame
     mismatch |-> FALSE, open |-> FALSE, torn |-> FALSE, corrupt |-> FALSE]

Session == [kind |-> "session"]
Reconnection == [kind |-> "reconnect"]
StaleLine(s) == [kind |-> "stale", tr |-> s]
BadFrame == [kind |-> "bad"]

\* Mutant: a session line goes on with the tracker of the session before it.
ReplaySessionOn(r) == [r EXCEPT !.open = TRUE, !.torn = FALSE, !.book = None]

\* A session line: a fresh tracker, every book unsynced.
ReplaySession(r) ==
    [NewReplayer EXCEPT !.open = TRUE, !.mismatch = r.mismatch]

\* The book and the tape after a frame line: replay unsyncs its books on a new
\* day, and applies the record to the book or to the tape.
BookAfter(r, l) ==
    IF l.tr = "book" /\ Applied(VerdictOn(r.tracker, l)) THEN l.record
    ELSE IF NewDay(r.tracker, l.at) THEN None ELSE r.book

TapeAfter(r, l) ==
    LET v == VerdictOn(r.tracker, l) IN
    IF l.tr = "book" \/ ~Applied(v) THEN r.tape
    ELSE IF IsBaseline(OnDay(r.tracker, l.at).trade, l.record)
    THEN [base |-> l.record.acml, counted |-> 0, missing |-> 0]
    ELSE [r.tape EXCEPT !.counted = @ + l.record.qty, !.missing = @ + v.missing]

\* A frame line: replay classifies the record itself.
ReplayFrame(r, l) ==
    [r EXCEPT !.tracker = TrackFrame(@, l),
              !.mismatch = @ \/ VerdictOn(r.tracker, l) # l.verdict,
              !.stale[l.tr] = 0,
              !.book = BookAfter(r, l),
              !.tape = TapeAfter(r, l)]

\* ErrCorrupt, or ErrFormat: the replay ends, and reads nothing behind this line.
Corrupt(r) == [NewReplayer EXCEPT !.corrupt = TRUE, !.mismatch = r.mismatch]

\* replayer.line: nothing but a session line may follow a torn line or come
\* first; a second torn line in a row, or anything else, ends the replay.
ReplayLine(r, l) ==
    IF r.corrupt THEN r
    ELSE IF l.kind = "torn" THEN IF r.torn THEN Corrupt(r) ELSE [r EXCEPT !.torn = TRUE]
    ELSE IF l.kind = "session" THEN ReplaySession(r)
    ELSE IF r.torn \/ ~r.open THEN Corrupt(r)
    ELSE CASE l.kind = "reconnect" -> [r EXCEPT !.tracker = Reconnected(@), !.book = None]
           [] l.kind = "stale" -> [r EXCEPT !.stale[l.tr] = @ + 1]
           [] l.kind = "frame" -> ReplayFrame(r, l)
           [] l.kind = "bad" -> r

-----------------------------------------------------------------------------
\* The file.

\* Mutant: the file is opened as it is.
OpenEvidenceAsIs == terminated

\* OpenEvidence, as whether the next line starts on a line of its own: a file
\* that does not end with a newline gets one (terminateTornLine).
OpenEvidence == TRUE

\* A line appended to r; behind a line without a newline it only lengthens that
\* line, which replay then cannot read.
AppendLine(r, l, onNewLine) ==
    IF onNewLine THEN ReplayLine(r, l) ELSE [r EXCEPT !.torn = TRUE]

\* The replayer after the first n lines of a call; a call writes one or two.
ReplayFirst(lines, n) ==
    CASE n = 0 -> rp
      [] n = 1 -> ReplayLine(rp, lines[1])
      [] n = 2 -> ReplayLine(ReplayLine(rp, lines[1]), lines[2])

\* The lines of a call are written, each with a single write.
WriteAll(lines) ==
    /\ rp' = ReplayFirst(lines, Len(lines))
    /\ terminated' = TRUE
    /\ UNCHANGED <<tornTwice, crashes>>

\* A crash, or a failed write, cuts the lines of a call off: some lines are whole,
\* and of the next one nothing, a part, or all but the newline is in the file.
\* The recorder ends (a write error is returned by every later call, and bookrec
\* exits with it).
CutOff(lines, onNewLine) ==
    /\ crashes < MaxCrashes /\ crashes' = crashes + 1
    /\ \E n \in 0 .. Len(lines) - 1, cut \in {"nothing", "part", "line"} :
        LET before == ReplayFirst(lines, n) IN
        /\ rp' = CASE cut = "nothing" -> before
                   [] cut = "part" -> AppendLine(before, [kind |-> "torn"], onNewLine)
                   [] cut = "line" -> AppendLine(before, lines[n + 1], onNewLine)
        /\ terminated' = (cut = "nothing" /\ onNewLine)
        /\ tornTwice' = (tornTwice \/ (before.torn /\ cut = "part"))
    /\ up' = FALSE /\ tracker' = NewTracker /\ streams' = [s \in Streams |-> "new"]
    /\ since' = {}

-----------------------------------------------------------------------------
\* The exchange.

ExchangeTrades ==
    /\ \E qty \in 1 .. MaxQty :
        /\ volume + qty <= MaxVol /\ volume' = volume + qty
        /\ trades' = trades \cup {[acml |-> volume + qty, qty |-> qty]}
    /\ UNCHANGED <<day, hour, up, tracker, streams, file, since>>

HourPasses ==
    /\ hour < MaxHour /\ hour' = hour + 1
    /\ UNCHANGED <<day, volume, trades, up, tracker, streams, file, since>>

DayPasses ==
    /\ day < MaxDay /\ day' = day + 1 /\ hour' = 1 /\ volume' = 0 /\ trades' = {}
    /\ UNCHANGED <<up, tracker, streams, file, since>>

\* A stream says nothing for longer than the threshold.
Silence ==
    /\ \E s \in Streams : streams[s] = "heard" /\ streams' = [streams EXCEPT ![s] = "silent"]
    /\ UNCHANGED <<exchange, up, tracker, file, since>>

\* The frames that may arrive: anything the exchange issued today.
Arrivals ==
    [kind : {"frame"}, tr : {"book"}, at : {day}, record : {r \in Snapshots : r.hour <= hour}]
        \cup
    [kind : {"frame"}, tr : {"trade"}, at : {day}, record : trades]

-----------------------------------------------------------------------------
\* The recorder.

\* NewRecorder on a file from OpenEvidence.
Start ==
    /\ ~up /\ up' = TRUE
    /\ IF OpenEvidence THEN WriteAll(<<Session>>)
       ELSE /\ rp' = AppendLine(rp, Session, FALSE) /\ terminated' = TRUE
            /\ UNCHANGED <<tornTwice, crashes>>
    /\ UNCHANGED <<exchange, tracker, streams, since>>

StartCutOff ==
    /\ ~up
    /\ CutOff(<<Session>>, OpenEvidence)
    /\ UNCHANGED exchange

\* arrive: a silence nobody marked yet is marked before the frame that ends it.
StaleBefore(s) == IF streams[s] = "silent" THEN <<StaleLine(s)>> ELSE <<>>

\* Frame: one record is classified, its stream has spoken, the lines are written.
\* The verdict on the line is the recorder's.
Frame ==
    /\ up
    /\ \E a \in Arrivals :
        LET l == [kind |-> "frame", tr |-> a.tr, at |-> a.at, record |-> a.record,
                  verdict |-> VerdictOn(tracker, a)]
            lines == Append(StaleBefore(a.tr), l)
        IN  \/ /\ WriteAll(lines)
               /\ tracker' = TrackFrame(tracker, a)
               /\ streams' = [streams EXCEPT ![a.tr] = "heard"]
               /\ since' = (IF NewDay(tracker, a.at) THEN {} ELSE since)
                                \cup (IF a.tr = "book" THEN {a.record} ELSE {})
               /\ UNCHANGED up
            \/ CutOff(lines, TRUE)
    /\ UNCHANGED exchange

\* Frame with a frame that does not parse: recorded, without any effect.
FrameMalformed ==
    /\ up
    /\ \/ WriteAll(<<BadFrame>>) /\ UNCHANGED <<up, tracker, streams, since>>
       \/ CutOff(<<BadFrame>>, TRUE)
    /\ UNCHANGED exchange

Reconnect ==
    /\ up
    /\ \/ /\ WriteAll(<<Reconnection>>)
          /\ tracker' = Reconnected(tracker) /\ since' = {}
          /\ UNCHANGED <<up, streams>>
       \/ CutOff(<<Reconnection>>, TRUE)
    /\ UNCHANGED exchange

\* Tick: every silence that is not marked yet is marked, in the order of the
\* streams.
Tick ==
    /\ up /\ \E s \in Streams : streams[s] = "silent"
    /\ LET lines == StaleBefore("book") \o StaleBefore("trade") IN
       \/ /\ WriteAll(lines)
          /\ streams' = [s \in Streams |-> IF streams[s] = "silent" THEN "stale" ELSE streams[s]]
          /\ UNCHANGED <<up, tracker, since>>
       \/ CutOff(lines, TRUE)
    /\ UNCHANGED exchange

\* The input ends: bookrec closes the file.
Stop ==
    /\ up /\ up' = FALSE
    /\ tracker' = NewTracker /\ streams' = [s \in Streams |-> "new"] /\ since' = {}
    /\ UNCHANGED <<exchange, file>>

-----------------------------------------------------------------------------
Init ==
    /\ day = 1 /\ hour = 1 /\ volume = 0 /\ trades = {}
    /\ up = FALSE /\ tracker = NewTracker /\ streams = [s \in Streams |-> "new"]
    /\ rp = NewReplayer /\ terminated = TRUE
    /\ since = {} /\ tornTwice = FALSE /\ crashes = 0

Next ==
    \/ ExchangeTrades \/ HourPasses \/ DayPasses \/ Silence
    \/ Start \/ StartCutOff \/ Frame \/ FrameMalformed \/ Reconnect \/ Tick \/ Stop

Spec == Init /\ [][Next]_vars

-----------------------------------------------------------------------------
\* A recorder runs on a file replay reads to its end.
Live == up /\ ~rp.corrupt

\* What replay makes of the file is what the recorder knew: the same tracker,
\* hence the same verdicts on every frame of any session, and one stale line for
\* every silence it has marked and none for the others.
ReplayAgrees ==
    /\ Live => /\ rp.tracker = tracker
               /\ \A s \in Streams : rp.stale[s] = (IF streams[s] = "stale" THEN 1 ELSE 0)
    /\ ~rp.mismatch

\* While a recorder runs, a book replay calls synced is one received since the
\* last session, reconnect or new day, and not older than any other of those; and
\* once there is one, the book is synced ("An executor must not act on an
\* unsynced book").
SyncedIsFresh ==
    Live => IF since = {} THEN rp.book = None
            ELSE rp.book \in since /\ \A s \in since : s.hour <= rp.book.hour

\* The tape accounts for every share: from its baseline on, the volume of the
\* trades on it and the missing volume of its gaps add up to the cumulative
\* volume of the last trade, whatever was lost, repeated or came late.
TapeAccountsForVolume ==
    LET last == rp.tracker.trade.last IN
    last # None => rp.tape.base + rp.tape.counted + rp.tape.missing = last.acml

\* Replay reads every file recorders leave behind, after any number of crashes,
\* except when a session line was torn directly behind a torn line.
ReplayAccepts == rp.corrupt => tornTwice
==============================================================================
