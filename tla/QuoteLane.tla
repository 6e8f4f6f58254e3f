------------------------------- MODULE QuoteLane -------------------------------
(***************************************************************************)
(* The quote lane (internal/quote): one supervisor goroutine that opens    *)
(* one Toss websocket per trading window, the goroutine that reads it, the *)
(* watcher that ends the run with its window, and the writer of the ticks. *)
(*                                                                         *)
(* Time runs on two scales.  The wall clock is a position on the schedule: *)
(* odd positions are windows, even ones the hours between them; it may be  *)
(* set back.  The seconds of the declaration limiter are monotonic and are *)
(* kept as ages and as time left, which Second moves on.  The server, the  *)
(* cached token and Redis are modelled from how the source uses them.      *)
(***************************************************************************)
EXTENDS Integers, Sequences, FiniteSets, SequencesExt, FiniteSetsExt

CONSTANTS
    Tokens, None,     \* access tokens; the cache yields none
    Horizon,          \* last position of the wall clock
    MaxJumps,         \* bound on the wall clock's backward jumps
    DeclareLimit, DeclareWindow, CoolDown,    \* limits.go
    MaxRefused,       \* maxRefusedTokens
    MaxRedeclares,    \* maxRedeclares
    ControlCap,       \* capacity of the controls channel
    Buffer            \* Config.Buffer, capacity of the ticks channel

ASSUME LaneAssumption ==
    /\ None \notin Tokens
    /\ {Horizon, MaxJumps, MaxRedeclares} \subseteq Nat
    /\ {DeclareLimit, DeclareWindow, CoolDown, MaxRefused, ControlCap, Buffer} \subseteq Nat \ {0}

VARIABLES
    wall, jumps,   \* the wall clock's position, and how often it was set back
    cached,        \* the token the cache yields; None when it is absent,
                   \* expired or cannot be read
    refused,       \* refusedTokens.order
    sup,           \* the supervisor: pc, the position it waits for or that
                   \* closes its window, the token and the redeclarations of
                   \* its run, and whether the run ended with an error
    stopped,       \* laneCtx has ended
    windowDone,    \* windowCtx has ended
    dialed,        \* singleConnection.open
    socket,        \* a websocket to the server is open
    reader,        \* the reader: pc, the frame in hand, and what is left of
                   \* the cool-down the frame asks for
    late,          \* cool-downs still to be installed by readers of earlier
                   \* connections
    controls,      \* the controls channel
    limiter,       \* declareLimiter: ages of the admissions kept, and what is
                   \* left until notBefore
    ticks,         \* the length of the ticks channel
    recent,        \* history: the ages of the last DeclareLimit admissions,
                   \* oldest first; DeclareWindow stands for that age, any
                   \* higher one and none
    quiet          \* history: what is left of the cool-downs of the rate-limit
                   \* frames the readers are through with

clock == <<wall, jumps>>
run == <<windowDone, dialed, socket, reader, controls>>
history == <<recent, quiet>>
vars == <<clock, cached, refused, sup, stopped, run, late, limiter, ticks, history>>

Frames == {"rate", "fatal"}
Ages == 0 .. DeclareWindow - 1
NoFrame == [pc |-> "none", frame |-> "fatal", left |-> 0]
Down(n) == IF n = 0 THEN 0 ELSE n - 1

\* Schedule.At and Schedule.NextOpen on the positions of the wall clock.
Open(position) == position % 2 = 1
Closes(position) == position + 1
NextOpen(position) == position + 1 + (position % 2)

TypeOK ==
    /\ wall \in 1 .. Horizon /\ jumps \in 0 .. MaxJumps
    /\ cached \in Tokens \cup {None}
    /\ refused \in Seq(Tokens) /\ Len(refused) <= MaxRefused
    /\ sup \in [pc : {"loop", "idle", "token", "dial", "dialing", "declare", "write",
                      "serve", "closing", "sleep", "done"},
                until : 0 .. Horizon + 2, token : Tokens \cup {None},
                redeclares : 0 .. MaxRedeclares, failed : BOOLEAN]
    /\ {stopped, windowDone, dialed, socket} \subseteq BOOLEAN
    /\ reader \in [pc : {"none", "read", "offer", "install", "queue", "done"},
                   frame : Frames, left : 0 .. CoolDown]
    /\ late \subseteq 0 .. CoolDown
    /\ controls \in Seq(Frames) /\ Len(controls) <= ControlCap
    /\ limiter \in [admitted : Seq(Ages), cool : 0 .. CoolDown]
    /\ Len(limiter.admitted) <= DeclareLimit
    /\ ticks \in 0 .. Buffer
    /\ recent \in Seq(0 .. DeclareWindow) /\ Len(recent) = DeclareLimit
    /\ quiet \in 0 .. CoolDown

-----------------------------------------------------------------------------
\* The environment.

\* What reserve keeps of the admissions once they are one unit older: its loop,
\* after n of them.
Kept ==
    LET aged == [i \in DOMAIN limiter.admitted |-> limiter.admitted[i] + 1]
        kept[n \in 0 .. Len(aged)] ==
            IF n = 0 THEN <<>>
            ELSE IF aged[n] < DeclareWindow THEN Append(kept[n - 1], aged[n])
            ELSE kept[n - 1]
    IN  kept[Len(aged)]

\* The wall clock runs on to the next position of the schedule.
WallAdvances ==
    /\ ~stopped /\ wall < Horizon
    /\ wall' = wall + 1
    /\ UNCHANGED <<jumps, cached, refused, sup, stopped, run, late, limiter, ticks, history>>

\* The wall clock is set back, by any amount.
WallJumpsBack ==
    /\ ~stopped /\ jumps < MaxJumps
    /\ \E position \in 1 .. wall - 1 : wall' = position
    /\ jumps' = jumps + 1
    /\ UNCHANGED <<cached, refused, sup, stopped, run, late, limiter, ticks, history>>

\* One unit of monotonic time.
Second ==
    /\ sup.pc # "done"
    /\ limiter' = [admitted |-> Kept, cool |-> Down(limiter.cool)]
    /\ reader' = [reader EXCEPT !.left = Down(@)]
    /\ late' = {Down(left) : left \in late}
    /\ recent' = [i \in DOMAIN recent |->
                    IF recent[i] < DeclareWindow THEN recent[i] + 1 ELSE recent[i]]
    /\ quiet' = Down(quiet)
    /\ UNCHANGED <<clock, cached, refused, sup, stopped, windowDone, dialed, socket,
                   controls, ticks>>

\* The owner of the Toss token publishes another one, it expires, or Redis
\* fails.
TokenChanges ==
    /\ ~stopped
    /\ \E token \in (Tokens \cup {None}) \ {cached} : cached' = token
    /\ UNCHANGED <<clock, refused, sup, stopped, run, late, limiter, ticks, history>>

\* The lane's context ends, and with it a run's; the ticks not yet written are
\* lost.
StopLane == stopped' = TRUE /\ windowDone' = TRUE /\ ticks' = 0

\* halt: the process asks the lane to stop.
Halt ==
    /\ ~stopped
    /\ StopLane
    /\ UNCHANGED <<clock, cached, refused, sup, dialed, socket, reader, controls, late,
                   limiter, history>>

-----------------------------------------------------------------------------
\* superviseLoop.

Goto(pc) == sup' = [sup EXCEPT !.pc = pc]

\* Outside a run the supervisor keeps nothing of it but the position it waits for.
Leave(pc, wake) ==
    sup' = [pc |-> pc, until |-> wake, token |-> None, redeclares |-> 0, failed |-> FALSE]

\* The loop's head: the lane ends, waits for the next window, or runs this one.
Supervise ==
    /\ sup.pc = "loop"
    /\ IF stopped
       THEN Leave("done", 0) /\ UNCHANGED windowDone
       ELSE IF Open(wall)
            THEN /\ sup' = [sup EXCEPT !.pc = "token", !.until = Closes(wall)]
                 /\ windowDone' = FALSE
            ELSE /\ sup' = [sup EXCEPT !.pc = "idle", !.until = NextOpen(wall)]
                 /\ UNCHANGED windowDone
    /\ UNCHANGED <<clock, cached, refused, stopped, dialed, socket, reader, controls, late,
                   limiter, ticks, history>>

\* Mutant: the wait does not watch the lane's context.
WaitOverDeaf == wall >= sup.until

\* waitUntil: its deadline or the end of the lane, and nothing else, ends it.  A
\* deadline got from the clock by adding a pause, 0 here, is monotonic and comes.
WaitOver == stopped \/ wall >= sup.until

WaitUntilOpen ==
    /\ sup.pc = "idle" /\ WaitOver
    /\ Leave("loop", 0)
    /\ UNCHANGED <<clock, cached, refused, stopped, run, late, limiter, ticks, history>>

\* waitUntil(wake): the pause before a retry is over.
Retry ==
    /\ sup.pc = "sleep" /\ WaitOver
    /\ Leave("loop", 0)
    /\ UNCHANGED <<clock, cached, refused, stopped, run, late, limiter, ticks, history>>

\* Mutant: a clock set back before the window goes unnoticed.
WindowOpenForward(closes) == wall < closes

\* windowOpen: the wall clock is in the window that closes at closes.
WindowOpen(closes) == Open(wall) /\ Closes(wall) = closes

\* watchWindow: the run's context ends once the wall clock is not in the window
\* that closes at until.
WatchWindow ==
    /\ sup.pc \in {"token", "dial", "dialing", "declare", "write", "serve", "closing"}
    /\ ~windowDone
    /\ ~WindowOpen(sup.until)
    /\ windowDone' = TRUE
    /\ UNCHANGED <<clock, cached, refused, sup, stopped, dialed, socket, reader, controls,
                   late, limiter, ticks, history>>

-----------------------------------------------------------------------------
\* runWindow.

\* What the pause before a retry lasts until: a moment of the monotonic clock, or
\* the window's close, on the wall clock, if the pause would end after it.
Wakes(closes) ==
    {wake \in {0, closes} : IF wake = 0 THEN wall < closes ELSE closes <= wall + 1}

\* What follows a run: a pause and a retry after an error, the loop's head
\* otherwise; the lane's end in either case if it was stopped.
AfterRun(failed) ==
    IF stopped THEN Leave("done", 0)
    ELSE IF failed THEN \E wake \in Wakes(sup.until) : Leave("sleep", wake)
    ELSE Leave("loop", 0)

\* runWindow returns before it has a transport: its context ends.  An error
\* after the window's end counts as its end (windowEnded).
ReturnEarly(failed) ==
    /\ AfterRun(failed /\ ~windowDone)
    /\ windowDone' = TRUE

\* Mutant: an error returns without the deferred close.
ReturnOpen(failed) ==
    IF failed THEN AfterRun(failed)
    ELSE sup' = [sup EXCEPT !.pc = "closing", !.failed = failed /\ ~windowDone]

\* runWindow returns with a transport: its deferred calls come first.
Return(failed) == sup' = [sup EXCEPT !.pc = "closing", !.failed = failed /\ ~windowDone]

\* CachedToken.Token, and the memory of refused tokens.
ReadToken ==
    /\ sup.pc = "token" /\ ~windowDone
    /\ IF cached = None \/ Contains(refused, cached)
       THEN ReturnEarly(TRUE)
       ELSE /\ sup' = [sup EXCEPT !.pc = "dial", !.token = cached]
            /\ UNCHANGED windowDone
    /\ UNCHANGED <<clock, cached, refused, stopped, dialed, socket, reader, controls, late,
                   limiter, ticks, history>>

\* The window is over before the token is read.
ReadTokenCanceled ==
    /\ sup.pc = "token" /\ windowDone
    /\ ReturnEarly(FALSE)
    /\ UNCHANGED <<clock, cached, refused, stopped, dialed, socket, reader, controls, late,
                   limiter, ticks, history>>

\* singleConnection.Dial: refused while a transport is not released.
Dial ==
    /\ sup.pc = "dial"
    /\ IF dialed
       THEN ReturnEarly(TRUE) /\ UNCHANGED dialed
       ELSE Goto("dialing") /\ dialed' = TRUE /\ UNCHANGED windowDone
    /\ UNCHANGED <<clock, cached, refused, stopped, socket, reader, controls, late,
                   limiter, ticks, history>>

\* The server accepts the connection; the reader starts.
DialSucceeds ==
    /\ sup.pc = "dialing"
    /\ sup' = [sup EXCEPT !.pc = "declare", !.token = None]
    /\ socket' = TRUE /\ controls' = <<>>
    /\ reader' = [pc |-> "read", frame |-> "fatal", left |-> 0]
    /\ UNCHANGED <<clock, cached, refused, stopped, windowDone, dialed, late, limiter, ticks,
                   history>>

\* The dial fails or its context ends: the connection's slot is released.
DialFails ==
    /\ sup.pc = "dialing"
    /\ dialed' = FALSE
    /\ ReturnEarly(TRUE)
    /\ UNCHANGED <<clock, cached, refused, stopped, socket, reader, controls, late, limiter,
                   ticks, history>>

\* refusedTokens.add: the oldest gives way to a new one.
AddRefused(token) ==
    IF Contains(refused, token) THEN refused
    ELSE Append(IF Len(refused) >= MaxRefused THEN Tail(refused) ELSE refused, token)

\* Toss answers 401: the token is remembered, unless the window is over.
DialUnauthorized ==
    /\ sup.pc = "dialing"
    /\ dialed' = FALSE
    /\ refused' = IF windowDone THEN refused ELSE AddRefused(sup.token)
    /\ ReturnEarly(TRUE)
    /\ UNCHANGED <<clock, cached, stopped, socket, reader, controls, late, limiter, ticks, history>>

-----------------------------------------------------------------------------
\* declare.

\* limiter.Wait admits the declaration and reserves its slot.
Admit ==
    /\ sup.pc = "declare"
    /\ limiter.cool = 0 /\ Len(limiter.admitted) < DeclareLimit
    /\ limiter' = [limiter EXCEPT !.admitted = Append(@, 0)]
    /\ recent' = Append(Tail(recent), 0)
    /\ Goto("write")
    /\ UNCHANGED <<clock, cached, refused, stopped, run, late, ticks, quiet>>

\* limiter.Wait gives up with the window.
AdmitCanceled ==
    /\ sup.pc = "declare" /\ windowDone
    /\ Return(TRUE)
    /\ UNCHANGED <<clock, cached, refused, stopped, run, late, limiter, ticks, history>>

\* The declaration is written, or the write fails.
WriteDeclaration ==
    /\ sup.pc = "write"
    /\ Goto("serve") \/ Return(TRUE)
    /\ UNCHANGED <<clock, cached, refused, stopped, run, late, limiter, ticks, history>>

-----------------------------------------------------------------------------
\* The select of an open connection.

ServeWindowEnds ==
    /\ sup.pc = "serve" /\ windowDone
    /\ Return(FALSE)
    /\ UNCHANGED <<clock, cached, refused, stopped, run, late, limiter, ticks, history>>

ServeReaderDone ==
    /\ sup.pc = "serve" /\ reader.pc = "done"
    /\ Return(TRUE)
    /\ UNCHANGED <<clock, cached, refused, stopped, run, late, limiter, ticks, history>>

\* A control frame: an acknowledgement of no subscription, a server-shutdown or
\* any other error ends the run; a rate limit is answered by another declaration,
\* up to a limit.  (Other acknowledgements are only logged.)
ServeControl ==
    /\ sup.pc = "serve" /\ controls # <<>>
    /\ controls' = Tail(controls)
    /\ sup' = IF Head(controls) = "rate" /\ sup.redeclares < MaxRedeclares
              THEN [sup EXCEPT !.pc = "declare", !.redeclares = @ + 1]
              ELSE [sup EXCEPT !.pc = "closing", !.failed = TRUE]
    /\ UNCHANGED <<clock, cached, refused, stopped, windowDone, dialed, socket, reader, late,
                   limiter, ticks, history>>

\* A PING that fails; one that is written changes nothing.
PingFails ==
    /\ sup.pc = "serve"
    /\ Return(TRUE)
    /\ UNCHANGED <<clock, cached, refused, stopped, run, late, limiter, ticks, history>>

\* Mutant: the transport's release is forgotten when the run failed.
ReleaseUnlessFailed == dialed' = sup.failed

\* releasingTransport.Close.
Release == dialed' = FALSE

\* The deferred calls of a run: the transport is closed and released, then the
\* context ends.  A reader with a rate-limit frame in hand still installs its
\* cool-down.
CloseTransport ==
    /\ sup.pc = "closing"
    /\ socket' = FALSE /\ Release
    /\ windowDone' = TRUE
    /\ late' = IF reader.pc = "install" THEN late \cup {reader.left} ELSE late
    /\ quiet' = IF reader.pc = "queue" THEN Max({quiet, reader.left}) ELSE quiet
    /\ reader' = NoFrame /\ controls' = <<>>
    /\ AfterRun(sup.failed)
    /\ UNCHANGED <<clock, cached, refused, stopped, limiter, ticks, recent>>

-----------------------------------------------------------------------------
\* readLoop.

\* Mutant: a tick waits for room in the buffer.
OfferBlocking == ticks < Buffer /\ ticks' = ticks + 1

\* A tick is offered to the writer, and dropped when the buffer is full.
Offer == ticks' = IF ticks < Buffer THEN ticks + 1 ELSE ticks

OfferTick ==
    /\ reader.pc = "offer"
    /\ Offer
    /\ reader' = [reader EXCEPT !.pc = "read"]
    /\ UNCHANGED <<clock, cached, refused, sup, stopped, windowDone, dialed, socket, controls,
                   late, limiter, history>>

\* A frame is read and decoded: a tick, an acknowledgement, an error.  Frames of
\* other kinds, ticks the decoder drops and acknowledged subscriptions change
\* nothing.  A rate-limit frame
\* installs its cool-down, which counts from here, before it is queued.
ReadFrame ==
    /\ reader.pc = "read"
    /\ \/ reader' = [reader EXCEPT !.pc = "offer"]
       \/ reader' = [reader EXCEPT !.pc = "queue", !.frame = "fatal"]
       \/ reader' = [pc |-> "install", frame |-> "rate", left |-> CoolDown]
    /\ UNCHANGED <<clock, cached, refused, sup, stopped, windowDone, dialed, socket, controls,
                   late, limiter, ticks, history>>

\* Mutant: the latest frame to install its cool-down decides.
NotBeforeLatest(left) == left

\* coolDown: the later end of the two.
NotBefore(left) == Max({limiter.cool, left})

InstallCoolDown ==
    /\ reader.pc = "install"
    /\ limiter' = [limiter EXCEPT !.cool = NotBefore(reader.left)]
    /\ reader' = [reader EXCEPT !.pc = "queue"]
    /\ UNCHANGED <<clock, cached, refused, sup, stopped, windowDone, dialed, socket, controls,
                   late, ticks, history>>

\* The reader of an earlier connection installs the one it had in hand.
InstallLate ==
    /\ \E left \in late :
        /\ limiter' = [limiter EXCEPT !.cool = NotBefore(left)]
        /\ late' = late \ {left}
        /\ quiet' = Max({quiet, left})
    /\ UNCHANGED <<clock, cached, refused, sup, stopped, run, ticks, recent>>

\* The frame is queued for the supervisor.
QueueControl ==
    /\ reader.pc = "queue" /\ Len(controls) < ControlCap
    /\ controls' = Append(controls, reader.frame)
    /\ reader' = [pc |-> "read", frame |-> "fatal", left |-> 0]
    /\ quiet' = Max({quiet, reader.left})
    /\ UNCHANGED <<clock, cached, refused, sup, stopped, windowDone, dialed, socket, late,
                   limiter, ticks, recent>>

\* The connection is lost, or the run's context ends while the reader reads or
\* waits for room in the channel.
ReadFails ==
    /\ \/ reader.pc = "read"
       \/ reader.pc = "queue" /\ windowDone
    /\ reader' = [NoFrame EXCEPT !.pc = "done"]
    /\ quiet' = Max({quiet, reader.left})
    /\ UNCHANGED <<clock, cached, refused, sup, stopped, windowDone, dialed, socket, controls,
                   late, limiter, ticks, recent>>

-----------------------------------------------------------------------------
\* writeLoop: a tick leaves the buffer, written or dropped.  The writer ends with
\* the lane, also in the middle of an XADD.
WriteTick ==
    /\ ~stopped /\ ticks > 0
    /\ ticks' = ticks - 1
    /\ UNCHANGED <<clock, cached, refused, sup, stopped, run, late, limiter, history>>

\* guard: a panic of the reader, which then reports no end, of the writer or of
\* the supervisor, whose deferred calls still run, stops the lane.
Panics ==
    /\ ~stopped
    /\ \/ reader.pc \notin {"none", "done"} /\ reader' = NoFrame /\ UNCHANGED sup
       \/ sup.pc = "serve" /\ Return(TRUE) /\ UNCHANGED reader
       \/ UNCHANGED <<sup, reader>>
    /\ StopLane
    /\ UNCHANGED <<clock, cached, refused, dialed, socket, controls, late, limiter, history>>

-----------------------------------------------------------------------------
Init ==
    /\ wall \in 1 .. Horizon /\ jumps = 0
    /\ cached \in Tokens \cup {None} /\ refused = <<>>
    /\ sup = [pc |-> "loop", until |-> 0, token |-> None, redeclares |-> 0, failed |-> FALSE]
    /\ stopped = FALSE /\ windowDone = TRUE /\ dialed = FALSE /\ socket = FALSE
    /\ reader = NoFrame /\ late = {} /\ controls = <<>>
    /\ limiter = [admitted |-> <<>>, cool |-> 0]
    /\ ticks = 0
    /\ recent = [i \in 1 .. DeclareLimit |-> DeclareWindow] /\ quiet = 0

Environment == WallAdvances \/ WallJumpsBack \/ Second \/ TokenChanges \/ Halt

\* The steps of the supervisor that come in a fixed order.
Supervisor ==
    \/ Supervise \/ WaitUntilOpen \/ Retry
    \/ ReadToken \/ ReadTokenCanceled \/ Dial \/ DialSucceeds \/ DialFails \/ DialUnauthorized
    \/ Admit \/ AdmitCanceled \/ WriteDeclaration \/ CloseTransport

Serve == ServeWindowEnds \/ ServeReaderDone \/ ServeControl

\* The steps of the reader with a frame in hand.
Handle == OfferTick \/ InstallCoolDown \/ QueueControl

Next ==
    \/ Environment \/ Supervisor \/ Serve \/ PingFails \/ WatchWindow
    \/ ReadFrame \/ Handle \/ ReadFails \/ InstallLate \/ WriteTick \/ Panics

Spec == Init /\ [][Next]_vars

\* Every wait of the supervisor has a timeout, and the select of an open
\* connection takes a case that is ready; the watcher looks at the clock once a
\* minute; the reader finishes the frame it has in hand.  Nothing is assumed of
\* the server, of the wall clock, or of the writer: Redis may be as slow as it
\* likes.
FairSpec ==
    /\ Spec
    /\ WF_vars(Supervisor \/ Serve) /\ WF_vars(WatchWindow)
    /\ WF_vars(Handle) /\ WF_vars(Second)

-----------------------------------------------------------------------------
\* The lane dials only when the transport before it is closed and released, so
\* singleConnection never refuses it ("Break before make"; "fillwire uses exactly
\* one" connection).
BreakBeforeMake == sup.pc = "dial" => ~dialed /\ ~socket

\* At most DeclareLimit declarations are admitted in any DeclareWindow, counted
\* over all connections and runs, not only over those the limiter still
\* remembers, and none within CoolDown of a rate-limit frame a reader is through
\* with, be it the reader of this connection or a late one of an earlier
\* connection ("in any rolling second, across reconnects, and none before a
\* rate-limit cool-down ends").
DeclaresWithinLimits ==
    [][sup.pc = "declare" /\ sup'.pc = "write" =>
        quiet = 0 /\ recent[1] >= DeclareWindow]_vars

\* The reader always gets back to the socket, or is told to end: neither a full
\* tick buffer, however long Redis takes, nor full controls hold it for ever ("a
\* slow Redis drops quotes (counted) instead of stalling the socket reader").
ReaderNeverStalls == []<>(reader.pc \in {"none", "read", "done"})

\* In a window the lane has a connection, or dials one, again and again, as long
\* as the cache yields a token that was not refused: no failure before keeps it
\* away.  There are two exceptions, both waits for a moment of the wall clock: a
\* pause before a retry that would outlast the window is cut to its close; and a
\* clock set back does not end a wait, for the next opening or for such a close,
\* so that the lane sleeps through the windows before it.
ServesWindow ==
    Open(wall) ~>
        \/ socket \/ sup.pc = "dialing" \/ stopped \/ ~Open(wall)
        \/ cached = None \/ Contains(refused, cached)
        \/ sup.pc = "sleep" /\ sup.until = Closes(wall)
        \/ jumps > 0 /\ sup.pc \in {"idle", "sleep"} /\ wall < sup.until

\* A connection does not outlive its window, also when the wall clock left the
\* window by a jump in either direction, while dialing or while declaring ("a
\* wall-clock jump in either direction is noticed").
LeavesWithWindow ==
    LET inside == Open(wall) /\ sup.until = Closes(wall) IN
    socket /\ ~inside ~> ~socket \/ inside

\* Once the lane is asked to stop, or a goroutine of it panicked, the socket is
\* closed and Run returns, whatever the lane was waiting for.
StopsWhenAsked == stopped ~> sup.pc = "done" /\ ~socket

-----------------------------------------------------------------------------
\* The inductive invariant behind the two safety properties.

\* The connection's slot and the socket belong to a run that still has to close
\* them, and only a token of the cache is dialed with.
ConnectionInv ==
    /\ dialed => sup.pc \in {"dialing", "declare", "write", "serve", "closing"}
    /\ socket => sup.pc \in {"declare", "write", "serve", "closing"}
    /\ sup.pc \in {"dial", "dialing"} => sup.token \in Tokens

\* The limiter holds the youngest of the last DeclareLimit admissions, and those
\* it forgot are out of the window.
AdmissionsInv ==
    LET forgotten == DeclareLimit - Len(limiter.admitted) IN
    /\ \A i, j \in DOMAIN recent : i <= j => recent[i] >= recent[j]
    /\ \A i \in 1 .. forgotten : recent[i] = DeclareWindow
    /\ \A i \in DOMAIN limiter.admitted : limiter.admitted[i] = recent[forgotten + i]

\* notBefore is not before the end of a cool-down whose frame a reader installed.
CoolInv ==
    /\ quiet <= limiter.cool
    /\ reader.pc = "queue" => reader.left <= limiter.cool
    /\ reader.pc \notin {"install", "queue"} => reader.left = 0

LaneInv == TypeOK /\ ConnectionInv /\ AdmissionsInv /\ CoolInv
==============================================================================
