----------------------------- MODULE ApprovalLock -----------------------------
(***************************************************************************)
(* The shared websocket approval key (internal/reader/approval.go).        *)
(* Processes share one cached key and one lock in Redis.  In each of them  *)
(* a stream asks for a key (ApprovalKey, and Reissue when KIS rejects the  *)
(* one it was given) and a refresher renews it ahead of its expiry; both   *)
(* issue a key only through singleFlight.                                  *)
(*                                                                         *)
(* Two time scales.  The lock and its holder live for seconds, in ticks:   *)
(* left[c] is what the deadline still allows, and no tick passes a holder  *)
(* whose time is up, which is what "honor ctx" asks of its blocking calls, *)
(* unless its process is suspended (Stall).  The cached key lives for      *)
(* hours: it is fresh, then due (its TTL is within the margin), then gone, *)
(* and may become so at any moment (Age); sleeps and waits may end at any  *)
(* moment too.  A Redis command that its caller gives up on stays in       *)
(* flight and may be executed much later, or never.  A token or key that   *)
(* nobody holds any more may be drawn again.  A cancelled context ends its *)
(* process, as Restart does.                                               *)
(***************************************************************************)
EXTENDS Integers, FiniteSets

CONSTANTS
    Processes, Streams, Refreshers,
    ProcessOf,        \* the process a caller runs in
    Tokens, Keys,
    ApprovalLockTTL,
    PublishDeadline,  \* counted from before the lock attempt
    MaxFaults         \* bound on failures, lost replies and crashes

Callers == Streams \cup Refreshers
None == <<>>
Overdue == -1

ASSUME ApprovalAssumption ==
    /\ Streams \cap Refreshers = {}
    /\ ProcessOf \in [Callers -> Processes]
    /\ None \notin Tokens \cup Keys
    /\ PublishDeadline \in Nat /\ ApprovalLockTTL \in Nat
    /\ PublishDeadline < ApprovalLockTTL
    /\ MaxFaults \in Nat

VARIABLES
    redis,      \* lock token and its TTL, cached key and its age
    inflight,   \* commands whose callers gave up on the reply
    call,       \* where each caller is, see Call
    lastKey,    \* the key a process last presented to KIS
    known,      \* knownUntil lies ahead
    failed,     \* markFailure was called
    faults      \* failures so far

procVars == <<lastKey, known, failed>>
vars == <<redis, inflight, call, procVars, faults>>

Holding == {"check", "invalidate", "issue", "publish"}

Timed == Holding \cup {"lock", "locked"}

Call ==
    [pc : Holding \cup {"idle", "read", "lock", "locked", "poll", "release",
                        "fallback", "sleep", "done"},
     left : Nat \cup {Overdue},   \* until the publish deadline
     token : Tokens \cup {None},
     hand : Keys \cup {None},     \* the key singleFlight is about to return
     force : BOOLEAN, rejected : Keys \cup {None}]

Command == [op : {"setnx", "publish", "invalidate", "release"},
            token : Tokens, key : Keys \cup {None}]

TypeOK ==
    /\ redis \in [lock : Tokens \cup {None}, lockLeft : Nat,
                  key : Keys \cup {None}, age : {"fresh", "due"}]
    /\ redis.lockLeft <= ApprovalLockTTL
    /\ (redis.lock = None <=> redis.lockLeft = 0)
    /\ inflight \subseteq Command
    /\ call \in [Callers -> Call]
    /\ lastKey \in [Processes -> Keys \cup {None}]
    /\ known \in [Processes -> BOOLEAN]
    /\ failed \in [Processes -> BOOLEAN]
    /\ faults \in 0 .. MaxFaults

TokensInUse == {redis.lock} \cup {cmd.token : cmd \in inflight}
                            \cup {call[c].token : c \in Callers}
KeysInUse == {redis.key} \cup {cmd.key : cmd \in inflight}
                         \cup {call[c].hand : c \in Callers}
                         \cup {call[c].rejected : c \in Callers}
                         \cup {lastKey[p] : p \in Processes}

Idle(c) ==
    [pc |-> IF c \in Streams THEN "idle" ELSE "read", left |-> 0,
     token |-> None, hand |-> None, force |-> FALSE, rejected |-> None]

Init ==
    /\ redis = [lock |-> None, lockLeft |-> 0, key |-> None, age |-> "due"]
    /\ inflight = {}
    /\ call = [c \in Callers |-> Idle(c)]
    /\ lastKey = [p \in Processes |-> None]
    /\ known = [p \in Processes |-> FALSE]
    /\ failed = [p \in Processes |-> FALSE]
    /\ faults = 0

-----------------------------------------------------------------------------
\* Redis: the four writes, each of which changes nothing when its test fails.

Cmd(op, c, key) == [op |-> op, token |-> call[c].token, key |-> key]

\* Mutant: the release deletes whatever lock it finds.
OwnedOrRelease(cmd) == redis.lock = cmd.token \/ cmd.op = "release"

Owned(cmd) == redis.lock = cmd.token

Apply(cmd) ==
    CASE cmd.op = "setnx" /\ redis.lock = None ->
           [redis EXCEPT !.lock = cmd.token, !.lockLeft = ApprovalLockTTL]
      [] cmd.op = "publish" /\ Owned(cmd) ->
           [redis EXCEPT !.key = cmd.key, !.age = "fresh"]
      [] cmd.op = "invalidate" /\ Owned(cmd) ->
           [redis EXCEPT !.key = None, !.age = "due"]
      [] cmd.op = "release" /\ Owned(cmd) ->
           [redis EXCEPT !.lock = None, !.lockLeft = 0]
      [] OTHER -> redis

\* A command nobody waits for is executed.
Lands ==
    \E cmd \in inflight :
        /\ redis' = Apply(cmd)
        /\ inflight' = inflight \ {cmd}
        /\ UNCHANGED <<call, procVars, faults>>

\* The caller gives up on cmd, which never arrives or is still in flight.
Lose(cmd) == inflight' \in {inflight, inflight \cup {cmd}}

Fault == faults < MaxFaults /\ faults' = faults + 1

-----------------------------------------------------------------------------
\* What a process does with what it reads.

Live == redis.key # None
Usable == Live /\ redis.age = "fresh"

NoteLive(c) == known' = [known EXCEPT ![ProcessOf[c]] = TRUE]

KnownLive(c) == known[ProcessOf[c]]

Present(c, key) == lastKey' = [lastKey EXCEPT ![ProcessOf[c]] = key]

Goto(c, pc) == call' = [call EXCEPT ![c].pc = pc]

\* terminal: the failure is latched and the process is about to exit.
Terminal(c) ==
    /\ failed' = [failed EXCEPT ![ProcessOf[c]] = TRUE]
    /\ call' = [call EXCEPT ![c] = [Idle(c) EXCEPT !.pc = "done"]]
    /\ UNCHANGED <<lastKey, known>>

\* The stream gets a key.
Given(c, key) ==
    /\ Present(c, key)
    /\ call' = [call EXCEPT ![c] = Idle(c)]

\* recoverableFailure and a wait of refreshRetryDelay.
Backoff(c) ==
    call' = [call EXCEPT ![c] = [Idle(c) EXCEPT !.pc = "sleep"]]

\* singleFlight returns key, or an error when there is none.
Returns(c, key) ==
    \/ /\ key # None /\ c \in Streams
       /\ Given(c, key) /\ UNCHANGED failed
    \/ /\ key # None /\ c \in Refreshers
       /\ call' = [call EXCEPT ![c] = Idle(c)] /\ UNCHANGED <<lastKey, failed>>
    \/ /\ key = None /\ ~call[c].force
       /\ call' = [call EXCEPT ![c] = [Idle(c) EXCEPT !.pc = "fallback"]]
       /\ UNCHANGED <<lastKey, failed>>
    \/ key = None /\ call[c].force /\ Terminal(c)

-----------------------------------------------------------------------------
\* ApprovalKey, Reissue and the head of the refresh loop.

\* The time of the lock attempt is taken before SETNX is sent.  A token drawn
\* at random is nobody else's, as if it carried the name of its caller.
Attempt(c, force, rejected) ==
    LET free == {t \in Tokens : t[1] = c} \ TokensInUse IN
    /\ free # {}
    /\ call' = [call EXCEPT ![c] =
                   [pc |-> "lock", left |-> PublishDeadline,
                    token |-> CHOOSE t \in free : TRUE, hand |-> None,
                    force |-> force, rejected |-> rejected]]

\* The stream (re)subscribes.
ApprovalKey(c) ==
    /\ call[c].pc = "idle"
    /\ Goto(c, "read")
    /\ UNCHANGED <<redis, inflight, procVars, faults>>

\* KIS rejects the key the stream presented.
Reissue(c) ==
    /\ call[c].pc = "idle" /\ lastKey[ProcessOf[c]] # None
    /\ Attempt(c, TRUE, lastKey[ProcessOf[c]])
    /\ UNCHANGED <<redis, inflight, procVars, faults>>

\* The first look at the cache.
Read(c) ==
    /\ call[c].pc = "read"
    /\ IF Live THEN NoteLive(c) ELSE UNCHANGED known
    /\ \/ /\ Usable /\ c \in Streams /\ Given(c, redis.key)
       \/ /\ Usable /\ c \in Refreshers
          /\ Goto(c, "sleep")
          /\ UNCHANGED lastKey
       \/ ~Usable /\ Attempt(c, FALSE, None) /\ UNCHANGED lastKey
    /\ UNCHANGED <<redis, inflight, failed, faults>>

\* Only the refresher rides out a failing Redis, and only while the last key
\* it saw should still be good.
ReadFails(c) ==
    /\ call[c].pc = "read"
    /\ Fault
    /\ IF c \in Refreshers /\ KnownLive(c) THEN Backoff(c) /\ UNCHANGED procVars
                                           ELSE Terminal(c)
    /\ UNCHANGED <<redis, inflight>>

\* A refresh failed, but the old key may still be good.
Fallback(c) ==
    /\ call[c].pc = "fallback"
    /\ \/ /\ Live /\ NoteLive(c)
          /\ IF c \in Streams THEN Given(c, redis.key) ELSE Backoff(c) /\ UNCHANGED lastKey
          /\ UNCHANGED failed
       \/ ~Live /\ Terminal(c)
    /\ UNCHANGED <<redis, inflight, faults>>

FallbackFails(c) ==
    /\ call[c].pc = "fallback"
    /\ Fault
    /\ IF c \in Refreshers /\ KnownLive(c) THEN Backoff(c) /\ UNCHANGED procVars
                                           ELSE Terminal(c)
    /\ UNCHANGED <<redis, inflight>>

Wake(c) ==
    /\ call[c].pc = "sleep"
    /\ Goto(c, "read")
    /\ UNCHANGED <<redis, inflight, procVars, faults>>

-----------------------------------------------------------------------------
\* singleFlight.

\* Mutant: a rejected key that is still cached is good enough.
SuitsUsable(c) == Usable

\* Mutant: the holder does not look again whether a key was published.
SuitsNever(c) == FALSE

\* The cached key is good enough for the caller.
Suits(c) ==
    /\ Usable
    /\ call[c].force => call[c].rejected # None /\ redis.key # call[c].rejected

\* Mutant: the deadline runs from the reply to SETNX.
LockedFromReply(c) ==
    /\ call[c].pc = "locked"
    /\ call' = [call EXCEPT ![c].pc = "check", ![c].left = PublishDeadline]
    /\ UNCHANGED <<redis, inflight, procVars, faults>>

\* The reply arrives.  The deadline goes on running from before the attempt.
Locked(c) ==
    /\ call[c].pc = "locked"
    /\ Goto(c, "check")
    /\ UNCHANGED <<redis, inflight, procVars, faults>>

\* SETNX reaches Redis.
Lock(c) ==
    /\ call[c].pc = "lock"
    /\ redis' = Apply(Cmd("setnx", c, None))
    /\ \/ redis.lock = None /\ Goto(c, "locked")
       \/ /\ redis.lock # None
          /\ call' = [call EXCEPT ![c].pc = "poll", ![c].token = None, ![c].left = 0]
    /\ UNCHANGED <<inflight, procVars, faults>>

\* No reply comes: the client sends SETNX again, or gives up.
LockFails(c) ==
    /\ call[c].pc = "lock"
    /\ Fault
    /\ Lose(Cmd("setnx", c, None))
    /\ \/ UNCHANGED <<call, procVars>>
       \/ Returns(c, None) /\ UNCHANGED known
    /\ UNCHANGED redis

PollFinds(c) ==
    /\ call[c].pc = "poll" /\ Suits(c)
    /\ NoteLive(c) /\ Returns(c, redis.key)
    /\ UNCHANGED <<redis, inflight, faults>>

PollTimesOut(c) ==
    /\ call[c].pc = "poll"
    /\ Returns(c, None)
    /\ UNCHANGED <<redis, inflight, known, faults>>

PollFails(c) ==
    /\ call[c].pc = "poll"
    /\ Fault
    /\ Returns(c, None)
    /\ UNCHANGED <<redis, inflight, known>>

\* The deferred release has a context of its own.
ToRelease(c, key) ==
    call' = [call EXCEPT ![c].pc = "release", ![c].left = 0, ![c].hand = key]

InTime(c) == call[c].left # Overdue

Check(c) ==
    /\ call[c].pc = "check" /\ InTime(c)
    /\ \/ Suits(c) /\ NoteLive(c) /\ ToRelease(c, redis.key)
       \/ /\ ~Suits(c) /\ Goto(c, IF call[c].force THEN "invalidate" ELSE "issue")
          /\ UNCHANGED known
    /\ UNCHANGED <<redis, inflight, lastKey, failed, faults>>

Invalidate(c) ==
    /\ call[c].pc = "invalidate"
    /\ redis' = Apply(Cmd("invalidate", c, None))
    /\ IF Owned(Cmd("invalidate", c, None)) THEN Goto(c, "issue")
                                           ELSE ToRelease(c, None)
    /\ UNCHANGED <<inflight, procVars, faults>>

\* The REST call returns a key; a late one is thrown away.  An assumption on KIS:
\* the key is a new one, in particular not the key it has just rejected.  The
\* source does not compare the two.
Issue(c) ==
    LET free == Keys \ KeysInUse IN
    /\ call[c].pc = "issue" /\ free # {}
    /\ IF InTime(c)
       THEN call' = [call EXCEPT ![c].pc = "publish", ![c].hand = CHOOSE k \in free : TRUE]
       ELSE ToRelease(c, None)
    /\ UNCHANGED <<redis, inflight, procVars, faults>>

Publish(c) ==
    LET cmd == Cmd("publish", c, call[c].hand) IN
    /\ call[c].pc = "publish"
    /\ redis' = Apply(cmd)
    /\ IF Owned(cmd) THEN ToRelease(c, call[c].hand) /\ NoteLive(c)
                     ELSE ToRelease(c, None) /\ UNCHANGED known
    /\ UNCHANGED <<inflight, lastKey, failed, faults>>

\* A call of the holder returns an error.  A write may have left all the same.
HolderReturns(c) ==
    /\ call[c].pc \in Holding
    /\ IF call[c].pc \in {"invalidate", "publish"}
       THEN Lose(Cmd(call[c].pc, c, call[c].hand)) ELSE UNCHANGED inflight
    /\ ToRelease(c, None)
    /\ UNCHANGED <<redis, procVars>>

HolderFails(c) == Fault /\ HolderReturns(c)

HolderTimesOut(c) == ~InTime(c) /\ HolderReturns(c) /\ UNCHANGED faults

Release(c) ==
    /\ call[c].pc = "release"
    /\ redis' = Apply(Cmd("release", c, None))
    /\ Returns(c, call[c].hand)
    /\ UNCHANGED <<inflight, known, faults>>

\* Its error is ignored.
ReleaseFails(c) ==
    /\ call[c].pc = "release"
    /\ Fault
    /\ Lose(Cmd("release", c, None))
    /\ Returns(c, call[c].hand)
    /\ UNCHANGED <<redis, known>>

-----------------------------------------------------------------------------
\* The environment.

\* SETNX takes longer than the publish deadline, which nothing prevents, or
\* the process is suspended past the deadline of a holder.
Stall(c) ==
    /\ call[c].pc \in Timed /\ call[c].left = 0
    /\ Fault
    /\ call' = [call EXCEPT ![c].left = Overdue]
    /\ UNCHANGED <<redis, inflight, procVars>>

\* A process exits after a latched failure, or crashes, and is started again.
Restart(p) ==
    /\ Fault \/ (failed[p] /\ UNCHANGED faults)
    /\ call' = [c \in Callers |-> IF ProcessOf[c] = p THEN Idle(c) ELSE call[c]]
    /\ lastKey' = [lastKey EXCEPT ![p] = None]
    /\ known' = [known EXCEPT ![p] = FALSE]
    /\ failed' = [failed EXCEPT ![p] = FALSE]
    /\ UNCHANGED <<redis, inflight>>

\* The cached key comes within the margin, or expires.
Age ==
    /\ Live
    /\ redis' = IF Usable THEN [redis EXCEPT !.age = "due"]
                          ELSE [redis EXCEPT !.key = None]
    /\ UNCHANGED <<inflight, call, procVars, faults>>

\* The estimate of a process runs out, before or after the key it was made of.
Lapse(p) ==
    /\ known[p]
    /\ known' = [known EXCEPT ![p] = FALSE]
    /\ UNCHANGED <<redis, inflight, call, lastKey, failed, faults>>

\* A second, for Redis and for the deadlines.
Tick ==
    /\ \A c \in Callers : call[c].pc \in Timed => call[c].left # 0
    /\ redis' = [redis EXCEPT !.lock = IF redis.lockLeft > 1 THEN @ ELSE None,
                              !.lockLeft = IF @ > 0 THEN @ - 1 ELSE 0]
    /\ call' = [c \in Callers |->
                  IF call[c].pc \in Timed /\ InTime(c)
                  THEN [call[c] EXCEPT !.left = @ - 1] ELSE call[c]]
    /\ UNCHANGED <<inflight, procVars, faults>>

\* What a caller does when nothing fails.
Runs(c) ==
    \/ Read(c) \/ Fallback(c) \/ Wake(c)
    \/ Lock(c) \/ Locked(c) \/ PollFinds(c) \/ PollTimesOut(c)
    \/ Check(c) \/ Invalidate(c) \/ Issue(c) \/ Publish(c) \/ Release(c)
    \/ HolderTimesOut(c)

Fails(c) ==
    \/ ReadFails(c) \/ FallbackFails(c) \/ LockFails(c) \/ PollFails(c)
    \/ HolderFails(c) \/ ReleaseFails(c) \/ Stall(c)

Next ==
    \/ \E c \in Callers : Runs(c) \/ Fails(c)
    \/ \E c \in Streams : ApprovalKey(c) \/ Reissue(c)
    \/ \E p \in Processes : Restart(p) \/ Lapse(p)
    \/ Lands \/ Tick \/ Age

Spec == Init /\ [][Next]_vars

-----------------------------------------------------------------------------
\* Whoever got the lock holds it until its deadline has passed, and the deadline
\* passes first, whatever else expires, arrives late or is sent twice
\* (singleFlight: the deadline leaves "a one-second guard before the 15-second
\* lock can expire").
DeadlineInsideLock ==
    \A c \in Callers :
        call[c].pc \in Holding \cup {"locked"} /\ InTime(c) =>
            redis.lock = call[c].token /\ call[c].left < redis.lockLeft

\* At most one approval call is under way within its deadline (ApprovalIssuer:
\* "called only while a Redis lock is owned").
OneIssuer ==
    \A c, d \in Callers :
        call[c].pc = "issue" /\ InTime(c) /\ call[d].pc = "issue" /\ InTime(d) => c = d

\* While a caller is getting a key, no other caller's key appears that it could
\* have used: neither a successor's nor the late write of an earlier holder.
\* After a rejection the cache stays empty.
IssuesOnlyWhenNeeded ==
    \A c \in Callers :
        call[c].pc \in {"issue", "publish"} /\ InTime(c) =>
            IF call[c].force THEN redis.key = None ELSE ~Usable

\* A reissue never gives the stream the key that KIS rejected out of the cache or
\* from another caller's renewal (that KIS does not issue it again is assumed, see
\* Issue).
NeverRejectedAgain ==
    [][\A c \in Streams :
         call[c].force /\ call'[c].pc = "idle"
         => lastKey'[ProcessOf[c]] # call[c].rejected]_vars
==============================================================================
