-------------------------- MODULE ApprovalLockProofs --------------------------
(***************************************************************************)
(* The shared lock for every set of processes and callers, every TTL and   *)
(* deadline with PublishDeadline < ApprovalLockTTL, and any number of      *)
(* failures, lost or late commands, stalls and crashes.                    *)
(*                                                                         *)
(* The inductive invariant says of each caller that a lock it took in time *)
(* is still its own and outlives its deadline, and that a command of its   *)
(* present attempt that is still in flight can only be a repeated SETNX:   *)
(* so no other write can pass the token test while the caller is at work.  *)
(***************************************************************************)
EXTENDS ApprovalLock, TLAPS

RedisType == [lock : Tokens \cup {None}, lockLeft : Nat,
              key : Keys \cup {None}, age : {"fresh", "due"}]

RedisOK(r) ==
    /\ r \in RedisType
    /\ r.lockLeft <= ApprovalLockTTL
    /\ (r.lock = None <=> r.lockLeft = 0)

ProcOK ==
    /\ lastKey \in [Processes -> Keys \cup {None}]
    /\ known \in [Processes -> BOOLEAN]
    /\ failed \in [Processes -> BOOLEAN]
    /\ faults \in 0 .. MaxFaults

\* Caller c, whose record is m, beside the Redis state r and the commands fl.
CallOK(c, m, r, fl) ==
    /\ m.token # None => m.token[1] = c
    /\ m.pc \in Timed \cup {"release"} => m.token # None
    /\ m.pc \in Timed => m.left <= PublishDeadline
    /\ m.pc \in Holding \cup {"locked"} /\ m.left # Overdue =>
           r.lock = m.token /\ m.left < r.lockLeft
    /\ m.pc \in {"issue", "publish"} /\ m.left # Overdue =>
           IF m.force THEN r.key = None ELSE r.key = None \/ r.age # "fresh"
    /\ m.force => m.rejected # None
    /\ m.force => m.pc \in Timed \cup {"poll", "release"}
    /\ m.pc \in {"publish", "release"} /\ m.force => m.hand # m.rejected
    /\ m.pc \in Timed => \A cmd \in fl : cmd.token = m.token => cmd.op = "setnx"

\* Caller c leaves Redis alone, or its command is executed or in flight.
Emits(c, cmd) ==
    \/ redis' = redis /\ inflight' = inflight
    \/ /\ cmd \in Command /\ cmd.token = call[c].token
       /\ redis' = Apply(cmd) /\ inflight' = inflight
    \/ /\ cmd \in Command /\ cmd.token = call[c].token
       /\ redis' = redis /\ inflight' = inflight \cup {cmd}

Inv ==
    /\ RedisOK(redis) /\ ProcOK
    /\ inflight \subseteq Command
    /\ call \in [Callers -> Call]
    /\ \A c \in Callers : CallOK(c, call[c], redis, inflight)

\* The four writes leave Redis in a state it can be in.
LEMMA ApplyType ==
    ASSUME RedisOK(redis), NEW cmd \in Command
    PROVE  RedisOK(Apply(cmd))
<1>1. cmd.token \in Tokens /\ cmd.token # None /\ cmd.key \in Keys \cup {None}
      /\ cmd.op \in {"setnx", "publish", "invalidate", "release"}
  BY ApprovalAssumption DEF Command
<1>2. ApprovalLockTTL \in Nat /\ ApprovalLockTTL # 0
  BY ApprovalAssumption
<1>3. redis \in RedisType
  BY DEF RedisOK
<1>4. CASE cmd.op = "setnx"
  <2>1. Apply(cmd) = redis \/
        Apply(cmd) = [redis EXCEPT !.lock = cmd.token, !.lockLeft = ApprovalLockTTL]
    BY <1>4 DEF Apply
  <2> DEFINE r == [redis EXCEPT !.lock = cmd.token, !.lockLeft = ApprovalLockTTL]
  <2>2. r \in RedisType /\ r.lock = cmd.token /\ r.lockLeft = ApprovalLockTTL
    BY <1>1, <1>2, <1>3 DEF RedisType
  <2>3. RedisOK(r)
    BY <1>1, <1>2, <2>2 DEF RedisOK
  <2> QED
    BY <2>1, <2>3
<1>5. CASE cmd.op = "publish"
  <2>1. Apply(cmd) = redis \/ Apply(cmd) = [redis EXCEPT !.key = cmd.key, !.age = "fresh"]
    BY <1>5 DEF Apply
  <2> QED
    BY <1>1, <1>3, <2>1 DEF RedisOK, RedisType
<1>6. CASE cmd.op = "invalidate"
  <2>1. Apply(cmd) = redis \/ Apply(cmd) = [redis EXCEPT !.key = None, !.age = "due"]
    BY <1>6 DEF Apply
  <2> QED
    BY <1>3, <2>1 DEF RedisOK, RedisType
<1>7. CASE cmd.op = "release"
  <2>1. Apply(cmd) = redis \/ Apply(cmd) = [redis EXCEPT !.lock = None, !.lockLeft = 0]
    BY <1>7 DEF Apply
  <2> DEFINE r == [redis EXCEPT !.lock = None, !.lockLeft = 0]
  <2>2. r \in RedisType /\ r.lock = None /\ r.lockLeft = 0
    BY <1>3 DEF RedisType
  <2>3. RedisOK(r)
    BY <1>2, <2>2 DEF RedisOK
  <2> QED
    BY <2>1, <2>3
<1> QED
  BY <1>1, <1>4, <1>5, <1>6, <1>7

\* A write that does not carry a caller's token, or a SETNX, takes nothing from
\* a caller who holds the lock in time.
LEMMA ApplyKeeps ==
    ASSUME RedisOK(redis), NEW cmd \in Command, NEW d, NEW m \in Call, NEW fl,
           CallOK(d, m, redis, fl),
           m.pc \in Timed => cmd.token # m.token \/ cmd.op = "setnx"
    PROVE  CallOK(d, m, Apply(cmd), fl)
<1>1. CASE ~(m.pc \in Holding \cup {"locked"} /\ m.left # Overdue)
  BY <1>1 DEF CallOK, Holding, Timed
<1>2. CASE m.pc \in Holding \cup {"locked"} /\ m.left # Overdue
  <2>1. m.pc \in Timed /\ m.token # None /\ redis.lock = m.token
    BY <1>2 DEF CallOK, Timed
  <2>2. Apply(cmd) = redis
    <3>1. CASE cmd.op = "setnx"
      BY <2>1, <3>1 DEF Apply
    <3>2. CASE cmd.token # m.token
      BY <2>1, <3>2 DEF Apply, Owned
    <3> QED
      BY <2>1, <3>1, <3>2
  <2> QED
    BY <2>2
<1> QED
  BY <1>1, <1>2

\* A caller between attempts claims nothing.
LEMMA AtRest ==
    ASSUME NEW c, NEW m \in Call, NEW r, NEW fl, m.token = None, ~m.force,
           m.pc \notin Timed \cup {"release"}
    PROVE  CallOK(c, m, r, fl)
BY DEF CallOK, Timed, Holding

\* A step of caller c alone, which may execute or lose one of its commands.
LEMMA CallerStep ==
    ASSUME Inv, NEW c \in Callers, NEW m \in Call,
           call' = [call EXCEPT ![c] = m],
           NEW cmd, Emits(c, cmd),
           CallOK(c, m, redis', inflight'),
           ProcOK'
    PROVE  Inv'
<1>1. RedisOK(redis') /\ inflight' \subseteq Command
  BY ApplyType DEF Inv, Emits
<1>2. call' \in [Callers -> Call]
  BY DEF Inv
<1>3. ASSUME NEW d \in Callers PROVE CallOK(d, call'[d], redis', inflight')
  <2>1. CASE d = c
    BY <2>1 DEF Inv
  <2>2. CASE d # c
    <3>1. call'[d] = call[d] /\ call[d] \in Call /\ CallOK(d, call[d], redis, inflight)
      BY <2>2 DEF Inv
    <3>2. call[c].token # None => call[c].token[1] = c
      BY DEF Inv, CallOK
    <3>3. ASSUME cmd \in Command, cmd.token = call[c].token
          PROVE  cmd.token # call[d].token
      BY <2>2, <3>1, <3>2, <3>3, ApprovalAssumption DEF CallOK, Command
    <3>4. CASE redis' = redis /\ inflight' = inflight
      BY <3>1, <3>4
    <3>5. CASE /\ cmd \in Command /\ cmd.token = call[c].token
               /\ redis' = Apply(cmd) /\ inflight' = inflight
      BY <3>1, <3>3, <3>5, ApplyKeeps DEF Inv
    <3>6. CASE /\ cmd \in Command /\ cmd.token = call[c].token
               /\ redis' = redis /\ inflight' = inflight \cup {cmd}
      BY <3>1, <3>3, <3>6 DEF CallOK
    <3> QED
      BY <3>4, <3>5, <3>6 DEF Emits
  <2> QED
    BY <2>1, <2>2
<1> QED
  BY <1>1, <1>2, <1>3 DEF Inv, ProcOK

\* The step ends with the caller between attempts.
LEMMA RestStep ==
    ASSUME Inv, NEW c \in Callers, NEW pc \in {"idle", "read", "fallback", "sleep", "done"},
           call' = [call EXCEPT ![c] = [Idle(c) EXCEPT !.pc = pc]],
           NEW cmd, Emits(c, cmd), ProcOK'
    PROVE  Inv'
<1> DEFINE m == [Idle(c) EXCEPT !.pc = pc]
<1>1. m \in Call /\ m.token = None /\ ~m.force /\ m.pc = pc
  BY DEF Idle, Call, Holding
<1>2. m.pc \notin Timed \cup {"release"}
  BY <1>1 DEF Timed, Holding
<1>3. CallOK(c, m, redis', inflight')
  BY <1>1, <1>2, AtRest
<1> HIDE DEF m
<1> QED
  BY <1>1, <1>3, CallerStep DEF m

\* The same with the record Idle(c) itself.
LEMMA IdleStep ==
    ASSUME Inv, NEW c \in Callers, call' = [call EXCEPT ![c] = Idle(c)],
           NEW cmd, Emits(c, cmd), ProcOK'
    PROVE  Inv'
<1>1. Idle(c) = [Idle(c) EXCEPT !.pc = Idle(c).pc]
      /\ Idle(c).pc \in {"idle", "read"}
  BY DEF Idle
<1> QED
  BY <1>1, RestStep

\* A new attempt draws a token that nothing carries.
LEMMA AttemptStep ==
    ASSUME Inv, NEW c \in Callers, NEW force \in BOOLEAN, NEW rejected \in Keys \cup {None},
           force => rejected # None,
           Attempt(c, force, rejected), UNCHANGED <<redis, inflight>>, ProcOK'
    PROVE  Inv'
<1> DEFINE free == {t \in Tokens : t[1] = c} \ TokensInUse
<1>1. PICK t \in free :
        call' = [call EXCEPT ![c] = [pc |-> "lock", left |-> PublishDeadline, token |-> t,
                                     hand |-> None, force |-> force, rejected |-> rejected]]
  BY DEF Attempt
<1> DEFINE m == [pc |-> "lock", left |-> PublishDeadline, token |-> t,
                 hand |-> None, force |-> force, rejected |-> rejected]
<1>2. t \in Tokens /\ t[1] = c /\ t # None /\ \A cmd \in inflight : cmd.token # t
  BY ApprovalAssumption DEF TokensInUse
<1>3. PublishDeadline \in Nat
  BY ApprovalAssumption
<1>4. m \in Call
  BY <1>2, <1>3 DEF Call, Holding
<1>5. CallOK(c, m, redis', inflight')
  BY <1>2, <1>3 DEF CallOK, Holding, Timed
<1>6. Emits(c, None)
  BY DEF Emits
<1>7. call' = [call EXCEPT ![c] = m]
  BY <1>1
<1> HIDE DEF m
<1> QED
  BY <1>4, <1>5, <1>6, <1>7, CallerStep

\* singleFlight returns: its caller is between attempts again.
LEMMA ReturnsStep ==
    ASSUME Inv, NEW c \in Callers, NEW key \in Keys \cup {None}, Returns(c, key),
           NEW cmd, Emits(c, cmd),
           known' \in [Processes -> BOOLEAN], faults' \in 0 .. MaxFaults
    PROVE  Inv'
<1>1. ProcOK'
  BY DEF Inv, ProcOK, Returns, Given, Present, Terminal
<1>2. CASE call' = [call EXCEPT ![c] = Idle(c)]
  BY <1>1, <1>2, IdleStep
<1>3. CASE call' = [call EXCEPT ![c] = [Idle(c) EXCEPT !.pc = "fallback"]]
  BY <1>1, <1>3, RestStep
<1>4. CASE call' = [call EXCEPT ![c] = [Idle(c) EXCEPT !.pc = "done"]]
  BY <1>1, <1>4, RestStep
<1> QED
  BY <1>2, <1>3, <1>4 DEF Returns, Given, Terminal

-----------------------------------------------------------------------------
\* The actions.

\* Failures are counted up to their bound.
LEMMA FaultType == ASSUME ProcOK, Fault PROVE faults' \in 0 .. MaxFaults
BY ApprovalAssumption DEF ProcOK, Fault

\* noteLive keeps the estimate a truth value.
LEMMA NoteLiveType ==
    ASSUME ProcOK, NEW c, NoteLive(c) \/ UNCHANGED known
    PROVE  known' \in [Processes -> BOOLEAN]
BY DEF ProcOK, NoteLive

\* Going to sleep or waking up.
LEMMA GotoStep ==
    ASSUME Inv, NEW c \in Callers, NEW pc \in {"read", "sleep"}, Goto(c, pc),
           call[c].pc \in {"idle", "read", "sleep"}, UNCHANGED <<redis, inflight>>, ProcOK'
    PROVE  Inv'
<1> DEFINE m == [call[c] EXCEPT !.pc = pc]
<1>1. call[c] \in Call /\ CallOK(c, call[c], redis, inflight)
  BY DEF Inv
<1>2. m \in Call
  BY <1>1 DEF Call, Holding
<1>3. CallOK(c, m, redis', inflight')
  BY <1>1 DEF CallOK, Call, Holding, Timed
<1>4. call' = [call EXCEPT ![c] = m] /\ Emits(c, None)
  BY DEF Goto, Emits
<1> HIDE DEF m
<1> QED
  BY <1>2, <1>3, <1>4, CallerStep

\* A resubscribe and the end of a sleep keep the invariant.
LEMMA ApprovalKeyStep ==
    ASSUME Inv, NEW c \in Callers, ApprovalKey(c) \/ Wake(c)
    PROVE  Inv'
<1>1. ProcOK'
  BY DEF Inv, ProcOK, ApprovalKey, Wake, procVars
<1> QED
  BY <1>1, GotoStep DEF ApprovalKey, Wake

\* Reissue starts a forced attempt with the key the stream presented.
LEMMA ReissueStep == ASSUME Inv, NEW c \in Callers, Reissue(c) PROVE Inv'
<1>1. ProcOK'
  BY DEF Inv, ProcOK, Reissue, procVars
<1>2. lastKey[ProcessOf[c]] \in Keys \cup {None} /\ lastKey[ProcessOf[c]] # None
  BY ApprovalAssumption DEF Inv, ProcOK, Reissue
<1> QED
  BY <1>1, <1>2, AttemptStep DEF Reissue

\* The first look at the cache keeps the invariant.
LEMMA ReadStep == ASSUME Inv, NEW c \in Callers, Read(c) PROVE Inv'
<1>1. known' \in [Processes -> BOOLEAN]
  BY NoteLiveType DEF Inv, Read
<1>2. redis.key \in Keys \cup {None} /\ UNCHANGED <<redis, inflight, failed, faults>>
  BY DEF Inv, RedisOK, RedisType, Read
<1>3. Emits(c, None)
  BY <1>2 DEF Emits
<1>4. CASE Given(c, redis.key)
  <2>1. ProcOK'
    BY <1>1, <1>2, <1>4 DEF Inv, ProcOK, Given, Present
  <2> QED
    BY <1>3, <1>4, <2>1, IdleStep DEF Given
<1>5. CASE Goto(c, "sleep") /\ UNCHANGED lastKey
  <2>1. ProcOK'
    BY <1>1, <1>2, <1>5 DEF Inv, ProcOK
  <2> QED
    BY <1>2, <1>5, <2>1, GotoStep DEF Read
<1>6. CASE Attempt(c, FALSE, None) /\ UNCHANGED lastKey
  <2>1. ProcOK'
    BY <1>1, <1>2, <1>6 DEF Inv, ProcOK
  <2> QED
    BY <1>2, <1>6, <2>1, AttemptStep
<1> QED
  BY <1>4, <1>5, <1>6 DEF Read

\* A failed or recovered read ends in a backoff, a terminal failure or a key.
LEMMA LookStep ==
    ASSUME Inv, NEW c \in Callers, UNCHANGED <<redis, inflight>>,
           faults' \in 0 .. MaxFaults, known' \in [Processes -> BOOLEAN],
           \/ Backoff(c) /\ UNCHANGED <<lastKey, failed>>
           \/ Terminal(c)
           \/ Given(c, redis.key) /\ UNCHANGED failed
    PROVE  Inv'
<1>1. redis.key \in Keys \cup {None} /\ Emits(c, None)
  BY DEF Inv, RedisOK, RedisType, Emits
<1>2. ProcOK'
  BY <1>1 DEF Inv, ProcOK, Given, Present, Terminal
<1>3. CASE Backoff(c)
  BY <1>1, <1>2, <1>3, RestStep DEF Backoff
<1>4. CASE Terminal(c)
  BY <1>1, <1>2, <1>4, RestStep DEF Terminal
<1>5. CASE Given(c, redis.key)
  BY <1>1, <1>2, <1>5, IdleStep DEF Given
<1> QED
  BY <1>3, <1>4, <1>5

\* A failing Redis read keeps the invariant.
LEMMA ReadFailsStep ==
    ASSUME Inv, NEW c \in Callers, ReadFails(c) \/ FallbackFails(c)
    PROVE  Inv'
<1>1. faults' \in 0 .. MaxFaults
  BY FaultType DEF Inv, ReadFails, FallbackFails
<1>2. known' \in [Processes -> BOOLEAN]
  BY DEF Inv, ProcOK, ReadFails, FallbackFails, procVars, Terminal
<1> QED
  BY <1>1, <1>2, LookStep DEF ReadFails, FallbackFails, procVars

\* The look for a live old key keeps the invariant.
LEMMA FallbackStep == ASSUME Inv, NEW c \in Callers, Fallback(c) PROVE Inv'
<1>1. faults' \in 0 .. MaxFaults
  BY DEF Inv, ProcOK, Fallback
<1>2. known' \in [Processes -> BOOLEAN]
  BY DEF Inv, ProcOK, Fallback, Terminal, NoteLive
<1> QED
  BY <1>1, <1>2, LookStep DEF Fallback

\* A command of an attempt that has a token.
LEMMA CmdType ==
    ASSUME Inv, NEW c \in Callers, call[c].token # None,
           NEW op \in {"setnx", "publish", "invalidate", "release"},
           NEW key \in Keys \cup {None}
    PROVE  /\ Cmd(op, c, key) \in Command
           /\ Cmd(op, c, key).token = call[c].token /\ Cmd(op, c, key).op = op
           /\ Cmd(op, c, key).key = key
BY DEF Inv, Cmd, Command, Call

\* SETNX gives the caller a lock that outlives its deadline.
LEMMA LockStep == ASSUME Inv, NEW c \in Callers, Lock(c) PROVE Inv'
<1> DEFINE cmd == Cmd("setnx", c, None)
<1>1. call[c] \in Call /\ CallOK(c, call[c], redis, inflight) /\ call[c].pc = "lock"
  BY DEF Inv, Lock
<1>2. call[c].token # None /\ call[c].left <= PublishDeadline
  BY <1>1 DEF CallOK, Timed
<1>3. cmd \in Command /\ cmd.token = call[c].token /\ cmd.op = "setnx"
  BY <1>2, CmdType
<1>4. ProcOK' /\ UNCHANGED inflight
  BY DEF Inv, ProcOK, Lock, procVars
<1>5. redis' = Apply(cmd)
  BY DEF Lock
<1>6. Emits(c, cmd)
  BY <1>3, <1>4, <1>5 DEF Emits
<1> HIDE DEF cmd
<1>7. CASE redis.lock = None /\ Goto(c, "locked")
  <2> DEFINE m == [call[c] EXCEPT !.pc = "locked"]
  <2>1. redis' = [redis EXCEPT !.lock = cmd.token, !.lockLeft = ApprovalLockTTL]
    BY <1>3, <1>5, <1>7 DEF Apply
  <2>2. redis'.lock = call[c].token /\ redis'.lockLeft = ApprovalLockTTL
    BY <1>3, <2>1 DEF Inv, RedisOK, RedisType
  <2>3. call[c].left < ApprovalLockTTL
    BY <1>1, <1>2, ApprovalAssumption DEF Call, Overdue
  <2>4. m \in Call
    BY <1>1 DEF Call, Holding
  <2>5. CallOK(c, m, redis', inflight')
    BY <1>1, <1>2, <1>4, <2>2, <2>3 DEF CallOK, Call, Holding, Timed
  <2>6. call' = [call EXCEPT ![c] = m]
    BY <1>7 DEF Goto
  <2> HIDE DEF m
  <2> QED
    BY <1>4, <1>6, <2>4, <2>5, <2>6, CallerStep
<1>8. CASE call' = [call EXCEPT ![c].pc = "poll", ![c].token = None, ![c].left = 0]
  <2> DEFINE m == [call[c] EXCEPT !.pc = "poll", !.token = None, !.left = 0]
  <2>1. m \in Call
    BY <1>1 DEF Call
  <2>2. CallOK(c, m, redis', inflight')
    BY <1>1 DEF CallOK, Call, Holding, Timed
  <2>3. call' = [call EXCEPT ![c] = m]
    BY <1>8
  <2> HIDE DEF m
  <2> QED
    BY <1>4, <1>6, <2>1, <2>2, <2>3, CallerStep
<1> QED
  BY <1>7, <1>8 DEF Lock

\* The reply to SETNX starts the work of the holder.
LEMMA LockedStep == ASSUME Inv, NEW c \in Callers, Locked(c) PROVE Inv'
<1> DEFINE m == [call[c] EXCEPT !.pc = "check"]
<1>1. call[c] \in Call /\ CallOK(c, call[c], redis, inflight) /\ call[c].pc = "locked"
  BY DEF Inv, Locked
<1>2. m \in Call
  BY <1>1 DEF Call, Holding
<1>3. ProcOK' /\ UNCHANGED <<redis, inflight>> /\ call' = [call EXCEPT ![c] = m]
  BY DEF Inv, ProcOK, Locked, procVars, Goto
<1>4. CallOK(c, m, redis', inflight')
  BY <1>1, <1>3 DEF CallOK, Call, Holding, Timed
<1>5. Emits(c, None)
  BY <1>3 DEF Emits
<1> HIDE DEF m
<1> QED
  BY <1>2, <1>3, <1>4, <1>5, CallerStep

\* A lost SETNX, repeated or given up, keeps the invariant.
LEMMA LockFailsStep == ASSUME Inv, NEW c \in Callers, LockFails(c) PROVE Inv'
<1> DEFINE cmd == Cmd("setnx", c, None)
<1>1. call[c] \in Call /\ CallOK(c, call[c], redis, inflight) /\ call[c].pc = "lock"
  BY DEF Inv, LockFails
<1>2. call[c].token # None
  BY <1>1 DEF CallOK, Timed
<1>3. cmd \in Command /\ cmd.token = call[c].token /\ cmd.op = "setnx"
  BY <1>2, CmdType
<1>4. Emits(c, cmd) /\ redis' = redis
  BY <1>3 DEF LockFails, Lose, Emits
<1>5. faults' \in 0 .. MaxFaults
  BY FaultType DEF Inv, LockFails
<1>6. inflight' \in {inflight, inflight \cup {cmd}}
  BY DEF LockFails, Lose
<1> HIDE DEF cmd
<1>7. CASE UNCHANGED <<call, procVars>>
  <2>1. call' = [call EXCEPT ![c] = call[c]]
    BY <1>7 DEF Inv
  <2>2. CallOK(c, call[c], redis', inflight')
    BY <1>1, <1>3, <1>4, <1>6 DEF CallOK, Holding
  <2>3. ProcOK'
    BY <1>5, <1>7 DEF Inv, ProcOK, procVars
  <2> QED
    BY <1>1, <1>4, <2>1, <2>2, <2>3, CallerStep
<1>8. CASE Returns(c, None) /\ UNCHANGED known
  <2>1. known' \in [Processes -> BOOLEAN]
    BY <1>8 DEF Inv, ProcOK
  <2> QED
    BY <1>4, <1>5, <1>8, <2>1, ReturnsStep
<1> QED
  BY <1>7, <1>8 DEF LockFails

\* A contender that finds a key, or none, keeps the invariant.
LEMMA PollStep ==
    ASSUME Inv, NEW c \in Callers, PollFinds(c) \/ PollTimesOut(c) \/ PollFails(c)
    PROVE  Inv'
<1>1. Emits(c, None)
  BY DEF PollFinds, PollTimesOut, PollFails, Emits
<1>2. faults' \in 0 .. MaxFaults
  BY FaultType DEF Inv, ProcOK, PollFinds, PollTimesOut, PollFails
<1>3. known' \in [Processes -> BOOLEAN]
  BY NoteLiveType DEF Inv, PollFinds, PollTimesOut, PollFails
<1>4. redis.key \in Keys \cup {None}
  BY DEF Inv, RedisOK, RedisType
<1> QED
  BY <1>1, <1>2, <1>3, <1>4, ReturnsStep DEF PollFinds, PollTimesOut, PollFails

\* The holder is done, with a key that was not rejected or with none.
LEMMA ToReleaseStep ==
    ASSUME Inv, NEW c \in Callers, call[c].pc \in Holding, NEW key \in Keys \cup {None},
           call[c].force => key # call[c].rejected,
           ToRelease(c, key), NEW cmd, Emits(c, cmd), ProcOK'
    PROVE  Inv'
<1> DEFINE m == [call[c] EXCEPT !.pc = "release", !.left = 0, !.hand = key]
<1>1. call[c] \in Call /\ CallOK(c, call[c], redis, inflight)
  BY DEF Inv
<1>2. m \in Call /\ call' = [call EXCEPT ![c] = m]
  BY <1>1 DEF Call, ToRelease
<1>3. CallOK(c, m, redis', inflight')
  BY <1>1 DEF CallOK, Call, Holding, Timed
<1> HIDE DEF m
<1> QED
  BY <1>2, <1>3, CallerStep

\* The second look, under the lock, decides whether to issue.
LEMMA CheckStep == ASSUME Inv, NEW c \in Callers, Check(c) PROVE Inv'
<1>1. call[c] \in Call /\ CallOK(c, call[c], redis, inflight) /\ call[c].pc = "check"
      /\ call[c].left # Overdue
  BY DEF Inv, Check, InTime
<1>2. UNCHANGED <<redis, inflight, lastKey, failed, faults>> /\ Emits(c, None)
  BY DEF Check, Emits
<1>3. known' \in [Processes -> BOOLEAN]
  BY NoteLiveType DEF Inv, Check
<1>4. ProcOK'
  BY <1>2, <1>3 DEF Inv, ProcOK
<1>5. CASE Suits(c) /\ ToRelease(c, redis.key)
  <2>1. redis.key \in Keys \cup {None} /\ (call[c].force => redis.key # call[c].rejected)
    BY <1>5 DEF Inv, RedisOK, RedisType, Suits
  <2> QED
    BY <1>1, <1>2, <1>4, <1>5, <2>1, ToReleaseStep DEF Holding
<1>6. CASE ~Suits(c) /\ Goto(c, IF call[c].force THEN "invalidate" ELSE "issue")
  <2> DEFINE m == [call[c] EXCEPT !.pc = IF call[c].force THEN "invalidate" ELSE "issue"]
  <2>1. m \in Call /\ call' = [call EXCEPT ![c] = m]
    BY <1>1, <1>6 DEF Call, Holding, Goto
  <2>2. ~call[c].force => redis.key = None \/ redis.age # "fresh"
    BY <1>6 DEF Suits, Usable, Live
  <2>3. CallOK(c, m, redis', inflight')
    BY <1>1, <1>2, <2>2 DEF CallOK, Call, Holding, Timed
  <2> HIDE DEF m
  <2> QED
    BY <1>2, <1>4, <2>1, <2>3, CallerStep
<1> QED
  BY <1>5, <1>6 DEF Check

\* Removing the rejected key empties the cache.
LEMMA InvalidateStep == ASSUME Inv, NEW c \in Callers, Invalidate(c) PROVE Inv'
<1> DEFINE cmd == Cmd("invalidate", c, None)
<1>1. call[c] \in Call /\ CallOK(c, call[c], redis, inflight) /\ call[c].pc = "invalidate"
  BY DEF Inv, Invalidate
<1>2. call[c].token # None
  BY <1>1 DEF CallOK, Timed, Holding
<1>3. cmd \in Command /\ cmd.token = call[c].token /\ cmd.op = "invalidate"
  BY <1>2, CmdType
<1>4. ProcOK' /\ UNCHANGED inflight /\ redis' = Apply(cmd)
  BY DEF Inv, ProcOK, Invalidate, procVars
<1>5. Emits(c, cmd)
  BY <1>3, <1>4 DEF Emits
<1>6. CASE Owned(cmd) /\ Goto(c, "issue")
  <2> HIDE DEF cmd
  <2> DEFINE m == [call[c] EXCEPT !.pc = "issue"]
  <2>1. redis' = [redis EXCEPT !.key = None, !.age = "due"]
    BY <1>3, <1>4, <1>6 DEF Apply
  <2>2. redis'.key = None /\ redis'.age # "fresh" /\ redis'.lock = redis.lock
        /\ redis'.lockLeft = redis.lockLeft
    BY <2>1 DEF Inv, RedisOK, RedisType
  <2>3. m \in Call /\ call' = [call EXCEPT ![c] = m]
    BY <1>1, <1>6 DEF Call, Holding, Goto
  <2>4. CallOK(c, m, redis', inflight')
    BY <1>1, <1>4, <2>2 DEF CallOK, Call, Holding, Timed
  <2> HIDE DEF m
  <2> QED
    BY <1>4, <1>5, <2>3, <2>4, CallerStep
<1>7. CASE ToRelease(c, None)
  <2>1. call[c].force => None # call[c].rejected
    BY <1>1 DEF CallOK
  <2> QED
    BY <1>1, <1>4, <1>5, <1>7, <2>1, ToReleaseStep DEF Holding
<1> QED
  BY <1>6, <1>7 DEF Invalidate

\* The issued key is one that nothing carries, so not the rejected one.
LEMMA IssueStep == ASSUME Inv, NEW c \in Callers, Issue(c) PROVE Inv'
<1>1. call[c] \in Call /\ CallOK(c, call[c], redis, inflight) /\ call[c].pc = "issue"
  BY DEF Inv, Issue
<1>2. ProcOK' /\ UNCHANGED <<redis, inflight>>
  BY DEF Inv, ProcOK, Issue, procVars
<1>3. Emits(c, None)
  BY <1>2 DEF Emits
<1>4. CASE ToRelease(c, None)
  <2>1. call[c].force => None # call[c].rejected
    BY <1>1 DEF CallOK
  <2> QED
    BY <1>1, <1>2, <1>3, <1>4, <2>1, ToReleaseStep DEF Holding
<1>5. ASSUME NEW k \in Keys \ KeysInUse,
             call' = [call EXCEPT ![c].pc = "publish", ![c].hand = k]
      PROVE  Inv'
  <2> DEFINE m == [call[c] EXCEPT !.pc = "publish", !.hand = k]
  <2>1. m \in Call /\ call' = [call EXCEPT ![c] = m]
    BY <1>1, <1>5 DEF Call, Holding
  <2>2. k # call[c].rejected
    BY DEF KeysInUse
  <2>3. CallOK(c, m, redis', inflight')
    BY <1>1, <1>2, <2>2 DEF CallOK, Call, Holding, Timed
  <2> HIDE DEF m
  <2> QED
    BY <1>2, <1>3, <2>1, <2>3, CallerStep
<1> QED
  BY <1>4, <1>5 DEF Issue

\* Publishing, or finding the lock lost, ends the holder's work.
LEMMA PublishStep == ASSUME Inv, NEW c \in Callers, Publish(c) PROVE Inv'
<1> DEFINE cmd == Cmd("publish", c, call[c].hand)
<1>1. call[c] \in Call /\ CallOK(c, call[c], redis, inflight) /\ call[c].pc = "publish"
  BY DEF Inv, Publish
<1>2. call[c].token # None /\ call[c].hand \in Keys \cup {None}
      /\ (call[c].force => call[c].hand # call[c].rejected /\ None # call[c].rejected)
  BY <1>1 DEF CallOK, Timed, Holding, Call
<1>3. cmd \in Command /\ cmd.token = call[c].token
  BY <1>2, CmdType
<1>4. UNCHANGED <<inflight, lastKey, failed, faults>> /\ redis' = Apply(cmd)
  BY DEF Publish
<1>5. Emits(c, cmd)
  BY <1>3, <1>4 DEF Emits
<1>6. known' \in [Processes -> BOOLEAN]
  BY NoteLiveType DEF Inv, Publish
<1>7. ProcOK'
  BY <1>4, <1>6 DEF Inv, ProcOK
<1> HIDE DEF cmd
<1>8. ToRelease(c, call[c].hand) \/ ToRelease(c, None)
  BY DEF Publish
<1> QED
  BY <1>1, <1>2, <1>5, <1>7, <1>8, ToReleaseStep DEF Holding

\* A failed call may leave its write in flight.
LEMMA HolderReturnsStep ==
    ASSUME Inv, NEW c \in Callers, HolderReturns(c), faults' \in 0 .. MaxFaults
    PROVE  Inv'
<1>1. call[c] \in Call /\ CallOK(c, call[c], redis, inflight) /\ call[c].pc \in Holding
  BY DEF Inv, HolderReturns
<1>2. call[c].token # None /\ (call[c].force => None # call[c].rejected)
      /\ call[c].hand \in Keys \cup {None}
  BY <1>1 DEF CallOK, Timed, Call
<1>3. ProcOK' /\ redis' = redis /\ ToRelease(c, None)
  BY DEF Inv, ProcOK, HolderReturns, procVars
<1>4. CASE UNCHANGED inflight
  <2>1. Emits(c, None)
    BY <1>3, <1>4 DEF Emits
  <2> QED
    BY <1>1, <1>2, <1>3, <2>1, ToReleaseStep
<1>5. CASE /\ call[c].pc \in {"invalidate", "publish"}
           /\ Lose(Cmd(call[c].pc, c, call[c].hand))
  <2>1. Cmd(call[c].pc, c, call[c].hand) \in Command
        /\ Cmd(call[c].pc, c, call[c].hand).token = call[c].token
    BY <1>2, <1>5, CmdType
  <2>2. Emits(c, Cmd(call[c].pc, c, call[c].hand))
    BY <1>3, <1>5, <2>1 DEF Emits, Lose
  <2> QED
    BY <1>1, <1>2, <1>3, <2>2, ToReleaseStep
<1> QED
  BY <1>4, <1>5 DEF HolderReturns

\* An error and a passed deadline keep the invariant.
LEMMA HolderFailsStep ==
    ASSUME Inv, NEW c \in Callers, HolderFails(c) \/ HolderTimesOut(c)
    PROVE  Inv'
<1>1. faults' \in 0 .. MaxFaults
  BY FaultType DEF Inv, ProcOK, HolderFails, HolderTimesOut
<1> QED
  BY <1>1, HolderReturnsStep DEF HolderFails, HolderTimesOut

\* The release, lost or not, ends the attempt.
LEMMA ReleaseStep ==
    ASSUME Inv, NEW c \in Callers, Release(c) \/ ReleaseFails(c)
    PROVE  Inv'
<1> DEFINE cmd == Cmd("release", c, None)
<1>1. call[c] \in Call /\ CallOK(c, call[c], redis, inflight) /\ call[c].pc = "release"
  BY DEF Inv, Release, ReleaseFails
<1>2. call[c].token # None /\ call[c].hand \in Keys \cup {None}
  BY <1>1 DEF CallOK, Call
<1>3. cmd \in Command /\ cmd.token = call[c].token
  BY <1>2, CmdType
<1>4. Emits(c, cmd)
  BY <1>3 DEF Emits, Release, ReleaseFails, Lose
<1>5. faults' \in 0 .. MaxFaults
  BY FaultType DEF Inv, ProcOK, Release, ReleaseFails
<1>6. known' \in [Processes -> BOOLEAN]
  BY DEF Inv, ProcOK, Release, ReleaseFails
<1> HIDE DEF cmd
<1> QED
  BY <1>2, <1>4, <1>5, <1>6, ReturnsStep DEF Release, ReleaseFails

\* Passing the deadline ends what the holder may claim.
LEMMA StallStep == ASSUME Inv, NEW c \in Callers, Stall(c) PROVE Inv'
<1> DEFINE m == [call[c] EXCEPT !.left = Overdue]
<1>1. call[c] \in Call /\ CallOK(c, call[c], redis, inflight) /\ call[c].pc \in Timed
      /\ call[c].left = 0
  BY DEF Inv, Stall
<1>2. m \in Call /\ call' = [call EXCEPT ![c] = m]
  BY <1>1 DEF Call, Stall
<1>3. ProcOK' /\ UNCHANGED <<redis, inflight>>
  BY FaultType DEF Inv, ProcOK, Stall, procVars
<1>4. Emits(c, None)
  BY <1>3 DEF Emits
<1>5. Overdue <= PublishDeadline
  BY ApprovalAssumption DEF Overdue
<1>6. CallOK(c, m, redis', inflight')
  BY <1>1, <1>3, <1>5 DEF CallOK, Call
<1> HIDE DEF m
<1> QED
  BY <1>2, <1>3, <1>4, <1>6, CallerStep

\* A restarted process forgets its callers; Redis and the network do not.
LEMMA RestartStep == ASSUME Inv, NEW p \in Processes, Restart(p) PROVE Inv'
<1>1. ProcOK' /\ UNCHANGED <<redis, inflight>>
  BY FaultType DEF Inv, ProcOK, Restart
<1>2. \A c \in Callers : /\ Idle(c) \in Call /\ Idle(c).token = None /\ ~Idle(c).force
                         /\ Idle(c).pc \notin Timed \cup {"release"}
  BY DEF Idle, Call, Holding, Timed
<1>3. \A c \in Callers : CallOK(c, Idle(c), redis, inflight)
  BY <1>2, AtRest
<1>4. call' \in [Callers -> Call]
  BY <1>2 DEF Inv, Restart
<1>5. \A c \in Callers : CallOK(c, call'[c], redis', inflight')
  BY <1>1, <1>3 DEF Inv, Restart
<1> QED
  BY <1>1, <1>4, <1>5 DEF Inv, ProcOK

\* A late command finds its token gone, or was a repeated SETNX.
LEMMA LandsStep == ASSUME Inv, Lands PROVE Inv'
<1>1. PICK cmd \in inflight : /\ redis' = Apply(cmd) /\ inflight' = inflight \ {cmd}
                              /\ UNCHANGED <<call, procVars, faults>>
  BY DEF Lands
<1>2. cmd \in Command
  BY DEF Inv
<1>3. RedisOK(redis') /\ ProcOK' /\ inflight' \subseteq Command /\ call' \in [Callers -> Call]
  BY <1>1, <1>2, ApplyType DEF Inv, ProcOK, procVars
<1>4. ASSUME NEW c \in Callers PROVE CallOK(c, call'[c], redis', inflight')
  <2>1. call'[c] = call[c] /\ call[c] \in Call /\ CallOK(c, call[c], redis, inflight)
    BY <1>1 DEF Inv
  <2>2. call[c].pc \in Timed => cmd.token # call[c].token \/ cmd.op = "setnx"
    BY <2>1 DEF CallOK
  <2>3. CallOK(c, call[c], redis', inflight)
    BY <1>1, <1>2, <2>1, <2>2, ApplyKeeps DEF Inv
  <2> QED
    BY <1>1, <2>1, <2>3 DEF CallOK
<1> QED
  BY <1>3, <1>4 DEF Inv, ProcOK

\* The lock and its holder lose a second each.
LEMMA TickStep == ASSUME Inv, Tick PROVE Inv'
<1>1. ProcOK' /\ UNCHANGED inflight
  BY DEF Inv, ProcOK, Tick, procVars
<1>2. redis \in RedisType /\ redis.lockLeft <= ApprovalLockTTL /\ ApprovalLockTTL \in Nat
      /\ (redis.lock = None <=> redis.lockLeft = 0)
  BY ApprovalAssumption DEF Inv, RedisOK
<1>3. /\ redis' \in RedisType
      /\ redis'.lock = (IF redis.lockLeft > 1 THEN redis.lock ELSE None)
      /\ redis'.lockLeft = (IF redis.lockLeft > 0 THEN redis.lockLeft - 1 ELSE 0)
      /\ redis'.key = redis.key /\ redis'.age = redis.age
  <2>1. redis' = [redis EXCEPT !.lock = IF redis.lockLeft > 1 THEN redis.lock ELSE None,
                               !.lockLeft = IF redis.lockLeft > 0 THEN redis.lockLeft - 1 ELSE 0]
    BY DEF Tick
  <2>2. (IF redis.lockLeft > 1 THEN redis.lock ELSE None) \in Tokens \cup {None}
    BY <1>2 DEF RedisType
  <2>3. (IF redis.lockLeft > 0 THEN redis.lockLeft - 1 ELSE 0) \in Nat
    BY <1>2 DEF RedisType
  <2> QED
    BY <1>2, <2>1, <2>2, <2>3 DEF RedisType
<1>4. RedisOK(redis')
  BY <1>2, <1>3 DEF RedisOK, RedisType
<1>5. ASSUME NEW c \in Callers
      PROVE  call'[c] \in Call /\ CallOK(c, call'[c], redis', inflight')
  <2>1. call[c] \in Call /\ CallOK(c, call[c], redis, inflight)
    BY DEF Inv
  <2>2. CASE call[c].pc \in Timed /\ InTime(c)
    <3> DEFINE m == [call[c] EXCEPT !.left = call[c].left - 1]
    <3>1. call'[c] = m
      BY <2>2 DEF Tick
    <3>2. call[c].left \in Nat /\ call[c].left # 0
      BY <2>1, <2>2 DEF Tick, InTime, Call
    <3>3. m \in Call /\ m.left = call[c].left - 1
      BY <2>1, <3>2 DEF Call
    <3>4. m.left < PublishDeadline
      BY <2>1, <2>2, <3>2, <3>3, ApprovalAssumption DEF CallOK
    <3>5. call[c].pc \in Holding \cup {"locked"} =>
            redis'.lock = call[c].token /\ m.left < redis'.lockLeft
      BY <1>2, <1>3, <2>1, <2>2, <3>2, <3>3 DEF CallOK, InTime, RedisType
    <3>6. CallOK(c, m, redis', inflight')
      BY <1>1, <1>3, <2>1, <2>2, <3>2, <3>3, <3>4, <3>5, ApprovalAssumption
         DEF CallOK, Call, InTime
    <3> QED
      BY <3>1, <3>3, <3>6
  <2>3. CASE ~(call[c].pc \in Timed /\ InTime(c))
    <3>1. call'[c] = call[c]
      BY <2>3 DEF Tick
    <3> QED
      BY <1>1, <2>1, <2>3, <3>1 DEF CallOK, InTime, Timed, Holding
  <2> QED
    BY <2>2, <2>3
<1>6. call' \in [Callers -> Call]
  BY <1>5 DEF Tick
<1> QED
  BY <1>1, <1>4, <1>5, <1>6 DEF Inv, ProcOK

\* A key that ages is no more usable than before.
LEMMA AgeStep == ASSUME Inv, Age PROVE Inv'
<1>1. UNCHANGED <<inflight, call>> /\ ProcOK'
  BY DEF Inv, ProcOK, Age, procVars
<1>2. /\ RedisOK(redis') /\ redis'.lock = redis.lock /\ redis'.lockLeft = redis.lockLeft
      /\ redis'.key = None \/ (redis'.key = redis.key /\ redis'.age = "due")
  BY DEF Inv, Age, RedisOK, RedisType, Live
<1>3. redis'.key = None \/ redis'.age # "fresh"
  BY <1>2
<1>4. ASSUME NEW c \in Callers PROVE CallOK(c, call'[c], redis', inflight')
  <2>1. CallOK(c, call[c], redis, inflight) /\ call'[c] = call[c]
    BY <1>1 DEF Inv
  <2>2. redis.key = None => redis'.key = None
    BY DEF Age, Live
  <2> QED
    BY <1>1, <1>2, <1>3, <2>1, <2>2 DEF CallOK
<1> QED
  BY <1>1, <1>2, <1>4 DEF Inv, ProcOK

\* The estimate of a process plays no part in the invariant.
LEMMA LapseStep ==
    ASSUME Inv, (\E p \in Processes : Lapse(p)) \/ UNCHANGED vars
    PROVE  Inv'
<1>1. UNCHANGED <<redis, inflight, call>> /\ ProcOK'
  BY DEF Inv, ProcOK, Lapse, vars, procVars
<1> QED
  BY <1>1 DEF Inv, ProcOK

-----------------------------------------------------------------------------
\* The initial state satisfies the invariant.
LEMMA InvInit == Init => Inv
<1> SUFFICES ASSUME Init PROVE Inv
  OBVIOUS
<1>1. RedisOK(redis) /\ ProcOK /\ inflight \subseteq Command
  BY ApprovalAssumption DEF Init, RedisOK, RedisType, ProcOK
<1>2. \A c \in Callers : /\ Idle(c) \in Call /\ Idle(c).token = None /\ ~Idle(c).force
                         /\ Idle(c).pc \notin Timed \cup {"release"}
  BY DEF Idle, Call, Holding, Timed
<1>3. call \in [Callers -> Call] /\ \A c \in Callers : call[c] = Idle(c)
  BY <1>2 DEF Init
<1> QED
  BY <1>1, <1>2, <1>3, AtRest DEF Inv

\* Every step keeps the invariant.
LEMMA InvNext == Inv /\ [Next]_vars => Inv'
<1> SUFFICES ASSUME Inv, [Next]_vars PROVE Inv'
  OBVIOUS
<1>1. ASSUME NEW c \in Callers, Runs(c) PROVE Inv'
  BY <1>1, ReadStep, FallbackStep, ApprovalKeyStep, LockStep, LockedStep, PollStep,
     CheckStep, InvalidateStep, IssueStep, PublishStep, ReleaseStep, HolderFailsStep
     DEF Runs
<1>2. ASSUME NEW c \in Callers, Fails(c) PROVE Inv'
  BY <1>2, ReadFailsStep, LockFailsStep, PollStep, HolderFailsStep, ReleaseStep, StallStep
     DEF Fails
<1>3. ASSUME NEW c \in Streams, ApprovalKey(c) \/ Reissue(c) PROVE Inv'
  BY <1>3, ApprovalKeyStep, ReissueStep DEF Callers
<1> QED
  BY <1>1, <1>2, <1>3, RestartStep, LapseStep, LandsStep, TickStep, AgeStep DEF Next

\* The invariant holds in every reachable state.
LEMMA InvAlways == Spec => []Inv
BY InvInit, InvNext, PTL DEF Spec

\* Every variable keeps its type, and the lock has a token exactly while it has
\* a TTL (SET NX EX of singleFlight).
THEOREM ApprovalTypes == Spec => []TypeOK
<1>1. Inv => TypeOK
  BY DEF Inv, TypeOK, RedisOK, RedisType, ProcOK
<1> QED
  BY <1>1, InvAlways, PTL

\* A lock taken by singleFlight is still its holder's until the publish deadline
\* has passed.
THEOREM DeadlineInsideLockAlways == Spec => []DeadlineInsideLock
<1>1. Inv => DeadlineInsideLock
  BY DEF Inv, CallOK, DeadlineInsideLock, InTime
<1> QED
  BY <1>1, InvAlways, PTL

\* Two approval calls are never under way together within their deadlines.
THEOREM OneIssuerAlways == Spec => []OneIssuer
<1>1. Inv => OneIssuer
  <2> SUFFICES ASSUME Inv, NEW c \in Callers, NEW d \in Callers,
                      call[c].pc = "issue", InTime(c), call[d].pc = "issue", InTime(d)
               PROVE  c = d
    BY DEF OneIssuer
  <2>1. /\ redis.lock = call[c].token /\ redis.lock = call[d].token
        /\ call[c].token # None /\ call[c].token[1] = c /\ call[d].token[1] = d
    BY DEF Inv, CallOK, Timed, Holding, InTime
  <2> QED
    BY <2>1
<1> QED
  BY <1>1, InvAlways, PTL

\* Nobody issues a key beside one that would have done.
THEOREM IssuesOnlyWhenNeededAlways == Spec => []IssuesOnlyWhenNeeded
<1>1. Inv => IssuesOnlyWhenNeeded
  BY DEF Inv, CallOK, IssuesOnlyWhenNeeded, InTime, Usable, Live
<1> QED
  BY <1>1, InvAlways, PTL

\* What caller d does leaves the others where they are.
LEMMA OthersStay ==
    ASSUME call \in [Callers -> Call], NEW d \in Callers, NEW c \in Callers, c # d,
           Runs(d) \/ Fails(d) \/ ApprovalKey(d) \/ Reissue(d)
    PROVE  call'[c] = call[c]
<1> USE DEF Given, Terminal, Backoff, Returns, Attempt, Goto, ToRelease
<1>1. CASE Read(d) \/ Fallback(d) \/ Wake(d) \/ Lock(d) \/ Locked(d) \/ PollFinds(d)
  BY <1>1 DEF Read, Fallback, Wake, Lock, Locked, PollFinds
<1>2. CASE PollTimesOut(d) \/ Check(d) \/ Invalidate(d) \/ Issue(d) \/ Publish(d)
  BY <1>2 DEF PollTimesOut, Check, Invalidate, Issue, Publish
<1>3. CASE Release(d) \/ HolderTimesOut(d) \/ ReadFails(d) \/ FallbackFails(d)
  BY <1>3 DEF Release, HolderTimesOut, HolderReturns, ReadFails, FallbackFails
<1>4. CASE LockFails(d) \/ PollFails(d) \/ HolderFails(d) \/ ReleaseFails(d) \/ Stall(d)
  BY <1>4 DEF LockFails, PollFails, HolderFails, HolderReturns, ReleaseFails, Stall
<1>5. CASE ApprovalKey(d) \/ Reissue(d)
  BY <1>5 DEF ApprovalKey, Reissue
<1> QED
  BY <1>1, <1>2, <1>3, <1>4, <1>5 DEF Runs, Fails

\* A forced singleFlight of a stream that ends well presents its key.
LEMMA ForcedReturn ==
    ASSUME NEW c \in Streams, c \in Callers, c \notin Refreshers, call \in [Callers -> Call],
           lastKey \in [Processes -> Keys \cup {None}], ProcessOf[c] \in Processes,
           NEW key, Returns(c, key), call[c].force, call'[c].pc = "idle"
    PROVE  key # None /\ lastKey'[ProcessOf[c]] = key
BY DEF Returns, Given, Present, Terminal, Idle

\* Reissue never returns the key that KIS rejected.
THEOREM NeverRejectedAgainAlways == Spec => NeverRejectedAgain
<1> DEFINE A == \A c \in Streams : call[c].force /\ call'[c].pc = "idle"
                                  => lastKey'[ProcessOf[c]] # call[c].rejected
<1>1. Inv /\ [Next]_vars => [A]_vars
  <2> SUFFICES ASSUME Inv, Next, NEW c \in Streams, call[c].force, call'[c].pc = "idle"
               PROVE  lastKey'[ProcessOf[c]] # call[c].rejected
    OBVIOUS
  <2>1. c \in Callers /\ c \notin Refreshers /\ ProcessOf[c] \in Processes
    BY ApprovalAssumption DEF Callers
  <2>2. /\ call \in [Callers -> Call] /\ call[c] \in Call /\ CallOK(c, call[c], redis, inflight)
        /\ lastKey \in [Processes -> Keys \cup {None}]
    BY <2>1 DEF Inv, ProcOK
  <2>3. call[c].pc \in Timed \cup {"poll", "release"} /\ call[c].rejected # None
    BY <2>2 DEF CallOK
  <2>4. call'[c] # call[c]
    BY <2>3 DEF Timed, Holding
  <2>5. ASSUME NEW d \in Callers, Runs(d) \/ Fails(d) \/ ApprovalKey(d) \/ Reissue(d)
        PROVE  lastKey'[ProcessOf[c]] # call[c].rejected
    <3>1. d = c
      BY <2>1, <2>2, <2>4, <2>5, OthersStay
    <3>2. CASE PollFinds(c)
      <4>1. lastKey'[ProcessOf[c]] = redis.key /\ redis.key # call[c].rejected
        BY <2>1, <2>2, <3>2, ForcedReturn DEF PollFinds, Suits
      <4> QED
        BY <4>1
    <3>3. CASE Release(c) \/ ReleaseFails(c)
      <4>1. lastKey'[ProcessOf[c]] = call[c].hand /\ call[c].pc = "release"
        BY <2>1, <2>2, <3>3, ForcedReturn DEF Release, ReleaseFails
      <4> QED
        BY <2>2, <4>1 DEF CallOK
    <3>4. ~(PollTimesOut(c) \/ PollFails(c))
      BY <2>1, <2>2, ForcedReturn DEF PollTimesOut, PollFails
    <3>5. ~LockFails(c)
      BY <2>1, <2>2, <2>4, ForcedReturn DEF LockFails
    <3>6. ~(Goto(c, "locked") \/ Goto(c, "check") \/ Goto(c, "invalidate") \/ Goto(c, "issue"))
      BY <2>1, <2>2 DEF Goto, Call
    <3>7. \A key : ~ToRelease(c, key)
      BY <2>1, <2>2 DEF ToRelease, Call
    <3>8. ~(Lock(c) \/ Locked(c))
      BY <2>1, <2>2, <3>6 DEF Lock, Locked, Call
    <3>9. ~(Check(c) \/ Invalidate(c) \/ Publish(c) \/ HolderFails(c) \/ HolderTimesOut(c))
      BY <3>6, <3>7 DEF Check, Invalidate, Publish, HolderFails, HolderTimesOut, HolderReturns
    <3>10. ~Issue(c)
      BY <2>1, <2>2, <3>7 DEF Issue, Call
    <3>11. ~Stall(c)
      BY <2>1, <2>2, <2>3 DEF Stall, Call, Timed, Holding
    <3>12. ~(Read(c) \/ Fallback(c) \/ Wake(c) \/ ReadFails(c) \/ FallbackFails(c)
            \/ ApprovalKey(c) \/ Reissue(c))
      BY <2>3 DEF Read, Fallback, Wake, ReadFails, FallbackFails, ApprovalKey, Reissue,
         Timed, Holding
    <3> QED
      BY <2>5, <3>1, <3>2, <3>3, <3>4, <3>5, <3>8, <3>9, <3>10, <3>11, <3>12
         DEF Runs, Fails
  <2>6. ASSUME NEW p \in Processes, Restart(p)
        PROVE  lastKey'[ProcessOf[c]] # call[c].rejected
    BY <2>1, <2>2, <2>3, <2>4, <2>6 DEF Restart
  <2>7. ~((\E p \in Processes : Lapse(p)) \/ Lands \/ Age)
    BY <2>4 DEF Lapse, Lands, Age
  <2>8. ~Tick
    BY <2>1, <2>2, <2>3 DEF Tick, Call, Timed, Holding
  <2> QED
    BY <2>5, <2>6, <2>7, <2>8 DEF Next, Callers
<1> QED
  BY <1>1, InvAlways, PTL DEF Spec, NeverRejectedAgain
==============================================================================
