----------------------------- MODULE ExecMachine -----------------------------
(***************************************************************************)
(* The executor's pure state machine (internal/exec: intent.go, machine.go,*)
(* exposure.go): what an intent allows, the State one intent is worked     *)
(* with, E1's cap arithmetic, the transition of every journal record       *)
(* (Apply) and the choice of the next step (decide).                       *)
(*                                                                         *)
(* A child's key is the number n of the source's "<intent>:<n>"; key 0 is  *)
(* the empty key.  FillNotional and InFlightStatus are left out: they are  *)
(* reported, and no transition or decision reads them.                     *)
(***************************************************************************)
EXTENDS KrxTick, Sequences, FiniteSets, FiniteSetsExt

CONSTANTS
    SendEnabled,            \* Config.SendEnabled
    RequireLedgerComplete,  \* Config.RequireLedgerComplete (the live runner)
    StepEvery,              \* Config.StepEvery, in clock units
    StaleAfter,             \* Config.StaleAfter
    Silence                 \* the 30 s of book silence decide tolerates

ASSUME ConfigAssumption ==
    /\ SendEnabled \in BOOLEAN
    /\ RequireLedgerComplete \in BOOLEAN
    /\ StepEvery \in Nat
    /\ StaleAfter \in Nat
    /\ Silence \in Nat

-----------------------------------------------------------------------------
\* The intent.

\* worse(a, b): price a is worse than b for the intent's side.
Worse(in, a, b) == IF in.side = Buy THEN a > b ELSE a < b

\* Mutant: the limit is moved onto the grid against the side's favour.
CapAgainstSide(in) ==
    IF in.side = Buy THEN CeilTick(in.limitPrice) ELSE FloorTick(in.limitPrice)
Cap(in) == IF in.side = Buy THEN FloorTick(in.limitPrice) ELSE CeilTick(in.limitPrice)

\* What the inventory range leaves for the side, of both TargetQty and e1Room.
InventoryRoom(in) ==
    IF in.side = Buy THEN in.maxAfter - in.position ELSE in.position - in.minAfter

TargetQty(in) ==
    LET byNotional == IF Cap(in) > 0 THEN Smaller(in.maxQuantity, in.maxNotional \div Cap(in))
                                     ELSE in.maxQuantity
    IN  Larger(Smaller(byNotional, InventoryRoom(in)), 0)

\* Validate, as far as it constrains numbers: the identity fields are opaque.
Validate(in) ==
    /\ in.side \in Sides
    /\ in.maxQuantity >= 1 /\ in.maxQuantity <= 1000000
    /\ in.maxNotional >= 1 /\ in.maxNotional <= 5000000
    /\ in.limitPrice >= 1 /\ in.limitPrice <= 10000000
    /\ \A v \in {in.position, in.minAfter, in.maxAfter} : v >= 0 /\ v <= 1000000000
    /\ in.minAfter <= in.maxAfter
    /\ Cap(in) >= 1
    /\ TargetQty(in) >= 1

-----------------------------------------------------------------------------
\* The state of one intent.

NoIntent == [side |-> "none", maxQuantity |-> 0, maxNotional |-> 0, limitPrice |-> 0,
             position |-> 0, minAfter |-> 0, maxAfter |-> 0, expiresAt |-> 0]
NoOrder == [key |-> 0, price |-> 0, qty |-> 0]
NoChild == [key |-> 0, action |-> "none", target |-> 0, qty |-> 0, price |-> 0]

\* Finish reasons, and the reasons of the sends that open and step an order.
FinishReasons == {"filled", "cap", "deadline", "killed", "refused", "stale_book", "e1_caps"}
Reasons == FinishReasons \cup {"open", "step"}

IntentRecord == [side : Sides \cup {"none"}, maxQuantity : Nat, maxNotional : Nat,
                 limitPrice : Nat, position : Nat, minAfter : Nat, maxAfter : Nat,
                 expiresAt : Nat]
Order == [key : Nat, price : Nat, qty : Nat]
Child == [key : Nat, action : {"none", "submit", "amend", "cancel"}, target : Nat,
          qty : Nat, price : Nat]
State == [intent : IntentRecord, cap : Nat, target : Nat, filled : Nat, fills : SUBSET Nat,
          brokerFilled : Nat, sent : Seq(Child), order : Order, inFlight : Child,
          inFlightReason : Reasons \cup {""}, lastMove : Nat,
          halt : Reasons \cup {""}, done : Reasons \cup {""}]
Top == [bid : Nat, ask : Nat, at : Nat, synced : BOOLEAN]

\* The State of a new intent, and of an empty journal.
NewState(in, cap, target) ==
    [intent |-> in, cap |-> cap, target |-> target, filled |-> 0, fills |-> {},
     brokerFilled |-> 0, sent |-> <<>>, order |-> NoOrder, inFlight |-> NoChild,
     inFlightReason |-> "", lastMove |-> 0, halt |-> "", done |-> ""]
Fresh == NewState(NoIntent, 0, 0)

Started(s) == s.intent # NoIntent
HasOrder(s) == s.order # NoOrder
Unresolved(s) == s.inFlight # NoChild
\* Mutant: what the broker reports does not hold back sends.
RemainingByLedger(s) == s.target - s.filled
Remaining(s) == s.target - Larger(s.filled, s.brokerFilled)

SentKeys(s) == {s.sent[i].key : i \in DOMAIN s.sent}
Opening(c) == c.action \in {"submit", "amend"}

-----------------------------------------------------------------------------
\* E1's caps, counted over everything the intent ever sent.

\* sentKey, among the first n children: whether key k was sent, and where first.
SentAmong(s, k, n) == \E i \in 1 .. n : s.sent[i].key = k
FirstSent(s, k, n) == Min({i \in 1 .. n : s.sent[i].key = k})

\* rootOf: target keys lead from a child back to the submit of its lineage; a
\* key this intent never sent is its own root.
Roots(s) ==
    LET root[i \in 1 .. Len(s.sent)] ==
            LET t == s.sent[i].target IN
            IF t = 0 THEN s.sent[i].key
            ELSE IF SentAmong(s, t, i - 1) THEN root[FirstSent(s, t, i - 1)]
            ELSE t
    IN  root

RootOf(s, key) ==
    IF SentAmong(s, key, Len(s.sent)) THEN Roots(s)[FirstSent(s, key, Len(s.sent))] ELSE key

\* Mutant: only the working order's lineage counts; a cancel or a lost request
\* frees its quantity.
CountedWorking(s) ==
    {[root |-> RootOf(s, s.sent[i].key), qty |-> s.sent[i].qty,
      notional |-> s.sent[i].qty * s.sent[i].price] :
        i \in {j \in DOMAIN s.sent :
                 /\ Opening(s.sent[j])
                 /\ RootOf(s, s.sent[j].key) = RootOf(s, s.order.key)}}

\* e1Exposure: the children that count (every submit and amend ever sent,
\* whatever became of it), each with the root of its lineage.
Counted(s) ==
    {[root |-> RootOf(s, s.sent[i].key), qty |-> s.sent[i].qty,
      notional |-> s.sent[i].qty * s.sent[i].price] :
        i \in {j \in DOMAIN s.sent : Opening(s.sent[j])}}

Lineages(counted) == {c.root : c \in counted}

\* A lineage counts at its high-water quantity and its high-water notional.
HighQty(counted, r) == Max({c.qty : c \in {d \in counted : d.root = r}})
HighNotional(counted, r) == Max({c.notional : c \in {d \in counted : d.root = r}})

TotalQty(counted, roots) ==
    SumFunctionOnSet([r \in roots |-> HighQty(counted, r)], roots)
TotalNotional(counted, roots) ==
    SumFunctionOnSet([r \in roots |-> HighNotional(counted, r)], roots)

\* e1Room: what a child of the lineage rooted at root may still carry.
E1RoomQty(s, root) ==
    LET counted == Counted(s) IN
    Larger(Smaller(s.intent.maxQuantity, InventoryRoom(s.intent))
               - TotalQty(counted, Lineages(counted) \ {root}), 0)

E1RoomNotional(s, root) ==
    LET counted == Counted(s) IN
    Larger(s.intent.maxNotional - TotalNotional(counted, Lineages(counted) \ {root}), 0)

\* E1CapsRefusal: why E1 would refuse submit or amend c, "" if it fits.
E1CapsRefusal(s, c) ==
    LET root == IF c.action = "amend" THEN RootOf(s, c.target) ELSE c.key
        counted == Counted(s) \cup
                     {[root |-> root, qty |-> c.qty, notional |-> c.qty * c.price]}
        qty == TotalQty(counted, Lineages(counted))
        notional == TotalNotional(counted, Lineages(counted))
        pos == IF s.intent.side = Sell THEN s.intent.position - qty
                                       ELSE s.intent.position + qty
    IN  IF qty > s.intent.maxQuantity THEN "quantity_cap_exceeded"
        ELSE IF notional > s.intent.maxNotional THEN "notional_cap_exceeded"
        ELSE IF pos < s.intent.minAfter \/ pos > s.intent.maxAfter
             THEN "inventory_constraint_exceeded"
        ELSE ""

-----------------------------------------------------------------------------
\* Apply, one pair of operators per record kind: whether the record applies,
\* and the state after it.

StartApplies(s, in) == ~Started(s) /\ Validate(in)
AfterStart(in) == NewState(in, Cap(in), TargetQty(in))

SendApplies(s, c) ==
    /\ Started(s)
    /\ s.done = "" /\ ~Unresolved(s)
    /\ c.key # 0 /\ c.key \notin SentKeys(s)
    /\ c.action \in {"submit", "amend", "cancel"}
    /\ Opening(c) => /\ s.halt = ""
                     /\ c.qty \in 1 .. Remaining(s)
                     /\ c.price \in Nat \ {0} /\ ~Worse(s.intent, c.price, s.cap)
                     /\ (c.action = "submit") <=> ~HasOrder(s)
    /\ c.action # "submit" => HasOrder(s) /\ c.target = s.order.key

\* Mutant: a cancel is not remembered as sent.
AfterSendForgetsCancel(s, c, reason, at) ==
    [s EXCEPT !.lastMove = IF Opening(c) THEN at ELSE @,
              !.sent = IF Opening(c) THEN Append(@, c) ELSE @,
              !.inFlight = c,
              !.inFlightReason = reason]

AfterSend(s, c, reason, at) ==
    [s EXCEPT !.lastMove = IF Opening(c) THEN at ELSE @,
              !.sent = Append(@, c),
              !.inFlight = c,
              !.inFlightReason = reason]

\* resolveCancel: the cancel's reason ends the intent, or halts it where the
\* record defers finishing.
ResolveCancel(s, defer) ==
    IF defer THEN [s EXCEPT !.halt = s.inFlightReason]
             ELSE [s EXCEPT !.done = s.inFlightReason]

Resolved(s) == [s EXCEPT !.inFlight = NoChild, !.inFlightReason = ""]

\* send gives the outcome the child's own key, so it always matches.
OutcomeApplies(s) == Started(s) /\ Unresolved(s)

\* Uncertain, conflict, a refused cancel, an unknown status: still unresolved.
Definite(c, status) ==
    status = "accepted" \/ (status = "refused" /\ c.action # "cancel")

\* Mutant: an uncertain answer is taken for a request that did not arrive.
AfterOutcomeAssumesLost(s, status, defer) ==
    IF status = "accepted" /\ s.inFlight.action # "cancel"
    THEN Resolved([s EXCEPT !.order = [key |-> s.inFlight.key, price |-> s.inFlight.price,
                                       qty |-> s.inFlight.qty]])
    ELSE Resolved(s)

AfterOutcome(s, status, defer) ==
    LET c == s.inFlight IN
    CASE ~Definite(c, status) -> s
      [] status = "accepted" /\ c.action = "cancel" ->
            Resolved(ResolveCancel([s EXCEPT !.order = NoOrder], defer))
      [] status = "accepted" /\ c.action # "cancel" ->
            Resolved([s EXCEPT !.order = [key |-> c.key, price |-> c.price, qty |-> c.qty]])
      [] status = "refused" /\ c.action # "cancel" ->
            Resolved([s EXCEPT !.halt = "refused"])

\* v is [order, filled].
ReconcileApplies(s, v) ==
    /\ Started(s)
    /\ v.order # NoOrder => /\ v.order.key \in SentKeys(s)
                            /\ ~Worse(s.intent, v.order.price, s.cap)

\* Mutant: any reconcile of a cancel ends the intent.
AfterReconcileEnds(s, v, defer) ==
    LET n == [s EXCEPT !.order = v.order, !.brokerFilled = Larger(@, v.filled)]
    IN  IF s.inFlight.action = "cancel" THEN Resolved(ResolveCancel(n, defer)) ELSE Resolved(n)

AfterReconcile(s, v, defer) ==
    LET n == [s EXCEPT !.order = v.order, !.brokerFilled = Larger(@, v.filled)]
    IN  IF s.inFlight.action = "cancel" /\ v.order = NoOrder
        THEN Resolved(ResolveCancel(n, defer))
        ELSE Resolved(n)

\* Mutant: a repeated fill id is counted again.
FillAppliesAgain(s, f) ==
    Started(s) /\ f.qty >= 1 /\ f.price >= 1 /\ f.key \in SentKeys(s)

\* f is [id, key, qty, price].
FillApplies(s, f) ==
    /\ Started(s)
    /\ f.qty >= 1 /\ f.price >= 1
    /\ f.id \notin s.fills
    /\ f.key \in SentKeys(s)

\* A fill is recorded whole, even past the target or after the finish.
AfterFill(s, f) == [s EXCEPT !.fills = @ \cup {f.id}, !.filled = @ + f.qty]

FinishApplies(s, reason) ==
    Started(s) /\ s.done = "" /\ ~Unresolved(s) /\ reason # "" /\ ~HasOrder(s)
AfterFinish(s, reason) == [s EXCEPT !.done = reason]

-----------------------------------------------------------------------------
\* decide.

NoTop == [bid |-> 0, ask |-> 0, at |-> 0, synced |-> FALSE]

Nothing == [kind |-> "none", child |-> NoChild, reason |-> ""]
Query == [kind |-> "query", child |-> NoChild, reason |-> ""]
Finish(reason) == [kind |-> "finish", child |-> NoChild, reason |-> reason]

\* A send takes the next unused number as its key; all but a submit name the
\* working order as their target.
Send(s, action, qty, price, reason) ==
    [kind |-> "send", reason |-> reason,
     child |-> [key |-> Len(s.sent) + 1, action |-> action,
                target |-> IF action = "submit" THEN 0 ELSE s.order.key,
                qty |-> qty, price |-> price]]
CancelOrder(s, reason) == Send(s, "cancel", 0, 0, reason)

\* A future stamp cannot postpone the stop; without a synced book silence
\* counts from the last order move.
BookSilentSince(s, top, now) ==
    IF top.synced /\ top.at > 0 /\ top.at <= now THEN top.at ELSE s.lastMove

\* Mutant: an intent past its expiry goes on working.
ClosingWithoutDeadline(s, top, now, killed) ==
    IF s.filled >= s.target THEN "filled"
    ELSE IF killed THEN "killed"
    ELSE IF HasOrder(s) /\ BookSilentSince(s, top, now) < now - Silence THEN "stale_book"
    ELSE s.halt

\* Why the order must be closed, "" if it may go on working.
Closing(s, top, now, killed) ==
    IF s.filled >= s.target THEN "filled"
    ELSE IF killed THEN "killed"
    ELSE IF now >= s.intent.expiresAt THEN "deadline"
    ELSE IF HasOrder(s) /\ BookSilentSince(s, top, now) < now - Silence THEN "stale_book"
    ELSE s.halt

BookUsable(top, now) ==
    /\ top.synced
    /\ top.at <= now /\ now - top.at <= StaleAfter
    /\ top.bid >= 1 /\ top.ask >= 1

\* What an amend may carry and how far its price may go.
AmendQty(s) ==
    LET q == IF s.order.qty > 0 THEN Smaller(Remaining(s), s.order.qty) ELSE Remaining(s)
    IN  Smaller(q, E1RoomQty(s, RootOf(s, s.order.key)))

\* Mutant: the notional room is not moved onto the tick grid.
AmendCapOffGrid(s) ==
    IF s.intent.side = Buy /\ AmendQty(s) > 0
    THEN Smaller(s.cap, E1RoomNotional(s, RootOf(s, s.order.key)) \div AmendQty(s))
    ELSE s.cap

AmendCap(s) ==
    IF s.intent.side = Buy /\ AmendQty(s) > 0
    THEN Smaller(s.cap, FloorTick(E1RoomNotional(s, RootOf(s, s.order.key)) \div AmendQty(s)))
    ELSE s.cap

DecideStep(s, top, now) ==
    LET q == AmendQty(s)
        step == Send(s, "amend", q, StepToward(s.intent.side, s.order.price, AmendCap(s)), "step")
    IN  IF now - s.lastMove < StepEvery THEN Nothing
        ELSE IF q < 1 \/ ~Worse(s.intent, AmendCap(s), s.order.price) THEN CancelOrder(s, "cap")
        ELSE IF E1CapsRefusal(s, step.child) # "" THEN CancelOrder(s, "e1_caps")
        ELSE IF ~BookUsable(top, now) THEN Nothing
        ELSE step

\* Mutant: a new order is sized to what remains, whatever E1's room.
FitQtyIgnoresRoom(s, p) == Remaining(s)

\* fitNewOrder: a buy keeps its price and loses quantity; a sell first gives up
\* price, down to the cap, then quantity.
FitQty(s, p) ==
    LET room == E1RoomNotional(s, 0)
        q == Smaller(Remaining(s), E1RoomQty(s, 0))
    IN  CASE q < 1 -> 0
          [] q >= 1 /\ s.intent.side = Buy -> Smaller(q, room \div p)
          [] q >= 1 /\ s.intent.side # Buy ->
                IF q * s.cap > room THEN room \div s.cap ELSE q

FitPrice(s, p) ==
    IF s.intent.side = Buy \/ FitQty(s, p) < 1 THEN p
    ELSE Smaller(p, FloorTick(E1RoomNotional(s, 0) \div FitQty(s, p)))

DecideOpen(s, top, now) ==
    LET touch == IF s.intent.side = Sell THEN top.ask ELSE top.bid
        p == IF Worse(s.intent, touch, s.cap) THEN s.cap ELSE touch
    IN  IF ~BookUsable(top, now) THEN Nothing
        ELSE IF FitQty(s, p) < 1 THEN Finish("e1_caps")
        ELSE Send(s, "submit", FitQty(s, p), FitPrice(s, p), "open")

Decide(s, top, now, killed) ==
    LET closing == Closing(s, top, now, killed) IN
    IF ~Started(s) \/ s.done # "" THEN Nothing
    ELSE IF Unresolved(s) THEN Query
    ELSE IF s.filled >= s.target /\ ~HasOrder(s) THEN Finish("filled")
    ELSE IF ~SendEnabled THEN Nothing
    ELSE IF closing # "" THEN (IF HasOrder(s) THEN CancelOrder(s, closing) ELSE Finish(closing))
    ELSE IF Remaining(s) < 1 THEN Nothing
    ELSE IF HasOrder(s) THEN DecideStep(s, top, now) ELSE DecideOpen(s, top, now)

-----------------------------------------------------------------------------
\* Invariants of the state a journal replays to.

WithinLimit(in, price) ==
    IF in.side = Buy THEN price <= in.limitPrice ELSE price >= in.limitPrice

\* What the journal's records amount to: keys are numbered in order, the
\* unresolved child is the last one sent and fits the working order.
JournalOK(s) ==
    /\ ~Started(s) => s = Fresh
    /\ \A i \in DOMAIN s.sent : s.sent[i].key = i
    /\ HasOrder(s) => s.order.key >= 1
    /\ s.done # "" => ~Unresolved(s) /\ ~HasOrder(s)
    /\ Unresolved(s) =>
        /\ Len(s.sent) >= 1 /\ s.inFlight = s.sent[Len(s.sent)]
        /\ s.inFlightReason # ""
        /\ s.inFlight.action \in {"submit", "amend", "cancel"}
        /\ IF s.inFlight.action = "submit" THEN ~HasOrder(s)
           ELSE HasOrder(s) /\ s.inFlight.target = s.order.key

\* No price beyond the cap was ever journaled, and the cap respects the limit.
PricesOK(s) ==
    /\ Started(s) => s.intent.side \in Sides /\ WithinLimit(s.intent, s.cap)
    /\ \A i \in DOMAIN s.sent : Opening(s.sent[i]) => ~Worse(s.intent, s.sent[i].price, s.cap)
==============================================================================
