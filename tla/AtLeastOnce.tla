----------------------------- MODULE AtLeastOnce ------------------------------
(***************************************************************************)
(* What the stream, the consumer group and the ledger sink promise         *)
(* together, without processes, batches, answers or cursors: records are   *)
(* delivered in the order they were appended, each is delivered before     *)
(* anything is known of it, and a fill is acknowledged only after the      *)
(* store holds it.  The one way to lose a record is that the oldest ones   *)
(* are trimmed beyond a length.  FillDelivery implements this              *)
(* specification.                                                          *)
(***************************************************************************)
EXTENDS Integers, Sequences

CONSTANTS
    Records, Fills,   \* all records, and those that have to be stored
    MaxLen            \* the length the stream keeps at least

VARIABLES
    appended,   \* the records appended, oldest first
    oldest,     \* the first that is not trimmed
    head,       \* the last one that was delivered
    unacked,    \* those delivered and not acknowledged
    store       \* the records stored

vars == <<appended, oldest, head, unacked, store>>

Init == appended = <<>> /\ oldest = 1 /\ head = 0 /\ unacked = {} /\ store = {}

\* One record more; the oldest may go, as long as MaxLen of them stay.
Add ==
    /\ \E r \in Records : appended' = Append(appended, r)
    /\ oldest' \in oldest .. Len(appended) + 1
    /\ oldest' = oldest \/ Len(appended') - oldest' + 1 >= MaxLen
    /\ UNCHANGED <<head, unacked, store>>

\* The next records are delivered, none of those retained is left out.
Take ==
    /\ head' \in head + 1 .. Len(appended)
    /\ unacked' = unacked \cup {i \in head + 1 .. head' : i >= oldest}
    /\ UNCHANGED <<appended, oldest, store>>

\* Fills that are delivered, and not acknowledged, are stored.
Store ==
    /\ \E taken \in SUBSET {i \in unacked : appended[i] \in Fills} :
        store' = store \cup {appended[i] : i \in taken}
    /\ UNCHANGED <<appended, oldest, head, unacked>>

\* Records are acknowledged: the fills among them are stored.
Acknowledge ==
    /\ unacked' \in SUBSET unacked
    /\ \A i \in unacked \ unacked' : appended[i] \in Fills => appended[i] \in store
    /\ UNCHANGED <<appended, oldest, head, store>>

\* Records that were trimmed while they were delivered are given up.
GiveUp ==
    /\ unacked' \in SUBSET unacked
    /\ \A i \in unacked \ unacked' : i < oldest
    /\ UNCHANGED <<appended, oldest, head, store>>

Next == Add \/ Take \/ Store \/ Acknowledge \/ GiveUp

Spec == Init /\ [][Next]_vars
==============================================================================
