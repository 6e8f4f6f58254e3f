---------------------------- MODULE MCApprovalLock ----------------------------
(* One process: its stream and its refresher contend.  A token is used up    *)
(* only while a lock or a command still carries it, so few are enough.       *)
EXTENDS ApprovalLock

Process == [c \in Callers |-> "p1"]
TokenIds == Callers \X (1 .. 3)
KeyIds == {<<k>> : k \in 1 .. 6}
==============================================================================
