-------------------------- MODULE MCRefundAttempts --------------------------
(* Small instances of RefundAttempts for TLC. *)
EXTENDS RefundAttempts, TLC

CONSTANTS c1, c2, k1

\* One client sends a key, the other none.
OneKey == [c \in Clients |-> IF c = c1 THEN k1 ELSE NoKey]

\* Both send the same one.
SameKey == [c \in Clients |-> k1]
=============================================================================
