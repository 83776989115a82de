------------------------------- MODULE MCSQS -------------------------------
(* Instances of SQS for TLC. *)
EXTENDS SQS

CONSTANT k

(* Every message carries the same idempotency key. *)
SharedKey == [m \in Msgs |-> k]
NoKeys == [m \in Msgs |-> NoKey]

Result(action, delay) == [action |-> action, delay |-> delay]
AnyVerdict == {Result("Ack", 0), Result("Retry", 0), Result("RetryWithDelay", 1), Result("DLQ", 0)}
AlwaysRetry == {Result("Retry", 0)}
=============================================================================
