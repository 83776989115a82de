----------------------------- MODULE MCPipeline -----------------------------
(* Instances of Pipeline for TLC. *)
EXTENDS Pipeline, TLC

CONSTANTS m1, m2, m3, k

(* m1 and m2 carry the same idempotency key. *)
SharedKey == [m \in Msgs |-> IF m \in {m1, m2} THEN k ELSE NoKey]
NoKeys == [m \in Msgs |-> NoKey]

(* The workers are interchangeable. *)
WorkerSymmetry == Permutations(Workers)

Result(action) == [action |-> action, delay |-> 0]
AnyVerdict == {Result("Ack"), Result("Retry"), Result("RetryWithDelay"), Result("DLQ")}
(* DLQ is then what the coordinator makes of an exhausted retry. *)
AckOrRetry == AnyVerdict \ {Result("DLQ")}
AlwaysRetry == {Result("Retry")}
=============================================================================
