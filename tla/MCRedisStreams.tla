--------------------------- MODULE MCRedisStreams ---------------------------
(* Instances of RedisStreams for TLC. *)
EXTENDS RedisStreams

Result(action, delay) == [action |-> action, delay |-> delay]
AnyVerdict == {Result("Ack", 0), Result("Retry", 0), Result("RetryWithDelay", 0),
               Result("RetryWithDelay", 1), Result("DLQ", 0)}
AlwaysLater == {Result("RetryWithDelay", 1)}
=============================================================================
