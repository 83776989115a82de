---------------------------- MODULE MCRetryLoop ----------------------------
(* The instance of RetryLoop for TLC. *)
EXTENDS RetryLoop

(* Delays a handler may return: negative and zero leave it to the policy. *)
SomeDelays == {-1, 0, 4}
=============================================================================
