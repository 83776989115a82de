------------------------------ MODULE MCPubSub ------------------------------
(* Instances of PubSub for TLC. *)
EXTENDS PubSub

CONSTANT k

(* Every message carries the same idempotency key. *)
SharedKey == [m \in Msgs |-> k]
=============================================================================
