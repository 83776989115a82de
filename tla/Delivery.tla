------------------------------ MODULE Delivery ------------------------------
(***************************************************************************)
(* What a pipeline and its transport promise the application, message by   *)
(* message.  A message that was accepted is open; its handler runs at most *)
(* Limit + 1 times and only while it is open; then there is one reason,    *)
(* which never changes, why it is not run any more; and only with such a   *)
(* reason is it settled, that is, acknowledged to the transport.  That a   *)
(* message does not stay open for ever is not said here: see the liveness  *)
(* properties.  Pipeline and RedisStreams implement this.                  *)
(***************************************************************************)
EXTENDS Integers

CONSTANTS Msgs,
          Limit,       \* the retries a handler has
          Key, NoKey   \* Key[m]: m's idempotency key, or NoKey

VARIABLES status,   \* status[m]: "absent", "open", or the reason it was concluded
          runs,     \* runs[m]: how often m's handler has run
          settled   \* the messages that are acknowledged

vars == <<status, runs, settled>>

Reasons == {"succeeded", "dead", "duplicate", "dropped"}

Init ==
    /\ status = [m \in Msgs |-> "absent"]
    /\ runs = [m \in Msgs |-> 0]
    /\ settled = {}

Accept(m) ==
    /\ status[m] = "absent"
    /\ status' = [status EXCEPT ![m] = "open"]
    /\ UNCHANGED <<runs, settled>>

(* The handler runs: it succeeds, gives the message up, or may run again.   *)
Run(m) ==
    /\ status[m] = "open" /\ runs[m] <= Limit
    /\ runs' = [runs EXCEPT ![m] = @ + 1]
    /\ \E s \in {"open", "succeeded", "dead"} : status' = [status EXCEPT ![m] = s]
    /\ UNCHANGED settled

(* Another message with m's key has been processed.                         *)
Repeats(m) == Key[m] # NoKey /\ \E n \in Msgs : Key[n] = Key[m] /\ status[n] = "succeeded"

(* The message is not run (again): it is dead-lettered, repeats another, or *)
(* is dropped by an error; its acknowledgement may be part of the step.     *)
Conclude(m, why) ==
    /\ status[m] = "open" /\ (why = "duplicate" => Repeats(m))
    /\ status' = [status EXCEPT ![m] = why]
    /\ settled' \in {settled, settled \cup {m}}
    /\ UNCHANGED runs

Settle(ms) ==
    /\ \A m \in ms : status[m] \in Reasons
    /\ settled' = settled \cup ms
    /\ UNCHANGED <<status, runs>>

Next ==
    \/ \E ms \in SUBSET Msgs : Settle(ms)
    \/ \E m \in Msgs : Accept(m) \/ Run(m)
    \/ \E m \in Msgs, why \in Reasons \ {"succeeded"} : Conclude(m, why)

Spec == Init /\ [][Next]_vars
=============================================================================
