----------------------------- MODULE DelayQueue -----------------------------
(***************************************************************************)
(* What timerwheel.Wheel promises the pipeline, without clock and buckets: *)
(* items wait, at some tick some of them are due, and the goroutine sends  *)
(* them as one batch before it looks at the next tick.  When an item is    *)
(* due is not said.  TimerWheel is checked to implement this; Pipeline is  *)
(* built on it.                                                            *)
(***************************************************************************)
CONSTANT Items

VARIABLES waiting,  \* the items in the buckets
          batch,    \* the items the goroutine is sending
          loop,     \* the goroutine: "select", "send", "done"
          closed    \* Drain or Close has been called

vars == <<waiting, batch, loop, closed>>

Init == waiting = {} /\ batch = {} /\ loop = "select" /\ closed = FALSE

(* A closed wheel drops what is inserted. *)
Insert(x) ==
    /\ waiting' = IF closed THEN waiting ELSE waiting \cup {x}
    /\ UNCHANGED <<batch, loop, closed>>

Expire ==
    /\ loop = "select"
    /\ \E due \in (SUBSET waiting) \ {{}} : waiting' = waiting \ due /\ batch' = due
    /\ loop' = "send"
    /\ UNCHANGED closed

Send ==
    /\ loop = "send"
    /\ batch' = {} /\ loop' = "select"
    /\ UNCHANGED <<waiting, closed>>

(* The context is done; a batch not yet sent is discarded. *)
Stop ==
    /\ loop \in {"select", "send"}
    /\ batch' = {} /\ loop' = "done"
    /\ UNCHANGED <<waiting, closed>>

(* The caller of Drain gets all that is waiting; Close drops it. *)
Drain ==
    /\ waiting' = {} /\ closed' = TRUE
    /\ UNCHANGED <<batch, loop>>

Next == Expire \/ Send \/ Stop \/ Drain \/ \E x \in Items : Insert(x)

Spec == Init /\ [][Next]_vars
=============================================================================
