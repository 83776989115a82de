----------------------------- MODULE TimerWheel -----------------------------
(***************************************************************************)
(* timerwheel.Wheel (internal/timerwheel/wheel.go): items wait in buckets  *)
(* keyed by the second of their target time; a goroutine woken by a        *)
(* one-second ticker moves the items that are due to its output.           *)
(*                                                                         *)
(* Time has a resolution finer than a second, so that targets fall between *)
(* ticks.  A tick carries the time at which the ticker fired; the          *)
(* goroutine may act on it later, and then reads the clock again.          *)
(***************************************************************************)
EXTENDS Integers

CONSTANTS Items,    \* what is inserted, each once
          Delays,   \* the delays asked for
          Second,   \* units of time in a second (tickInterval)
          MaxTime   \* bound: no target lies beyond it and the clock stops there,
                    \* but the ticker goes on

ASSUME WheelAssumption ==
    /\ Second \in Nat \ {0} /\ MaxTime \in Nat
    /\ Delays \subseteq Nat

NoTick == -1

VARIABLES now,       \* time.Now()
          fired,     \* when the ticker last fired
          tickC,     \* ticker.C: an undelivered tick, or NoTick
          tick,      \* the tick the goroutine is working on
          slots,     \* the slots of all buckets: [item, target]
          closed,    \* w.closed
          loop,      \* the goroutine of Start: "select", "expire", "send", "done"
          batch,     \* the items it is sending
          cancelled, \* the context given to Start is done
          asked,     \* asked[x]: x's target time, NoTick before Insert
          sent       \* sent[x]: when x was sent, NoTick before

vars == <<now, fired, tickC, tick, slots, closed, loop, batch, cancelled, asked, sent>>
clock == <<now, fired, tickC>>
ghosts == <<asked, sent>>

(* time.Time.Unix: the second a time falls in, which is its bucket.         *)
Unix(t) == t \div Second

(* Start creates the ticker at some moment of a second: its ticks have that *)
(* phase, while buckets begin at whole seconds.                             *)
Init ==
    /\ now \in 0..(Second - 1) /\ fired = now
    /\ tickC = NoTick /\ tick = NoTick
    /\ slots = {} /\ closed = FALSE
    /\ loop = "select" /\ batch = {}
    /\ cancelled = FALSE
    /\ asked = [x \in Items |-> NoTick] /\ sent = [x \in Items |-> NoTick]

-----------------------------------------------------------------------------
(* The clock moves on, but not past a moment at which the ticker is due.    *)
Advance ==
    /\ now < MaxTime /\ now < fired + Second
    /\ now' = now + 1
    /\ UNCHANGED <<fired, tickC, tick, slots, closed, loop, batch, cancelled, ghosts>>

(* time.Ticker: its channel holds one tick, further ones are dropped.       *)
Fire ==
    /\ now = fired + Second \/ now = MaxTime
    /\ fired' = now
    /\ tickC' = IF tickC = NoTick THEN now ELSE tickC
    /\ UNCHANGED <<now, tick, slots, closed, loop, batch, cancelled, ghosts>>

Insert(x, delay) ==
    /\ asked[x] = NoTick /\ now + delay <= MaxTime
    /\ asked' = [asked EXCEPT ![x] = now + delay]
    /\ slots' = IF closed THEN slots ELSE slots \cup {[item |-> x, target |-> now + delay]}
    /\ UNCHANGED <<clock, tick, closed, loop, batch, cancelled, sent>>

Receive ==
    /\ loop = "select" /\ tickC # NoTick
    /\ tick' = tickC
    /\ tickC' = NoTick
    /\ loop' = "expire"
    /\ UNCHANGED <<now, fired, slots, closed, batch, cancelled, ghosts>>

(* Mutants: the clock is not consulted; only the tick's own bucket is read. *)
DueByBucket == {s \in slots : Unix(s.target) <= Unix(tick)}
DueInThisSecond == {s \in slots : Unix(s.target) = Unix(tick) /\ s.target <= now}

(* The slots of buckets up to the tick whose target the clock has reached.  *)
Due == {s \in slots : Unix(s.target) <= Unix(tick) /\ s.target <= now}

(* Mutant: the slots that are kept are deleted with their bucket.           *)
KeepNone == {s \in slots : Unix(s.target) > Unix(tick)}

(* What expire leaves in the buckets.                                       *)
Keep == slots \ Due

Expire ==
    /\ loop = "expire"
    /\ slots' = Keep
    /\ batch' = {s.item : s \in Due}
    /\ loop' = IF Due = {} THEN "select" ELSE "send"
    /\ tick' = NoTick
    /\ UNCHANGED <<clock, closed, cancelled, ghosts>>

Send ==
    /\ loop = "send"
    /\ sent' = [x \in Items |-> IF x \in batch THEN now ELSE sent[x]]
    /\ batch' = {}
    /\ loop' = "select"
    /\ UNCHANGED <<clock, tick, slots, closed, cancelled, asked>>

(* ctx.Done wins one of the two selects; a batch being sent is discarded.   *)
Stop ==
    /\ loop \in {"select", "send"} /\ cancelled
    /\ batch' = {}
    /\ loop' = "done"
    /\ UNCHANGED <<clock, tick, slots, closed, cancelled, ghosts>>

(* Drain hands the waiting items to its caller, Close just drops them; both *)
(* empty the wheel for good.                                                *)
Drain ==
    /\ closed' = TRUE
    /\ slots' = {}
    /\ UNCHANGED <<clock, tick, loop, batch, cancelled, ghosts>>

Cancel ==
    /\ cancelled' = TRUE
    /\ UNCHANGED <<clock, tick, slots, closed, loop, batch, ghosts>>

-----------------------------------------------------------------------------
Loop == Receive \/ Expire \/ Send \/ Stop

Next ==
    \/ Advance \/ Fire \/ Loop \/ Drain \/ Cancel
    \/ \E x \in Items, delay \in Delays : Insert(x, delay)

Spec == Init /\ [][Next]_vars

(* Time passes, the ticker fires, and the goroutine is scheduled.           *)
FairSpec == Spec /\ WF_vars(Advance) /\ WF_vars(Fire) /\ WF_vars(Loop)

-----------------------------------------------------------------------------
(* Buckets hold slots, the batch sent to the pipeline holds the items.      *)
TypeOK ==
    /\ now \in Nat /\ fired \in Nat
    /\ tickC \in Nat \cup {NoTick} /\ tick \in Nat \cup {NoTick}
    /\ slots \subseteq [item : Items, target : Int] /\ closed \in BOOLEAN
    /\ loop \in {"select", "expire", "send", "done"} /\ batch \subseteq Items
    /\ cancelled \in BOOLEAN
    /\ asked \in [Items -> Int] /\ sent \in [Items -> Int]

(* No item leaves the wheel before its target, though bucket and tick are   *)
(* both rounded down to the second.                                         *)
NeverEarly ==
    \A x \in Items :
        /\ x \in batch => asked[x] <= now
        /\ sent[x] # NoTick => asked[x] <= sent[x]

(* The wheel is the queue of delayed items the pipeline takes it for: expire *)
(* neither loses nor repeats an item, whatever Insert, Drain, cancellation   *)
(* and late ticks do meanwhile.                                              *)
Queue == INSTANCE DelayQueue WITH
            waiting <- {s.item : s \in slots},
            loop <- IF loop = "expire" THEN "select" ELSE loop
ImplementsDelayQueue == Queue!Spec

(* A delayed item comes out while the wheel runs, however ticks are delayed *)
(* or dropped.                                                              *)
EventuallyFires ==
    \A x \in Items : asked[x] # NoTick ~> (sent[x] # NoTick \/ closed \/ cancelled)
=============================================================================
