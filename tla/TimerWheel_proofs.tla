-------------------------- MODULE TimerWheel_proofs --------------------------
(***************************************************************************)
(* For any items, delays, length of a second and interleaving of clock,    *)
(* ticker, inserts and the wheel's goroutine: no item leaves the wheel     *)
(* before its target, and the wheel implements DelayQueue.                 *)
(***************************************************************************)
EXTENDS TimerWheel, TLAPS

(* A slot waits for the time its item was inserted with.  An item is        *)
(* inserted once, so this also says that no item has two slots.             *)
SlotsAsAsked == \A s \in slots : s.target = asked[s.item] /\ s.target # NoTick

(* What has left the buckets had been inserted: an item not yet asked for   *)
(* is neither in the batch nor sent.                                        *)
LeftWasAsked ==
    \A x \in Items : x \in batch \/ sent[x] # NoTick => asked[x] # NoTick

(* There is a batch only while the goroutine is sending one.                *)
BatchOnlyInSend == loop # "send" => batch = {}

IInv == TypeOK /\ SlotsAsAsked /\ LeftWasAsked /\ BatchOnlyInSend /\ NeverEarly

(* The type invariant.                                                      *)
LEMMA TypeStep ==
    ASSUME TypeOK, Next
    PROVE  TypeOK'
<1> USE WheelAssumption DEF TypeOK, NoTick
<1>1. CASE Advance
    BY <1>1 DEF Advance, ghosts
<1>2. CASE Fire
    BY <1>2 DEF Fire, ghosts
<1>3. CASE Receive
    BY <1>3 DEF Receive, ghosts
<1>4. CASE Expire
    BY <1>4 DEF Expire, Keep, Due, clock, ghosts
<1>5. CASE Send
    BY <1>5 DEF Send, clock
<1>6. CASE Stop
    BY <1>6 DEF Stop, clock, ghosts
<1>7. CASE Drain
    BY <1>7 DEF Drain, clock, ghosts
<1>8. CASE Cancel
    BY <1>8 DEF Cancel, clock, ghosts
<1>9. ASSUME NEW x \in Items, NEW delay \in Delays, Insert(x, delay) PROVE TypeOK'
  <2>1. now + delay \in Int
      OBVIOUS
  <2> QED BY <1>9, <2>1 DEF Insert, clock
<1> QED BY <1>1, <1>2, <1>3, <1>4, <1>5, <1>6, <1>7, <1>8, <1>9 DEF Next, Loop

(* One step keeps what slots, batch and what was asked for and sent say of  *)
(* each other.                                                              *)
LEMMA WheelStep ==
    ASSUME IInv, Next
    PROVE  SlotsAsAsked' /\ LeftWasAsked' /\ BatchOnlyInSend' /\ NeverEarly'
<1> USE WheelAssumption DEF IInv, TypeOK, SlotsAsAsked, LeftWasAsked, BatchOnlyInSend,
                            NeverEarly, NoTick
<1>1. CASE Advance
    BY <1>1 DEF Advance, ghosts
<1>2. CASE Fire
    BY <1>2 DEF Fire, ghosts
<1>3. CASE Receive
    BY <1>3 DEF Receive, ghosts
<1>4. CASE Expire
    BY <1>4 DEF Expire, Keep, Due, clock, ghosts
<1>5. CASE Send
    BY <1>5 DEF Send, clock
<1>6. CASE Stop
    BY <1>6 DEF Stop, clock, ghosts
<1>7. CASE Drain
    BY <1>7 DEF Drain, clock, ghosts
<1>8. CASE Cancel
    BY <1>8 DEF Cancel, clock, ghosts
<1>9. ASSUME NEW x \in Items, NEW delay \in Delays, Insert(x, delay)
      PROVE  SlotsAsAsked' /\ LeftWasAsked' /\ BatchOnlyInSend' /\ NeverEarly'
  <2>1. x \notin batch /\ sent[x] = NoTick /\ \A s \in slots : s.item # x
      BY <1>9 DEF Insert
  <2>2. now + delay \in Nat
      OBVIOUS
  <2>3. SlotsAsAsked'
      BY <1>9, <2>1, <2>2 DEF Insert, clock
  <2>4. LeftWasAsked' /\ BatchOnlyInSend' /\ NeverEarly'
      BY <1>9, <2>1, <2>2 DEF Insert, clock
  <2> QED BY <2>3, <2>4
<1> QED BY <1>1, <1>2, <1>3, <1>4, <1>5, <1>6, <1>7, <1>8, <1>9 DEF Next, Loop

(* The strengthened invariant holds of every reachable state.               *)
LEMMA Invariance == Spec => []IInv
<1>1. Init => IInv
  <2> SUFFICES ASSUME Init PROVE IInv
      OBVIOUS
  <2>1. TypeOK
    <3>1. NoTick \in Int
        BY DEF NoTick
    <3>2. asked \in [Items -> Int] /\ sent \in [Items -> Int]
        BY <3>1 DEF Init
    <3>3. now \in Nat /\ fired \in Nat
        BY DEF Init
    <3> QED BY <3>2, <3>3 DEF Init, TypeOK
  <2>2. SlotsAsAsked /\ LeftWasAsked /\ BatchOnlyInSend /\ NeverEarly
      BY DEF Init, SlotsAsAsked, LeftWasAsked, BatchOnlyInSend, NeverEarly
  <2> QED BY <2>1, <2>2 DEF IInv
<1>2. IInv /\ [Next]_vars => IInv'
  <2>1. IInv /\ Next => IInv'
      BY TypeStep, WheelStep DEF IInv
  <2>2. IInv /\ UNCHANGED vars => IInv'
      BY DEF IInv, TypeOK, SlotsAsAsked, LeftWasAsked, BatchOnlyInSend, NeverEarly, vars
  <2> QED BY <2>1, <2>2
<1> QED BY <1>1, <1>2, PTL DEF Spec

(* However bucket and tick round, and however late the goroutine reads its  *)
(* tick, expire and the send to the pipeline never run ahead of an item's   *)
(* target.                                                                  *)
THEOREM NothingEarly == Spec => []NeverEarly
<1>1. IInv => NeverEarly
    BY DEF IInv
<1> QED BY Invariance, <1>1, PTL

-----------------------------------------------------------------------------
(* expire splits the waiting items in two: those of the slots that are due, *)
(* and those of the slots it keeps.  This needs SlotsAsAsked: an item with  *)
(* two slots could be on both sides.                                        *)
LEMMA ExpireSplits ==
    ASSUME TypeOK, SlotsAsAsked
    PROVE  {s.item : s \in Keep} = {s.item : s \in slots} \ {s.item : s \in Due}
<1>1. ASSUME NEW s \in slots, NEW t \in slots, s.item = t.item PROVE s = t
    BY <1>1 DEF TypeOK, SlotsAsAsked
<1>2. Keep = slots \ Due /\ Due \subseteq slots
    BY DEF Keep, Due
<1> QED BY <1>1, <1>2

(* Every step of the wheel is a step of the delay queue or none.            *)
LEMMA RefinementStep ==
    ASSUME IInv, [Next]_vars
    PROVE  [Queue!Next]_(Queue!vars)
<1> USE DEF IInv, Queue!vars
<1>1. CASE Advance
    BY <1>1 DEF Advance
<1>2. CASE Fire
    BY <1>2 DEF Fire
<1>3. CASE Receive
    BY <1>3 DEF Receive
<1>4. CASE Expire
  <2>1. CASE Due = {}
      BY <1>4, <2>1 DEF Expire, Keep, BatchOnlyInSend
  <2>2. CASE Due # {}
    <3>1. {s.item : s \in Due} \in (SUBSET {s.item : s \in slots}) \ {{}}
        BY <2>2 DEF Due
    <3>2. {s.item : s \in slots'} = {s.item : s \in slots} \ {s.item : s \in Due}
        BY <1>4, ExpireSplits DEF Expire
    <3>3. Queue!Expire
        BY <1>4, <2>2, <3>1, <3>2 DEF Expire, Queue!Expire
    <3> QED BY <3>3 DEF Queue!Next
  <2> QED BY <2>1, <2>2
<1>5. CASE Send
    BY <1>5 DEF Send, Queue!Next, Queue!Send
<1>6. CASE Stop
    BY <1>6 DEF Stop, Queue!Next, Queue!Stop
<1>7. CASE Drain
    BY <1>7 DEF Drain, Queue!Next, Queue!Drain
<1>8. CASE Cancel
    BY <1>8 DEF Cancel
<1>9. ASSUME NEW x \in Items, NEW delay \in Delays, Insert(x, delay)
      PROVE  Queue!Insert(x)
  <2>1. [item |-> x, target |-> now + delay].item = x
      OBVIOUS
  <2> QED BY <1>9, <2>1 DEF Insert, Queue!Insert
<1>10. CASE UNCHANGED vars
    BY <1>10 DEF vars
<1> QED BY <1>1, <1>2, <1>3, <1>4, <1>5, <1>6, <1>7, <1>8, <1>9, <1>10
        DEF Next, Loop, Queue!Next

(* The wheel is the delay queue the pipeline is built on: every expired     *)
(* item was waiting and waits no longer, nothing else leaves the buckets,   *)
(* and a batch is sent, or dropped on cancellation, before the next.        *)
THEOREM WheelIsDelayQueue == Spec => ImplementsDelayQueue
<1>1. Init => Queue!Init
    BY DEF Init, Queue!Init
<1> QED BY <1>1, Invariance, RefinementStep, PTL DEF Spec, ImplementsDelayQueue, Queue!Spec
=============================================================================
