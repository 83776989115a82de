----------------------------- MODULE RingBuffer -----------------------------
(***************************************************************************)
(* ring.Buffer (ring/buffer.go, ring/policy.go): a fixed array of slots    *)
(* indexed by two ever-growing cursors, one mutex, one condition variable  *)
(* on which producers of a full Block buffer sleep, and two atomics that   *)
(* Len reads without the mutex.                                            *)
(*                                                                         *)
(* A critical section is one action.  An Enqueue that sleeps is two or     *)
(* more: sync.Cond.Wait releases the mutex, and a woken goroutine takes it *)
(* again in competition with everyone else.  The lock-free stores and      *)
(* loads that Len can observe half done (_head before _tail) are actions   *)
(* of their own.                                                           *)
(***************************************************************************)
EXTENDS Integers, Sequences, FiniteSets

CONSTANTS Producers,  \* goroutines that call Enqueue and EnqueueBatch
          Consumers,  \* goroutines that call Dequeue, DequeueBatch, Len and Close
          Item,       \* the items
          Nil,        \* an empty slot
          Capacity,   \* b.capacity, already rounded up by nextPowerOfTwo
          Batches,    \* the argument lists of EnqueueBatch (<<x>> is Enqueue(x))
          Maxes,      \* the arguments of DequeueBatch
          MaxHead     \* bound: no new Enqueue call starts once head reaches it

ASSUME BufferAssumption ==
    /\ Capacity \in Nat \ {0}
    /\ Nil \notin Item
    /\ Producers \cap Consumers = {}
    /\ Batches \subseteq Seq(Item) \ {<<>>}
    /\ Maxes \subseteq Int
    /\ MaxHead \in Nat

Goroutines == Producers \cup Consumers

VARIABLES policy,   \* b.policy
          items,    \* b.items
          head,     \* b.head: sequence number of the next write
          tail,     \* b.tail: sequence number of the next read
          count,    \* b.count
          closed,   \* b.closed
          ahead,    \* b._head, the atomic copy of head
          atail,    \* b._tail, the atomic copy of tail
          pc,       \* where each goroutine is (States)
          todo,     \* todo[g]: the items g's call still has to enqueue
          ret,      \* ret[g]: (n, err) of g's current or last EnqueueBatch
          got,      \* got[g]: the items g's last dequeue returned
          seen,     \* seen[g]: the value of _head that Len has loaded
          len       \* len[g]: what g's last Len returned

slots == <<items, head, tail, count>>
atomics == <<ahead, atail>>
results == <<ret, got, seen, len>>
vars == <<policy, items, head, tail, count, closed, ahead, atail,
          pc, todo, ret, got, seen, len>>

Policies == {"Block", "DropNewest", "DropOldest", "Reject"}

(* idle: outside the buffer; enqueue: about to lock the mutex in Enqueue;   *)
(* waiting: asleep in cond.Wait; woken: signalled, about to relock;         *)
(* storeTail: holds the mutex between the two atomic stores of DropOldest;  *)
(* len: between the two atomic loads of Len.                                *)
States == {"idle", "enqueue", "waiting", "woken", "storeTail", "len"}

-----------------------------------------------------------------------------
(* Mutant: mask is never set.                                               *)
SlotWithoutMask(seq) == 0

(* The slot of a sequence number: seq & mask with mask = capacity - 1.      *)
Slot(seq) == seq % Capacity

MutexFree == \A g \in Goroutines : pc[g] # "storeTail"

Waiting == {g \in Goroutines : pc[g] = "waiting"}

(* Mutants: no wake-up, and a Signal where all must be woken.               *)
WakeNobody == {{}}
WakeOne == IF Waiting = {} THEN {{}} ELSE {{w} : w \in Waiting}

(* cond.Signal wakes one sleeper if there is one, cond.Broadcast all.       *)
Signal == IF Waiting = {} THEN {{}} ELSE {{w} : w \in Waiting}
Broadcast == {Waiting}

(* Goroutine g moves to s while the sleepers in W wake up.                  *)
Wake(W, g, s) ==
    pc' = [h \in Goroutines |-> IF h = g THEN s
                                ELSE IF h \in W THEN "woken" ELSE pc[h]]

(* Enqueue returned nil: EnqueueBatch goes on with its next item.           *)
Resume(g) == IF Len(todo[g]) = 1 THEN "idle" ELSE "enqueue"

Taken(g) ==
    /\ todo' = [todo EXCEPT ![g] = Tail(@)]
    /\ ret' = [ret EXCEPT ![g].n = @ + 1]

-----------------------------------------------------------------------------
Init ==
    /\ policy \in Policies
    /\ items = [i \in 0..(Capacity - 1) |-> Nil]
    /\ head = 0 /\ tail = 0 /\ count = 0
    /\ closed = FALSE
    /\ ahead = 0 /\ atail = 0
    /\ pc = [g \in Goroutines |-> "idle"]
    /\ todo = [g \in Goroutines |-> <<>>]
    /\ ret = [g \in Goroutines |-> [n |-> 0, err |-> "nil"]]
    /\ got = [g \in Goroutines |-> <<>>]
    /\ seen = [g \in Goroutines |-> 0]
    /\ len = [g \in Goroutines |-> 0]

(* EnqueueBatch is called, up to the first Enqueue.                         *)
Call(g, xs) ==
    /\ pc[g] = "idle"
    /\ head < MaxHead
    /\ pc' = [pc EXCEPT ![g] = "enqueue"]
    /\ todo' = [todo EXCEPT ![g] = xs]
    /\ ret' = [ret EXCEPT ![g] = [n |-> 0, err |-> "nil"]]
    /\ UNCHANGED <<policy, slots, closed, atomics, got, seen, len>>

(* g is at the top of Enqueue's critical section, or back from cond.Wait.   *)
InEnqueue(g) == pc[g] \in {"enqueue", "woken"} /\ MutexFree

(* ErrBufferFull: EnqueueBatch stops and reports how many items it took.    *)
Fail(g) ==
    /\ pc' = [pc EXCEPT ![g] = "idle"]
    /\ todo' = [todo EXCEPT ![g] = <<>>]
    /\ ret' = [ret EXCEPT ![g].err = "ErrBufferFull"]
    /\ UNCHANGED <<policy, slots, closed, atomics, got, seen, len>>

EnqueueClosed(g) == InEnqueue(g) /\ closed /\ Fail(g)

(* There is room, at once or after the wait loop.                           *)
EnqueueRoom(g) ==
    /\ InEnqueue(g) /\ ~closed /\ count < Capacity
    /\ items' = [items EXCEPT ![Slot(head)] = Head(todo[g])]
    /\ head' = head + 1
    /\ count' = count + 1
    /\ ahead' = head + 1
    /\ Taken(g)
    /\ \E W \in Signal : Wake(W, g, Resume(g))
    /\ UNCHANGED <<policy, tail, closed, atail, got, seen, len>>

(* Block: sleep on the condition variable, giving up the mutex.             *)
EnqueueWait(g) ==
    /\ InEnqueue(g) /\ ~closed /\ count = Capacity /\ policy = "Block"
    /\ pc' = [pc EXCEPT ![g] = "waiting"]
    /\ UNCHANGED <<policy, slots, closed, atomics, todo, results>>

EnqueueDropNewest(g) ==
    /\ InEnqueue(g) /\ ~closed /\ count = Capacity /\ policy = "DropNewest"
    /\ Taken(g)
    /\ pc' = [pc EXCEPT ![g] = Resume(g)]
    /\ UNCHANGED <<policy, slots, closed, atomics, got, seen, len>>

(* DropOldest: overwrite the oldest slot, advance both cursors and publish  *)
(* the new head; the mutex stays held until the tail is published as well.  *)
EnqueueDropOldest(g) ==
    /\ InEnqueue(g) /\ ~closed /\ count = Capacity /\ policy = "DropOldest"
    /\ items' = [items EXCEPT ![Slot(head)] = Head(todo[g])]
    /\ head' = head + 1
    /\ tail' = tail + 1
    /\ ahead' = head + 1
    /\ Taken(g)
    /\ pc' = [pc EXCEPT ![g] = "storeTail"]
    /\ UNCHANGED <<policy, count, closed, atail, got, seen, len>>

StoreTail(g) ==
    /\ pc[g] = "storeTail"
    /\ atail' = tail
    /\ \E W \in Signal : Wake(W, g, IF todo[g] = <<>> THEN "idle" ELSE "enqueue")
    /\ UNCHANGED <<policy, slots, closed, ahead, todo, results>>

EnqueueReject(g) ==
    /\ InEnqueue(g) /\ ~closed /\ count = Capacity /\ policy = "Reject"
    /\ Fail(g)

-----------------------------------------------------------------------------
(* Mutant: the atomic copy of tail is not stored.                           *)
TakeWithoutStore(g, n) ==
    /\ got' = [got EXCEPT ![g] = [i \in 1..n |-> items[Slot(tail + i - 1)]]]
    /\ items' = [s \in 0..(Capacity - 1) |->
                    IF \E i \in 0..(n - 1) : s = Slot(tail + i) THEN Nil ELSE items[s]]
    /\ tail' = tail + n
    /\ count' = count - n
    /\ UNCHANGED <<policy, head, closed, ahead, atail, todo, ret, seen, len>>

(* The n oldest items leave: their slots are read, cleared and passed.      *)
Take(g, n) ==
    /\ got' = [got EXCEPT ![g] = [i \in 1..n |-> items[Slot(tail + i - 1)]]]
    /\ items' = [s \in 0..(Capacity - 1) |->
                    IF \E i \in 0..(n - 1) : s = Slot(tail + i) THEN Nil ELSE items[s]]
    /\ tail' = tail + n
    /\ count' = count - n
    /\ atail' = tail + n
    /\ UNCHANGED <<policy, head, closed, ahead, todo, ret, seen, len>>

TakeNothing(g) ==
    /\ got' = [got EXCEPT ![g] = <<>>]
    /\ UNCHANGED <<policy, slots, closed, atomics, pc, todo, ret, seen, len>>

Dequeue(g) ==
    /\ pc[g] = "idle" /\ MutexFree
    /\ \/ count = 0 /\ TakeNothing(g)
       \/ count > 0 /\ Take(g, 1) /\ \E W \in Signal : Wake(W, g, "idle")

(* Mutant: max is not limited by count.                                     *)
BatchSizeUnclipped(max) == IF max > 0 THEN max ELSE count

(* How many items DequeueBatch(max) removes; a negative max means all.      *)
BatchSize(max) == IF max > 0 /\ max < count THEN max ELSE count

DequeueBatch(g, max) ==
    /\ pc[g] = "idle" /\ MutexFree
    /\ \/ (count = 0 \/ max = 0) /\ TakeNothing(g)
       \/ /\ count > 0 /\ max # 0
          /\ Take(g, BatchSize(max))
          /\ \E W \in Broadcast : Wake(W, g, "idle")

(* Len: two atomic loads, no mutex.                                         *)
LenLoadHead(g) ==
    /\ pc[g] = "idle"
    /\ seen' = [seen EXCEPT ![g] = ahead]
    /\ pc' = [pc EXCEPT ![g] = "len"]
    /\ UNCHANGED <<policy, slots, closed, atomics, todo, ret, got, len>>

LenLoadTail(g) ==
    /\ pc[g] = "len"
    /\ len' = [len EXCEPT ![g] = seen[g] - atail]
    /\ pc' = [pc EXCEPT ![g] = "idle"]
    /\ UNCHANGED <<policy, slots, closed, atomics, todo, ret, got, seen>>

Close(g) ==
    /\ pc[g] = "idle" /\ MutexFree
    /\ closed' = TRUE
    /\ \E W \in Broadcast : Wake(W, g, "idle")
    /\ UNCHANGED <<policy, slots, atomics, todo, results>>

-----------------------------------------------------------------------------
(* The critical sections and stores of an Enqueue already under way.        *)
EnqueueStep(g) ==
    \/ EnqueueClosed(g)
    \/ EnqueueRoom(g)
    \/ EnqueueWait(g)
    \/ EnqueueDropNewest(g)
    \/ EnqueueDropOldest(g)
    \/ StoreTail(g)
    \/ EnqueueReject(g)

ProducerStep(g) == EnqueueStep(g) \/ \E xs \in Batches : Call(g, xs)

ConsumerStep(g) ==
    \/ Dequeue(g)
    \/ \E max \in Maxes : DequeueBatch(g, max)
    \/ LenLoadHead(g)
    \/ LenLoadTail(g)
    \/ Close(g)

Next ==
    \/ \E g \in Producers : ProducerStep(g)
    \/ \E g \in Consumers : ConsumerStep(g)

Spec == Init /\ [][Next]_vars

(* Goroutines inside the buffer are scheduled: a runnable Enqueue goes on   *)
(* and the mutex is not withheld from it forever.  Nobody is obliged to     *)
(* call the buffer.                                                         *)
EnqueueFairness == \A g \in Producers : WF_vars(EnqueueStep(g))

(* A consumer such as runDispatcher comes back to DequeueBatch for ever,    *)
(* whatever else it calls in between; nobody has to drain a closed buffer.  *)
DrainFairness ==
    \A g \in Consumers :
        WF_vars(LenLoadTail(g)) /\ SF_vars(~closed /\ DequeueBatch(g, 1))

FairSpec == Spec /\ EnqueueFairness
DrainedSpec == FairSpec /\ DrainFairness

-----------------------------------------------------------------------------
(* Every variable holds a value of the Go type it stands for.               *)
TypeOK ==
    /\ policy \in Policies
    /\ items \in [0..(Capacity - 1) -> Item \cup {Nil}]
    /\ head \in Nat /\ tail \in Nat /\ count \in 0..Capacity
    /\ closed \in BOOLEAN
    /\ ahead \in Nat /\ atail \in Nat
    /\ pc \in [Goroutines -> States]
    /\ todo \in [Goroutines -> Seq(Item)]
    /\ ret \in [Goroutines -> [n : Nat, err : {"nil", "ErrBufferFull"}]]
    /\ got \in [Goroutines -> Seq(Item)]
    /\ seen \in [Goroutines -> Nat]
    /\ len \in [Goroutines -> Int]

(* Buffer keeps the same fact three times: count, the cursors head and tail *)
(* and their atomic copies.  They agree whenever the mutex is free, and the *)
(* only disagreement ever visible is a _tail one behind during DropOldest.  *)
CursorsAgree ==
    /\ head = tail + count
    /\ ahead = head
    /\ atail = IF MutexFree THEN tail ELSE tail - 1

(* The slots between tail and head hold items and all others are nil: no    *)
(* sequence of wrap-arounds and drops leaves an item behind or reads an     *)
(* empty slot.                                                              *)
WindowHoldsItems ==
    \A s \in 0..(Capacity - 1) :
        items[s] # Nil <=> \E i \in 0..(count - 1) : s = Slot(tail + i)

(* A goroutine sleeps in cond.Wait only while the buffer is full and open,  *)
(* or another sleeper has been signalled and will pass the signal on: one   *)
(* condition variable shared by Enqueue, Dequeue and Close loses no wakeup. *)
NoLostWakeup ==
    Waiting # {} =>
        /\ policy = "Block" /\ ~closed
        /\ count = Capacity \/ \E g \in Goroutines : pc[g] = "woken"

(* Len, which loads _head and later _tail without the mutex, never returns  *)
(* more than what is in the buffer when it returns, except for the one item *)
(* that a DropOldest caught between its two stores counts twice.            *)
LenNeverOverstates ==
    [][\A g \in Consumers : LenLoadTail(g) =>
        len'[g] <= count + (IF MutexFree THEN 0 ELSE 1)]_vars

(* Close makes every Enqueue under way return, however many sleep.          *)
CloseReleasesProducers ==
    \A g \in Producers : (closed /\ pc[g] # "idle") ~> pc[g] = "idle"

(* A producer asleep on a full buffer is woken once a consumer drains it.   *)
BlockedGetsWoken ==
    \A g \in Producers : pc[g] = "waiting" ~> pc[g] # "waiting"

-----------------------------------------------------------------------------
(* The queue the slots represent.                                           *)
Contents == [i \in 1..count |-> items[Slot(tail + i - 1)]]

BQ == INSTANCE BoundedQueue WITH queue <- Contents

(* Buffer is a bounded FIFO queue: each call takes effect at one instant,   *)
(* in the order of its policy, and returns what the abstract queue returns. *)
ImplementsQueue == BQ!Spec
=============================================================================
