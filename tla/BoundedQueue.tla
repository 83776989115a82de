---------------------------- MODULE BoundedQueue ----------------------------
(***************************************************************************)
(* What ring.Buffer promises the goroutines that share it: a first-in      *)
(* first-out queue of at most Capacity items whose behaviour when full is  *)
(* its overflow policy, and which admits nothing once it is closed.  Every *)
(* step below is the instant at which one call takes effect; a call that   *)
(* blocks is simply a call that has not taken effect yet.  RingBuffer is   *)
(* shown to implement this specification.                                  *)
(***************************************************************************)
EXTENDS Integers, Sequences

CONSTANTS Goroutines,  \* the callers
          Item,        \* what the callers put into the queue
          Capacity     \* the largest number of items held at once

VARIABLES policy,  \* OverflowPolicy, fixed when the buffer is made
          queue,   \* the items held, oldest first
          closed,  \* TRUE once Close has taken effect
          ret,     \* ret[g]: what g's last Enqueue or EnqueueBatch returned
          got      \* got[g]: the items g's last Dequeue or DequeueBatch returned

vars == <<policy, queue, closed, ret, got>>

Policies == {"Block", "DropNewest", "DropOldest", "Reject"}

IsFull == Len(queue) = Capacity

Init ==
    /\ policy \in Policies
    /\ queue = <<>>
    /\ closed = FALSE
    /\ ret = [g \in Goroutines |-> [n |-> 0, err |-> "nil"]]
    /\ got = [g \in Goroutines |-> <<>>]

(* A new Enqueue or EnqueueBatch call: nothing is accepted yet. *)
Begin(g) ==
    /\ ret' = [ret EXCEPT ![g] = [n |-> 0, err |-> "nil"]]
    /\ UNCHANGED <<policy, queue, closed, got>>

(* The call counts one more item as taken. *)
Taken(g) == ret' = [ret EXCEPT ![g].n = @ + 1]

Accept(g, x) ==
    /\ ~closed /\ Len(queue) < Capacity
    /\ queue' = Append(queue, x)
    /\ Taken(g)
    /\ UNCHANGED <<policy, closed, got>>

(* DropNewest: the caller is told its item was taken, the queue keeps what it has. *)
DropNew(g) ==
    /\ ~closed /\ IsFull /\ policy = "DropNewest"
    /\ Taken(g)
    /\ UNCHANGED <<policy, queue, closed, got>>

(* DropOldest: the new item takes the place of the oldest one. *)
Replace(g, x) ==
    /\ ~closed /\ IsFull /\ policy = "DropOldest"
    /\ queue' = Append(Tail(queue), x)
    /\ Taken(g)
    /\ UNCHANGED <<policy, closed, got>>

(* ErrBufferFull: only for a closed queue, or a full one that rejects. *)
Refuse(g) ==
    /\ closed \/ (IsFull /\ policy = "Reject")
    /\ ret' = [ret EXCEPT ![g].err = "ErrBufferFull"]
    /\ UNCHANGED <<policy, queue, closed, got>>

(* The n oldest items leave together, in order. *)
Remove(g, n) ==
    /\ got' = [got EXCEPT ![g] = SubSeq(queue, 1, n)]
    /\ queue' = SubSeq(queue, n + 1, Len(queue))
    /\ UNCHANGED <<policy, closed, ret>>

CloseQueue ==
    /\ closed' = TRUE
    /\ UNCHANGED <<policy, queue, ret, got>>

Next ==
    \/ \E g \in Goroutines :
        \/ Begin(g)
        \/ \E x \in Item : Accept(g, x) \/ Replace(g, x)
        \/ DropNew(g)
        \/ Refuse(g)
        \/ \E n \in 0..Len(queue) : Remove(g, n)
    \/ CloseQueue

Spec == Init /\ [][Next]_vars
=============================================================================
