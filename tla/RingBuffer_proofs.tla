------------------------- MODULE RingBuffer_proofs -------------------------
(***************************************************************************)
(* Proofs about ring.Buffer for every capacity, every overflow policy and  *)
(* any number of goroutines: its invariants, what Len may return, and that *)
(* it implements BoundedQueue.                                             *)
(***************************************************************************)
EXTENDS RingBuffer, SequenceTheorems, TLAPS

-----------------------------------------------------------------------------
(* Arithmetic of slots: seq & mask addresses a window of at most Capacity   *)
(* consecutive sequence numbers without collision.                          *)

(* Slot always yields an index of b.items.                                  *)
LEMMA SlotInRange ==
    ASSUME NEW s \in Nat
    PROVE  Slot(s) \in 0..(Capacity - 1)
BY BufferAssumption DEF Slot

(* Division with remainder, the form the next lemmas need.                  *)
LEMMA DivMod ==
    ASSUME NEW s \in Nat, NEW c \in Nat \ {0}
    PROVE  /\ s \div c \in Int
           /\ s % c \in 0..(c - 1)
           /\ s = c * (s \div c) + (s % c)
OBVIOUS

(* A positive multiple of c is at least c, any other at most zero.          *)
LEMMA Multiples ==
    ASSUME NEW k \in Int, NEW c \in Nat \ {0}
    PROVE  /\ c * k \in Int
           /\ k >= 1 => c * k >= c
           /\ k <= 0 => c * k <= 0
OBVIOUS

(* Multiplication distributes, the form SlotsDistinct needs.                *)
LEMMA Distributes ==
    ASSUME NEW k \in Int, NEW l \in Int, NEW c \in Nat
    PROVE  c * k - c * l = c * (k - l)
OBVIOUS

(* Two sequence numbers less than Capacity apart never share a slot.        *)
LEMMA SlotsDistinct ==
    ASSUME NEW s \in Nat, NEW t \in Nat, s < t, t < s + Capacity
    PROVE  Slot(s) # Slot(t)
<1> SUFFICES ASSUME s % Capacity = t % Capacity PROVE FALSE
    BY DEF Slot
<1> DEFINE q == s \div Capacity
           r == t \div Capacity
<1>0. Capacity \in Nat \ {0}
    BY BufferAssumption
<1>1. /\ q \in Int /\ r \in Int /\ s % Capacity \in Int
      /\ s = Capacity * q + (s % Capacity)
      /\ t = Capacity * r + (t % Capacity)
    BY <1>0, DivMod
<1> HIDE DEF q, r
<1>2. Capacity * q \in Int /\ Capacity * r \in Int
    BY <1>0, <1>1, Multiples
<1>3. t - s = Capacity * r - Capacity * q
    BY <1>1, <1>2
<1>4. t - s = Capacity * (r - q)
    BY <1>0, <1>1, <1>3, Distributes
<1>5. CASE r - q >= 1
  <2>1. Capacity * (r - q) >= Capacity
      BY <1>0, <1>1, <1>5, Multiples
  <2> QED BY <1>0, <1>4, <2>1
<1>6. CASE r - q <= 0
  <2>1. Capacity * (r - q) <= 0
      BY <1>0, <1>1, <1>6, Multiples
  <2> QED BY <1>4, <2>1
<1> QED BY <1>1, <1>5, <1>6

(* The slot after a full window is the slot of its oldest item.             *)
LEMMA SlotWraps ==
    ASSUME NEW s \in Nat
    PROVE  Slot(s + Capacity) = Slot(s)
<1> DEFINE t == s + Capacity
           q == s \div Capacity
           r == t \div Capacity
           x == s % Capacity
           y == t % Capacity
           d == (r - q) - 1
<1>0. Capacity \in Nat \ {0} /\ t \in Nat
    BY BufferAssumption
<1>1. /\ q \in Int /\ r \in Int
      /\ x \in 0..(Capacity - 1) /\ y \in 0..(Capacity - 1)
      /\ s = Capacity * q + x /\ t = Capacity * r + y
    BY <1>0, DivMod
<1>2. t = s + Capacity
    OBVIOUS
<1>3. d \in Int /\ d = (r - q) - 1
    BY <1>1
<1> SUFFICES x = y
    BY DEF Slot
<1> HIDE DEF t, q, r, x, y, d
<1>4. /\ Capacity * q \in Int /\ Capacity * r \in Int
      /\ Capacity * (r - q) \in Int /\ Capacity * d \in Int
    BY <1>0, <1>1, <1>3, Multiples
<1>5. Capacity * r - Capacity * q = Capacity * (r - q)
    BY <1>0, <1>1, Distributes
<1>6. Capacity * (r - q) - Capacity * 1 = Capacity * d
    BY <1>0, <1>1, <1>3, Distributes
<1>7. x - y = Capacity * d
  <2>1. Capacity * 1 = Capacity
      BY <1>0
  <2>2. (r - q) \in Int
      BY <1>1
  <2> QED BY <1>0, <1>1, <1>2, <1>4, <1>5, <1>6, <2>1
<1>8. d = 0
  <2>1. CASE d >= 1
      BY <1>0, <1>1, <1>3, <1>7, <2>1, Multiples
  <2>2. CASE d <= -1
    <3>1. -d \in Int /\ -d >= 1
        BY <1>3, <2>2
    <3>2. Capacity * (-d) >= Capacity
        BY <1>0, <3>1, Multiples
    <3>3. Capacity * (-d) = -(Capacity * d)
        BY <1>0, <1>3
    <3> QED BY <1>0, <1>1, <1>4, <1>7, <3>2, <3>3
  <2>3. d \in Int
      BY <1>3
  <2> QED BY <2>1, <2>2, <2>3
<1>9. Capacity * 0 = 0
    BY <1>0
<1> QED BY <1>1, <1>7, <1>8, <1>9

-----------------------------------------------------------------------------
(* The window of n sequence numbers from t on, as a set of slots.           *)
InWindow(t, n, s) == \E i \in 0..(n - 1) : s = Slot(t + i)

(* A write at the head of a window adds exactly one slot to it.             *)
LEMMA WindowGrows ==
    ASSUME NEW t \in Nat, NEW n \in Nat, NEW s
    PROVE  InWindow(t, n + 1, s) <=> (InWindow(t, n, s) \/ s = Slot(t + n))
<1>1. \A i \in 0..((n + 1) - 1) : i \in 0..(n - 1) \/ i = n
    OBVIOUS
<1>2. n \in 0..((n + 1) - 1) /\ 0..(n - 1) \subseteq 0..((n + 1) - 1)
    OBVIOUS
<1> QED BY <1>1, <1>2 DEF InWindow

(* Reading k items removes exactly their slots from a window.               *)
LEMMA WindowShrinks ==
    ASSUME NEW t \in Nat, NEW n \in 0..Capacity, NEW k \in 0..n, NEW s
    PROVE  InWindow(t + k, n - k, s) <=> (InWindow(t, n, s) /\ ~InWindow(t, k, s))
<1>0. Capacity \in Nat \ {0}
    BY BufferAssumption
<1>1. ASSUME InWindow(t + k, n - k, s)
      PROVE  InWindow(t, n, s) /\ ~InWindow(t, k, s)
  <2>1. PICK i \in 0..(n - k - 1) : s = Slot(t + k + i)
      BY <1>1 DEF InWindow
  <2>2. k + i \in 0..(n - 1) /\ t + k + i = t + (k + i)
      BY <1>0
  <2>3. InWindow(t, n, s)
      BY <2>1, <2>2 DEF InWindow
  <2>4. ASSUME NEW j \in 0..(k - 1), s = Slot(t + j)
        PROVE  FALSE
    <3>1. /\ t + j \in Nat /\ t + k + i \in Nat
          /\ t + j < t + k + i /\ t + k + i < (t + j) + Capacity
        BY <1>0
    <3> QED BY <2>1, <2>4, <3>1, SlotsDistinct
  <2> QED BY <2>3, <2>4 DEF InWindow
<1>2. ASSUME InWindow(t, n, s), ~InWindow(t, k, s)
      PROVE  InWindow(t + k, n - k, s)
  <2>1. PICK i \in 0..(n - 1) : s = Slot(t + i)
      BY <1>2 DEF InWindow
  <2>2. i >= k
      BY <1>0, <1>2, <2>1 DEF InWindow
  <2>3. i - k \in 0..(n - k - 1) /\ t + i = t + k + (i - k)
      BY <1>0, <2>2
  <2> QED BY <2>1, <2>3 DEF InWindow
<1> QED BY <1>1, <1>2

(* Moving a full window on by one leaves its slots the same.                *)
LEMMA WindowTurns ==
    ASSUME NEW t \in Nat, NEW s
    PROVE  InWindow(t + 1, Capacity, s) <=> InWindow(t, Capacity, s)
<1>0. Capacity \in Nat \ {0}
    BY BufferAssumption
<1>1. ASSUME NEW i \in 0..(Capacity - 1), s = Slot(t + i)
      PROVE  InWindow(t + 1, Capacity, s)
  <2>1. CASE i = 0
    <3>1. Slot(t) = Slot(t + 1 + (Capacity - 1))
      <4>1. t + 1 + (Capacity - 1) = t + Capacity
          BY <1>0
      <4> QED BY <4>1, SlotWraps
    <3>2. t + i = t /\ Capacity - 1 \in 0..(Capacity - 1)
        BY <1>0, <2>1
    <3> QED BY <1>1, <3>1, <3>2 DEF InWindow
  <2>2. CASE i # 0
    <3>1. i - 1 \in 0..(Capacity - 1) /\ t + i = t + 1 + (i - 1)
        BY <1>0, <2>2
    <3> QED BY <1>1, <3>1 DEF InWindow
  <2> QED BY <2>1, <2>2
<1>2. ASSUME NEW i \in 0..(Capacity - 1), s = Slot(t + 1 + i)
      PROVE  InWindow(t, Capacity, s)
  <2>1. CASE i = Capacity - 1
    <3>1. t + 1 + i = t + Capacity /\ t = t + 0 /\ 0 \in 0..(Capacity - 1)
        BY <1>0, <2>1
    <3>2. s = Slot(t)
        BY <1>2, <3>1, SlotWraps
    <3> QED BY <3>1, <3>2 DEF InWindow
  <2>2. CASE i # Capacity - 1
    <3>1. i + 1 \in 0..(Capacity - 1) /\ t + 1 + i = t + (i + 1)
        BY <1>0, <2>2
    <3> QED BY <1>2, <3>1 DEF InWindow
  <2> QED BY <2>1, <2>2
<1> QED BY <1>1, <1>2 DEF InWindow

-----------------------------------------------------------------------------
(* What the invariants need to be inductive: the mutex has one holder, an   *)
(* Enqueue under way has an item left to write, and a Len under way has     *)
(* loaded a head that was really stored.                                    *)
OneHolder ==
    \A g, h \in Goroutines : pc[g] = "storeTail" /\ pc[h] = "storeTail" => g = h

ItemsLeft ==
    \A g \in Goroutines : pc[g] \in {"enqueue", "waiting", "woken"} => todo[g] # <<>>

SeenWasStored == \A g \in Goroutines : seen[g] <= ahead

IInv ==
    /\ TypeOK
    /\ CursorsAgree
    /\ WindowHoldsItems
    /\ NoLostWakeup
    /\ OneHolder
    /\ ItemsLeft
    /\ SeenWasStored

(* The buffer starts empty, with nobody inside.                             *)
LEMMA InitEstablishes == Init => IInv
<1> SUFFICES ASSUME Init PROVE IInv
    OBVIOUS
<1> USE BufferAssumption DEF Init
<1>1. TypeOK
  <2>1. closed \in BOOLEAN /\ policy \in Policies
      BY DEF Policies
  <2>2. items \in [0..(Capacity - 1) -> Item \cup {Nil}]
      OBVIOUS
  <2>3. /\ todo \in [Goroutines -> Seq(Item)]
        /\ got \in [Goroutines -> Seq(Item)]
      OBVIOUS
  <2>4. ret \in [Goroutines -> [n : Nat, err : {"nil", "ErrBufferFull"}]]
      OBVIOUS
  <2> QED BY <2>1, <2>2, <2>3, <2>4 DEF TypeOK, States
<1>2. CursorsAgree
    BY DEF CursorsAgree, MutexFree
<1>3. WindowHoldsItems
    BY DEF WindowHoldsItems
<1>4. NoLostWakeup
    BY DEF NoLostWakeup, Waiting
<1>5. OneHolder /\ ItemsLeft /\ SeenWasStored
    BY DEF OneHolder, ItemsLeft, SeenWasStored
<1> QED BY <1>1, <1>2, <1>3, <1>4, <1>5 DEF IInv

(* The effect of a wake-up on the goroutines: only sleepers change, and the *)
(* goroutine that holds the mutex moves on.                                 *)
LEMMA WakeEffect ==
    ASSUME pc \in [Goroutines -> States], NEW g \in Goroutines, NEW s \in States,
           NEW W, W \subseteq Waiting, Wake(W, g, s)
    PROVE  /\ pc' \in [Goroutines -> States]
           /\ pc'[g] = s
           /\ \A h \in Goroutines \ {g} : h \in W => pc[h] = "waiting" /\ pc'[h] = "woken"
           /\ \A h \in Goroutines \ {g} : h \notin W => pc'[h] = pc[h]
BY DEF Wake, Waiting, States

(* Signal and Broadcast wake sleepers, and a Signal wakes one if it can.    *)
LEMMA SignalEffect ==
    /\ \A W \in Signal : W \subseteq Waiting /\ (Waiting # {} => W # {})
    /\ \A W \in Broadcast : W = Waiting
BY DEF Signal, Broadcast, Waiting

-----------------------------------------------------------------------------
(* Each action preserves the invariant.                                     *)

(* EnqueueBatch being called.                                               *)
LEMMA CallPreserves ==
    ASSUME IInv, NEW g \in Goroutines, NEW xs \in Batches, Call(g, xs)
    PROVE  IInv'
<1> USE DEF IInv, Call, slots, atomics
<1>0. xs \in Seq(Item) /\ xs # <<>>
    BY BufferAssumption
<1>1. TypeOK'
    BY <1>0 DEF TypeOK, States
<1>2. CursorsAgree' /\ OneHolder'
    BY DEF CursorsAgree, MutexFree, OneHolder, TypeOK
<1>3. WindowHoldsItems'
    BY DEF WindowHoldsItems, Slot
<1>4. NoLostWakeup'
    BY DEF NoLostWakeup, Waiting, TypeOK
<1>5. ItemsLeft' /\ SeenWasStored'
    BY <1>0 DEF ItemsLeft, SeenWasStored, TypeOK
<1> QED BY <1>1, <1>2, <1>3, <1>4, <1>5

(* An Enqueue that is refused: the buffer is closed, or full and rejecting. *)
LEMMA FailPreserves ==
    ASSUME IInv, NEW g \in Goroutines, Fail(g), pc[g] \in {"enqueue", "woken"},
           closed \/ policy = "Reject"
    PROVE  IInv'
<1> USE DEF IInv, Fail, slots, atomics
<1>1. TypeOK'
  <2>1. todo' \in [Goroutines -> Seq(Item)]
      BY DEF TypeOK
  <2>2. ret' \in [Goroutines -> [n : Nat, err : {"nil", "ErrBufferFull"}]]
      BY DEF TypeOK
  <2> QED BY <2>1, <2>2 DEF TypeOK, States
<1>2. CursorsAgree' /\ OneHolder'
    BY DEF CursorsAgree, MutexFree, OneHolder, TypeOK
<1>3. WindowHoldsItems'
    BY DEF WindowHoldsItems, Slot
<1>4. NoLostWakeup'
  <2>1. Waiting = {}
      BY DEF NoLostWakeup
  <2> QED BY <2>1 DEF NoLostWakeup, Waiting, TypeOK
<1>5. ItemsLeft' /\ SeenWasStored'
    BY DEF ItemsLeft, SeenWasStored, TypeOK
<1> QED BY <1>1, <1>2, <1>3, <1>4, <1>5

(* What Taken leaves to do, and the state Resume puts the goroutine in.     *)
LEMMA TakenEffect ==
    ASSUME TypeOK, NEW g \in Goroutines, todo[g] # <<>>, Taken(g)
    PROVE  /\ Head(todo[g]) \in Item
           /\ todo' \in [Goroutines -> Seq(Item)]
           /\ \A h \in Goroutines \ {g} : todo'[h] = todo[h]
           /\ ret' \in [Goroutines -> [n : Nat, err : {"nil", "ErrBufferFull"}]]
           /\ Resume(g) \in {"idle", "enqueue"}
           /\ Resume(g) = "enqueue" => todo'[g] # <<>>
<1>1. todo[g] \in Seq(Item)
    BY DEF TypeOK
<1>2. Tail(todo[g]) \in Seq(Item) /\ Head(todo[g]) \in Item
    BY <1>1
<1>3. Len(todo[g]) # 1 => Tail(todo[g]) # <<>>
  <2>1. Len(Tail(todo[g])) = Len(todo[g]) - 1
      BY <1>1
  <2>2. Len(todo[g]) \in Nat /\ Len(todo[g]) # 0 /\ Len(<<>>) = 0
      BY <1>1
  <2>3. Len(todo[g]) # 1 => Len(Tail(todo[g])) # 0
      BY <2>1, <2>2
  <2> QED BY <2>2, <2>3
<1>4. ret[g].n \in Nat /\ ret[g].err \in {"nil", "ErrBufferFull"}
    BY DEF TypeOK
<1>5. ret' \in [Goroutines -> [n : Nat, err : {"nil", "ErrBufferFull"}]]
  <2>1. ret' = [ret EXCEPT ![g] = [ret[g] EXCEPT !.n = ret[g].n + 1]]
      BY DEF Taken
  <2>2. [ret[g] EXCEPT !.n = ret[g].n + 1] \in [n : Nat, err : {"nil", "ErrBufferFull"}]
      BY <1>4 DEF TypeOK
  <2> QED BY <2>1, <2>2 DEF TypeOK
<1> QED BY <1>2, <1>3, <1>5 DEF Taken, Resume, TypeOK

(* Enqueue storing its item: the head slot joins the window.                *)
LEMMA RoomPreserves ==
    ASSUME IInv, NEW g \in Goroutines, EnqueueRoom(g)
    PROVE  IInv'
<1> USE DEF IInv, EnqueueRoom
<1>0. Capacity \in Nat \ {0} /\ Nil \notin Item
    BY BufferAssumption
<1>1. PICK W \in Signal : Wake(W, g, Resume(g))
    OBVIOUS
<1>2. todo[g] # <<>> /\ pc[g] \in {"enqueue", "woken"} /\ MutexFree
    BY DEF InEnqueue, ItemsLeft
<1>3. /\ Head(todo[g]) \in Item
      /\ todo' \in [Goroutines -> Seq(Item)]
      /\ \A h \in Goroutines \ {g} : todo'[h] = todo[h]
      /\ ret' \in [Goroutines -> [n : Nat, err : {"nil", "ErrBufferFull"}]]
      /\ Resume(g) \in {"idle", "enqueue"}
      /\ Resume(g) = "enqueue" => todo'[g] # <<>>
    BY <1>2, TakenEffect
<1>4. /\ pc' \in [Goroutines -> States]
      /\ pc'[g] = Resume(g)
      /\ \A h \in Goroutines \ {g} : h \in W => pc[h] = "waiting" /\ pc'[h] = "woken"
      /\ \A h \in Goroutines \ {g} : h \notin W => pc'[h] = pc[h]
  <2>1. W \subseteq Waiting /\ Resume(g) \in States
      BY <1>3, SignalEffect DEF States
  <2>2. pc \in [Goroutines -> States]
      BY DEF TypeOK
  <2> HIDE DEF TypeOK, Wake, Resume
  <2> QED BY <1>1, <2>1, <2>2, WakeEffect
<1>5. Slot(head) \in 0..(Capacity - 1)
    BY SlotInRange DEF TypeOK
<1>6. TypeOK'
    BY <1>0, <1>3, <1>4, <1>5 DEF TypeOK
<1>7. MutexFree'
    BY <1>2, <1>3, <1>4 DEF MutexFree
<1>8. CursorsAgree' /\ OneHolder'
    BY <1>2, <1>7, SMTT(30) DEF CursorsAgree, OneHolder, MutexFree, TypeOK
<1>9. WindowHoldsItems'
  <2> SUFFICES ASSUME NEW s \in 0..(Capacity - 1)
               PROVE  items'[s] # Nil <=> InWindow(tail, count + 1, s)
      BY DEF WindowHoldsItems, InWindow, Slot
  <2>1. InWindow(tail, count + 1, s) <=> (InWindow(tail, count, s) \/ s = Slot(head))
      BY <1>0, WindowGrows DEF TypeOK, CursorsAgree
  <2>2. items[s] # Nil <=> InWindow(tail, count, s)
      BY DEF WindowHoldsItems, InWindow
  <2>3. items'[s] = IF s = Slot(head) THEN Head(todo[g]) ELSE items[s]
      BY DEF TypeOK
  <2> QED BY <1>0, <1>3, <2>1, <2>2, <2>3
<1>10. NoLostWakeup'
  <2> SUFFICES ASSUME NEW w \in Goroutines, pc'[w] = "waiting"
               PROVE  policy' = "Block" /\ ~closed' /\ \E h \in Goroutines : pc'[h] = "woken"
      BY DEF NoLostWakeup, Waiting
  <2>1. w \in Waiting
      BY <1>3, <1>4 DEF Waiting
  <2>2. PICK h \in W : h \in Waiting
      BY <2>1, SignalEffect
  <2>3. pc'[h] = "woken" /\ h \in Goroutines
      BY <1>2, <1>4, <2>2 DEF Waiting
  <2> QED BY <2>1, <2>3 DEF NoLostWakeup
<1>11. ItemsLeft'
    BY <1>3, <1>4 DEF ItemsLeft
<1>12. SeenWasStored'
    BY DEF SeenWasStored, TypeOK, CursorsAgree
<1> QED BY <1>6, <1>8, <1>9, <1>10, <1>11, <1>12

(* Enqueue going to sleep on a full Block buffer.                           *)
LEMMA WaitPreserves ==
    ASSUME IInv, NEW g \in Goroutines, EnqueueWait(g)
    PROVE  IInv'
<1> USE DEF IInv, EnqueueWait, slots, atomics, results, InEnqueue
<1>1. TypeOK'
    BY DEF TypeOK, States
<1>2. CursorsAgree' /\ OneHolder'
    BY DEF CursorsAgree, MutexFree, OneHolder, TypeOK
<1>3. WindowHoldsItems'
    BY DEF WindowHoldsItems, Slot
<1>4. NoLostWakeup'
    BY DEF NoLostWakeup
<1>5. ItemsLeft' /\ SeenWasStored'
    BY DEF ItemsLeft, SeenWasStored, TypeOK
<1> QED BY <1>1, <1>2, <1>3, <1>4, <1>5

(* Enqueue discarding its item under DropNewest.                            *)
LEMMA DropNewestPreserves ==
    ASSUME IInv, NEW g \in Goroutines, EnqueueDropNewest(g)
    PROVE  IInv'
<1> USE DEF IInv, EnqueueDropNewest, slots, atomics, InEnqueue
<1>1. todo[g] # <<>>
    BY DEF ItemsLeft
<1>2. /\ todo' \in [Goroutines -> Seq(Item)]
      /\ \A h \in Goroutines \ {g} : todo'[h] = todo[h]
      /\ ret' \in [Goroutines -> [n : Nat, err : {"nil", "ErrBufferFull"}]]
      /\ Resume(g) \in {"idle", "enqueue"}
      /\ Resume(g) = "enqueue" => todo'[g] # <<>>
    BY <1>1, TakenEffect
<1>3. TypeOK'
    BY <1>2 DEF TypeOK, States
<1>4. CursorsAgree' /\ OneHolder'
    BY <1>2 DEF CursorsAgree, MutexFree, OneHolder, TypeOK
<1>5. WindowHoldsItems'
    BY DEF WindowHoldsItems, Slot
<1>6. NoLostWakeup'
  <2>1. Waiting = {}
      BY DEF NoLostWakeup
  <2> QED BY <1>2, <2>1 DEF NoLostWakeup, Waiting, TypeOK
<1>7. ItemsLeft' /\ SeenWasStored'
    BY <1>2 DEF ItemsLeft, SeenWasStored, TypeOK
<1> QED BY <1>3, <1>4, <1>5, <1>6, <1>7

(* Enqueue replacing the oldest item, up to its first store.                *)
LEMMA DropOldestPreserves ==
    ASSUME IInv, NEW g \in Goroutines, EnqueueDropOldest(g)
    PROVE  IInv'
<1> USE DEF IInv, EnqueueDropOldest, InEnqueue
<1>0. Capacity \in Nat \ {0} /\ Nil \notin Item
    BY BufferAssumption
<1>1. todo[g] # <<>>
    BY DEF ItemsLeft
<1>2. /\ Head(todo[g]) \in Item
      /\ todo' \in [Goroutines -> Seq(Item)]
      /\ \A h \in Goroutines \ {g} : todo'[h] = todo[h]
      /\ ret' \in [Goroutines -> [n : Nat, err : {"nil", "ErrBufferFull"}]]
    BY <1>1, TakenEffect
<1>3. Slot(head) \in 0..(Capacity - 1)
    BY SlotInRange DEF TypeOK
<1>4. TypeOK'
  <2>1. items' \in [0..(Capacity - 1) -> Item \cup {Nil}]
      BY <1>2, <1>3 DEF TypeOK
  <2>2. pc' \in [Goroutines -> States]
      BY DEF TypeOK, States
  <2> QED BY <1>0, <1>2, <2>1, <2>2 DEF TypeOK
<1>5. CursorsAgree' /\ OneHolder'
    BY DEF CursorsAgree, MutexFree, OneHolder, TypeOK
<1>6. WindowHoldsItems'
  <2> SUFFICES ASSUME NEW s \in 0..(Capacity - 1)
               PROVE  items'[s] # Nil <=> InWindow(tail + 1, Capacity, s)
      BY DEF WindowHoldsItems, InWindow, Slot
  <2>1. InWindow(tail + 1, Capacity, s) <=> InWindow(tail, Capacity, s)
      BY WindowTurns DEF TypeOK
  <2>2. items[s] # Nil <=> InWindow(tail, Capacity, s)
      BY DEF WindowHoldsItems, InWindow
  <2>3. InWindow(tail, Capacity, Slot(head))
    <3>1. Slot(head) = Slot(tail + 0) /\ 0 \in 0..(Capacity - 1)
      <4>1. head = tail + Capacity /\ tail + 0 = tail
          BY DEF CursorsAgree, TypeOK
      <4> QED BY <1>0, <4>1, SlotWraps DEF TypeOK
    <3> QED BY <3>1 DEF InWindow
  <2>4. items'[s] = IF s = Slot(head) THEN Head(todo[g]) ELSE items[s]
      BY DEF TypeOK
  <2> QED BY <1>0, <1>2, <2>1, <2>2, <2>3, <2>4
<1>7. NoLostWakeup'
  <2>1. Waiting = {}
      BY DEF NoLostWakeup
  <2> QED BY <2>1 DEF NoLostWakeup, Waiting, TypeOK
<1>8. ItemsLeft'
    BY <1>2 DEF ItemsLeft, TypeOK
<1>9. SeenWasStored'
    BY DEF SeenWasStored, TypeOK, CursorsAgree
<1> QED BY <1>4, <1>5, <1>6, <1>7, <1>8, <1>9

(* ... and its second store, which gives up the mutex.                      *)
LEMMA StoreTailPreserves ==
    ASSUME IInv, NEW g \in Goroutines, StoreTail(g)
    PROVE  IInv'
<1> USE DEF IInv, StoreTail, slots, results
<1> DEFINE s == IF todo[g] = <<>> THEN "idle" ELSE "enqueue"
<1>1. PICK W \in Signal : Wake(W, g, s)
    OBVIOUS
<1>2. W \subseteq Waiting
    BY SignalEffect
<1>3. s \in {"idle", "enqueue"} /\ (s = "enqueue" => todo[g] # <<>>)
    OBVIOUS
<1> HIDE DEF s
<1>4. /\ pc' \in [Goroutines -> States]
      /\ pc'[g] = s
      /\ \A h \in Goroutines \ {g} : h \in W => pc[h] = "waiting" /\ pc'[h] = "woken"
      /\ \A h \in Goroutines \ {g} : h \notin W => pc'[h] = pc[h]
  <2>1. s \in States
      BY <1>3 DEF States
  <2> QED BY <1>1, <1>2, <2>1, WakeEffect DEF TypeOK
<1>5. TypeOK'
    BY <1>4 DEF TypeOK
<1>6. MutexFree'
    BY <1>3, <1>4 DEF MutexFree, OneHolder
<1>7. CursorsAgree' /\ OneHolder'
    BY <1>6 DEF CursorsAgree, OneHolder, MutexFree, TypeOK
<1>8. WindowHoldsItems'
    BY DEF WindowHoldsItems, Slot
<1>9. NoLostWakeup'
  <2> SUFFICES ASSUME NEW w \in Goroutines, pc'[w] = "waiting"
               PROVE  policy' = "Block" /\ ~closed' /\ \E h \in Goroutines : pc'[h] = "woken"
      BY DEF NoLostWakeup, Waiting
  <2>1. w \in Waiting
      BY <1>3, <1>4 DEF Waiting
  <2>2. PICK h \in W : h \in Waiting
      BY <2>1, SignalEffect
  <2>3. pc'[h] = "woken" /\ h \in Goroutines
      BY <1>4, <2>2 DEF Waiting
  <2> QED BY <2>1, <2>3 DEF NoLostWakeup
<1>10. ItemsLeft' /\ SeenWasStored'
    BY <1>3, <1>4 DEF ItemsLeft, SeenWasStored
<1> QED BY <1>5, <1>7, <1>8, <1>9, <1>10

-----------------------------------------------------------------------------
(* Taking the n oldest items: got receives items, never an empty slot, and  *)
(* the window loses exactly the slots that were read.                       *)
LEMMA TakeEffect ==
    ASSUME IInv, NEW g \in Goroutines, NEW n \in 1..count, MutexFree, Take(g, n)
    PROVE  /\ got' \in [Goroutines -> Seq(Item)]
           /\ items' \in [0..(Capacity - 1) -> Item \cup {Nil}]
           /\ WindowHoldsItems'
           /\ tail' \in Nat /\ count' \in 0..Capacity /\ atail' \in Nat
           /\ head' = tail' + count' /\ ahead' = head' /\ atail' = tail'
<1> USE DEF IInv, Take
<1>0. /\ Capacity \in Nat \ {0} /\ Nil \notin Item
      /\ tail \in Nat /\ head \in Nat /\ count \in 0..Capacity /\ n \in Nat
    BY BufferAssumption DEF TypeOK
<1>1. got' \in [Goroutines -> Seq(Item)]
  <2> DEFINE batch == [i \in 1..n |-> items[Slot(tail + i - 1)]]
  <2>1. ASSUME NEW i \in 1..n PROVE items[Slot(tail + i - 1)] \in Item
    <3>1. tail + i - 1 = tail + (i - 1) /\ i - 1 \in 0..(count - 1) /\ tail + i - 1 \in Nat
        BY <1>0
    <3>2. Slot(tail + i - 1) \in 0..(Capacity - 1)
        BY <3>1, SlotInRange
    <3>3. items[Slot(tail + i - 1)] # Nil
        BY <3>1, <3>2 DEF WindowHoldsItems
    <3> QED BY <3>2, <3>3 DEF TypeOK
  <2>2. batch \in Seq(Item)
      BY <1>0, <2>1
  <2> QED BY <2>2 DEF TypeOK
<1>2. items' \in [0..(Capacity - 1) -> Item \cup {Nil}]
    BY DEF TypeOK
<1>3. WindowHoldsItems'
  <2> SUFFICES ASSUME NEW s \in 0..(Capacity - 1)
               PROVE  items'[s] # Nil <=> InWindow(tail + n, count - n, s)
      BY DEF WindowHoldsItems, InWindow, Slot
  <2>1. InWindow(tail + n, count - n, s)
            <=> (InWindow(tail, count, s) /\ ~InWindow(tail, n, s))
      BY <1>0, WindowShrinks
  <2>2. items[s] # Nil <=> InWindow(tail, count, s)
      BY DEF WindowHoldsItems, InWindow
  <2>3. items'[s] = IF InWindow(tail, n, s) THEN Nil ELSE items[s]
      BY DEF InWindow
  <2> QED BY <2>1, <2>2, <2>3
<1>4. /\ tail' \in Nat /\ count' \in 0..Capacity /\ atail' \in Nat
      /\ head' = tail' + count' /\ ahead' = head' /\ atail' = tail'
    BY <1>0 DEF CursorsAgree
<1> QED BY <1>1, <1>2, <1>3, <1>4

(* A dequeue that wakes the sleepers in W, at least one if there is any.    *)
LEMMA TakePreserves ==
    ASSUME IInv, NEW g \in Goroutines, NEW n \in 1..count, NEW W,
           MutexFree, pc[g] = "idle", Take(g, n), Wake(W, g, "idle"),
           W \subseteq Waiting, Waiting # {} => W # {}
    PROVE  IInv'
<1> USE DEF IInv
<1>1. /\ got' \in [Goroutines -> Seq(Item)]
      /\ items' \in [0..(Capacity - 1) -> Item \cup {Nil}]
      /\ WindowHoldsItems'
      /\ tail' \in Nat /\ count' \in 0..Capacity /\ atail' \in Nat
      /\ head' = tail' + count' /\ ahead' = head' /\ atail' = tail'
    BY TakeEffect
<1>2. /\ pc' \in [Goroutines -> States]
      /\ pc'[g] = "idle"
      /\ \A h \in Goroutines \ {g} : h \in W => pc[h] = "waiting" /\ pc'[h] = "woken"
      /\ \A h \in Goroutines \ {g} : h \notin W => pc'[h] = pc[h]
    BY WakeEffect DEF TypeOK, States
<1>3. TypeOK'
    BY <1>1, <1>2 DEF Take, TypeOK
<1>4. MutexFree'
    BY <1>2 DEF MutexFree
<1>5. CursorsAgree' /\ OneHolder'
    BY <1>1, <1>4 DEF CursorsAgree, OneHolder, MutexFree
<1>6. NoLostWakeup'
  <2> SUFFICES ASSUME NEW w \in Goroutines, pc'[w] = "waiting"
               PROVE  policy' = "Block" /\ ~closed' /\ \E h \in Goroutines : pc'[h] = "woken"
      BY DEF NoLostWakeup, Waiting
  <2>1. w \in Waiting
      BY <1>2 DEF Waiting
  <2>2. PICK h \in W : h \in Waiting
      BY <2>1
  <2>3. pc'[h] = "woken" /\ h \in Goroutines
      BY <1>2, <2>2 DEF Waiting
  <2> QED BY <2>1, <2>3 DEF NoLostWakeup, Take
<1>7. ItemsLeft' /\ SeenWasStored'
    BY <1>2 DEF ItemsLeft, SeenWasStored, Take
<1> QED BY <1>1, <1>3, <1>5, <1>6, <1>7

(* A dequeue that finds nothing to take.                                    *)
LEMMA TakeNothingPreserves ==
    ASSUME IInv, NEW g \in Goroutines, TakeNothing(g)
    PROVE  IInv'
<1> USE DEF IInv, TakeNothing, slots, atomics
<1>1. TypeOK'
  <2>1. got' \in [Goroutines -> Seq(Item)]
      BY DEF TypeOK
  <2> QED BY <2>1 DEF TypeOK
<1>2. CursorsAgree' /\ OneHolder' /\ NoLostWakeup' /\ ItemsLeft' /\ SeenWasStored'
    BY DEF CursorsAgree, MutexFree, OneHolder, NoLostWakeup, Waiting, ItemsLeft, SeenWasStored
<1>3. WindowHoldsItems'
    BY DEF WindowHoldsItems, Slot
<1> QED BY <1>1, <1>2, <1>3

(* Dequeue, with a Signal.                                                  *)
LEMMA DequeuePreserves ==
    ASSUME IInv, NEW g \in Goroutines, Dequeue(g)
    PROVE  IInv'
<1>1. CASE count = 0 /\ TakeNothing(g)
    BY <1>1, TakeNothingPreserves
<1>2. CASE count > 0 /\ Take(g, 1) /\ \E W \in Signal : Wake(W, g, "idle")
  <2>1. PICK W \in Signal : Wake(W, g, "idle")
      BY <1>2
  <2>2. W \subseteq Waiting /\ (Waiting # {} => W # {})
      BY SignalEffect
  <2>3. 1 \in 1..count
      BY <1>2 DEF IInv, TypeOK
  <2> QED BY <1>2, <2>1, <2>2, <2>3, TakePreserves DEF Dequeue
<1> QED BY <1>1, <1>2 DEF Dequeue

(* DequeueBatch, with a Broadcast.                                          *)
LEMMA DequeueBatchPreserves ==
    ASSUME IInv, NEW g \in Goroutines, NEW max \in Maxes, DequeueBatch(g, max)
    PROVE  IInv'
<1>1. CASE (count = 0 \/ max = 0) /\ TakeNothing(g)
    BY <1>1, TakeNothingPreserves
<1>2. CASE /\ count > 0 /\ max # 0
           /\ Take(g, BatchSize(max))
           /\ \E W \in Broadcast : Wake(W, g, "idle")
  <2>1. Wake(Waiting, g, "idle")
      BY <1>2, SignalEffect
  <2>2. BatchSize(max) \in 1..count
      BY <1>2, BufferAssumption DEF BatchSize, IInv, TypeOK
  <2> QED BY <1>2, <2>1, <2>2, TakePreserves DEF DequeueBatch
<1> QED BY <1>1, <1>2 DEF DequeueBatch

(* The two loads of Len.                                                    *)
LEMMA LenPreserves ==
    ASSUME IInv, NEW g \in Goroutines, LenLoadHead(g) \/ LenLoadTail(g)
    PROVE  IInv'
<1> USE DEF IInv
<1>1. PICK s \in {"idle", "len"} : pc' = [pc EXCEPT ![g] = s]
    BY DEF LenLoadHead, LenLoadTail
<1>2. UNCHANGED <<policy, items, head, tail, count, closed, ahead, atail, todo, ret, got>>
    BY DEF LenLoadHead, LenLoadTail, slots, atomics
<1>3. pc[g] \in {"idle", "len"}
    BY DEF LenLoadHead, LenLoadTail
<1>4. /\ seen' \in [Goroutines -> Nat] /\ len' \in [Goroutines -> Int]
      /\ SeenWasStored'
  <2>1. CASE LenLoadHead(g)
      BY <2>1 DEF LenLoadHead, SeenWasStored, TypeOK, atomics
  <2>2. CASE LenLoadTail(g)
      BY <2>2 DEF LenLoadTail, SeenWasStored, TypeOK, atomics
  <2> QED BY <2>1, <2>2
<1>5. TypeOK'
  <2>1. pc' \in [Goroutines -> States]
      BY <1>1 DEF TypeOK, States
  <2> QED BY <1>2, <1>4, <2>1 DEF TypeOK
<1>6. CursorsAgree' /\ OneHolder'
    BY <1>1, <1>2, <1>3 DEF CursorsAgree, MutexFree, OneHolder, TypeOK
<1>7. WindowHoldsItems'
    BY <1>2 DEF WindowHoldsItems, Slot
<1>8. NoLostWakeup'
    BY <1>1, <1>2, <1>3 DEF NoLostWakeup, Waiting, TypeOK
<1>9. ItemsLeft'
    BY <1>1, <1>2 DEF ItemsLeft, TypeOK
<1> QED BY <1>4, <1>5, <1>6, <1>7, <1>8, <1>9

(* Close, which wakes all sleepers.                                         *)
LEMMA ClosePreserves ==
    ASSUME IInv, NEW g \in Goroutines, Close(g)
    PROVE  IInv'
<1> USE DEF IInv, Close, slots, atomics, results
<1>1. Wake(Waiting, g, "idle")
    BY SignalEffect
<1>2. /\ pc' \in [Goroutines -> States]
      /\ pc'[g] = "idle"
      /\ \A h \in Goroutines \ {g} : h \in Waiting => pc[h] = "waiting" /\ pc'[h] = "woken"
      /\ \A h \in Goroutines \ {g} : h \notin Waiting => pc'[h] = pc[h]
    BY <1>1, WakeEffect DEF TypeOK, States
<1>3. TypeOK'
    BY <1>2 DEF TypeOK
<1>4. CursorsAgree' /\ OneHolder'
    BY <1>2 DEF CursorsAgree, MutexFree, OneHolder
<1>5. WindowHoldsItems'
    BY DEF WindowHoldsItems, Slot
<1>6. NoLostWakeup'
    BY <1>2 DEF NoLostWakeup, Waiting
<1>7. ItemsLeft' /\ SeenWasStored'
    BY <1>2 DEF ItemsLeft, SeenWasStored
<1> QED BY <1>3, <1>4, <1>5, <1>6, <1>7

(* Every step of every goroutine keeps the invariant.                       *)
LEMMA NextPreserves == IInv /\ [Next]_vars => IInv'
<1> SUFFICES ASSUME IInv, [Next]_vars PROVE IInv'
    OBVIOUS
<1>1. ASSUME NEW g \in Producers, ProducerStep(g) PROVE IInv'
  <2> g \in Goroutines
      BY DEF Goroutines
  <2>1. ASSUME NEW xs \in Batches, Call(g, xs) PROVE IInv'
      BY <2>1, CallPreserves
  <2>2. CASE EnqueueClosed(g)
      BY <2>2, FailPreserves DEF EnqueueClosed, InEnqueue
  <2>3. CASE EnqueueRoom(g)
      BY <2>3, RoomPreserves
  <2>4. CASE EnqueueWait(g)
      BY <2>4, WaitPreserves
  <2>5. CASE EnqueueDropNewest(g)
      BY <2>5, DropNewestPreserves
  <2>6. CASE EnqueueDropOldest(g)
      BY <2>6, DropOldestPreserves
  <2>7. CASE StoreTail(g)
      BY <2>7, StoreTailPreserves
  <2>8. CASE EnqueueReject(g)
      BY <2>8, FailPreserves DEF EnqueueReject, InEnqueue
  <2> QED BY <1>1, <2>1, <2>2, <2>3, <2>4, <2>5, <2>6, <2>7, <2>8
          DEF ProducerStep, EnqueueStep
<1>2. ASSUME NEW g \in Consumers, ConsumerStep(g) PROVE IInv'
  <2> g \in Goroutines
      BY DEF Goroutines
  <2>1. CASE Dequeue(g)
      BY <2>1, DequeuePreserves
  <2>2. ASSUME NEW max \in Maxes, DequeueBatch(g, max) PROVE IInv'
      BY <2>2, DequeueBatchPreserves
  <2>3. CASE LenLoadHead(g) \/ LenLoadTail(g)
      BY <2>3, LenPreserves
  <2>4. CASE Close(g)
      BY <2>4, ClosePreserves
  <2> QED BY <1>2, <2>1, <2>2, <2>3, <2>4 DEF ConsumerStep
<1>3. ASSUME UNCHANGED vars PROVE IInv'
  <2> USE <1>3 DEF IInv, vars
  <2>1. TypeOK' /\ CursorsAgree' /\ NoLostWakeup' /\ OneHolder' /\ ItemsLeft' /\ SeenWasStored'
      BY DEF TypeOK, CursorsAgree, MutexFree, NoLostWakeup, Waiting,
             OneHolder, ItemsLeft, SeenWasStored
  <2>2. WindowHoldsItems'
      BY DEF WindowHoldsItems, Slot
  <2> QED BY <2>1, <2>2
<1> QED BY <1>1, <1>2, <1>3 DEF Next

-----------------------------------------------------------------------------
(* The strengthened invariant holds of every reachable state.               *)
THEOREM Invariance == Spec => []IInv
<1>1. Init => IInv
    BY InitEstablishes
<1>2. IInv /\ [Next]_vars => IInv'
    BY NextPreserves
<1> QED BY <1>1, <1>2, PTL DEF Spec

(* Buffer's fields keep their types under any mix of calls.                 *)
THEOREM TypeCorrect == Spec => []TypeOK
BY Invariance, PTL DEF IInv

(* count, the cursors and their atomic copies never drift apart.            *)
THEOREM CursorsStayTogether == Spec => []CursorsAgree
BY Invariance, PTL DEF IInv

(* Exactly the slots between tail and head are occupied, at any wrap.       *)
THEOREM WindowIsExact == Spec => []WindowHoldsItems
BY Invariance, PTL DEF IInv

(* No producer sleeps through the event that should have woken it.          *)
THEOREM WakeupsNotLost == Spec => []NoLostWakeup
BY Invariance, PTL DEF IInv

(* Len, read without the mutex, never reports more than the buffer holds,   *)
(* but for the item a DropOldest is replacing at that moment.               *)
THEOREM LenBound == Spec => LenNeverOverstates
<1> DEFINE A == \A g \in Consumers : LenLoadTail(g) =>
                    len'[g] <= count + (IF MutexFree THEN 0 ELSE 1)
<1>1. IInv => A
  <2> SUFFICES ASSUME IInv, NEW g \in Consumers, LenLoadTail(g)
               PROVE  len'[g] <= count + (IF MutexFree THEN 0 ELSE 1)
      OBVIOUS
  <2>1. /\ seen[g] <= ahead /\ ahead = tail + count
        /\ atail = IF MutexFree THEN tail ELSE tail - 1
        /\ seen[g] \in Nat /\ ahead \in Nat /\ tail \in Nat /\ count \in Nat
      BY BufferAssumption DEF IInv, SeenWasStored, CursorsAgree, TypeOK, Goroutines
  <2>2. len'[g] = seen[g] - atail
      BY DEF LenLoadTail, IInv, TypeOK, Goroutines
  <2> QED BY <2>1, <2>2
<1>2. IInv /\ [Next]_vars => [A]_vars
    BY <1>1
<1> QED BY <1>2, Invariance, PTL DEF Spec, LenNeverOverstates

-----------------------------------------------------------------------------
(* Refinement: what each critical section does to the queue of the slots.   *)

(* The slots of the window are a sequence of count items.                   *)
LEMMA ContentsType ==
    ASSUME IInv
    PROVE  /\ Contents \in Seq(Item) /\ Len(Contents) = count
           /\ \A i \in 1..count : Contents[i] = items[Slot(tail + i - 1)]
<1>0. Capacity \in Nat \ {0} /\ tail \in Nat /\ count \in 0..Capacity /\ count \in Nat
    BY BufferAssumption DEF IInv, TypeOK
<1>1. ASSUME NEW i \in 1..count PROVE items[Slot(tail + i - 1)] \in Item
  <2>1. tail + i - 1 = tail + (i - 1) /\ i - 1 \in 0..(count - 1) /\ tail + i - 1 \in Nat
      BY <1>0
  <2>2. Slot(tail + i - 1) \in 0..(Capacity - 1)
      BY <2>1, SlotInRange
  <2>3. items[Slot(tail + i - 1)] # Nil
      BY <2>1, <2>2 DEF WindowHoldsItems, IInv
  <2> QED BY <2>2, <2>3 DEF TypeOK, IInv
<1> QED BY <1>0, <1>1 DEF Contents

(* Append, as the function it is.                                           *)
LEMMA AppendIsFunction ==
    ASSUME NEW S, NEW seq \in Seq(S), NEW elt \in S
    PROVE  Append(seq, elt) =
               [i \in 1..(Len(seq) + 1) |-> IF i <= Len(seq) THEN seq[i] ELSE elt]
<1> DEFINE f == [i \in 1..(Len(seq) + 1) |-> IF i <= Len(seq) THEN seq[i] ELSE elt]
<1>1. /\ Append(seq, elt) \in Seq(S) /\ Len(Append(seq, elt)) = Len(seq) + 1
      /\ \A i \in 1..Len(seq) : Append(seq, elt)[i] = seq[i]
      /\ Append(seq, elt)[Len(seq) + 1] = elt
      /\ Len(seq) \in Nat
    OBVIOUS
<1>2. /\ f \in Seq(S) /\ Len(f) = Len(seq) + 1
      /\ \A i \in 1..Len(f) : f[i] = Append(seq, elt)[i]
    BY <1>1
<1> QED BY <1>1, <1>2, SeqEqual

(* A write into free space appends: it touches no slot of the window.       *)
LEMMA RoomAppends ==
    ASSUME IInv, NEW g \in Goroutines, EnqueueRoom(g)
    PROVE  Contents' = Append(Contents, Head(todo[g]))
<1> DEFINE x == Head(todo[g])
<1>0. /\ Capacity \in Nat \ {0} /\ tail \in Nat /\ count \in Nat /\ count < Capacity
      /\ head = tail + count /\ tail' = tail /\ count' = count + 1
      /\ Slot(head) \in 0..(Capacity - 1)
  <2>1. head \in Nat
      BY DEF IInv, TypeOK
  <2>2. Slot(head) \in 0..(Capacity - 1)
      BY <2>1, SlotInRange
  <2> QED BY <2>2, BufferAssumption DEF IInv, TypeOK, CursorsAgree, EnqueueRoom
<1>1. items' = [items EXCEPT ![Slot(head)] = x] /\ x \in Item
  <2>1. todo[g] \in Seq(Item) /\ todo[g] # <<>>
      BY DEF IInv, TypeOK, ItemsLeft, EnqueueRoom, InEnqueue
  <2> QED BY <2>1 DEF EnqueueRoom
<1> HIDE DEF x
<1>2. /\ Contents \in Seq(Item) /\ Len(Contents) = count
      /\ \A i \in 1..count : Contents[i] = items[Slot(tail + i - 1)]
    BY ContentsType
<1>3. ASSUME NEW i \in 1..count
      PROVE  items'[Slot(tail + i - 1)] = Contents[i]
  <2>1. /\ tail + i - 1 \in Nat /\ head \in Nat
        /\ tail + i - 1 < head /\ head < tail + i - 1 + Capacity
      BY <1>0
  <2>2. Slot(tail + i - 1) # Slot(head)
      BY <2>1, SlotsDistinct
  <2>3. Slot(tail + i - 1) \in 0..(Capacity - 1)
      BY <2>1, SlotInRange
  <2> QED BY <1>1, <1>2, <2>2, <2>3 DEF IInv, TypeOK
<1>4. items'[Slot(tail + (count + 1) - 1)] = x
  <2>1. tail + (count + 1) - 1 = head
      BY <1>0
  <2> QED BY <1>0, <1>1, <2>1 DEF IInv, TypeOK
<1>5. Contents' = [i \in 1..(count + 1) |-> items'[Slot(tail + i - 1)]]
    BY <1>0 DEF Contents, Slot
<1>6. ASSUME NEW i \in 1..(count + 1)
      PROVE  items'[Slot(tail + i - 1)] = IF i <= count THEN Contents[i] ELSE x
  <2>1. CASE i = count + 1
      BY <1>0, <1>4, <2>1
  <2>2. CASE i \in 1..count
      BY <1>0, <1>3, <2>2
  <2> QED BY <1>0, <2>1, <2>2
<1>7. Append(Contents, x) = [i \in 1..(count + 1) |-> IF i <= count THEN Contents[i] ELSE x]
    BY <1>1, <1>2, AppendIsFunction
<1> QED BY <1>5, <1>6, <1>7 DEF x

(* A write over the oldest slot of a full window drops that item only.      *)
LEMMA DropOldestReplaces ==
    ASSUME IInv, NEW g \in Goroutines, EnqueueDropOldest(g)
    PROVE  Contents' = Append(Tail(Contents), Head(todo[g]))
<1> DEFINE x == Head(todo[g])
<1>0. /\ Capacity \in Nat \ {0} /\ tail \in Nat /\ count = Capacity
      /\ head = tail + Capacity /\ tail' = tail + 1 /\ count' = Capacity
      /\ Slot(head) \in 0..(Capacity - 1)
    BY BufferAssumption, SlotInRange DEF IInv, TypeOK, CursorsAgree, EnqueueDropOldest
<1>1. items' = [items EXCEPT ![Slot(head)] = x] /\ x \in Item
  <2>1. todo[g] \in Seq(Item) /\ todo[g] # <<>>
      BY DEF IInv, TypeOK, ItemsLeft, EnqueueDropOldest, InEnqueue
  <2> QED BY <2>1 DEF EnqueueDropOldest
<1> HIDE DEF x
<1>2. /\ Contents \in Seq(Item) /\ Len(Contents) = Capacity
      /\ \A i \in 1..Capacity : Contents[i] = items[Slot(tail + i - 1)]
    BY <1>0, ContentsType
<1>3. ASSUME NEW i \in 1..(Capacity - 1)
      PROVE  items'[Slot((tail + 1) + i - 1)] = Contents[i + 1]
  <2>1. /\ tail + i \in Nat /\ head \in Nat
        /\ tail + i < head /\ head < tail + i + Capacity
        /\ (tail + 1) + i - 1 = tail + i /\ tail + (i + 1) - 1 = tail + i
        /\ i + 1 \in 1..Capacity
      BY <1>0
  <2>2. Slot(tail + i) # Slot(head)
      BY <2>1, SlotsDistinct
  <2>3. Slot(tail + i) \in 0..(Capacity - 1)
      BY <2>1, SlotInRange
  <2>4. items'[Slot(tail + i)] = items[Slot(tail + i)]
      BY <1>1, <2>2, <2>3 DEF IInv, TypeOK
  <2> QED BY <1>2, <2>1, <2>4
<1>4. items'[Slot((tail + 1) + Capacity - 1)] = x
  <2>1. (tail + 1) + Capacity - 1 = head
      BY <1>0
  <2> QED BY <1>0, <1>1, <2>1 DEF IInv, TypeOK
<1>5. Contents' = [i \in 1..Capacity |-> items'[Slot((tail + 1) + i - 1)]]
    BY <1>0 DEF Contents, Slot
<1>6. ASSUME NEW i \in 1..Capacity
      PROVE  items'[Slot((tail + 1) + i - 1)] =
                 IF i <= Capacity - 1 THEN Contents[i + 1] ELSE x
  <2>1. CASE i = Capacity
      BY <1>0, <1>4, <2>1
  <2>2. CASE i \in 1..(Capacity - 1)
      BY <1>0, <1>3, <2>2
  <2> QED BY <1>0, <2>1, <2>2
<1>7. /\ Tail(Contents) \in Seq(Item) /\ Len(Tail(Contents)) = Capacity - 1
      /\ \A i \in 1..(Capacity - 1) : Tail(Contents)[i] = Contents[i + 1]
  <2>1. Contents # <<>>
      BY <1>0, <1>2
  <2> QED BY <1>0, <1>2, <2>1
<1>8. Append(Tail(Contents), x) =
          [i \in 1..Capacity |-> IF i <= Capacity - 1 THEN Contents[i + 1] ELSE x]
  <2>1. Append(Tail(Contents), x) =
            [i \in 1..((Capacity - 1) + 1) |->
                IF i <= Capacity - 1 THEN Tail(Contents)[i] ELSE x]
    <3> DEFINE T == Tail(Contents)
    <3>1. T \in Seq(Item) /\ Len(T) = Capacity - 1
        BY <1>7
    <3> HIDE DEF T
    <3>2. Append(T, x) = [i \in 1..(Len(T) + 1) |-> IF i <= Len(T) THEN T[i] ELSE x]
        BY <1>1, <3>1, AppendIsFunction
    <3> QED BY <3>1, <3>2 DEF T
  <2>2. (Capacity - 1) + 1 = Capacity
      BY <1>0
  <2>3. ASSUME NEW i \in 1..Capacity, i <= Capacity - 1
        PROVE  Tail(Contents)[i] = Contents[i + 1]
      BY <1>0, <1>7, <2>3
  <2> QED BY <2>1, <2>2, <2>3
<1> QED BY <1>5, <1>6, <1>8 DEF x

(* A dequeue returns a prefix of the queue and leaves the rest.             *)
LEMMA TakeRemoves ==
    ASSUME IInv, NEW g \in Goroutines, NEW n \in 1..count, Take(g, n)
    PROVE  /\ got' = [got EXCEPT ![g] = SubSeq(Contents, 1, n)]
           /\ Contents' = SubSeq(Contents, n + 1, Len(Contents))
<1>0. /\ Capacity \in Nat \ {0} /\ tail \in Nat /\ count \in 0..Capacity /\ n \in Nat
      /\ tail' = tail + n /\ count' = count - n
    BY BufferAssumption DEF IInv, TypeOK, Take
<1>1. /\ Contents \in Seq(Item) /\ Len(Contents) = count
      /\ \A i \in 1..count : Contents[i] = items[Slot(tail + i - 1)]
    BY ContentsType
<1>2. SubSeq(Contents, 1, n) = [i \in 1..n |-> items[Slot(tail + i - 1)]]
    BY <1>0, <1>1
<1>3. ASSUME NEW i \in 1..(count - n)
      PROVE  items'[Slot((tail + n) + i - 1)] = Contents[n + i]
  <2>1. /\ (tail + n) + i - 1 \in Nat
        /\ (tail + n) + i - 1 = tail + (n + i) - 1
        /\ n + i \in 1..count
      BY <1>0
  <2>2. Slot((tail + n) + i - 1) \in 0..(Capacity - 1)
      BY <2>1, SlotInRange
  <2>3. ASSUME NEW j \in 0..(n - 1)
        PROVE  Slot((tail + n) + i - 1) # Slot(tail + j)
    <3>1. /\ tail + j \in Nat /\ tail + j < (tail + n) + i - 1
          /\ (tail + n) + i - 1 < tail + j + Capacity
        BY <1>0
    <3> QED BY <2>1, <3>1, SlotsDistinct
  <2>4. items'[Slot((tail + n) + i - 1)] = items[Slot((tail + n) + i - 1)]
      BY <2>2, <2>3 DEF Take
  <2> QED BY <1>1, <2>1, <2>4
<1>4. Contents' = [i \in 1..(count - n) |-> items'[Slot((tail + n) + i - 1)]]
    BY <1>0 DEF Contents, Slot
<1>5. SubSeq(Contents, n + 1, count) = [i \in 1..(count - n) |-> Contents[n + i]]
    BY <1>0, <1>1
<1> QED BY <1>1, <1>2, <1>3, <1>4, <1>5 DEF Take

(* Actions that leave slots alone leave the queue alone.                    *)
LEMMA ContentsUnchanged ==
    ASSUME UNCHANGED slots
    PROVE  Contents' = Contents
BY DEF slots, Contents, Slot

(* Dequeue and DequeueBatch are removals, of nothing when they find nothing.*)
LEMMA TakeRefines ==
    ASSUME IInv, NEW g \in Goroutines, NEW n \in 1..count, Take(g, n)
    PROVE  BQ!Next
<1>1. BQ!Remove(g, n)
    BY TakeRemoves DEF BQ!Remove, Take
<1>2. n \in 0..Len(Contents)
    BY ContentsType
<1> QED BY <1>1, <1>2 DEF BQ!Next

(* An empty dequeue removes no item from the queue.                         *)
LEMMA TakeNothingRefines ==
    ASSUME IInv, NEW g \in Goroutines, TakeNothing(g)
    PROVE  BQ!Next
<1>1. Contents \in Seq(Item) /\ Len(Contents) = count /\ count \in Nat
    BY ContentsType, BufferAssumption DEF IInv, TypeOK
<1>2. SubSeq(Contents, 1, 0) = <<>> /\ SubSeq(Contents, 0 + 1, Len(Contents)) = Contents
    BY <1>1, SubSeqFull, SubSeqEmpty
<1>3. Contents' = Contents
    BY ContentsUnchanged DEF TakeNothing
<1>4. BQ!Remove(g, 0)
    BY <1>2, <1>3 DEF BQ!Remove, TakeNothing
<1>5. 0 \in 0..Len(Contents)
    BY <1>1
<1> QED BY <1>4, <1>5 DEF BQ!Next

(* Every step is a step of the queue or leaves it alone.                    *)
LEMMA StepRefines == IInv /\ [Next]_vars => [BQ!Next]_BQ!vars
<1> SUFFICES ASSUME IInv, [Next]_vars PROVE [BQ!Next]_BQ!vars
    OBVIOUS
<1> USE DEF BQ!vars
<1>0. Contents \in Seq(Item) /\ Len(Contents) = count /\ count \in 0..Capacity
    BY ContentsType DEF IInv, TypeOK
<1>1. ASSUME NEW g \in Goroutines, NEW xs \in Batches, Call(g, xs) PROVE BQ!Next
    BY <1>1, ContentsUnchanged DEF Call, BQ!Next, BQ!Begin
<1>2. ASSUME NEW g \in Goroutines, EnqueueClosed(g) \/ EnqueueReject(g) PROVE BQ!Next
  <2>1. Fail(g) /\ (closed \/ (count = Capacity /\ policy = "Reject"))
      BY <1>2 DEF EnqueueClosed, EnqueueReject
  <2>2. BQ!Refuse(g)
      BY <1>0, <2>1, ContentsUnchanged DEF Fail, BQ!Refuse, BQ!IsFull
  <2> QED BY <2>2 DEF BQ!Next
<1>3. ASSUME NEW g \in Goroutines, EnqueueRoom(g) PROVE BQ!Next
  <2>1. Head(todo[g]) \in Item
    <3>1. todo[g] \in Seq(Item) /\ todo[g] # <<>>
        BY <1>3 DEF IInv, TypeOK, ItemsLeft, EnqueueRoom, InEnqueue
    <3> QED BY <3>1
  <2>2. BQ!Accept(g, Head(todo[g]))
      BY <1>0, <1>3, RoomAppends DEF EnqueueRoom, Taken, BQ!Accept, BQ!Taken
  <2> QED BY <2>1, <2>2 DEF BQ!Next
<1>4. ASSUME NEW g \in Goroutines, EnqueueDropNewest(g) PROVE BQ!Next
  <2>1. BQ!DropNew(g)
      BY <1>0, <1>4, ContentsUnchanged
         DEF EnqueueDropNewest, Taken, BQ!DropNew, BQ!Taken, BQ!IsFull
  <2> QED BY <2>1 DEF BQ!Next
<1>5. ASSUME NEW g \in Goroutines, EnqueueDropOldest(g) PROVE BQ!Next
  <2>1. Head(todo[g]) \in Item
    <3>1. todo[g] \in Seq(Item) /\ todo[g] # <<>>
        BY <1>5 DEF IInv, TypeOK, ItemsLeft, EnqueueDropOldest, InEnqueue
    <3> QED BY <3>1
  <2>2. BQ!Replace(g, Head(todo[g]))
      BY <1>0, <1>5, DropOldestReplaces
         DEF EnqueueDropOldest, Taken, BQ!Replace, BQ!Taken, BQ!IsFull
  <2> QED BY <2>1, <2>2 DEF BQ!Next
<1>6. ASSUME NEW g \in Goroutines, EnqueueWait(g) \/ StoreTail(g)
                                   \/ LenLoadHead(g) \/ LenLoadTail(g)
      PROVE  UNCHANGED BQ!vars
    BY <1>6, ContentsUnchanged
       DEF EnqueueWait, StoreTail, LenLoadHead, LenLoadTail, results
<1>7. ASSUME NEW g \in Goroutines, Dequeue(g) PROVE BQ!Next
  <2>1. CASE TakeNothing(g)
      BY <2>1, TakeNothingRefines
  <2>2. CASE count > 0 /\ Take(g, 1)
    <3>1. 1 \in 1..count
        BY <1>0, <2>2, BufferAssumption
    <3> QED BY <2>2, <3>1, TakeRefines
  <2> QED BY <1>7, <2>1, <2>2 DEF Dequeue
<1>8. ASSUME NEW g \in Goroutines, NEW max \in Maxes, DequeueBatch(g, max) PROVE BQ!Next
  <2>1. CASE TakeNothing(g)
      BY <2>1, TakeNothingRefines
  <2>2. CASE count > 0 /\ max # 0 /\ Take(g, BatchSize(max))
    <3>1. BatchSize(max) \in 1..count
        BY <1>0, <2>2, BufferAssumption DEF BatchSize
    <3> QED BY <2>2, <3>1, TakeRefines
  <2> QED BY <1>8, <2>1, <2>2 DEF DequeueBatch
<1>9. ASSUME NEW g \in Goroutines, Close(g) PROVE BQ!Next
  <2>1. BQ!CloseQueue
      BY <1>9, ContentsUnchanged DEF Close, BQ!CloseQueue, results
  <2> QED BY <2>1 DEF BQ!Next
<1>10. ASSUME UNCHANGED vars PROVE UNCHANGED BQ!vars
    BY <1>10, ContentsUnchanged DEF vars, slots
<1>11. Producers \subseteq Goroutines /\ Consumers \subseteq Goroutines
    BY DEF Goroutines
<1>12. ASSUME NEW g \in Producers, ProducerStep(g) PROVE [BQ!Next]_BQ!vars
    BY <1>1, <1>2, <1>3, <1>4, <1>5, <1>6, <1>11, <1>12 DEF ProducerStep, EnqueueStep
<1>13. ASSUME NEW g \in Consumers, ConsumerStep(g) PROVE [BQ!Next]_BQ!vars
    BY <1>6, <1>7, <1>8, <1>9, <1>11, <1>13 DEF ConsumerStep
<1> QED BY <1>10, <1>12, <1>13 DEF Next

(* ring.Buffer implements the bounded queue, whatever its capacity, policy  *)
(* and callers.                                                             *)
THEOREM Refinement == Spec => ImplementsQueue
<1>1. Init => BQ!Init
  <2> SUFFICES ASSUME Init PROVE BQ!Init
      OBVIOUS
  <2>1. Contents = <<>>
    <3>1. Contents \in Seq(Item) /\ Len(Contents) = 0
        BY InitEstablishes, ContentsType DEF Init
    <3> QED BY <3>1
  <2> QED BY <2>1 DEF Init, BQ!Init, Policies, BQ!Policies
<1>2. IInv /\ [Next]_vars => [BQ!Next]_BQ!vars
    BY StepRefines
<1> QED BY <1>1, <1>2, Invariance, PTL DEF Spec, ImplementsQueue, BQ!Spec
=============================================================================
