---------------------------- MODULE MCRingBuffer ----------------------------
(* The instance of RingBuffer for TLC. *)
EXTENDS RingBuffer, RingSizing

CONSTANTS a, b,
          MaxRequest   \* bound on the capacities Sizing looks at

(* Single items and a batch longer than the space a full buffer leaves. *)
OneAndTwo == {<<a>>, <<b, a>>}

(* DequeueBatch(n) for none, all (negative), a part, and more than there is. *)
AllMaxes == {-1, 0, 1, 3}

Powers == {2 ^ i : i \in 0..12}

(* What New sets up is what RingBuffer assumes: nextPowerOfTwo returns the   *)
(* least power of two that is no smaller than the capacity asked for (1 for  *)
(* anything below), and with it seq & mask is the remainder Slot takes.      *)
Sizing ==
    (head = 0 /\ \A g \in Goroutines : pc[g] = "idle") =>
        /\ NextPowerOfTwo(Capacity) = Capacity
        /\ \A n \in -1..MaxRequest :
             LET c == NextPowerOfTwo(n) IN
             /\ c \in Powers /\ c >= n
             /\ \A p \in Powers : p >= n => c <= p
             /\ \A seq \in {0, c - 1, c, c + c \div 2, 2 * c - 1} : Masked(seq, c) = seq % c
=============================================================================
