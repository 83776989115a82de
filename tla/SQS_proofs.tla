----------------------------- MODULE SQS_proofs -----------------------------
(***************************************************************************)
(* For any messages, keys shared among them, pods, verdicts, copies under  *)
(* way and number of crashes, failing calls, visibility timeouts and       *)
(* expiring keys: a message leaves the queue only when it is settled, and  *)
(* nothing is processed twice but for the reasons RepeatsExplained names.  *)
(***************************************************************************)
EXTENDS SQS, FiniteSetTheorems, TLAPS

CopyType == [at : {"none"} \cup Waiting \cup Batch, pod : Pods,
             attempts : Nat, delay : Int, latest : BOOLEAN]

(* TypeOK without the cardinality, which OneLatest replaces.                *)
Types ==
    /\ queue \in [Msgs -> {"absent", "visible", "invisible", "deleted"}]
    /\ copy \in [Msgs -> [1..MaxCopies -> CopyType]]
    /\ marked \subseteq Keys(Msgs) /\ dlq \subseteq Msgs
    /\ pod \in [Pods -> {"up", "stopping", "down"}] /\ faults \in 0..MaxFaults
    /\ succeeded \subseteq Msgs /\ unanswered \subseteq Msgs
    /\ again \subseteq Msgs \cup Keys(Msgs) /\ excused \subseteq Msgs \cup Keys(Msgs)

(* A slot without a place is free.                                          *)
FreeIsNothing == \A s \in Slots : Copy(s).at = "none" => Copy(s) = Nothing

(* Of the receipts of a message one at most is the latest.                  *)
OneLatest ==
    \A s, t \in Slots : s[1] = t[1] /\ Copy(s).latest /\ Copy(t).latest => s = t

(* Whoever is about to delete a message, or to mark its key, has a reason.  *)
DeleteJustified ==
    /\ marked \subseteq Keys(succeeded)
    /\ \A s \in Slots :
        /\ Copy(s).at \in {"Ack", "mark"} => s[1] \in succeeded
        /\ Copy(s).at = "ackDLQ" => s[1] \in dlq
        /\ Copy(s).at = "duplicate" =>
              s[1] \in unanswered \/ Key[s[1]] \in Keys(succeeded)

(* As long as nothing excuses a second run of m, there is one copy of it at *)
(* most; its receipt is honoured until m is deleted, and a success is on    *)
(* its way to deletion or has got there.                                    *)
HeldOnce(m) ==
    /\ \A s, t \in Slots :
          s[1] = m /\ t[1] = m /\ Copy(s).at # "none" /\ Copy(t).at # "none" => s = t
    /\ \A s \in Slots : s[1] = m =>
          /\ Copy(s).at \notin {"none", "mark"} => Copy(s).latest /\ queue[m] = "invisible"
          /\ Copy(s).at = "mark" => queue[m] = "deleted"
    /\ m \in succeeded =>
          queue[m] = "deleted" \/ \E s \in Slots : s[1] = m /\ Copy(s).at = "Ack"

MessageOnce == \A m \in Msgs \ excused : HeldOnce(m)

(* The places of a copy that the filter has let through.                    *)
Through == Batch \ {"filter", "duplicate"}

(* As long as nothing excuses a second run for a key, the filter lets one   *)
(* copy with it through at a time and none once the key is marked, and a    *)
(* success is on its way to the mark or has got there.                      *)
PassedOnce(key) ==
    /\ \A s, t \in Slots :
          Key[s[1]] = key /\ Key[t[1]] = key /\ Copy(s).at \in Through /\ Copy(t).at \in Through
              => s = t
    /\ key \in marked => \A s \in Slots : Key[s[1]] = key => Copy(s).at \notin Through
    /\ key \in Keys(succeeded) =>
          \/ key \in marked
          \/ \E s \in Slots : Key[s[1]] = key /\ Copy(s).at \in {"Ack", "mark"}

KeyOnce == \A key \in Keys(Msgs) \ excused : PassedOnce(key)

IInv ==
    /\ Types /\ FreeIsNothing /\ OneLatest
    /\ DeleteJustified /\ DeletedWasSettled
    /\ MessageOnce /\ KeyOnce /\ RepeatsExplained

-----------------------------------------------------------------------------
(* What the actions do to copies, slot by slot.                             *)
Sets(s, c) ==
    \A t \in Slots : copy'[t[1]][t[2]] = IF t = s THEN c ELSE copy[t[1]][t[2]]

(* What a free slot contains.                                               *)
LEMMA NothingType == Nothing \in CopyType /\ Nothing.at = "none" /\ Nothing.latest = FALSE
BY SQSAssumption DEF Nothing, CopyType

(* What a slot is made of.                                                  *)
LEMMA SlotTypes ==
    ASSUME Types, NEW s \in Slots
    PROVE  s[1] \in Msgs /\ s[2] \in 1..MaxCopies /\ Copy(s) \in CopyType
BY DEF Types, Slots, Copy

(* An update of one slot.                                                   *)
LEMMA BecomesEffect ==
    ASSUME Types, NEW s \in Slots, NEW c \in CopyType, Becomes(s, c)
    PROVE  copy' \in [Msgs -> [1..MaxCopies -> CopyType]] /\ Sets(s, c)
<1> DEFINE row == [copy[s[1]] EXCEPT ![s[2]] = c]
<1>1. s[1] \in Msgs /\ s[2] \in 1..MaxCopies /\ s = <<s[1], s[2]>>
    BY DEF Slots
<1>2. copy' = [copy EXCEPT ![s[1]] = row]
    BY DEF Becomes
<1>3. row \in [1..MaxCopies -> CopyType]
    BY <1>1 DEF Types
<1>4. copy' \in [Msgs -> [1..MaxCopies -> CopyType]]
    BY <1>2, <1>3 DEF Types
<1>5. ASSUME NEW t \in Slots
      PROVE  copy'[t[1]][t[2]] = IF t = s THEN c ELSE copy[t[1]][t[2]]
  <2>1. t[1] \in Msgs /\ t[2] \in 1..MaxCopies /\ t = <<t[1], t[2]>>
      BY DEF Slots
  <2>2. CASE t[1] = s[1]
      BY <1>1, <1>2, <2>1, <2>2 DEF Types
  <2>3. CASE t[1] # s[1]
      BY <1>1, <1>2, <2>1, <2>3 DEF Types
  <2> QED BY <2>2, <2>3
<1> QED BY <1>4, <1>5 DEF Sets

(* A receive fills a free slot of the message and supersedes the others.    *)
LEMMA ReceiveEffect ==
    ASSUME Types, NEW p \in Pods, NEW m \in Msgs, Receive(p, m)
    PROVE  /\ copy' \in [Msgs -> [1..MaxCopies -> CopyType]]
           /\ \E r \in Slots :
                 /\ r[1] = m /\ Copy(r) = Nothing
                 /\ \A t \in Slots : copy'[t[1]][t[2]] =
                       IF t = r THEN FromSQSMessage(p, m)
                       ELSE IF t[1] = m THEN Superseded(copy[t[1]][t[2]])
                       ELSE copy[t[1]][t[2]]
<1> DEFINE i == CHOOSE j \in 1..MaxCopies : j \notin Held(m)
           row == [j \in 1..MaxCopies |->
                      IF j = i THEN FromSQSMessage(p, m) ELSE Superseded(copy[m][j])]
<1>1. i \in 1..MaxCopies /\ i \notin Held(m)
  <2>1. \E j \in 1..MaxCopies : j \notin Held(m)
      BY DEF Receive, Held
  <2> QED BY <2>1
<1>2. copy' = [copy EXCEPT ![m] = row]
    BY DEF Receive
<1> HIDE DEF i
<1>3. FromSQSMessage(p, m) \in CopyType /\ \A c \in CopyType : Superseded(c) \in CopyType
  <2>1. (IF m \in Delayed THEN "wheel" ELSE "ring") \in {"none"} \cup Waiting \cup Batch
      BY DEF Waiting
  <2>2. FromSQSMessage(p, m) \in CopyType
      BY <2>1 DEF FromSQSMessage, CopyType
  <2>3. \A c \in CopyType : Superseded(c) \in CopyType
      BY DEF Superseded, CopyType
  <2> QED BY <2>2, <2>3
<1>4. row \in [1..MaxCopies -> CopyType]
    BY <1>3 DEF Types
<1>5. copy' \in [Msgs -> [1..MaxCopies -> CopyType]]
    BY <1>2, <1>4 DEF Types
<1>6. <<m, i>> \in Slots /\ Copy(<<m, i>>) = Nothing
    BY <1>1 DEF Slots, Copy, Held
<1>7. ASSUME NEW t \in Slots
      PROVE  copy'[t[1]][t[2]] = IF t = <<m, i>> THEN FromSQSMessage(p, m)
                                 ELSE IF t[1] = m THEN Superseded(copy[t[1]][t[2]])
                                 ELSE copy[t[1]][t[2]]
  <2>1. t[1] \in Msgs /\ t[2] \in 1..MaxCopies /\ t = <<t[1], t[2]>>
      BY DEF Slots
  <2>2. CASE t[1] = m
      BY <1>2, <2>1, <2>2 DEF Types
  <2>3. CASE t[1] # m
      BY <1>2, <2>1, <2>3 DEF Types
  <2> QED BY <2>2, <2>3
<1> QED BY <1>5, <1>6, <1>7

(* A dispatch moves a pod's copies from the ring to the filter.             *)
LEMMA DispatchEffect ==
    ASSUME Types, NEW p \in Pods, Dispatch(p)
    PROVE  /\ copy' \in [Msgs -> [1..MaxCopies -> CopyType]]
           /\ \A t \in Slots : copy'[t[1]][t[2]] =
                 IF t \in CopiesOf(p, {"ring"})
                   THEN [copy[t[1]][t[2]] EXCEPT !.at = "filter"] ELSE copy[t[1]][t[2]]
<1>1. \A c \in CopyType : [c EXCEPT !.at = "filter"] \in CopyType
    BY DEF CopyType, Batch
<1>2. copy' \in [Msgs -> [1..MaxCopies -> CopyType]]
    BY <1>1 DEF Dispatch, Types
<1>3. ASSUME NEW t \in Slots
      PROVE  copy'[t[1]][t[2]] = IF t \in CopiesOf(p, {"ring"})
                                   THEN [copy[t[1]][t[2]] EXCEPT !.at = "filter"]
                                   ELSE copy[t[1]][t[2]]
  <2>1. t[1] \in Msgs /\ t[2] \in 1..MaxCopies /\ t = <<t[1], t[2]>>
      BY DEF Slots
  <2> QED BY <2>1 DEF Dispatch
<1> QED BY <1>2, <1>3

(* The end of a process frees its slots.                                    *)
LEMMA EndsEffect ==
    ASSUME Types, NEW p \in Pods, Ends(p)
    PROVE  /\ copy' \in [Msgs -> [1..MaxCopies -> CopyType]]
           /\ \A t \in Slots : copy'[t[1]][t[2]] =
                 IF copy[t[1]][t[2]].pod = p THEN Nothing ELSE copy[t[1]][t[2]]
           /\ pod' \in [Pods -> {"up", "stopping", "down"}]
<1>1. copy' \in [Msgs -> [1..MaxCopies -> CopyType]]
    BY NothingType DEF Ends, Types
<1>2. ASSUME NEW t \in Slots
      PROVE  copy'[t[1]][t[2]] = IF copy[t[1]][t[2]].pod = p THEN Nothing ELSE copy[t[1]][t[2]]
  <2>1. t[1] \in Msgs /\ t[2] \in 1..MaxCopies
      BY DEF Slots
  <2> QED BY <2>1 DEF Ends
<1>3. pod' \in [Pods -> {"up", "stopping", "down"}]
    BY DEF Ends, Types
<1> QED BY <1>1, <1>2, <1>3

-----------------------------------------------------------------------------
(* The backoff is an integer, whatever overflows.                           *)
LEMMA BackoffType ==
    ASSUME NEW base \in Int, NEW a \in Nat, NEW d \in Policy!Backoff(base, a + 1)
    PROVE  d \in Int
<1>1. 2 ^ (a + 1 - 1) \in Int
    OBVIOUS
<1>2. Policy!Half \in Nat \ {0}
    BY DEF Policy!Half
<1>3. \A p \in Policy!ToInt(2 ^ (a + 1 - 1)) : p \in Int
    BY <1>1, <1>2 DEF Policy!ToInt
<1>4. \A x \in Int : Policy!Wrap(x) \in Int
    BY <1>2 DEF Policy!Wrap
<1>5. PICK p \in Policy!ToInt(2 ^ (a + 1 - 1)) :
          d = IF Policy!Wrap(base * p) > 300 THEN 300 ELSE Policy!Wrap(base * p)
    BY DEF Policy!Backoff
<1>6. base * p \in Int
    BY <1>3
<1> QED BY <1>4, <1>5, <1>6

(* What either coordinator answers is one of four actions; the limit on     *)
(* retries plays no part here, as every receive starts counting anew.       *)
LEMMA Answers ==
    ASSUME NEW a \in Nat, NEW r \in Verdicts, NEW o \in ResolveOutcome(a, r)
    PROVE  o.action \in {"Ack", "Retry", "RetryWithDelay", "DLQ"} /\ o.attempts \in Nat
           /\ o.delay \in Int
<1> USE SQSAssumption DEF Policy!Outcome, Policy!Exhausted
<1>1. r.action \in Policy!Actions /\ r.delay \in Int
    OBVIOUS
<1>2. CASE r.action \in {"Ack", "DLQ", "other"}
    BY <1>2 DEF ResolveOutcome, Policy!DefaultHandle, Policy!CoordinatorHandle
<1>3. CASE r.action \in {"Retry", "RetryWithDelay"} /\ ~Custom
  <2>1. CASE a + 1 > MaxRetries
      BY <1>3, <2>1 DEF ResolveOutcome, Policy!DefaultHandle
  <2>2. CASE ~(a + 1 > MaxRetries)
    <3>1. PICK d \in IF r.delay <= 0 THEN Policy!Backoff(RetryDelay, a + 1) ELSE {r.delay} :
              o = [action |-> IF d > 0 THEN "RetryWithDelay" ELSE r.action,
                   attempts |-> a + 1, delay |-> d]
        BY <1>3, <2>2 DEF ResolveOutcome, Policy!DefaultHandle
    <3>2. d \in Int
        BY <1>1, <3>1, BackoffType
    <3> QED BY <1>3, <3>1, <3>2
  <2> QED BY <2>1, <2>2
<1>4. CASE r.action \in {"Retry", "RetryWithDelay"} /\ Custom
    BY <1>1, <1>4 DEF ResolveOutcome, Policy!CoordinatorHandle, Policy!DefaultBase,
                      Policy!DefaultRetries
<1> QED BY <1>1, <1>2, <1>3, <1>4 DEF Policy!Actions

(* The copy in s is in another place now, the rest is as it was.            *)
Moved(s, place) ==
    /\ copy'[s[1]][s[2]].at = place
    /\ copy'[s[1]][s[2]].latest = copy[s[1]][s[2]].latest
    /\ \A t \in Slots \ {s} : copy'[t[1]][t[2]] = copy[t[1]][t[2]]

Freed(s) == Sets(s, Nothing)

(* A copy that moves on.                                                    *)
LEMMA MovesToEffect ==
    ASSUME Types, NEW s \in Slots, NEW place \in Waiting \cup Batch, MovesTo(s, place)
    PROVE  copy' \in [Msgs -> [1..MaxCopies -> CopyType]] /\ Moved(s, place)
<1> DEFINE c == [Copy(s) EXCEPT !.at = place]
<1>1. c \in CopyType /\ c.at = place /\ c.latest = Copy(s).latest
    BY SlotTypes DEF CopyType
<1>2. Becomes(s, c)
    BY DEF MovesTo
<1> HIDE DEF c
<1>3. copy' \in [Msgs -> [1..MaxCopies -> CopyType]] /\ Sets(s, c)
    BY <1>1, <1>2, BecomesEffect
<1> QED BY <1>1, <1>3 DEF Sets, Moved, Copy

(* A copy that is gone.                                                     *)
LEMMA GoneEffect ==
    ASSUME Types, NEW s \in Slots, Gone(s)
    PROVE  copy' \in [Msgs -> [1..MaxCopies -> CopyType]] /\ Freed(s)
BY NothingType, BecomesEffect DEF Gone, Freed

(* Handle moves the copy to where the coordinator's answer sends it, and    *)
(* keeps account of the successes.                                          *)
HandledTo == {"Ack", "ring", "RetryWithDelay", "DLQ"}
Accounted(m, place) ==
    IF place = "Ack"
      THEN /\ succeeded' = succeeded \cup {m}
           /\ again' = again \cup (succeeded \cap {m}) \cup (Keys({m}) \cap Keys(succeeded))
      ELSE UNCHANGED <<succeeded, again>>

(* The copy after a verdict.                                                *)
LEMMA AfterHandleType ==
    ASSUME NEW c \in CopyType, NEW o, o.attempts \in Nat, o.delay \in Int,
           o.action \in {"Ack", "Retry", "RetryWithDelay", "DLQ"}
    PROVE  /\ AfterHandle(c, o) \in CopyType /\ AfterHandle(c, o).latest = c.latest
           /\ AfterHandle(c, o).at = IF o.action = "Retry" THEN "ring" ELSE o.action
<1>1. (IF o.action = "Retry" THEN "ring" ELSE o.action) \in Waiting \cup Batch
    BY DEF Waiting, Batch
<1> QED BY <1>1 DEF AfterHandle, CopyType

(* The coordinator's answer, whatever the handler returned.                 *)
LEMMA HandleEffect ==
    ASSUME Types, NEW s \in Slots, Handle(s)
    PROVE  /\ copy' \in [Msgs -> [1..MaxCopies -> CopyType]]
           /\ \E place \in HandledTo : Moved(s, place) /\ Accounted(s[1], place)
<1>1. PICK r \in Verdicts : \E o \in ResolveOutcome(Copy(s).attempts, r) :
          /\ Becomes(s, AfterHandle(Copy(s), o))
          /\ Accounted(s[1], o.action)
    BY DEF Handle, Accounted
<1>2. PICK o \in ResolveOutcome(Copy(s).attempts, r) :
          /\ Becomes(s, AfterHandle(Copy(s), o))
          /\ Accounted(s[1], o.action)
    BY <1>1
<1> DEFINE place == IF o.action = "Retry" THEN "ring" ELSE o.action
           c == AfterHandle(Copy(s), o)
<1>3. Copy(s) \in CopyType /\ Copy(s).attempts \in Nat
    BY SlotTypes DEF CopyType
<1>4. /\ o.action \in {"Ack", "Retry", "RetryWithDelay", "DLQ"}
      /\ o.attempts \in Nat /\ o.delay \in Int
    BY <1>3, Answers
<1>5. place \in HandledTo /\ Accounted(s[1], place)
    BY <1>2, <1>4 DEF HandledTo, Accounted
<1>6. c \in CopyType /\ c.at = place /\ c.latest = Copy(s).latest
    BY <1>3, <1>4, AfterHandleType
<1>7. Becomes(s, c)
    BY <1>2
<1> HIDE DEF c, place
<1>8. copy' \in [Msgs -> [1..MaxCopies -> CopyType]] /\ Sets(s, c)
    BY <1>6, <1>7, BecomesEffect
<1>9. Moved(s, place)
    BY <1>6, <1>8 DEF Sets, Moved, Copy
<1> QED BY <1>5, <1>8, <1>9

-----------------------------------------------------------------------------
(* What each action does to the invariant, most often through one of the    *)
(* following lemmas.                                                        *)

(* Every slot belongs to a message.                                         *)
LEMMA SlotMsgs == \A s \in Slots : s[1] \in Msgs
BY DEF Slots

(* Moves and departures that leave MessageOnce and KeyOnce alone.           *)
LEMMA MoveKeepsHeld ==
    ASSUME NEW s \in Slots, NEW place, Moved(s, place), place \notin {"none", "mark"},
           Copy(s).at \notin {"none", "mark", "Ack"},
           NEW m \in Msgs, HeldOnce(m), queue'[m] = queue[m],
           m \in succeeded' => m \in succeeded \/ (s[1] = m /\ place = "Ack")
    PROVE  HeldOnce(m)'
<1> USE DEF Copy, Moved
<1>1. ASSUME NEW t \in Slots, NEW u \in Slots, t[1] = m, u[1] = m,
             copy'[t[1]][t[2]].at # "none", copy'[u[1]][u[2]].at # "none"
      PROVE  t = u
    BY <1>1 DEF HeldOnce
<1>2. ASSUME NEW t \in Slots, t[1] = m
      PROVE  /\ copy'[t[1]][t[2]].at \notin {"none", "mark"} =>
                    copy'[t[1]][t[2]].latest /\ queue'[m] = "invisible"
             /\ copy'[t[1]][t[2]].at = "mark" => queue'[m] = "deleted"
  <2>1. CASE t = s
      BY <1>2, <2>1 DEF HeldOnce
  <2>2. CASE t # s
      BY <1>2, <2>2 DEF HeldOnce
  <2> QED BY <2>1, <2>2
<1>3. ASSUME m \in succeeded'
      PROVE  queue'[m] = "deleted" \/ \E t \in Slots : t[1] = m /\ copy'[t[1]][t[2]].at = "Ack"
    BY <1>3 DEF HeldOnce
<1> QED BY <1>1, <1>2, <1>3 DEF HeldOnce

(* A copy that goes leaves its message at most one.                         *)
LEMMA FreeKeepsHeld ==
    ASSUME NEW s \in Slots, Freed(s), Copy(s).at \notin {"none", "Ack"},
           NEW m \in Msgs, HeldOnce(m),
           m # s[1] => queue'[m] = queue[m],
           queue[m] = "deleted" => queue'[m] = "deleted",
           UNCHANGED succeeded
    PROVE  HeldOnce(m)'
<1> USE NothingType DEF Copy, Freed, Sets
<1>1. ASSUME NEW t \in Slots, copy'[t[1]][t[2]].at # "none"
      PROVE  t # s /\ copy'[t[1]][t[2]] = copy[t[1]][t[2]]
    BY <1>1
<1>2. CASE m = s[1]
  <2>1. \A t \in Slots : t[1] = m => copy'[t[1]][t[2]].at = "none"
      BY <1>1, <1>2 DEF HeldOnce
  <2>2. m \in succeeded => queue[m] = "deleted"
      BY <1>2 DEF HeldOnce
  <2> QED BY <2>1, <2>2 DEF HeldOnce
<1>3. CASE m # s[1]
    BY <1>1, <1>3 DEF HeldOnce
<1> QED BY <1>2, <1>3

(* A copy that moves on, but not past the filter, disturbs no key.          *)
LEMMA MoveKeepsPassed ==
    ASSUME NEW s \in Slots, NEW place, Moved(s, place),
           place \in Through => Copy(s).at \in Through,
           Copy(s).at \in {"Ack", "mark"} => place \in {"Ack", "mark"},
           NEW key, PassedOnce(key), UNCHANGED marked,
           key \in Keys(succeeded') => key \in Keys(succeeded) \/ (Key[s[1]] = key /\ place = "Ack")
    PROVE  PassedOnce(key)'
<1> USE DEF Copy, Moved
<1>1. \A t \in Slots : copy'[t[1]][t[2]].at \in Through => copy[t[1]][t[2]].at \in Through
    OBVIOUS
<1>2. \A t \in Slots : copy[t[1]][t[2]].at \in {"Ack", "mark"} => copy'[t[1]][t[2]].at \in {"Ack", "mark"}
    OBVIOUS
<1>3. key \in Keys(succeeded') =>
          \/ key \in marked
          \/ \E t \in Slots : Key[t[1]] = key /\ copy'[t[1]][t[2]].at \in {"Ack", "mark"}
    BY <1>2 DEF PassedOnce
<1>4. \A t, u \in Slots :
          Key[t[1]] = key /\ Key[u[1]] = key
          /\ copy'[t[1]][t[2]].at \in Through /\ copy'[u[1]][u[2]].at \in Through => t = u
    BY <1>1 DEF PassedOnce
<1>5. key \in marked => \A t \in Slots : Key[t[1]] = key => copy'[t[1]][t[2]].at \notin Through
    BY <1>1 DEF PassedOnce
<1>6. (Keys(succeeded))' = Keys(succeeded')
    BY DEF Keys
<1> QED BY <1>3, <1>4, <1>5, <1>6 DEF PassedOnce, Keys

(* A copy that goes leaves its key at most one.                             *)
LEMMA FreeKeepsPassed ==
    ASSUME NEW s \in Slots, Freed(s), Copy(s).at \notin {"Ack", "mark"},
           NEW key, PassedOnce(key), UNCHANGED <<marked, succeeded>>
    PROVE  PassedOnce(key)'
<1> USE NothingType DEF Copy, Freed, Sets
<1>1. \A t \in Slots : copy'[t[1]][t[2]].at \in Through => copy[t[1]][t[2]].at \in Through
    BY DEF Through, Batch
<1>2. \A t \in Slots : copy[t[1]][t[2]].at \in {"Ack", "mark"} => copy'[t[1]][t[2]].at \in {"Ack", "mark"}
    OBVIOUS
<1> QED BY <1>1, <1>2 DEF PassedOnce, Keys

(* What happens to the copies of one message does not affect another.       *)
LEMMA OtherMessage ==
    ASSUME NEW m \in Msgs, HeldOnce(m), queue'[m] = queue[m], UNCHANGED succeeded,
           \A t \in Slots : t[1] = m => copy'[t[1]][t[2]] = copy[t[1]][t[2]]
    PROVE  HeldOnce(m)'
<1>1. \A t, u \in Slots : t[1] = m /\ u[1] = m /\ copy'[t[1]][t[2]].at # "none"
                            /\ copy'[u[1]][u[2]].at # "none" => t = u
    BY DEF HeldOnce, Copy
<1>2. \A t \in Slots : t[1] = m =>
          /\ copy'[t[1]][t[2]].at \notin {"none", "mark"} =>
                 copy'[t[1]][t[2]].latest /\ queue'[m] = "invisible"
          /\ copy'[t[1]][t[2]].at = "mark" => queue'[m] = "deleted"
    BY DEF HeldOnce, Copy
<1>3. m \in succeeded' =>
          queue'[m] = "deleted" \/ \E t \in Slots : t[1] = m /\ copy'[t[1]][t[2]].at = "Ack"
    BY DEF HeldOnce, Copy
<1> QED BY <1>1, <1>2, <1>3 DEF HeldOnce, Copy

(* What changes neither the places that count for a key nor its mark.       *)
LEMMA KeyUndisturbed ==
    ASSUME NEW key, PassedOnce(key), UNCHANGED <<marked, succeeded>>,
           \A t \in Slots :
             /\ copy'[t[1]][t[2]].at \in Through => copy[t[1]][t[2]].at \in Through
             /\ copy[t[1]][t[2]].at \in {"Ack", "mark"} =>
                    copy'[t[1]][t[2]].at \in {"Ack", "mark"}
    PROVE  PassedOnce(key)'
<1>1. \A t, u \in Slots : Key[t[1]] = key /\ Key[u[1]] = key /\ copy'[t[1]][t[2]].at \in Through
                            /\ copy'[u[1]][u[2]].at \in Through => t = u
    BY DEF PassedOnce, Copy
<1>2. key \in marked' =>
          \A t \in Slots : Key[t[1]] = key => copy'[t[1]][t[2]].at \notin Through
    BY DEF PassedOnce, Copy
<1>3. key \in Keys(succeeded') =>
          \/ key \in marked'
          \/ \E t \in Slots : Key[t[1]] = key /\ copy'[t[1]][t[2]].at \in {"Ack", "mark"}
    BY DEF PassedOnce, Copy
<1> QED BY <1>1, <1>2, <1>3 DEF PassedOnce, Copy, Keys

(* No receipt becomes the latest, and no slot is half freed.                *)
LEMMA ReceiptsUndisturbed ==
    ASSUME FreeIsNothing, OneLatest,
           \A t \in Slots :
             /\ copy'[t[1]][t[2]].at = "none" => copy'[t[1]][t[2]] = Nothing
             /\ copy'[t[1]][t[2]].latest => copy[t[1]][t[2]].latest
    PROVE  FreeIsNothing' /\ OneLatest'
<1>1. FreeIsNothing'
    BY DEF FreeIsNothing, Copy
<1>2. OneLatest'
    BY DEF OneLatest, Copy
<1> QED BY <1>1, <1>2

(* Publish makes a message visible that nobody has a copy of.               *)
LEMMA PublishStep ==
    ASSUME IInv, NEW m \in Msgs, Publish(m)
    PROVE  IInv'
<1> USE SQSAssumption, NothingType, SlotMsgs DEF IInv, Copy
<1>1. queue[m] = "absent" /\ queue' = [queue EXCEPT ![m] = "visible"]
      /\ UNCHANGED <<copy, marked, dlq, pod, faults, succeeded, again, excused, unanswered>>
    BY DEF Publish, history
<1>2. Types'
    BY <1>1 DEF Types
<1>3. FreeIsNothing' /\ OneLatest'
    BY <1>1 DEF FreeIsNothing, OneLatest
<1>4. DeleteJustified' /\ DeletedWasSettled'
    BY <1>1 DEF DeleteJustified, DeletedWasSettled, Keys, Types
<1>5. MessageOnce'
    BY <1>1 DEF MessageOnce, HeldOnce, Types
<1>6. KeyOnce'
    BY <1>1, KeyUndisturbed DEF KeyOnce
<1>7. RepeatsExplained'
    BY <1>1 DEF RepeatsExplained
<1> QED BY <1>2, <1>3, <1>4, <1>5, <1>6, <1>7

(* A visibility timeout excuses its message if a copy of it is under way.   *)
LEMMA VisibilityStep ==
    ASSUME IInv, NEW m \in Msgs, VisibilityTimeout(m)
    PROVE  IInv'
<1> USE SQSAssumption, NothingType, SlotMsgs DEF IInv, Copy
<1>1. /\ queue[m] = "invisible" /\ queue' = [queue EXCEPT ![m] = "visible"]
      /\ excused \subseteq excused' /\ excused' \subseteq excused \cup {m}
      /\ m \notin excused' => \A s \in Slots : s[1] = m => Copy(s) = Nothing
      /\ UNCHANGED <<copy, marked, dlq, pod, faults, succeeded, again, unanswered>>
    BY DEF VisibilityTimeout, Held, Slots
<1>2. Types'
    BY <1>1 DEF Types
<1>3. FreeIsNothing' /\ OneLatest'
    BY <1>1 DEF FreeIsNothing, OneLatest
<1>4. DeleteJustified' /\ DeletedWasSettled'
    BY <1>1 DEF DeleteJustified, DeletedWasSettled, Keys, Types
<1>5. MessageOnce'
    BY <1>1 DEF MessageOnce, HeldOnce, Types
<1>6. KeyOnce'
    BY <1>1, KeyUndisturbed DEF KeyOnce
<1>7. RepeatsExplained'
    BY <1>1 DEF RepeatsExplained
<1> QED BY <1>2, <1>3, <1>4, <1>5, <1>6, <1>7

(* The timer wheel moves a copy to the ring.                                *)
LEMMA FireStep ==
    ASSUME IInv, NEW s \in Slots, Fire(s)
    PROVE  IInv'
<1> USE SQSAssumption, NothingType, SlotMsgs DEF IInv, Copy
<1>1. /\ Copy(s).at = "wheel" /\ copy' \in [Msgs -> [1..MaxCopies -> CopyType]] /\ Moved(s, "ring")
      /\ UNCHANGED <<queue, marked, dlq, pod, faults, succeeded, again, excused, unanswered>>
    BY MovesToEffect DEF Fire, Waiting, remote, history
<1>2. Types'
    BY <1>1 DEF Types, Moved
<1>3. FreeIsNothing' /\ OneLatest'
    BY <1>1 DEF FreeIsNothing, OneLatest, Moved
<1>4. DeleteJustified' /\ DeletedWasSettled'
    BY <1>1 DEF DeleteJustified, DeletedWasSettled, Keys, Types, Moved
<1>5. MessageOnce'
    BY <1>1, MoveKeepsHeld DEF MessageOnce, Types
<1>6. KeyOnce'
    BY <1>1, MoveKeepsPassed DEF KeyOnce, Through, Batch
<1>7. RepeatsExplained'
    BY <1>1 DEF RepeatsExplained, Moved
<1> QED BY <1>2, <1>3, <1>4, <1>5, <1>6, <1>7

(* The filter and its error path, in these terms: what it takes for a       *)
(* duplicate has a marked key or no answer; what it lets through has no     *)
(* key, or is the first with it under way, or adds the key to excused.      *)
Filtered(s) ==
    \/ /\ Moved(s, "duplicate")
       /\ s[1] \in unanswered' \/ (Key[s[1]] # NoKey /\ Key[s[1]] \in marked)
    \/ /\ Moved(s, "handle")
       /\ \/ Key[s[1]] = NoKey
          \/ Key[s[1]] \in excused'
          \/ /\ Key[s[1]] \notin marked
             /\ \A t \in Slots : Key[t[1]] = Key[s[1]] => Copy(t).at \notin Through

(* Filter, with or without an error of the store, is one of these.          *)
LEMMA FilterEffect ==
    ASSUME Types, NEW s \in Slots, Filter(s)
    PROVE  /\ copy' \in [Msgs -> [1..MaxCopies -> CopyType]] /\ faults' \in 0..MaxFaults
           /\ excused \subseteq excused' /\ excused' \subseteq excused \cup Keys(Msgs)
           /\ unanswered \subseteq unanswered' /\ unanswered' \subseteq Msgs
           /\ Filtered(s)
<1> USE SlotMsgs DEF Filtered
<1> DEFINE G == /\ copy' \in [Msgs -> [1..MaxCopies -> CopyType]] /\ faults' \in 0..MaxFaults
                /\ excused \subseteq excused' /\ excused' \subseteq excused \cup Keys(Msgs)
                /\ unanswered \subseteq unanswered' /\ unanswered' \subseteq Msgs
                /\ Filtered(s)
<1>0. faults \in 0..MaxFaults /\ unanswered \subseteq Msgs /\ s[1] \in Msgs
    BY DEF Types
<1>1. \A place \in {"handle", "duplicate"} : MovesTo(s, place) =>
          copy' \in [Msgs -> [1..MaxCopies -> CopyType]] /\ Moved(s, place)
    BY MovesToEffect DEF Batch
<1>2. ASSUME Key[s[1]] = NoKey, MovesTo(s, "handle"), UNCHANGED <<faults, excused, unanswered>>
      PROVE  G
    BY <1>0, <1>1, <1>2
<1>3. ASSUME Key[s[1]] # NoKey, Works(Copy(s).pod), UNCHANGED unanswered,
             MovesTo(s, IF Exists(s[1]) THEN "duplicate" ELSE "handle"),
             excused' = excused \cup
                 (IF Exists(s[1]) \/ Passed(s[1]) = {} THEN {} ELSE {Key[s[1]]})
      PROVE  G
  <2>1. faults' \in 0..MaxFaults
      BY <1>0, <1>3 DEF Works
  <2>2. CASE Exists(s[1])
      BY <1>0, <1>1, <1>3, <2>1, <2>2 DEF Exists
  <2>3. CASE ~Exists(s[1]) /\ Passed(s[1]) = {}
    <3>1. \A t \in Slots : Key[t[1]] = Key[s[1]] => Copy(t).at \notin Through
        BY <2>3 DEF Passed, Through
    <3> QED BY <1>0, <1>1, <1>3, <2>1, <2>3, <3>1 DEF Exists
  <2>4. CASE ~Exists(s[1]) /\ Passed(s[1]) # {}
    <3>1. excused' = excused \cup {Key[s[1]]} /\ Key[s[1]] \in Keys(Msgs)
        BY <1>0, <1>3, <2>4 DEF Keys
    <3> QED BY <1>0, <1>1, <1>3, <2>1, <2>4, <3>1
  <2> QED BY <2>2, <2>3, <2>4
<1>4. ASSUME Fails(Copy(s).pod), MovesTo(s, "duplicate"),
             unanswered' = unanswered \cup {s[1]}, UNCHANGED excused
      PROVE  G
  <2>1. faults' \in 0..MaxFaults
      BY <1>0, <1>4, SQSAssumption DEF Fails, Fault
  <2> QED BY <1>0, <1>1, <1>4, <2>1
<1> QED BY <1>2, <1>3, <1>4 DEF Filter

(* The other copies of a key are not affected by what happens to one with   *)
(* another key.                                                             *)
LEMMA OtherKey ==
    ASSUME NEW s \in Slots, NEW key, Key[s[1]] # key, PassedOnce(key),
           \A t \in Slots \ {s} : copy'[t[1]][t[2]] = copy[t[1]][t[2]],
           key \in marked' <=> key \in marked, UNCHANGED succeeded
    PROVE  PassedOnce(key)'
<1>1. \A t \in Slots : Key[t[1]] = key => copy'[t[1]][t[2]] = copy[t[1]][t[2]]
    OBVIOUS
<1> QED BY <1>1 DEF PassedOnce, Copy, Keys

(* filterDuplicates: the first copy of a key passes while the key is        *)
(* neither marked nor under way.                                            *)
LEMMA FilterStep ==
    ASSUME IInv, NEW s \in Slots, Filter(s)
    PROVE  IInv'
<1> USE SQSAssumption, NothingType, SlotMsgs DEF IInv, Copy
<1>1. /\ Copy(s).at = "filter" /\ UNCHANGED <<queue, marked, dlq, pod, succeeded, again>>
      /\ copy' \in [Msgs -> [1..MaxCopies -> CopyType]] /\ faults' \in 0..MaxFaults
      /\ excused \subseteq excused' /\ excused' \subseteq excused \cup Keys(Msgs)
      /\ unanswered \subseteq unanswered' /\ unanswered' \subseteq Msgs
      /\ Filtered(s)
    BY FilterEffect DEF Filter, remote
<1>2. Types'
    BY <1>1 DEF Types, Moved, Filtered
<1>3. FreeIsNothing' /\ OneLatest'
    BY <1>1 DEF FreeIsNothing, OneLatest, Moved, Filtered
<1>4. DeleteJustified' /\ DeletedWasSettled'
    BY <1>1 DEF DeleteJustified, DeletedWasSettled, Keys, Types, Moved, Filtered
<1>5. MessageOnce'
    BY <1>1, MoveKeepsHeld DEF MessageOnce, Types, Filtered
<1>6. KeyOnce'
  <2> SUFFICES ASSUME NEW key \in Keys(Msgs), key \notin excused' PROVE PassedOnce(key)'
      BY DEF KeyOnce
  <2>1. PassedOnce(key)
      BY <1>1 DEF KeyOnce
  <2>2. CASE Moved(s, "duplicate")
      BY <1>1, <2>1, <2>2, MoveKeepsPassed DEF Through
  <2>3. CASE Moved(s, "handle") /\ Key[s[1]] # key
      BY <1>1, <2>1, <2>3, OtherKey DEF Moved
  <2>4. CASE Moved(s, "handle") /\ Key[s[1]] = key /\ ~Moved(s, "duplicate")
    <3>1. /\ key \notin marked
          /\ \A t \in Slots : Key[t[1]] = key => Copy(t).at \notin Through
        BY <1>1, <2>4 DEF Filtered, Keys
    <3>2. "Ack" \in Through /\ "mark" \in Through
        BY DEF Through, Batch
    <3> QED BY <1>1, <2>1, <2>4, <3>1, <3>2 DEF Moved, PassedOnce, Keys
  <2> QED BY <1>1, <2>2, <2>3, <2>4 DEF Filtered
<1>7. RepeatsExplained'
    BY <1>1 DEF RepeatsExplained, Moved, Filtered
<1> QED BY <1>2, <1>3, <1>4, <1>5, <1>6, <1>7

(* A handler's second success for a message or a key finds its excuse.      *)
LEMMA HandleStep ==
    ASSUME IInv, NEW s \in Slots, Handle(s)
    PROVE  IInv'
<1> USE SQSAssumption, NothingType, SlotMsgs DEF IInv, Copy
<1>0. PICK place \in HandledTo : Moved(s, place) /\ Accounted(s[1], place)
    BY HandleEffect
<1>1. /\ Copy(s).at = "handle" /\ copy' \in [Msgs -> [1..MaxCopies -> CopyType]]
      /\ Moved(s, place) /\ Accounted(s[1], place)
      /\ UNCHANGED <<queue, marked, dlq, pod, faults, excused, unanswered>>
    BY <1>0, HandleEffect DEF Handle, remote
<1>2. Types'
  <2>1. succeeded' \subseteq Msgs
      BY <1>1 DEF Accounted, Types
  <2>2. again' \subseteq Msgs \cup Keys(Msgs)
      BY <1>1 DEF Accounted, Types, Keys
  <2> QED BY <1>1, <2>1, <2>2 DEF Types
<1>3. FreeIsNothing' /\ OneLatest'
    BY <1>1 DEF FreeIsNothing, OneLatest, Moved, HandledTo, Accounted
<1>4. DeleteJustified' /\ DeletedWasSettled'
  <2>1. /\ succeeded \subseteq succeeded' /\ Keys(succeeded) \subseteq Keys(succeeded')
        /\ place = "Ack" => s[1] \in succeeded'
      BY <1>1 DEF Accounted, Keys
  <2>2. Keys(succeeded)' = Keys(succeeded')
      BY DEF Keys
  <2>3. DeleteJustified'
      BY <1>1, <2>1, <2>2 DEF DeleteJustified, Moved, HandledTo
  <2>4. DeletedWasSettled'
    <3> SUFFICES ASSUME NEW m \in Msgs \ unanswered, queue[m] = "deleted"
                 PROVE  m \in succeeded' \cup dlq \/ Keys({m}) \cap Keys(succeeded') # {}
        BY <1>1, <2>2 DEF DeletedWasSettled
    <3> QED BY <2>1 DEF DeletedWasSettled
  <2> QED BY <2>3, <2>4
<1>5. MessageOnce'
    BY <1>1, MoveKeepsHeld DEF MessageOnce, Types, HandledTo, Accounted
<1>6. KeyOnce'
  <2>1. \A key \in Keys(succeeded') : key \in Keys(succeeded) \/ (Key[s[1]] = key /\ place = "Ack")
      BY <1>1 DEF Accounted, Keys
  <2> QED BY <1>1, <2>1, MoveKeepsPassed DEF KeyOnce, Through, Batch, HandledTo
<1>7. RepeatsExplained'
  <2>1. s[1] \in succeeded => s[1] \in excused
      BY <1>1 DEF MessageOnce, HeldOnce
  <2>2. ASSUME NEW key \in Keys({s[1]}) \cap Keys(succeeded) PROVE key \in excused
    <3>1. key \in Keys(Msgs) /\ Key[s[1]] = key
        BY DEF Keys
    <3> QED BY <1>1, <3>1 DEF KeyOnce, PassedOnce, Through, Batch
  <2> QED BY <1>1, <2>1, <2>2 DEF RepeatsExplained, Accounted
<1> QED BY <1>2, <1>3, <1>4, <1>5, <1>6, <1>7

(* A failing or working call stays within the bound on faults.              *)
LEMMA FaultTypes ==
    ASSUME Types
    PROVE  /\ \A p \in Pods : Works(p) \/ Fails(p) => faults' \in 0..MaxFaults
           /\ Fault => faults' \in 0..MaxFaults
BY SQSAssumption DEF Types, Works, Fails, Fault

(* Copies vanish with their process: what was about to be acknowledged      *)
(* excuses its message, what was about to be marked its key.                *)
Vanished ==
    \A t \in Slots :
        \/ copy'[t[1]][t[2]] = copy[t[1]][t[2]]
        \/ /\ copy'[t[1]][t[2]] = Nothing
           /\ Copy(t).at = "Ack" => t[1] \in excused'
           /\ Copy(t).at \in {"Ack", "mark"} => Key[t[1]] = NoKey \/ Key[t[1]] \in excused'

(* Vanishing in this way keeps the whole invariant.                         *)
LEMMA VanishedStep ==
    ASSUME IInv, Vanished, excused \subseteq excused',
           UNCHANGED <<queue, marked, dlq, succeeded, again, unanswered>>
    PROVE  /\ FreeIsNothing' /\ OneLatest' /\ DeleteJustified' /\ DeletedWasSettled'
           /\ MessageOnce' /\ KeyOnce' /\ RepeatsExplained'
<1> USE NothingType DEF IInv, Copy, Vanished
<1>1. FreeIsNothing' /\ OneLatest'
    BY DEF FreeIsNothing, OneLatest
<1>2. DeleteJustified' /\ DeletedWasSettled'
    BY DEF DeleteJustified, DeletedWasSettled, Keys
<1>3. MessageOnce'
  <2> SUFFICES ASSUME NEW m \in Msgs, m \notin excused' PROVE HeldOnce(m)'
      BY DEF MessageOnce
  <2>1. HeldOnce(m)
      BY DEF MessageOnce
  <2>2. \A t \in Slots : copy'[t[1]][t[2]].at # "none" => copy'[t[1]][t[2]] = copy[t[1]][t[2]]
      OBVIOUS
  <2>3. \A t \in Slots : t[1] = m /\ copy[t[1]][t[2]].at = "Ack" => copy'[t[1]][t[2]].at = "Ack"
      OBVIOUS
  <2> QED BY <2>1, <2>2, <2>3 DEF HeldOnce
<1>4. KeyOnce'
  <2> SUFFICES ASSUME NEW key \in Keys(Msgs), key \notin excused' PROVE PassedOnce(key)'
      BY DEF KeyOnce
  <2>1. PassedOnce(key) /\ key # NoKey
      BY DEF KeyOnce, Keys
  <2>2. \A t \in Slots : copy'[t[1]][t[2]].at \in Through => copy[t[1]][t[2]].at \in Through
      BY DEF Through, Batch
  <2>3. \A t \in Slots : Key[t[1]] = key /\ copy[t[1]][t[2]].at \in {"Ack", "mark"} =>
            copy'[t[1]][t[2]].at \in {"Ack", "mark"}
      BY <2>1
  <2> QED BY <2>1, <2>2, <2>3 DEF PassedOnce, Keys
<1>5. RepeatsExplained'
    BY DEF RepeatsExplained
<1> QED BY <1>1, <1>2, <1>3, <1>4, <1>5

(* Return: no copy of the batch is left, so nothing needs an excuse.        *)
LEMMA ReturnStep ==
    ASSUME IInv, NEW p \in Pods, Return(p)
    PROVE  IInv'
<1>1. /\ copy' \in [Msgs -> [1..MaxCopies -> CopyType]]
      /\ pod' \in [Pods -> {"up", "stopping", "down"}]
      /\ UNCHANGED <<queue, marked, dlq, faults, succeeded, again, excused, unanswered>>
    BY EndsEffect DEF IInv, Return, remote, history
<1>2. Vanished
  <2>1. ASSUME NEW t \in Slots, Copy(t).pod = p PROVE Copy(t).at \notin {"Ack", "mark"}
      BY <2>1 DEF Return, CopiesOf, Batch
  <2>2. \A t \in Slots : copy'[t[1]][t[2]] =
            IF copy[t[1]][t[2]].pod = p THEN Nothing ELSE copy[t[1]][t[2]]
      BY EndsEffect DEF IInv, Return
  <2> QED BY <2>1, <2>2 DEF Vanished, Copy
<1>3. Types'
    BY <1>1 DEF IInv, Types
<1> QED BY <1>1, <1>2, <1>3, VanishedStep DEF IInv

(* A crash excuses what it prevents from being acknowledged or marked.      *)
LEMMA CrashStep ==
    ASSUME IInv, NEW p \in Pods, Crash(p)
    PROVE  IInv'
<1> DEFINE Lost(places) == {s[1] : s \in CopiesOf(p, places)}
<1>1. /\ copy' \in [Msgs -> [1..MaxCopies -> CopyType]]
      /\ pod' \in [Pods -> {"up", "stopping", "down"}] /\ faults' \in 0..MaxFaults
      /\ UNCHANGED <<queue, marked, dlq, succeeded, again, unanswered>>
    BY EndsEffect, FaultTypes DEF IInv, Crash, remote
<1>2. excused' = excused \cup Lost({"Ack"}) \cup Keys(Lost({"Ack", "mark"}))
    BY DEF Crash
<1>3. Vanished
  <2>1. ASSUME NEW t \in Slots, Copy(t).pod = p
        PROVE  /\ Copy(t).at = "Ack" => t[1] \in excused'
               /\ Copy(t).at \in {"Ack", "mark"} => Key[t[1]] = NoKey \/ Key[t[1]] \in excused'
      BY <1>2, <2>1 DEF CopiesOf, Keys
  <2>2. \A t \in Slots : copy'[t[1]][t[2]] =
            IF copy[t[1]][t[2]].pod = p THEN Nothing ELSE copy[t[1]][t[2]]
      BY EndsEffect DEF IInv, Crash
  <2> QED BY <2>1, <2>2 DEF Vanished, Copy
<1>4. Types'
  <2>1. \A places : Lost(places) \subseteq Msgs
      BY SlotMsgs DEF CopiesOf
  <2>2. excused' \subseteq Msgs \cup Keys(Msgs)
      BY <1>2, <2>1 DEF IInv, Types, Keys
  <2> QED BY <1>1, <2>2 DEF IInv, Types
<1>5. excused \subseteq excused'
    BY <1>2
<1> QED BY <1>1, <1>3, <1>4, <1>5, VanishedStep DEF IInv

(* Stop and Restart touch no copy.                                          *)
LEMMA PodStep ==
    ASSUME IInv, NEW p \in Pods, Stop(p) \/ Restart(p)
    PROVE  IInv'
<1>1. /\ pod' \in [Pods -> {"up", "stopping", "down"}] /\ faults' \in 0..MaxFaults
      /\ UNCHANGED <<queue, copy, marked, dlq, succeeded, again, excused, unanswered>>
    BY FaultTypes DEF IInv, Types, Stop, Stopped, Restart, remote, history
<1>2. Types'
    BY <1>1 DEF IInv, Types
<1>3. Vanished
    BY <1>1 DEF Vanished
<1> QED BY <1>1, <1>2, <1>3, VanishedStep DEF IInv

(* Dispatch: nothing about to be acknowledged or marked moves.              *)
LEMMA DispatchStep ==
    ASSUME IInv, NEW p \in Pods, Dispatch(p)
    PROVE  IInv'
<1> USE NothingType DEF IInv, Copy
<1>1. /\ copy' \in [Msgs -> [1..MaxCopies -> CopyType]]
      /\ UNCHANGED <<queue, marked, dlq, pod, faults, succeeded, again, excused, unanswered>>
    BY DispatchEffect DEF Dispatch, remote, history
<1>2. ASSUME NEW t \in Slots
      PROVE  /\ copy'[t[1]][t[2]].latest = copy[t[1]][t[2]].latest
             /\ \/ copy'[t[1]][t[2]] = copy[t[1]][t[2]]
                \/ copy[t[1]][t[2]].at = "ring" /\ copy'[t[1]][t[2]].at = "filter"
  <2>1. Copy(t) \in CopyType
      BY SlotTypes
  <2>2. copy'[t[1]][t[2]] = IF t \in CopiesOf(p, {"ring"})
                              THEN [copy[t[1]][t[2]] EXCEPT !.at = "filter"] ELSE copy[t[1]][t[2]]
      BY DispatchEffect
  <2>3. t \in CopiesOf(p, {"ring"}) => copy[t[1]][t[2]].at = "ring"
      BY DEF CopiesOf
  <2> QED BY <2>1, <2>2, <2>3 DEF CopyType
<1>3. Types'
    BY <1>1 DEF Types
<1>4. FreeIsNothing' /\ OneLatest'
    BY <1>2 DEF FreeIsNothing, OneLatest
<1>5. DeleteJustified' /\ DeletedWasSettled'
    BY <1>1, <1>2 DEF DeleteJustified, DeletedWasSettled, Keys
<1>6. MessageOnce'
  <2> SUFFICES ASSUME NEW m \in Msgs, m \notin excused PROVE HeldOnce(m)'
      BY <1>1 DEF MessageOnce
  <2>1. HeldOnce(m)
      BY DEF MessageOnce
  <2>2. \A t \in Slots :
            /\ copy'[t[1]][t[2]].at = "none" <=> copy[t[1]][t[2]].at = "none"
            /\ copy'[t[1]][t[2]].at = "mark" <=> copy[t[1]][t[2]].at = "mark"
            /\ copy'[t[1]][t[2]].at = "Ack" <=> copy[t[1]][t[2]].at = "Ack"
      BY <1>2
  <2>3. \A t \in Slots : copy'[t[1]][t[2]].latest = copy[t[1]][t[2]].latest
      BY <1>2
  <2> QED BY <1>1, <2>1, <2>2, <2>3 DEF HeldOnce
<1>7. KeyOnce'
  <2>1. \A t \in Slots :
            /\ copy'[t[1]][t[2]].at \in Through => copy[t[1]][t[2]].at \in Through
            /\ copy[t[1]][t[2]].at \in {"Ack", "mark"} =>
                   copy'[t[1]][t[2]].at \in {"Ack", "mark"}
      BY <1>2 DEF Through, Batch
  <2> QED BY <1>1, <2>1, KeyUndisturbed DEF KeyOnce
<1>8. RepeatsExplained'
    BY <1>1 DEF RepeatsExplained
<1> QED BY <1>3, <1>4, <1>5, <1>6, <1>7, <1>8

(* Receive: a message in the queue that nothing excuses has no other copy.  *)
LEMMA ReceiveStep ==
    ASSUME IInv, NEW p \in Pods, NEW m \in Msgs, Receive(p, m)
    PROVE  IInv'
<1> USE NothingType, SlotMsgs DEF IInv, Copy
<1>1. /\ copy' \in [Msgs -> [1..MaxCopies -> CopyType]]
      /\ queue[m] = "visible" /\ queue' = [queue EXCEPT ![m] = "invisible"]
      /\ UNCHANGED <<marked, dlq, pod, faults, succeeded, again, excused, unanswered>>
    BY ReceiveEffect DEF Receive, history
<1>2. PICK r \in Slots :
          /\ r[1] = m /\ Copy(r) = Nothing
          /\ \A t \in Slots : copy'[t[1]][t[2]] =
                IF t = r THEN FromSQSMessage(p, m)
                ELSE IF t[1] = m THEN Superseded(copy[t[1]][t[2]])
                ELSE copy[t[1]][t[2]]
    BY ReceiveEffect
<1>3. copy'[r[1]][r[2]].at \in {"wheel", "ring"} /\ copy'[r[1]][r[2]].latest
    BY <1>2 DEF FromSQSMessage
<1>4. ASSUME NEW t \in Slots, t # r
      PROVE  /\ copy'[t[1]][t[2]].at = copy[t[1]][t[2]].at
             /\ t[1] # m => copy'[t[1]][t[2]] = copy[t[1]][t[2]]
             /\ t[1] = m => copy'[t[1]][t[2]].latest = FALSE
             /\ copy[t[1]][t[2]] = Nothing => copy'[t[1]][t[2]] = Nothing
  <2>1. Copy(t) \in CopyType
      BY SlotTypes
  <2>2. CASE t[1] = m
    <3>1. copy'[t[1]][t[2]] = [Copy(t) EXCEPT !.latest = FALSE]
        BY <1>2, <1>4, <2>2 DEF Superseded
    <3>2. [Nothing EXCEPT !.latest = FALSE] = Nothing
        BY DEF Nothing
    <3> QED BY <2>1, <2>2, <3>1, <3>2 DEF CopyType
  <2>3. CASE t[1] # m
      BY <1>2, <1>4, <2>3
  <2> QED BY <2>2, <2>3
<1>5. Types'
    BY <1>1 DEF Types
<1>6. FreeIsNothing' /\ OneLatest'
  <2>1. FreeIsNothing'
      BY <1>3, <1>4 DEF FreeIsNothing
  <2>2. ASSUME NEW t \in Slots, NEW u \in Slots, t[1] = u[1],
               copy'[t[1]][t[2]].latest, copy'[u[1]][u[2]].latest
        PROVE  t = u
    <3>1. CASE t[1] = m
        BY <1>4, <2>2, <3>1
    <3>2. CASE t[1] # m
        BY <1>2, <1>4, <2>2, <3>2 DEF OneLatest
    <3> QED BY <3>1, <3>2
  <2>3. OneLatest'
      BY <2>2 DEF OneLatest
  <2> QED BY <2>1, <2>3
<1>7. DeleteJustified' /\ DeletedWasSettled'
  <2>1. DeleteJustified'
      BY <1>1, <1>3, <1>4 DEF DeleteJustified, Keys
  <2>2. \A n \in Msgs : queue'[n] = "deleted" => queue[n] = "deleted"
      BY <1>1 DEF Types
  <2>3. DeletedWasSettled'
      BY <1>1, <2>2 DEF DeletedWasSettled, Keys
  <2> QED BY <2>1, <2>3
<1>8. MessageOnce'
  <2> SUFFICES ASSUME NEW n \in Msgs, n \notin excused PROVE HeldOnce(n)'
      BY <1>1 DEF MessageOnce
  <2>1. HeldOnce(n)
      BY DEF MessageOnce
  <2>2. CASE n # m
    <3>1. \A t \in Slots : t[1] = n => copy'[t[1]][t[2]] = copy[t[1]][t[2]]
        BY <1>2, <1>4, <2>2
    <3> QED BY <1>1, <2>1, <2>2, <3>1, OtherMessage DEF Types
  <2>3. CASE n = m
    <3>1. \A t \in Slots : t[1] = m => copy[t[1]][t[2]].at = "none"
        BY <1>1, <2>1, <2>3 DEF HeldOnce
    <3>2. m \notin succeeded
        BY <1>1, <2>1, <2>3, <3>1 DEF HeldOnce
    <3>3. \A t \in Slots : t[1] = m /\ t # r => copy'[t[1]][t[2]].at = "none"
        BY <1>4, <3>1
    <3>4. queue'[m] = "invisible" /\ succeeded' = succeeded
        BY <1>1 DEF Types
    <3> QED BY <1>3, <2>3, <3>2, <3>3, <3>4 DEF HeldOnce
  <2> QED BY <2>2, <2>3
<1>9. KeyOnce'
  <2>1. \A t \in Slots : copy'[t[1]][t[2]].at \in Through => copy[t[1]][t[2]].at \in Through
      BY <1>3, <1>4 DEF Through, Batch
  <2>2. \A t \in Slots : copy[t[1]][t[2]].at \in {"Ack", "mark"} =>
            copy'[t[1]][t[2]].at \in {"Ack", "mark"}
      BY <1>2, <1>4
  <2> QED BY <1>1, <2>1, <2>2 DEF KeyOnce, PassedOnce, Keys
<1>10. RepeatsExplained'
    BY <1>1 DEF RepeatsExplained
<1> QED BY <1>5, <1>6, <1>7, <1>8, <1>9, <1>10

(* What DeleteMessageBatch may do to the queue.                             *)
LEMMA ChangedEffect ==
    ASSUME Types, NEW s \in Slots, NEW to \in {"visible", "deleted"}, Changed(s, to)
    PROVE  /\ queue' \in [Msgs -> {"absent", "visible", "invisible", "deleted"}]
           /\ \A n \in Msgs \ {s[1]} : queue'[n] = queue[n]
           /\ queue'[s[1]] \in {to, queue[s[1]]}
           /\ Copy(s).latest /\ queue[s[1]] = "invisible" => queue'[s[1]] = to
BY SlotMsgs DEF Types, Changed, Current

(* The two ways an Ack goes for a success, and for anything else.           *)
LEMMA AckEffect ==
    ASSUME Types, NEW s \in Slots, Ack(s)
    PROVE  /\ copy' \in [Msgs -> [1..MaxCopies -> CopyType]] /\ faults' \in 0..MaxFaults
           /\ queue' \in [Msgs -> {"absent", "visible", "invisible", "deleted"}]
           /\ \A n \in Msgs \ {s[1]} : queue'[n] = queue[n]
           /\ queue'[s[1]] \in {"deleted", queue[s[1]]}
           /\ excused \subseteq excused' /\ excused' \subseteq excused \cup {s[1]}
           /\ \/ /\ Copy(s).at = "Ack" /\ Moved(s, "mark")
                 /\ \/ s[1] \in excused'
                    \/ Copy(s).latest /\ queue[s[1]] = "invisible" => queue'[s[1]] = "deleted"
              \/ Copy(s).at \in {"duplicate", "ackDLQ"} /\ Freed(s)
<1> USE SlotMsgs
<1>1. Copy(s).pod \in Pods /\ queue \in [Msgs -> {"absent", "visible", "invisible", "deleted"}]
    BY SlotTypes DEF CopyType, Types
<1>2. faults' \in 0..MaxFaults
    BY <1>1, FaultTypes DEF Ack
<1>3. /\ copy' \in [Msgs -> [1..MaxCopies -> CopyType]]
      /\ \/ Copy(s).at = "Ack" /\ Moved(s, "mark")
         \/ Copy(s).at \in {"duplicate", "ackDLQ"} /\ Freed(s)
    BY MovesToEffect, GoneEffect DEF Ack, Batch
<1>4. CASE Changed(s, "deleted") /\ UNCHANGED excused
    BY <1>2, <1>3, <1>4, ChangedEffect
<1>5. CASE /\ excused' = excused \cup (IF Copy(s).at = "Ack" THEN {s[1]} ELSE {})
           /\ UNCHANGED queue
    BY <1>1, <1>2, <1>3, <1>5
<1> QED BY <1>4, <1>5 DEF Ack

(* Ack deletes the message, or excuses it when the call fails or its        *)
(* receipt is stale.                                                        *)
LEMMA AckStep ==
    ASSUME IInv, NEW s \in Slots, Ack(s)
    PROVE  IInv'
<1> USE SQSAssumption, NothingType, SlotMsgs DEF IInv, Copy
<1>1. /\ copy' \in [Msgs -> [1..MaxCopies -> CopyType]] /\ faults' \in 0..MaxFaults
      /\ queue' \in [Msgs -> {"absent", "visible", "invisible", "deleted"}]
      /\ \A n \in Msgs \ {s[1]} : queue'[n] = queue[n]
      /\ queue'[s[1]] \in {"deleted", queue[s[1]]}
      /\ excused \subseteq excused' /\ excused' \subseteq excused \cup {s[1]}
      /\ \/ /\ Copy(s).at = "Ack" /\ Moved(s, "mark")
            /\ \/ s[1] \in excused'
               \/ Copy(s).latest /\ queue[s[1]] = "invisible" => queue'[s[1]] = "deleted"
         \/ Copy(s).at \in {"duplicate", "ackDLQ"} /\ Freed(s)
      /\ UNCHANGED <<marked, dlq, pod, succeeded, again, unanswered>>
    BY AckEffect DEF Ack
<1>2. Types'
    BY <1>1 DEF Types, Moved, Freed, Sets
<1>3. FreeIsNothing' /\ OneLatest'
  <2>1. CASE Moved(s, "mark")
    <3>1. \A t \in Slots : /\ copy'[t[1]][t[2]].at = "none" => copy'[t[1]][t[2]] = Nothing
                           /\ copy'[t[1]][t[2]].latest => copy[t[1]][t[2]].latest
        BY <2>1 DEF Moved, FreeIsNothing
    <3> QED BY <3>1, ReceiptsUndisturbed
  <2>2. CASE Freed(s)
    <3>1. \A t \in Slots : /\ copy'[t[1]][t[2]].at = "none" => copy'[t[1]][t[2]] = Nothing
                           /\ copy'[t[1]][t[2]].latest => copy[t[1]][t[2]].latest
        BY <2>2 DEF Freed, Sets, FreeIsNothing
    <3> QED BY <3>1, ReceiptsUndisturbed
  <2> QED BY <1>1, <2>1, <2>2
<1>4. DeleteJustified' /\ DeletedWasSettled'
  <2>1. DeleteJustified'
      BY <1>1 DEF DeleteJustified, Moved, Freed, Sets, Keys
  <2>2. s[1] \in succeeded \cup dlq \cup unanswered \/ Keys({s[1]}) \cap Keys(succeeded) # {}
      BY <1>1 DEF DeleteJustified, Keys
  <2>3. DeletedWasSettled'
      BY <1>1, <2>2 DEF DeletedWasSettled, Keys
  <2> QED BY <2>1, <2>3
<1>5. MessageOnce'
  <2> SUFFICES ASSUME NEW n \in Msgs, n \notin excused' PROVE HeldOnce(n)'
      BY DEF MessageOnce
  <2>1. HeldOnce(n)
      BY <1>1 DEF MessageOnce
  <2>2. CASE Freed(s) /\ Copy(s).at \in {"duplicate", "ackDLQ"}
      BY <1>1, <2>1, <2>2, FreeKeepsHeld
  <2>3. CASE Moved(s, "mark") /\ Copy(s).at = "Ack" /\ n # s[1]
    <3>1. \A t \in Slots : t[1] = n => copy'[t[1]][t[2]] = copy[t[1]][t[2]]
        BY <2>3 DEF Moved
    <3> QED BY <1>1, <2>1, <2>3, <3>1, OtherMessage
  <2>4. CASE Moved(s, "mark") /\ Copy(s).at = "Ack" /\ n = s[1]
    <3>1. queue'[n] = "deleted"
        BY <1>1, <2>1, <2>4 DEF HeldOnce
    <3>2. \A t \in Slots : t[1] = n /\ t # s => copy'[t[1]][t[2]].at = "none"
        BY <2>1, <2>4 DEF HeldOnce, Moved
    <3>3. copy'[s[1]][s[2]].at = "mark"
        BY <2>4 DEF Moved
    <3> QED BY <1>1, <3>1, <3>2, <3>3 DEF HeldOnce
  <2> QED BY <1>1, <2>2, <2>3, <2>4
<1>6. KeyOnce'
    BY <1>1, MoveKeepsPassed, FreeKeepsPassed DEF KeyOnce, Through, Batch
<1>7. RepeatsExplained'
    BY <1>1 DEF RepeatsExplained, Moved, Freed, Sets
<1> QED BY <1>2, <1>3, <1>4, <1>5, <1>6, <1>7

(* Mark stores the key, or excuses it when the call fails.                  *)
LEMMA MarkStep ==
    ASSUME IInv, NEW s \in Slots, Mark(s)
    PROVE  IInv'
<1> USE SQSAssumption, NothingType, SlotMsgs DEF IInv, Copy
<1>1. /\ Copy(s).at = "mark" /\ copy' \in [Msgs -> [1..MaxCopies -> CopyType]] /\ Freed(s)
      /\ faults' \in 0..MaxFaults
      /\ UNCHANGED <<queue, dlq, pod, succeeded, again, unanswered>>
      /\ \/ marked' = marked \cup Keys({s[1]}) /\ UNCHANGED excused
         \/ excused' = excused \cup Keys({s[1]}) /\ UNCHANGED marked
  <2>1. Copy(s).pod \in Pods
      BY SlotTypes DEF CopyType
  <2> QED BY <2>1, GoneEffect, FaultTypes DEF Mark
<1>2. Types'
  <2>1. Keys({s[1]}) \subseteq Keys(Msgs)
      BY DEF Keys
  <2>2. marked' \subseteq Keys(Msgs) /\ excused' \subseteq Msgs \cup Keys(Msgs)
      BY <1>1, <2>1 DEF Types
  <2> QED BY <1>1, <2>2 DEF Types
<1>3. FreeIsNothing' /\ OneLatest'
    BY <1>1 DEF FreeIsNothing, OneLatest, Freed, Sets, Keys
<1>4. DeleteJustified' /\ DeletedWasSettled'
  <2>1. s[1] \in succeeded
      BY <1>1 DEF DeleteJustified
  <2>2. Keys({s[1]}) \subseteq Keys(succeeded)
      BY <2>1 DEF Keys
  <2>3. marked \subseteq marked' /\ marked' \subseteq Keys(succeeded)
      BY <1>1, <2>2 DEF DeleteJustified
  <2>4. Keys(succeeded)' = Keys(succeeded)
      BY <1>1 DEF Keys
  <2>5. DeleteJustified'
      BY <1>1, <2>3, <2>4 DEF DeleteJustified, Freed, Sets
  <2>6. DeletedWasSettled'
      BY <1>1, <2>4 DEF DeletedWasSettled
  <2> QED BY <2>5, <2>6
<1>5. MessageOnce'
    BY <1>1, FreeKeepsHeld DEF MessageOnce
<1>6. KeyOnce'
  <2> SUFFICES ASSUME NEW key \in Keys(Msgs), key \notin excused' PROVE PassedOnce(key)'
      BY DEF KeyOnce
  <2>1. PassedOnce(key) /\ key # NoKey
      BY <1>1 DEF KeyOnce, Keys
  <2>2. CASE Key[s[1]] # key
    <3>1. key \in marked' <=> key \in marked
        BY <1>1, <2>2 DEF Keys
    <3> QED BY <1>1, <2>1, <2>2, <3>1, OtherKey DEF Freed, Sets
  <2>3. CASE Key[s[1]] = key
    <3>1. key \in marked'
        BY <1>1, <2>1, <2>3 DEF Keys
    <3>2. "none" \notin Through /\ "mark" \in Through
        BY DEF Through, Batch
    <3>3. \A t \in Slots : Key[t[1]] = key => copy'[t[1]][t[2]].at \notin Through
        BY <1>1, <2>1, <2>3, <3>2 DEF PassedOnce, Freed, Sets
    <3> QED BY <3>1, <3>3 DEF PassedOnce
  <2> QED BY <2>2, <2>3
<1>7. RepeatsExplained'
    BY <1>1 DEF RepeatsExplained, Freed, Sets, Keys
<1> QED BY <1>2, <1>3, <1>4, <1>5, <1>6, <1>7

(* A key that expires is excused; what was decided while it was marked      *)
(* keeps its reason, as the success that marked it stays.                   *)
LEMMA ExpireStep ==
    ASSUME IInv, NEW key \in Keys(Msgs), Expire(key)
    PROVE  IInv'
<1> USE DEF IInv, Copy
<1>1. /\ marked' = marked \ {key} /\ excused' = excused \cup {key}
      /\ UNCHANGED <<queue, copy, dlq, pod, faults, succeeded, again, unanswered>>
    BY DEF Expire
<1>2. Types'
    BY <1>1 DEF Types
<1>3. FreeIsNothing' /\ OneLatest'
    BY <1>1 DEF FreeIsNothing, OneLatest
<1>4. DeleteJustified' /\ DeletedWasSettled'
  <2>1. Keys(succeeded)' = Keys(succeeded)
      BY <1>1 DEF Keys
  <2>2. DeleteJustified'
      BY <1>1, <2>1 DEF DeleteJustified
  <2>3. DeletedWasSettled'
      BY <1>1, <2>1 DEF DeletedWasSettled
  <2> QED BY <2>2, <2>3
<1>5. MessageOnce'
    BY <1>1, OtherMessage DEF MessageOnce
<1>6. KeyOnce'
  <2> SUFFICES ASSUME NEW k \in Keys(Msgs), k \notin excused' PROVE PassedOnce(k)'
      BY DEF KeyOnce
  <2>1. PassedOnce(k) /\ (k \in marked' <=> k \in marked)
      BY <1>1 DEF KeyOnce
  <2> QED BY <1>1, <2>1 DEF PassedOnce, Keys
<1>7. RepeatsExplained'
    BY <1>1 DEF RepeatsExplained
<1> QED BY <1>2, <1>3, <1>4, <1>5, <1>6, <1>7

(* Nack gives the message back; its copy is gone.                           *)
LEMMA NackStep ==
    ASSUME IInv, NEW s \in Slots, Nack(s)
    PROVE  IInv'
<1> USE SQSAssumption, NothingType, SlotMsgs DEF IInv, Copy
<1>1. /\ Copy(s).at = "RetryWithDelay" /\ copy' \in [Msgs -> [1..MaxCopies -> CopyType]]
      /\ Freed(s) /\ faults' \in 0..MaxFaults
      /\ queue' \in [Msgs -> {"absent", "visible", "invisible", "deleted"}]
      /\ \A n \in Msgs : queue'[n] # queue[n] =>
            n = s[1] /\ queue[n] # "deleted" /\ queue'[n] # "deleted"
      /\ UNCHANGED <<marked, dlq, pod, succeeded, again, excused, unanswered>>
  <2>1. Copy(s).pod \in Pods
      BY SlotTypes DEF CopyType
  <2>2. /\ queue' \in [Msgs -> {"absent", "visible", "invisible", "deleted"}]
        /\ \A n \in Msgs : queue'[n] # queue[n] =>
              n = s[1] /\ queue[n] # "deleted" /\ queue'[n] # "deleted"
    <3>1. CASE UNCHANGED queue
        BY <3>1 DEF Types
    <3>2. CASE Changed(s, "visible") /\ queue[s[1]] = "invisible"
        BY <3>2, ChangedEffect
    <3> QED BY <3>1, <3>2 DEF Nack
  <2> QED BY <2>1, <2>2, GoneEffect, FaultTypes DEF Nack, history
<1>2. Types'
    BY <1>1 DEF Types, Freed, Sets
<1>3. FreeIsNothing' /\ OneLatest'
    BY <1>1 DEF FreeIsNothing, OneLatest, Freed, Sets
<1>4. DeleteJustified' /\ DeletedWasSettled'
    BY <1>1 DEF DeleteJustified, DeletedWasSettled, Keys, Types, Freed, Sets
<1>5. MessageOnce'
    BY <1>1, FreeKeepsHeld DEF MessageOnce
<1>6. KeyOnce'
    BY <1>1, FreeKeepsPassed DEF KeyOnce
<1>7. RepeatsExplained'
    BY <1>1 DEF RepeatsExplained, Freed, Sets
<1> QED BY <1>2, <1>3, <1>4, <1>5, <1>6, <1>7

(* SendToDLQ records the message before the Ack that deletes it.            *)
LEMMA SendToDLQStep ==
    ASSUME IInv, NEW s \in Slots, SendToDLQ(s)
    PROVE  IInv'
<1> USE SQSAssumption, NothingType, SlotMsgs DEF IInv, Copy
<1>1. /\ Copy(s).at = "DLQ" /\ copy' \in [Msgs -> [1..MaxCopies -> CopyType]] /\ faults' \in 0..MaxFaults
      /\ dlq \subseteq dlq' /\ dlq' \subseteq dlq \cup {s[1]}
      /\ Freed(s) \/ (Moved(s, "ackDLQ") /\ s[1] \in dlq')
      /\ UNCHANGED <<queue, marked, pod, succeeded, again, excused, unanswered>>
  <2>1. Copy(s).pod \in Pods /\ faults \in 0..MaxFaults
      BY SlotTypes DEF CopyType, Types
  <2>2. faults' \in 0..MaxFaults
      BY <2>1, FaultTypes DEF SendToDLQ
  <2>3. CASE NotSent(s)
    <3>1. Freed(s) /\ copy' \in [Msgs -> [1..MaxCopies -> CopyType]]
        BY <2>3, GoneEffect DEF NotSent
    <3>2. dlq' \in {dlq, dlq \cup {s[1]}}
        BY DEF SendToDLQ
    <3> QED BY <2>2, <3>1, <3>2 DEF SendToDLQ, history
  <2>4. CASE MovesTo(s, "ackDLQ") /\ dlq' = dlq \cup {s[1]}
    <3>1. Moved(s, "ackDLQ") /\ copy' \in [Msgs -> [1..MaxCopies -> CopyType]]
        BY <2>4, MovesToEffect DEF Batch
    <3> QED BY <2>2, <2>4, <3>1 DEF SendToDLQ, history
  <2> QED BY <2>3, <2>4 DEF SendToDLQ
<1>2. Types'
    BY <1>1 DEF Types, Moved, Freed, Sets
<1>3. FreeIsNothing' /\ OneLatest'
    BY <1>1 DEF FreeIsNothing, OneLatest, Moved, Freed, Sets
<1>4. DeleteJustified' /\ DeletedWasSettled'
    BY <1>1 DEF DeleteJustified, DeletedWasSettled, Keys, Types, Moved, Freed, Sets
<1>5. MessageOnce'
    BY <1>1, FreeKeepsHeld, MoveKeepsHeld DEF MessageOnce
<1>6. KeyOnce'
    BY <1>1, FreeKeepsPassed, MoveKeepsPassed DEF KeyOnce, Through, Batch
<1>7. RepeatsExplained'
    BY <1>1 DEF RepeatsExplained, Moved, Freed, Sets
<1> QED BY <1>2, <1>3, <1>4, <1>5, <1>6, <1>7

-----------------------------------------------------------------------------
(* The strengthened invariant holds of every reachable state.               *)
LEMMA Invariance == Spec => []IInv
<1>1. Init => IInv
  <2> SUFFICES ASSUME Init PROVE IInv
      OBVIOUS
  <2> USE SQSAssumption, NothingType, SlotMsgs
  <2>1. \A s \in Slots : copy[s[1]][s[2]] = Nothing
      BY DEF Init, Slots
  <2>2. Types
    <3>1. copy \in [Msgs -> [1..MaxCopies -> CopyType]]
        BY DEF Init
    <3>2. faults \in 0..MaxFaults
        BY DEF Init
    <3> QED BY <3>1, <3>2 DEF Init, Types
  <2>3. FreeIsNothing /\ OneLatest
      BY <2>1 DEF FreeIsNothing, OneLatest, Copy
  <2>4. DeleteJustified /\ DeletedWasSettled
      BY <2>1 DEF Init, DeleteJustified, DeletedWasSettled, Copy
  <2>5. MessageOnce
      BY <2>1 DEF Init, MessageOnce, HeldOnce, Copy
  <2>6. KeyOnce
      BY <2>1 DEF Init, KeyOnce, PassedOnce, Through, Batch, Keys, Copy
  <2>7. RepeatsExplained
      BY DEF Init, RepeatsExplained
  <2> QED BY <2>2, <2>3, <2>4, <2>5, <2>6, <2>7 DEF IInv
<1>2. IInv /\ [Next]_vars => IInv'
  <2>1. IInv /\ Next => IInv'
      BY PublishStep, ReceiveStep, VisibilityStep, FireStep, FilterStep, HandleStep, AckStep,
         MarkStep, ExpireStep, NackStep, SendToDLQStep, DispatchStep, PodStep, ReturnStep, CrashStep
         DEF Next, Receives, Step
  <2>2. IInv /\ UNCHANGED vars => IInv'
    <3> SUFFICES ASSUME IInv, UNCHANGED vars PROVE IInv'
        OBVIOUS
    <3>1. Vanished
        BY DEF vars, Vanished
    <3>2. Types'
        BY DEF vars, IInv, Types
    <3> QED BY <3>1, <3>2, VanishedStep DEF vars, IInv
  <2> QED BY <2>1, <2>2
<1> QED BY <1>1, <1>2, PTL DEF Spec

(* Types, and that of the receipts a message has at most one is the latest. *)
THEOREM TypeCorrect == Spec => []TypeOK
<1>1. ASSUME IInv PROVE TypeOK
  <2>1. ASSUME NEW m \in Msgs PROVE Cardinality({i \in Held(m) : copy[m][i].latest}) <= 1
    <3> DEFINE L == {i \in Held(m) : copy[m][i].latest}
    <3>1. \A i, j \in L : i = j
      <4> SUFFICES ASSUME NEW i \in L, NEW j \in L PROVE i = j
          OBVIOUS
      <4>1. <<m, i>> \in Slots /\ <<m, j>> \in Slots
          BY DEF Slots, Held
      <4>2. <<m, i>> = <<m, j>>
          BY <1>1, <4>1 DEF IInv, OneLatest, Copy
      <4> QED BY <4>2
    <3>2. CASE L = {}
        BY <3>2, FS_EmptySet
    <3>3. CASE L # {}
      <4>1. PICK i \in L : L = {i}
          BY <3>1, <3>3
      <4> QED BY <4>1, FS_Singleton
    <3> QED BY <3>2, <3>3
  <2> QED BY <1>1, <2>1 DEF IInv, Types, TypeOK, CopyType
<1> QED BY Invariance, <1>1, PTL

(* No crash, stale receipt, failing call or second pod makes Ack delete a   *)
(* message that was neither processed nor dead-lettered, nor repeats the    *)
(* key of one that was; a store that fails is the one exception.            *)
THEOREM DeletedOnlySettled == Spec => []DeletedWasSettled
<1>1. IInv => DeletedWasSettled
    BY DEF IInv
<1> QED BY Invariance, <1>1, PTL

(* The failure windows of README are all there are: whatever pods, keys and *)
(* redeliveries, a second success for a message or a key has one of the     *)
(* causes that README lists.                                                *)
THEOREM RepeatsOnlyExplained == Spec => []RepeatsExplained
<1>1. IInv => RepeatsExplained
    BY DEF IInv
<1> QED BY Invariance, <1>1, PTL
=============================================================================
