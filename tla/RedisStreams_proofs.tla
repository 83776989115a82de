------------------------- MODULE RedisStreams_proofs -------------------------
(***************************************************************************)
(* For any messages, pods, retry limit, verdicts and number of crashes and *)
(* failing calls: the transport implements Delivery (a handler runs within *)
(* its limit across restarts, and never again once its message succeeded,  *)
(* is in the DLQ stream or was dropped), and an entry is acknowledged only *)
(* for one of the reasons the code has.                                    *)
(***************************************************************************)
EXTENDS RedisStreams, TLAPS

(* What no pod has read has no copy and has not been run.                   *)
UnreadUntouched ==
    \A m \in Msgs : entry[m] \in {"none", "new"} =>
        copy[m] = Nothing /\ runs[m] = 0 /\ m \notin succeeded

(* As long as a copy is retried its Attempts count the runs of its handler, *)
(* in whatever pod, and none of them has succeeded.                         *)
AttemptsCountRuns ==
    \A m \in Msgs : copy[m].at = "ring" =>
        runs[m] = copy[m].attempts /\ copy[m].attempts <= Limit /\ m \notin succeeded

(* Whoever is about to acknowledge has the reason AckedWasSettled names.    *)
AckJustified ==
    \A m \in Msgs :
        /\ copy[m].at = "Ack" => m \in succeeded
        /\ copy[m].at = "sent" => m \in dead
        /\ copy[m].at = "ackDLQ" => m \in dead \cup dropped

IInv == TypeOK /\ UnreadUntouched /\ AttemptsCountRuns /\ AckJustified /\ AckedWasSettled

(* A message with a reason not to be run is on its way to its last call, or *)
(* has no copy any more; and only what was read has such a reason.          *)
ConcludedRests ==
    \A m \in Msgs :
        /\ m \in succeeded => copy[m].at \in {"none", "Ack"}
        /\ m \in dead => copy[m].at \in {"none", "sent", "ackDLQ"}
        /\ m \in dropped \/ entry[m] = "acked" => copy[m].at \in {"none", "ackDLQ"}
        /\ m \in dead \cup dropped => entry[m] \in {"pending", "acked"}

(* recoverStale acknowledges what was pending for its own consumer before   *)
(* this process has read anything: nobody has a copy of it.                 *)
RecoversOwn ==
    /\ \A m \in Msgs : copy[m] # Nothing => phase[copy[m].pod] \in {"read", "stopping"}
    /\ \A p \in Pods : \A m \in stale[p] : entry[m] \in {"pending", "acked"} /\ owner[m] = p

-----------------------------------------------------------------------------
(* The backoff is an integer, whatever overflows.                           *)
LEMMA BackoffType ==
    ASSUME NEW base \in Int, NEW a \in Nat, NEW d \in Policy!Backoff(base, a + 1)
    PROVE  d \in Int
<1>1. 2 ^ (a + 1 - 1) \in Int
    OBVIOUS
<1>2. Policy!Half \in Nat \ {0}
    BY DEF Policy!Half
<1>3. \A p \in Policy!ToInt(2 ^ (a + 1 - 1)) : p \in Int
    BY <1>1, <1>2 DEF Policy!ToInt
<1>4. \A x \in Int : Policy!Wrap(x) \in Int
    BY <1>2 DEF Policy!Wrap
<1>5. PICK p \in Policy!ToInt(2 ^ (a + 1 - 1)) :
          d = IF Policy!Wrap(base * p) > 300 THEN 300 ELSE Policy!Wrap(base * p)
    BY DEF Policy!Backoff
<1>6. base * p \in Int
    BY <1>3
<1> QED BY <1>4, <1>5, <1>6

(* What either coordinator answers: an end, or one attempt more within the  *)
(* limit.                                                                   *)
LEMMA Answers ==
    ASSUME NEW a \in Nat, NEW r \in Verdicts, NEW o \in ResolveOutcome(a, r)
    PROVE  /\ \/ o.action \in {"Ack", "DLQ"} /\ o.attempts = a
              \/ o.action \in {"Retry", "RetryWithDelay"} /\ o.attempts = a + 1 /\ a + 1 <= Limit
           /\ o.delay \in Int
<1> USE StreamsAssumption DEF Policy!Outcome, Policy!Exhausted
<1>1. r.action \in Policy!Actions /\ r.delay \in Int
    OBVIOUS
<1>2. Limit \in Nat /\ Policy!DefaultRetries(MaxRetries) \in Nat
    BY DEF Limit, Policy!DefaultRetries
<1>3. CASE ~Custom
  <2>1. o \in Policy!DefaultHandle(MaxRetries, RetryDelay, a, r) /\ Limit = MaxRetries
      BY <1>3 DEF ResolveOutcome, Limit
  <2>2. CASE r.action = "Ack"
      BY <2>1, <2>2 DEF Policy!DefaultHandle
  <2>3. CASE r.action \in {"Retry", "RetryWithDelay"} /\ a + 1 > MaxRetries
      BY <2>1, <2>3 DEF Policy!DefaultHandle
  <2>4. CASE r.action \in {"Retry", "RetryWithDelay"} /\ ~(a + 1 > MaxRetries)
    <3>1. PICK d \in IF r.delay <= 0 THEN Policy!Backoff(RetryDelay, a + 1) ELSE {r.delay} :
              o = [action |-> IF d > 0 THEN "RetryWithDelay" ELSE r.action,
                   attempts |-> a + 1, delay |-> d]
        BY <2>1, <2>4 DEF Policy!DefaultHandle
    <3>2. d \in Int
        BY <1>1, <3>1, BackoffType
    <3> QED BY <1>2, <2>1, <2>4, <3>1, <3>2
  <2>5. CASE r.action \in {"DLQ", "other"}
      BY <2>1, <2>5 DEF Policy!DefaultHandle
  <2> QED BY <1>1, <2>2, <2>3, <2>4, <2>5 DEF Policy!Actions
<1>4. CASE Custom
  <2>1. /\ o \in Policy!CoordinatorHandle(MaxRetries, RetryDelay, a, r)
        /\ Limit = Policy!DefaultRetries(MaxRetries)
      BY <1>4 DEF ResolveOutcome, Limit
  <2>2. CASE r.action = "Ack"
      BY <2>1, <2>2 DEF Policy!CoordinatorHandle
  <2>3. CASE r.action \in {"Retry", "RetryWithDelay"} /\ a + 1 > Limit
      BY <2>1, <2>3 DEF Policy!CoordinatorHandle
  <2>4. CASE r.action \in {"Retry", "RetryWithDelay"} /\ ~(a + 1 > Limit)
    <3>1. o.action = r.action /\ o.attempts = a + 1
        BY <2>1, <2>4 DEF Policy!CoordinatorHandle
    <3>2. o.delay \in Int
        BY <1>1, <2>1, <2>4 DEF Policy!CoordinatorHandle, Policy!DefaultBase
    <3> QED BY <1>2, <2>4, <3>1, <3>2
  <2>5. CASE r.action \in {"DLQ", "other"}
      BY <2>1, <2>5 DEF Policy!CoordinatorHandle
  <2> QED BY <1>1, <2>2, <2>3, <2>4, <2>5 DEF Policy!Actions
<1> QED BY <1>3, <1>4

(* What Handle does to the copy, in these terms.                            *)
Places == {"Ack", "ring", "RetryWithDelay", "DLQ"}
Handled(m, place, a, d) ==
    /\ copy' = [copy EXCEPT ![m].at = place, ![m].attempts = a, ![m].delay = d]
    /\ succeeded' = IF place = "Ack" THEN succeeded \cup {m} ELSE succeeded
    /\ a <= copy[m].attempts + 1
    /\ place = "ring" => a = copy[m].attempts + 1 /\ a <= Limit

(* The coordinator's answer, whatever the handler returned.                 *)
LEMMA HandleEffect ==
    ASSUME TypeOK, NEW m \in Msgs, Handle(m)
    PROVE  \E place \in Places, a \in Nat, d \in Int : Handled(m, place, a, d)
<1>1. PICK r \in Verdicts : \E o \in ResolveOutcome(copy[m].attempts, r) :
          /\ copy' = [copy EXCEPT ![m].at = IF o.action = "Retry" THEN "ring" ELSE o.action,
                                  ![m].attempts = o.attempts, ![m].delay = o.delay]
          /\ succeeded' = IF o.action = "Ack" THEN succeeded \cup {m} ELSE succeeded
    BY DEF Handle
<1>2. PICK o \in ResolveOutcome(copy[m].attempts, r) :
          /\ copy' = [copy EXCEPT ![m].at = IF o.action = "Retry" THEN "ring" ELSE o.action,
                                  ![m].attempts = o.attempts, ![m].delay = o.delay]
          /\ succeeded' = IF o.action = "Ack" THEN succeeded \cup {m} ELSE succeeded
    BY <1>1
<1> DEFINE place == IF o.action = "Retry" THEN "ring" ELSE o.action
<1>3. copy[m].attempts \in Nat
    BY DEF TypeOK
<1>4. /\ \/ o.action \in {"Ack", "DLQ"} /\ o.attempts = copy[m].attempts
         \/ /\ o.action \in {"Retry", "RetryWithDelay"}
            /\ o.attempts = copy[m].attempts + 1 /\ copy[m].attempts + 1 <= Limit
      /\ o.delay \in Int
    BY <1>3, Answers
<1>5. place \in Places /\ o.attempts \in Nat /\ Handled(m, place, o.attempts, o.delay)
    BY <1>2, <1>3, <1>4 DEF Places, Handled
<1> QED BY <1>4, <1>5

-----------------------------------------------------------------------------
Copy == [at : {"none", "ring", "Ack", "RetryWithDelay", "DLQ", "sent", "ackDLQ"},
         pod : Pods, attempts : Nat, delay : Int]

(* No copy is a legal value of copy.                                        *)
LEMMA NothingType == Nothing \in Copy /\ Nothing.at = "none"
BY StreamsAssumption DEF Nothing, Copy

(* A copy that is gone; all others stay as they are.                        *)
LEMMA GoneEffect ==
    ASSUME TypeOK, NEW m \in Msgs, Gone(m)
    PROVE  copy' \in [Msgs -> Copy] /\ \A n \in Msgs : copy'[n] = IF n = m THEN Nothing ELSE copy[n]
BY NothingType DEF Gone, TypeOK, Copy

(* A copy that moves on to the next call of SendToDLQ or Ack.               *)
LEMMA MovesToEffect ==
    ASSUME TypeOK, NEW m \in Msgs, NEW place \in {"sent", "ackDLQ"}, MovesTo(m, place)
    PROVE  /\ copy' \in [Msgs -> Copy]
           /\ copy'[m].at = place /\ copy'[m].pod = copy[m].pod
           /\ copy'[m].attempts = copy[m].attempts
           /\ \A n \in Msgs \ {m} : copy'[n] = copy[n]
BY SMTT(30) DEF MovesTo, TypeOK, Copy

(* What a process that ends leaves behind.                                  *)
LEMMA EndsEffect ==
    ASSUME TypeOK, NEW p \in Pods, Ends(p)
    PROVE  /\ copy' \in [Msgs -> Copy]
           /\ \A m \in Msgs : copy'[m] # Nothing =>
                 copy'[m] = copy[m] /\ copy[m].pod # p /\ owner'[m] = owner[m]
           /\ owner' \in [Msgs -> Pods \cup {Nobody}]
           /\ phase' \in [Pods -> {"bootstrap", "recover", "ack", "read", "stopping", "down"}]
           /\ stale' \in [Pods -> SUBSET Msgs] /\ parked' \subseteq Msgs
<1> USE NothingType DEF TypeOK, Copy, Ends
<1>1. copy' \in [Msgs -> Copy]
    OBVIOUS
<1>3. owner' \in [Msgs -> Pods \cup {Nobody}] /\ parked' \subseteq Msgs
    BY DEF Copies
<1>4. /\ phase' \in [Pods -> {"bootstrap", "recover", "ack", "read", "stopping", "down"}]
      /\ stale' \in [Pods -> SUBSET Msgs]
    BY DEF Goes
<1>2. ASSUME NEW m \in Msgs, copy'[m] # Nothing
      PROVE  copy'[m] = copy[m] /\ copy[m].pod # p /\ owner'[m] = owner[m]
  <2>1. copy'[m] = copy[m] /\ m \notin Copies(p)
      BY <1>2
  <2>2. copy[m].pod # p
      BY <1>2, <2>1 DEF Copies
  <2> QED BY <1>2, <2>1, <2>2
<1> QED BY <1>1, <1>2, <1>3, <1>4

-----------------------------------------------------------------------------
(* The type invariant.  Its relation of a copy to the owner of the entry is *)
(* disturbed by the end of a process, which takes both away, and that of    *)
(* the runs to the Attempts by the coordinators.                            *)
LEMMA TypeStep ==
    ASSUME TypeOK, Next
    PROVE  TypeOK'
<1> USE StreamsAssumption, NothingType DEF TypeOK, Copy
<1>0. Limit \in Nat
    BY DEF Limit, Policy!DefaultRetries
<1>1. ASSUME NEW m \in Msgs, Publish(m) PROVE TypeOK'
    BY <1>0, <1>1 DEF Publish, group, history
<1>2. ASSUME NEW p \in Pods, NEW m \in Msgs, Read(p, m) PROVE TypeOK'
    BY <1>0, <1>2 DEF Read, group, history, Consumer, Readable
<1>3. ASSUME NEW m \in Msgs, Handle(m) PROVE TypeOK'
  <2>1. PICK place \in Places, a \in Nat, d \in Int : Handled(m, place, a, d)
      BY <1>3, HandleEffect
  <2>2. copy' \in [Msgs -> Copy] /\ runs' \in [Msgs -> Nat] /\ succeeded' \subseteq Msgs
    <3>1. copy' \in [Msgs -> Copy]
      <4>1. [copy[m] EXCEPT !.at = place, !.attempts = a, !.delay = d] \in Copy
          BY DEF Places
      <4>2. copy' = [copy EXCEPT ![m] = [copy[m] EXCEPT !.at = place, !.attempts = a, !.delay = d]]
          BY <2>1 DEF Handled
      <4> QED BY <4>1, <4>2
    <3>2. runs' \in [Msgs -> Nat] /\ succeeded' \subseteq Msgs
        BY <1>3, <2>1 DEF Handle, Handled
    <3> QED BY <3>1, <3>2
  <2>3. ASSUME NEW n \in Msgs, copy'[n] # Nothing
        PROVE  owner[n] = copy'[n].pod /\ runs'[n] >= copy'[n].attempts
    <3>1. CASE n # m
        BY <1>3, <2>1, <2>3, <3>1 DEF Handle, Handled
    <3>2. CASE n = m
      <4>1. copy'[m].pod = copy[m].pod /\ copy'[m].attempts = a /\ runs'[m] = runs[m] + 1
          BY <1>3, <2>1 DEF Handle, Handled
      <4>2. copy[m] # Nothing /\ a <= copy[m].attempts + 1
          BY <1>3, <2>1 DEF Handle, Handled
      <4> QED BY <3>2, <4>1, <4>2
    <3> QED BY <3>1, <3>2
  <2> QED BY <1>3, <2>2, <2>3 DEF Handle, stream, group
<1>4. ASSUME NEW m \in Msgs, Ack(m) PROVE TypeOK'
    BY <1>4, GoneEffect DEF Ack, XAck, Leaves, Fault, group
<1>5. ASSUME NEW m \in Msgs, NackLater(m) PROVE TypeOK'
    BY <1>5, GoneEffect DEF NackLater, Leaves, stream, group
<1>6. ASSUME NEW m \in Msgs, NackNow(m) PROVE TypeOK'
    BY <1>6, GoneEffect DEF NackNow, XAck, Leaves, Fault, group
<1>7. ASSUME NEW m \in Msgs, Unrouted(m) PROVE TypeOK'
    BY <1>7, MovesToEffect DEF Unrouted, stream, group
<1>8. ASSUME NEW m \in Msgs, SendToDLQ(m) PROVE TypeOK'
  <2>0. copy[m].at = "DLQ" /\ UNCHANGED <<entry, owner, phase, stale, runs, succeeded, dropped>>
      BY <1>8 DEF SendToDLQ, stream, group
  <2>1. ASSUME dead' = dead \cup {m}, MovesTo(m, "sent"), UNCHANGED <<faults, parked>>
        PROVE  TypeOK'
      BY <2>0, <2>1, MovesToEffect
  <2>2. ASSUME Fault, NotSent(m), UNCHANGED dead PROVE TypeOK'
      BY <2>0, <2>2, GoneEffect DEF NotSent, Leaves, Fault
  <2> QED BY <1>8, <2>1, <2>2 DEF SendToDLQ
<1>9. ASSUME NEW m \in Msgs, AckSent(m) PROVE TypeOK'
  <2>0. copy[m].at = "sent" /\ UNCHANGED <<owner, phase, stale, runs, succeeded, dead, dropped>>
      BY <1>9 DEF AckSent, group
  <2>1. ASSUME XAck(m), MovesTo(m, "ackDLQ"), UNCHANGED <<faults, parked>> PROVE TypeOK'
      BY <2>0, <2>1, MovesToEffect, SMTT(30) DEF XAck
  <2>2. ASSUME Fault, NotSent(m), UNCHANGED entry PROVE TypeOK'
      BY <2>0, <2>2, GoneEffect DEF NotSent, Leaves, Fault
  <2> QED BY <1>9, <2>1, <2>2 DEF AckSent
<1>10. ASSUME NEW p \in Pods, Bootstrap(p) PROVE TypeOK'
    BY <1>10 DEF Bootstrap, Goes, Fault, stream, history
<1>11. ASSUME NEW p \in Pods, Recover(p) PROVE TypeOK'
  <2>1. \A k, S : kSubset(k, S) \subseteq SUBSET S
      BY DEF kSubset
  <2>2. stale' \in [Pods -> SUBSET Msgs]
    <3>1. CASE UNCHANGED stale
        BY <3>1
    <3>2. ASSUME NEW k, NEW ms \in kSubset(k, {m \in Msgs : entry[m] = "pending" /\ owner[m] = p}),
                 stale' = [stale EXCEPT ![p] = ms]
          PROVE  stale' \in [Pods -> SUBSET Msgs]
        BY <2>1, <3>2
    <3> QED BY <1>11, <3>1, <3>2 DEF Recover
  <2>3. phase' \in [Pods -> {"bootstrap", "recover", "ack", "read", "stopping", "down"}]
      BY <1>11 DEF Recover, Goes
  <2>4. faults' \in 0..MaxFaults
      BY <1>11 DEF Recover, Fault
  <2> QED BY <1>11, <2>2, <2>3, <2>4 DEF Recover, stream, history
<1>12. ASSUME NEW p \in Pods, RecoverAck(p) PROVE TypeOK'
    BY <1>12 DEF RecoverAck, XAck, Fault
<1>13. ASSUME NEW p \in Pods, Recovered(p) PROVE TypeOK'
    BY <1>13 DEF Recovered, Goes, AfterRecovery, stream, history
<1>14. ASSUME NEW p \in Pods, Stop(p) PROVE TypeOK'
    BY <1>14 DEF Stop, Goes, Fault, stream, history
<1>15. ASSUME NEW p \in Pods, Return(p) PROVE TypeOK'
    BY <1>15, EndsEffect DEF Return
<1>16. ASSUME NEW p \in Pods, Crash(p) PROVE TypeOK'
    BY <1>16, EndsEffect DEF Crash, Fault
<1>17. ASSUME NEW p \in Pods, Restart(p) PROVE TypeOK'
    BY <1>17 DEF Restart, Goes, stream, history
<1> QED BY <1>1, <1>2, <1>3, <1>4, <1>5, <1>6, <1>7, <1>8, <1>9, <1>10, <1>11,
       <1>12, <1>13, <1>14, <1>15, <1>16, <1>17
        DEF Next, Process, Reads, Subscribe

(* One step keeps the count of a handler's runs, across pods and restarts.  *)
LEMMA CountStep ==
    ASSUME IInv, Next
    PROVE  UnreadUntouched' /\ AttemptsCountRuns'
<1> USE StreamsAssumption, NothingType DEF IInv, TypeOK, Copy, UnreadUntouched, AttemptsCountRuns
<1>0. Limit \in Nat
    BY DEF Limit, Policy!DefaultRetries
<1>1. ASSUME NEW m \in Msgs, Publish(m) PROVE UnreadUntouched' /\ AttemptsCountRuns'
    BY <1>0, <1>1 DEF Publish, group, history
<1>2. ASSUME NEW p \in Pods, NEW m \in Msgs, Read(p, m) PROVE UnreadUntouched' /\ AttemptsCountRuns'
    BY <1>0, <1>2 DEF Read, group, history, Consumer, Readable
<1>3. ASSUME NEW m \in Msgs, Handle(m) PROVE UnreadUntouched' /\ AttemptsCountRuns'
  <2>1. PICK place \in Places, a \in Nat, d \in Int : Handled(m, place, a, d)
      BY <1>3, HandleEffect
  <2> QED BY <1>0, <1>3, <2>1 DEF Handle, Handled, Places, stream, group
<1>4. ASSUME NEW m \in Msgs, Ack(m) PROVE UnreadUntouched' /\ AttemptsCountRuns'
    BY <1>4, GoneEffect, SMTT(30) DEF Ack, XAck, Leaves, Fault, group
<1>5. ASSUME NEW m \in Msgs, NackLater(m) PROVE UnreadUntouched' /\ AttemptsCountRuns'
    BY <1>5, GoneEffect DEF NackLater, Leaves, stream, group
<1>6. ASSUME NEW m \in Msgs, NackNow(m) PROVE UnreadUntouched' /\ AttemptsCountRuns'
    BY <1>6, GoneEffect DEF NackNow, XAck, Leaves, Fault, group
<1>7. ASSUME NEW m \in Msgs, Unrouted(m) PROVE UnreadUntouched' /\ AttemptsCountRuns'
    BY <1>7, MovesToEffect DEF Unrouted, stream, group
<1>8. ASSUME NEW m \in Msgs, SendToDLQ(m) PROVE UnreadUntouched' /\ AttemptsCountRuns'
  <2>0. copy[m].at = "DLQ" /\ UNCHANGED <<entry, owner, phase, stale, runs, succeeded, dropped>>
      BY <1>8 DEF SendToDLQ, stream, group
  <2>1. ASSUME dead' = dead \cup {m}, MovesTo(m, "sent"), UNCHANGED <<faults, parked>>
        PROVE  UnreadUntouched' /\ AttemptsCountRuns'
      BY <2>0, <2>1, MovesToEffect
  <2>2. ASSUME Fault, NotSent(m), UNCHANGED dead PROVE UnreadUntouched' /\ AttemptsCountRuns'
      BY <2>0, <2>2, GoneEffect DEF NotSent, Leaves, Fault
  <2> QED BY <1>8, <2>1, <2>2 DEF SendToDLQ
<1>9. ASSUME NEW m \in Msgs, AckSent(m) PROVE UnreadUntouched' /\ AttemptsCountRuns'
  <2>0. copy[m].at = "sent" /\ UNCHANGED <<owner, phase, stale, runs, succeeded, dead, dropped>>
      BY <1>9 DEF AckSent, group
  <2>1. ASSUME XAck(m), MovesTo(m, "ackDLQ"), UNCHANGED <<faults, parked>> PROVE UnreadUntouched' /\ AttemptsCountRuns'
    <3>1. entry[m] \notin {"none", "new"} /\ entry'[m] = "acked"
        BY <2>0, <2>1 DEF XAck
    <3>2. copy'[m].at = "ackDLQ" /\ \A n \in Msgs \ {m} : copy'[n] = copy[n]
        BY <2>1, MovesToEffect
    <3>3. \A n \in Msgs \ {m} : entry'[n] = entry[n]
        BY <2>1 DEF XAck
    <3> QED BY <2>0, <3>1, <3>2, <3>3, SMTT(30)
  <2>2. ASSUME Fault, NotSent(m), UNCHANGED entry PROVE UnreadUntouched' /\ AttemptsCountRuns'
      BY <2>0, <2>2, GoneEffect DEF NotSent, Leaves, Fault
  <2> QED BY <1>9, <2>1, <2>2 DEF AckSent
<1>10. ASSUME NEW p \in Pods, Bootstrap(p) PROVE UnreadUntouched' /\ AttemptsCountRuns'
    BY <1>10 DEF Bootstrap, Goes, Fault, stream, history
<1>11. ASSUME NEW p \in Pods, Recover(p) PROVE UnreadUntouched' /\ AttemptsCountRuns'
    BY <1>11 DEF Recover, stream, history
<1>12. ASSUME NEW p \in Pods, RecoverAck(p) PROVE UnreadUntouched' /\ AttemptsCountRuns'
    BY <1>12 DEF RecoverAck, XAck, Fault
<1>13. ASSUME NEW p \in Pods, Recovered(p) PROVE UnreadUntouched' /\ AttemptsCountRuns'
    BY <1>13 DEF Recovered, Goes, AfterRecovery, stream, history
<1>14. ASSUME NEW p \in Pods, Stop(p) PROVE UnreadUntouched' /\ AttemptsCountRuns'
    BY <1>14 DEF Stop, Goes, Fault, stream, history
<1>15. ASSUME NEW p \in Pods, Return(p) PROVE UnreadUntouched' /\ AttemptsCountRuns'
    BY <1>15, EndsEffect, SMTT(30) DEF Return
<1>16. ASSUME NEW p \in Pods, Crash(p) PROVE UnreadUntouched' /\ AttemptsCountRuns'
    BY <1>16, EndsEffect DEF Crash, Fault
<1>17. ASSUME NEW p \in Pods, Restart(p) PROVE UnreadUntouched' /\ AttemptsCountRuns'
    BY <1>17 DEF Restart, Goes, stream, history
<1> QED BY <1>1, <1>2, <1>3, <1>4, <1>5, <1>6, <1>7, <1>8, <1>9, <1>10, <1>11,
       <1>12, <1>13, <1>14, <1>15, <1>16, <1>17
        DEF Next, Process, Reads, Subscribe

(* One step acknowledges only what is settled.                              *)
LEMMA AckStep ==
    ASSUME IInv, Next
    PROVE  AckJustified' /\ AckedWasSettled'
<1> USE StreamsAssumption, NothingType DEF IInv, TypeOK, Copy, AckJustified, AckedWasSettled
<1>0. Limit \in Nat
    BY DEF Limit, Policy!DefaultRetries
<1>1. ASSUME NEW m \in Msgs, Publish(m) PROVE AckJustified' /\ AckedWasSettled'
    BY <1>0, <1>1 DEF Publish, group, history
<1>2. ASSUME NEW p \in Pods, NEW m \in Msgs, Read(p, m) PROVE AckJustified' /\ AckedWasSettled'
    BY <1>0, <1>2 DEF Read, group, history, Consumer, Readable
<1>3. ASSUME NEW m \in Msgs, Handle(m) PROVE AckJustified' /\ AckedWasSettled'
  <2>1. PICK place \in Places, a \in Nat, d \in Int : Handled(m, place, a, d)
      BY <1>3, HandleEffect
  <2> QED BY <1>0, <1>3, <2>1 DEF Handle, Handled, Places, stream, group
<1>4. ASSUME NEW m \in Msgs, Ack(m) PROVE AckJustified' /\ AckedWasSettled'
    BY <1>4, GoneEffect DEF Ack, XAck, Leaves, Fault, group
<1>5. ASSUME NEW m \in Msgs, NackLater(m) PROVE AckJustified' /\ AckedWasSettled'
    BY <1>5, GoneEffect DEF NackLater, Leaves, stream, group
<1>6. ASSUME NEW m \in Msgs, NackNow(m) PROVE AckJustified' /\ AckedWasSettled'
  <2>1. \A n \in Msgs : copy'[n] = IF n = m THEN Nothing ELSE copy[n]
      BY <1>6, GoneEffect DEF NackNow, Leaves
  <2>2. /\ \A n \in Msgs \ {m} : entry'[n] = entry[n]
        /\ entry'[m] = "acked" => entry[m] = "acked" \/ m \in dropped'
        /\ dropped \subseteq dropped' /\ succeeded' = succeeded /\ dead' = dead
      BY <1>6 DEF NackNow, XAck, Fault
  <2> QED BY <2>1, <2>2
<1>7. ASSUME NEW m \in Msgs, Unrouted(m) PROVE AckJustified' /\ AckedWasSettled'
    BY <1>7, MovesToEffect DEF Unrouted, stream, group
<1>8. ASSUME NEW m \in Msgs, SendToDLQ(m) PROVE AckJustified' /\ AckedWasSettled'
  <2>0. copy[m].at = "DLQ" /\ UNCHANGED <<entry, owner, phase, stale, runs, succeeded, dropped>>
      BY <1>8 DEF SendToDLQ, stream, group
  <2>1. ASSUME dead' = dead \cup {m}, MovesTo(m, "sent"), UNCHANGED <<faults, parked>>
        PROVE  AckJustified' /\ AckedWasSettled'
      BY <2>0, <2>1, MovesToEffect
  <2>2. ASSUME Fault, NotSent(m), UNCHANGED dead PROVE AckJustified' /\ AckedWasSettled'
      BY <2>0, <2>2, GoneEffect DEF NotSent, Leaves, Fault
  <2> QED BY <1>8, <2>1, <2>2 DEF SendToDLQ
<1>9. ASSUME NEW m \in Msgs, AckSent(m) PROVE AckJustified' /\ AckedWasSettled'
  <2>0. copy[m].at = "sent" /\ UNCHANGED <<owner, phase, stale, runs, succeeded, dead, dropped>>
      BY <1>9 DEF AckSent, group
  <2>1. ASSUME XAck(m), MovesTo(m, "ackDLQ"), UNCHANGED <<faults, parked>> PROVE AckJustified' /\ AckedWasSettled'
      BY <2>0, <2>1, MovesToEffect DEF XAck
  <2>2. ASSUME Fault, NotSent(m), UNCHANGED entry PROVE AckJustified' /\ AckedWasSettled'
      BY <2>0, <2>2, GoneEffect DEF NotSent, Leaves, Fault
  <2> QED BY <1>9, <2>1, <2>2 DEF AckSent
<1>10. ASSUME NEW p \in Pods, Bootstrap(p) PROVE AckJustified' /\ AckedWasSettled'
    BY <1>10 DEF Bootstrap, Goes, Fault, stream, history
<1>11. ASSUME NEW p \in Pods, Recover(p) PROVE AckJustified' /\ AckedWasSettled'
    BY <1>11 DEF Recover, stream, history
<1>12. ASSUME NEW p \in Pods, RecoverAck(p) PROVE AckJustified' /\ AckedWasSettled'
    BY <1>12 DEF RecoverAck, XAck, Fault
<1>13. ASSUME NEW p \in Pods, Recovered(p) PROVE AckJustified' /\ AckedWasSettled'
    BY <1>13 DEF Recovered, Goes, AfterRecovery, stream, history
<1>14. ASSUME NEW p \in Pods, Stop(p) PROVE AckJustified' /\ AckedWasSettled'
    BY <1>14 DEF Stop, Goes, Fault, stream, history
<1>15. ASSUME NEW p \in Pods, Return(p) PROVE AckJustified' /\ AckedWasSettled'
    BY <1>15, EndsEffect DEF Return
<1>16. ASSUME NEW p \in Pods, Crash(p) PROVE AckJustified' /\ AckedWasSettled'
    BY <1>16, EndsEffect DEF Crash, Fault
<1>17. ASSUME NEW p \in Pods, Restart(p) PROVE AckJustified' /\ AckedWasSettled'
    BY <1>17 DEF Restart, Goes, stream, history
<1> QED BY <1>1, <1>2, <1>3, <1>4, <1>5, <1>6, <1>7, <1>8, <1>9, <1>10, <1>11,
       <1>12, <1>13, <1>14, <1>15, <1>16, <1>17
        DEF Next, Process, Reads, Subscribe

-----------------------------------------------------------------------------
(* It holds before anything is published or read.                           *)
LEMMA Initially ==
    ASSUME Init
    PROVE  IInv
<1>1. TypeOK
    BY StreamsAssumption, NothingType DEF Init, TypeOK, Copy
<1>2. UnreadUntouched /\ AttemptsCountRuns /\ AckJustified /\ AckedWasSettled
    BY NothingType DEF Init, UnreadUntouched, AttemptsCountRuns, AckJustified, AckedWasSettled
<1> QED BY <1>1, <1>2 DEF IInv

(* The strengthened invariant holds of every reachable state.               *)
LEMMA Invariance == Spec => []IInv
<1>1. Init => IInv
    BY Initially
<1>2. IInv /\ [Next]_vars => IInv'
  <2>1. IInv /\ Next => IInv'
      BY TypeStep, CountStep, AckStep DEF IInv
  <2>2. IInv /\ UNCHANGED vars => IInv'
      BY DEF IInv, TypeOK, UnreadUntouched, AttemptsCountRuns, AckJustified, AckedWasSettled,
             vars
  <2> QED BY <2>1, <2>2
<1> QED BY <1>1, <1>2, PTL DEF Spec

(* Types, and the agreement of a pod's copy with its pending entry.         *)
THEOREM TypeCorrect == Spec => []TypeOK
<1>1. IInv => TypeOK
    BY DEF IInv
<1> QED BY Invariance, <1>1, PTL

(* recoverStale, Ack, Nack and SendToDLQ acknowledge an entry only for the  *)
(* reasons named, whatever crashes and fails in between.                    *)
THEOREM AckedOnlySettled == Spec => []AckedWasSettled
<1>1. IInv => AckedWasSettled
    BY DEF IInv
<1> QED BY Invariance, <1>1, PTL

-----------------------------------------------------------------------------
(* Workers change nothing that recoverStale relies on.                      *)
LEMMA WorkersLeaveRecovery ==
    ASSUME TypeOK, RecoversOwn, UNCHANGED <<owner, phase, stale>>,
           \A n \in Msgs : entry'[n] \in {entry[n], "acked"},
           \A n \in Msgs : copy'[n] # Nothing => copy[n] # Nothing /\ copy'[n].pod = copy[n].pod
    PROVE  RecoversOwn'
BY DEF TypeOK, RecoversOwn

(* A worker has a copy of the message and leaves the group alone; all it    *)
(* does to Redis is an XACK.                                                *)
LEMMA ProcessTouches ==
    ASSUME TypeOK, NEW m \in Msgs, Process(m)
    PROVE  /\ UNCHANGED <<owner, phase, stale>> /\ copy[m] # Nothing
           /\ \A n \in Msgs : entry'[n] \in {entry[n], "acked"}
<1> DEFINE Touches == /\ UNCHANGED <<owner, phase, stale>> /\ copy[m] # Nothing
                      /\ \A n \in Msgs : entry'[n] \in {entry[n], "acked"}
<1> SUFFICES Touches
    OBVIOUS
<1> USE NothingType DEF TypeOK, Copy
<1>1. CASE Handle(m)
  <2>1. copy[m].at = "ring" /\ UNCHANGED <<stream, group>>
      BY <1>1, Zenon DEF Handle
  <2> QED BY <2>1 DEF stream, group
<1>2. CASE Ack(m)
    BY <1>2 DEF Ack, XAck, group
<1>3. CASE NackLater(m)
    BY <1>3 DEF NackLater, stream, group
<1>4. CASE NackNow(m)
    BY <1>4 DEF NackNow, XAck, group
<1>5. CASE Unrouted(m)
    BY <1>5 DEF Unrouted, stream, group
<1>6. CASE SendToDLQ(m)
    BY <1>6 DEF SendToDLQ, stream, group
<1>7. CASE AckSent(m)
    BY <1>7 DEF AckSent, XAck, group
<1> QED BY <1>1, <1>2, <1>3, <1>4, <1>5, <1>6, <1>7 DEF Process

(* recoverStale keeps to entries of its own consumer that nobody holds.     *)
LEMMA RecoverStep ==
    ASSUME IInv, RecoversOwn, Next
    PROVE  RecoversOwn'
<1> USE StreamsAssumption, NothingType DEF IInv, TypeOK, Copy, RecoversOwn
<1>1. ASSUME NEW m \in Msgs, Publish(m) PROVE RecoversOwn'
    BY <1>1 DEF Publish, group, history
<1>2. ASSUME NEW p \in Pods, NEW m \in Msgs, Read(p, m) PROVE RecoversOwn'
    BY <1>2 DEF Read, group, history, Consumer, Readable
<1>3. ASSUME NEW m \in Msgs, Process(m) PROVE RecoversOwn'
  <2>1. UNCHANGED <<owner, phase, stale>> /\ copy[m] # Nothing
      BY <1>3, ProcessTouches
  <2>2. \A n \in Msgs : entry'[n] \in {entry[n], "acked"}
      BY <1>3, ProcessTouches
  <2>3. \A n \in Msgs : copy'[n] # Nothing => copy[n] # Nothing /\ copy'[n].pod = copy[n].pod
    <3>1. CASE Handle(m)
      <4>1. PICK place \in Places, a \in Nat, d \in Int : Handled(m, place, a, d)
          BY <3>1, HandleEffect
      <4> QED BY <2>1, <4>1 DEF Handled
    <3>2. CASE Gone(m)
        BY <3>2, GoneEffect
    <3>3. CASE MovesTo(m, "sent") \/ MovesTo(m, "ackDLQ")
      <4>1. copy'[m].pod = copy[m].pod /\ \A n \in Msgs \ {m} : copy'[n] = copy[n]
          BY <3>3, MovesToEffect
      <4> QED BY <2>1, <4>1
    <3> QED BY <1>3, <3>1, <3>2, <3>3 DEF Process, Ack, NackLater, NackNow, Unrouted,
               SendToDLQ, AckSent, NotSent, Leaves
  <2> QED BY <2>1, <2>2, <2>3, WorkersLeaveRecovery
<1>4. ASSUME NEW p \in Pods, Bootstrap(p) PROVE RecoversOwn'
    BY <1>4 DEF Bootstrap, Goes, stream
<1>5. ASSUME NEW p \in Pods, Recover(p) PROVE RecoversOwn'
  <2> DEFINE own == {m \in Msgs : entry[m] = "pending" /\ owner[m] = p}
  <2>1. \/ stale' = stale
        \/ \E ms \in SUBSET own : stale' = [stale EXCEPT ![p] = ms]
      BY <1>5 DEF Recover, kSubset
  <2>2. UNCHANGED <<entry, owner, copy>> /\ phase[p] = "recover"
      BY <1>5 DEF Recover, stream
  <2>3. \A m \in Msgs : copy[m] # Nothing => copy[m].pod # p
      BY <2>2
  <2>4. \A m \in Msgs : copy'[m] # Nothing => phase'[copy'[m].pod] \in {"read", "stopping"}
      BY <1>5, <2>2, <2>3 DEF Recover, Goes
  <2>5. \A q \in Pods : \A m \in stale'[q] : entry[m] \in {"pending", "acked"} /\ owner[m] = q
      BY <2>1
  <2> QED BY <2>2, <2>4, <2>5
<1>6. ASSUME NEW p \in Pods, RecoverAck(p) PROVE RecoversOwn'
    BY <1>6 DEF RecoverAck, XAck
<1>7. ASSUME NEW p \in Pods, Recovered(p) PROVE RecoversOwn'
    BY <1>7 DEF Recovered, AfterRecovery, Goes, stream
<1>8. ASSUME NEW p \in Pods, Stop(p) PROVE RecoversOwn'
    BY <1>8 DEF Stop, Goes, stream
<1>9. ASSUME NEW p \in Pods, Ends(p), UNCHANGED entry PROVE RecoversOwn'
  <2>1. ASSUME NEW m \in Msgs, copy'[m] # Nothing
        PROVE  phase'[copy'[m].pod] \in {"read", "stopping"}
    <3>1. copy'[m] = copy[m] /\ copy[m].pod # p
        BY <1>9, <2>1, EndsEffect
    <3> QED BY <1>9, <2>1, <3>1 DEF Ends, Goes
  <2>2. ASSUME NEW q \in Pods, NEW m \in stale'[q]
        PROVE  entry'[m] \in {"pending", "acked"} /\ owner'[m] = q
      BY <1>9, <2>2 DEF Ends
  <2> QED BY <2>1, <2>2
<1>10. ASSUME NEW p \in Pods, Restart(p) PROVE RecoversOwn'
    BY <1>10 DEF Restart, Goes, stream
<1> QED BY <1>1, <1>2, <1>3, <1>4, <1>5, <1>6, <1>7, <1>8, <1>9, <1>10
        DEF Next, Reads, Subscribe, Return, Crash

(* What recoverStale acknowledges has no copy.                              *)
LEMMA RecoveredIsGone ==
    ASSUME TypeOK, RecoversOwn, NEW p \in Pods, phase[p] = "ack", NEW m \in stale[p]
    PROVE  m \in Msgs /\ copy[m] = Nothing /\ entry[m] \in {"pending", "acked"}
BY DEF TypeOK, RecoversOwn

(* A concluded message never gets back into a ring: its copy only goes on   *)
(* to the call that acknowledges it, and no pod reads its entry again.      *)
LEMMA ConcludedStep ==
    ASSUME IInv, RecoversOwn, ConcludedRests, Next
    PROVE  ConcludedRests'
<1> USE StreamsAssumption, NothingType
        DEF IInv, TypeOK, Copy, UnreadUntouched, AckJustified, AckedWasSettled, ConcludedRests
<1>1. ASSUME NEW m \in Msgs, Publish(m) PROVE ConcludedRests'
    BY <1>1 DEF Publish, group, history
<1>2. ASSUME NEW p \in Pods, NEW m \in Msgs, Read(p, m) PROVE ConcludedRests'
    BY <1>2 DEF Read, group, history, Consumer, Readable
<1>3. ASSUME NEW m \in Msgs, Handle(m) PROVE ConcludedRests'
  <2>1. PICK place \in Places, a \in Nat, d \in Int : Handled(m, place, a, d)
      BY <1>3, HandleEffect
  <2>2. copy[m].at = "ring" /\ UNCHANGED <<entry, dead, dropped>>
      BY <1>3, Zenon DEF Handle, stream
  <2>3. copy'[m].at = place /\ \A n \in Msgs \ {m} : copy'[n] = copy[n]
      BY <2>1 DEF Handled
  <2>4. m \notin succeeded \cup dead \cup dropped /\ entry[m] # "acked"
      BY <2>2
  <2> QED BY <2>1, <2>2, <2>3, <2>4 DEF Handled
<1>4. ASSUME NEW m \in Msgs, Ack(m) PROVE ConcludedRests'
    BY <1>4, GoneEffect DEF Ack, XAck, Leaves, group
<1>5. ASSUME NEW m \in Msgs, NackLater(m) PROVE ConcludedRests'
    BY <1>5, GoneEffect DEF NackLater, Leaves, stream, group
<1>6. ASSUME NEW m \in Msgs, NackNow(m) PROVE ConcludedRests'
    BY <1>6, GoneEffect DEF NackNow, XAck, Leaves, group
<1>7. ASSUME NEW m \in Msgs, Unrouted(m) PROVE ConcludedRests'
    BY <1>7, MovesToEffect DEF Unrouted, stream, group
<1>8. ASSUME NEW m \in Msgs, SendToDLQ(m) PROVE ConcludedRests'
  <2>0. copy[m].at = "DLQ" /\ UNCHANGED <<entry, succeeded, dropped>>
      BY <1>8 DEF SendToDLQ, stream
  <2>1. ASSUME dead' = dead \cup {m}, MovesTo(m, "sent") PROVE ConcludedRests'
      BY <2>0, <2>1, MovesToEffect
  <2>2. ASSUME NotSent(m), UNCHANGED dead PROVE ConcludedRests'
      BY <2>0, <2>2, GoneEffect DEF NotSent, Leaves
  <2> QED BY <1>8, <2>1, <2>2 DEF SendToDLQ
<1>9. ASSUME NEW m \in Msgs, AckSent(m) PROVE ConcludedRests'
  <2>0. copy[m].at = "sent" /\ m \in dead /\ UNCHANGED <<succeeded, dead, dropped>>
      BY <1>9 DEF AckSent
  <2>1. ASSUME XAck(m), MovesTo(m, "ackDLQ") PROVE ConcludedRests'
      BY <2>0, <2>1, MovesToEffect DEF XAck
  <2>2. ASSUME NotSent(m), UNCHANGED entry PROVE ConcludedRests'
      BY <2>0, <2>2, GoneEffect DEF NotSent, Leaves
  <2> QED BY <1>9, <2>1, <2>2 DEF AckSent
<1>10. ASSUME NEW p \in Pods, RecoverAck(p) PROVE ConcludedRests'
  <2>1. PICK m \in stale[p] : \/ XAck(m) /\ dropped' = dropped \cup {m}
                              \/ UNCHANGED <<entry, dropped>>
      BY <1>10 DEF RecoverAck
  <2>2. m \in Msgs /\ copy[m].at = "none"
      BY <1>10, RecoveredIsGone DEF RecoverAck
  <2>3. UNCHANGED <<copy, succeeded, dead>>
      BY <1>10 DEF RecoverAck
  <2> QED BY <2>1, <2>2, <2>3 DEF XAck
<1>11. ASSUME NEW p \in Pods, Ends(p), UNCHANGED <<entry, succeeded, dead, dropped>>
       PROVE  ConcludedRests'
  <2>1. \A m \in Msgs : copy'[m] \in {copy[m], Nothing}
      BY <1>11, EndsEffect
  <2> QED BY <1>11, <2>1
<1>12. ASSUME UNCHANGED <<entry, copy, succeeded, dead, dropped>> PROVE ConcludedRests'
    BY <1>12
<1>13. ASSUME NEW p \in Pods,
              Bootstrap(p) \/ Recover(p) \/ Recovered(p) \/ Stop(p) \/ Restart(p)
       PROVE  UNCHANGED <<entry, copy, runs, succeeded, dead, dropped>>
    BY <1>13 DEF Bootstrap, Recover, Recovered, Stop, Restart, stream, history
<1> QED BY <1>1, <1>2, <1>3, <1>4, <1>5, <1>6, <1>7, <1>8, <1>9, <1>10, <1>11, <1>12, <1>13
        DEF Next, Process, Reads, Subscribe, Return, Crash

-----------------------------------------------------------------------------
(* What the retries, the conclusions and the recovery rest on, together.    *)
LEMMA HistoryInvariance == Spec => [](IInv /\ RecoversOwn /\ ConcludedRests)
<1> DEFINE HInv == IInv /\ RecoversOwn /\ ConcludedRests
<1>1. Init => HInv
  <2> SUFFICES ASSUME Init PROVE HInv
      OBVIOUS
  <2>1. IInv
      BY Initially
  <2>2. RecoversOwn /\ ConcludedRests
      BY NothingType DEF Init, RecoversOwn, ConcludedRests
  <2> QED BY <2>1, <2>2
<1>2. HInv /\ [Next]_vars => HInv'
  <2>1. HInv /\ Next => HInv'
      BY TypeStep, CountStep, AckStep, RecoverStep, ConcludedStep DEF IInv
  <2>2. HInv /\ UNCHANGED vars => HInv'
      BY DEF IInv, TypeOK, UnreadUntouched, AttemptsCountRuns, AckJustified, AckedWasSettled,
             RecoversOwn, ConcludedRests, vars
  <2> QED BY <2>1, <2>2
<1> QED BY <1>1, <1>2, PTL DEF Spec

(* A step that leaves every message's status, runs and acknowledgement as   *)
(* they are is none of Delivery's.                                          *)
LEMMA Stutters ==
    ASSUME UNCHANGED <<runs, succeeded, dead, dropped>>,
           \A n \in Msgs : /\ entry'[n] = "none" <=> entry[n] = "none"
                           /\ entry'[n] = "acked" <=> entry[n] = "acked"
    PROVE  UNCHANGED Delivered!vars
<1>1. \A n \in Msgs : Status(n)' = Status(n)
    BY DEF Status
<1>2. [n \in Msgs |-> Status(n)]' = [n \in Msgs |-> Status(n)]
    BY <1>1
<1>3. {n \in Msgs : entry[n] = "acked"}' = {n \in Msgs : entry[n] = "acked"}
    OBVIOUS
<1> QED BY <1>2, <1>3 DEF Delivered!vars

(* One message's status becomes s.                                          *)
LEMMA StatusBecomes ==
    ASSUME NEW m \in Msgs, NEW s, Status(m)' = s, \A n \in Msgs \ {m} : Status(n)' = Status(n)
    PROVE  [n \in Msgs |-> Status(n)]' = [[n \in Msgs |-> Status(n)] EXCEPT ![m] = s]
OBVIOUS

(* An XACK, seen as Delivery's set of settled messages.                     *)
LEMMA XAckSettles ==
    ASSUME TypeOK, NEW m \in Msgs, XAck(m)
    PROVE  {n \in Msgs : entry[n] = "acked"}' = {n \in Msgs : entry[n] = "acked"} \cup {m}
BY DEF XAck, TypeOK

(* The XACK of a message that has its reason is Delivery's Settle.          *)
LEMMA SettlesOne ==
    ASSUME TypeOK, NEW m \in Msgs, XAck(m), m \in succeeded \cup dead \cup dropped,
           UNCHANGED <<runs, succeeded, dead, dropped>>, entry[m] # "none"
    PROVE  Delivered!Settle({m})
<1>1. \A n \in Msgs : Status(n)' = Status(n)
    BY DEF Status, XAck, TypeOK
<1>2. [n \in Msgs |-> Status(n)]' = [n \in Msgs |-> Status(n)]
    BY <1>1
<1>3. Status(m) \in Delivered!Reasons
    BY DEF Status, Delivered!Reasons
<1> QED BY <1>2, <1>3, XAckSettles DEF Delivered!Settle

(* An action is an action of Delivery on the same message, or leaves what   *)
(* Delivery sees as it is.                                                  *)
LEMMA RefinementStep ==
    ASSUME IInv, RecoversOwn, ConcludedRests, Next
    PROVE  Delivered!Next \/ UNCHANGED Delivered!vars
<1> USE DEF IInv, TypeOK
<1> DEFINE Maps == Delivered!Next \/ UNCHANGED Delivered!vars
<1>1. ASSUME NEW m \in Msgs, Publish(m) PROVE Maps
  <2>1. entry[m] = "none" /\ entry' = [entry EXCEPT ![m] = "new"]
      BY <1>1 DEF Publish
  <2>2. UNCHANGED <<runs, succeeded, dead, dropped>>
      BY <1>1 DEF Publish, history
  <2>3. m \notin succeeded \cup dead \cup dropped
      BY <2>1 DEF UnreadUntouched, ConcludedRests
  <2>4. Status(m) = "absent" /\ Status(m)' = "open"
      BY <2>1, <2>2, <2>3 DEF Status
  <2>5. \A n \in Msgs \ {m} : Status(n)' = Status(n)
      BY <2>1, <2>2 DEF Status
  <2>6. {n \in Msgs : entry[n] = "acked"}' = {n \in Msgs : entry[n] = "acked"}
      BY <2>1
  <2>7. Delivered!Accept(m)
      BY <2>2, <2>4, <2>5, <2>6, StatusBecomes DEF Delivered!Accept
  <2> QED BY <2>7 DEF Delivered!Next
<1>2. ASSUME NEW p \in Pods, NEW m \in Msgs, Read(p, m) PROVE Maps
    BY <1>2, Stutters DEF Read, Readable, history
<1>3. ASSUME NEW m \in Msgs, Handle(m) PROVE Maps
  <2>1. PICK place \in Places, a \in Nat, d \in Int : Handled(m, place, a, d)
      BY <1>3, HandleEffect
  <2>2. /\ copy[m].at = "ring" /\ UNCHANGED <<entry, dead, dropped>>
        /\ runs' = [runs EXCEPT ![m] = @ + 1]
      BY <1>3, Zenon DEF Handle, stream
  <2>3. /\ m \notin succeeded \cup dead \cup dropped /\ entry[m] \notin {"none", "new", "acked"}
        /\ runs[m] <= Limit
      BY <2>2, NothingType DEF ConcludedRests, AttemptsCountRuns, UnreadUntouched
  <2>4. succeeded' = IF place = "Ack" THEN succeeded \cup {m} ELSE succeeded
      BY <2>1 DEF Handled
  <2>5. Status(m) = "open" /\ Status(m)' = IF place = "Ack" THEN "succeeded" ELSE "open"
      BY <2>2, <2>3, <2>4 DEF Status
  <2>6. \A n \in Msgs \ {m} : Status(n)' = Status(n)
      BY <2>2, <2>4 DEF Status
  <2>7. PICK s \in {"open", "succeeded", "dead"} : Status(m)' = s
      BY <2>5
  <2>8. [n \in Msgs |-> Status(n)]' = [[n \in Msgs |-> Status(n)] EXCEPT ![m] = s]
      BY <2>6, <2>7, StatusBecomes
  <2>9. {n \in Msgs : entry[n] = "acked"}' = {n \in Msgs : entry[n] = "acked"}
      BY <2>2
  <2>10. Delivered!Run(m)
      BY <2>2, <2>3, <2>5, <2>8, <2>9 DEF Delivered!Run
  <2> QED BY <2>10 DEF Delivered!Next
<1>4. ASSUME NEW m \in Msgs, Delivered!Settle({m}) PROVE Maps
    BY <1>4 DEF Delivered!Next
<1>5. ASSUME NEW m \in Msgs, NEW why \in {"dead", "dropped"}, Status(m) = "open",
             Status(m)' = why, \A n \in Msgs \ {m} : Status(n)' = Status(n), UNCHANGED runs,
             UNCHANGED entry \/ XAck(m)
      PROVE  Maps
  <2>1. [n \in Msgs |-> Status(n)]' = [[n \in Msgs |-> Status(n)] EXCEPT ![m] = why]
      BY <1>5, StatusBecomes
  <2>2. {n \in Msgs : entry[n] = "acked"}'
          \in {{n \in Msgs : entry[n] = "acked"}, {n \in Msgs : entry[n] = "acked"} \cup {m}}
    <3>1. CASE UNCHANGED entry
        BY <3>1
    <3>2. CASE XAck(m)
        BY <3>2, XAckSettles
    <3> QED BY <1>5, <3>1, <3>2
  <2>3. Delivered!Conclude(m, why)
      BY <1>5, <2>1, <2>2 DEF Delivered!Conclude
  <2> QED BY <2>3 DEF Delivered!Next, Delivered!Reasons
<1>6. ASSUME NEW m \in Msgs, Ack(m) PROVE Maps
  <2>1. UNCHANGED <<runs, succeeded, dead, dropped>> /\ copy[m].at \in {"Ack", "ackDLQ"}
      BY <1>6 DEF Ack
  <2>2. m \in succeeded \cup dead \cup dropped
      BY <2>1 DEF AckJustified
  <2>3. entry[m] # "none"
      BY <2>1, NothingType DEF UnreadUntouched
  <2>4. CASE XAck(m)
      BY <1>4, <2>1, <2>2, <2>3, <2>4, SettlesOne
  <2>5. CASE UNCHANGED entry
      BY <2>1, <2>5, Stutters
  <2> QED BY <1>6, <2>4, <2>5 DEF Ack
<1>7. ASSUME NEW m \in Msgs, NackLater(m) PROVE Maps
    BY <1>7, Stutters DEF NackLater, stream
<1>8. ASSUME NEW m \in Msgs, NackNow(m) PROVE Maps
  <2>1. UNCHANGED <<runs, succeeded, dead>> /\ copy[m].at = "RetryWithDelay"
      BY <1>8 DEF NackNow
  <2>2. m \notin succeeded \cup dead \cup dropped /\ entry[m] = "pending"
      BY <2>1, NothingType DEF ConcludedRests, UnreadUntouched
  <2>3. CASE XAck(m) /\ dropped' = dropped \cup {m}
    <3>1. Status(m) = "open" /\ Status(m)' = "dropped"
        BY <2>1, <2>2, <2>3 DEF Status
    <3>2. \A n \in Msgs \ {m} : Status(n)' = Status(n)
        BY <2>1, <2>3 DEF Status, XAck
    <3> QED BY <1>5, <2>1, <2>3, <3>1, <3>2
  <2>4. CASE UNCHANGED <<entry, dropped>>
      BY <2>1, <2>4, Stutters
  <2> QED BY <1>8, <2>3, <2>4 DEF NackNow
<1>9. ASSUME NEW m \in Msgs, Unrouted(m) PROVE Maps
  <2>1. /\ UNCHANGED <<entry, runs, succeeded, dead>> /\ dropped' = dropped \cup {m}
        /\ copy[m].at = "DLQ"
      BY <1>9 DEF Unrouted, stream
  <2>2. m \notin succeeded \cup dead \cup dropped /\ entry[m] = "pending"
      BY <2>1, NothingType DEF ConcludedRests, UnreadUntouched
  <2>3. Status(m) = "open" /\ Status(m)' = "dropped"
      BY <2>1, <2>2 DEF Status
  <2>4. \A n \in Msgs \ {m} : Status(n)' = Status(n)
      BY <2>1 DEF Status
  <2> QED BY <1>5, <2>1, <2>3, <2>4
<1>10. ASSUME NEW m \in Msgs, SendToDLQ(m) PROVE Maps
  <2>1. UNCHANGED <<entry, runs, succeeded, dropped>> /\ copy[m].at = "DLQ"
      BY <1>10 DEF SendToDLQ, stream
  <2>2. m \notin succeeded \cup dead \cup dropped /\ entry[m] = "pending"
      BY <2>1, NothingType DEF ConcludedRests, UnreadUntouched
  <2>3. CASE dead' = dead \cup {m}
    <3>1. Status(m) = "open" /\ Status(m)' = "dead"
        BY <2>1, <2>2, <2>3 DEF Status
    <3>2. \A n \in Msgs \ {m} : Status(n)' = Status(n)
        BY <2>1, <2>3 DEF Status
    <3> QED BY <1>5, <2>1, <3>1, <3>2
  <2>4. CASE UNCHANGED dead
      BY <2>1, <2>4, Stutters
  <2> QED BY <1>10, <2>3, <2>4 DEF SendToDLQ
<1>11. ASSUME NEW m \in Msgs, AckSent(m) PROVE Maps
  <2>1. UNCHANGED <<runs, succeeded, dead, dropped>> /\ copy[m].at = "sent"
      BY <1>11 DEF AckSent
  <2>2. m \in dead /\ entry[m] # "none"
      BY <2>1, NothingType DEF AckJustified, UnreadUntouched
  <2>4. CASE XAck(m)
      BY <1>4, <2>1, <2>2, <2>4, SettlesOne
  <2>5. CASE UNCHANGED entry
      BY <2>1, <2>5, Stutters
  <2> QED BY <1>11, <2>4, <2>5 DEF AckSent
<1>12. ASSUME NEW p \in Pods, RecoverAck(p) PROVE Maps
  <2>1. PICK m \in stale[p] : \/ XAck(m) /\ dropped' = dropped \cup {m}
                              \/ UNCHANGED <<entry, dropped>>
      BY <1>12 DEF RecoverAck
  <2>2. m \in Msgs /\ entry[m] \in {"pending", "acked"}
      BY <1>12, RecoveredIsGone DEF RecoverAck
  <2>3. UNCHANGED <<runs, succeeded, dead>>
      BY <1>12 DEF RecoverAck
  <2>4. CASE UNCHANGED <<entry, dropped>>
      BY <2>3, <2>4, Stutters
  <2>5. CASE XAck(m) /\ dropped' = dropped \cup {m} /\ m \in dropped
    <3>1. dropped' = dropped
        BY <2>5
    <3>2. Delivered!Settle({m})
        BY <2>2, <2>3, <2>5, <3>1, SettlesOne
    <3> QED BY <1>4, <2>2, <3>2
  <2>6. CASE XAck(m) /\ dropped' = dropped \cup {m} /\ m \in succeeded \cup dead
    <3>1. \A n \in Msgs : Status(n)' = Status(n)
        BY <2>2, <2>3, <2>6 DEF Status, XAck
    <3>2. [n \in Msgs |-> Status(n)]' = [n \in Msgs |-> Status(n)]
        BY <3>1
    <3>3. Status(m) \in Delivered!Reasons
        BY <2>6 DEF Status, Delivered!Reasons
    <3>4. Delivered!Settle({m})
        BY <2>2, <2>3, <2>6, <3>2, <3>3, XAckSettles DEF Delivered!Settle
    <3> QED BY <1>4, <2>2, <3>4
  <2>7. CASE XAck(m) /\ dropped' = dropped \cup {m} /\ m \notin succeeded \cup dead \cup dropped
    <3>1. Status(m) = "open" /\ Status(m)' = "dropped"
        BY <2>2, <2>3, <2>7 DEF Status
    <3>2. \A n \in Msgs \ {m} : Status(n)' = Status(n)
        BY <2>3, <2>7 DEF Status, XAck
    <3> QED BY <1>5, <2>2, <2>3, <2>7, <3>1, <3>2
  <2> QED BY <2>1, <2>4, <2>5, <2>6, <2>7
<1>13. ASSUME NEW p \in Pods,
              Bootstrap(p) \/ Recover(p) \/ Recovered(p) \/ Stop(p) \/ Restart(p)
                \/ Return(p) \/ Crash(p)
       PROVE  Maps
  <2>1. UNCHANGED <<entry, runs, succeeded, dead, dropped>>
      BY <1>13 DEF Bootstrap, Recover, Recovered, Stop, Restart, Return, Crash, stream, history
  <2> QED BY <2>1, Stutters
<1> QED BY <1>1, <1>2, <1>3, <1>6, <1>7, <1>8, <1>9, <1>10, <1>11, <1>12, <1>13
        DEF Next, Process, Reads, Subscribe

(* The transport implements Delivery, whatever crashes, restarts, stops and *)
(* fails: an entry is run within the retry limit, never after it succeeded, *)
(* went to the DLQ stream or was dropped, and acknowledged only then.       *)
THEOREM StreamsImplementDelivery == Spec => ImplementsDelivery
<1> DEFINE HInv == IInv /\ RecoversOwn /\ ConcludedRests
<1>1. Init => Delivered!Init
  <2> SUFFICES ASSUME Init PROVE Delivered!Init
      OBVIOUS
  <2>1. \A m \in Msgs : Status(m) = "absent"
      BY DEF Init, Status
  <2>2. [m \in Msgs |-> Status(m)] = [m \in Msgs |-> "absent"]
      BY <2>1
  <2>3. {m \in Msgs : entry[m] = "acked"} = {} /\ runs = [m \in Msgs |-> 0]
      BY DEF Init
  <2> QED BY <2>2, <2>3 DEF Delivered!Init
<1>2. HInv /\ [Next]_vars => [Delivered!Next]_(Delivered!vars)
  <2>1. HInv /\ Next => Delivered!Next \/ UNCHANGED Delivered!vars
      BY RefinementStep
  <2>2. UNCHANGED vars => UNCHANGED Delivered!vars
      BY Stutters DEF vars
  <2> QED BY <2>1, <2>2
<1> QED BY <1>1, <1>2, HistoryInvariance, PTL DEF Spec, ImplementsDelivery, Delivered!Spec
=============================================================================
