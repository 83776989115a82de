---------------------------- MODULE PubSub_proofs ----------------------------
(***************************************************************************)
(* For any messages, redeliveries, limit on callbacks and interleaving of  *)
(* callbacks, workers and the service: a done channel is closed at most    *)
(* once, every waiting callback whose entry was not overwritten can still  *)
(* be released, and the service forgets only what was settled, or what the *)
(* idempotency store could not answer for.                                 *)
(***************************************************************************)
EXTENDS PubSub, FiniteSetTheorems, TLAPS

(* Deliveries to come have no callback yet.                                 *)
NotYetDelivered == \A d \in Deliveries : d > started => callback[d] = "none"

(* There is no copy before the callback has handed it to the pipeline.      *)
CopyAfterHand ==
    \A d \in Deliveries : callback[d] \in {"none", "register", "hand"} => copy[d] = "none"

(* Only a call between its critical section and its answer holds a delivery. *)
HeldInSettle == \A d \in Deliveries : copy[d] # "settle" => target[d] = None

(* A delivery is known to nobody before its callback registers it.          *)
UnknownBeforeRegister ==
    \A d \in Deliveries : callback[d] \in {"none", "register"} =>
        /\ d \notin done
        /\ \A e \in Deliveries : target[e] # d
        /\ \A m \in Msgs : inflight[m] # d

(* An entry of inflight stands under its own message's ID, its channel is   *)
(* open, and no call has taken it.                                          *)
EntriesOpen ==
    \A m \in Msgs : inflight[m] # None =>
        /\ msg[inflight[m]] = m
        /\ inflight[m] \notin done
        /\ \A e \in Deliveries : target[e] # inflight[m]

(* A call finds a delivery of the message it was made for.                  *)
FoundSameMessage == \A d \in Deliveries : target[d] # None => msg[target[d]] = msg[d]

(* Why the service may forget a message, the store's errors included.       *)
Settled(m) ==
    \/ m \in succeeded \cup givenUp \cup unanswered
    \/ Key[m] # NoKey /\ \E n \in succeeded : Key[n] = Key[m]

(* Whoever is going to acknowledge has one of these reasons.                *)
AckJustified ==
    \A d \in Deliveries :
        /\ copy[d] # "settle" => verdict[d] = "Drop"
        /\ copy[d] = "settle" /\ verdict[d] = "Ack" => msg[d] \in succeeded
        /\ copy[d] = "settle" /\ verdict[d] = "DLQ" => msg[d] \in givenUp
        /\ copy[d] = "settle" /\ verdict[d] = "Drop" => Settled(msg[d])
        /\ copy[d] \in {"duplicate", "deadLettered"} => Settled(msg[d])

(* The store knows keys of processed messages only.                         *)
MarksJustified == \A key \in marked : key # NoKey /\ \E n \in succeeded : Key[n] = key

Reasons == AckJustified /\ MarksJustified /\ ForgottenWhenSettled

Handover ==
    /\ NotYetDelivered /\ CopyAfterHand /\ HeldInSettle /\ UnknownBeforeRegister
    /\ EntriesOpen /\ FoundSameMessage

(* Who can release a callback, the two properties included.                 *)
Ownership == Handover /\ ClosedOnce /\ NoOrphan

IInv == TypeOK /\ Ownership /\ Reasons

-----------------------------------------------------------------------------
(* Receive keeps within MaxOutstandingMessages.                             *)
LEMMA OutstandingStep ==
    ASSUME TypeOK, Next
    PROVE  Cardinality(Outstanding') <= MaxOutstanding
<1> USE PubSubAssumption
<1>1. IsFiniteSet(Outstanding) /\ Cardinality(Outstanding) \in Nat
  <2>1. IsFiniteSet(Deliveries)
      BY FS_Interval DEF Deliveries
  <2> QED BY <2>1, FS_Subset, FS_CardinalityType DEF Outstanding
<1>2. ASSUME Outstanding' \subseteq Outstanding
      PROVE  Cardinality(Outstanding') <= MaxOutstanding
  <2>1. Cardinality(Outstanding') <= Cardinality(Outstanding)
      BY <1>1, <1>2, FS_Subset
  <2>2. Cardinality(Outstanding') \in Nat
      BY <1>1, <1>2, FS_Subset, FS_CardinalityType
  <2> QED BY <1>1, <2>1, <2>2 DEF TypeOK
<1>3. ASSUME NEW m \in Msgs, Deliver(m)
      PROVE  Cardinality(Outstanding') <= MaxOutstanding
  <2>1. Outstanding' \subseteq Outstanding \cup {started'}
      BY <1>3 DEF Deliver, Outstanding, TypeOK
  <2>2. /\ IsFiniteSet(Outstanding \cup {started'})
        /\ Cardinality(Outstanding \cup {started'}) <= Cardinality(Outstanding) + 1
    <3>1. \/ Cardinality(Outstanding \cup {started'}) = Cardinality(Outstanding)
          \/ Cardinality(Outstanding \cup {started'}) = Cardinality(Outstanding) + 1
        BY <1>1, FS_AddElement, Zenon
    <3> QED BY <1>1, <3>1, FS_AddElement
  <2>3. Cardinality(Outstanding') <= Cardinality(Outstanding \cup {started'})
      BY <2>1, <2>2, FS_Subset
  <2>4. /\ Cardinality(Outstanding \cup {started'}) \in Nat
        /\ Cardinality(Outstanding') \in Nat
      BY <2>1, <2>2, FS_Subset, FS_CardinalityType
  <2>5. Cardinality(Outstanding) < MaxOutstanding
      BY <1>3 DEF Deliver
  <2> QED BY <1>1, <2>2, <2>3, <2>4, <2>5
<1>4. ASSUME NEW d \in Deliveries, Callback(d) PROVE Outstanding' \subseteq Outstanding
    BY <1>4 DEF Callback, Register, Hand, Return, Outstanding, TypeOK
<1>5. ASSUME ~(\E m \in Msgs : Deliver(m)), ~(\E d \in Deliveries : Callback(d))
      PROVE  Outstanding' \subseteq Outstanding
  <2>1. UNCHANGED callback
      BY <1>5 DEF Next, Expire, Forget, Worker, Fire, Ask, Settle, Finish, AckLookup, Cancel,
                  DispatcherLeaves, ReceiveReturn
  <2> QED BY <2>1 DEF Outstanding
<1> QED BY <1>2, <1>3, <1>4, <1>5

(* What a call tells the service leaves its messages in a legal state, and  *)
(* forgets only the delivery's own message, and that on an Ack only.        *)
LEMMA AnswerStep ==
    ASSUME TypeOK, NEW d \in Deliveries, NEW verb, Answer(d, verb)
    PROVE  /\ service' \in [Msgs -> {"available", "leased", "acked", "dead"}]
           /\ \A m \in Msgs : service'[m] = "acked" /\ service[m] # "acked"
                                => m = msg[d] /\ verb = "Ack"
BY DEF TypeOK, Answer

(* The type invariant.                                                      *)
LEMMA TypeStep ==
    ASSUME TypeOK, Next
    PROVE  TypeOK'
<1> USE PubSubAssumption DEF TypeOK, None
<1>1. Cardinality(Outstanding') <= MaxOutstanding
    BY OutstandingStep
<1>2. ASSUME NEW m \in Msgs, Deliver(m) PROVE TypeOK'
  <2>1. started' \in Deliveries /\ started' \in 0..MaxDeliveries
      BY <1>2 DEF Deliver, Deliveries
  <2> QED BY <1>1, <1>2, <2>1 DEF Deliver, worker, lifecycle, history
<1>3. ASSUME NEW m \in Msgs, Expire(m) PROVE TypeOK'
    BY <1>1, <1>3 DEF Expire, worker, lifecycle, history
<1>4. ASSUME NEW d \in Deliveries, Register(d) PROVE TypeOK'
    BY <1>1, <1>4 DEF Register, cloud, worker, lifecycle
<1>5. ASSUME NEW d \in Deliveries, Hand(d) PROVE TypeOK'
    BY <1>1, <1>5 DEF Hand, cloud, worker, lifecycle, history
<1>6. ASSUME NEW d \in Deliveries, Return(d) PROVE TypeOK'
    BY <1>1, <1>6 DEF Return, cloud, worker, lifecycle, history
<1>7. ASSUME NEW d \in Deliveries, Fire(d) PROVE TypeOK'
    BY <1>1, <1>7 DEF Fire, cloud, worker, lifecycle, history
<1>8. ASSUME NEW d \in Deliveries, Settle(d) PROVE TypeOK'
    BY <1>1, <1>8 DEF Settle, Lookup, cloud, lifecycle
<1>14. ASSUME NEW d \in Deliveries, Ask(d) PROVE TypeOK'
    BY <1>1, <1>14 DEF Ask, cloud, lifecycle
<1>15. ASSUME NEW key, Forget(key) PROVE TypeOK'
    BY <1>1, <1>15 DEF Forget, cloud, lifecycle, history
<1>9. ASSUME NEW d \in Deliveries, Finish(d) PROVE TypeOK'
  <2>1. service' \in [Msgs -> {"available", "leased", "acked", "dead"}]
      BY <1>9, AnswerStep DEF Finish
  <2>2. marked' \subseteq Keys
      BY <1>9 DEF Finish, Marks, Keys
  <2> QED BY <1>1, <1>9, <2>1, <2>2 DEF Finish, Closes, lifecycle, history
<1>10. ASSUME NEW d \in Deliveries, AckLookup(d) PROVE TypeOK'
    BY <1>1, <1>10 DEF AckLookup, Lookup, cloud, lifecycle, history
<1>11. CASE Cancel
    BY <1>1, <1>11 DEF Cancel, cloud, worker, history
<1>12. CASE DispatcherLeaves
    BY <1>1, <1>12 DEF DispatcherLeaves, cloud, worker, history
<1>13. CASE ReceiveReturn
    BY <1>1, <1>13 DEF ReceiveReturn, cloud, worker, history
<1> QED BY <1>2, <1>3, <1>4, <1>5, <1>6, <1>7, <1>8, <1>9, <1>10, <1>11, <1>12, <1>13, <1>14,
        <1>15 DEF Next, Callback, Worker

-----------------------------------------------------------------------------
(* A lookup that finds nothing is told from one that does.                  *)
LEMMA NoneIsNoDelivery == None \notin Deliveries
BY PubSubAssumption DEF None, Deliveries

(* The critical section of a call passes the entry on to the call: it is    *)
(* then that call's alone, and all other waiting callbacks keep theirs.     *)
LEMMA LookupStep ==
    ASSUME IInv, NEW d \in Deliveries, Lookup(d),
           copy[d] \in {"kept", "duplicate", "deadLettered"},
           UNCHANGED <<cloud, callback, done, overwritten>>
    PROVE  Ownership'
<1> USE NoneIsNoDelivery DEF IInv, Ownership, TypeOK, Lookup, cloud
<1> DEFINE e == inflight[msg[d]]
<1>1. target[d] = None /\ \A f \in Deliveries \ {d} : target'[f] = target[f]
    BY DEF Handover, HeldInSettle
<1>2. e # None => e \notin done /\ msg[e] = msg[d] /\ \A f \in Deliveries : target[f] # e
    BY DEF Handover, EntriesOpen
<1>3. (NotYetDelivered /\ CopyAfterHand /\ HeldInSettle /\ FoundSameMessage)'
    BY <1>1, <1>2 DEF Handover, NotYetDelivered, CopyAfterHand, HeldInSettle, FoundSameMessage
<1>4. UnknownBeforeRegister'
    BY <1>1 DEF Handover, UnknownBeforeRegister
<1>5. EntriesOpen'
    BY <1>1, <1>2 DEF Handover, EntriesOpen
<1>6. ClosedOnce'
    BY <1>1, <1>2 DEF ClosedOnce
<1>7. NoOrphan'
  <2> SUFFICES ASSUME NEW c \in Deliveries \ overwritten, callback[c] \in {"hand", "wait"},
                      c \notin done
               PROVE  inflight'[msg[c]] = c \/ \E f \in Deliveries : target'[f] = c
      BY DEF NoOrphan
  <2>1. CASE c = e
      BY <2>1
  <2>2. CASE c # e /\ inflight[msg[c]] = c
      BY <2>2
  <2>3. CASE \E f \in Deliveries : target[f] = c
      BY <1>1, <2>3
  <2> QED BY <2>1, <2>2, <2>3 DEF NoOrphan
<1> QED BY <1>3, <1>4, <1>5, <1>6, <1>7 DEF Handover

(* The same for every step of callbacks, workers and the service.           *)
LEMMA HandoverStep ==
    ASSUME IInv, Next
    PROVE  Ownership'
<1> USE PubSubAssumption, NoneIsNoDelivery
    DEF IInv, TypeOK, Ownership, Handover, NotYetDelivered, CopyAfterHand, HeldInSettle,
        UnknownBeforeRegister, EntriesOpen, FoundSameMessage, ClosedOnce, NoOrphan
<1>2. ASSUME NEW m \in Msgs, Deliver(m) PROVE Ownership'
  <2>1. started' \in Deliveries /\ started' > started
      BY <1>2 DEF Deliver, Deliveries
  <2>2. callback[started'] = "none"
      BY <2>1
  <2>3. \A d \in Deliveries : d > started' => d > started /\ d # started'
      BY <2>1 DEF Deliveries
  <2> QED BY <1>2, <2>1, <2>2, <2>3 DEF Deliver, worker, lifecycle, history
<1>3. ASSUME NEW m \in Msgs, Expire(m) PROVE Ownership'
    BY <1>3 DEF Expire, worker, lifecycle, history
<1>4. ASSUME NEW d \in Deliveries, Register(d) PROVE Ownership'
    BY <1>4 DEF Register, cloud, worker, lifecycle
<1>5. ASSUME NEW d \in Deliveries, Hand(d) PROVE Ownership'
    BY <1>5 DEF Hand, cloud, worker, lifecycle, history
<1>6. ASSUME NEW d \in Deliveries, Return(d) PROVE Ownership'
    BY <1>6 DEF Return, cloud, worker, lifecycle, history
<1>7. ASSUME NEW d \in Deliveries, Fire(d) PROVE Ownership'
    BY <1>7 DEF Fire, cloud, worker, lifecycle, history
<1>8. ASSUME NEW d \in Deliveries, Settle(d) PROVE Ownership'
    BY <1>8, LookupStep DEF Settle
<1>14. ASSUME NEW d \in Deliveries, Ask(d) PROVE Ownership'
    BY <1>14 DEF Ask, cloud, lifecycle
<1>15. ASSUME NEW key, Forget(key) PROVE Ownership'
    BY <1>15 DEF Forget, cloud, lifecycle, history
<1>9. ASSUME NEW d \in Deliveries, Finish(d) PROVE Ownership'
    BY <1>9 DEF Finish, Closes, lifecycle, history
<1>10. ASSUME NEW d \in Deliveries, AckLookup(d) PROVE Ownership'
    BY <1>10, LookupStep DEF AckLookup, history
<1>11. CASE Cancel
    BY <1>11 DEF Cancel, cloud, worker, history
<1>12. CASE DispatcherLeaves
    BY <1>12 DEF DispatcherLeaves, cloud, worker, history
<1>13. CASE ReceiveReturn
    BY <1>13 DEF ReceiveReturn, cloud, worker, history
<1> QED BY <1>2, <1>3, <1>4, <1>5, <1>6, <1>7, <1>8, <1>9, <1>10, <1>11, <1>12, <1>13, <1>14,
        <1>15 DEF Next, Callback, Worker

-----------------------------------------------------------------------------
(* One step acknowledges only what is settled, and whoever is about to      *)
(* acknowledge still has the reason to.                                     *)
LEMMA ReasonsStep ==
    ASSUME IInv, Next
    PROVE  Reasons'
<1> USE PubSubAssumption, NoneIsNoDelivery
    DEF IInv, TypeOK, Reasons, AckJustified, MarksJustified, ForgottenWhenSettled, Settled
<1>2. ASSUME NEW m \in Msgs, Deliver(m) PROVE Reasons'
  <2>1. started' \in Deliveries /\ started' > started
      BY <1>2 DEF Deliver, Deliveries
  <2>2. copy[started'] = "none"
      BY <2>1 DEF Ownership, Handover, NotYetDelivered, CopyAfterHand
  <2> QED BY <1>2, <2>1, <2>2 DEF Deliver, worker, lifecycle, history
<1>3. ASSUME NEW m \in Msgs, Expire(m) PROVE Reasons'
    BY <1>3 DEF Expire, worker, lifecycle, history
<1>4. ASSUME NEW d \in Deliveries, Register(d) PROVE Reasons'
    BY <1>4 DEF Register, cloud, worker, lifecycle
<1>5. ASSUME NEW d \in Deliveries, Hand(d) PROVE Reasons'
  <2>1. copy[d] = "none" /\ verdict[d] = "Drop"
      BY <1>5 DEF Hand, Ownership, Handover, CopyAfterHand
  <2> QED BY <1>5, <2>1 DEF Hand, cloud, worker, lifecycle, history
<1>6. ASSUME NEW d \in Deliveries, Return(d) PROVE Reasons'
    BY <1>6 DEF Return, cloud, worker, lifecycle, history
<1>7. ASSUME NEW d \in Deliveries, Fire(d) PROVE Reasons'
    BY <1>7 DEF Fire, cloud, worker, lifecycle, history
<1>8. ASSUME NEW d \in Deliveries, Settle(d) PROVE Reasons'
    BY <1>8 DEF Settle, Lookup, cloud, lifecycle
<1>9. ASSUME NEW d \in Deliveries, Finish(d) PROVE Reasons'
  <2>1. AckJustified'
      BY <1>9 DEF Finish, history
  <2>2. ASSUME NEW m \in Msgs, service'[m] = "acked", service[m] # "acked"
        PROVE  m = msg[d] /\ verdict[d] \in {"Ack", "Drop"}
    <3>1. target[d] \in Deliveries /\ Answer(target[d], Verb(d))
        BY <1>9, <2>2 DEF Finish
    <3>2. m = msg[target[d]] /\ Verb(d) = "Ack"
        BY <2>2, <3>1, AnswerStep
    <3> QED BY <3>1, <3>2 DEF Verb, Ownership, Handover, FoundSameMessage
  <2>3. ForgottenWhenSettled'
      BY <1>9, <2>2 DEF Finish, history
  <2>4. MarksJustified'
    <3>1. PICK keys \in Marks(d) : marked' = marked \cup keys
        BY <1>9 DEF Finish
    <3>2. ASSUME NEW key \in keys PROVE key = Key[msg[d]] /\ key # NoKey /\ msg[d] \in succeeded
        BY <1>9, <3>1 DEF Finish, Marks
    <3> QED BY <1>9, <3>1, <3>2 DEF Finish, history
  <2> QED BY <2>1, <2>3, <2>4
<1>10. ASSUME NEW d \in Deliveries, AckLookup(d) PROVE Reasons'
    BY <1>10 DEF AckLookup, Lookup, cloud, lifecycle, history
<1>11. CASE Cancel
    BY <1>11 DEF Cancel, cloud, worker, history
<1>12. CASE DispatcherLeaves
    BY <1>12 DEF DispatcherLeaves, cloud, worker, history
<1>13. CASE ReceiveReturn
    BY <1>13 DEF ReceiveReturn, cloud, worker, history
<1>14. ASSUME NEW d \in Deliveries, Ask(d) PROVE Reasons'
    BY <1>14 DEF Ask, cloud, lifecycle
<1>15. ASSUME NEW key, Forget(key) PROVE Reasons'
    BY <1>15 DEF Forget, cloud, lifecycle, history
<1> QED BY <1>2, <1>3, <1>4, <1>5, <1>6, <1>7, <1>8, <1>9, <1>10, <1>11, <1>12, <1>13, <1>14,
        <1>15 DEF Next, Callback, Worker

(* The strengthened invariant holds of every reachable state.               *)
LEMMA Invariance == Spec => []IInv
<1>1. Init => IInv
  <2> SUFFICES ASSUME Init PROVE IInv
      OBVIOUS
  <2> USE PubSubAssumption, NoneIsNoDelivery DEF Init
  <2>1. TypeOK
    <3>1. Outstanding = {}
        BY DEF Outstanding
    <3>2. Cardinality(Outstanding) <= MaxOutstanding
        BY <3>1, FS_EmptySet
    <3>3. msg \in [Deliveries -> Msgs]
        OBVIOUS
    <3>4. started \in 0..MaxDeliveries
        OBVIOUS
    <3> QED BY <3>2, <3>3, <3>4 DEF TypeOK
  <2>2. Ownership
      BY DEF Ownership, Handover, NotYetDelivered, CopyAfterHand, HeldInSettle,
             UnknownBeforeRegister, EntriesOpen, FoundSameMessage, ClosedOnce, NoOrphan
  <2>3. Reasons
      BY DEF Reasons, AckJustified, MarksJustified, ForgottenWhenSettled
  <2> QED BY <2>1, <2>2, <2>3 DEF IInv
<1>2. IInv /\ [Next]_vars => IInv'
  <2>1. IInv /\ Next => IInv'
      BY TypeStep, HandoverStep, ReasonsStep DEF IInv
  <2>2. IInv /\ UNCHANGED vars => IInv'
      BY DEF IInv, TypeOK, Outstanding, Ownership, Handover, NotYetDelivered, CopyAfterHand,
             HeldInSettle, UnknownBeforeRegister, EntriesOpen, FoundSameMessage, ClosedOnce,
             NoOrphan, Reasons, AckJustified, MarksJustified, Settled,
             ForgottenWhenSettled, vars
  <2> QED BY <2>1, <2>2
<1> QED BY <1>1, <1>2, PTL DEF Spec

(* The values of the variables, and the limit on outstanding callbacks.     *)
THEOREM TypeCorrect == Spec => []TypeOK
<1>1. IInv => TypeOK
    BY DEF IInv
<1> QED BY Invariance, <1>1, PTL

(* A callback that waits on its done channel can be released, unless a      *)
(* redelivery of the same ID replaced its entry: no lookup under the mutex  *)
(* ever takes an entry out that the caller does not go on to close.         *)
THEOREM WaitersReachable == Spec => []NoOrphan
<1>1. IInv => NoOrphan
    BY DEF IInv, Ownership
<1> QED BY Invariance, <1>1, PTL

(* Ack, Nack, SendToDLQ and the Ack after it, called for any copies of any  *)
(* redeliveries in any order, never close a done channel twice.             *)
THEOREM NoDoubleClose == Spec => []ClosedOnce
<1>1. IInv => ClosedOnce
    BY DEF IInv, Ownership
<1> QED BY Invariance, <1>1, PTL

(* Though settling looks a delivery up by its ID alone, and may find a      *)
(* later one, and though marks fail and expire, only messages processed,    *)
(* repeated or given up are acknowledged, and those the store failed for.   *)
THEOREM ForgottenOnlySettled == Spec => []ForgottenWhenSettled
<1>1. IInv => ForgottenWhenSettled
    BY DEF IInv, Reasons
<1> QED BY Invariance, <1>1, PTL
=============================================================================
