------------------------------- MODULE PubSub -------------------------------
(***************************************************************************)
(* The Google Cloud Pub/Sub transport (transport/pubsub/pubsub.go) between *)
(* the service and a running Pipeline.  The callback that Receive starts   *)
(* for a delivery registers it in inflight under the message's ID, hands a *)
(* copy to the poller's handler and waits on the delivery's done channel.  *)
(* The pipeline settles copies later, from its workers, and all a copy     *)
(* carries is the ID: Ack, Nack and SendToDLQ look the delivery up again.  *)
(*                                                                         *)
(* The service and the client library are external and modelled by what    *)
(* Subscribe relies on: Receive bounds the callbacks outstanding, starts   *)
(* none once its context is done and returns when all have returned.  Of   *)
(* the pipeline this keeps where copies are (ring, timer wheel or the      *)
(* batch), the idempotency filter with its store, and when the dispatcher  *)
(* leaves; runPoller's handler never returns an error.                     *)
(***************************************************************************)
EXTENDS Naturals, FiniteSets

CONSTANTS Msgs,            \* messages published to the subscription
          Delayed,         \* those with X-NotBefore
          MaxOutstanding,  \* ReceiveSettings.MaxOutstandingMessages
          MaxDeliveries,   \* bound: deliveries in all
          Verdicts,        \* what becomes of copies: "Ack", "Nack", "DLQ"
          Expires,         \* messages whose ack deadline may pass
          Key,             \* Key[m]: m's idempotency key, or NoKey
          NoKey,
          StoreFails       \* TRUE: the IdemStore may return errors

ASSUME PubSubAssumption ==
    /\ MaxOutstanding \in Nat \ {0} /\ MaxDeliveries \in Nat
    /\ Msgs # {} /\ Delayed \subseteq Msgs
    /\ Verdicts \subseteq {"Ack", "Nack", "DLQ"}
    /\ Expires \subseteq Msgs /\ StoreFails \in BOOLEAN

Deliveries == 1..MaxDeliveries
Keys == {Key[m] : m \in Msgs} \ {NoKey}
None == 0

VARIABLES
    service,      \* service[m]: "available", "leased", "acked" or "dead" (dead-lettered)
    lease,        \* lease[m]: m's latest delivery
    msg,          \* msg[d]: the message of delivery d, once delivered
    started,      \* how many deliveries there have been
    callback,     \* callback[d]: "none", "register", "hand", "wait", "returned"
    done,         \* deliveries whose done channel is closed
    inflight,     \* t.inflight: inflight[m] is a delivery or None
    copy,         \* copy[d]: "none", "wheel", "ring", "kept", "duplicate", "settle",
                  \*          "deadLettered", "gone"
    verdict,      \* verdict[d]: what has been decided on copy d
    target,       \* target[d]: the delivery the call on the transport has found, or None
    marked,       \* keys in the IdemStore
    cancelled,
    dispatching,  \* the dispatcher has not left
    receiving,    \* Receive, and with it the poller, has not returned
    succeeded,    \* messages for which a handler returned Ack
    givenUp,      \* messages for which SendToDLQ was called
    unanswered,   \* messages for which Exists has returned an error
    overwritten   \* deliveries that a later one has replaced in inflight

vars == <<service, lease, msg, started, callback, done, inflight, copy, verdict, target,
          marked, cancelled, dispatching, receiving, succeeded, givenUp, unanswered,
          overwritten>>
cloud == <<service, lease, msg, started>>
worker == <<verdict, target, marked>>
lifecycle == <<cancelled, dispatching, receiving>>
history == <<succeeded, givenUp, unanswered, overwritten>>

Init ==
    /\ service = [m \in Msgs |-> "available"]
    /\ lease = [m \in Msgs |-> None]
    /\ msg = [d \in Deliveries |-> CHOOSE m \in Msgs : TRUE]
    /\ started = 0
    /\ callback = [d \in Deliveries |-> "none"]
    /\ done = {}
    /\ inflight = [m \in Msgs |-> None]
    /\ copy = [d \in Deliveries |-> "none"]
    /\ verdict = [d \in Deliveries |-> "Drop"]
    /\ target = [d \in Deliveries |-> None]
    /\ marked = {}
    /\ cancelled = FALSE /\ dispatching = TRUE /\ receiving = TRUE
    /\ succeeded = {} /\ givenUp = {} /\ unanswered = {} /\ overwritten = {}

-----------------------------------------------------------------------------
(* The service and the client library.                                      *)
Outstanding == {d \in Deliveries : callback[d] \notin {"none", "returned"}}

(* Receive starts a callback for a message, within MaxOutstandingMessages.  *)
Deliver(m) ==
    /\ ~cancelled /\ service[m] = "available"
    /\ started < MaxDeliveries /\ Cardinality(Outstanding) < MaxOutstanding
    /\ started' = started + 1
    /\ msg' = [msg EXCEPT ![started'] = m]
    /\ lease' = [lease EXCEPT ![m] = started']
    /\ service' = [service EXCEPT ![m] = "leased"]
    /\ callback' = [callback EXCEPT ![started'] = "register"]
    /\ UNCHANGED <<done, inflight, copy, worker, lifecycle, history>>

(* The ack deadline passes; the message will be delivered again.            *)
Expire(m) ==
    /\ m \in Expires /\ service[m] = "leased"
    /\ service' = [service EXCEPT ![m] = "available"]
    /\ UNCHANGED <<lease, msg, started, callback, done, inflight, copy, worker, lifecycle,
                   history>>

(* msg.Ack and msg.Nack on delivery d.  An Ack after the deadline may still *)
(* count, a Nack then changes nothing; a nacked message is delivered again  *)
(* or, by the subscription's policy, dead-lettered.                         *)
Answer(d, verb) ==
    LET m == msg[d]
        current == service[m] = "leased" /\ lease[m] = d
    IN  service' \in
          (IF current THEN {} ELSE {service}) \cup
          (IF verb = "Ack"
             THEN IF service[m] = "dead" THEN {} ELSE {[service EXCEPT ![m] = "acked"]}
             ELSE IF current THEN {[service EXCEPT ![m] = s] : s \in {"available", "dead"}}
                             ELSE {})

ReceiveReturn ==
    /\ cancelled /\ receiving /\ Outstanding = {}
    /\ receiving' = FALSE
    /\ UNCHANGED <<cloud, callback, done, inflight, copy, worker, cancelled, dispatching,
                   history>>

-----------------------------------------------------------------------------
(* Subscribe's callback: inflight[ID] = p, under the mutex.                 *)
Register(d) ==
    /\ callback[d] = "register"
    /\ inflight' = [inflight EXCEPT ![msg[d]] = d]
    /\ overwritten' = overwritten \cup ({inflight[msg[d]]} \ {None})
    /\ callback' = [callback EXCEPT ![d] = "hand"]
    /\ UNCHANGED <<cloud, done, copy, worker, lifecycle, succeeded, givenUp,
                   unanswered>>

(* toRingqMessage: the delay, parsed from the attribute X-NotBefore, is     *)
(* positive.                                                                *)
NotBefore(m) == m \in Delayed

(* handler: the poller puts the copy into the wheel or the ring.            *)
Hand(d) ==
    /\ callback[d] = "hand"
    /\ copy' = [copy EXCEPT ![d] = IF NotBefore(msg[d]) THEN "wheel" ELSE "ring"]
    /\ callback' = [callback EXCEPT ![d] = "wait"]
    /\ UNCHANGED <<cloud, done, inflight, worker, lifecycle, history>>

(* <-p.done                                                                 *)
Return(d) ==
    /\ callback[d] = "wait" /\ d \in done
    /\ callback' = [callback EXCEPT ![d] = "returned"]
    /\ UNCHANGED <<cloud, done, inflight, copy, worker, lifecycle, history>>

-----------------------------------------------------------------------------
(* The pipeline.  The wheel fires until the context is done, and may do so  *)
(* a little longer: its selects do not prefer ctx.Done.                     *)
Fire(d) ==
    /\ copy[d] = "wheel"
    /\ copy' = [copy EXCEPT ![d] = "ring"]
    /\ UNCHANGED <<cloud, callback, done, inflight, worker, lifecycle, history>>

(* Mutant: the entry stays in inflight.                                     *)
LookupKeeps(d) ==
    /\ target' = [target EXCEPT ![d] = inflight[msg[d]]]
    /\ copy' = [copy EXCEPT ![d] = "settle"]
    /\ UNCHANGED inflight

(* The critical section of Ack, Nack and SendToDLQ alike: find the ID's     *)
(* entry and delete it.                                                     *)
Lookup(d) ==
    /\ target' = [target EXCEPT ![d] = inflight[msg[d]]]
    /\ inflight' = [inflight EXCEPT ![msg[d]] = None]
    /\ copy' = [copy EXCEPT ![d] = "settle"]

(* No call on the transport, nor the Mark after it, is under way.  The      *)
(* dispatcher asks only once all of a batch are finished; here it may also  *)
(* ask between the calls of two workers.                                    *)
Filtering == \A d \in Deliveries : copy[d] \notin {"settle", "deadLettered"}

(* filterDuplicates: a copy whose key the store knows, or cannot answer for, *)
(* will be acknowledged, the others run.  A copy whose handler wants a Retry *)
(* returns to the ring and is asked about again: the last time is what       *)
(* counts, so that copies wait here until then.                              *)
Ask(d) ==
    /\ copy[d] = "ring" /\ dispatching /\ Filtering
    /\ \E err \in IF StoreFails /\ Key[msg[d]] # NoKey THEN BOOLEAN ELSE {FALSE} :
        /\ copy' = [copy EXCEPT ![d] = IF Key[msg[d]] \in marked \/ err
                                           THEN "duplicate" ELSE "kept"]
        /\ unanswered' = IF err THEN unanswered \cup {msg[d]} ELSE unanswered
    /\ UNCHANGED <<cloud, callback, done, inflight, verdict, target, marked, lifecycle, succeeded,
                   givenUp, overwritten>>

(* A worker has run the handler of copy d and calls the transport.          *)
Settle(d) ==
    /\ copy[d] = "kept"
    /\ \E v \in Verdicts :
        /\ verdict' = [verdict EXCEPT ![d] = v]
        /\ succeeded' = IF v = "Ack" THEN succeeded \cup {msg[d]} ELSE succeeded
        /\ givenUp' = IF v = "DLQ" THEN givenUp \cup {msg[d]} ELSE givenUp
    /\ Lookup(d)
    /\ UNCHANGED <<cloud, callback, done, marked, lifecycle, unanswered, overwritten>>

(* Mutants: a key is marked whatever the verdict; done is not closed.       *)
MarksAlways(d) == {{Key[msg[d]]} \ {NoKey}}
ClosesNothing(d) == {}

(* SendToDLQ nacks, and Nack does so whatever the delay.                    *)
Verb(d) == IF verdict[d] \in {"Ack", "Drop"} THEN "Ack" ELSE "Nack"

(* close(p.done), if the call has found an entry.                           *)
Closes(d) == {target[d]} \ {None}

(* idemFilter.mark, after the Ack of a success only; errors are ignored.    *)
Marks(d) ==
    IF verdict[d] # "Ack" THEN {{}}
    ELSE {{Key[msg[d]]} \ {NoKey}} \cup (IF StoreFails THEN {{}} ELSE {})

(* Outside the mutex: answer the service, close done, mark the key.  After  *)
(* SendToDLQ processMessage goes on to Ack.  Nobody asks the store between  *)
(* the Ack of a success and its Mark: the dispatcher waits for the batch.   *)
Finish(d) ==
    /\ copy[d] = "settle"
    /\ IF target[d] = None THEN UNCHANGED service ELSE Answer(target[d], Verb(d))
    /\ done' = done \cup Closes(d)
    /\ \E keys \in Marks(d) : marked' = marked \cup keys
    /\ copy' = [copy EXCEPT ![d] = IF verdict[d] = "DLQ" THEN "deadLettered" ELSE "gone"]
    /\ verdict' = [verdict EXCEPT ![d] = "Drop"]
    /\ target' = [target EXCEPT ![d] = None]
    /\ UNCHANGED <<lease, msg, started, callback, inflight, lifecycle, history>>

(* The Ack of a duplicate, and the one that follows SendToDLQ.              *)
AckLookup(d) ==
    /\ copy[d] \in {"duplicate", "deadLettered"}
    /\ Lookup(d)
    /\ UNCHANGED <<cloud, callback, done, verdict, marked, lifecycle, history>>

(* Marks live as long as the TTL.                                           *)
Forget(key) ==
    /\ key \in marked
    /\ marked' = marked \ {key}
    /\ UNCHANGED <<cloud, callback, done, inflight, copy, verdict, target, lifecycle, history>>

Cancel ==
    /\ ~cancelled
    /\ cancelled' = TRUE
    /\ UNCHANGED <<cloud, callback, done, inflight, copy, worker, dispatching, receiving,
                   history>>

(* The dispatcher leaves when it finds the ring empty between two batches.  *)
DispatcherLeaves ==
    /\ cancelled /\ dispatching
    /\ \A d \in Deliveries : copy[d] \in {"none", "wheel", "gone"}
    /\ dispatching' = FALSE
    /\ UNCHANGED <<cloud, callback, done, inflight, copy, worker, cancelled, receiving,
                   history>>

-----------------------------------------------------------------------------
Callback(d) == Register(d) \/ Hand(d) \/ Return(d)
Worker(d) == Ask(d) \/ Settle(d) \/ Finish(d) \/ AckLookup(d)

Next ==
    \/ \E m \in Msgs : Deliver(m) \/ Expire(m)
    \/ \E key \in Keys : Forget(key)
    \/ \E d \in Deliveries : Callback(d) \/ Fire(d) \/ Worker(d)
    \/ Cancel \/ DispatcherLeaves \/ ReceiveReturn

Spec == Init /\ [][Next]_vars

(* Goroutines are scheduled, handlers return, the wheel's clock runs.  Each *)
(* delivery has finitely many steps, so that fairness to all of a           *)
(* delivery's is fairness to each.  The service and the store owe nothing,  *)
(* and nobody has to cancel.                                                *)
FairSpec ==
    /\ Spec
    /\ \A d \in Deliveries :
        WF_vars(Callback(d) \/ Worker(d) \/ (~cancelled /\ Fire(d)))
    /\ WF_vars(DispatcherLeaves) /\ WF_vars(ReceiveReturn)

-----------------------------------------------------------------------------
(* Types, and the client's limit on callbacks outstanding.                  *)
TypeOK ==
    /\ service \in [Msgs -> {"available", "leased", "acked", "dead"}]
    /\ lease \in [Msgs -> Deliveries \cup {None}] /\ msg \in [Deliveries -> Msgs]
    /\ started \in 0..MaxDeliveries
    /\ callback \in [Deliveries -> {"none", "register", "hand", "wait", "returned"}]
    /\ Cardinality(Outstanding) <= MaxOutstanding
    /\ done \subseteq Deliveries /\ inflight \in [Msgs -> Deliveries \cup {None}]
    /\ copy \in [Deliveries -> {"none", "wheel", "ring", "kept", "duplicate", "settle",
                             "deadLettered", "gone"}]
    /\ verdict \in [Deliveries -> {"Ack", "Nack", "DLQ", "Drop"}]
    /\ target \in [Deliveries -> Deliveries \cup {None}] /\ marked \subseteq Keys
    /\ cancelled \in BOOLEAN /\ dispatching \in BOOLEAN /\ receiving \in BOOLEAN
    /\ succeeded \subseteq Msgs /\ givenUp \subseteq Msgs /\ unanswered \subseteq Msgs
    /\ overwritten \subseteq Deliveries

(* Whoever waits on a done channel can still be reached: the delivery is in *)
(* inflight, or a call that took it out is about to close the channel.  The *)
(* one exception is a delivery whose entry a redelivery of the same message *)
(* has overwritten: its callback waits on a channel nobody can close.       *)
NoOrphan ==
    \A d \in Deliveries \ overwritten :
        callback[d] \in {"hand", "wait"} /\ d \notin done
            => inflight[msg[d]] = d \/ \E e \in Deliveries : target[e] = d

(* No two calls hold the same delivery, and none holds one whose channel is *)
(* closed already: closing a channel twice panics.                          *)
ClosedOnce ==
    \A d, e \in Deliveries :
        target[d] # None =>
            /\ target[d] \notin done
            /\ d # e => target[d] # target[e]

(* While the pipeline runs, every callback returns and frees its place      *)
(* among the MaxOutstanding, unless its entry is overwritten.               *)
CallbacksReturn ==
    \A d \in Deliveries :
        callback[d] = "wait" ~> (callback[d] = "returned" \/ d \in overwritten \/ cancelled)

(* A callback nobody will release: its entry is overwritten, or its copy    *)
(* sits in the wheel or the ring of a pipeline whose dispatcher has left.   *)
Stranded(d) ==
    /\ callback[d] = "wait" /\ d \notin done
    /\ d \in overwritten \/ (copy[d] \in {"wheel", "ring"} /\ ~dispatching)

(* Shutdown, where Run waits for the poller and the poller for Receive:     *)
(* Receive returns unless a callback is stranded.                           *)
ReceiveReturns == cancelled ~> (~receiving \/ \E d \in Deliveries : Stranded(d))

(* A message the service is told to forget was processed by some handler,   *)
(* repeats the key of one that was, or was given up: the Ack after          *)
(* SendToDLQ may reach a redelivery of it.  The exception is a message the  *)
(* filter drops because the store could not answer for its key.             *)
ForgottenWhenSettled ==
    \A m \in Msgs \ unanswered :
        service[m] = "acked" =>
            \/ m \in succeeded \cup givenUp
            \/ Key[m] # NoKey /\ \E n \in succeeded : Key[n] = Key[m]
=============================================================================
