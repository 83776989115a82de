-------------------------------- MODULE SQS --------------------------------
(***************************************************************************)
(* The SQS transport (transport/sqs/sqs.go) under pipelines in several     *)
(* pods that share the queue and a Redis idempotency store                 *)
(* (idempotency/store_redis.go), with crashes, restarts, failing calls and *)
(* visibility timeouts.                                                    *)
(*                                                                         *)
(* The queue outlives the pods.  A receive makes a copy of a message in    *)
(* one pod and hides the message for the visibility timeout, which nothing *)
(* extends while the copy waits in ring or timer wheel: several copies may *)
(* be under way at once.  Of each pod's pipeline this keeps the batches,   *)
(* the filter and processMessage; every call on SQS or Redis is a step of  *)
(* its own that fails once the pod's context is done.                      *)
(***************************************************************************)
EXTENDS Integers, FiniteSets, FiniteSetsExt

CONSTANTS Msgs,        \* the messages applications publish
          Pods,        \* processes, each with one Pipeline
          MaxCopies,   \* bound: copies of one message held at once
          Key,         \* Key[m]: the idempotency key among m's attributes, or NoKey
          NoKey,
          Delayed,     \* messages with the attribute X-NotBefore
          MaxRetries, RetryDelay, Custom,  \* as in Pipeline
          Verdicts,    \* Results handlers may return
          Unit,        \* units of a delay in a second
          WithDLQ,     \* pods with a DLQURL
          MaxFaults    \* bound: crashes, stops and failing calls in all

Policy == INSTANCE RetryPolicy WITH Width <- 16, DelayCap <- 300

ASSUME SQSAssumption ==
    /\ MaxCopies \in Nat \ {0} /\ MaxFaults \in Nat /\ Unit \in Nat \ {0}
    /\ MaxRetries \in Nat /\ RetryDelay \in Nat
    /\ Custom \in BOOLEAN /\ Pods # {} /\ WithDLQ \subseteq Pods
    /\ Verdicts \subseteq [action : Policy!Actions, delay : Int]
    /\ Delayed \subseteq Msgs /\ Msgs \cap {Key[m] : m \in Msgs} = {}

VARIABLES
    queue,      \* queue[m]: "absent", "visible", "invisible" or "deleted"
    copy,       \* copy[m][i]: the i-th copy of m, or Nothing
    marked,     \* keys in Redis that have not expired
    dlq,        \* messages in the dead letter queue
    pod,        \* pod[p]: "up", "stopping" (its context is done) or "down"
    faults,     \* how many faults there have been
    succeeded,  \* messages for which a handler has returned Ack
    again,      \* messages and keys for which one has done so after an earlier Ack
    excused,    \* messages and keys for which that may happen, see RepeatsExplained
    unanswered  \* messages for which Exists has returned an error

vars == <<queue, copy, marked, dlq, pod, faults, succeeded, again, excused, unanswered>>
remote == <<queue, marked, dlq>>
history == <<succeeded, again, excused, unanswered>>

Slots == Msgs \X (1..MaxCopies)
Copy(s) == copy[s[1]][s[2]]

(* The places of a copy: waiting, or in the batch being dispatched.         *)
Waiting == {"wheel", "ring"}
Batch == {"filter", "duplicate", "handle", "Ack", "mark", "RetryWithDelay", "DLQ", "ackDLQ"}

Nothing == [at |-> "none", pod |-> CHOOSE p \in Pods : TRUE, attempts |-> 0,
            delay |-> 0, latest |-> FALSE]

Held(m) == {i \in 1..MaxCopies : copy[m][i] # Nothing}
CopiesOf(p, places) == {s \in Slots : Copy(s).pod = p /\ Copy(s).at \in places}
Keys(ms) == {Key[m] : m \in ms} \ {NoKey}

Init ==
    /\ queue = [m \in Msgs |-> "absent"]
    /\ copy = [m \in Msgs |-> [i \in 1..MaxCopies |-> Nothing]]
    /\ marked = {} /\ dlq = {}
    /\ pod = [p \in Pods |-> "up"] /\ faults = 0
    /\ succeeded = {} /\ again = {} /\ excused = {} /\ unanswered = {}

Becomes(s, c) == copy' = [copy EXCEPT ![s[1]][s[2]] = c]
MovesTo(s, place) == Becomes(s, [Copy(s) EXCEPT !.at = place])
Gone(s) == Becomes(s, Nothing)

(* A call by pod p gets through, or returns an error: by a fault of the     *)
(* network or the service, and always once p's context is done.             *)
Works(p) == pod[p] = "up" /\ UNCHANGED faults
Fault == faults < MaxFaults /\ faults' = faults + 1
Fails(p) == \/ pod[p] = "up" /\ Fault
            \/ pod[p] = "stopping" /\ UNCHANGED faults

-----------------------------------------------------------------------------
(* Publish: SendMessage.  An error leaves the message unpublished.          *)
Publish(m) ==
    /\ queue[m] = "absent"
    /\ queue' = [queue EXCEPT ![m] = "visible"]
    /\ UNCHANGED <<copy, marked, dlq, pod, faults, history>>

(* Mutant: the older receipt is still the latest.                           *)
SupersededNot(c) == c

(* An earlier copy, once its message has been received again.               *)
Superseded(c) == [c EXCEPT !.latest = FALSE]

(* fromSQSMessage: a Message with the attributes it was published with, the *)
(* delay among them, a new receipt, and Attempts 0.  runPoller's handler    *)
(* puts it into ring or wheel.                                              *)
FromSQSMessage(p, m) ==
    [at |-> IF m \in Delayed THEN "wheel" ELSE "ring", pod |-> p,
     attempts |-> 0, delay |-> 0, latest |-> TRUE]

(* ReceiveMessage                                                           *)
Receive(p, m) ==
    /\ pod[p] = "up" /\ queue[m] = "visible" /\ Held(m) # 1..MaxCopies
    /\ LET i == CHOOSE j \in 1..MaxCopies : j \notin Held(m)
       IN  copy' = [copy EXCEPT ![m] = [j \in 1..MaxCopies |->
                        IF j = i THEN FromSQSMessage(p, m) ELSE Superseded(@[j])]]
    /\ queue' = [queue EXCEPT ![m] = "invisible"]
    /\ UNCHANGED <<marked, dlq, pod, faults, history>>

(* The visibility timeout, or the delay of a Nack, is over.                 *)
VisibilityTimeout(m) ==
    /\ queue[m] = "invisible"
    /\ queue' = [queue EXCEPT ![m] = "visible"]
    /\ excused' = IF Held(m) = {} THEN excused ELSE excused \cup {m}
    /\ UNCHANGED <<copy, marked, dlq, pod, faults, succeeded, again, unanswered>>

(* The receipt of s is the latest one, and its timeout has not passed.  An  *)
(* older receipt may or may not be honoured by the service.                 *)
Current(s) == Copy(s).latest /\ queue[s[1]] = "invisible"
Changed(s, to) ==
    queue' \in {[queue EXCEPT ![s[1]] = to]} \cup (IF Current(s) THEN {} ELSE {queue})

-----------------------------------------------------------------------------
(* The pipeline of a pod.  The timer wheel hands a copy to the ring.        *)
Fire(s) ==
    /\ Copy(s).at = "wheel"
    /\ MovesTo(s, "ring")
    /\ UNCHANGED <<remote, pod, faults, history>>

(* The dispatcher takes the next batch when the last one is finished.       *)
Dispatch(p) ==
    /\ CopiesOf(p, Batch) = {} /\ CopiesOf(p, {"ring"}) # {}
    /\ copy' = [m \in Msgs |-> [i \in 1..MaxCopies |->
                   IF <<m, i>> \in CopiesOf(p, {"ring"})
                     THEN [copy[m][i] EXCEPT !.at = "filter"] ELSE copy[m][i]]]
    /\ UNCHANGED <<remote, pod, faults, history>>

(* Mutant: an error of GET is taken for a missing key, whatever it was.     *)
ExistsNever(m) == FALSE

(* RedisStore.Exists                                                        *)
Exists(m) == Key[m] \in marked

(* Copies with m's key that the filter has let through and that are not     *)
(* yet marked: the window between check and mark.                           *)
Passed(m) ==
    {s \in Slots : Key[s[1]] = Key[m] /\ Copy(s).at \in Batch \ {"filter", "duplicate"}}

(* filterDuplicates, one message at a time: an error counts as a duplicate. *)
Filter(s) ==
    LET m == s[1] IN
    /\ Copy(s).at = "filter"
    /\ IF Key[m] = NoKey
         THEN MovesTo(s, "handle") /\ UNCHANGED <<faults, excused, unanswered>>
         ELSE \/ /\ Works(Copy(s).pod)
                 /\ MovesTo(s, IF Exists(m) THEN "duplicate" ELSE "handle")
                 /\ excused' = excused \cup
                        (IF Exists(m) \/ Passed(m) = {} THEN {} ELSE {Key[m]})
                 /\ UNCHANGED unanswered
              \/ /\ Fails(Copy(s).pod)
                 /\ MovesTo(s, "duplicate")
                 /\ unanswered' = unanswered \cup {m}
                 /\ UNCHANGED excused
    /\ UNCHANGED <<remote, pod, succeeded, again>>

ResolveOutcome(attempts, result) ==
    IF Custom THEN Policy!CoordinatorHandle(MaxRetries, RetryDelay, attempts, result)
              ELSE Policy!DefaultHandle(MaxRetries, RetryDelay, attempts, result)

(* Retry puts the message straight back into the ring, with its Attempts;   *)
(* Nack is given the delay.  Nobody reads them otherwise.                   *)
AfterHandle(c, o) ==
    [at |-> IF o.action = "Retry" THEN "ring" ELSE o.action,
     attempts |-> IF o.action = "Retry" THEN o.attempts ELSE 0,
     delay |-> IF o.action = "RetryWithDelay" THEN o.delay ELSE 0,
     pod |-> c.pod, latest |-> c.latest]

(* The handler runs, once the whole batch is filtered.                      *)
Handle(s) ==
    LET m == s[1] IN
    /\ Copy(s).at = "handle" /\ CopiesOf(Copy(s).pod, {"filter", "duplicate"}) = {}
    /\ \E result \in Verdicts : \E o \in ResolveOutcome(Copy(s).attempts, result) :
        /\ Becomes(s, AfterHandle(Copy(s), o))
        /\ IF o.action = "Ack"
             THEN /\ succeeded' = succeeded \cup {m}
                  /\ again' = again \cup (succeeded \cap {m})
                                    \cup (Keys({m}) \cap Keys(succeeded))
             ELSE UNCHANGED <<succeeded, again>>
    /\ UNCHANGED <<remote, pod, faults, excused, unanswered>>

(* DeleteMessageBatch: after a success, for a duplicate, after SendToDLQ.   *)
(* Its error is ignored.                                                    *)
Ack(s) ==
    /\ Copy(s).at \in {"Ack", "duplicate", "ackDLQ"}
    /\ \/ /\ Works(Copy(s).pod)
          /\ Changed(s, "deleted")
          /\ UNCHANGED excused
       \/ /\ Fails(Copy(s).pod)
          /\ excused' = excused \cup (IF Copy(s).at = "Ack" THEN {s[1]} ELSE {})
          /\ UNCHANGED queue
    /\ IF Copy(s).at = "Ack" THEN MovesTo(s, "mark") ELSE Gone(s)
    /\ UNCHANGED <<marked, dlq, pod, succeeded, again, unanswered>>

(* RedisStore.Mark: SETNX.  Its error is ignored.                           *)
Mark(s) ==
    /\ Copy(s).at = "mark"
    /\ \/ /\ Works(Copy(s).pod)
          /\ marked' = marked \cup Keys({s[1]})
          /\ UNCHANGED excused
       \/ /\ Fails(Copy(s).pod)
          /\ excused' = excused \cup Keys({s[1]})
          /\ UNCHANGED marked
    /\ Gone(s)
    /\ UNCHANGED <<queue, dlq, pod, succeeded, again, unanswered>>

(* The time to live Mark has given a key is over.  SETNX leaves that of a   *)
(* key that is there as it is: a key may expire however recent its Mark.    *)
Expire(key) ==
    /\ key \in marked
    /\ marked' = marked \ {key}
    /\ excused' = excused \cup {key}
    /\ UNCHANGED <<queue, copy, dlq, pod, faults, succeeded, again, unanswered>>

(* int32(delay.Seconds()), and not below zero.                              *)
Seconds(delay) == Max({delay \div Unit, 0})

(* ChangeMessageVisibility: in 0 seconds the message is visible at once,    *)
(* otherwise when VisibilityTimeout says so.  Its error is ignored.         *)
Nack(s) ==
    /\ Copy(s).at = "RetryWithDelay"
    /\ \/ /\ Works(Copy(s).pod)
          /\ IF Seconds(Copy(s).delay) = 0 /\ queue[s[1]] = "invisible"
               THEN Changed(s, "visible") ELSE UNCHANGED queue
       \/ Fails(Copy(s).pod) /\ UNCHANGED queue
    /\ Gone(s)
    /\ UNCHANGED <<marked, dlq, pod, history>>

(* Mutant: the error of SendToDLQ is ignored.                               *)
NotSentAcked(s) == MovesTo(s, "ackDLQ")

(* After an error of SendToDLQ processMessage returns without an Ack.       *)
NotSent(s) == Gone(s)

(* SendToDLQ, which fails without a DLQURL.  The message may be in the dead *)
(* letter queue even if the call returns an error.                          *)
SendToDLQ(s) ==
    LET sent == dlq \cup {s[1]} IN
    /\ Copy(s).at = "DLQ"
    /\ IF Copy(s).pod \in WithDLQ
         THEN \/ Works(Copy(s).pod) /\ dlq' = sent /\ MovesTo(s, "ackDLQ")
              \/ Fails(Copy(s).pod) /\ NotSent(s)
                   /\ dlq' \in {dlq} \cup (IF pod[Copy(s).pod] = "up" THEN {sent} ELSE {})
         ELSE NotSent(s) /\ UNCHANGED <<dlq, faults>>
    /\ UNCHANGED <<queue, marked, pod, history>>

-----------------------------------------------------------------------------
(* Mutant: Subscribe ends, but nobody cancels pollCtx.                      *)
StoppedUnnoticed == "deaf"

(* What Run does when it leaves its select: dispCancel.                     *)
Stopped == "stopping"

(* The context of Run is cancelled, or ReceiveMessage fails, which ends     *)
(* Subscribe and makes Run shut down all the same.                          *)
Stop(p) ==
    /\ pod[p] = "up" /\ Fault
    /\ pod' = [pod EXCEPT ![p] = Stopped]
    /\ UNCHANGED <<remote, copy, history>>

(* The process ends, and with it every copy it holds.                       *)
Ends(p) ==
    /\ pod' = [pod EXCEPT ![p] = "down"]
    /\ copy' = [m \in Msgs |-> [i \in 1..MaxCopies |->
                   IF copy[m][i].pod = p THEN Nothing ELSE copy[m][i]]]

(* Run returns after the last batch.  What is left in the wheel, or came    *)
(* into the ring too late, is dropped.  A Run that hangs in its shutdown    *)
(* (StuckOnRing in Pipeline) is a pod that does not take this step until it *)
(* is killed, which is a Crash.                                             *)
Return(p) ==
    /\ pod[p] = "stopping" /\ CopiesOf(p, Batch) = {}
    /\ Ends(p)
    /\ UNCHANGED <<remote, faults, history>>

(* A crash anywhere: a success not yet acknowledged, or not yet marked.     *)
Crash(p) ==
    /\ pod[p] # "down" /\ Fault
    /\ Ends(p)
    /\ LET Msg(places) == {s[1] : s \in CopiesOf(p, places)}
       IN  excused' = excused \cup Msg({"Ack"}) \cup Keys(Msg({"Ack", "mark"}))
    /\ UNCHANGED <<remote, succeeded, again, unanswered>>

Restart(p) ==
    /\ pod[p] = "down"
    /\ pod' = [pod EXCEPT ![p] = "up"]
    /\ UNCHANGED <<remote, copy, faults, history>>

-----------------------------------------------------------------------------
Step(s) == Fire(s) \/ Filter(s) \/ Handle(s) \/ Ack(s) \/ Mark(s) \/ Nack(s) \/ SendToDLQ(s)
Receives(m) == \E p \in Pods : Receive(p, m)

Next ==
    \/ \E m \in Msgs : Publish(m) \/ Receives(m) \/ VisibilityTimeout(m)
    \/ \E s \in Slots : Step(s)
    \/ \E key \in Keys(Msgs) : Expire(key)
    \/ \E p \in Pods : Dispatch(p) \/ Stop(p) \/ Return(p) \/ Crash(p) \/ Restart(p)

Spec == Init /\ [][Next]_vars

(* Goroutines are scheduled and handlers return; a hidden message becomes   *)
(* visible and is received; a pod that has ended is started again.          *)
FairSpec ==
    /\ Spec
    /\ \A m \in Msgs : WF_vars(Receives(m)) /\ WF_vars(VisibilityTimeout(m))
    /\ \A s \in Slots : WF_vars(Step(s))
    /\ \A p \in Pods : WF_vars(Dispatch(p)) /\ WF_vars(Return(p)) /\ WF_vars(Restart(p))

-----------------------------------------------------------------------------
(* Types, and one receipt at most is the latest.                            *)
TypeOK ==
    /\ queue \in [Msgs -> {"absent", "visible", "invisible", "deleted"}]
    /\ copy \in [Msgs -> [1..MaxCopies ->
                    [at : {"none"} \cup Waiting \cup Batch, pod : Pods,
                     attempts : Nat, delay : Int, latest : BOOLEAN]]]
    /\ \A m \in Msgs : Cardinality({i \in Held(m) : copy[m][i].latest}) <= 1
    /\ marked \subseteq Keys(Msgs) /\ dlq \subseteq Msgs
    /\ pod \in [Pods -> {"up", "stopping", "down"}] /\ faults \in 0..MaxFaults
    /\ succeeded \subseteq Msgs /\ unanswered \subseteq Msgs
    /\ again \subseteq Msgs \cup Keys(Msgs) /\ excused \subseteq Msgs \cup Keys(Msgs)

(* At-least-once delivery across crashes, stale receipts and failing calls: *)
(* a message leaves the queue only if it was processed, is in the dead      *)
(* letter queue, or repeats the key of one that was processed; or if the    *)
(* store failed, which filterDuplicates takes for a duplicate.              *)
DeletedWasSettled ==
    \A m \in Msgs \ unanswered :
        queue[m] = "deleted" =>
            m \in succeeded \cup dlq \/ Keys({m}) \cap Keys(succeeded) # {}

(* README, "Failure Windows".  A message is processed a second time only if *)
(* its visibility timeout passed while a pod held it, or a pod's Ack of it  *)
(* failed or was prevented by a crash.  And a key is processed a second     *)
(* time only if a copy passed the filter between check and mark of another, *)
(* a Mark failed or was prevented by a crash, or the key has expired.       *)
RepeatsExplained == again \subseteq excused

(* A message that is still in the queue is always received again: no crash, *)
(* failing call, missing DLQ or stopped pod strands it.  This is under the  *)
(* fairness of Return: a pod whose Run hangs is not started again, and      *)
(* another one has to receive the message.                                  *)
NeverStranded ==
    \A m \in Msgs : []<>(queue[m] \in {"absent", "deleted"} \/ Held(m) # {})

(* README: "Poison message (always fails) | Attempts exhausted -> DLQ".     *)
PoisonReachesDLQ == \A m \in Msgs : queue[m] # "absent" ~> m \in dlq
=============================================================================
