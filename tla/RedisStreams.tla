---------------------------- MODULE RedisStreams ----------------------------
(***************************************************************************)
(* The Redis Streams transport (transport/redisstreams/streams.go): one    *)
(* consumer group over one stream, read by pipelines in several pods, with *)
(* crashes, restarts and failing calls.                                    *)
(*                                                                         *)
(* Redis keeps for each entry whether the group has read it, which         *)
(* consumer it is pending for and whether it is acknowledged.  Subscribe   *)
(* asks for new entries only (">"), so there is one copy of an entry at    *)
(* most.  That copy has no attributes: Subscribe expects a map where the   *)
(* client returns a string.  Hence no delay and no idempotency key ever    *)
(* reaches the pipeline, and its timer wheel and filter have no part here. *)
(* An error of XREADGROUP changes nothing: Subscribe tries again.          *)
(***************************************************************************)
EXTENDS Integers, FiniteSets, FiniteSetsExt

CONSTANTS Msgs,        \* the messages applications publish
          Pods,        \* processes, each with one Pipeline
          Nobody,      \* no pod
          Named,       \* pods with a configured ConsumerName; the name of any
                       \* other pod is made of its process number
          WithDLQ,     \* pods with a DLQStreamKey
          MaxPending,  \* how many pending entries recoverStale asks for: 100
          MaxRetries, RetryDelay, Custom,  \* as in Pipeline
          Verdicts,    \* Results handlers may return
          MaxFaults    \* bound: crashes, stops and failing calls in all

Policy == INSTANCE RetryPolicy WITH Width <- 16, DelayCap <- 300

ASSUME StreamsAssumption ==
    /\ Pods # {} /\ Nobody \notin Pods /\ Named \subseteq Pods /\ WithDLQ \subseteq Pods
    /\ MaxPending \in Nat /\ MaxFaults \in Nat
    /\ MaxRetries \in Nat /\ RetryDelay \in Nat /\ Custom \in BOOLEAN
    /\ Verdicts \subseteq [action : Policy!Actions, delay : Int]

VARIABLES
    entry,      \* entry[m]: "none", "new", "pending" or "acked"
    owner,      \* owner[m]: the pod whose consumer m is pending for, or Nobody
    copy,       \* copy[m]: the Message made of m, or Nothing
    phase,      \* phase[p]: where Subscribe is ("bootstrap", "recover", "ack",
                \* "read"), "stopping" (its context is done), or "down"
    stale,      \* stale[p]: what recoverStale still has to acknowledge
    faults,     \* how many faults there have been
    runs,       \* runs[m]: how often m's handler has run
    succeeded,  \* messages for which a handler has returned Ack
    dead,       \* messages in the DLQ stream
    dropped,    \* messages acknowledged for another reason, see AckedWasSettled
    parked      \* messages whose copy is gone while they are pending

vars == <<entry, owner, copy, phase, stale, faults, runs, succeeded, dead, dropped, parked>>
stream == <<entry, owner>>
group == <<phase, stale>>
history == <<runs, succeeded, dead, dropped, parked>>

Nothing == [at |-> "none", pod |-> CHOOSE p \in Pods : TRUE, attempts |-> 0, delay |-> 0]
Copies(p) == {m \in Msgs : copy[m] # Nothing /\ copy[m].pod = p}

Init ==
    /\ entry = [m \in Msgs |-> "none"] /\ owner = [m \in Msgs |-> Nobody]
    /\ copy = [m \in Msgs |-> Nothing]
    /\ phase = [p \in Pods |-> "bootstrap"] /\ stale = [p \in Pods |-> {}]
    /\ faults = 0
    /\ runs = [m \in Msgs |-> 0]
    /\ succeeded = {} /\ dead = {} /\ dropped = {} /\ parked = {}

(* A call returns an error.                                                 *)
Fault == faults < MaxFaults /\ faults' = faults + 1

Goes(p, to) == phase' = [phase EXCEPT ![p] = to]
MovesTo(m, place) == copy' = [copy EXCEPT ![m].at = place]
Gone(m) == copy' = [copy EXCEPT ![m] = Nothing]

(* XACK, and a copy that is gone with or without it.                        *)
XAck(m) == entry' = [entry EXCEPT ![m] = "acked"]
Leaves(m, acknowledged) ==
    /\ Gone(m)
    /\ parked' = parked \cup (IF acknowledged \/ entry[m] = "acked" THEN {} ELSE {m})

-----------------------------------------------------------------------------
(* Publish: XADD.                                                           *)
Publish(m) ==
    /\ entry[m] = "none"
    /\ entry' = [entry EXCEPT ![m] = "new"]
    /\ UNCHANGED <<owner, copy, group, faults, history>>

(* XGROUP CREATE from the beginning of the stream; an error ends Subscribe, *)
(* and Run shuts down.                                                      *)
Bootstrap(p) ==
    /\ phase[p] = "bootstrap"
    /\ \/ Goes(p, "recover") /\ UNCHANGED faults
       \/ Goes(p, "stopping") /\ Fault
    /\ UNCHANGED <<stream, copy, stale, history>>

(* recoverStale: XPENDING for this consumer's own name.  Its error, too, is *)
(* ignored.                                                                 *)
Recover(p) ==
    /\ phase[p] = "recover"
    /\ \/ /\ LET own == {m \in Msgs : entry[m] = "pending" /\ owner[m] = p}
             IN  \E ms \in kSubset(Min({MaxPending, Cardinality(own)}), own) :
                    stale' = [stale EXCEPT ![p] = ms]
          /\ Goes(p, "ack") /\ UNCHANGED faults
       \/ Goes(p, "read") /\ Fault /\ UNCHANGED stale
    /\ UNCHANGED <<stream, copy, history>>

(* Each of them is acknowledged, though nobody has it any more.             *)
RecoverAck(p) ==
    /\ phase[p] = "ack"
    /\ \E m \in stale[p] :
        /\ stale' = [stale EXCEPT ![p] = @ \ {m}]
        /\ \/ XAck(m) /\ dropped' = dropped \cup {m} /\ UNCHANGED faults
           \/ Fault /\ UNCHANGED <<entry, dropped>>
    /\ UNCHANGED <<owner, copy, phase, runs, succeeded, dead, parked>>

(* Mutant: recoverStale starts over when XCLAIM fails.                      *)
RecoverAgain == "recover"

(* What Subscribe does after recoverStale.                                  *)
AfterRecovery == "read"

(* The XCLAIM that follows names no entry: Redis refuses it, recoverStale   *)
(* returns, and Subscribe goes on to read.                                  *)
Recovered(p) ==
    /\ phase[p] = "ack" /\ stale[p] = {}
    /\ Goes(p, AfterRecovery)
    /\ UNCHANGED <<stream, copy, stale, faults, history>>

(* Mutant: no ConsumerName is filled in.                                    *)
ConsumerUnset(p) == Nobody

(* Config.defaults: the name entries are read under, this pod's own.        *)
Consumer(p) == p

(* Mutant: XREADGROUP from "0", the entries already pending included.       *)
ReadablePending(m) == entry[m] \in {"new", "pending"} /\ copy[m] = Nothing

(* What XREADGROUP returns for ">".                                         *)
Readable(m) == entry[m] = "new"

(* XREADGROUP; the handler puts the Message into the ring.                  *)
Read(p, m) ==
    /\ phase[p] = "read" /\ Readable(m)
    /\ entry' = [entry EXCEPT ![m] = "pending"]
    /\ owner' = [owner EXCEPT ![m] = Consumer(p)]
    /\ copy' = [copy EXCEPT ![m] = [at |-> "ring", pod |-> p, attempts |-> 0, delay |-> 0]]
    /\ UNCHANGED <<group, faults, history>>

-----------------------------------------------------------------------------
ResolveOutcome(attempts, result) ==
    IF Custom THEN Policy!CoordinatorHandle(MaxRetries, RetryDelay, attempts, result)
              ELSE Policy!DefaultHandle(MaxRetries, RetryDelay, attempts, result)

(* A worker takes the message from the ring, or finds it there again after  *)
(* a Retry, and runs its handler.                                           *)
Handle(m) ==
    /\ copy[m].at = "ring"
    /\ runs' = [runs EXCEPT ![m] = @ + 1]
    /\ \E result \in Verdicts : \E o \in ResolveOutcome(copy[m].attempts, result) :
        /\ copy' = [copy EXCEPT ![m].at = IF o.action = "Retry" THEN "ring" ELSE o.action,
                                ![m].attempts = o.attempts, ![m].delay = o.delay]
        /\ succeeded' = IF o.action = "Ack" THEN succeeded \cup {m} ELSE succeeded
    /\ UNCHANGED <<stream, group, faults, dead, dropped, parked>>

(* Ack: after a success, and after SendToDLQ.  Its context is none of the   *)
(* pipeline's, so it works during shutdown as well; its error is ignored.   *)
Ack(m) ==
    /\ copy[m].at \in {"Ack", "ackDLQ"}
    /\ \/ XAck(m) /\ Leaves(m, TRUE) /\ UNCHANGED faults
       \/ Fault /\ Leaves(m, FALSE) /\ UNCHANGED entry
    /\ UNCHANGED <<owner, group, runs, succeeded, dead, dropped>>

(* Nack.  With a delay, XCLAIM for the same consumer: the entry remains     *)
(* pending, and ">" never returns it.  Without one, XACK.                   *)
NackLater(m) ==
    /\ copy[m].at = "RetryWithDelay" /\ copy[m].delay > 0
    /\ Leaves(m, FALSE)
    /\ UNCHANGED <<stream, group, faults, runs, succeeded, dead, dropped>>

NackNow(m) ==
    /\ copy[m].at = "RetryWithDelay" /\ copy[m].delay <= 0
    /\ \/ XAck(m) /\ dropped' = dropped \cup {m} /\ Leaves(m, TRUE) /\ UNCHANGED faults
       \/ Fault /\ Leaves(m, FALSE) /\ UNCHANGED <<entry, dropped>>
    /\ UNCHANGED <<owner, group, runs, succeeded, dead>>

(* Mutant: the error of SendToDLQ is ignored.                               *)
NotSentAcked(m) == MovesTo(m, "ackDLQ") /\ UNCHANGED parked

(* After an error of SendToDLQ processMessage returns without an Ack.       *)
NotSent(m) == Leaves(m, FALSE)

(* SendToDLQ.  Without a DLQStreamKey it reports success; otherwise XADD    *)
(* and XACK, two calls that may fail.                                       *)
Unrouted(m) ==
    /\ copy[m].at = "DLQ" /\ copy[m].pod \notin WithDLQ
    /\ dropped' = dropped \cup {m}
    /\ MovesTo(m, "ackDLQ")
    /\ UNCHANGED <<stream, group, faults, runs, succeeded, dead, parked>>

SendToDLQ(m) ==
    /\ copy[m].at = "DLQ" /\ copy[m].pod \in WithDLQ
    /\ \/ /\ dead' = dead \cup {m} /\ MovesTo(m, "sent")
          /\ UNCHANGED <<faults, parked>>
       \/ Fault /\ NotSent(m) /\ UNCHANGED dead
    /\ UNCHANGED <<stream, group, runs, succeeded, dropped>>

AckSent(m) ==
    /\ copy[m].at = "sent"
    /\ \/ XAck(m) /\ MovesTo(m, "ackDLQ") /\ UNCHANGED <<faults, parked>>
       \/ Fault /\ NotSent(m) /\ UNCHANGED entry
    /\ UNCHANGED <<owner, group, runs, succeeded, dead, dropped>>

-----------------------------------------------------------------------------
(* The context is cancelled, at any point of Subscribe.                     *)
Stop(p) ==
    /\ phase[p] \notin {"stopping", "down"} /\ Fault
    /\ Goes(p, "stopping")
    /\ UNCHANGED <<stream, copy, stale, history>>

(* A process ends with the copies it holds.  Its entries stay pending, for  *)
(* a consumer that comes back only if it has a configured name.             *)
Ends(p) ==
    /\ Goes(p, "down")
    /\ stale' = [stale EXCEPT ![p] = {}]
    /\ copy' = [m \in Msgs |-> IF m \in Copies(p) THEN Nothing ELSE copy[m]]
    /\ parked' = parked \cup {m \in Copies(p) : entry[m] = "pending"}
    /\ owner' = [m \in Msgs |-> IF owner[m] = p /\ p \notin Named THEN Nobody ELSE owner[m]]

(* Run returns after the last batch; what came into the ring too late is    *)
(* dropped.                                                                 *)
Return(p) ==
    /\ phase[p] = "stopping" /\ \A m \in Copies(p) : copy[m].at = "ring"
    /\ Ends(p)
    /\ UNCHANGED <<entry, faults, runs, succeeded, dead, dropped>>

Crash(p) ==
    /\ phase[p] # "down" /\ Fault
    /\ Ends(p)
    /\ UNCHANGED <<entry, runs, succeeded, dead, dropped>>

Restart(p) ==
    /\ phase[p] = "down"
    /\ Goes(p, "bootstrap")
    /\ UNCHANGED <<stream, copy, stale, faults, history>>

-----------------------------------------------------------------------------
Subscribe(p) == Bootstrap(p) \/ Recover(p) \/ RecoverAck(p) \/ Recovered(p)
Process(m) ==
    \/ Handle(m) \/ Ack(m) \/ NackLater(m) \/ NackNow(m)
    \/ Unrouted(m) \/ SendToDLQ(m) \/ AckSent(m)
Reads(m) == \E p \in Pods : Read(p, m)

Next ==
    \/ \E m \in Msgs : Publish(m) \/ Reads(m) \/ Process(m)
    \/ \E p \in Pods : Subscribe(p) \/ Stop(p) \/ Return(p) \/ Crash(p) \/ Restart(p)

Spec == Init /\ [][Next]_vars

(* Goroutines are scheduled, handlers return, a pod that has ended is       *)
(* started again.  Nobody has to publish.                                   *)
FairSpec ==
    /\ Spec
    /\ \A m \in Msgs : WF_vars(Reads(m)) /\ WF_vars(Process(m))
    /\ \A p \in Pods : WF_vars(Subscribe(p)) /\ WF_vars(Return(p)) /\ WF_vars(Restart(p))

-----------------------------------------------------------------------------
(* Types, and what Redis keeps of an entry fits what the pods have of it.   *)
TypeOK ==
    /\ entry \in [Msgs -> {"none", "new", "pending", "acked"}]
    /\ owner \in [Msgs -> Pods \cup {Nobody}]
    /\ copy \in [Msgs -> [at : {"none", "ring", "Ack", "RetryWithDelay", "DLQ", "sent", "ackDLQ"},
                          pod : Pods, attempts : Nat, delay : Int]]
    /\ \A m \in Msgs : copy[m] # Nothing => owner[m] = copy[m].pod /\ runs[m] >= copy[m].attempts
    /\ phase \in [Pods -> {"bootstrap", "recover", "ack", "read", "stopping", "down"}]
    /\ stale \in [Pods -> SUBSET Msgs] /\ faults \in 0..MaxFaults
    /\ runs \in [Msgs -> Nat]
    /\ succeeded \subseteq Msgs /\ dead \subseteq Msgs
    /\ dropped \subseteq Msgs /\ parked \subseteq Msgs

Limit == IF Custom THEN Policy!DefaultRetries(MaxRetries) ELSE MaxRetries

(* What has become of an entry: why it will not be run again, or that it is *)
(* open.  No entry carries a key.                                           *)
Status(m) ==
    IF m \in succeeded THEN "succeeded"
    ELSE IF m \in dead THEN "dead"
    ELSE IF m \in dropped THEN "dropped"
    ELSE IF entry[m] = "none" THEN "absent" ELSE "open"

Delivered == INSTANCE Delivery WITH
                status <- [m \in Msgs |-> Status(m)],
                settled <- {m \in Msgs : entry[m] = "acked"},
                Key <- [m \in Msgs |-> Nobody], NoKey <- Nobody

(* The group delivers an entry once, so that the promise of Delivery holds  *)
(* across crashes, restarts and recovery: the limit on a handler's runs is  *)
(* never exceeded, and an entry that succeeded, is in the DLQ stream, was   *)
(* dropped or is acknowledged is never run again.                           *)
ImplementsDelivery == Delivered!Spec

(* An entry is acknowledged only if it was processed or is in the DLQ       *)
(* stream.  The exceptions: recoverStale acknowledges what this consumer    *)
(* had pending when it ended, Nack without a delay acknowledges, and so     *)
(* does processMessage after a SendToDLQ that had no stream to send to.     *)
AckedWasSettled ==
    \A m \in Msgs : entry[m] = "acked" => m \in succeeded \cup dead \cup dropped

(* A published message is acknowledged in the end, or parked: pending, with *)
(* no copy left, because of a Nack with a delay, a failing call or the end  *)
(* of its process.                                                          *)
SettledOrParked ==
    \A m \in Msgs : entry[m] # "none" ~> (entry[m] = "acked" \/ m \in parked)

(* changelog: "Nack: `XCLAIM` for delayed retry (reassign after idle time)":*)
(* a message that was nacked with a delay is delivered again.               *)
NackedIsRetried ==
    \A m \in Msgs :
        (copy[m].at = "RetryWithDelay" /\ copy[m].delay > 0)
            ~> (copy[m].at = "ring" \/ entry[m] = "acked")
=============================================================================
