--------------------------- MODULE Pipeline_proofs ---------------------------
(***************************************************************************)
(* The pipeline, for any messages, workers, queue sizes, retry limit,      *)
(* verdicts and keys: no hand-over between goroutines loses or copies a    *)
(* message, the retry limit holds, shutdown closes nothing in use, and the *)
(* idempotency filter lets a repetition through only where it must; and    *)
(* the whole implements Delivery.                                          *)
(***************************************************************************)
EXTENDS Pipeline, FiniteSetTheorems, TLAPS

(* What a goroutine holds belongs to the point it is at.                    *)
HandsEmpty ==
    /\ poller # "handle" => pbatch = <<>>
    /\ timer # "enqueue" => tbatch = {}
    /\ ticker # "send" => expired = {}
    /\ run # "requeue" => rest = {}
    /\ disp \notin {"filter", "submit"} => dbatch = <<>>
    /\ disp # "filter" => kept = <<>> /\ duplicates = <<>>
    /\ \A w \in Workers :
        /\ worker[w] \in {"idle", "exited"} => cur[w] = <<>>
        /\ worker[w] \notin {"idle", "exited"} => Len(cur[w]) = 1

(* Run shuts down part by part: it has passed a Wait only once the          *)
(* goroutine it waited for has left, and closes a queue only after that.    *)
Shutdown ==
    /\ run # "select" => Stopping
    /\ run \notin {"select", "dispWg"} => disp = "done"
    /\ run \notin {"select", "dispWg", "timerWg"} => timer = "done"
    /\ memClosed => run \notin {"select", "dispWg", "timerWg"}
    /\ run \in {"pool", "drain", "requeue", "returned"} => PollOver
    /\ workClosed => run \in {"pool", "drain", "requeue", "returned"}
    /\ run \in {"drain", "requeue", "returned"} =>
            ringClosed /\ \A w \in Workers : worker[w] = "exited"
    /\ ringClosed => run \in {"drain", "requeue", "returned"}
    /\ wheelClosed => run \in {"requeue", "returned"}
    /\ storeClosed => run = "returned"

-----------------------------------------------------------------------------
(* Whether m is in a sequence or set of Messages, and at most once.         *)
HeldSeq(seq, m) == \E i \in DOMAIN seq : seq[i].id = m
OnceSeq(seq, m) == \A i, j \in DOMAIN seq : seq[i].id = m /\ seq[j].id = m => i = j
HeldSet(set, m) == \E x \in set : x.id = m
OnceSet(set, m) == \A x, y \in set : x.id = m /\ y.id = m => x = y

(* The same for the wheel's channel, a sequence of sets, and for the        *)
(* workers, who have let go of a message once it is acknowledged.           *)
HeldOut(chan, m) == \E i \in DOMAIN chan : HeldSet(chan[i], m)
OnceOut(chan, m) ==
    /\ \A i \in DOMAIN chan : OnceSet(chan[i], m)
    /\ \A i, j \in DOMAIN chan : HeldSet(chan[i], m) /\ HeldSet(chan[j], m) => i = j
HeldBy(at, msg, w, m) == at[w] # "mark" /\ HeldSeq(msg[w], m)
HeldCur(at, msg, m) == \E w \in Workers : HeldBy(at, msg, w, m)
OnceCur(at, msg, m) ==
    \A v, w \in Workers : HeldBy(at, msg, v, m) /\ HeldBy(at, msg, w, m) => v = w

(* m is at most once in each place ...                                      *)
OnceInEach(m) ==
    /\ OnceSeq(mem, m) /\ OnceSeq(pbatch, m) /\ OnceSeq(ring, m)
    /\ OnceSet(wheel, m) /\ OnceSet(expired, m) /\ OnceOut(out, m)
    /\ OnceSet(tbatch, m) /\ OnceSet(rest, m)
    /\ OnceSeq(dbatch, m) /\ OnceSeq(kept, m) /\ OnceSeq(duplicates, m)
    /\ OnceSeq(work, m) /\ OnceCur(worker, cur, m)

(* ... and nowhere but in place p.                                          *)
OnlyIn(m, p) ==
    /\ HeldSeq(mem, m) => p = "mem"
    /\ HeldSeq(pbatch, m) => p = "poller"
    /\ HeldSeq(ring, m) => p = "ring"
    /\ HeldSet(wheel, m) => p = "wheel"
    /\ HeldSet(expired, m) => p = "expired"
    /\ HeldOut(out, m) => p = "out"
    /\ HeldSet(tbatch, m) => p = "timer"
    /\ HeldSet(rest, m) => p = "rest"
    /\ HeldSeq(dbatch, m) => p = "dispatcher"
    /\ HeldSeq(kept, m) => p = "kept"
    /\ HeldSeq(duplicates, m) => p = "duplicates"
    /\ HeldSeq(work, m) => p = "work"
    /\ HeldCur(worker, cur, m) => p = "worker"
    /\ m \in acked => p = "acked"

Somewhere(m) ==
    \/ HeldSeq(mem, m) \/ HeldSeq(pbatch, m) \/ HeldSeq(ring, m)
    \/ HeldSet(wheel, m) \/ HeldSet(expired, m) \/ HeldOut(out, m)
    \/ HeldSet(tbatch, m) \/ HeldSet(rest, m)
    \/ HeldSeq(dbatch, m) \/ HeldSeq(kept, m) \/ HeldSeq(duplicates, m)
    \/ HeldSeq(work, m) \/ HeldCur(worker, cur, m) \/ m \in acked

(* What shutdown may drop: a delayed message.                               *)
MayBeDropped(m) == m \in Delayed /\ (outClosed \/ ringClosed)

(* EachInOnePlace in these terms.                                           *)
InOnePlace(m) ==
    /\ OnceInEach(m) /\ \E p : OnlyIn(m, p)
    /\ Somewhere(m) => m \in published
    /\ m \in published => Somewhere(m) \/ MayBeDropped(m)
OnePlace == \A m \in Msgs : InOnePlace(m)

(* Only delayed messages come into the wheel, and from there to Run.        *)
WheelDelayed == \A x \in wheel \cup expired \cup rest : x.id \in Delayed

-----------------------------------------------------------------------------
(* Wherever a message is, its Attempts count the runs of its handler.       *)
CountsSeq(r, seq) == \A i \in DOMAIN seq : r[seq[i].id] = seq[i].attempts
CountsSet(r, set) == \A x \in set : r[x.id] = x.attempts
CountsOut(r, chan) == \A i \in DOMAIN chan : CountsSet(r, chan[i])
CountsCur(r, at, msg) ==
    \A w \in Workers :
        at[w] \in {"handle", "Retry", "RetryWithDelay"} => CountsSeq(r, msg[w])
AttemptsCountRuns ==
    /\ CountsSeq(runs, mem) /\ CountsSeq(runs, pbatch) /\ CountsSeq(runs, ring)
    /\ CountsSet(runs, wheel) /\ CountsSet(runs, expired) /\ CountsOut(runs, out)
    /\ CountsSet(runs, tbatch) /\ CountsSet(runs, rest)
    /\ CountsSeq(runs, dbatch) /\ CountsSeq(runs, kept) /\ CountsSeq(runs, duplicates)
    /\ CountsSeq(runs, work) /\ CountsCur(runs, worker, cur)
    /\ \A m \in Msgs \ published : runs[m] = 0

-----------------------------------------------------------------------------
(* What is marked was processed, and who acknowledges has a reason.         *)
KeyDone(done, m) == Key[m] # NoKey /\ \E n \in done : Key[n] = Key[m]
AckJustified ==
    /\ \A m \in Msgs : Key[m] \in marked => KeyDone(succeeded, m)
    /\ \A i \in DOMAIN duplicates :
            duplicates[i].id \in unanswered \/ KeyDone(succeeded, duplicates[i].id)
    /\ \A w \in Workers : worker[w] = "mark" => cur[w][1].id \in succeeded

-----------------------------------------------------------------------------
(* The batch under way, and the part of it that has passed the filter.      *)
Passed(m) ==
    \/ HeldSeq(kept, m) \/ (disp = "submit" /\ HeldSeq(dbatch, m))
    \/ HeldSeq(work, m) \/ HeldCur(worker, cur, m)
InBatch(m) == Passed(m) \/ HeldSeq(dbatch, m) \/ HeldSeq(duplicates, m)
Marking(m) == \E w \in Workers : worker[w] = "mark" /\ HeldSeq(cur[w], m)

(* Why the filter lets through only what DuplicatesOnlyWithinBatch allows:  *)
(* a success is marked, unless its worker is about to, or its Mark has      *)
(* failed or expired; messages of one batch and key are together; and what  *)
(* has passed the filter shares its key with no success outside its batch.  *)
FilterHolds ==
    /\ succeeded \subseteq acked
    /\ \A m \in succeeded :
            Key[m] # NoKey => Marking(m) \/ Key[m] \in marked \cup unmarked
    /\ \A m, n \in Msgs :
            m # n /\ Key[m] = Key[n] /\ InBatch(m) /\ (InBatch(n) \/ Marking(n))
                => {m, n} \in together
    /\ \A m \in Msgs, n \in succeeded :
            m # n /\ Passed(m) /\ Key[m] = Key[n] /\ Key[m] # NoKey
                => {m, n} \in together \/ Key[m] \in unmarked

IInv ==
    /\ TypeOK /\ HandsEmpty /\ Shutdown /\ OneBatchAtATime
    /\ WheelDelayed /\ OnePlace /\ AttemptsCountRuns /\ RunsBounded
    /\ AckJustified /\ AckedWasProcessed
    /\ FilterHolds /\ DuplicatesOnlyWithinBatch

(* What the refinement of Delivery needs besides: what is in the DLQ is     *)
(* acknowledged, and what the store could not answer for is, or is about    *)
(* to be.                                                                   *)
ReasonsHeld ==
    /\ dead \subseteq acked
    /\ \A m \in unanswered : m \in acked \/ HeldSeq(duplicates, m)
-----------------------------------------------------------------------------
USE DEF transport, ringVars, wheelVars, storeVars, poolVars, pollVars, timerVars, runVars,
        filtered, Remaining, dispVars, history, notPoller, notTicker, notTimer, notDispatcher,
        notWorker, notRun

(* What either coordinator answers: an end, or one attempt more within the  *)
(* limit.                                                                   *)
LEMMA Answers ==
    ASSUME NEW msg \in Message, NEW r \in Verdicts, NEW o \in ResolveOutcome(msg, r)
    PROVE  \/ o.action \in {"Ack", "DLQ"} /\ o.attempts = msg.attempts
           \/ /\ o.action \in {"Retry", "RetryWithDelay"}
              /\ o.attempts = msg.attempts + 1 /\ msg.attempts + 1 <= Limit
<1> USE PipelineAssumption DEF Policy!Outcome, Policy!Exhausted
<1> DEFINE a == msg.attempts
<1>1. r.action \in Policy!Actions /\ a \in Nat
    BY DEF Message
<1> HIDE DEF a
<1>2. CASE ~Custom
  <2>1. o \in Policy!DefaultHandle(MaxRetries, RetryDelay, a, r) /\ Limit = MaxRetries
      BY <1>2 DEF ResolveOutcome, Limit, a
  <2>2. CASE r.action = "Ack"
      BY <2>1, <2>2 DEF Policy!DefaultHandle, a
  <2>3. CASE r.action \in {"Retry", "RetryWithDelay"} /\ a + 1 > MaxRetries
      BY <2>1, <2>3 DEF Policy!DefaultHandle, a
  <2>4. CASE r.action \in {"Retry", "RetryWithDelay"} /\ ~(a + 1 > MaxRetries)
    <3>1. PICK d \in IF r.delay <= 0 THEN Policy!Backoff(RetryDelay, a + 1) ELSE {r.delay} :
              o = [action |-> IF d > 0 THEN "RetryWithDelay" ELSE r.action,
                   attempts |-> a + 1, delay |-> d]
        BY <2>1, <2>4 DEF Policy!DefaultHandle
    <3>2. o.action \in {"Retry", "RetryWithDelay"} /\ o.attempts = a + 1
        BY <2>4, <3>1
    <3> QED BY <1>1, <2>1, <2>4, <3>2 DEF a
  <2>5. CASE r.action \in {"DLQ", "other"}
      BY <2>1, <2>5 DEF Policy!DefaultHandle, a
  <2> QED BY <1>1, <2>2, <2>3, <2>4, <2>5 DEF Policy!Actions
<1>3. CASE Custom
  <2>1. /\ o \in Policy!CoordinatorHandle(MaxRetries, RetryDelay, a, r)
        /\ Limit = Policy!DefaultRetries(MaxRetries) /\ Limit \in Nat
      BY <1>3 DEF ResolveOutcome, Limit, Policy!DefaultRetries, a
  <2>2. CASE r.action = "Ack"
      BY <2>1, <2>2 DEF Policy!CoordinatorHandle, a
  <2>3. CASE r.action \in {"Retry", "RetryWithDelay"} /\ a + 1 > Limit
      BY <2>1, <2>3 DEF Policy!CoordinatorHandle, a
  <2>4. CASE r.action \in {"Retry", "RetryWithDelay"} /\ ~(a + 1 > Limit)
    <3>1. o.action = r.action /\ o.attempts = a + 1
        BY <2>1, <2>4 DEF Policy!CoordinatorHandle
    <3> QED BY <1>1, <2>1, <2>4, <3>1 DEF a
  <2>5. CASE r.action \in {"DLQ", "other"}
      BY <2>1, <2>5 DEF Policy!CoordinatorHandle, a
  <2> QED BY <1>1, <2>2, <2>3, <2>4, <2>5 DEF Policy!Actions
<1> QED BY <1>2, <1>3

(* The limit is a number, whichever coordinator the handlers have.          *)
LEMMA Numbers == Limit \in Nat
BY PipelineAssumption DEF Limit, Policy!DefaultRetries

(* What a Message is made of.                                               *)
LEMMA Parts == \A msg \in Message : msg.id \in Msgs /\ msg.attempts \in 0..Limit
BY DEF Message

(* A message just published is a Message.                                   *)
LEMMA FreshType == \A m \in Msgs : Fresh(m) \in Message
BY Numbers DEF Fresh, Message

-----------------------------------------------------------------------------
(* Sequences: what comes off the front and what is left, what is added.     *)
LEMMA HeadTail ==
    ASSUME NEW S, NEW s \in Seq(S), s # <<>>
    PROVE  Head(s) \in S /\ Tail(s) \in Seq(S) /\ Len(Tail(s)) = Len(s) - 1 /\ Len(s) > 0
OBVIOUS

(* A sequence without elements is the empty one.                            *)
LEMMA NoneLeft ==
    ASSUME NEW S, NEW s \in Seq(S), Len(s) = 0
    PROVE  s = <<>>
OBVIOUS

(* A message more at the end of a queue.                                    *)
LEMMA AppendType ==
    ASSUME NEW S, NEW s \in Seq(S), NEW x \in S
    PROVE  Append(s, x) \in Seq(S) /\ Len(Append(s, x)) = Len(s) + 1
OBVIOUS

(* A sequence of one message.                                               *)
LEMMA Single ==
    ASSUME NEW S, NEW s \in Seq(S), Len(s) = 1
    PROVE  s[1] \in S /\ DOMAIN s = {1}
OBVIOUS

(* Enqueue keeps to the ring's capacity.                                    *)
LEMMA EnqueueType ==
    ASSUME TypeOK, NEW msg \in Message, Enqueue(msg)
    PROVE  ring' \in Seq(Message) /\ Len(ring') <= RingSize
<1>1. CASE ringClosed
    BY <1>1 DEF Enqueue, TypeOK
<1>2. CASE ~ringClosed
    BY <1>2, AppendType, PipelineAssumption DEF Enqueue, TypeOK
<1> QED BY <1>1, <1>2

Points == {"top", "lock", "asleep", "woken", "handle", "done", "failed"}

(* Publish and Nack add to the transport's queue, or drop.                  *)
LEMMA DeliverType ==
    ASSUME TypeOK, NEW msg \in Message, Deliver(msg)
    PROVE  mem' \in Seq(Message) /\ poller' \in Points
<1>1. mem \in Seq(Message) /\ poller \in Points
    BY DEF TypeOK, Points
<1>2. Woken \in Points
    BY <1>1 DEF Woken, Points
<1> QED BY <1>1, <1>2, AppendType DEF Deliver

(* A worker that is busy holds one message.                                 *)
LEMMA BusyHolds ==
    ASSUME TypeOK, HandsEmpty, NEW w \in Workers, worker[w] \notin {"idle", "exited"}
    PROVE  cur[w][1] \in Message /\ cur[w][1].id \in Msgs /\ DOMAIN cur[w] = {1}
<1>1. Len(cur[w]) = 1 /\ cur[w] \in Seq(Message)
    BY DEF TypeOK, HandsEmpty
<1>2. cur[w][1] \in Message /\ DOMAIN cur[w] = {1}
    BY <1>1, Single
<1> QED BY <1>2, Parts

WorkerPoints == {"idle", "handle", "Ack", "mark", "Retry", "RetryWithDelay", "DLQ", "exited"}

(* The busy workers can be counted.                                         *)
LEMMA BusyFinite == Busy \in SUBSET Workers /\ IsFiniteSet(Busy) /\ Cardinality(Busy) \in Nat
BY PipelineAssumption, FS_Subset, FS_CardinalityType DEF Busy

(* The WaitGroup counts whoever finishes.                                   *)
LEMMA FinishType ==
    ASSUME TypeOK, OneBatchAtATime, NEW w \in Workers, worker[w] \notin {"idle", "exited"},
           Finish(w)
    PROVE  /\ pend' \in Nat /\ worker' \in [Workers -> WorkerPoints]
           /\ cur' \in [Workers -> Seq(Message)] /\ work' = work
<1>1. w \in Busy
    BY DEF Busy
<1>2. Cardinality(Busy) # 0
    BY <1>1, BusyFinite, FS_EmptySet
<1>3. pend > 0
    BY <1>2, BusyFinite DEF OneBatchAtATime, TypeOK
<1> QED BY <1>3 DEF Finish, TypeOK, WorkerPoints

(* What Handle does with the coordinator's answer.                          *)
Ends == {"Ack", "DLQ"}
Repeats == {"Retry", "RetryWithDelay"}
(* The worker goes where the outcome sends it, with the message and its new *)
(* Attempts, which grow by one when it is to be repeated and never exceed   *)
(* the limit.                                                               *)
LEMMA HandleEffect ==
    ASSUME TypeOK, HandsEmpty, NEW w \in Workers, Handle(w)
    PROVE  \E a \in Ends \cup Repeats, k \in 0..Limit :
             /\ worker' = [worker EXCEPT ![w] = a]
             /\ cur' = [cur EXCEPT ![w] = <<[cur[w][1] EXCEPT !.attempts = k]>>]
             /\ a \in Repeats => k = cur[w][1].attempts + 1
<1> DEFINE msg == cur[w][1]
<1>1. msg \in Message
    BY BusyHolds DEF Handle
<1>2. PICK r \in Verdicts : \E o \in ResolveOutcome(msg, r) :
          /\ worker' = [worker EXCEPT ![w] = o.action]
          /\ cur' = [cur EXCEPT ![w] = <<[msg EXCEPT !.attempts = o.attempts]>>]
    BY DEF Handle
<1>3. PICK o \in ResolveOutcome(msg, r) :
          /\ worker' = [worker EXCEPT ![w] = o.action]
          /\ cur' = [cur EXCEPT ![w] = <<[msg EXCEPT !.attempts = o.attempts]>>]
    BY <1>2
<1> HIDE DEF msg
<1>4. msg.attempts \in 0..Limit
    BY <1>1 DEF Message
<1>5. \/ o.action \in {"Ack", "DLQ"} /\ o.attempts = msg.attempts
      \/ /\ o.action \in {"Retry", "RetryWithDelay"}
         /\ o.attempts = msg.attempts + 1 /\ msg.attempts + 1 <= Limit
    BY <1>1, Answers
<1>6. /\ o.action \in Ends \cup Repeats /\ o.attempts \in 0..Limit
      /\ o.action \in Repeats => o.attempts = msg.attempts + 1
    BY <1>4, <1>5, Numbers DEF Ends, Repeats
<1> QED BY <1>3, <1>6 DEF msg

(* Every step keeps every queue within its capacity and every goroutine at  *)
(* one of its program points.                                               *)
LEMMA TypeStep ==
    ASSUME TypeOK, HandsEmpty, OneBatchAtATime, Next
    PROVE  TypeOK'
<1>1. ASSUME NEW m \in Msgs, Publish(m) PROVE TypeOK'
  <2>1. /\ published' \subseteq Msgs /\ mem' \in Seq(Message) /\ poller' \in Points
        /\ UNCHANGED <<cancelled, memClosed, ringVars, wheelVars, storeVars, poolVars, runVars,
                       pbatch, timerVars, dispVars, history>>
      BY <1>1, DeliverType, FreshType DEF Publish, TypeOK
  <2> QED BY <2>1 DEF TypeOK, Points
<1>2. CASE Cancel
    BY <1>2 DEF TypeOK, Cancel
<1>3. CASE PollFail
    BY <1>3 DEF TypeOK, PollFail
<1>4. CASE PollTop
    BY <1>4 DEF TypeOK, PollTop
<1>5. CASE PollLock
  <2>1. CASE mem # <<>>
      BY <1>5, <2>1 DEF TypeOK, PollLock, Leftover
  <2>2. CASE mem = <<>>
      BY <1>5, <2>2 DEF TypeOK, PollLock
  <2> QED BY <2>1, <2>2
<1>6. CASE PollWokenCancelled
    BY <1>6 DEF TypeOK, PollWokenCancelled
<1>7. CASE PollHandle
  <2>1. Head(pbatch) \in Message /\ pbatch' \in Seq(Message)
      BY <1>7, HeadTail DEF PollHandle, TypeOK
  <2>2. /\ ring' \in Seq(Message) /\ Len(ring') <= RingSize /\ wheel' \subseteq Message
        /\ poller' \in Points /\ UNCHANGED <<mem, notPoller>>
      BY <1>7, <2>1, EnqueueType DEF PollHandle, TypeOK, Wheel!Insert, Points
  <2> QED BY <2>1, <2>2, SMTT(30) DEF TypeOK, Points
<1>8. CASE Tick
    BY <1>8 DEF TypeOK, Tick, Wheel!Expire
<1>9. CASE TickSend
  <2>1. /\ out' \in Seq(SUBSET Message) /\ Len(out') <= OutSize
        /\ expired' \subseteq Message /\ ticker' = "select"
      BY <1>9, PipelineAssumption DEF TypeOK, TickSend, Wheel!Send
  <2>2. UNCHANGED <<wheel, wheelClosed, outClosed, notTicker>>
      BY <1>9 DEF TickSend, Wheel!Send
  <2> QED BY <2>1, <2>2, SMTT(30) DEF TypeOK
<1>10. CASE TickStop
    BY <1>10 DEF TypeOK, TickStop, Wheel!Stop
<1>11. CASE TimerReceive
  <2>1. Head(out) \in SUBSET Message /\ Tail(out) \in Seq(SUBSET Message)
        /\ Len(Tail(out)) <= OutSize
      BY <1>11, HeadTail, PipelineAssumption DEF TimerReceive, TypeOK
  <2> QED BY <1>11, <2>1 DEF TypeOK, TimerReceive
<1>12. CASE TimerEnqueue
  <2>1. ring' \in Seq(Message) /\ Len(ring') <= RingSize /\ tbatch' \subseteq Message
      BY <1>12, EnqueueType DEF TimerEnqueue, TypeOK
  <2> QED BY <1>12, <2>1 DEF TypeOK, TimerEnqueue
<1>13. CASE TimerStop
    BY <1>13 DEF TypeOK, TimerStop
<1>14. CASE DispTop
    BY <1>14 DEF TypeOK, DispTop, DispDone
<1>15. CASE DispDequeue
  <2> DEFINE n == Least(Len(ring), IF draining THEN DrainMax ELSE BatchMax)
  <2>1. n \in Nat /\ n <= Len(ring) /\ ring \in Seq(Message)
      BY PipelineAssumption DEF TypeOK, Least
  <2> HIDE DEF n
  <2>2. CASE n = 0
      BY <1>15, <2>2 DEF DispDequeue, TypeOK, n
  <2>3. CASE n # 0
    <3>1. /\ SubSeq(ring, 1, n) \in Seq(Message) /\ SubSeq(ring, n + 1, Len(ring)) \in Seq(Message)
          /\ Len(SubSeq(ring, n + 1, Len(ring))) <= Len(ring)
        BY <2>1, <2>3
    <3>2. {ring[i].id : i \in 1..n} \subseteq Msgs
      <4>1. \A i \in 1..n : ring[i] \in Message
          BY <2>1
      <4> QED BY <4>1, Parts
    <3>3. /\ dbatch' = SubSeq(ring, 1, n) /\ ring' = SubSeq(ring, n + 1, Len(ring))
          /\ disp' = "filter"
          /\ together' = {pair \in together : pair \cap {ring[i].id : i \in 1..n} = {}}
                             \cup Alike({ring[i].id : i \in 1..n})
          /\ UNCHANGED <<filtered, draining, work, pend, acked, unanswered, notDispatcher>>
        BY <1>15, <2>3 DEF DispDequeue, n
    <3>4. together' \subseteq kSubset(2, Msgs)
        BY <3>2, <3>3 DEF TypeOK, Alike, kSubset
    <3>5. Len(ring') <= RingSize
        BY <3>1, <3>3, PipelineAssumption, SMTT(30) DEF TypeOK
    <3>6. dbatch' \in Seq(Message) /\ ring' \in Seq(Message)
        BY <3>1, <3>3
    <3>7. disp' = "filter" /\ UNCHANGED <<filtered, draining, work, pend, acked, unanswered,
                                         notDispatcher>>
        BY <3>3
    <3> QED BY <3>4, <3>5, <3>6, <3>7, SMTT(30) DEF TypeOK
  <2> QED BY <2>2, <2>3
<1>16. CASE DispRecheck
    BY <1>16 DEF TypeOK, DispRecheck, DispDone
<1>17. CASE DispAsk
  <2>1. Head(dbatch) \in Message /\ dbatch' \in Seq(Message) /\ Head(dbatch).id \in Msgs
      BY <1>17, HeadTail, Parts DEF DispAsk, TypeOK
  <2>2. PICK err \in Errors(Head(dbatch)) :
            IF IsDuplicate(Head(dbatch), err)
              THEN duplicates' = Append(duplicates, Head(dbatch)) /\ UNCHANGED kept
              ELSE kept' = Append(kept, Head(dbatch)) /\ UNCHANGED duplicates
      BY <1>17 DEF DispAsk
  <2>3. kept' \in Seq(Message) /\ duplicates' \in Seq(Message)
    <3>1. kept \in Seq(Message) /\ duplicates \in Seq(Message)
        BY DEF TypeOK
    <3>2. /\ Append(kept, Head(dbatch)) \in Seq(Message)
          /\ Append(duplicates, Head(dbatch)) \in Seq(Message)
        BY <2>1, <3>1, AppendType
    <3> QED BY <2>2, <3>1, <3>2
  <2>4. /\ unanswered' \subseteq Msgs
        /\ UNCHANGED <<disp, draining, ring, work, pend, acked, together, notDispatcher>>
      BY <1>17, <2>1 DEF DispAsk, TypeOK
  <2> QED BY <2>1, <2>3, <2>4, SMTT(30) DEF TypeOK
<1>18. CASE DispFiltered
  <2>1. acked' \subseteq Msgs
    <3>1. \A i \in DOMAIN duplicates : duplicates[i] \in Message
        BY DEF TypeOK
    <3> QED BY <1>18, <3>1, Parts DEF DispFiltered, TypeOK
  <2> QED BY <1>18, <2>1 DEF TypeOK, DispFiltered
<1>19. CASE DispSubmit
  <2>1. /\ work' \in Seq(Message) /\ dbatch' \in Seq(Message)
        /\ Len(work') <= Cardinality(Workers)
      BY <1>19, HeadTail, AppendType, FS_CardinalityType, PipelineAssumption DEF DispSubmit, TypeOK
  <2>2. pend' \in Nat /\ disp' = disp
      BY <1>19 DEF TypeOK, DispSubmit
  <2> QED BY <1>19, <2>1, <2>2, SMTT(30) DEF TypeOK, DispSubmit
<1>20. CASE DispWait
    BY <1>20 DEF TypeOK, DispWait
<1>21. ASSUME NEW w \in Workers, WorkerTake(w) PROVE TypeOK'
  <2>1. Head(work) \in Message /\ work' \in Seq(Message) /\ Len(work') <= Cardinality(Workers)
      BY <1>21, HeadTail, FS_CardinalityType, PipelineAssumption DEF WorkerTake, TypeOK
  <2>2. cur' \in [Workers -> Seq(Message)]
      BY <1>21, <2>1 DEF WorkerTake, TypeOK
  <2>3. worker' \in [Workers -> WorkerPoints]
      BY <1>21 DEF WorkerTake, TypeOK, WorkerPoints
  <2> QED BY <1>21, <2>1, <2>2, <2>3, SMTT(30) DEF TypeOK, WorkerTake, WorkerPoints
<1>22. ASSUME NEW w \in Workers, WorkerExit(w) PROVE TypeOK'
    BY <1>22 DEF TypeOK, WorkerExit
<1>23. ASSUME NEW w \in Workers, Handle(w) PROVE TypeOK'
  <2>1. cur[w][1] \in Message /\ cur[w][1].id \in Msgs
      BY <1>23, BusyHolds DEF Handle
  <2>2. PICK a \in Ends \cup Repeats, k \in 0..Limit :
            /\ worker' = [worker EXCEPT ![w] = a]
            /\ cur' = [cur EXCEPT ![w] = <<[cur[w][1] EXCEPT !.attempts = k]>>]
      BY <1>23, HandleEffect
  <2>3. [cur[w][1] EXCEPT !.attempts = k] \in Message
      BY <2>1 DEF Message
  <2>4. cur' \in [Workers -> Seq(Message)] /\ worker' \in [Workers -> WorkerPoints]
      BY <2>2, <2>3 DEF TypeOK, WorkerPoints, Ends, Repeats
  <2>5. runs' \in [Msgs -> Nat]
    <3>1. runs' = [runs EXCEPT ![cur[w][1].id] = @ + 1] /\ runs \in [Msgs -> Nat]
        BY <1>23 DEF Handle, TypeOK
    <3> QED BY <2>1, <3>1
  <2>6. UNCHANGED <<work, pend, ring, mem, poller, marked, acked, dead, succeeded, unmarked,
                    notWorker>>
      BY <1>23 DEF Handle
  <2> QED BY <2>4, <2>5, <2>6, SMTT(30) DEF TypeOK, WorkerPoints
<1>24. ASSUME NEW w \in Workers, WorkerAck(w) PROVE TypeOK'
  <2>1. cur[w][1].id \in Msgs
      BY <1>24, BusyHolds DEF WorkerAck
  <2>2. acked' \subseteq Msgs /\ succeeded' \subseteq Msgs /\ worker' \in [Workers -> WorkerPoints]
      BY <1>24, <2>1 DEF TypeOK, WorkerAck, WorkerPoints
  <2>3. UNCHANGED <<cur, work, pend, ring, mem, poller, marked, dead, runs, unmarked, notWorker>>
      BY <1>24 DEF WorkerAck
  <2> QED BY <2>2, <2>3, SMTT(30) DEF TypeOK, WorkerPoints
<1>25. ASSUME NEW w \in Workers, WorkerMark(w) PROVE TypeOK'
  <2>1. cur[w][1].id \in Msgs
      BY <1>25, BusyHolds DEF WorkerMark
  <2>2. marked' \subseteq Keys /\ unmarked' \subseteq Keys
      BY <1>25, <2>1 DEF WorkerMark, MarkKey, TypeOK, Keys
  <2>3. /\ pend' \in Nat /\ worker' \in [Workers -> WorkerPoints]
        /\ cur' \in [Workers -> Seq(Message)] /\ work' = work
      BY <1>25, FinishType DEF WorkerMark
  <2>4. UNCHANGED <<ring, mem, poller, acked, dead, runs, succeeded, notWorker>>
      BY <1>25 DEF WorkerMark
  <2> QED BY <2>2, <2>3, <2>4, SMTT(30) DEF TypeOK, WorkerPoints
<1>26. ASSUME NEW w \in Workers, WorkerRetry(w) PROVE TypeOK'
  <2>1. ring' \in Seq(Message) /\ Len(ring') <= RingSize
      BY <1>26, BusyHolds, EnqueueType DEF WorkerRetry
  <2>2. /\ pend' \in Nat /\ worker' \in [Workers -> WorkerPoints]
        /\ cur' \in [Workers -> Seq(Message)] /\ work' = work
      BY <1>26, FinishType DEF WorkerRetry
  <2>3. UNCHANGED <<mem, poller, marked, acked, dead, runs, succeeded, unmarked, notWorker>>
      BY <1>26 DEF WorkerRetry
  <2> QED BY <2>1, <2>2, <2>3, SMTT(30) DEF TypeOK, WorkerPoints
<1>27. ASSUME NEW w \in Workers, WorkerNack(w) PROVE TypeOK'
  <2>1. mem' \in Seq(Message) /\ poller' \in Points
      BY <1>27, BusyHolds, DeliverType DEF WorkerNack, Nack
  <2>2. /\ pend' \in Nat /\ worker' \in [Workers -> WorkerPoints]
        /\ cur' \in [Workers -> Seq(Message)] /\ work' = work
      BY <1>27, FinishType DEF WorkerNack
  <2>3. UNCHANGED <<ring, marked, acked, dead, runs, succeeded, unmarked, notWorker>>
      BY <1>27 DEF WorkerNack
  <2> QED BY <2>1, <2>2, <2>3, SMTT(30) DEF TypeOK, WorkerPoints, Points
<1>28. ASSUME NEW w \in Workers, WorkerDLQ(w) PROVE TypeOK'
  <2>1. dead' \subseteq Msgs /\ acked' \subseteq Msgs
      BY <1>28, BusyHolds DEF WorkerDLQ, DeadLetter, TypeOK
  <2>2. /\ pend' \in Nat /\ worker' \in [Workers -> WorkerPoints]
        /\ cur' \in [Workers -> Seq(Message)] /\ work' = work
      BY <1>28, FinishType DEF WorkerDLQ
  <2>3. UNCHANGED <<ring, mem, poller, marked, runs, succeeded, unmarked, notWorker>>
      BY <1>28 DEF WorkerDLQ
  <2> QED BY <2>1, <2>2, <2>3, SMTT(30) DEF TypeOK, WorkerPoints
<1>29. CASE RunSelect
    BY <1>29 DEF TypeOK, RunSelect, RunMoves
<1>30. CASE RunDispWait
    BY <1>30 DEF TypeOK, RunDispWait, RunMoves
<1>31. CASE RunTimerWait
    BY <1>31 DEF TypeOK, RunTimerWait, RunMoves, CloseTransport, Woken
<1>32. CASE RunPollerWait
    BY <1>32 DEF TypeOK, RunPollerWait, RunMoves, StopDispatching
<1>33. CASE RunPoolWait
    BY <1>33 DEF TypeOK, RunPoolWait, RunMoves
<1>34. CASE RunDrain
    BY <1>34 DEF TypeOK, RunDrain, RunMoves, Wheel!Drain
<1>35. CASE RunRequeue
  <2>1. PICK msg \in rest : Enqueue(msg) /\ rest' = rest \ {msg}
      BY <1>35 DEF RunRequeue
  <2>2. ring' \in Seq(Message) /\ Len(ring') <= RingSize
      BY <2>1, EnqueueType DEF TypeOK
  <2>3. rest' \subseteq Message
      BY <2>1 DEF TypeOK
  <2> QED BY <1>35, <2>2, <2>3 DEF TypeOK, RunRequeue
<1>36. CASE RunReturn
    BY <1>36 DEF TypeOK, RunReturn, RunMoves
<1>37. CASE Expiry
    BY <1>37 DEF TypeOK, Expiry, MarkExpires
<1> QED
    BY <1>1, <1>2, <1>3, <1>4, <1>5, <1>6, <1>7, <1>8, <1>9, <1>10, <1>11, <1>12, <1>13, <1>14,
       <1>15, <1>16, <1>17, <1>18, <1>19, <1>20, <1>21, <1>22, <1>23, <1>24, <1>25, <1>26,
       <1>27, <1>28, <1>29, <1>30, <1>31, <1>32, <1>33, <1>34, <1>35, <1>36, <1>37
    DEF Next, Poller, Ticker, Timer, Dispatcher, Worker, Run

(* Nobody leaves a point of his program with something in his hands.       *)
LEMMA HandsStep ==
    ASSUME TypeOK, HandsEmpty, Next
    PROVE  HandsEmpty'
<1>1. ASSUME NEW m \in Msgs, Publish(m) PROVE HandsEmpty'
    BY <1>1 DEF HandsEmpty, TypeOK, Publish, Deliver, Woken
<1>2. CASE Cancel
    BY <1>2 DEF HandsEmpty, TypeOK, Cancel
<1>3. CASE PollFail
    BY <1>3 DEF HandsEmpty, TypeOK, PollFail
<1>4. CASE PollTop
    BY <1>4 DEF HandsEmpty, TypeOK, PollTop
<1>5. CASE PollLock
    BY <1>5 DEF HandsEmpty, TypeOK, PollLock, Leftover
<1>6. CASE PollWokenCancelled
    BY <1>6 DEF HandsEmpty, TypeOK, PollWokenCancelled
<1>7. CASE PollHandle
  <2>1. Len(Tail(pbatch)) = Len(pbatch) - 1 /\ Tail(pbatch) \in Seq(Message)
      BY <1>7, HeadTail DEF PollHandle, TypeOK
  <2>2. ASSUME Len(pbatch) = 1 PROVE Tail(pbatch) = <<>>
    <3>1. Len(Tail(pbatch)) = 0 /\ Tail(pbatch) \in Seq(Message)
        BY <2>1, <2>2
    <3> QED BY <3>1, NoneLeft, Zenon
  <2> QED BY <1>7, <2>2 DEF HandsEmpty, PollHandle, Wheel!Insert
<1>8. CASE Tick
    BY <1>8 DEF HandsEmpty, TypeOK, Tick, Wheel!Expire
<1>9. CASE TickSend
    BY <1>9 DEF HandsEmpty, TypeOK, TickSend, Wheel!Send
<1>10. CASE TickStop
    BY <1>10 DEF HandsEmpty, TypeOK, TickStop, Wheel!Stop
<1>11. CASE TimerReceive
    BY <1>11 DEF HandsEmpty, TypeOK, TimerReceive
<1>12. CASE TimerEnqueue
    BY <1>12 DEF HandsEmpty, TypeOK, TimerEnqueue, Enqueue
<1>13. CASE TimerStop
    BY <1>13 DEF HandsEmpty, TypeOK, TimerStop
<1>14. CASE DispTop
    BY <1>14 DEF HandsEmpty, TypeOK, DispTop, DispDone
<1>15. CASE DispDequeue
    BY <1>15 DEF HandsEmpty, TypeOK, DispDequeue, Least
<1>16. CASE DispRecheck
    BY <1>16 DEF HandsEmpty, TypeOK, DispRecheck, DispDone
<1>17. CASE DispAsk
    BY <1>17 DEF HandsEmpty, TypeOK, DispAsk, Errors
<1>18. CASE DispFiltered
    BY <1>18 DEF HandsEmpty, TypeOK, DispFiltered
<1>19. CASE DispSubmit
    BY <1>19 DEF HandsEmpty, TypeOK, DispSubmit
<1>20. CASE DispWait
    BY <1>20 DEF HandsEmpty, TypeOK, DispWait, BatchFinished
<1>21. ASSUME NEW w \in Workers, WorkerTake(w) PROVE HandsEmpty'
    BY <1>21 DEF HandsEmpty, TypeOK, WorkerTake
<1>22. ASSUME NEW w \in Workers, WorkerExit(w) PROVE HandsEmpty'
    BY <1>22 DEF HandsEmpty, TypeOK, WorkerExit
<1>23. ASSUME NEW w \in Workers, Handle(w) PROVE HandsEmpty'
  <2>1. PICK a \in Ends \cup Repeats, k \in 0..Limit :
            /\ worker' = [worker EXCEPT ![w] = a]
            /\ cur' = [cur EXCEPT ![w] = <<[cur[w][1] EXCEPT !.attempts = k]>>]
      BY <1>23, HandleEffect
  <2>2. \A v \in Workers :
            /\ worker'[v] \in {"idle", "exited"} => cur'[v] = <<>>
            /\ worker'[v] \notin {"idle", "exited"} => Len(cur'[v]) = 1
      BY <2>1 DEF HandsEmpty, TypeOK, Ends, Repeats
  <2> QED BY <1>23, <2>2 DEF HandsEmpty, Handle
<1>24. ASSUME NEW w \in Workers, WorkerAck(w) PROVE HandsEmpty'
    BY <1>24 DEF HandsEmpty, TypeOK, WorkerAck
<1>25. ASSUME NEW w \in Workers, WorkerMark(w) PROVE HandsEmpty'
    BY <1>25 DEF HandsEmpty, TypeOK, WorkerMark, MarkKey, Finish
<1>26. ASSUME NEW w \in Workers, WorkerRetry(w) PROVE HandsEmpty'
    BY <1>26 DEF HandsEmpty, TypeOK, WorkerRetry, Enqueue, Finish
<1>27. ASSUME NEW w \in Workers, WorkerNack(w) PROVE HandsEmpty'
    BY <1>27 DEF HandsEmpty, TypeOK, WorkerNack, Nack, Deliver, Woken, Finish
<1>28. ASSUME NEW w \in Workers, WorkerDLQ(w) PROVE HandsEmpty'
    BY <1>28 DEF HandsEmpty, TypeOK, WorkerDLQ, DeadLetter, Finish
<1>29. CASE RunSelect
    BY <1>29 DEF HandsEmpty, TypeOK, RunSelect, RunMoves
<1>30. CASE RunDispWait
    BY <1>30 DEF HandsEmpty, TypeOK, RunDispWait, RunMoves, DispatcherLeft
<1>31. CASE RunTimerWait
    BY <1>31 DEF HandsEmpty, TypeOK, RunTimerWait, RunMoves, CloseTransport, Woken
<1>32. CASE RunPollerWait
    BY <1>32 DEF HandsEmpty, TypeOK, RunPollerWait, RunMoves, StopDispatching
<1>33. CASE RunPoolWait
    BY <1>33 DEF HandsEmpty, TypeOK, RunPoolWait, RunMoves
<1>34. CASE RunDrain
    BY <1>34 DEF HandsEmpty, TypeOK, RunDrain, RunMoves, Wheel!Drain
<1>35. CASE RunRequeue
    BY <1>35 DEF HandsEmpty, TypeOK, RunRequeue, Enqueue
<1>36. CASE RunReturn
    BY <1>36 DEF HandsEmpty, TypeOK, RunReturn, RunMoves
<1>37. CASE Expiry
    BY <1>37 DEF HandsEmpty, TypeOK, Expiry, MarkExpires
<1> QED
    BY <1>1, <1>2, <1>3, <1>4, <1>5, <1>6, <1>7, <1>8, <1>9, <1>10, <1>11, <1>12, <1>13, <1>14,
       <1>15, <1>16, <1>17, <1>18, <1>19, <1>20, <1>21, <1>22, <1>23, <1>24, <1>25, <1>26,
       <1>27, <1>28, <1>29, <1>30, <1>31, <1>32, <1>33, <1>34, <1>35, <1>36, <1>37
    DEF Next, Poller, Ticker, Timer, Dispatcher, Worker, Run

(* Nobody comes back once Run has stopped waiting for him.                  *)
LEMMA ShutdownStep ==
    ASSUME TypeOK, Shutdown, Next
    PROVE  Shutdown'
<1>1. ASSUME NEW m \in Msgs, Publish(m) PROVE Shutdown'
    BY <1>1 DEF Shutdown, TypeOK, Stopping, PollOver, Publish, Deliver, Woken
<1>2. CASE Cancel
    BY <1>2 DEF Shutdown, TypeOK, Stopping, PollOver, Cancel
<1>3. CASE PollFail
    BY <1>3 DEF Shutdown, TypeOK, Stopping, PollOver, PollFail
<1>4. CASE PollTop
    BY <1>4 DEF Shutdown, TypeOK, Stopping, PollOver, PollTop
<1>5. CASE PollLock
    BY <1>5 DEF Shutdown, TypeOK, Stopping, PollOver, PollLock, Leftover
<1>6. CASE PollWokenCancelled
    BY <1>6 DEF Shutdown, TypeOK, Stopping, PollOver, PollWokenCancelled
<1>7. CASE PollHandle
    BY <1>7 DEF Shutdown, TypeOK, Stopping, PollOver, PollHandle, Enqueue, Wheel!Insert
<1>8. CASE Tick
    BY <1>8 DEF Shutdown, TypeOK, Stopping, PollOver, Tick, Wheel!Expire
<1>9. CASE TickSend
    BY <1>9 DEF Shutdown, TypeOK, Stopping, PollOver, TickSend, Wheel!Send
<1>10. CASE TickStop
    BY <1>10 DEF Shutdown, TypeOK, Stopping, PollOver, TickStop, Wheel!Stop
<1>11. CASE TimerReceive
    BY <1>11 DEF Shutdown, TypeOK, Stopping, PollOver, TimerReceive
<1>12. CASE TimerEnqueue
    BY <1>12 DEF Shutdown, TypeOK, Stopping, PollOver, TimerEnqueue, Enqueue
<1>13. CASE TimerStop
    BY <1>13 DEF Shutdown, TypeOK, Stopping, PollOver, TimerStop
<1>14. CASE DispTop
    BY <1>14 DEF Shutdown, TypeOK, Stopping, PollOver, DispTop, DispDone
<1>15. CASE DispDequeue
    BY <1>15 DEF Shutdown, TypeOK, Stopping, PollOver, DispDequeue, Least
<1>16. CASE DispRecheck
    BY <1>16 DEF Shutdown, TypeOK, Stopping, PollOver, DispRecheck, DispDone
<1>17. CASE DispAsk
    BY <1>17 DEF Shutdown, TypeOK, Stopping, PollOver, DispAsk, Errors
<1>18. CASE DispFiltered
    BY <1>18 DEF Shutdown, TypeOK, Stopping, PollOver, DispFiltered
<1>19. CASE DispSubmit
    BY <1>19 DEF Shutdown, TypeOK, Stopping, PollOver, DispSubmit
<1>20. CASE DispWait
    BY <1>20 DEF Shutdown, TypeOK, Stopping, PollOver, DispWait, BatchFinished
<1>21. ASSUME NEW w \in Workers, WorkerTake(w) PROVE Shutdown'
    BY <1>21 DEF Shutdown, TypeOK, Stopping, PollOver, WorkerTake
<1>22. ASSUME NEW w \in Workers, WorkerExit(w) PROVE Shutdown'
    BY <1>22 DEF Shutdown, TypeOK, Stopping, PollOver, WorkerExit
<1>23. ASSUME NEW w \in Workers, Handle(w) PROVE Shutdown'
    BY <1>23 DEF Shutdown, TypeOK, Stopping, PollOver, Handle
<1>24. ASSUME NEW w \in Workers, WorkerAck(w) PROVE Shutdown'
    BY <1>24 DEF Shutdown, TypeOK, Stopping, PollOver, WorkerAck
<1>25. ASSUME NEW w \in Workers, WorkerMark(w) PROVE Shutdown'
    BY <1>25 DEF Shutdown, TypeOK, Stopping, PollOver, WorkerMark, MarkKey, Finish
<1>26. ASSUME NEW w \in Workers, WorkerRetry(w) PROVE Shutdown'
    BY <1>26 DEF Shutdown, TypeOK, Stopping, PollOver, WorkerRetry, Enqueue, Finish
<1>27. ASSUME NEW w \in Workers, WorkerNack(w) PROVE Shutdown'
    BY <1>27 DEF Shutdown, TypeOK, Stopping, PollOver, WorkerNack, Nack, Deliver, Woken, Finish
<1>28. ASSUME NEW w \in Workers, WorkerDLQ(w) PROVE Shutdown'
    BY <1>28 DEF Shutdown, TypeOK, Stopping, PollOver, WorkerDLQ, DeadLetter, Finish
<1>29. CASE RunSelect
    BY <1>29 DEF Shutdown, TypeOK, Stopping, PollOver, RunSelect, RunMoves
<1>30. CASE RunDispWait
    BY <1>30 DEF Shutdown, TypeOK, Stopping, PollOver, RunDispWait, RunMoves, DispatcherLeft
<1>31. CASE RunTimerWait
    BY <1>31 DEF Shutdown, TypeOK, Stopping, PollOver, RunTimerWait, RunMoves, CloseTransport, Woken
<1>32. CASE RunPollerWait
    BY <1>32 DEF Shutdown, TypeOK, Stopping, PollOver, RunPollerWait, RunMoves, StopDispatching
<1>33. CASE RunPoolWait
    BY <1>33 DEF Shutdown, TypeOK, Stopping, PollOver, RunPoolWait, RunMoves
<1>34. CASE RunDrain
    BY <1>34 DEF Shutdown, TypeOK, Stopping, PollOver, RunDrain, RunMoves, Wheel!Drain
<1>35. CASE RunRequeue
    BY <1>35 DEF Shutdown, TypeOK, Stopping, PollOver, RunRequeue, Enqueue
<1>36. CASE RunReturn
    BY <1>36 DEF Shutdown, TypeOK, Stopping, PollOver, RunReturn, RunMoves
<1>37. CASE Expiry
    BY <1>37 DEF Shutdown, TypeOK, Stopping, PollOver, Expiry, MarkExpires
<1> QED
    BY <1>1, <1>2, <1>3, <1>4, <1>5, <1>6, <1>7, <1>8, <1>9, <1>10, <1>11, <1>12, <1>13, <1>14,
       <1>15, <1>16, <1>17, <1>18, <1>19, <1>20, <1>21, <1>22, <1>23, <1>24, <1>25, <1>26,
       <1>27, <1>28, <1>29, <1>30, <1>31, <1>32, <1>33, <1>34, <1>35, <1>36, <1>37
    DEF Next, Poller, Ticker, Timer, Dispatcher, Worker, Run

-----------------------------------------------------------------------------
(* The busy workers, when one takes a message and when he has finished it.  *)
LEMMA BusyMore ==
    ASSUME TypeOK, NEW w \in Workers, worker[w] = "idle",
           NEW a, a \notin {"idle", "exited"}, worker' = [worker EXCEPT ![w] = a]
    PROVE  Cardinality(Busy') = Cardinality(Busy) + 1
<1>1. w \notin Busy /\ Busy' = Busy \cup {w}
    BY DEF Busy, TypeOK
<1> QED BY <1>1, BusyFinite, FS_AddElement

(* A worker stays busy, or stays idle: their number does not change.        *)
LEMMA BusySame ==
    ASSUME TypeOK, NEW w \in Workers, NEW a, worker' = [worker EXCEPT ![w] = a],
           worker[w] \in {"idle", "exited"} <=> a \in {"idle", "exited"}
    PROVE  Busy' = Busy
BY DEF Busy, TypeOK

(* A worker finishes: one busy worker less.                                 *)
LEMMA BusyLess ==
    ASSUME TypeOK, NEW w \in Workers, worker[w] \notin {"idle", "exited"}, Finish(w)
    PROVE  Cardinality(Busy') = Cardinality(Busy) - 1
<1>1. w \in Busy /\ Busy' = Busy \ {w}
    BY DEF Busy, TypeOK, Finish
<1> QED BY <1>1, BusyFinite, FS_RemoveElement

(* The WaitGroup counts what is with the pool, as long as the dispatcher    *)
(* waits for it before the next batch.                                      *)
LEMMA BatchStep ==
    ASSUME TypeOK, HandsEmpty, OneBatchAtATime, Next
    PROVE  OneBatchAtATime'
<1>1. pend \in Nat /\ Len(work) \in Nat /\ Cardinality(Busy) \in Nat
    BY BusyFinite DEF TypeOK
<1>2. ASSUME UNCHANGED <<pend, work, worker, disp>> PROVE OneBatchAtATime'
    BY <1>2 DEF OneBatchAtATime, Busy
<1>3. CASE (\E m \in Msgs : Publish(m)) \/ Cancel \/ PollFail \/ Expiry \/ Poller
           \/ Ticker \/ Timer \/ Run
  <2>1. UNCHANGED <<pend, work, worker, disp>>
      BY <1>3 DEF Publish, Cancel, PollFail, Expiry, MarkExpires, Poller, PollTop, PollLock,
                  PollWokenCancelled, PollHandle, Ticker, Tick, TickSend, TickStop, Timer,
                  TimerReceive, TimerEnqueue,
                  TimerStop, Run, RunSelect, RunDispWait, RunTimerWait, RunPollerWait,
                  RunPoolWait, RunDrain, RunRequeue, RunReturn
  <2> QED BY <1>2, <2>1
<1>4. CASE DispTop \/ DispDequeue \/ DispRecheck \/ DispAsk \/ DispFiltered \/ DispWait
  <2>1. UNCHANGED <<pend, work, worker>> /\ (disp = "submit" => pend = 0)
      BY <1>4 DEF DispTop, DispDequeue, DispRecheck, DispAsk, DispFiltered, DispWait, BatchFinished
  <2> QED BY <2>1 DEF OneBatchAtATime, Busy
<1>5. CASE DispSubmit
  <2>1. /\ pend' = pend + 1 /\ UNCHANGED <<worker, disp>> /\ disp = "submit"
        /\ Len(work') = Len(work) + 1
      BY <1>5, HeadTail, AppendType DEF DispSubmit, TypeOK
  <2>2. Busy' = Busy
      BY <2>1 DEF Busy
  <2> QED BY <1>1, <2>1, <2>2 DEF OneBatchAtATime
<1>6. ASSUME NEW w \in Workers, WorkerTake(w) PROVE OneBatchAtATime'
  <2>1. /\ UNCHANGED <<pend, disp>> /\ Len(work') = Len(work) - 1
        /\ Cardinality(Busy') = Cardinality(Busy) + 1
      BY <1>6, HeadTail, BusyMore DEF WorkerTake, TypeOK
  <2> QED BY <1>1, <2>1 DEF OneBatchAtATime
<1>7. ASSUME NEW w \in Workers, WorkerExit(w) \/ Handle(w) \/ WorkerAck(w)
      PROVE  OneBatchAtATime'
  <2>1. UNCHANGED <<pend, disp, work>>
      BY <1>7 DEF WorkerExit, Handle, WorkerAck
  <2>2. CASE WorkerExit(w) \/ WorkerAck(w)
    <3>1. Busy' = Busy
        BY <2>2, BusySame DEF WorkerExit, WorkerAck
    <3> QED BY <2>1, <3>1 DEF OneBatchAtATime
  <2>3. CASE Handle(w)
    <3>1. PICK a \in Ends \cup Repeats, k \in 0..Limit : worker' = [worker EXCEPT ![w] = a]
        BY <2>3, HandleEffect
    <3>2. Busy' = Busy
        BY <2>3, <3>1, BusySame DEF Handle, Ends, Repeats
    <3> QED BY <2>1, <3>2 DEF OneBatchAtATime
  <2> QED BY <1>7, <2>2, <2>3
<1>8. ASSUME NEW w \in Workers,
             WorkerMark(w) \/ WorkerRetry(w) \/ WorkerNack(w) \/ WorkerDLQ(w)
      PROVE  OneBatchAtATime'
  <2>1. /\ Finish(w) /\ worker[w] \notin {"idle", "exited"} /\ disp' = disp
      BY <1>8 DEF WorkerMark, WorkerRetry, WorkerNack, WorkerDLQ
  <2>2. /\ pend' = pend - 1 /\ work' = work
        /\ Cardinality(Busy') = Cardinality(Busy) - 1
      BY <2>1, BusyLess DEF Finish
  <2>3. w \in Busy /\ Cardinality(Busy) # 0
      BY <2>1, BusyFinite, FS_EmptySet DEF Busy
  <2> QED BY <1>1, <2>1, <2>2, <2>3 DEF OneBatchAtATime
<1> QED BY <1>3, <1>4, <1>5, <1>6, <1>7, <1>8 DEF Next, Dispatcher, Worker

-----------------------------------------------------------------------------
(* An empty queue holds nothing.                                            *)
LEMMA HeldNone == \A m : ~HeldSeq(<<>>, m) /\ OnceSeq(<<>>, m)
BY DEF HeldSeq, OnceSeq

(* A message added at the end of a sequence.                                *)
LEMMA HeldAppend ==
    ASSUME NEW s \in Seq(Message), NEW x \in Message, NEW m
    PROVE  /\ HeldSeq(Append(s, x), m) <=> HeldSeq(s, m) \/ x.id = m
           /\ OnceSeq(s, m) /\ (x.id = m => ~HeldSeq(s, m)) => OnceSeq(Append(s, x), m)
<1> DEFINE t == Append(s, x)
<1>1. /\ DOMAIN s = 1..Len(s) /\ Len(s) \in Nat /\ DOMAIN t = 1..(Len(s) + 1)
      /\ \A i \in 1..Len(s) : t[i] = s[i]
      /\ t[Len(s) + 1] = x
    OBVIOUS
<1> HIDE DEF t
<1>2. HeldSeq(t, m) <=> HeldSeq(s, m) \/ x.id = m
    BY <1>1 DEF HeldSeq
<1>3. OnceSeq(s, m) /\ (x.id = m => ~HeldSeq(s, m)) => OnceSeq(t, m)
    BY <1>1 DEF HeldSeq, OnceSeq
<1> QED BY <1>2, <1>3 DEF t

(* A message taken from the front of a sequence.                            *)
LEMMA HeldTail ==
    ASSUME NEW s \in Seq(Message), s # <<>>, NEW m
    PROVE  /\ HeldSeq(s, m) <=> HeldSeq(Tail(s), m) \/ Head(s).id = m
           /\ OnceSeq(s, m) => /\ OnceSeq(Tail(s), m)
                               /\ Head(s).id = m => ~HeldSeq(Tail(s), m)
<1> DEFINE t == Tail(s)
<1>1. /\ DOMAIN s = 1..Len(s) /\ Len(s) \in Nat \ {0} /\ DOMAIN t = 1..(Len(s) - 1)
      /\ \A i \in 1..(Len(s) - 1) : t[i] = s[i + 1]
      /\ Head(s) = s[1]
    OBVIOUS
<1> HIDE DEF t
<1>2. \A i \in DOMAIN s : i = 1 \/ (i - 1 \in DOMAIN t /\ t[i - 1] = s[i])
    BY <1>1
<1>3. \A i \in DOMAIN t : i + 1 \in DOMAIN s /\ s[i + 1] = t[i] /\ i + 1 # 1
    BY <1>1
<1>4. HeldSeq(s, m) <=> HeldSeq(t, m) \/ Head(s).id = m
  <2>1. ASSUME HeldSeq(s, m) PROVE HeldSeq(t, m) \/ Head(s).id = m
    <3>1. PICK i \in DOMAIN s : s[i].id = m
        BY <2>1 DEF HeldSeq
    <3> QED BY <1>1, <1>2, <3>1 DEF HeldSeq
  <2>2. ASSUME HeldSeq(t, m) PROVE HeldSeq(s, m)
    <3>1. PICK i \in DOMAIN t : t[i].id = m
        BY <2>2 DEF HeldSeq
    <3> QED BY <1>3, <3>1 DEF HeldSeq
  <2>3. ASSUME Head(s).id = m PROVE HeldSeq(s, m)
      BY <1>1, <2>3 DEF HeldSeq
  <2> QED BY <2>1, <2>2, <2>3
<1>5. ASSUME OnceSeq(s, m) PROVE OnceSeq(t, m)
    BY <1>1, <1>3, <1>5 DEF OnceSeq
<1>6. ASSUME OnceSeq(s, m), Head(s).id = m PROVE ~HeldSeq(t, m)
    BY <1>1, <1>3, <1>6 DEF OnceSeq, HeldSeq
<1> QED BY <1>4, <1>5, <1>6 DEF t

(* A batch cut off from a sequence: each message is in one of the parts.    *)
LEMMA HeldSplit ==
    ASSUME NEW s \in Seq(Message), NEW n \in 1..Len(s), NEW m
    PROVE  LET f == SubSeq(s, 1, n)
               b == SubSeq(s, n + 1, Len(s))
           IN  /\ HeldSeq(s, m) <=> HeldSeq(f, m) \/ HeldSeq(b, m)
               /\ OnceSeq(s, m) => /\ OnceSeq(f, m) /\ OnceSeq(b, m)
                                   /\ ~(HeldSeq(f, m) /\ HeldSeq(b, m))
               /\ HeldSeq(f, m) <=> m \in {s[i].id : i \in 1..n}
<1> DEFINE f == SubSeq(s, 1, n)
           b == SubSeq(s, n + 1, Len(s))
<1>1. /\ DOMAIN s = 1..Len(s) /\ Len(s) \in Nat /\ DOMAIN f = 1..n
      /\ DOMAIN b = 1..(Len(s) - n)
      /\ \A i \in 1..n : f[i] = s[i]
      /\ \A i \in 1..(Len(s) - n) : b[i] = s[i + n]
    OBVIOUS
<1> HIDE DEF f, b
<1>2. \A i \in DOMAIN s : \/ i \in DOMAIN f /\ f[i] = s[i]
                          \/ i - n \in DOMAIN b /\ b[i - n] = s[i]
    BY <1>1
<1>3. \A i \in DOMAIN f : i \in DOMAIN s /\ s[i] = f[i]
    BY <1>1
<1>4. \A i \in DOMAIN b : i + n \in DOMAIN s /\ s[i + n] = b[i] /\ i \in Nat
    BY <1>1
<1>5. HeldSeq(s, m) <=> HeldSeq(f, m) \/ HeldSeq(b, m)
  <2>1. ASSUME HeldSeq(s, m) PROVE HeldSeq(f, m) \/ HeldSeq(b, m)
    <3>1. PICK i \in DOMAIN s : s[i].id = m
        BY <2>1 DEF HeldSeq
    <3> QED BY <1>2, <3>1 DEF HeldSeq
  <2>2. ASSUME HeldSeq(f, m) PROVE HeldSeq(s, m)
      BY <1>3, <2>2 DEF HeldSeq
  <2>3. ASSUME HeldSeq(b, m) PROVE HeldSeq(s, m)
    <3>1. PICK i \in DOMAIN b : b[i].id = m
        BY <2>3 DEF HeldSeq
    <3> QED BY <1>4, <3>1 DEF HeldSeq
  <2> QED BY <2>1, <2>2, <2>3
<1>6. ASSUME OnceSeq(s, m) PROVE OnceSeq(f, m)
    BY <1>3, <1>6 DEF OnceSeq
<1>7. ASSUME OnceSeq(s, m) PROVE OnceSeq(b, m)
    BY <1>4, <1>7 DEF OnceSeq
<1>8. ASSUME OnceSeq(s, m) PROVE ~(HeldSeq(f, m) /\ HeldSeq(b, m))
  <2>1. \A i \in DOMAIN f, j \in DOMAIN b : i # j + n
      BY <1>1
  <2> QED BY <1>3, <1>4, <1>8, <2>1 DEF OnceSeq, HeldSeq
<1>9. HeldSeq(f, m) <=> m \in {s[i].id : i \in 1..n}
    BY <1>1 DEF HeldSeq
<1> QED BY <1>5, <1>6, <1>7, <1>8, <1>9 DEF f, b

(* The same for the wheel's channel.                                        *)
LEMMA HeldOutAppend ==
    ASSUME NEW s \in Seq(SUBSET Message), NEW x \in SUBSET Message, NEW m
    PROVE  /\ HeldOut(Append(s, x), m) <=> HeldOut(s, m) \/ HeldSet(x, m)
           /\ OnceOut(s, m) /\ OnceSet(x, m) /\ (HeldSet(x, m) => ~HeldOut(s, m))
                => OnceOut(Append(s, x), m)
<1> DEFINE t == Append(s, x)
<1>1. /\ DOMAIN s = 1..Len(s) /\ Len(s) \in Nat /\ DOMAIN t = 1..(Len(s) + 1)
      /\ \A i \in 1..Len(s) : t[i] = s[i]
      /\ t[Len(s) + 1] = x
    OBVIOUS
<1> HIDE DEF t
<1>2. HeldOut(t, m) <=> HeldOut(s, m) \/ HeldSet(x, m)
    BY <1>1 DEF HeldOut
<1>3. OnceOut(s, m) /\ OnceSet(x, m) /\ (HeldSet(x, m) => ~HeldOut(s, m)) => OnceOut(t, m)
    BY <1>1 DEF HeldOut, OnceOut
<1> QED BY <1>2, <1>3 DEF t

(* A batch received from the wheel's channel.                               *)
LEMMA HeldOutTail ==
    ASSUME NEW s \in Seq(SUBSET Message), s # <<>>, NEW m
    PROVE  /\ HeldOut(s, m) <=> HeldOut(Tail(s), m) \/ HeldSet(Head(s), m)
           /\ OnceOut(s, m) => /\ OnceOut(Tail(s), m) /\ OnceSet(Head(s), m)
                               /\ HeldSet(Head(s), m) => ~HeldOut(Tail(s), m)
<1> DEFINE t == Tail(s)
<1>1. /\ DOMAIN s = 1..Len(s) /\ Len(s) \in Nat \ {0} /\ DOMAIN t = 1..(Len(s) - 1)
      /\ \A i \in 1..(Len(s) - 1) : t[i] = s[i + 1]
      /\ Head(s) = s[1]
    OBVIOUS
<1> HIDE DEF t
<1>2. \A i \in DOMAIN s : i = 1 \/ (i - 1 \in DOMAIN t /\ t[i - 1] = s[i])
    BY <1>1
<1>3. \A i \in DOMAIN t : i + 1 \in DOMAIN s /\ s[i + 1] = t[i] /\ i + 1 # 1
    BY <1>1
<1>4. HeldOut(s, m) <=> HeldOut(t, m) \/ HeldSet(Head(s), m)
    BY <1>1, <1>2, <1>3 DEF HeldOut
<1>5. ASSUME OnceOut(s, m) PROVE OnceOut(t, m) /\ OnceSet(Head(s), m)
    BY <1>1, <1>3, <1>5 DEF OnceOut
<1>6. ASSUME OnceOut(s, m), HeldSet(Head(s), m) PROVE ~HeldOut(t, m)
    BY <1>1, <1>3, <1>6 DEF OnceOut, HeldOut
<1> QED BY <1>4, <1>5, <1>6 DEF t

(* A part taken from a set, and a message added to one.                     *)
LEMMA HeldSets ==
    /\ \A m : ~HeldSet({}, m) /\ OnceSet({}, m)
    /\ \A S, T, m : T \subseteq S =>
        /\ HeldSet(S, m) <=> HeldSet(T, m) \/ HeldSet(S \ T, m)
        /\ OnceSet(S, m) => /\ OnceSet(T, m) /\ OnceSet(S \ T, m)
                            /\ HeldSet(T, m) => ~HeldSet(S \ T, m)
    /\ \A S, x, m :
        /\ HeldSet(S \cup {x}, m) <=> HeldSet(S, m) \/ x.id = m
        /\ OnceSet(S, m) /\ (x.id = m => ~HeldSet(S, m)) => OnceSet(S \cup {x}, m)
BY DEF HeldSet, OnceSet

(* The same for the workers: one takes a message, one lets go of his, and   *)
(* steps that leave all messages where they are.                            *)
LEMMA CurTakes ==
    ASSUME NEW w \in Workers, NEW m, NEW id,
           ~HeldBy(worker, cur, w, m), HeldBy(worker', cur', w, m) <=> id = m,
           \A v \in Workers \ {w} : HeldBy(worker', cur', v, m) <=> HeldBy(worker, cur, v, m)
    PROVE  /\ HeldCur(worker', cur', m) <=> HeldCur(worker, cur, m) \/ id = m
           /\ OnceCur(worker, cur, m) /\ (id = m => ~HeldCur(worker, cur, m))
                => OnceCur(worker', cur', m)
BY DEF HeldCur, OnceCur

(* A worker lets go of its message.                                         *)
LEMMA CurLeaves ==
    ASSUME NEW w \in Workers, NEW m, NEW id,
           HeldBy(worker, cur, w, m) <=> id = m, ~HeldBy(worker', cur', w, m),
           \A v \in Workers \ {w} : HeldBy(worker', cur', v, m) <=> HeldBy(worker, cur, v, m)
    PROVE  /\ HeldCur(worker, cur, m) <=> HeldCur(worker', cur', m) \/ id = m
           /\ OnceCur(worker, cur, m) => /\ OnceCur(worker', cur', m)
                                         /\ id = m => ~HeldCur(worker', cur', m)
BY DEF HeldCur, OnceCur

(* No worker takes a message or lets go of one.                             *)
LEMMA CurSame ==
    ASSUME NEW m,
           \A v \in Workers : HeldBy(worker', cur', v, m) <=> HeldBy(worker, cur, v, m)
    PROVE  /\ HeldCur(worker', cur', m) <=> HeldCur(worker, cur, m)
           /\ OnceCur(worker, cur, m) => OnceCur(worker', cur', m)
BY DEF HeldCur, OnceCur

(* The one message of a worker.                                             *)
LEMMA HeldOne == \A x, m : HeldSeq(<<x>>, m) <=> x.id = m
BY DEF HeldSeq

(* Who finishes lets go of his message, if he has not done so when it was   *)
(* acknowledged.                                                            *)
LEMMA FinishLeaves ==
    ASSUME TypeOK, HandsEmpty, NEW w \in Workers, NEW m,
           worker[w] \notin {"idle", "exited", "mark"}, Finish(w)
    PROVE  /\ HeldCur(worker, cur, m) <=> HeldCur(worker', cur', m) \/ cur[w][1].id = m
           /\ OnceCur(worker, cur, m) =>
                /\ OnceCur(worker', cur', m)
                /\ cur[w][1].id = m => ~HeldCur(worker', cur', m)
<1>1. HeldBy(worker, cur, w, m) <=> cur[w][1].id = m
    BY BusyHolds DEF HeldBy, HeldSeq
<1>2. cur'[w] = <<>>
    BY DEF Finish, TypeOK
<1>3. ~HeldBy(worker', cur', w, m)
    BY <1>2, HeldNone DEF HeldBy
<1>4. \A v \in Workers \ {w} : worker'[v] = worker[v] /\ cur'[v] = cur[v]
    BY DEF Finish, TypeOK
<1>5. \A v \in Workers \ {w} : HeldBy(worker', cur', v, m) <=> HeldBy(worker, cur, v, m)
    BY <1>4 DEF HeldBy
<1> QED BY <1>1, <1>3, <1>5, CurLeaves

-----------------------------------------------------------------------------
(* Channel and ring stay closed.                                            *)
LEMMA ClosedStays ==
    ASSUME Next, NEW m
    PROVE  MayBeDropped(m) => MayBeDropped(m)'
<1> DEFINE Stays == (outClosed => outClosed') /\ (ringClosed => ringClosed')
<1>1. ASSUME Poller \/ Timer \/ Ticker PROVE Stays
    BY <1>1 DEF Poller, PollTop, PollLock, PollWokenCancelled, PollHandle, Timer, TimerReceive,
           TimerEnqueue, TimerStop, Ticker, Tick, TickSend, TickStop
<1>2. ASSUME Dispatcher PROVE Stays
    BY <1>2 DEF Dispatcher, DispTop, DispDequeue, DispRecheck, DispAsk, DispFiltered, DispSubmit,
           DispWait
<1>3. ASSUME Run PROVE Stays
    BY <1>3 DEF Run, RunSelect, RunDispWait, RunTimerWait, RunPollerWait, RunPoolWait, RunDrain,
           RunRequeue, RunReturn
<1>4. ASSUME NEW w \in Workers, Worker(w) PROVE Stays
    BY <1>4 DEF Worker, WorkerTake, WorkerExit, Handle, WorkerAck, WorkerMark, WorkerRetry,
           WorkerNack, WorkerDLQ
<1>5. ASSUME Cancel \/ PollFail \/ Expiry \/ \E n \in Msgs : Publish(n) PROVE Stays
    BY <1>5 DEF Cancel, PollFail, Expiry, MarkExpires, Publish
<1>6. Stays
    BY <1>1, <1>2, <1>3, <1>4, <1>5 DEF Next
<1> QED BY <1>6 DEF MayBeDropped

(* Delayed messages stay so from the wheel to Run.                          *)
LEMMA WheelStep ==
    ASSUME TypeOK, WheelDelayed, Next
    PROVE  WheelDelayed'
<1>1. CASE PollHandle
    BY <1>1 DEF WheelDelayed, PollHandle, Wheel!Insert
<1>2. CASE Tick
    BY <1>2 DEF WheelDelayed, Tick, Wheel!Expire
<1>3. CASE TickSend \/ TickStop
    BY <1>3 DEF WheelDelayed, TickSend, TickStop, Wheel!Send, Wheel!Stop
<1>4. CASE RunDrain
    BY <1>4 DEF WheelDelayed, RunDrain, Wheel!Drain
<1>5. CASE RunRequeue
    BY <1>5 DEF WheelDelayed, RunRequeue
<1>6. CASE UNCHANGED <<wheel, expired, rest>>
    BY <1>6 DEF WheelDelayed
<1>7. ASSUME ~PollHandle, ~Ticker, ~RunDrain, ~RunRequeue
      PROVE  UNCHANGED <<wheel, expired, rest>>
    BY <1>7 DEF Next, Publish, Cancel, PollFail, Expiry, MarkExpires, Poller, PollTop, PollLock,
           PollWokenCancelled, Timer, TimerReceive, TimerEnqueue, TimerStop, Run, RunSelect,
           RunDispWait, RunTimerWait, RunPollerWait, RunPoolWait, RunReturn, Dispatcher, DispTop,
           DispDequeue, DispRecheck, DispAsk, DispFiltered, DispSubmit, DispWait, Worker,
           WorkerTake, WorkerExit, Handle, WorkerAck, WorkerMark, WorkerRetry, WorkerNack,
           WorkerDLQ
<1> QED BY <1>1, <1>2, <1>3, <1>4, <1>5, <1>6, <1>7 DEF Ticker

(* What Enqueue adds is there unless the ring is closed.                    *)
LEMMA EnqueueHolds ==
    ASSUME TypeOK, NEW msg \in Message, Enqueue(msg), NEW m
    PROVE  /\ HeldSeq(ring', m) => HeldSeq(ring, m) \/ msg.id = m
           /\ HeldSeq(ring, m) \/ (msg.id = m /\ ~ringClosed) => HeldSeq(ring', m)
           /\ OnceSeq(ring, m) /\ (msg.id = m => ~HeldSeq(ring, m)) => OnceSeq(ring', m)
<1>1. CASE ringClosed
    BY <1>1 DEF Enqueue
<1>2. CASE ~ringClosed
  <2>1. ring' = Append(ring, msg) /\ ring \in Seq(Message)
      BY <1>2 DEF Enqueue, TypeOK
  <2> QED BY <2>1, HeldAppend
<1> QED BY <1>1, <1>2

(* Publish and Nack put a message into the transport, which drops it only   *)
(* once it is closed.                                                       *)
LEMMA DeliverHolds ==
    ASSUME TypeOK, NEW msg \in Message, Deliver(msg), NEW m
    PROVE  /\ HeldSeq(mem', m) => HeldSeq(mem, m) \/ msg.id = m
           /\ HeldSeq(mem, m) \/ (msg.id = m /\ ~memClosed) => HeldSeq(mem', m)
           /\ OnceSeq(mem, m) /\ (msg.id = m => ~HeldSeq(mem, m)) => OnceSeq(mem', m)
<1>1. CASE memClosed
    BY <1>1 DEF Deliver
<1>2. CASE ~memClosed
  <2>1. mem' = Append(mem, msg) /\ mem \in Seq(Message)
      BY <1>2 DEF Deliver, TypeOK
  <2> QED BY <2>1, HeldAppend
<1> QED BY <1>1, <1>2

(* Steps that move no message.                                              *)
LEMMA NothingMoved ==
    ASSUME NEW m \in Msgs, InOnePlace(m),
           MayBeDropped(m) => MayBeDropped(m)',
           UNCHANGED <<mem, pbatch, ring, wheel, expired, out, tbatch, rest, dbatch, kept,
                       duplicates, work, acked, published>>,
           HeldCur(worker', cur', m) <=> HeldCur(worker, cur, m),
           OnceCur(worker, cur, m) => OnceCur(worker', cur', m)
    PROVE  InOnePlace(m)'
BY DEF InOnePlace, OnceInEach, OnlyIn, Somewhere

(* A poller's step.                                                         *)
LEMMA PollerPlace ==
    ASSUME TypeOK, HandsEmpty, Shutdown, NEW m \in Msgs, InOnePlace(m),
           MayBeDropped(m) => MayBeDropped(m)',
           Poller
    PROVE  InOnePlace(m)'
<1>1. CASE PollTop \/ PollWokenCancelled
    BY <1>1, NothingMoved DEF PollTop, PollWokenCancelled
<1>2. CASE PollLock
  <2>1. CASE mem = <<>>
      BY <1>2, <2>1, NothingMoved DEF PollLock
  <2>2. CASE mem # <<>>
    <3>1. /\ pbatch' = mem /\ mem' = <<>> /\ pbatch = <<>>
          /\ UNCHANGED <<ring, wheel, notPoller>>
        BY <1>2, <2>2 DEF PollLock, Leftover, HandsEmpty
    <3>2. ~HeldSeq(pbatch, m) /\ ~HeldSeq(mem', m) /\ OnceSeq(mem', m)
        BY <3>1, HeldNone
    <3>3. PICK p : OnlyIn(m, p)
        BY DEF InOnePlace
    <3>4. \E q : OnlyIn(m, q)'
      <4>1. IF HeldSeq(mem, m) THEN OnlyIn(m, "poller")' ELSE OnlyIn(m, p)'
          BY <3>1, <3>2, <3>3 DEF OnlyIn
      <4> QED BY <4>1
    <3>5. OnceInEach(m)' /\ (Somewhere(m)' <=> Somewhere(m))
        BY <3>1, <3>2 DEF InOnePlace, OnceInEach, Somewhere
    <3> QED BY <3>1, <3>4, <3>5 DEF InOnePlace
  <2> QED BY <2>1, <2>2
<1>3. CASE PollHandle
  <2> DEFINE x == Head(pbatch)
  <2>1. x \in Message /\ pbatch' = Tail(pbatch) /\ UNCHANGED <<mem, notPoller>>
      BY <1>3, HeadTail DEF PollHandle, TypeOK
  <2>2. /\ HeldSeq(pbatch, m) <=> HeldSeq(pbatch', m) \/ x.id = m
        /\ OnceSeq(pbatch, m) => OnceSeq(pbatch', m) /\ (x.id = m => ~HeldSeq(pbatch', m))
      BY <1>3, <2>1, HeldTail DEF PollHandle, TypeOK
  <2>3. PICK p : OnlyIn(m, p)
      BY DEF InOnePlace
  <2>4. CASE x.id \in Delayed
    <3>1. UNCHANGED ring /\ wheel' = wheel \cup {x}
        BY <1>3, <2>4 DEF PollHandle, Wheel!Insert, Shutdown, PollOver
    <3>2. /\ HeldSet(wheel', m) <=> HeldSet(wheel, m) \/ x.id = m
          /\ OnceSet(wheel, m) /\ (x.id = m => ~HeldSet(wheel, m)) => OnceSet(wheel', m)
        BY <3>1, HeldSets
    <3> HIDE DEF x
    <3>3. OnceInEach(m)' /\ IF x.id = m THEN OnlyIn(m, "wheel")' ELSE OnlyIn(m, p)'
        BY <2>1, <2>2, <2>3, <3>1, <3>2 DEF OnlyIn, InOnePlace, OnceInEach
    <3>4. Somewhere(m)' <=> Somewhere(m)
        BY <2>1, <2>2, <3>1, <3>2 DEF Somewhere
    <3> QED BY <2>1, <3>3, <3>4 DEF InOnePlace
  <2>5. CASE x.id \notin Delayed
    <3>1. Enqueue(x) /\ UNCHANGED wheel /\ ~ringClosed
        BY <1>3, <2>5 DEF PollHandle, Shutdown, PollOver
    <3>2. /\ HeldSeq(ring', m) => HeldSeq(ring, m) \/ x.id = m
          /\ HeldSeq(ring, m) \/ (x.id = m /\ ~ringClosed) => HeldSeq(ring', m)
          /\ OnceSeq(ring, m) /\ (x.id = m => ~HeldSeq(ring, m)) => OnceSeq(ring', m)
        BY <2>1, <3>1, EnqueueHolds
    <3> HIDE DEF x
    <3>3. OnceInEach(m)' /\ IF x.id = m THEN OnlyIn(m, "ring")' ELSE OnlyIn(m, p)'
        BY <2>1, <2>2, <2>3, <3>1, <3>2 DEF OnlyIn, InOnePlace, OnceInEach
    <3>4. Somewhere(m)' <=> Somewhere(m)
        BY <2>1, <2>2, <3>1, <3>2 DEF Somewhere
    <3> QED BY <2>1, <3>3, <3>4 DEF InOnePlace
  <2> QED BY <2>4, <2>5
<1> QED BY <1>1, <1>2, <1>3 DEF Poller

(* A step of the wheel's goroutine.  A batch is discarded only together     *)
(* with the channel.                                                        *)
LEMMA TickerPlace ==
    ASSUME TypeOK, HandsEmpty, WheelDelayed, NEW m \in Msgs, InOnePlace(m),
           MayBeDropped(m) => MayBeDropped(m)',
           Ticker
    PROVE  InOnePlace(m)'
<1>1. PICK p : OnlyIn(m, p)
    BY DEF InOnePlace
<1>2. CASE Tick
  <2>1. PICK due \in SUBSET wheel : wheel' = wheel \ due /\ expired' = due
      BY <1>2 DEF Tick, Wheel!Expire
  <2>2. expired = {} /\ UNCHANGED <<out, outClosed, notTicker>>
      BY <1>2 DEF Tick, Wheel!Expire, HandsEmpty
  <2>3. ~HeldSet(expired, m)
      BY <2>2, HeldSets
  <2>4. /\ HeldSet(wheel, m) <=> HeldSet(expired', m) \/ HeldSet(wheel', m)
        /\ OnceSet(wheel, m) => /\ OnceSet(expired', m) /\ OnceSet(wheel', m)
                                /\ HeldSet(expired', m) => ~HeldSet(wheel', m)
      BY <2>1, HeldSets
  <2> HIDE <2>1
  <2>5. OnceInEach(m)' /\ IF HeldSet(expired', m) THEN OnlyIn(m, "expired")' ELSE OnlyIn(m, p)'
      BY <1>1, <2>2, <2>3, <2>4 DEF OnlyIn, InOnePlace, OnceInEach
  <2>6. Somewhere(m)' <=> Somewhere(m)
      BY <2>2, <2>3, <2>4 DEF Somewhere
  <2> QED BY <2>2, <2>5, <2>6 DEF InOnePlace
<1>3. CASE TickSend
  <2>1. expired' = {} /\ out' = Append(out, expired) /\ UNCHANGED <<wheel, outClosed, notTicker>>
      BY <1>3 DEF TickSend, Wheel!Send
  <2>2. ~HeldSet(expired', m) /\ OnceSet(expired', m)
      BY <2>1, HeldSets
  <2>3. /\ HeldOut(out', m) <=> HeldOut(out, m) \/ HeldSet(expired, m)
        /\ OnceOut(out, m) /\ OnceSet(expired, m) /\ (HeldSet(expired, m) => ~HeldOut(out, m))
             => OnceOut(out', m)
      BY <2>1, HeldOutAppend DEF TypeOK
  <2>4. OnceInEach(m)' /\ IF HeldSet(expired, m) THEN OnlyIn(m, "out")' ELSE OnlyIn(m, p)'
      BY <1>1, <2>1, <2>2, <2>3 DEF OnlyIn, InOnePlace, OnceInEach
  <2>5. Somewhere(m)' <=> Somewhere(m)
      BY <2>1, <2>2, <2>3 DEF Somewhere
  <2> QED BY <2>1, <2>4, <2>5 DEF InOnePlace
<1>4. CASE TickStop
  <2>1. expired' = {} /\ outClosed' /\ UNCHANGED <<wheel, out, notTicker>>
      BY <1>4 DEF TickStop, Wheel!Stop
  <2>2. ~HeldSet(expired', m) /\ OnceSet(expired', m)
      BY <2>1, HeldSets
  <2>3. OnceInEach(m)' /\ OnlyIn(m, p)' /\ (Somewhere(m)' => Somewhere(m))
      BY <1>1, <2>1, <2>2 DEF OnlyIn, InOnePlace, OnceInEach, Somewhere
  <2>4. Somewhere(m) => Somewhere(m)' \/ HeldSet(expired, m)
      BY <2>1 DEF Somewhere
  <2>5. HeldSet(expired, m) => MayBeDropped(m)'
      BY <2>1 DEF HeldSet, WheelDelayed, MayBeDropped
  <2> QED BY <2>1, <2>3, <2>4, <2>5 DEF InOnePlace
<1> QED BY <1>2, <1>3, <1>4 DEF Ticker

(* A step of runTimer.                                                      *)
LEMMA TimerPlace ==
    ASSUME TypeOK, HandsEmpty, Shutdown, NEW m \in Msgs, InOnePlace(m),
           MayBeDropped(m) => MayBeDropped(m)',
           Timer
    PROVE  InOnePlace(m)'
<1>1. PICK p : OnlyIn(m, p)
    BY DEF InOnePlace
<1>2. CASE TimerReceive
  <2>1. /\ tbatch = {} /\ tbatch' = Head(out) /\ out' = Tail(out) /\ out # <<>>
        /\ UNCHANGED <<ring, notTimer>>
      BY <1>2 DEF TimerReceive, HandsEmpty
  <2>2. ~HeldSet(tbatch, m)
      BY <2>1, HeldSets
  <2>3. /\ HeldOut(out, m) <=> HeldOut(out', m) \/ HeldSet(tbatch', m)
        /\ OnceOut(out, m) => /\ OnceOut(out', m) /\ OnceSet(tbatch', m)
                              /\ HeldSet(tbatch', m) => ~HeldOut(out', m)
      BY <2>1, HeldOutTail DEF TypeOK
  <2>4. UNCHANGED <<ring, notTimer>>
      BY <2>1
  <2> HIDE <2>1
  <2>5. OnceInEach(m)' /\ IF HeldSet(tbatch', m) THEN OnlyIn(m, "timer")' ELSE OnlyIn(m, p)'
      BY <1>1, <2>2, <2>3, <2>4 DEF OnlyIn, InOnePlace, OnceInEach
  <2>6. Somewhere(m)' <=> Somewhere(m)
      BY <2>2, <2>3, <2>4 DEF Somewhere
  <2> QED BY <2>4, <2>5, <2>6 DEF InOnePlace
<1>3. CASE TimerEnqueue
  <2>1. PICK x \in tbatch : Enqueue(x) /\ tbatch' = tbatch \ {x}
      BY <1>3 DEF TimerEnqueue
  <2>2. x \in Message /\ UNCHANGED <<out, notTimer>> /\ ~ringClosed
      BY <1>3, <2>1 DEF TimerEnqueue, TypeOK, Shutdown
  <2>3. /\ HeldSeq(ring', m) => HeldSeq(ring, m) \/ x.id = m
        /\ HeldSeq(ring, m) \/ (x.id = m /\ ~ringClosed) => HeldSeq(ring', m)
        /\ OnceSeq(ring, m) /\ (x.id = m => ~HeldSeq(ring, m)) => OnceSeq(ring', m)
      BY <2>1, <2>2, EnqueueHolds
  <2>4. /\ HeldSet(tbatch, m) <=> HeldSet(tbatch', m) \/ x.id = m
        /\ OnceSet(tbatch, m) => OnceSet(tbatch', m) /\ (x.id = m => ~HeldSet(tbatch', m))
      BY <2>1 DEF HeldSet, OnceSet
  <2>5. OnceInEach(m)' /\ IF x.id = m THEN OnlyIn(m, "ring")' ELSE OnlyIn(m, p)'
      BY <1>1, <2>2, <2>3, <2>4 DEF OnlyIn, InOnePlace, OnceInEach
  <2>6. Somewhere(m)' <=> Somewhere(m)
      BY <2>2, <2>3, <2>4 DEF Somewhere
  <2> QED BY <2>2, <2>5, <2>6 DEF InOnePlace
<1>4. CASE TimerStop
    BY <1>4, NothingMoved DEF TimerStop
<1> QED BY <1>2, <1>3, <1>4 DEF Timer

(* A step of the dispatcher.                                                *)
LEMMA DispatcherPlace ==
    ASSUME TypeOK, HandsEmpty, NEW m \in Msgs, InOnePlace(m),
           MayBeDropped(m) => MayBeDropped(m)', Dispatcher
    PROVE  InOnePlace(m)'
<1>1. PICK p : OnlyIn(m, p)
    BY DEF InOnePlace
<1>2. CASE DispTop \/ DispRecheck \/ DispWait
    BY <1>2, NothingMoved DEF DispTop, DispRecheck, DispWait
<1>3. CASE DispDequeue
  <2> DEFINE n == Least(Len(ring), IF draining THEN DrainMax ELSE BatchMax)
  <2>1. n \in Nat /\ n <= Len(ring) /\ ring \in Seq(Message)
      BY PipelineAssumption DEF TypeOK, Least
  <2> HIDE DEF n
  <2>2. CASE n = 0
      BY <1>3, <2>2, NothingMoved DEF DispDequeue, n
  <2>3. CASE n # 0
    <3>1. dbatch' = SubSeq(ring, 1, n) /\ ring' = SubSeq(ring, n + 1, Len(ring))
        BY <1>3, <2>3 DEF DispDequeue, n
    <3>2. /\ dbatch = <<>>
          /\ UNCHANGED <<filtered, draining, work, pend, acked, unanswered, notDispatcher>>
        BY <1>3 DEF DispDequeue, HandsEmpty
    <3>3. /\ HeldSeq(ring, m) <=> HeldSeq(dbatch', m) \/ HeldSeq(ring', m)
          /\ OnceSeq(ring, m) => /\ OnceSeq(dbatch', m) /\ OnceSeq(ring', m)
                                 /\ ~(HeldSeq(dbatch', m) /\ HeldSeq(ring', m))
      <4>1. n \in 1..Len(ring) /\ ring \in Seq(Message)
          BY <2>1, <2>3
      <4> QED BY <3>1, <4>1, HeldSplit
    <3>4. ~HeldSeq(dbatch, m)
        BY <3>2, HeldNone
    <3> HIDE <3>1
    <3>5. /\ OnceInEach(m)'
          /\ IF HeldSeq(dbatch', m) THEN OnlyIn(m, "dispatcher")' ELSE OnlyIn(m, p)'
        BY <1>1, <3>2, <3>3, <3>4 DEF OnlyIn, InOnePlace, OnceInEach
    <3>6. Somewhere(m)' <=> Somewhere(m)
        BY <3>2, <3>3, <3>4 DEF Somewhere
    <3> QED BY <3>2, <3>5, <3>6 DEF InOnePlace
  <2> QED BY <2>2, <2>3
<1>4. CASE DispAsk
  <2> DEFINE x == Head(dbatch)
  <2>1. /\ x \in Message /\ dbatch' = Tail(dbatch)
        /\ UNCHANGED <<disp, draining, ring, work, pend, acked, together, notDispatcher>>
      BY <1>4, HeadTail DEF DispAsk, TypeOK
  <2>2. /\ HeldSeq(dbatch, m) <=> HeldSeq(dbatch', m) \/ x.id = m
        /\ OnceSeq(dbatch, m) => OnceSeq(dbatch', m) /\ (x.id = m => ~HeldSeq(dbatch', m))
      BY <1>4, <2>1, HeldTail DEF DispAsk, TypeOK
  <2>3. CASE duplicates' = Append(duplicates, x) /\ kept' = kept
    <3>1. /\ HeldSeq(duplicates', m) <=> HeldSeq(duplicates, m) \/ x.id = m
          /\ OnceSeq(duplicates, m) /\ (x.id = m => ~HeldSeq(duplicates, m))
                => OnceSeq(duplicates', m)
        BY <2>1, <2>3, HeldAppend DEF TypeOK
    <3> HIDE DEF x
    <3>2. OnceInEach(m)' /\ IF x.id = m THEN OnlyIn(m, "duplicates")' ELSE OnlyIn(m, p)'
        BY <1>1, <2>1, <2>2, <2>3, <3>1 DEF OnlyIn, InOnePlace, OnceInEach
    <3>3. Somewhere(m)' <=> Somewhere(m)
        BY <2>1, <2>2, <2>3, <3>1 DEF Somewhere
    <3> QED BY <2>1, <3>2, <3>3 DEF InOnePlace
  <2>4. CASE kept' = Append(kept, x) /\ duplicates' = duplicates
    <3>1. /\ HeldSeq(kept', m) <=> HeldSeq(kept, m) \/ x.id = m
          /\ OnceSeq(kept, m) /\ (x.id = m => ~HeldSeq(kept, m)) => OnceSeq(kept', m)
        BY <2>1, <2>4, HeldAppend DEF TypeOK
    <3> HIDE DEF x
    <3>2. OnceInEach(m)' /\ IF x.id = m THEN OnlyIn(m, "kept")' ELSE OnlyIn(m, p)'
        BY <1>1, <2>1, <2>2, <2>4, <3>1 DEF OnlyIn, InOnePlace, OnceInEach
    <3>3. Somewhere(m)' <=> Somewhere(m)
        BY <2>1, <2>2, <2>4, <3>1 DEF Somewhere
    <3> QED BY <2>1, <3>2, <3>3 DEF InOnePlace
  <2> QED BY <1>4, <2>3, <2>4 DEF DispAsk
<1>5. CASE DispFiltered
  <2>1. /\ dbatch' = kept /\ kept' = <<>> /\ duplicates' = <<>> /\ dbatch = <<>>
        /\ acked' = acked \cup {duplicates[i].id : i \in DOMAIN duplicates}
        /\ UNCHANGED <<draining, ring, work, pend, together, unanswered, notDispatcher>>
      BY <1>5 DEF DispFiltered
  <2>2. m \in acked' <=> m \in acked \/ HeldSeq(duplicates, m)
      BY <2>1 DEF HeldSeq
  <2>3. /\ ~HeldSeq(dbatch, m) /\ ~HeldSeq(kept', m) /\ ~HeldSeq(duplicates', m)
        /\ OnceSeq(kept', m) /\ OnceSeq(duplicates', m)
      BY <2>1, HeldNone
  <2>4. dbatch' = kept /\ UNCHANGED <<draining, ring, work, pend, together, notDispatcher>>
      BY <2>1
  <2> HIDE <2>1
  <2>5. /\ OnceInEach(m)'
        /\ IF HeldSeq(duplicates, m) THEN OnlyIn(m, "acked")'
           ELSE IF HeldSeq(kept, m) THEN OnlyIn(m, "dispatcher")' ELSE OnlyIn(m, p)'
      BY <1>1, <2>2, <2>3, <2>4 DEF OnlyIn, InOnePlace, OnceInEach
  <2>6. Somewhere(m)' <=> Somewhere(m)
      BY <2>2, <2>3, <2>4 DEF Somewhere
  <2> QED BY <2>4, <2>5, <2>6 DEF InOnePlace
<1>6. CASE DispSubmit
  <2> DEFINE x == Head(dbatch)
  <2>1. /\ x \in Message /\ dbatch' = Tail(dbatch) /\ work' = Append(work, x)
        /\ UNCHANGED <<filtered, ring, acked, notDispatcher>>
      BY <1>6, HeadTail DEF DispSubmit, TypeOK
  <2>2. /\ HeldSeq(dbatch, m) <=> HeldSeq(dbatch', m) \/ x.id = m
        /\ OnceSeq(dbatch, m) => OnceSeq(dbatch', m) /\ (x.id = m => ~HeldSeq(dbatch', m))
      BY <1>6, <2>1, HeldTail DEF DispSubmit, TypeOK
  <2>3. /\ HeldSeq(work', m) <=> HeldSeq(work, m) \/ x.id = m
        /\ OnceSeq(work, m) /\ (x.id = m => ~HeldSeq(work, m)) => OnceSeq(work', m)
      BY <2>1, HeldAppend DEF TypeOK
  <2> HIDE DEF x
  <2>4. OnceInEach(m)' /\ IF x.id = m THEN OnlyIn(m, "work")' ELSE OnlyIn(m, p)'
      BY <1>1, <2>1, <2>2, <2>3 DEF OnlyIn, InOnePlace, OnceInEach
  <2>5. Somewhere(m)' <=> Somewhere(m)
      BY <2>1, <2>2, <2>3 DEF Somewhere
  <2> QED BY <2>1, <2>4, <2>5 DEF InOnePlace
<1> QED BY <1>2, <1>3, <1>4, <1>5, <1>6 DEF Dispatcher

(* Run closes the transport only once the pool has nothing to do.           *)
LEMMA OpenWhileBusy ==
    ASSUME TypeOK, Shutdown, OneBatchAtATime, NEW w \in Workers,
           worker[w] \notin {"idle", "exited"}
    PROVE  ~memClosed
<1>1. Busy # {} /\ IsFiniteSet(Busy) /\ Cardinality(Busy) \in Nat
    BY BusyFinite DEF Busy
<1>2. Cardinality(Busy) # 0
    BY <1>1, FS_EmptySet
<1>3. Len(work) \in Nat
    BY DEF TypeOK
<1>4. disp = "submit"
    BY <1>1, <1>2, <1>3 DEF OneBatchAtATime
<1> QED BY <1>4 DEF Shutdown

(* A worker's step.                                                         *)
LEMMA WorkerPlace ==
    ASSUME TypeOK, HandsEmpty, Shutdown, OneBatchAtATime, NEW m \in Msgs, InOnePlace(m),
           MayBeDropped(m) => MayBeDropped(m)', NEW w \in Workers, Worker(w)
    PROVE  InOnePlace(m)'
<1>1. PICK p : OnlyIn(m, p)
    BY DEF InOnePlace
<1> DEFINE id == cur[w][1].id
<1>2. CASE WorkerTake(w)
  <2> DEFINE x == Head(work)
  <2>1. /\ x \in Message /\ work' = Tail(work) /\ work # <<>> /\ work \in Seq(Message)
        /\ UNCHANGED <<ring, mem, acked, notWorker>>
      BY <1>2, HeadTail DEF WorkerTake, TypeOK
  <2>2. /\ HeldSeq(work, m) <=> HeldSeq(work', m) \/ x.id = m
        /\ OnceSeq(work, m) => OnceSeq(work', m) /\ (x.id = m => ~HeldSeq(work', m))
      BY <2>1, HeldTail
  <2>3. cur[w] = <<>> /\ cur'[w] = <<x>> /\ worker'[w] # "mark"
      BY <1>2 DEF WorkerTake, HandsEmpty, TypeOK
  <2>4. ~HeldBy(worker, cur, w, m) /\ (HeldBy(worker', cur', w, m) <=> x.id = m)
      BY <2>3, HeldNone, HeldOne DEF HeldBy
  <2>5. \A v \in Workers \ {w} : worker'[v] = worker[v] /\ cur'[v] = cur[v]
      BY <1>2 DEF WorkerTake, TypeOK
  <2>6. \A v \in Workers \ {w} : HeldBy(worker', cur', v, m) <=> HeldBy(worker, cur, v, m)
      BY <2>5 DEF HeldBy
  <2> HIDE DEF x
  <2>7. /\ HeldCur(worker', cur', m) <=> HeldCur(worker, cur, m) \/ x.id = m
        /\ OnceCur(worker, cur, m) /\ (x.id = m => ~HeldCur(worker, cur, m))
             => OnceCur(worker', cur', m)
      BY <2>4, <2>6, CurTakes
  <2>8. OnceInEach(m)' /\ IF x.id = m THEN OnlyIn(m, "worker")' ELSE OnlyIn(m, p)'
      BY <1>1, <2>1, <2>2, <2>7 DEF OnlyIn, InOnePlace, OnceInEach
  <2>9. Somewhere(m)' <=> Somewhere(m)
      BY <2>1, <2>2, <2>7 DEF Somewhere
  <2> QED BY <2>1, <2>8, <2>9 DEF InOnePlace
<1>3. CASE WorkerExit(w)
  <2>1. \A v \in Workers : HeldBy(worker', cur', v, m) <=> HeldBy(worker, cur, v, m)
      BY <1>3 DEF WorkerExit, HeldBy, TypeOK
  <2> QED BY <1>3, <2>1, CurSame, NothingMoved DEF WorkerExit
<1>4. CASE Handle(w)
  <2>1. cur[w][1] \in Message /\ DOMAIN cur[w] = {1} /\ worker[w] = "handle"
      BY <1>4, BusyHolds DEF Handle
  <2>2. PICK a \in Ends \cup Repeats, k \in 0..Limit :
            /\ worker' = [worker EXCEPT ![w] = a]
            /\ cur' = [cur EXCEPT ![w] = <<[cur[w][1] EXCEPT !.attempts = k]>>]
      BY <1>4, HandleEffect
  <2>3. /\ worker'[w] # "mark" /\ cur'[w] = <<[cur[w][1] EXCEPT !.attempts = k]>>
        /\ \A v \in Workers \ {w} : worker'[v] = worker[v] /\ cur'[v] = cur[v]
      BY <2>2 DEF TypeOK, Ends, Repeats
  <2>4. HeldBy(worker, cur, w, m) <=> id = m
      BY <2>1 DEF HeldBy, HeldSeq
  <2>5. [cur[w][1] EXCEPT !.attempts = k].id = id
      BY <2>1 DEF Message
  <2>6. HeldBy(worker', cur', w, m) <=> id = m
    <3>1. \A x : cur'[w] = <<x>> => (HeldSeq(cur'[w], m) <=> x.id = m)
        BY HeldOne
    <3>2. HeldSeq(cur'[w], m) <=> [cur[w][1] EXCEPT !.attempts = k].id = m
        BY <2>3, <3>1
    <3> QED BY <2>3, <2>5, <3>2 DEF HeldBy
  <2>7. \A v \in Workers : HeldBy(worker', cur', v, m) <=> HeldBy(worker, cur, v, m)
    <3>1. ASSUME NEW v \in Workers \ {w}
          PROVE  HeldBy(worker', cur', v, m) <=> HeldBy(worker, cur, v, m)
        BY <2>3 DEF HeldBy
    <3> QED BY <2>4, <2>6, <3>1
  <2>8. /\ HeldCur(worker', cur', m) <=> HeldCur(worker, cur, m)
        /\ OnceCur(worker, cur, m) => OnceCur(worker', cur', m)
      BY <2>7, CurSame
  <2>9. UNCHANGED <<mem, pbatch, ring, wheel, expired, out, tbatch, rest, dbatch, kept,
                    duplicates, work, acked, published>>
      BY <1>4 DEF Handle
  <2> QED BY <2>8, <2>9, NothingMoved
<1>5. CASE WorkerAck(w)
  <2>1. /\ acked' = acked \cup {id} /\ UNCHANGED <<work, ring, mem, notWorker>>
      BY <1>5 DEF WorkerAck
  <2>2. HeldBy(worker, cur, w, m) <=> id = m
      BY <1>5, BusyHolds DEF WorkerAck, HeldBy, HeldSeq
  <2>3. ~HeldBy(worker', cur', w, m)
      BY <1>5 DEF WorkerAck, HeldBy, TypeOK
  <2>4. \A v \in Workers \ {w} : HeldBy(worker', cur', v, m) <=> HeldBy(worker, cur, v, m)
      BY <1>5 DEF WorkerAck, HeldBy, TypeOK
  <2> HIDE DEF id
  <2>5. /\ HeldCur(worker, cur, m) <=> HeldCur(worker', cur', m) \/ id = m
        /\ OnceCur(worker, cur, m) => /\ OnceCur(worker', cur', m)
                                      /\ id = m => ~HeldCur(worker', cur', m)
      BY <2>2, <2>3, <2>4, CurLeaves
  <2>6. OnceInEach(m)' /\ IF id = m THEN OnlyIn(m, "acked")' ELSE OnlyIn(m, p)'
      BY <1>1, <2>1, <2>5 DEF OnlyIn, InOnePlace, OnceInEach
  <2>7. Somewhere(m)' <=> Somewhere(m)
      BY <2>1, <2>5 DEF Somewhere
  <2> QED BY <2>1, <2>6, <2>7 DEF InOnePlace
<1>6. CASE WorkerMark(w)
  <2>1. cur'[w] = <<>> /\ worker[w] = "mark"
      BY <1>6 DEF WorkerMark, Finish, TypeOK
  <2>2. ~HeldBy(worker, cur, w, m) /\ ~HeldBy(worker', cur', w, m)
      BY <2>1, HeldNone DEF HeldBy
  <2>3. \A v \in Workers \ {w} : worker'[v] = worker[v] /\ cur'[v] = cur[v]
      BY <1>6 DEF WorkerMark, Finish, TypeOK
  <2>4. \A v \in Workers : HeldBy(worker', cur', v, m) <=> HeldBy(worker, cur, v, m)
    <3>1. ASSUME NEW v \in Workers \ {w}
          PROVE  HeldBy(worker', cur', v, m) <=> HeldBy(worker, cur, v, m)
        BY <2>3 DEF HeldBy
    <3> QED BY <2>2, <3>1
  <2>5. /\ HeldCur(worker', cur', m) <=> HeldCur(worker, cur, m)
        /\ OnceCur(worker, cur, m) => OnceCur(worker', cur', m)
      BY <2>4, CurSame
  <2>6. UNCHANGED <<mem, pbatch, ring, wheel, expired, out, tbatch, rest, dbatch, kept,
                    duplicates, work, acked, published>>
      BY <1>6 DEF WorkerMark, Finish
  <2> QED BY <2>5, <2>6, NothingMoved
<1>7. ASSUME worker[w] \notin {"idle", "exited", "mark"}, Finish(w)
      PROVE  /\ HeldCur(worker, cur, m) <=> HeldCur(worker', cur', m) \/ id = m
             /\ OnceCur(worker, cur, m) =>
                  /\ OnceCur(worker', cur', m) /\ (id = m => ~HeldCur(worker', cur', m))
             /\ cur[w][1] \in Message /\ work' = work
    BY <1>7, FinishLeaves, BusyHolds DEF Finish
<1>8. CASE WorkerRetry(w)
  <2>1. /\ HeldCur(worker, cur, m) <=> HeldCur(worker', cur', m) \/ id = m
        /\ OnceCur(worker, cur, m) =>
             /\ OnceCur(worker', cur', m) /\ (id = m => ~HeldCur(worker', cur', m))
        /\ cur[w][1] \in Message /\ work' = work
      BY <1>7, <1>8 DEF WorkerRetry
  <2>2. Enqueue(cur[w][1]) /\ UNCHANGED <<mem, acked, notWorker>> /\ ~ringClosed
      BY <1>8 DEF WorkerRetry, Shutdown
  <2>3. /\ HeldSeq(ring', m) => HeldSeq(ring, m) \/ id = m
        /\ HeldSeq(ring, m) \/ (id = m /\ ~ringClosed) => HeldSeq(ring', m)
        /\ OnceSeq(ring, m) /\ (id = m => ~HeldSeq(ring, m)) => OnceSeq(ring', m)
      BY <2>1, <2>2, EnqueueHolds
  <2> HIDE DEF id
  <2>4. OnceInEach(m)' /\ IF id = m THEN OnlyIn(m, "ring")' ELSE OnlyIn(m, p)'
      BY <1>1, <2>1, <2>2, <2>3 DEF OnlyIn, InOnePlace, OnceInEach
  <2>5. Somewhere(m)' <=> Somewhere(m)
      BY <2>1, <2>2, <2>3 DEF Somewhere
  <2> QED BY <2>2, <2>4, <2>5 DEF InOnePlace
<1>9. CASE WorkerNack(w)
  <2>1. /\ HeldCur(worker, cur, m) <=> HeldCur(worker', cur', m) \/ id = m
        /\ OnceCur(worker, cur, m) =>
             /\ OnceCur(worker', cur', m) /\ (id = m => ~HeldCur(worker', cur', m))
        /\ cur[w][1] \in Message /\ work' = work
      BY <1>7, <1>9 DEF WorkerNack
  <2>2. Deliver(cur[w][1]) /\ UNCHANGED <<ring, acked, notWorker>> /\ ~memClosed
      BY <1>9, OpenWhileBusy DEF WorkerNack, Nack
  <2>3. /\ HeldSeq(mem', m) => HeldSeq(mem, m) \/ id = m
        /\ HeldSeq(mem, m) \/ (id = m /\ ~memClosed) => HeldSeq(mem', m)
        /\ OnceSeq(mem, m) /\ (id = m => ~HeldSeq(mem, m)) => OnceSeq(mem', m)
      BY <2>1, <2>2, DeliverHolds
  <2> HIDE DEF id
  <2>4. OnceInEach(m)' /\ IF id = m THEN OnlyIn(m, "mem")' ELSE OnlyIn(m, p)'
      BY <1>1, <2>1, <2>2, <2>3 DEF OnlyIn, InOnePlace, OnceInEach
  <2>5. Somewhere(m)' <=> Somewhere(m)
      BY <2>1, <2>2, <2>3 DEF Somewhere
  <2> QED BY <2>2, <2>4, <2>5 DEF InOnePlace
<1>10. CASE WorkerDLQ(w)
  <2>1. /\ HeldCur(worker, cur, m) <=> HeldCur(worker', cur', m) \/ id = m
        /\ OnceCur(worker, cur, m) =>
             /\ OnceCur(worker', cur', m) /\ (id = m => ~HeldCur(worker', cur', m))
        /\ cur[w][1] \in Message /\ work' = work
      BY <1>7, <1>10 DEF WorkerDLQ
  <2>2. acked' = acked \cup {id} /\ UNCHANGED <<ring, mem, notWorker>>
      BY <1>10 DEF WorkerDLQ, DeadLetter
  <2> HIDE DEF id
  <2>3. OnceInEach(m)' /\ IF id = m THEN OnlyIn(m, "acked")' ELSE OnlyIn(m, p)'
      BY <1>1, <2>1, <2>2 DEF OnlyIn, InOnePlace, OnceInEach
  <2>4. Somewhere(m)' <=> Somewhere(m)
      BY <2>1, <2>2 DEF Somewhere
  <2> QED BY <2>2, <2>3, <2>4 DEF InOnePlace
<1> QED BY <1>2, <1>3, <1>4, <1>5, <1>6, <1>8, <1>9, <1>10 DEF Worker

(* A step of Run.                                                           *)
LEMMA RunPlace ==
    ASSUME TypeOK, HandsEmpty, Shutdown, WheelDelayed, NEW m \in Msgs, InOnePlace(m),
           MayBeDropped(m) => MayBeDropped(m)', Run
    PROVE  InOnePlace(m)'
<1>1. PICK p : OnlyIn(m, p)
    BY DEF InOnePlace
<1>2. CASE RunSelect \/ RunDispWait \/ RunTimerWait \/ RunPollerWait \/ RunPoolWait \/ RunReturn
    BY <1>2, NothingMoved DEF RunSelect, RunDispWait, RunTimerWait, RunPollerWait, RunPoolWait,
                              RunReturn
<1>3. CASE RunDrain
  <2>1. rest = {} /\ rest' = wheel /\ wheel' = {} /\ UNCHANGED <<ringVars, notRun>>
      BY <1>3 DEF RunDrain, RunMoves, Wheel!Drain, HandsEmpty
  <2>2. ~HeldSet(rest, m) /\ ~HeldSet(wheel', m) /\ OnceSet(wheel', m)
      BY <2>1, HeldSets
  <2>3. OnceInEach(m)' /\ IF HeldSet(wheel, m) THEN OnlyIn(m, "rest")' ELSE OnlyIn(m, p)'
      BY <1>1, <2>1, <2>2 DEF OnlyIn, InOnePlace, OnceInEach
  <2>4. Somewhere(m)' <=> Somewhere(m)
      BY <2>1, <2>2 DEF Somewhere
  <2> QED BY <2>1, <2>3, <2>4 DEF InOnePlace
<1>4. CASE RunRequeue
  <2>1. PICK x \in rest : Enqueue(x) /\ rest' = rest \ {x}
      BY <1>4 DEF RunRequeue
  <2>2. x \in Message /\ UNCHANGED <<wheel, notRun>>
      BY <1>4, <2>1 DEF RunRequeue, TypeOK
  <2>3. /\ HeldSeq(ring', m) => HeldSeq(ring, m) \/ x.id = m
        /\ HeldSeq(ring, m) \/ (x.id = m /\ ~ringClosed) => HeldSeq(ring', m)
        /\ OnceSeq(ring, m) /\ (x.id = m => ~HeldSeq(ring, m)) => OnceSeq(ring', m)
      BY <2>1, <2>2, EnqueueHolds
  <2>4. /\ HeldSet(rest, m) <=> HeldSet(rest', m) \/ x.id = m
        /\ OnceSet(rest, m) => OnceSet(rest', m) /\ (x.id = m => ~HeldSet(rest', m))
      BY <2>1 DEF HeldSet, OnceSet
  <2>5. OnceInEach(m)' /\ IF x.id = m THEN OnlyIn(m, "ring")' ELSE OnlyIn(m, p)'
      BY <1>1, <2>2, <2>3, <2>4 DEF OnlyIn, InOnePlace, OnceInEach
  <2>6. (Somewhere(m)' => Somewhere(m)) /\ (Somewhere(m) => Somewhere(m)' \/ x.id = m)
      BY <2>2, <2>3, <2>4 DEF Somewhere
  <2>7. x.id = m => MayBeDropped(m)'
      BY <1>4, <2>1 DEF RunRequeue, Shutdown, WheelDelayed, MayBeDropped
  <2> QED BY <2>2, <2>5, <2>6, <2>7 DEF InOnePlace
<1> QED BY <1>2, <1>3, <1>4 DEF Run

(* No step of any goroutine loses or copies a message.                      *)
LEMMA PlaceStep ==
    ASSUME TypeOK, HandsEmpty, Shutdown, OneBatchAtATime, WheelDelayed, OnePlace, Next
    PROVE  OnePlace'
<1> SUFFICES ASSUME NEW m \in Msgs PROVE InOnePlace(m)'
    BY DEF OnePlace
<1>1. InOnePlace(m) /\ (MayBeDropped(m) => MayBeDropped(m)')
    BY ClosedStays DEF OnePlace
<1>2. ASSUME NEW n \in Msgs, Publish(n), ~memClosed PROVE InOnePlace(m)'
  <2>1. /\ n \notin published /\ published' = published \cup {n} /\ Deliver(Fresh(n))
        /\ UNCHANGED <<ringVars, wheelVars, storeVars, poolVars, runVars, pbatch, timerVars,
                       dispVars, history>>
      BY <1>2 DEF Publish
  <2>2. Fresh(n) \in Message /\ Fresh(n).id = n
      BY FreshType DEF Fresh
  <2>3. /\ HeldSeq(mem', m) => HeldSeq(mem, m) \/ n = m
        /\ HeldSeq(mem, m) \/ (n = m /\ ~memClosed) => HeldSeq(mem', m)
        /\ OnceSeq(mem, m) /\ (n = m => ~HeldSeq(mem, m)) => OnceSeq(mem', m)
      BY <2>1, <2>2, DeliverHolds
  <2>4. PICK p : OnlyIn(m, p)
      BY <1>1 DEF InOnePlace
  <2>5. n = m => ~Somewhere(m)
      BY <1>1, <2>1 DEF InOnePlace
  <2>6. OnceInEach(m)' /\ IF n = m THEN OnlyIn(m, "mem")' ELSE OnlyIn(m, p)'
      BY <1>1, <2>1, <2>3, <2>4, <2>5 DEF OnlyIn, InOnePlace, OnceInEach, Somewhere
  <2>7. /\ Somewhere(m)' => Somewhere(m) \/ n = m
        /\ Somewhere(m) \/ n = m => Somewhere(m)'
      BY <1>2, <2>1, <2>3 DEF Somewhere
  <2> QED BY <1>1, <2>1, <2>6, <2>7 DEF InOnePlace
<1>10. ASSUME NEW n \in Msgs, Publish(n), memClosed PROVE InOnePlace(m)'
    BY <1>1, <1>10, NothingMoved DEF Publish, Deliver
<1>3. CASE Cancel \/ PollFail \/ Expiry
    BY <1>1, <1>3, NothingMoved DEF Cancel, PollFail, Expiry, MarkExpires
<1>4. CASE Poller
    BY <1>1, <1>4, PollerPlace
<1>5. CASE Ticker
    BY <1>1, <1>5, TickerPlace
<1>6. CASE Timer
    BY <1>1, <1>6, TimerPlace
<1>7. CASE Dispatcher
    BY <1>1, <1>7, DispatcherPlace
<1>8. CASE Run
    BY <1>1, <1>8, RunPlace
<1>9. ASSUME NEW w \in Workers, Worker(w) PROVE InOnePlace(m)'
    BY <1>1, <1>9, WorkerPlace
<1> QED BY <1>2, <1>3, <1>4, <1>5, <1>6, <1>7, <1>8, <1>9, <1>10 DEF Next

-----------------------------------------------------------------------------
(* Places(m), kind by kind: inhabited when m is held there, by one element  *)
(* when it is held once.                                                    *)
AtMostOne(S) == \A a, b \in S : a = b

(* The places in a queue.                                                   *)
LEMMA SeqPlaces ==
    ASSUME NEW name, NEW seq, NEW m
    PROVE  /\ InSeq(name, seq, m) # {} <=> HeldSeq(seq, m)
           /\ OnceSeq(seq, m) => AtMostOne(InSeq(name, seq, m))
BY DEF InSeq, HeldSeq, OnceSeq, AtMostOne

(* The places in a set.                                                     *)
LEMMA SetPlaces ==
    ASSUME NEW name, NEW set, NEW m
    PROVE  /\ InSet(name, set, m) # {} <=> HeldSet(set, m)
           /\ OnceSet(set, m) => AtMostOne(InSet(name, set, m))
BY DEF InSet, HeldSet, OnceSet, AtMostOne

OutPlaces(m) == UNION {InSet(i, out[i], m) : i \in DOMAIN out}
CurPlaces(m) == UNION {InSeq(w, cur[w], m) : w \in {v \in Workers : worker[v] # "mark"}}
AckPlaces(m) == {<<"acked", n>> : n \in acked \cap {m}}

(* The places in the wheel's channel.                                       *)
LEMMA ChannelPlaces ==
    ASSUME NEW m
    PROVE  /\ OutPlaces(m) # {} <=> HeldOut(out, m)
           /\ OnceOut(out, m) => AtMostOne(OutPlaces(m))
<1>1. \A a : a \in OutPlaces(m) <=> \E i \in DOMAIN out : a \in InSet(i, out[i], m)
    BY DEF OutPlaces
<1>2. OutPlaces(m) # {} <=> HeldOut(out, m)
  <2>1. ASSUME OutPlaces(m) # {} PROVE HeldOut(out, m)
      BY <1>1, <2>1, SetPlaces DEF HeldOut
  <2>2. ASSUME HeldOut(out, m) PROVE OutPlaces(m) # {}
    <3>1. PICK i \in DOMAIN out : InSet(i, out[i], m) # {}
        BY <2>2, SetPlaces DEF HeldOut
    <3> QED BY <1>1, <3>1
  <2> QED BY <2>1, <2>2
<1>3. ASSUME OnceOut(out, m), NEW a \in OutPlaces(m), NEW b \in OutPlaces(m) PROVE a = b
  <2>1. PICK i \in DOMAIN out : a \in InSet(i, out[i], m)
      BY <1>1
  <2>2. PICK j \in DOMAIN out : b \in InSet(j, out[j], m)
      BY <1>1
  <2>3. i = j
      BY <1>3, <2>1, <2>2, SetPlaces DEF OnceOut
  <2>4. AtMostOne(InSet(i, out[i], m))
      BY <1>3, SetPlaces DEF OnceOut
  <2> QED BY <2>1, <2>2, <2>3, <2>4 DEF AtMostOne
<1> QED BY <1>2, <1>3 DEF AtMostOne

(* The places in the pool.                                                  *)
LEMMA PoolPlaces ==
    ASSUME TypeOK, HandsEmpty, NEW m
    PROVE  /\ CurPlaces(m) # {} <=> HeldCur(worker, cur, m)
           /\ OnceCur(worker, cur, m) => AtMostOne(CurPlaces(m))
<1>1. \A a : a \in CurPlaces(m) <=>
          \E w \in Workers : worker[w] # "mark" /\ a \in InSeq(w, cur[w], m)
    BY DEF CurPlaces
<1>2. CurPlaces(m) # {} <=> HeldCur(worker, cur, m)
  <2>1. ASSUME CurPlaces(m) # {} PROVE HeldCur(worker, cur, m)
    <3>1. PICK w \in Workers : worker[w] # "mark" /\ InSeq(w, cur[w], m) # {}
        BY <1>1, <2>1
    <3> QED BY <3>1, SeqPlaces DEF HeldCur, HeldBy
  <2>2. ASSUME HeldCur(worker, cur, m) PROVE CurPlaces(m) # {}
    <3>1. PICK w \in Workers : worker[w] # "mark" /\ InSeq(w, cur[w], m) # {}
        BY <2>2, SeqPlaces DEF HeldCur, HeldBy
    <3> QED BY <1>1, <3>1
  <2> QED BY <2>1, <2>2
<1>3. ASSUME OnceCur(worker, cur, m), NEW a \in CurPlaces(m), NEW b \in CurPlaces(m)
      PROVE  a = b
  <2>1. PICK v \in Workers : worker[v] # "mark" /\ a \in InSeq(v, cur[v], m)
      BY <1>1
  <2>2. PICK w \in Workers : worker[w] # "mark" /\ b \in InSeq(w, cur[w], m)
      BY <1>1
  <2>3. HeldBy(worker, cur, v, m) /\ HeldBy(worker, cur, w, m)
      BY <2>1, <2>2, SeqPlaces DEF HeldBy
  <2>4. v = w
      BY <1>3, <2>3 DEF OnceCur
  <2>5. OnceSeq(cur[v], m)
    <3>1. worker[v] \notin {"idle", "exited"} => DOMAIN cur[v] = {1}
        BY BusyHolds
    <3>2. worker[v] \in {"idle", "exited"} => OnceSeq(cur[v], m)
        BY HeldNone DEF HandsEmpty
    <3>3. DOMAIN cur[v] = {1} => OnceSeq(cur[v], m)
        BY DEF OnceSeq
    <3> QED BY <3>1, <3>2, <3>3
  <2>6. AtMostOne(InSeq(v, cur[v], m))
      BY <2>5, SeqPlaces
  <2> QED BY <2>1, <2>2, <2>4, <2>6 DEF AtMostOne
<1> QED BY <1>2, <1>3 DEF AtMostOne

(* Places(m) is inhabited exactly when m is somewhere, and by one element   *)
(* when it is in one place once.                                            *)
LEMMA PlacesAgree ==
    ASSUME TypeOK, HandsEmpty, NEW m \in Msgs, InOnePlace(m)
    PROVE  AtMostOne(Places(m)) /\ (Places(m) # {} <=> Somewhere(m))
<1> DEFINE A == InSeq("mem", mem, m)
           B == InSeq("poller", pbatch, m)
           C == InSeq("ring", ring, m)
           D == InSet("wheel", wheel, m)
           E == InSet("expired", expired, m)
           F == OutPlaces(m)
           G == InSet("timer", tbatch, m)
           H == InSet("rest", rest, m)
           I == InSeq("dispatcher", dbatch, m)
           J == InSeq("kept", kept, m)
           K == InSeq("duplicates", duplicates, m)
           L == InSeq("work", work, m)
           M == CurPlaces(m)
           N == AckPlaces(m)
<1>1. \A a : a \in Places(m) <=>
          \/ a \in A \/ a \in B \/ a \in C \/ a \in D \/ a \in E \/ a \in F \/ a \in G
          \/ a \in H \/ a \in I \/ a \in J \/ a \in K \/ a \in L \/ a \in M \/ a \in N
  <2>1. Places(m) = A \cup B \cup C \cup D \cup E \cup F \cup G \cup H \cup I \cup J \cup K
                      \cup L \cup M \cup N
      BY DEF Places, OutPlaces, CurPlaces, AckPlaces
  <2> HIDE DEF A, B, C, D, E, F, G, H, I, J, K, L, M, N
  <2> QED BY <2>1
<1>2. PICK p : OnlyIn(m, p)
    BY DEF InOnePlace
<1>3. /\ A # {} <=> HeldSeq(mem, m)
      /\ B # {} <=> HeldSeq(pbatch, m)
      /\ C # {} <=> HeldSeq(ring, m)
      /\ I # {} <=> HeldSeq(dbatch, m)
      /\ J # {} <=> HeldSeq(kept, m)
      /\ K # {} <=> HeldSeq(duplicates, m)
      /\ L # {} <=> HeldSeq(work, m)
    BY SeqPlaces
<1>4. /\ D # {} <=> HeldSet(wheel, m)
      /\ E # {} <=> HeldSet(expired, m)
      /\ G # {} <=> HeldSet(tbatch, m)
      /\ H # {} <=> HeldSet(rest, m)
    BY SetPlaces
<1>5. F # {} <=> HeldOut(out, m)
    BY ChannelPlaces
<1>6. M # {} <=> HeldCur(worker, cur, m)
    BY PoolPlaces
<1>7. (N # {} <=> m \in acked) /\ AtMostOne(N)
    BY DEF AckPlaces, AtMostOne
<1>8. /\ AtMostOne(A) /\ AtMostOne(B) /\ AtMostOne(C) /\ AtMostOne(I) /\ AtMostOne(J)
      /\ AtMostOne(K) /\ AtMostOne(L)
    BY SeqPlaces DEF InOnePlace, OnceInEach
<1>9. AtMostOne(D) /\ AtMostOne(E) /\ AtMostOne(G) /\ AtMostOne(H)
    BY SetPlaces DEF InOnePlace, OnceInEach
<1>10. AtMostOne(F) /\ AtMostOne(M)
    BY ChannelPlaces, PoolPlaces DEF InOnePlace, OnceInEach
<1> HIDE DEF A, B, C, D, E, F, G, H, I, J, K, L, M, N
<1>11. Places(m) # {} <=> Somewhere(m)
  <2>1. Places(m) # {} <=>
            \/ A # {} \/ B # {} \/ C # {} \/ D # {} \/ E # {} \/ F # {} \/ G # {}
            \/ H # {} \/ I # {} \/ J # {} \/ K # {} \/ L # {} \/ M # {} \/ N # {}
      BY <1>1
  <2> QED BY <2>1, <1>3, <1>4, <1>5, <1>6, <1>7 DEF Somewhere
<1>12. /\ (A # {} => p = "mem") /\ (B # {} => p = "poller") /\ (C # {} => p = "ring")
       /\ (D # {} => p = "wheel") /\ (E # {} => p = "expired") /\ (F # {} => p = "out")
       /\ (G # {} => p = "timer") /\ (H # {} => p = "rest") /\ (I # {} => p = "dispatcher")
       /\ (J # {} => p = "kept") /\ (K # {} => p = "duplicates") /\ (L # {} => p = "work")
       /\ (M # {} => p = "worker") /\ (N # {} => p = "acked")
    BY <1>2, <1>3, <1>4, <1>5, <1>6, <1>7 DEF OnlyIn
<1>13. ASSUME NEW a \in Places(m), NEW b \in Places(m) PROVE a = b
  <2>1. CASE a \in A \cup B \cup C \cup D \cup E \cup F \cup G
      BY <1>1, <1>7, <1>8, <1>9, <1>10, <1>12, <2>1 DEF AtMostOne
  <2>2. CASE a \in H \cup I \cup J \cup K \cup L \cup M \cup N
      BY <1>1, <1>7, <1>8, <1>9, <1>10, <1>12, <2>2 DEF AtMostOne
  <2> QED BY <1>1, <2>1, <2>2
<1> QED BY <1>11, <1>13 DEF AtMostOne

(* The invariant over places is what EachInOnePlace counts.                 *)
LEMMA PlacesCounted ==
    ASSUME TypeOK, HandsEmpty, OnePlace
    PROVE  EachInOnePlace
<1> SUFFICES ASSUME NEW m \in Msgs
             PROVE  /\ Cardinality(Places(m)) <= (IF m \in published THEN 1 ELSE 0)
                    /\ m \in published => Places(m) # {} \/ MayBeDropped(m)
    BY DEF EachInOnePlace, MayBeDropped
<1>1. InOnePlace(m)
    BY DEF OnePlace
<1>2. AtMostOne(Places(m)) /\ (Places(m) # {} <=> Somewhere(m))
    BY <1>1, PlacesAgree
<1>3. CASE Places(m) = {}
    BY <1>1, <1>2, <1>3, FS_EmptySet DEF InOnePlace
<1>4. CASE Places(m) # {}
  <2>1. PICK a : Places(m) = {a}
      BY <1>2, <1>4 DEF AtMostOne
  <2>2. Cardinality(Places(m)) = 1
      BY <2>1, FS_Singleton
  <2> QED BY <1>1, <1>2, <1>4, <2>2 DEF InOnePlace
<1> QED BY <1>3, <1>4

-----------------------------------------------------------------------------
(* Moving a message leaves its Attempts as they are.                        *)
LEMMA CountAppend ==
    ASSUME NEW r, NEW s \in Seq(Message), NEW x \in Message, CountsSeq(r, s),
           r[x.id] = x.attempts
    PROVE  CountsSeq(r, Append(s, x))
<1> DEFINE t == Append(s, x)
<1>1. \A i \in DOMAIN t : (i \in DOMAIN s /\ t[i] = s[i]) \/ t[i] = x
    OBVIOUS
<1> HIDE DEF t
<1>2. CountsSeq(r, t)
    BY <1>1 DEF CountsSeq
<1> QED BY <1>2 DEF t

(* A message taken from the front.                                          *)
LEMMA CountTail ==
    ASSUME NEW r, NEW s \in Seq(Message), s # <<>>, CountsSeq(r, s)
    PROVE  CountsSeq(r, Tail(s)) /\ r[Head(s).id] = Head(s).attempts
<1> DEFINE t == Tail(s)
<1>1. /\ \A i \in DOMAIN t : i + 1 \in DOMAIN s /\ t[i] = s[i + 1]
      /\ 1 \in DOMAIN s /\ Head(s) = s[1]
    OBVIOUS
<1> HIDE DEF t
<1>2. CountsSeq(r, t) /\ r[Head(s).id] = Head(s).attempts
    BY <1>1 DEF CountsSeq
<1> QED BY <1>2 DEF t

(* A batch cut off.                                                         *)
LEMMA CountSplit ==
    ASSUME NEW r, NEW s \in Seq(Message), NEW n \in 1..Len(s), CountsSeq(r, s)
    PROVE  CountsSeq(r, SubSeq(s, 1, n)) /\ CountsSeq(r, SubSeq(s, n + 1, Len(s)))
<1> DEFINE f == SubSeq(s, 1, n)
           b == SubSeq(s, n + 1, Len(s))
<1>1. /\ \A i \in DOMAIN f : i \in DOMAIN s /\ f[i] = s[i]
      /\ \A i \in DOMAIN b : i + n \in DOMAIN s /\ b[i] = s[i + n]
    OBVIOUS
<1> HIDE DEF f, b
<1>2. CountsSeq(r, f) /\ CountsSeq(r, b)
    BY <1>1 DEF CountsSeq
<1> QED BY <1>2 DEF f, b

(* A batch sent to the wheel's channel, or received from it.                *)
LEMMA CountOut ==
    ASSUME NEW r, NEW s \in Seq(SUBSET Message), CountsOut(r, s)
    PROVE  /\ \A x \in SUBSET Message : CountsSet(r, x) => CountsOut(r, Append(s, x))
           /\ s # <<>> => CountsOut(r, Tail(s)) /\ CountsSet(r, Head(s))
<1>1. ASSUME NEW x \in SUBSET Message, CountsSet(r, x) PROVE CountsOut(r, Append(s, x))
  <2> DEFINE t == Append(s, x)
  <2>1. \A i \in DOMAIN t : (i \in DOMAIN s /\ t[i] = s[i]) \/ t[i] = x
      OBVIOUS
  <2> HIDE DEF t
  <2>2. CountsOut(r, t)
      BY <1>1, <2>1 DEF CountsOut
  <2> QED BY <2>2 DEF t
<1>2. ASSUME s # <<>> PROVE CountsOut(r, Tail(s)) /\ CountsSet(r, Head(s))
  <2> DEFINE t == Tail(s)
  <2>1. /\ \A i \in DOMAIN t : i + 1 \in DOMAIN s /\ t[i] = s[i + 1]
        /\ 1 \in DOMAIN s /\ Head(s) = s[1]
      BY <1>2
  <2> HIDE DEF t
  <2>2. CountsOut(r, t) /\ CountsSet(r, Head(s))
      BY <2>1 DEF CountsOut
  <2> QED BY <2>2 DEF t
<1> QED BY <1>1, <1>2

(* Nothing to count.                                                        *)
LEMMA CountNone == \A r : CountsSeq(r, <<>>) /\ CountsSet(r, {})
BY DEF CountsSeq, CountsSet

(* One message.                                                             *)
LEMMA CountOne == \A r, x : CountsSeq(r, <<x>>) <=> r[x.id] = x.attempts
BY DEF CountsSeq

(* Enqueue keeps the count.                                                 *)
LEMMA EnqueueCounts ==
    ASSUME TypeOK, NEW x \in Message, Enqueue(x), CountsSeq(runs, ring), runs[x.id] = x.attempts
    PROVE  CountsSeq(runs, ring')
<1>1. CASE ringClosed
    BY <1>1 DEF Enqueue
<1>2. CASE ~ringClosed
    BY <1>2, CountAppend DEF Enqueue, TypeOK
<1> QED BY <1>1, <1>2

(* So do Publish and Nack.                                                  *)
LEMMA DeliverCounts ==
    ASSUME TypeOK, NEW x \in Message, Deliver(x), CountsSeq(runs, mem), runs[x.id] = x.attempts
    PROVE  CountsSeq(runs, mem')
<1>1. CASE memClosed
    BY <1>1 DEF Deliver
<1>2. CASE ~memClosed
  <2>1. mem' = Append(mem, x) /\ mem \in Seq(Message)
      BY <1>2 DEF Deliver, TypeOK
  <2> QED BY <2>1, CountAppend
<1> QED BY <1>1, <1>2

(* A worker who is not to handle or to repeat anything counts nothing.      *)
LEMMA CurCounts ==
    ASSUME TypeOK, NEW w \in Workers, CountsCur(runs, worker, cur),
           \A v \in Workers \ {w} : worker'[v] = worker[v] /\ cur'[v] = cur[v],
           worker'[w] \in {"handle", "Retry", "RetryWithDelay"} => CountsSeq(runs, cur'[w])
    PROVE  CountsCur(runs, worker', cur')
BY DEF CountsCur

(* Running the handler of a message is seen where the message is.           *)
LEMMA HandleCounts ==
    ASSUME TypeOK, HandsEmpty, OnePlace, AttemptsCountRuns, RunsBounded,
           NEW w \in Workers, Handle(w)
    PROVE  AttemptsCountRuns' /\ RunsBounded'
<1> DEFINE x == cur[w][1]
           id == x.id
<1>1. x \in Message /\ id \in Msgs /\ DOMAIN cur[w] = {1} /\ worker[w] = "handle"
    BY BusyHolds DEF Handle
<1>2. HeldBy(worker, cur, w, id)
    BY <1>1 DEF HeldBy, HeldSeq
<1>3. HeldCur(worker, cur, id) /\ InOnePlace(id)
    BY <1>1, <1>2 DEF HeldCur, OnePlace
<1>4. /\ ~HeldSeq(mem, id) /\ ~HeldSeq(pbatch, id) /\ ~HeldSeq(ring, id)
      /\ ~HeldSet(wheel, id) /\ ~HeldSet(expired, id) /\ ~HeldOut(out, id)
      /\ ~HeldSet(tbatch, id) /\ ~HeldSet(rest, id) /\ ~HeldSeq(dbatch, id)
      /\ ~HeldSeq(kept, id) /\ ~HeldSeq(duplicates, id) /\ ~HeldSeq(work, id)
      /\ \A v \in Workers \ {w} : worker[v] = "mark" \/ ~HeldSeq(cur[v], id)
      /\ id \in published
  <2>1. PICK p : OnlyIn(id, p)
      BY <1>3 DEF InOnePlace
  <2>2. p = "worker" /\ Somewhere(id) /\ OnceCur(worker, cur, id)
      BY <1>3, <2>1 DEF OnlyIn, Somewhere, InOnePlace, OnceInEach
  <2>3. \A v \in Workers \ {w} : worker[v] = "mark" \/ ~HeldSeq(cur[v], id)
      BY <1>2, <2>2 DEF OnceCur, HeldBy
  <2>4. id \in published
      BY <1>3, <2>2 DEF InOnePlace
  <2> QED BY <2>1, <2>2, <2>3, <2>4 DEF OnlyIn
<1>5. /\ runs' = [runs EXCEPT ![id] = @ + 1]
      /\ UNCHANGED <<work, pend, ring, mem, poller, marked, acked, dead, succeeded, unmarked,
                     notWorker>>
    BY DEF Handle
<1>6. PICK a \in Ends \cup Repeats, k \in 0..Limit :
          /\ worker' = [worker EXCEPT ![w] = a]
          /\ cur' = [cur EXCEPT ![w] = <<[x EXCEPT !.attempts = k]>>]
          /\ a \in Repeats => k = x.attempts + 1
    BY HandleEffect
<1>7. runs[id] = x.attempts
    BY <1>1 DEF AttemptsCountRuns, CountsCur, CountsSeq
<1>8. runs'[id] = x.attempts + 1 /\ x.attempts \in 0..Limit
    BY <1>1, <1>5, <1>7, Parts DEF TypeOK
<1>9. \A m : m # id => runs'[m] = runs[m]
    BY <1>5 DEF TypeOK
<1> HIDE DEF x, id
<1>10. \A s : CountsSeq(runs, s) /\ ~HeldSeq(s, id) => CountsSeq(runs', s)
    BY <1>9 DEF CountsSeq, HeldSeq
<1>11. \A s : CountsSet(runs, s) /\ ~HeldSet(s, id) => CountsSet(runs', s)
    BY <1>9 DEF CountsSet, HeldSet
<1>12. CountsOut(runs', out)
    BY <1>4, <1>11 DEF CountsOut, HeldOut, AttemptsCountRuns
<1>13. CountsCur(runs', worker', cur')
  <2>1. ASSUME NEW v \in Workers, v # w, worker'[v] \in {"handle", "Retry", "RetryWithDelay"}
        PROVE  CountsSeq(runs', cur'[v])
    <3>1. worker'[v] = worker[v] /\ cur'[v] = cur[v]
        BY <1>6, <2>1 DEF TypeOK
    <3>2. CountsSeq(runs, cur[v]) /\ ~HeldSeq(cur[v], id)
        BY <1>4, <2>1, <3>1 DEF AttemptsCountRuns, CountsCur
    <3> QED BY <1>10, <3>1, <3>2
  <2>2. ASSUME worker'[w] \in {"handle", "Retry", "RetryWithDelay"}
        PROVE  CountsSeq(runs', cur'[w])
    <3>1. worker'[w] = a /\ cur'[w] = <<[x EXCEPT !.attempts = k]>>
        BY <1>6 DEF TypeOK
    <3>2. k = x.attempts + 1
        BY <1>6, <2>2, <3>1 DEF Ends, Repeats
    <3>3. [x EXCEPT !.attempts = k].id = id /\ [x EXCEPT !.attempts = k].attempts = k
        BY <1>1 DEF Message, id
    <3>4. runs'[[x EXCEPT !.attempts = k].id] = [x EXCEPT !.attempts = k].attempts
        BY <1>8, <3>2, <3>3
    <3> QED BY <3>1, <3>4, CountOne
  <2> QED BY <2>1, <2>2 DEF CountsCur
<1>14. \A m \in Msgs \ published : runs'[m] = 0
    BY <1>4, <1>9 DEF AttemptsCountRuns
<1>15. AttemptsCountRuns'
  <2>1. /\ CountsSeq(runs', mem) /\ CountsSeq(runs', pbatch) /\ CountsSeq(runs', ring)
        /\ CountsSeq(runs', dbatch) /\ CountsSeq(runs', kept) /\ CountsSeq(runs', duplicates)
        /\ CountsSeq(runs', work)
      BY <1>4, <1>10 DEF AttemptsCountRuns
  <2>2. /\ CountsSet(runs', wheel) /\ CountsSet(runs', expired) /\ CountsSet(runs', tbatch)
        /\ CountsSet(runs', rest)
      BY <1>4, <1>11 DEF AttemptsCountRuns
  <2> QED BY <1>5, <1>12, <1>13, <1>14, <2>1, <2>2 DEF AttemptsCountRuns
<1>16. RunsBounded'
    BY <1>8, <1>9, Numbers DEF RunsBounded
<1> QED BY <1>15, <1>16

(* Attempts follows the runs of the handler through every queue.            *)
LEMMA CountStep ==
    ASSUME TypeOK, HandsEmpty, OnePlace, AttemptsCountRuns, RunsBounded, Next
    PROVE  AttemptsCountRuns' /\ RunsBounded'
<1>1. CASE \E w \in Workers : Handle(w)
    BY <1>1, HandleCounts
<1>2. CASE ~\E w \in Workers : Handle(w)
  <2>1. runs' = runs
      BY <1>2 DEF Next, Publish, Cancel, PollFail, Expiry, MarkExpires, Poller, PollTop, PollLock,
                  PollWokenCancelled, PollHandle, Ticker, Tick, TickSend, TickStop, Timer,
                  TimerReceive, TimerEnqueue,
                  TimerStop, Run, RunSelect, RunDispWait, RunTimerWait, RunPollerWait,
                  RunPoolWait, RunDrain, RunRequeue, RunReturn, Dispatcher, DispTop, DispDequeue,
                  DispRecheck, DispAsk, DispFiltered, DispSubmit, DispWait, Worker, WorkerTake,
                  WorkerExit, WorkerAck, WorkerMark, WorkerRetry, WorkerNack, WorkerDLQ
  <2>2. RunsBounded'
      BY <2>1 DEF RunsBounded
  <2> SUFFICES AttemptsCountRuns'
      BY <2>2
  <2>3. ASSUME NEW m \in Msgs, Publish(m) PROVE AttemptsCountRuns'
    <3>1. /\ m \notin published /\ published \subseteq published' /\ Deliver(Fresh(m))
          /\ UNCHANGED <<ringVars, wheelVars, poolVars, runVars, pbatch, timerVars, dispVars>>
        BY <2>3 DEF Publish
    <3>2. Fresh(m) \in Message /\ Fresh(m).id = m /\ Fresh(m).attempts = 0
        BY FreshType DEF Fresh
    <3>3. runs[Fresh(m).id] = Fresh(m).attempts
        BY <3>1, <3>2 DEF AttemptsCountRuns
    <3>4. CountsSeq(runs, mem')
        BY <3>1, <3>2, <3>3, DeliverCounts DEF AttemptsCountRuns
    <3> QED BY <2>1, <3>1, <3>4 DEF AttemptsCountRuns
  <2>4. CASE Cancel \/ PollFail \/ Expiry \/ PollTop \/ PollWokenCancelled \/ TimerStop \/ DispTop
             \/ DispRecheck \/ DispWait \/ RunSelect \/ RunDispWait \/ RunTimerWait
             \/ RunPollerWait \/ RunPoolWait \/ RunReturn
    <3>1. UNCHANGED <<published, mem, pbatch, ring, wheel, expired, out, tbatch, rest, dbatch,
                      kept, duplicates, work, worker, cur>>
        BY <2>4 DEF Cancel, PollFail, Expiry, MarkExpires, PollTop, PollWokenCancelled,
                    TimerStop, DispTop,
                    DispRecheck, DispWait, RunSelect, RunDispWait, RunTimerWait, RunPollerWait,
                    RunPoolWait, RunReturn
    <3> QED BY <2>1, <3>1 DEF AttemptsCountRuns
  <2>5. CASE PollLock
    <3>1. /\ CountsSeq(runs, mem') /\ CountsSeq(runs, pbatch')
          /\ UNCHANGED <<ring, wheel, notPoller>>
        BY <2>5, CountNone DEF PollLock, Leftover, AttemptsCountRuns
    <3> QED BY <2>1, <3>1 DEF AttemptsCountRuns
  <2>6. CASE PollHandle
    <3> DEFINE x == Head(pbatch)
    <3>1. pbatch' = Tail(pbatch) /\ pbatch # <<>> /\ pbatch \in Seq(Message)
          /\ UNCHANGED <<mem, notPoller>>
        BY <2>6 DEF PollHandle, TypeOK
    <3>2. x \in Message /\ CountsSeq(runs, pbatch') /\ runs[x.id] = x.attempts
        BY <3>1, HeadTail, CountTail DEF AttemptsCountRuns
    <3>3. \/ UNCHANGED wheel /\ Enqueue(x)
          \/ UNCHANGED ring /\ wheel' \subseteq wheel \cup {x}
        BY <2>6 DEF PollHandle, Wheel!Insert
    <3>4. CountsSeq(runs, ring')
        BY <3>2, <3>3, EnqueueCounts DEF AttemptsCountRuns
    <3>5. CountsSet(runs, wheel')
        BY <3>2, <3>3 DEF AttemptsCountRuns, CountsSet
    <3> QED BY <2>1, <3>1, <3>2, <3>4, <3>5 DEF AttemptsCountRuns
  <2>7. CASE Tick \/ TickStop
    <3>1. /\ wheel' \subseteq wheel /\ (expired' \subseteq wheel \/ expired' = {})
          /\ UNCHANGED <<out, notTicker>>
        BY <2>7 DEF Tick, TickStop, Wheel!Expire, Wheel!Stop
    <3>2. CountsSet(runs, wheel') /\ CountsSet(runs, expired')
        BY <3>1 DEF AttemptsCountRuns, CountsSet
    <3> QED BY <2>1, <3>1, <3>2 DEF AttemptsCountRuns
  <2>8. CASE TickSend
    <3>1. expired' = {} /\ out' = Append(out, expired) /\ UNCHANGED <<wheel, notTicker>>
        BY <2>8 DEF TickSend, Wheel!Send
    <3>2. CountsSet(runs, expired') /\ CountsOut(runs, out')
        BY <3>1, CountNone, CountOut DEF AttemptsCountRuns, TypeOK
    <3> QED BY <2>1, <3>1, <3>2 DEF AttemptsCountRuns
  <2>9. CASE TimerReceive
    <3>1. /\ tbatch' = Head(out) /\ out' = Tail(out) /\ out # <<>>
          /\ UNCHANGED <<ring, notTimer>>
        BY <2>9 DEF TimerReceive
    <3>2. CountsSet(runs, tbatch') /\ CountsOut(runs, out')
        BY <3>1, CountOut DEF AttemptsCountRuns, TypeOK
    <3> QED BY <2>1, <3>1, <3>2 DEF AttemptsCountRuns
  <2>10. CASE TimerEnqueue
    <3>1. PICK x \in tbatch : Enqueue(x) /\ tbatch' = tbatch \ {x}
        BY <2>10 DEF TimerEnqueue
    <3>2. UNCHANGED <<out, notTimer>>
        BY <2>10 DEF TimerEnqueue
    <3>3. x \in Message /\ runs[x.id] = x.attempts /\ CountsSet(runs, tbatch')
        BY <3>1 DEF AttemptsCountRuns, TypeOK, CountsSet
    <3>4. CountsSeq(runs, ring')
        BY <3>1, <3>3, EnqueueCounts DEF AttemptsCountRuns
    <3> QED BY <2>1, <3>2, <3>3, <3>4 DEF AttemptsCountRuns
  <2>11. CASE DispDequeue
    <3> DEFINE n == Least(Len(ring), IF draining THEN DrainMax ELSE BatchMax)
    <3>1. n \in Nat /\ n <= Len(ring) /\ ring \in Seq(Message)
        BY PipelineAssumption DEF TypeOK, Least
    <3> HIDE DEF n
    <3>2. UNCHANGED <<filtered, draining, work, pend, acked, unanswered, notDispatcher>>
        BY <2>11 DEF DispDequeue
    <3>3. CASE n = 0
      <4>1. UNCHANGED <<ring, dbatch>>
          BY <2>11, <3>3 DEF DispDequeue, n
      <4> QED BY <2>1, <3>2, <4>1 DEF AttemptsCountRuns
    <3>4. CASE n # 0
      <4>1. dbatch' = SubSeq(ring, 1, n) /\ ring' = SubSeq(ring, n + 1, Len(ring))
          BY <2>11, <3>4 DEF DispDequeue, n
      <4>2. n \in 1..Len(ring) /\ CountsSeq(runs, ring)
          BY <3>1, <3>4 DEF AttemptsCountRuns
      <4>3. CountsSeq(runs, dbatch') /\ CountsSeq(runs, ring')
          BY <3>1, <4>1, <4>2, CountSplit
      <4> QED BY <2>1, <3>2, <4>3 DEF AttemptsCountRuns
    <3> QED BY <3>3, <3>4
  <2>12. CASE DispAsk
    <3> DEFINE x == Head(dbatch)
    <3>1. /\ dbatch' = Tail(dbatch) /\ dbatch # <<>> /\ dbatch \in Seq(Message)
          /\ UNCHANGED <<disp, draining, ring, work, pend, acked, together, notDispatcher>>
        BY <2>12 DEF DispAsk, TypeOK
    <3>2. x \in Message /\ CountsSeq(runs, dbatch') /\ runs[x.id] = x.attempts
        BY <3>1, HeadTail, CountTail DEF AttemptsCountRuns
    <3>3. \/ duplicates' = Append(duplicates, x) /\ UNCHANGED kept
          \/ kept' = Append(kept, x) /\ UNCHANGED duplicates
        BY <2>12 DEF DispAsk
    <3> HIDE DEF x
    <3>4. CountsSeq(runs, kept') /\ CountsSeq(runs, duplicates')
      <4>1. /\ kept \in Seq(Message) /\ duplicates \in Seq(Message)
            /\ CountsSeq(runs, kept) /\ CountsSeq(runs, duplicates)
          BY DEF TypeOK, AttemptsCountRuns
      <4>2. CountsSeq(runs, Append(kept, x)) /\ CountsSeq(runs, Append(duplicates, x))
          BY <3>2, <4>1, CountAppend
      <4> QED BY <3>3, <4>1, <4>2
    <3> QED BY <2>1, <3>1, <3>2, <3>4 DEF AttemptsCountRuns
  <2>13. CASE DispFiltered
    <3>1. /\ dbatch' = kept /\ kept' = <<>> /\ duplicates' = <<>>
          /\ UNCHANGED <<draining, ring, work, pend, together, unanswered, notDispatcher>>
        BY <2>13 DEF DispFiltered
    <3>2. CountsSeq(runs, kept') /\ CountsSeq(runs, duplicates')
        BY <3>1, CountNone
    <3> QED BY <2>1, <3>1, <3>2 DEF AttemptsCountRuns
  <2>14. CASE DispSubmit
    <3> DEFINE x == Head(dbatch)
    <3>1. /\ dbatch' = Tail(dbatch) /\ dbatch # <<>> /\ dbatch \in Seq(Message)
          /\ work' = Append(work, x) /\ work \in Seq(Message)
          /\ UNCHANGED <<disp, filtered, draining, ring, notDispatcher>>
        BY <2>14 DEF DispSubmit, TypeOK
    <3>2. x \in Message /\ CountsSeq(runs, dbatch') /\ runs[x.id] = x.attempts
        BY <3>1, HeadTail, CountTail DEF AttemptsCountRuns
    <3>3. CountsSeq(runs, work')
        BY <3>1, <3>2, CountAppend DEF AttemptsCountRuns
    <3> QED BY <2>1, <3>1, <3>2, <3>3 DEF AttemptsCountRuns
  <2>15. ASSUME NEW w \in Workers, WorkerTake(w) PROVE AttemptsCountRuns'
    <3> DEFINE x == Head(work)
    <3>1. /\ work' = Tail(work) /\ work # <<>> /\ work \in Seq(Message)
          /\ UNCHANGED <<ring, mem, notWorker>>
        BY <2>15 DEF WorkerTake, TypeOK
    <3>2. CountsSeq(runs, work') /\ runs[x.id] = x.attempts
        BY <3>1, CountTail DEF AttemptsCountRuns
    <3>3. /\ cur'[w] = <<x>>
          /\ \A v \in Workers \ {w} : worker'[v] = worker[v] /\ cur'[v] = cur[v]
        BY <2>15 DEF WorkerTake, TypeOK
    <3>4. CountsSeq(runs, cur'[w])
        BY <3>2, <3>3, CountOne
    <3>5. CountsCur(runs, worker', cur')
        BY <3>3, <3>4, CurCounts DEF AttemptsCountRuns
    <3> QED BY <2>1, <3>1, <3>2, <3>5 DEF AttemptsCountRuns
  <2>16. ASSUME NEW w \in Workers,
                WorkerExit(w) \/ WorkerAck(w) \/ WorkerMark(w) \/ WorkerRetry(w)
                    \/ WorkerNack(w) \/ WorkerDLQ(w)
         PROVE  AttemptsCountRuns'
    <3>1. /\ worker'[w] \in {"idle", "exited", "mark"} /\ UNCHANGED <<work, notWorker>>
          /\ \A v \in Workers \ {w} : worker'[v] = worker[v] /\ cur'[v] = cur[v]
        BY <2>16 DEF WorkerExit, WorkerAck, WorkerMark, WorkerRetry, WorkerNack, WorkerDLQ,
                     Finish, TypeOK
    <3>2. CountsCur(runs, worker', cur')
        BY <3>1, CurCounts DEF AttemptsCountRuns
    <3>3. CASE WorkerExit(w) \/ WorkerAck(w) \/ WorkerMark(w) \/ WorkerDLQ(w)
      <4>1. UNCHANGED <<ring, mem>>
          BY <3>3 DEF WorkerExit, WorkerAck, WorkerMark, WorkerDLQ
      <4> QED BY <2>1, <3>1, <3>2, <4>1 DEF AttemptsCountRuns
    <3>4. CASE WorkerRetry(w)
      <4>1. cur[w][1] \in Message /\ DOMAIN cur[w] = {1}
          BY <3>4, BusyHolds DEF WorkerRetry
      <4>2. runs[cur[w][1].id] = cur[w][1].attempts
          BY <3>4, <4>1 DEF WorkerRetry, AttemptsCountRuns, CountsCur, CountsSeq
      <4>3. CountsSeq(runs, ring') /\ UNCHANGED mem
          BY <3>4, <4>1, <4>2, EnqueueCounts DEF WorkerRetry, AttemptsCountRuns
      <4> QED BY <2>1, <3>1, <3>2, <4>3 DEF AttemptsCountRuns
    <3>5. CASE WorkerNack(w)
      <4>1. cur[w][1] \in Message /\ DOMAIN cur[w] = {1}
          BY <3>5, BusyHolds DEF WorkerNack
      <4>2. runs[cur[w][1].id] = cur[w][1].attempts
          BY <3>5, <4>1 DEF WorkerNack, AttemptsCountRuns, CountsCur, CountsSeq
      <4>3. CountsSeq(runs, mem') /\ UNCHANGED ring
          BY <3>5, <4>1, <4>2, DeliverCounts DEF WorkerNack, Nack, AttemptsCountRuns
      <4> QED BY <2>1, <3>1, <3>2, <4>3 DEF AttemptsCountRuns
    <3> QED BY <2>16, <3>3, <3>4, <3>5
  <2>17. CASE RunDrain
    <3>1. rest' = wheel /\ wheel' = {} /\ UNCHANGED <<ringVars, notRun>>
        BY <2>17 DEF RunDrain, Wheel!Drain
    <3>2. CountsSet(runs, rest') /\ CountsSet(runs, wheel')
        BY <3>1, CountNone DEF AttemptsCountRuns
    <3> QED BY <2>1, <3>1, <3>2 DEF AttemptsCountRuns
  <2>18. CASE RunRequeue
    <3>1. PICK x \in rest : Enqueue(x) /\ rest' = rest \ {x}
        BY <2>18 DEF RunRequeue
    <3>2. UNCHANGED <<wheel, notRun>>
        BY <2>18 DEF RunRequeue
    <3>3. x \in Message /\ runs[x.id] = x.attempts /\ CountsSet(runs, rest')
        BY <3>1 DEF AttemptsCountRuns, TypeOK, CountsSet
    <3>4. CountsSeq(runs, ring')
        BY <3>1, <3>3, EnqueueCounts DEF AttemptsCountRuns
    <3> QED BY <2>1, <3>2, <3>3, <3>4 DEF AttemptsCountRuns
  <2> QED BY <1>2, <2>3, <2>4, <2>5, <2>6, <2>7, <2>8, <2>9, <2>10, <2>11, <2>12, <2>13,
             <2>14, <2>15, <2>16, <2>17, <2>18
          DEF Next, Poller, Ticker, Timer, Dispatcher, Worker, Run
<1> QED BY <1>1, <1>2

-----------------------------------------------------------------------------
(* Who acknowledges has processed the message, sent it to the DLQ, or knows *)
(* of another with its key that was processed.                              *)
LEMMA AckStep ==
    ASSUME TypeOK, HandsEmpty, AckJustified, AckedWasProcessed, Next
    PROVE  AckJustified' /\ AckedWasProcessed'
<1>1. ASSUME marked' \subseteq marked,
             UNCHANGED <<duplicates, unanswered, worker, cur, acked, dead, succeeded>>
      PROVE  AckJustified' /\ AckedWasProcessed'
    BY <1>1 DEF AckJustified, AckedWasProcessed, KeyDone
<1>2. CASE (\E m \in Msgs : Publish(m)) \/ Cancel \/ PollFail \/ Expiry \/ Poller
           \/ Ticker \/ Timer \/ Run
           \/ DispTop \/ DispDequeue \/ DispRecheck \/ DispSubmit \/ DispWait
  <2>1. /\ marked' \subseteq marked
        /\ UNCHANGED <<duplicates, unanswered, worker, cur, acked, dead, succeeded>>
      BY <1>2 DEF Publish, Cancel, PollFail, Expiry, MarkExpires, Poller, PollTop, PollLock,
                  PollWokenCancelled, PollHandle, Ticker, Tick, TickSend, TickStop, Timer,
                  TimerReceive, TimerEnqueue,
                  TimerStop, Run, RunSelect, RunDispWait, RunTimerWait, RunPollerWait,
                  RunPoolWait, RunDrain, RunRequeue, RunReturn, DispTop, DispDequeue,
                  DispRecheck, DispSubmit, DispWait
  <2> QED BY <1>1, <2>1
<1>3. CASE DispAsk
  <2> DEFINE x == Head(dbatch)
  <2>1. /\ UNCHANGED <<marked, worker, cur, acked, dead, succeeded>>
        /\ dbatch # <<>> /\ dbatch \in Seq(Message)
      BY <1>3 DEF DispAsk, TypeOK
  <2>2. x \in Message /\ x.id \in Msgs
      BY <2>1, HeadTail, Parts
  <2>3. PICK err \in Errors(x) :
            /\ IF IsDuplicate(x, err)
                 THEN duplicates' = Append(duplicates, x) /\ UNCHANGED kept
                 ELSE kept' = Append(kept, x) /\ UNCHANGED duplicates
            /\ unanswered' = IF err THEN unanswered \cup {x.id} ELSE unanswered
      BY <1>3 DEF DispAsk
  <2>4. unanswered \subseteq unanswered'
      BY <2>3
  <2>5. AckedWasProcessed'
      BY <2>1, <2>4 DEF AckedWasProcessed
  <2>6. succeeded' = succeeded
      BY <2>1
  <2> HIDE DEF x
  <2>7. \A i \in DOMAIN duplicates' :
            duplicates'[i].id \in unanswered' \/ KeyDone(succeeded, duplicates'[i].id)
    <3>1. CASE IsDuplicate(x, err)
      <4>1. x.id \in unanswered' \/ KeyDone(succeeded, x.id)
        <5>1. CASE err
            BY <2>3, <5>1
        <5>2. CASE ~err
            BY <2>2, <3>1, <5>2 DEF IsDuplicate, AckJustified
        <5> QED BY <5>1, <5>2
      <4>2. duplicates' = Append(duplicates, x) /\ duplicates \in Seq(Message)
          BY <2>3, <3>1 DEF TypeOK
      <4>3. \A i \in DOMAIN duplicates' :
                \/ i \in DOMAIN duplicates /\ duplicates'[i] = duplicates[i]
                \/ duplicates'[i] = x
          BY <2>2, <4>2
      <4> QED BY <2>4, <4>1, <4>3 DEF AckJustified
    <3>2. CASE ~IsDuplicate(x, err)
        BY <2>3, <2>4, <3>2 DEF AckJustified
    <3> QED BY <3>1, <3>2
  <2>8. AckJustified'
      BY <2>1, <2>6, <2>7 DEF AckJustified
  <2> QED BY <2>5, <2>8
<1>4. CASE DispFiltered
  <2>1. /\ acked' = acked \cup {duplicates[i].id : i \in DOMAIN duplicates}
        /\ duplicates' = <<>>
        /\ UNCHANGED <<marked, unanswered, worker, cur, dead, succeeded>>
      BY <1>4 DEF DispFiltered
  <2>2. AckJustified'
      BY <2>1 DEF AckJustified, KeyDone
  <2>3. \A i \in DOMAIN duplicates :
            duplicates[i].id \in unanswered \/ KeyDone(succeeded, duplicates[i].id)
      BY DEF AckJustified
  <2>4. ASSUME NEW m \in acked' \ unanswered'
        PROVE  \/ m \in dead
               \/ \E n \in succeeded : n = m \/ (Key[n] = Key[m] /\ Key[m] # NoKey)
    <3>1. CASE m \in acked
        BY <2>1, <2>4, <3>1 DEF AckedWasProcessed
    <3>2. CASE m \notin acked
        BY <2>1, <2>3, <2>4, <3>2 DEF KeyDone
    <3> QED BY <3>1, <3>2
  <2>5. AckedWasProcessed'
      BY <2>1, <2>4 DEF AckedWasProcessed
  <2> QED BY <2>2, <2>5
<1>5. ASSUME NEW w \in Workers, Worker(w) PROVE AckJustified' /\ AckedWasProcessed'
  <2> DEFINE id == cur[w][1].id
  <2>1. UNCHANGED <<duplicates, unanswered>> /\ succeeded \subseteq succeeded'
      BY <1>5 DEF Worker, WorkerTake, WorkerExit, Handle, WorkerAck, WorkerMark, WorkerRetry,
                  WorkerNack, WorkerDLQ
  <2>2. \A m : KeyDone(succeeded, m) => KeyDone(succeeded', m)
      BY <2>1 DEF KeyDone
  <2>3. \A i \in DOMAIN duplicates' :
            duplicates'[i].id \in unanswered' \/ KeyDone(succeeded', duplicates'[i].id)
      BY <2>1, <2>2 DEF AckJustified
  <2>4. \A v \in Workers : worker[v] = "mark" => cur[v][1].id \in succeeded'
      BY <2>1 DEF AckJustified
  <2>5. CASE WorkerTake(w) \/ WorkerExit(w) \/ Handle(w) \/ WorkerRetry(w) \/ WorkerNack(w)
    <3>1. UNCHANGED <<marked, acked, dead, succeeded>>
        BY <2>5 DEF WorkerTake, WorkerExit, Handle, WorkerRetry, WorkerNack
    <3>2. /\ worker'[w] # "mark"
          /\ \A v \in Workers \ {w} : worker'[v] = worker[v] /\ cur'[v] = cur[v]
      <4>1. CASE Handle(w)
        <5>1. PICK a \in Ends \cup Repeats, k \in 0..Limit :
                  /\ worker' = [worker EXCEPT ![w] = a]
                  /\ cur' = [cur EXCEPT ![w] = <<[cur[w][1] EXCEPT !.attempts = k]>>]
            BY <4>1, HandleEffect
        <5> QED BY <5>1 DEF TypeOK, Ends, Repeats
      <4>2. CASE WorkerTake(w) \/ WorkerExit(w) \/ WorkerRetry(w) \/ WorkerNack(w)
          BY <4>2 DEF WorkerTake, WorkerExit, WorkerRetry, WorkerNack, Finish, TypeOK
      <4> QED BY <2>5, <4>1, <4>2
    <3>3. \A v \in Workers : worker'[v] = "mark" => cur'[v][1].id \in succeeded'
        BY <2>4, <3>2
    <3>4. \A m \in Msgs : Key[m] \in marked' => KeyDone(succeeded', m)
        BY <2>2, <3>1 DEF AckJustified
    <3>5. AckJustified'
        BY <2>3, <3>3, <3>4 DEF AckJustified
    <3>6. AckedWasProcessed'
        BY <2>1, <3>1 DEF AckedWasProcessed
    <3> QED BY <3>5, <3>6
  <2>6. CASE WorkerAck(w)
    <3>1. /\ acked' = acked \cup {id} /\ succeeded' = succeeded \cup {id}
          /\ UNCHANGED <<marked, dead, cur>>
          /\ worker' = [worker EXCEPT ![w] = "mark"]
        BY <2>6 DEF WorkerAck
    <3>2. \A v \in Workers : worker'[v] = "mark" => cur'[v][1].id \in succeeded'
        BY <2>4, <3>1 DEF TypeOK
    <3>3. \A m \in Msgs : Key[m] \in marked' => KeyDone(succeeded', m)
        BY <2>2, <3>1 DEF AckJustified
    <3>4. AckJustified'
        BY <2>3, <3>2, <3>3 DEF AckJustified
    <3>5. AckedWasProcessed'
        BY <2>1, <3>1 DEF AckedWasProcessed
    <3> QED BY <3>4, <3>5
  <2>7. CASE WorkerMark(w)
    <3>1. UNCHANGED <<acked, dead, succeeded>> /\ worker[w] = "mark"
        BY <2>7 DEF WorkerMark
    <3>2. id \in succeeded /\ marked' \subseteq marked \cup ({Key[id]} \ {NoKey})
        BY <2>7, <3>1 DEF WorkerMark, MarkKey, AckJustified
    <3>3. \A m \in Msgs : Key[m] \in marked' => KeyDone(succeeded', m)
        BY <2>2, <3>1, <3>2 DEF AckJustified, KeyDone
    <3>4. /\ worker'[w] # "mark"
          /\ \A v \in Workers \ {w} : worker'[v] = worker[v] /\ cur'[v] = cur[v]
        BY <2>7 DEF WorkerMark, Finish, TypeOK
    <3>5. \A v \in Workers : worker'[v] = "mark" => cur'[v][1].id \in succeeded'
        BY <2>4, <3>4
    <3>6. AckJustified'
        BY <2>3, <3>3, <3>5 DEF AckJustified
    <3>7. AckedWasProcessed'
        BY <2>1, <3>1 DEF AckedWasProcessed
    <3> QED BY <3>6, <3>7
  <2>8. CASE WorkerDLQ(w)
    <3>1. /\ acked' = acked \cup {id} /\ dead' = dead \cup {id} /\ UNCHANGED <<marked, succeeded>>
        BY <2>8 DEF WorkerDLQ, DeadLetter
    <3>2. /\ worker'[w] # "mark"
          /\ \A v \in Workers \ {w} : worker'[v] = worker[v] /\ cur'[v] = cur[v]
        BY <2>8 DEF WorkerDLQ, Finish, TypeOK
    <3>3. \A v \in Workers : worker'[v] = "mark" => cur'[v][1].id \in succeeded'
        BY <2>4, <3>2
    <3>4. \A m \in Msgs : Key[m] \in marked' => KeyDone(succeeded', m)
        BY <2>2, <3>1 DEF AckJustified
    <3>5. AckJustified'
        BY <2>3, <3>3, <3>4 DEF AckJustified
    <3>6. AckedWasProcessed'
        BY <2>1, <3>1 DEF AckedWasProcessed
    <3> QED BY <3>5, <3>6
  <2> QED BY <1>5, <2>5, <2>6, <2>7, <2>8 DEF Worker
<1> QED BY <1>2, <1>3, <1>4, <1>5 DEF Next, Dispatcher

-----------------------------------------------------------------------------
(* While the dispatcher is not submitting, the pool has nothing.            *)
LEMMA PoolEmpty ==
    ASSUME TypeOK, HandsEmpty, OneBatchAtATime, disp # "submit"
    PROVE  \A m : ~HeldSeq(work, m) /\ ~HeldCur(worker, cur, m) /\ ~Marking(m)
<1>1. pend = 0 /\ Len(work) \in Nat /\ Cardinality(Busy) \in Nat /\ IsFiniteSet(Busy)
    BY BusyFinite DEF OneBatchAtATime, TypeOK
<1>2. Len(work) = 0 /\ Cardinality(Busy) = 0
    BY <1>1 DEF OneBatchAtATime
<1>3. Busy = {}
    BY <1>1, <1>2, FS_EmptySet
<1>4. work = <<>>
    BY <1>2, NoneLeft DEF TypeOK
<1>5. \A w \in Workers : worker[w] \in {"idle", "exited"} /\ cur[w] = <<>>
    BY <1>3 DEF Busy, HandsEmpty
<1>6. \A m : ~HeldSeq(work, m)
    BY <1>4, HeldNone
<1>7. \A w \in Workers : \A m : ~HeldSeq(cur[w], m)
    BY <1>5, HeldNone
<1> QED BY <1>6, <1>7 DEF HeldCur, HeldBy, Marking

(* Two messages of a batch that have one key form a pair of it.             *)
LEMMA PairOf ==
    ASSUME NEW S, NEW m \in S, NEW n \in S, m # n, Key[m] = Key[n]
    PROVE  {m, n} \in Alike(S)
<1>1. IsFiniteSet({m}) /\ Cardinality({m}) = 1
    BY FS_Singleton
<1>2. Cardinality({m} \cup {n}) = 2
    BY <1>1, FS_AddElement
<1>3. {m} \cup {n} = {m, n}
    OBVIOUS
<1> QED BY <1>2, <1>3 DEF Alike, kSubset

(* What a message needs to pass the filter.                                 *)
MayPass(m) ==
    \A n \in succeeded :
        m # n /\ Key[m] = Key[n] /\ Key[m] # NoKey
            => {m, n} \in together \/ Key[m] \in unmarked

(* Steps that succeed with no message and start no batch: marks may be made *)
(* or expire, and a message may pass the filter with good reason.           *)
LEMMA FilterKept ==
    ASSUME TypeOK, FilterHolds, DuplicatesOnlyWithinBatch,
           UNCHANGED <<succeeded, together>>, acked \subseteq acked',
           marked \subseteq marked' \cup unmarked', unmarked \subseteq unmarked',
           \A m \in Msgs :
             /\ InBatch(m)' => InBatch(m)
             /\ Marking(m)' => Marking(m)
             /\ Marking(m) /\ Key[m] # NoKey =>
                    Marking(m)' \/ Key[m] \in marked' \cup unmarked'
             /\ Passed(m)' => Passed(m) \/ MayPass(m)
    PROVE  FilterHolds' /\ DuplicatesOnlyWithinBatch'
<1>1. (succeeded \subseteq acked)'
    BY DEF FilterHolds
<1>2. ASSUME NEW m \in succeeded', Key[m] # NoKey
      PROVE  Marking(m)' \/ Key[m] \in marked' \cup unmarked'
    BY <1>2 DEF FilterHolds, TypeOK
<1>3. ASSUME NEW m \in Msgs, NEW n \in Msgs, m # n, Key[m] = Key[n], InBatch(m)',
             InBatch(n)' \/ Marking(n)'
      PROVE  {m, n} \in together'
    BY <1>3 DEF FilterHolds
<1>4. ASSUME NEW m \in Msgs, NEW n \in succeeded', m # n, Passed(m)', Key[m] = Key[n],
             Key[m] # NoKey
      PROVE  {m, n} \in together' \/ Key[m] \in unmarked'
    BY <1>4 DEF FilterHolds, MayPass
<1>5. FilterHolds'
    BY <1>1, <1>2, <1>3, <1>4 DEF FilterHolds
<1>6. DuplicatesOnlyWithinBatch'
    BY DEF DuplicatesOnlyWithinBatch
<1> QED BY <1>5, <1>6

(* A batch is dequeued: its messages are together, and they are not among   *)
(* those that have succeeded, which are acknowledged.                       *)
LEMMA DequeueFilter ==
    ASSUME TypeOK, HandsEmpty, OneBatchAtATime, OnePlace, FilterHolds,
           DuplicatesOnlyWithinBatch, DispDequeue
    PROVE  FilterHolds' /\ DuplicatesOnlyWithinBatch'
<1> DEFINE n == Least(Len(ring), IF draining THEN DrainMax ELSE BatchMax)
<1>1. n \in Nat /\ n <= Len(ring) /\ ring \in Seq(Message)
    BY PipelineAssumption DEF TypeOK, Least
<1>2. /\ UNCHANGED <<filtered, draining, work, pend, acked, unanswered, notDispatcher>>
      /\ disp = "poll"
    BY DEF DispDequeue
<1>3. CASE n = 0
  <2>1. UNCHANGED <<ring, dbatch, together>> /\ disp' # "submit"
      BY <1>3 DEF DispDequeue
  <2>2. \A m \in Msgs : /\ InBatch(m)' => InBatch(m)
                        /\ Marking(m)' <=> Marking(m)
                        /\ Passed(m)' => Passed(m)
      BY <1>2, <2>1 DEF InBatch, Passed, Marking
  <2> QED BY <1>2, <2>1, <2>2, FilterKept
<1>4. CASE n # 0
  <2> DEFINE batch == {ring[i].id : i \in 1..n}
  <2>1. /\ dbatch' = SubSeq(ring, 1, n) /\ disp' = "filter"
        /\ together' = {pair \in together : pair \cap batch = {}} \cup Alike(batch)
      BY <1>4 DEF DispDequeue
  <2>2. \A m : HeldSeq(dbatch', m) <=> m \in batch
      BY <1>1, <1>4, <2>1, HeldSplit
  <2>3. \A m \in batch : HeldSeq(ring, m)
      BY <1>1, <1>4, <2>1, <2>2, HeldSplit
  <2>4. \A m : ~HeldSeq(work, m) /\ ~HeldCur(worker, cur, m) /\ ~Marking(m)
      BY <1>2, PoolEmpty
  <2>5. kept = <<>> /\ duplicates = <<>>
      BY <1>2 DEF HandsEmpty
  <2>6. \A m : ~HeldSeq(kept, m) /\ ~HeldSeq(duplicates, m)
      BY <2>5, HeldNone
  <2> HIDE DEF n, batch
  <2>7. \A m \in Msgs : ~Passed(m)' /\ ~Marking(m)' /\ (InBatch(m)' <=> m \in batch)
      BY <1>2, <2>1, <2>2, <2>4, <2>6 DEF Passed, Marking, InBatch
  <2>8. \A m \in succeeded : m \notin batch
    <3> SUFFICES ASSUME NEW m \in succeeded, m \in batch PROVE FALSE
        OBVIOUS
    <3>1. m \in Msgs /\ m \in acked /\ HeldSeq(ring, m)
        BY <2>3 DEF FilterHolds, TypeOK
    <3>2. PICK p : OnlyIn(m, p)
        BY <3>1 DEF OnePlace, InOnePlace
    <3>3. p = "ring" /\ p = "acked"
        BY <3>1, <3>2 DEF OnlyIn
    <3> QED BY <3>3
  <2>9. ASSUME NEW m \in Msgs, NEW k \in Msgs, m # k, Key[m] = Key[k], InBatch(m)',
               InBatch(k)' \/ Marking(k)'
        PROVE  {m, k} \in together'
      BY <2>1, <2>7, <2>9, PairOf
  <2>10. (succeeded \subseteq acked)'
      BY <1>2 DEF FilterHolds
  <2>11. \A m \in succeeded' : Key[m] # NoKey => Key[m] \in (marked \cup unmarked)'
      BY <1>2, <2>4 DEF FilterHolds
  <2>12. FilterHolds'
      BY <2>7, <2>9, <2>10, <2>11 DEF FilterHolds
  <2>13. \A m, k \in succeeded : {m, k} \in together => {m, k} \in together'
      BY <2>1, <2>8
  <2>14. DuplicatesOnlyWithinBatch'
      BY <1>2, <2>13 DEF DuplicatesOnlyWithinBatch
  <2> QED BY <2>12, <2>14
<1> QED BY <1>3, <1>4

(* The rest of the dispatcher's steps.                                      *)
LEMMA DispatcherFilter ==
    ASSUME TypeOK, HandsEmpty, OneBatchAtATime, OnePlace, FilterHolds,
           DuplicatesOnlyWithinBatch, Dispatcher
    PROVE  FilterHolds' /\ DuplicatesOnlyWithinBatch'
<1>1. CASE DispDequeue
    BY <1>1, DequeueFilter
<1>2. CASE DispTop \/ DispRecheck \/ DispWait
  <2>1. /\ disp' # "submit"
        /\ UNCHANGED <<dbatch, filtered, work, acked, together, notDispatcher>>
      BY <1>2 DEF DispTop, DispRecheck, DispWait, DispDone
  <2>2. \A m \in Msgs : /\ InBatch(m)' => InBatch(m)
                        /\ Marking(m)' <=> Marking(m)
                        /\ Passed(m)' => Passed(m)
      BY <2>1 DEF InBatch, Passed, Marking
  <2> QED BY <2>1, <2>2, FilterKept
<1>3. CASE DispAsk
  <2> DEFINE x == Head(dbatch)
  <2>1. /\ dbatch' = Tail(dbatch) /\ dbatch # <<>> /\ dbatch \in Seq(Message)
        /\ disp = "filter"
        /\ UNCHANGED <<disp, draining, ring, work, pend, acked, together, notDispatcher>>
      BY <1>3 DEF DispAsk, TypeOK
  <2>2. x \in Message /\ x.id \in Msgs
      BY <2>1, HeadTail, Parts
  <2>3. PICK err \in Errors(x) :
            IF IsDuplicate(x, err)
              THEN duplicates' = Append(duplicates, x) /\ UNCHANGED kept
              ELSE kept' = Append(kept, x) /\ UNCHANGED duplicates
      BY <1>3 DEF DispAsk
  <2>4. \A m : HeldSeq(dbatch, m) <=> HeldSeq(dbatch', m) \/ x.id = m
      BY <2>1, HeldTail
  <2>5. \A m : ~Marking(m)
      BY <2>1, PoolEmpty
  <2> HIDE DEF x
  <2>6. ASSUME ~IsDuplicate(x, err) PROVE MayPass(x.id)
    <3> SUFFICES ASSUME NEW n \in succeeded, Key[x.id] = Key[n], Key[x.id] # NoKey
                 PROVE  Key[x.id] \in unmarked
        BY DEF MayPass
    <3>1. Key[n] \in marked \cup unmarked
        BY <2>5 DEF FilterHolds
    <3>2. Key[x.id] \notin marked
        BY <2>6 DEF IsDuplicate
    <3> QED BY <3>1, <3>2
  <2>7. ASSUME NEW m
        PROVE  /\ HeldSeq(kept', m) \/ HeldSeq(duplicates', m) =>
                    HeldSeq(kept, m) \/ HeldSeq(duplicates, m) \/ x.id = m
               /\ HeldSeq(kept', m) => HeldSeq(kept, m) \/ (x.id = m /\ MayPass(x.id))
    <3>1. kept \in Seq(Message) /\ duplicates \in Seq(Message)
        BY DEF TypeOK
    <3>2. /\ HeldSeq(Append(kept, x), m) <=> HeldSeq(kept, m) \/ x.id = m
          /\ HeldSeq(Append(duplicates, x), m) <=> HeldSeq(duplicates, m) \/ x.id = m
        BY <2>2, <3>1, HeldAppend
    <3> QED BY <2>3, <2>6, <3>2
  <2>8. ASSUME NEW m \in Msgs
        PROVE  /\ InBatch(m)' => InBatch(m)
               /\ Marking(m)' <=> Marking(m)
               /\ Passed(m)' => Passed(m) \/ MayPass(m)
    <3>1. Passed(m)' => Passed(m) \/ MayPass(m)
        BY <2>1, <2>7 DEF Passed
    <3>2. InBatch(m)' => InBatch(m)
        BY <2>1, <2>4, <2>7 DEF Passed, InBatch
    <3>3. Marking(m)' <=> Marking(m)
        BY <2>1 DEF Marking
    <3> QED BY <3>1, <3>2, <3>3
  <2> QED BY <2>1, <2>8, FilterKept
<1>4. CASE DispFiltered
  <2>1. /\ dbatch = <<>> /\ dbatch' = kept /\ kept' = <<>> /\ duplicates' = <<>>
        /\ acked \subseteq acked'
        /\ UNCHANGED <<work, together, notDispatcher>>
      BY <1>4 DEF DispFiltered
  <2>2. \A m \in Msgs : /\ InBatch(m)' => InBatch(m)
                        /\ Marking(m)' <=> Marking(m)
                        /\ Passed(m)' => Passed(m)
      BY <2>1, HeldNone DEF InBatch, Passed, Marking
  <2> QED BY <2>1, <2>2, FilterKept
<1>5. CASE DispSubmit
  <2> DEFINE x == Head(dbatch)
  <2>1. /\ dbatch' = Tail(dbatch) /\ dbatch # <<>> /\ dbatch \in Seq(Message)
        /\ disp = "submit" /\ work' = Append(work, x) /\ work \in Seq(Message)
        /\ UNCHANGED <<disp, filtered, acked, together, notDispatcher>>
      BY <1>5 DEF DispSubmit, TypeOK
  <2>2. x \in Message
      BY <2>1, HeadTail
  <2>3. \A m : HeldSeq(dbatch, m) <=> HeldSeq(dbatch', m) \/ x.id = m
      BY <2>1, HeldTail
  <2> HIDE DEF x
  <2>4. \A m : HeldSeq(work', m) <=> HeldSeq(work, m) \/ x.id = m
      BY <2>1, <2>2, HeldAppend
  <2>5. \A m \in Msgs : /\ InBatch(m)' => InBatch(m)
                        /\ Marking(m)' <=> Marking(m)
                        /\ Passed(m)' => Passed(m)
      BY <2>1, <2>3, <2>4 DEF InBatch, Passed, Marking
  <2> QED BY <2>1, <2>5, FilterKept
<1> QED BY <1>1, <1>2, <1>3, <1>4, <1>5 DEF Dispatcher

(* A worker that runs no Ack and no Mark changes nothing: what he holds has *)
(* passed the filter before.                                                *)
LEMMA WorkerFilter ==
    ASSUME TypeOK, HandsEmpty, FilterHolds, DuplicatesOnlyWithinBatch,
           NEW w \in Workers, Worker(w), ~WorkerAck(w), ~WorkerMark(w)
    PROVE  FilterHolds' /\ DuplicatesOnlyWithinBatch'
<1>1. UNCHANGED <<disp, dbatch, kept, duplicates, together, marked, unmarked, succeeded>>
      /\ acked \subseteq acked'
    BY DEF Worker, WorkerTake, WorkerExit, Handle, WorkerRetry, WorkerNack, WorkerDLQ, DeadLetter
<1>2. \A v \in Workers \ {w} : worker'[v] = worker[v] /\ cur'[v] = cur[v]
  <2>1. CASE Handle(w)
    <3>1. PICK a \in Ends \cup Repeats, k \in 0..Limit :
              /\ worker' = [worker EXCEPT ![w] = a]
              /\ cur' = [cur EXCEPT ![w] = <<[cur[w][1] EXCEPT !.attempts = k]>>]
        BY <2>1, HandleEffect
    <3> QED BY <3>1 DEF TypeOK
  <2>2. CASE ~Handle(w)
      BY <2>2 DEF Worker, WorkerTake, WorkerExit, WorkerRetry, WorkerNack, WorkerDLQ, Finish,
                  TypeOK
  <2> QED BY <2>1, <2>2
<1>3. worker[w] # "mark" /\ worker'[w] # "mark"
  <2>1. CASE Handle(w)
    <3>1. PICK a \in Ends \cup Repeats, k \in 0..Limit : worker' = [worker EXCEPT ![w] = a]
        BY <2>1, HandleEffect
    <3> QED BY <2>1, <3>1 DEF TypeOK, Ends, Repeats, Handle
  <2>2. CASE ~Handle(w)
      BY <2>2 DEF Worker, WorkerTake, WorkerExit, WorkerRetry, WorkerNack, WorkerDLQ, Finish,
                  TypeOK
  <2> QED BY <2>1, <2>2
<1>4. ASSUME NEW m \in Msgs
      PROVE  HeldSeq(work', m) \/ HeldCur(worker', cur', m) =>
                HeldSeq(work, m) \/ HeldCur(worker, cur, m)
  <2>1. CASE WorkerTake(w)
    <3> DEFINE x == Head(work)
    <3>1. /\ x \in Message /\ work' = Tail(work) /\ work # <<>> /\ work \in Seq(Message)
          /\ cur'[w] = <<x>>
        BY <2>1, HeadTail DEF WorkerTake, TypeOK
    <3>2. HeldSeq(work, m) <=> HeldSeq(work', m) \/ x.id = m
        BY <3>1, HeldTail
    <3>3. HeldSeq(cur'[w], m) => x.id = m
        BY <3>1, HeldOne
    <3> HIDE DEF x
    <3> QED BY <1>2, <3>2, <3>3 DEF HeldCur, HeldBy
  <2>2. CASE WorkerExit(w)
      BY <2>2, <1>2, <1>3 DEF WorkerExit, HeldCur, HeldBy
  <2>3. CASE Handle(w)
    <3>1. cur[w][1] \in Message /\ DOMAIN cur[w] = {1} /\ UNCHANGED work
        BY <2>3, BusyHolds DEF Handle
    <3>2. PICK a \in Ends \cup Repeats, k \in 0..Limit :
              cur' = [cur EXCEPT ![w] = <<[cur[w][1] EXCEPT !.attempts = k]>>]
        BY <2>3, HandleEffect
    <3>3. /\ cur'[w] = <<[cur[w][1] EXCEPT !.attempts = k]>>
          /\ [cur[w][1] EXCEPT !.attempts = k].id = cur[w][1].id
        BY <3>1, <3>2 DEF TypeOK, Message
    <3>4. HeldSeq(cur'[w], m) => HeldSeq(cur[w], m)
      <4>1. \A x : cur'[w] = <<x>> => (HeldSeq(cur'[w], m) <=> x.id = m)
          BY HeldOne
      <4>2. HeldSeq(cur'[w], m) => cur[w][1].id = m
          BY <3>3, <4>1
      <4> QED BY <3>1, <4>2 DEF HeldSeq
    <3> QED BY <1>2, <1>3, <3>1, <3>4 DEF HeldCur, HeldBy
  <2>4. CASE WorkerRetry(w) \/ WorkerNack(w) \/ WorkerDLQ(w)
    <3>1. UNCHANGED work /\ cur'[w] = <<>>
        BY <2>4 DEF WorkerRetry, WorkerNack, WorkerDLQ, Finish, TypeOK
    <3>2. ~HeldBy(worker', cur', w, m)
        BY <3>1, HeldNone DEF HeldBy
    <3> QED BY <1>2, <3>1, <3>2 DEF HeldCur, HeldBy
  <2> QED BY <2>1, <2>2, <2>3, <2>4 DEF Worker
<1>5. \A m \in Msgs : /\ InBatch(m)' => InBatch(m)
                      /\ Passed(m)' => Passed(m)
    BY <1>1, <1>4 DEF InBatch, Passed
<1>6. \A m \in Msgs : Marking(m)' <=> Marking(m)
    BY <1>2, <1>3 DEF Marking
<1> QED BY <1>1, <1>5, <1>6, FilterKept

(* Ack: the message had passed the filter, so what it repeats was together  *)
(* with it; the rest of its batch still is.                                 *)
LEMMA AckFilter ==
    ASSUME TypeOK, HandsEmpty, FilterHolds, DuplicatesOnlyWithinBatch,
           NEW w \in Workers, WorkerAck(w)
    PROVE  FilterHolds' /\ DuplicatesOnlyWithinBatch'
<1>1. PICK id \in Msgs : id = cur[w][1].id
    BY BusyHolds DEF WorkerAck
<1>2. /\ acked' = acked \cup {id} /\ succeeded' = succeeded \cup {id}
      /\ UNCHANGED <<disp, dbatch, kept, duplicates, work, cur, together, marked, unmarked>>
      /\ worker'[w] = "mark" /\ worker[w] = "Ack"
      /\ \A v \in Workers \ {w} : worker'[v] = worker[v]
    BY <1>1 DEF WorkerAck, TypeOK
<1>3. \A m : HeldSeq(cur[w], m) <=> m = id
    BY <1>1, <1>2, BusyHolds DEF HeldSeq
<1>4. Passed(id) /\ InBatch(id)
    BY <1>2, <1>3 DEF Passed, InBatch, HeldCur, HeldBy
<1>5. ASSUME NEW m \in Msgs
      PROVE  /\ Passed(m)' => Passed(m)
             /\ InBatch(m)' => InBatch(m)
             /\ Marking(m)' <=> Marking(m) \/ m = id
  <2>1. HeldCur(worker', cur', m) => HeldCur(worker, cur, m)
      BY <1>2 DEF HeldCur, HeldBy
  <2>2. Passed(m)' => Passed(m)
      BY <1>2, <2>1 DEF Passed
  <2>3. InBatch(m)' => InBatch(m)
      BY <1>2, <2>2 DEF InBatch
  <2>4. Marking(m)' <=> Marking(m) \/ m = id
      BY <1>2, <1>3 DEF Marking
  <2> QED BY <2>2, <2>3, <2>4
<1>6. (succeeded \subseteq acked)'
    BY <1>2 DEF FilterHolds
<1>7. \A m \in succeeded' : Key[m] # NoKey => Marking(m)' \/ Key[m] \in (marked \cup unmarked)'
    BY <1>2, <1>5 DEF FilterHolds, TypeOK
<1>8. ASSUME NEW m \in Msgs, NEW n \in Msgs, m # n, Key[m] = Key[n], InBatch(m)',
             InBatch(n)' \/ Marking(n)'
      PROVE  {m, n} \in together'
    BY <1>2, <1>4, <1>5, <1>8 DEF FilterHolds
<1>9. ASSUME NEW m \in Msgs, NEW n \in succeeded', m # n, Passed(m)', Key[m] = Key[n],
             Key[m] # NoKey
      PROVE  {m, n} \in together' \/ Key[m] \in unmarked'
  <2>1. CASE n \in succeeded
      BY <1>2, <1>5, <1>9, <2>1 DEF FilterHolds
  <2>2. CASE n = id
    <3>1. InBatch(m) /\ InBatch(n)
        BY <1>4, <1>5, <1>9, <2>2 DEF InBatch
    <3> QED BY <1>2, <1>9, <2>2, <3>1 DEF FilterHolds
  <2> QED BY <1>2, <2>1, <2>2
<1>10. FilterHolds'
    BY <1>6, <1>7, <1>8, <1>9 DEF FilterHolds
<1>11. ASSUME NEW m \in succeeded', NEW n \in succeeded', m # n, Key[m] = Key[n],
              Key[m] # NoKey
       PROVE  {m, n} \in together' \/ Key[m] \in unmarked'
  <2>1. CASE m \in succeeded /\ n \in succeeded
      BY <1>2, <1>11, <2>1 DEF DuplicatesOnlyWithinBatch
  <2>2. CASE m = id /\ n \in succeeded
      BY <1>2, <1>4, <1>11, <2>2 DEF FilterHolds
  <2>3. CASE n = id /\ m \in succeeded
    <3>1. {n, m} \in together \/ Key[n] \in unmarked
        BY <1>4, <1>11, <2>3 DEF FilterHolds
    <3>2. {n, m} = {m, n}
        OBVIOUS
    <3> QED BY <1>2, <1>11, <3>1, <3>2
  <2> QED BY <1>2, <1>11, <2>1, <2>2, <2>3
<1>12. DuplicatesOnlyWithinBatch'
    BY <1>11 DEF DuplicatesOnlyWithinBatch
<1> QED BY <1>10, <1>12

(* Mark: the key is marked, or its Mark has failed.                         *)
LEMMA MarkFilter ==
    ASSUME TypeOK, HandsEmpty, FilterHolds, DuplicatesOnlyWithinBatch,
           NEW w \in Workers, WorkerMark(w)
    PROVE  FilterHolds' /\ DuplicatesOnlyWithinBatch'
<1>1. PICK id \in Msgs : id = cur[w][1].id
    BY BusyHolds DEF WorkerMark
<1>2. /\ UNCHANGED <<disp, dbatch, kept, duplicates, work, together, succeeded, acked>>
      /\ worker[w] = "mark" /\ worker'[w] = "idle" /\ cur'[w] = <<>>
      /\ \A v \in Workers \ {w} : worker'[v] = worker[v] /\ cur'[v] = cur[v]
    BY DEF WorkerMark, Finish, TypeOK
<1>3. /\ marked \subseteq marked' /\ unmarked \subseteq unmarked'
      /\ Key[id] # NoKey => Key[id] \in marked' \cup unmarked'
    BY <1>1 DEF WorkerMark, MarkKey
<1>4. \A m : HeldSeq(cur[w], m) <=> m = id
    BY <1>1, <1>2, BusyHolds DEF HeldSeq
<1>5. ASSUME NEW m \in Msgs
      PROVE  /\ Passed(m)' => Passed(m)
             /\ InBatch(m)' => InBatch(m)
             /\ Marking(m)' => Marking(m)
             /\ Marking(m) /\ Key[m] # NoKey =>
                    Marking(m)' \/ Key[m] \in marked' \cup unmarked'
  <2>1. HeldCur(worker', cur', m) => HeldCur(worker, cur, m)
    <3>1. ~HeldSeq(cur'[w], m)
        BY <1>2, HeldNone
    <3> QED BY <1>2, <3>1 DEF HeldCur, HeldBy
  <2>2. Passed(m)' => Passed(m)
      BY <1>2, <2>1 DEF Passed
  <2>3. InBatch(m)' => InBatch(m)
      BY <1>2, <2>2 DEF InBatch
  <2>4. Marking(m)' => Marking(m)
      BY <1>2 DEF Marking
  <2>5. Marking(m) => Marking(m)' \/ m = id
      BY <1>2, <1>4 DEF Marking
  <2> QED BY <1>3, <2>2, <2>3, <2>4, <2>5
<1> QED BY <1>2, <1>3, <1>5, FilterKept

(* The filter lets through only what DuplicatesOnlyWithinBatch allows.      *)
LEMMA FilterStep ==
    ASSUME TypeOK, HandsEmpty, OneBatchAtATime, OnePlace, FilterHolds,
           DuplicatesOnlyWithinBatch, Next
    PROVE  FilterHolds' /\ DuplicatesOnlyWithinBatch'
<1>1. CASE (\E m \in Msgs : Publish(m)) \/ Cancel \/ PollFail \/ Expiry \/ Poller
           \/ Ticker \/ Timer \/ Run
  <2>1. /\ UNCHANGED <<disp, dbatch, kept, duplicates, work, worker, cur, acked, succeeded,
                       together>>
        /\ marked \subseteq marked' \cup unmarked' /\ unmarked \subseteq unmarked'
      BY <1>1 DEF Publish, Cancel, PollFail, Expiry, MarkExpires, Poller, PollTop, PollLock,
                  PollWokenCancelled, PollHandle, Ticker, Tick, TickSend, TickStop, Timer,
                  TimerReceive, TimerEnqueue,
                  TimerStop, Run, RunSelect, RunDispWait, RunTimerWait, RunPollerWait,
                  RunPoolWait, RunDrain, RunRequeue, RunReturn
  <2>2. \A m \in Msgs : /\ InBatch(m)' <=> InBatch(m)
                        /\ Marking(m)' <=> Marking(m)
                        /\ Passed(m)' <=> Passed(m)
      BY <2>1 DEF InBatch, Passed, Marking
  <2> QED BY <2>1, <2>2, FilterKept
<1>2. CASE Dispatcher
    BY <1>2, DispatcherFilter
<1>3. ASSUME NEW w \in Workers, Worker(w) PROVE FilterHolds' /\ DuplicatesOnlyWithinBatch'
    BY <1>3, AckFilter, MarkFilter, WorkerFilter
<1> QED BY <1>1, <1>2, <1>3 DEF Next

-----------------------------------------------------------------------------
(* The inductive invariant: it holds before Run starts ...                  *)
LEMMA InvInit ==
    ASSUME Init
    PROVE  IInv
<1>1. Limit \in Nat /\ IsFiniteSet(Workers) /\ RingSize \in Nat /\ OutSize \in Nat
    BY Numbers, PipelineAssumption
<1>2. Cardinality(Workers) \in Nat
    BY <1>1, FS_CardinalityType
<1>3. TypeOK
  <2>1. /\ mem = <<>> /\ ring = <<>> /\ out = <<>> /\ work = <<>> /\ pbatch = <<>>
        /\ dbatch = <<>> /\ kept = <<>> /\ duplicates = <<>> /\ pend = 0
      BY DEF Init
  <2>2. \A S : <<>> \in Seq(S) /\ Len(<<>>) = 0
      OBVIOUS
  <2>3. /\ worker \in [Workers -> {"idle", "handle", "Ack", "mark", "Retry",
                                   "RetryWithDelay", "DLQ", "exited"}]
        /\ cur \in [Workers -> Seq(Message)] /\ runs \in [Msgs -> Nat]
      BY <2>2 DEF Init
  <2>4. /\ Len(ring) <= RingSize /\ Len(out) <= OutSize
        /\ Len(work) <= Cardinality(Workers) /\ pend \in Nat
      BY <1>1, <1>2, <2>1, <2>2
  <2> QED BY <2>1, <2>2, <2>3, <2>4 DEF Init, Wheel!Init, TypeOK
<1>4. HandsEmpty
    BY DEF Init, Wheel!Init, HandsEmpty
<1>5. Shutdown
    BY DEF Init, Wheel!Init, Shutdown
<1>6. OneBatchAtATime
  <2>1. Busy = {} /\ Len(work) = 0 /\ pend = 0
      BY DEF Init, Busy
  <2> QED BY <2>1, FS_EmptySet DEF OneBatchAtATime
<1>14. WheelDelayed
    BY DEF Init, Wheel!Init, WheelDelayed
<1>7. \A m : /\ ~HeldSeq(<<>>, m) /\ OnceSeq(<<>>, m) /\ ~HeldSet({}, m) /\ OnceSet({}, m)
             /\ ~HeldOut(out, m) /\ OnceOut(out, m)
    BY HeldNone, HeldSets DEF Init, HeldOut, OnceOut
<1>8. \A m : ~HeldCur(worker, cur, m) /\ OnceCur(worker, cur, m) /\ ~Marking(m)
  <2>1. \A w \in Workers : worker[w] # "mark" /\ cur[w] = <<>>
      BY DEF Init
  <2> QED BY <1>7, <2>1 DEF HeldCur, HeldBy, OnceCur, Marking
<1>9. OnePlace
  <2> SUFFICES ASSUME NEW m \in Msgs PROVE InOnePlace(m)
      BY DEF OnePlace
  <2>1. OnceInEach(m)
      BY <1>7, <1>8 DEF Init, Wheel!Init, OnceInEach
  <2>2. ~Somewhere(m)
      BY <1>7, <1>8 DEF Init, Wheel!Init, Somewhere
  <2>3. OnlyIn(m, "mem")
      BY <2>2 DEF Somewhere, OnlyIn
  <2>4. m \notin published
      BY DEF Init
  <2> QED BY <2>1, <2>2, <2>3, <2>4 DEF InOnePlace
<1>10. AttemptsCountRuns
  <2>1. CountsOut(runs, out) /\ CountsCur(runs, worker, cur)
      BY DEF Init, CountsOut, CountsCur
  <2>2. \A m \in Msgs : runs[m] = 0
      BY DEF Init
  <2> QED BY <2>1, <2>2, CountNone DEF Init, Wheel!Init, AttemptsCountRuns
<1>11. RunsBounded
    BY <1>1 DEF Init, RunsBounded
<1>12. AckJustified /\ AckedWasProcessed
    BY DEF Init, AckJustified, AckedWasProcessed
<1>13. FilterHolds /\ DuplicatesOnlyWithinBatch
    BY <1>7, <1>8 DEF Init, FilterHolds, InBatch, Passed, DuplicatesOnlyWithinBatch
<1> QED BY <1>3, <1>4, <1>5, <1>6, <1>9, <1>10, <1>11, <1>12, <1>13, <1>14 DEF IInv

(* ... and every step of every goroutine keeps it.                          *)
LEMMA InvStep ==
    ASSUME IInv, [Next]_vars
    PROVE  IInv'
<1>1. CASE Next
  <2>1. TypeOK' /\ HandsEmpty' /\ Shutdown' /\ OneBatchAtATime'
      BY <1>1, TypeStep, HandsStep, ShutdownStep, BatchStep DEF IInv
  <2>2. WheelDelayed' /\ OnePlace' /\ AttemptsCountRuns' /\ RunsBounded'
      BY <1>1, WheelStep, PlaceStep, CountStep DEF IInv
  <2>3. AckJustified' /\ AckedWasProcessed'
      BY <1>1, AckStep DEF IInv
  <2>4. FilterHolds' /\ DuplicatesOnlyWithinBatch'
      BY <1>1, FilterStep DEF IInv
  <2> QED BY <2>1, <2>2, <2>3, <2>4 DEF IInv
<1>2. CASE UNCHANGED vars
  <2>1. TypeOK'
      BY <1>2 DEF vars, IInv, TypeOK
  <2>2. HandsEmpty'
      BY <1>2 DEF vars, IInv, HandsEmpty
  <2>3. Shutdown'
      BY <1>2 DEF vars, IInv, Shutdown, Stopping, PollOver
  <2>4. OneBatchAtATime'
      BY <1>2 DEF vars, IInv, OneBatchAtATime, Busy
  <2>9. WheelDelayed'
      BY <1>2 DEF vars, IInv, WheelDelayed
  <2>5. OnePlace'
    <3>1. ASSUME NEW m \in Msgs PROVE InOnePlace(m)'
      <4>1. InOnePlace(m)
          BY DEF IInv, OnePlace
      <4>2. /\ OnceInEach(m)' /\ (Somewhere(m)' <=> Somewhere(m))
            /\ MayBeDropped(m)' <=> MayBeDropped(m)
            /\ published' = published
          BY <1>2, <4>1 DEF vars, InOnePlace, OnceInEach, Somewhere, MayBeDropped
      <4>3. PICK p : OnlyIn(m, p)
          BY <4>1 DEF InOnePlace
      <4>4. OnlyIn(m, p)'
          BY <1>2, <4>3 DEF vars, OnlyIn
      <4> QED BY <4>1, <4>2, <4>4 DEF InOnePlace
    <3> QED BY <3>1 DEF OnePlace
  <2>6. AttemptsCountRuns' /\ RunsBounded'
      BY <1>2 DEF vars, IInv, AttemptsCountRuns, RunsBounded
  <2>7. AckJustified' /\ AckedWasProcessed'
      BY <1>2 DEF vars, IInv, AckJustified, AckedWasProcessed
  <2>8. FilterHolds' /\ DuplicatesOnlyWithinBatch'
    <3>1. \A m \in Msgs : /\ InBatch(m)' <=> InBatch(m)
                          /\ Marking(m)' <=> Marking(m)
                          /\ Passed(m)' <=> Passed(m)
        BY <1>2 DEF vars, InBatch, Passed, Marking
    <3>2. UNCHANGED <<succeeded, together, acked, marked, unmarked>>
        BY <1>2 DEF vars
    <3> QED BY <3>1, <3>2, FilterKept DEF IInv
  <2> QED BY <2>1, <2>2, <2>3, <2>4, <2>5, <2>6, <2>7, <2>8, <2>9 DEF IInv
<1> QED BY <1>1, <1>2

(* The strengthened invariant holds of every reachable state.               *)
LEMMA Invariance == Spec => []IInv
BY InvInit, InvStep, PTL DEF Spec

-----------------------------------------------------------------------------
(* Every queue stays within its capacity and every goroutine at one of its  *)
(* program points.                                                          *)
THEOREM TypeCorrect == Spec => []TypeOK
<1>1. IInv => TypeOK
    BY DEF IInv
<1> QED BY <1>1, Invariance, PTL

(* No hand-over of runPoller, runTimer, runDispatcher, dispatchBatch, the   *)
(* workers or the shutdown of Run copies a message, and none loses one but  *)
(* for the delayed messages that Run and the wheel drop when it stops.      *)
THEOREM NothingLostOrCopied == Spec => []EachInOnePlace
<1>1. IInv => EachInOnePlace
    BY PlacesCounted DEF IInv
<1> QED BY <1>1, Invariance, PTL

(* The WaitGroup of dispatchBatch counts exactly the messages submitted and *)
(* not finished, and is zero between two batches.                           *)
THEOREM BatchesSeparate == Spec => []OneBatchAtATime
<1>1. IInv => OneBatchAtATime
    BY DEF IInv
<1> QED BY <1>1, Invariance, PTL

(* Run's shutdown closes workCh, the ring and the store only after poller,  *)
(* timer, dispatcher and workers have left; what Run itself enqueues, it    *)
(* enqueues into the closed ring.                                           *)
THEOREM NothingClosedInUse == Spec => []ClosedAfterLastUse
<1>1. IInv => ClosedAfterLastUse
    BY DEF IInv, HandsEmpty, Shutdown, OnlyRunLeft, ClosedAfterLastUse
<1> QED BY <1>1, Invariance, PTL

(* resolveOutcome's limit holds on every way a message can take: no handler *)
(* runs more often for one message.                                         *)
THEOREM RetryLimitHolds == Spec => []RunsBounded
<1>1. IInv => RunsBounded
    BY DEF IInv
<1> QED BY <1>1, Invariance, PTL

(* At-least-once: nothing is acknowledged that was not processed, sent to   *)
(* the DLQ or a repetition, except where Exists returned an error.          *)
THEOREM AcknowledgedOnlyProcessed == Spec => []AckedWasProcessed
<1>1. IInv => AckedWasProcessed
    BY DEF IInv
<1> QED BY <1>1, Invariance, PTL

(* filterDuplicates lets two messages with one key through only when they   *)
(* were in one batch, or when a Mark failed or has expired.                 *)
THEOREM DuplicatesOnlyTogether == Spec => []DuplicatesOnlyWithinBatch
<1>1. IInv => DuplicatesOnlyWithinBatch
    BY DEF IInv
<1> QED BY <1>1, Invariance, PTL

-----------------------------------------------------------------------------
(* One round of filterDuplicates: the message becomes a duplicate, for an   *)
(* error or for its key, or is kept without an error.                       *)
LEMMA AskEffect ==
    ASSUME TypeOK, DispAsk
    PROVE  \E x \in Message, err \in BOOLEAN :
             /\ x = Head(dbatch) /\ dbatch # <<>>
             /\ \/ /\ duplicates' = Append(duplicates, x)
                   /\ err \/ (Key[x.id] # NoKey /\ Key[x.id] \in marked)
                \/ ~err /\ duplicates' = duplicates
             /\ unanswered' = IF err THEN unanswered \cup {x.id} ELSE unanswered
<1> DEFINE x == Head(dbatch)
<1>1. dbatch # <<>> /\ dbatch \in Seq(Message)
    BY DEF DispAsk, TypeOK
<1>2. x \in Message
    BY <1>1, HeadTail
<1>3. PICK err \in Errors(x) :
          /\ IF IsDuplicate(x, err)
               THEN duplicates' = Append(duplicates, x) /\ UNCHANGED kept
               ELSE kept' = Append(kept, x) /\ UNCHANGED duplicates
          /\ unanswered' = IF err THEN unanswered \cup {x.id} ELSE unanswered
    BY DEF DispAsk
<1> HIDE DEF x
<1>4. err \in BOOLEAN /\ (err => Key[x.id] # NoKey)
    BY <1>3 DEF Errors
<1>5. IsDuplicate(x, err) => err \/ (Key[x.id] # NoKey /\ Key[x.id] \in marked)
    BY DEF IsDuplicate
<1>6. ~IsDuplicate(x, err) => ~err
    BY <1>4 DEF IsDuplicate
<1>7. /\ \/ /\ duplicates' = Append(duplicates, x)
            /\ err \/ (Key[x.id] # NoKey /\ Key[x.id] \in marked)
         \/ ~err /\ duplicates' = duplicates
      /\ unanswered' = IF err THEN unanswered \cup {x.id} ELSE unanswered
    BY <1>3, <1>5, <1>6
<1> QED BY <1>1, <1>2, <1>4, <1>7 DEF x

-----------------------------------------------------------------------------
(* Steps that touch neither the history nor the filter keep ReasonsHeld;    *)
(* the filter answers for each message it could not look up, and the pool   *)
(* acknowledges what it sends to the DLQ.                                   *)
LEMMA ReasonsStep ==
    ASSUME TypeOK, ReasonsHeld, Next
    PROVE  ReasonsHeld'
<1>1. CASE (\E m \in Msgs : Publish(m)) \/ Cancel \/ PollFail \/ Expiry \/ Poller
           \/ Ticker \/ Timer \/ Run
           \/ DispTop \/ DispDequeue \/ DispRecheck \/ DispSubmit \/ DispWait
  <2>1. UNCHANGED <<duplicates, unanswered, acked, dead>>
      BY <1>1 DEF Publish, Cancel, PollFail, Expiry, MarkExpires, Poller, PollTop, PollLock,
                  PollWokenCancelled, PollHandle, Ticker, Tick, TickSend, TickStop, Timer,
                  TimerReceive, TimerEnqueue,
                  TimerStop, Run, RunSelect, RunDispWait, RunTimerWait, RunPollerWait,
                  RunPoolWait, RunDrain, RunRequeue, RunReturn, DispTop, DispDequeue,
                  DispRecheck, DispSubmit, DispWait
  <2> QED BY <2>1 DEF ReasonsHeld
<1>2. CASE DispAsk
  <2>1. PICK x \in Message, err \in BOOLEAN :
            /\ \/ duplicates' = Append(duplicates, x)
               \/ ~err /\ duplicates' = duplicates
            /\ unanswered' = IF err THEN unanswered \cup {x.id} ELSE unanswered
      BY <1>2, AskEffect
  <2>2. UNCHANGED <<acked, dead>> /\ duplicates \in Seq(Message)
      BY <1>2 DEF DispAsk, TypeOK
  <2>3. \A m : HeldSeq(duplicates', m) <=>
            HeldSeq(duplicates, m) \/ (duplicates' # duplicates /\ x.id = m)
    <3>1. CASE duplicates' = Append(duplicates, x)
      <4>1. Append(duplicates, x) # duplicates
          BY <2>1, <2>2
      <4> QED BY <2>1, <2>2, <3>1, <4>1, HeldAppend
    <3>2. CASE duplicates' = duplicates
        BY <3>2
    <3> QED BY <2>1, <3>1, <3>2
  <2>4. err => duplicates' # duplicates
    <3>1. Append(duplicates, x) # duplicates
        BY <2>1, <2>2
    <3> QED BY <2>1, <3>1
  <2> QED BY <2>1, <2>2, <2>3, <2>4 DEF ReasonsHeld
<1>3. CASE DispFiltered
  <2>1. /\ acked' = acked \cup {duplicates[i].id : i \in DOMAIN duplicates}
        /\ UNCHANGED <<unanswered, dead>>
      BY <1>3 DEF DispFiltered
  <2> QED BY <2>1 DEF ReasonsHeld, HeldSeq
<1>4. ASSUME NEW w \in Workers, Worker(w) PROVE ReasonsHeld'
  <2>1. /\ UNCHANGED <<duplicates, unanswered>> /\ acked \subseteq acked'
        /\ dead' = dead \/ (dead' = dead \cup {cur[w][1].id} /\ cur[w][1].id \in acked')
      BY <1>4 DEF Worker, WorkerTake, WorkerExit, Handle, WorkerAck, WorkerMark, WorkerRetry,
                  WorkerNack, WorkerDLQ, DeadLetter
  <2> QED BY <2>1 DEF ReasonsHeld
<1> QED BY <1>1, <1>2, <1>3, <1>4 DEF Next, Dispatcher

-----------------------------------------------------------------------------
(* A message a worker is busy with, before it is acknowledged, is held by   *)
(* that worker.                                                             *)
LEMMA AtHeld ==
    ASSUME TypeOK, HandsEmpty, NEW w \in Workers, NEW m,
           worker[w] \notin {"idle", "exited", "mark"}, cur[w][1].id = m
    PROVE  HeldBy(worker, cur, w, m) /\ HeldCur(worker, cur, m)
BY BusyHolds DEF HeldBy, HeldSeq, HeldCur

(* What waits for the filter or for a worker, or is with a worker that has  *)
(* no answer yet, is open.                                                  *)
LEMMA InHandIsOpen ==
    ASSUME IInv, ReasonsHeld, NEW m \in Msgs,
           \/ HeldSeq(dbatch, m)
           \/ HeldSeq(work, m)
           \/ \E w \in Workers : worker[w] = "handle" /\ cur[w][1].id = m
    PROVE  /\ Status(m) = "open" /\ m \in published
           /\ m \notin succeeded \cup dead \cup unanswered \cup acked /\ ~HeldSeq(duplicates, m)
           /\ ~At("Ack", m) /\ ~At("DLQ", m)
<1> USE DEF IInv
<1>1. PICK p : OnlyIn(m, p)
    BY DEF OnePlace, InOnePlace
<1>2. OnceCur(worker, cur, m) /\ (Somewhere(m) => m \in published)
    BY DEF OnePlace, InOnePlace, OnceInEach
<1>3. HeldSeq(dbatch, m) \/ HeldSeq(work, m) \/ HeldCur(worker, cur, m)
    BY AtHeld
<1>4. m \in published /\ m \notin acked /\ ~HeldSeq(duplicates, m)
    BY <1>1, <1>2, <1>3 DEF OnlyIn, Somewhere
<1>5. m \notin succeeded \cup dead \cup unanswered
    BY <1>4 DEF ReasonsHeld, FilterHolds
<1>6. ~At("Ack", m) /\ ~At("DLQ", m)
  <2> SUFFICES ASSUME NEW v \in Workers, worker[v] \in {"Ack", "DLQ"}, cur[v][1].id = m
               PROVE  FALSE
      BY DEF At
  <2>1. HeldBy(worker, cur, v, m) /\ HeldCur(worker, cur, m)
      BY AtHeld
  <2>2. ~HeldSeq(dbatch, m) /\ ~HeldSeq(work, m)
      BY <1>1, <2>1 DEF OnlyIn
  <2>3. PICK w \in Workers : worker[w] = "handle" /\ cur[w][1].id = m
      BY <2>2
  <2>4. HeldBy(worker, cur, w, m)
      BY <2>3, AtHeld
  <2>5. v = w
      BY <1>2, <2>1, <2>4 DEF OnceCur
  <2> QED BY <2>3, <2>5
<1> QED BY <1>4, <1>5, <1>6 DEF Status, HeldSeq

(* A message's status depends on these and on nothing else.                 *)
LEMMA StatusSame ==
    ASSUME NEW m,
           m \in published' <=> m \in published,
           m \in succeeded' \/ At("Ack", m)' <=> m \in succeeded \/ At("Ack", m),
           m \in dead' \/ At("DLQ", m)' <=> m \in dead \/ At("DLQ", m),
           m \in unanswered' <=> m \in unanswered,
           m \in acked' \/ HeldSeq(duplicates', m) <=> m \in acked \/ HeldSeq(duplicates, m)
    PROVE  Status(m)' = Status(m)
BY DEF Status, HeldSeq

(* One worker moves: who else is about to acknowledge stays so.             *)
LEMMA OneWorkerMoves ==
    ASSUME NEW w \in Workers, NEW point, NEW m,
           \A v \in Workers \ {w} : worker'[v] = worker[v] /\ cur'[v] = cur[v]
    PROVE  /\ worker'[w] = point /\ cur'[w][1].id = m => At(point, m)'
           /\ ~(worker[w] = point /\ cur[w][1].id = m) => (At(point, m) => At(point, m)')
           /\ ~(worker'[w] = point /\ cur'[w][1].id = m) => (At(point, m)' => At(point, m))
BY DEF At

(* One message's status becomes s.                                          *)
LEMMA StatusBecomes ==
    ASSUME NEW m \in Msgs, NEW s, Status(m)' = s, \A n \in Msgs \ {m} : Status(n)' = Status(n)
    PROVE  [n \in Msgs |-> Status(n)]' = [[n \in Msgs |-> Status(n)] EXCEPT ![m] = s]
OBVIOUS

(* No message's status changes.                                             *)
LEMMA Stutters ==
    ASSUME UNCHANGED <<runs, acked>>, \A n \in Msgs : Status(n)' = Status(n)
    PROVE  UNCHANGED Delivered!vars
<1>1. [n \in Msgs |-> Status(n)]' = [n \in Msgs |-> Status(n)]
    OBVIOUS
<1> QED BY <1>1 DEF Delivered!vars

(* Steps that touch nothing a status is made of.                            *)
LEMMA QuietStutters ==
    ASSUME UNCHANGED <<published, duplicates, unanswered, worker, cur, acked, dead, succeeded,
                       runs>>
    PROVE  UNCHANGED Delivered!vars
<1>1. \A point, m : At(point, m)' <=> At(point, m)
    BY DEF At
<1>2. \A n \in Msgs : Status(n)' = Status(n)
    BY <1>1, StatusSame
<1> QED BY <1>2, Stutters

(* Messages that have their reason are acknowledged.                        *)
LEMMA Settles ==
    ASSUME NEW ms \in SUBSET Msgs, UNCHANGED runs, acked' = acked \cup ms,
           \A n \in Msgs : Status(n)' = Status(n), \A n \in ms : Status(n) \in Delivered!Reasons
    PROVE  Delivered!Next
<1>1. [n \in Msgs |-> Status(n)]' = [n \in Msgs |-> Status(n)]
    OBVIOUS
<1>2. Delivered!Settle(ms)
    BY <1>1 DEF Delivered!Settle
<1> QED BY <1>2 DEF Delivered!Next

(* A message gets the reason why it is not run.                             *)
LEMMA Concludes ==
    ASSUME NEW m \in Msgs, NEW why \in {"dead", "dropped", "duplicate"}, UNCHANGED <<runs, acked>>,
           Status(m) = "open", Status(m)' = why, \A n \in Msgs \ {m} : Status(n)' = Status(n),
           why = "duplicate" => Delivered!Repeats(m)
    PROVE  Delivered!Next
<1>1. [n \in Msgs |-> Status(n)]' = [[n \in Msgs |-> Status(n)] EXCEPT ![m] = why]
    BY StatusBecomes
<1>2. Delivered!Conclude(m, why)
    BY <1>1 DEF Delivered!Conclude
<1> QED BY <1>2 DEF Delivered!Next, Delivered!Reasons

(* The filter and the first acknowledgement are Delivery's Conclude for a   *)
(* duplicate or an error, and its Settle.                                   *)
LEMMA DispatcherRefines ==
    ASSUME IInv, ReasonsHeld, DispAsk \/ DispFiltered
    PROVE  Delivered!Next \/ UNCHANGED Delivered!vars
<1> USE DEF IInv
<1>1. UNCHANGED <<published, worker, cur, dead, succeeded, runs>>
    BY DEF DispAsk, DispFiltered
<1>2. \A point, m : At(point, m)' <=> At(point, m)
    BY <1>1 DEF At
<1>3. CASE DispAsk
  <2>1. PICK x \in Message, err \in BOOLEAN :
            /\ x = Head(dbatch) /\ dbatch # <<>>
            /\ \/ /\ duplicates' = Append(duplicates, x)
                  /\ err \/ (Key[x.id] # NoKey /\ Key[x.id] \in marked)
               \/ ~err /\ duplicates' = duplicates
            /\ unanswered' = IF err THEN unanswered \cup {x.id} ELSE unanswered
      BY <1>3, AskEffect
  <2>2. acked' = acked /\ dbatch \in Seq(Message) /\ duplicates \in Seq(Message)
      BY <1>3 DEF DispAsk, TypeOK
  <2>3. x.id \in Msgs /\ HeldSeq(dbatch, x.id)
      BY <2>1, <2>2, HeldTail, Parts
  <2>4. /\ Status(x.id) = "open" /\ x.id \in published
        /\ x.id \notin succeeded \cup dead \cup unanswered \cup acked
        /\ ~At("Ack", x.id) /\ ~At("DLQ", x.id)
      BY <2>3, InHandIsOpen
  <2>5. CASE duplicates' = duplicates /\ ~err
    <3>1. \A n \in Msgs : Status(n)' = Status(n)
        BY <1>1, <1>2, <2>1, <2>2, <2>5, StatusSame
    <3> QED BY <1>1, <2>2, <3>1, Stutters
  <2>6. CASE /\ duplicates' = Append(duplicates, x)
             /\ err \/ (Key[x.id] # NoKey /\ Key[x.id] \in marked)
    <3>1. \A n : HeldSeq(duplicates', n) <=> HeldSeq(duplicates, n) \/ x.id = n
        BY <2>2, <2>6, HeldAppend
    <3>2. \A n \in Msgs \ {x.id} : Status(n)' = Status(n)
        BY <1>1, <1>2, <2>1, <2>2, <3>1, StatusSame
    <3>3. CASE err
      <4>1. Status(x.id)' = "dropped"
          BY <1>1, <1>2, <2>1, <2>4, <3>3 DEF Status
      <4> QED BY <1>1, <2>2, <2>3, <2>4, <3>2, <4>1, Concludes
    <3>4. CASE ~err
      <4>1. unanswered' = unanswered /\ HeldSeq(duplicates', x.id)
          BY <2>1, <3>1, <3>4
      <4>2. Status(x.id)' = "duplicate"
          BY <1>1, <1>2, <2>4, <4>1 DEF Status, HeldSeq
      <4>3. Key[x.id] # NoKey /\ \E n \in succeeded : Key[n] = Key[x.id]
          BY <2>3, <2>6, <3>4 DEF AckJustified, KeyDone
      <4>4. PICK n \in succeeded : Key[n] = Key[x.id]
          BY <4>3
      <4>5. n \in Msgs /\ n \in acked /\ n \in published
          BY <4>4 DEF TypeOK, FilterHolds, OnePlace, InOnePlace, Somewhere
      <4>6. Status(n) = "succeeded"
          BY <4>4, <4>5 DEF Status
      <4>7. Delivered!Repeats(x.id)
          BY <4>3, <4>4, <4>5, <4>6 DEF Delivered!Repeats
      <4> QED BY <1>1, <2>2, <2>3, <2>4, <3>2, <4>2, <4>7, Concludes
    <3> QED BY <3>3, <3>4
  <2> QED BY <2>1, <2>5, <2>6
<1>4. CASE DispFiltered
  <2> DEFINE ids == {duplicates[i].id : i \in DOMAIN duplicates}
  <2>1. acked' = acked \cup ids /\ duplicates' = <<>> /\ UNCHANGED unanswered
      BY <1>4 DEF DispFiltered
  <2>2. \A n : n \in ids <=> HeldSeq(duplicates, n)
      BY DEF HeldSeq
  <2>3. ids \in SUBSET Msgs
    <3>1. \A i \in DOMAIN duplicates : duplicates[i] \in Message
        BY DEF TypeOK
    <3> QED BY <3>1, Parts
  <2> HIDE DEF ids
  <2>4. \A n \in Msgs : Status(n)' = Status(n)
      BY <1>1, <1>2, <2>1, <2>2, HeldNone, StatusSame
  <2>5. \A n \in ids : Status(n) \in Delivered!Reasons
    <3> SUFFICES ASSUME NEW n \in ids PROVE Status(n) \in Delivered!Reasons
        OBVIOUS
    <3>1. HeldSeq(duplicates, n) /\ n \in Msgs
        BY <2>2, <2>3
    <3>2. n \in published
        BY <3>1 DEF OnePlace, InOnePlace, Somewhere
    <3> QED BY <3>1, <3>2 DEF Status, HeldSeq, Delivered!Reasons
  <2> QED BY <1>1, <2>1, <2>3, <2>4, <2>5, Settles
<1> QED BY <1>3, <1>4

(* Steps of the pool: Handle is Delivery's Run, an unknown topic concludes, *)
(* and the two acknowledgements settle a message that has its reason.       *)
LEMMA WorkerRefines ==
    ASSUME IInv, ReasonsHeld, NEW w \in Workers, Worker(w)
    PROVE  Delivered!Next \/ UNCHANGED Delivered!vars
<1> USE DEF IInv
<1>1. UNCHANGED <<published, duplicates, unanswered>>
    BY DEF Worker, WorkerTake, WorkerExit, Handle, WorkerAck, WorkerMark, WorkerRetry,
           WorkerNack, WorkerDLQ
<1>2. CASE WorkerExit(w) \/ WorkerMark(w) \/ WorkerRetry(w) \/ WorkerNack(w)
  <2>1. UNCHANGED <<runs, acked, dead, succeeded>>
      BY <1>2 DEF WorkerExit, WorkerMark, WorkerRetry, WorkerNack
  <2>2. /\ worker[w] \notin {"Ack", "DLQ"} /\ worker'[w] \in {"idle", "exited"}
        /\ \A v \in Workers \ {w} : worker'[v] = worker[v] /\ cur'[v] = cur[v]
      BY <1>2 DEF WorkerExit, WorkerMark, WorkerRetry, WorkerNack, Finish, TypeOK
  <2>3. \A m : (At("Ack", m)' <=> At("Ack", m)) /\ (At("DLQ", m)' <=> At("DLQ", m))
      BY <2>2, OneWorkerMoves
  <2>4. \A n \in Msgs : Status(n)' = Status(n)
      BY <1>1, <2>1, <2>3, StatusSame
  <2> QED BY <2>1, <2>4, Stutters
<1>3. CASE WorkerTake(w)
  <2>0. PICK x \in Message : x = Head(work)
      BY <1>3, HeadTail DEF WorkerTake, TypeOK
  <2>1. /\ UNCHANGED <<runs, acked, dead, succeeded>>
        /\ worker[w] = "idle" /\ work # <<>> /\ work \in Seq(Message)
      BY <1>3 DEF WorkerTake, TypeOK
  <2>2. x.id \in Msgs /\ HeldSeq(work, x.id)
      BY <2>0, <2>1, HeldTail, Parts
  <2>3. /\ Status(x.id) = "open" /\ x.id \in published
        /\ x.id \notin succeeded \cup dead \cup unanswered \cup acked
        /\ ~HeldSeq(duplicates, x.id) /\ ~At("Ack", x.id) /\ ~At("DLQ", x.id)
      BY <2>2, InHandIsOpen
  <2>4. /\ cur'[w] = <<x>> /\ worker'[w] = IF x.id \in Unknown THEN "DLQ" ELSE "handle"
        /\ \A v \in Workers \ {w} : worker'[v] = worker[v] /\ cur'[v] = cur[v]
      BY <1>3, <2>0 DEF WorkerTake, TypeOK
  <2>5. cur'[w][1] = x
      BY <2>4
  <2>6. \A m : At("Ack", m)' <=> At("Ack", m)
      BY <2>1, <2>4, OneWorkerMoves
  <2>7. CASE x.id \in Unknown
    <3>1. At("DLQ", x.id)'
        BY <2>4, <2>5, <2>7, OneWorkerMoves
    <3>2. \A n \in Msgs \ {x.id} : At("DLQ", n)' <=> At("DLQ", n)
        BY <2>1, <2>5, <2>4, OneWorkerMoves
    <3>3. Status(x.id)' = "dead"
        BY <1>1, <2>1, <2>3, <2>6, <3>1 DEF Status
    <3>4. \A n \in Msgs \ {x.id} : Status(n)' = Status(n)
        BY <1>1, <2>1, <2>6, <3>2, StatusSame
    <3> QED BY <2>1, <2>2, <2>3, <3>3, <3>4, Concludes
  <2>8. CASE x.id \notin Unknown
    <3>1. \A m : At("DLQ", m)' <=> At("DLQ", m)
        BY <2>1, <2>4, <2>8, OneWorkerMoves
    <3>2. \A n \in Msgs : Status(n)' = Status(n)
        BY <1>1, <2>1, <2>6, <3>1, StatusSame
    <3> QED BY <2>1, <3>2, Stutters
  <2> QED BY <2>7, <2>8
<1>4. CASE Handle(w)
  <2>0. PICK id \in Msgs : id = cur[w][1].id
      BY <1>4, BusyHolds DEF Handle
  <2>1. /\ UNCHANGED <<acked, dead, succeeded>> /\ worker[w] = "handle"
        /\ runs' = [runs EXCEPT ![id] = @ + 1]
      BY <1>4, <2>0 DEF Handle
  <2>2. PICK a \in Ends \cup Repeats, k \in 0..Limit :
            /\ worker' = [worker EXCEPT ![w] = a]
            /\ cur' = [cur EXCEPT ![w] = <<[cur[w][1] EXCEPT !.attempts = k]>>]
      BY <1>4, HandleEffect
  <2>3. cur[w][1] \in Message /\ DOMAIN cur[w] = {1}
      BY <2>1, BusyHolds
  <2>4. /\ Status(id) = "open" /\ id \in published
        /\ id \notin succeeded \cup dead \cup unanswered \cup acked
        /\ ~HeldSeq(duplicates, id) /\ ~At("Ack", id) /\ ~At("DLQ", id)
      BY <2>0, <2>1, InHandIsOpen
  <2>5. runs[id] <= Limit
    <3>1. runs[id] = cur[w][1].attempts
        BY <2>0, <2>1, <2>3 DEF AttemptsCountRuns, CountsCur, CountsSeq
    <3>2. cur[w][1].attempts \in 0..Limit
        BY <2>3, Parts
    <3> QED BY <3>1, <3>2, Numbers
  <2>6. cur'[w][1].id = id
    <3>1. PICK y : y = [cur[w][1] EXCEPT !.attempts = k]
        OBVIOUS
    <3>2. y.id = id
        BY <2>0, <2>3, <3>1 DEF Message
    <3>3. cur'[w] = <<y>>
        BY <2>2, <3>1 DEF TypeOK
    <3> QED BY <3>2, <3>3
  <2>7. worker'[w] = a /\ \A v \in Workers \ {w} : worker'[v] = worker[v] /\ cur'[v] = cur[v]
      BY <2>2 DEF TypeOK
  <2>8. \A n \in Msgs \ {id} : /\ At("Ack", n)' <=> At("Ack", n)
                               /\ At("DLQ", n)' <=> At("DLQ", n)
      BY <2>0, <2>1, <2>6, <2>7, OneWorkerMoves
  <2>9. \A n \in Msgs \ {id} : Status(n)' = Status(n)
      BY <1>1, <2>1, <2>8, StatusSame
  <2>10. /\ At("Ack", id)' <=> a = "Ack"
         /\ At("DLQ", id)' <=> a = "DLQ"
      BY <2>4, <2>6, <2>7, OneWorkerMoves
  <2>11. Status(id)' = IF a = "Ack" THEN "succeeded" ELSE IF a = "DLQ" THEN "dead" ELSE "open"
      BY <1>1, <2>1, <2>4, <2>10 DEF Status, HeldSeq
  <2>12. PICK s \in {"open", "succeeded", "dead"} : Status(id)' = s
      BY <2>11
  <2>13. [n \in Msgs |-> Status(n)]' = [[n \in Msgs |-> Status(n)] EXCEPT ![id] = s]
      BY <2>9, <2>12, StatusBecomes
  <2>14. Delivered!Run(id)
      BY <2>1, <2>4, <2>5, <2>13 DEF Delivered!Run
  <2> QED BY <2>14 DEF Delivered!Next
<1>5. CASE WorkerAck(w)
  <2>0. PICK id \in Msgs : id = cur[w][1].id
      BY <1>5, BusyHolds DEF WorkerAck
  <2>1. /\ acked' = acked \cup {id} /\ succeeded' = succeeded \cup {id}
        /\ UNCHANGED <<runs, dead>> /\ worker[w] = "Ack"
      BY <1>5, <2>0 DEF WorkerAck
  <2>2. /\ worker'[w] = "mark" /\ cur'[w] = cur[w]
        /\ \A v \in Workers \ {w} : worker'[v] = worker[v] /\ cur'[v] = cur[v]
      BY <1>5 DEF WorkerAck, TypeOK
  <2>3. At("Ack", id) /\ id \in published
    <3>1. HeldCur(worker, cur, id)
        BY <2>0, <2>1, AtHeld
    <3>2. id \in published
        BY <3>1 DEF OnePlace, InOnePlace, Somewhere
    <3> QED BY <2>0, <2>1, <3>2 DEF At
  <2>4. \A n : /\ At("DLQ", n)' <=> At("DLQ", n)
               /\ n # id => (At("Ack", n)' <=> At("Ack", n))
      BY <2>0, <2>1, <2>2, OneWorkerMoves
  <2>5. \A n \in Msgs \ {id} : Status(n)' = Status(n)
      BY <1>1, <2>1, <2>4, StatusSame
  <2>6. Status(id) = "succeeded" /\ Status(id)' = "succeeded"
      BY <1>1, <2>1, <2>3 DEF Status
  <2>7. \A n \in Msgs : Status(n)' = Status(n)
      BY <2>5, <2>6
  <2>8. {id} \in SUBSET Msgs /\ \A n \in {id} : Status(n) \in Delivered!Reasons
      BY <2>6 DEF Delivered!Reasons
  <2> QED BY <2>1, <2>7, <2>8, Settles
<1>6. CASE WorkerDLQ(w)
  <2>0. PICK id \in Msgs : id = cur[w][1].id
      BY <1>6, BusyHolds DEF WorkerDLQ
  <2>1. /\ acked' = acked \cup {id} /\ dead' = dead \cup {id}
        /\ UNCHANGED <<runs, succeeded>> /\ worker[w] = "DLQ"
      BY <1>6, <2>0 DEF WorkerDLQ, DeadLetter
  <2>2. /\ worker'[w] = "idle"
        /\ \A v \in Workers \ {w} : worker'[v] = worker[v] /\ cur'[v] = cur[v]
      BY <1>6 DEF WorkerDLQ, Finish, TypeOK
  <2>3. At("DLQ", id) /\ id \in published /\ id \notin acked
    <3>1. HeldCur(worker, cur, id)
        BY <2>0, <2>1, AtHeld
    <3>2. id \in published /\ id \notin acked
        BY <3>1 DEF OnePlace, InOnePlace, Somewhere, OnlyIn
    <3> QED BY <2>0, <2>1, <3>2 DEF At
  <2>4. ~At("Ack", id)
    <3> SUFFICES ASSUME NEW v \in Workers, worker[v] = "Ack", cur[v][1].id = id PROVE FALSE
        BY DEF At
    <3>1. HeldBy(worker, cur, v, id) /\ HeldBy(worker, cur, w, id)
        BY <2>0, <2>1, AtHeld
    <3>2. v = w
        BY <2>3, <3>1 DEF OnePlace, InOnePlace, OnceInEach, OnceCur
    <3> QED BY <2>1, <3>2
  <2>5. \A n : /\ At("Ack", n)' <=> At("Ack", n)
               /\ n # id => (At("DLQ", n)' <=> At("DLQ", n))
      BY <2>0, <2>1, <2>2, OneWorkerMoves
  <2>6. \A n \in Msgs \ {id} : Status(n)' = Status(n)
      BY <1>1, <2>1, <2>5, StatusSame
  <2>7. id \notin succeeded
      BY <2>3 DEF FilterHolds
  <2>8. Status(id) = "dead" /\ Status(id)' = "dead"
      BY <1>1, <2>1, <2>3, <2>4, <2>5, <2>7 DEF Status
  <2>9. \A n \in Msgs : Status(n)' = Status(n)
      BY <2>6, <2>8
  <2>10. {id} \in SUBSET Msgs /\ \A n \in {id} : Status(n) \in Delivered!Reasons
      BY <2>8 DEF Delivered!Reasons
  <2> QED BY <2>1, <2>9, <2>10, Settles
<1> QED BY <1>2, <1>3, <1>4, <1>5, <1>6 DEF Worker

(* Every step of the pipeline is one of Delivery's, or none.                *)
LEMMA RefinementStep ==
    ASSUME IInv, ReasonsHeld, Next
    PROVE  Delivered!Next \/ UNCHANGED Delivered!vars
<1>1. ASSUME NEW m \in Msgs, Publish(m), ~memClosed PROVE Delivered!Next
  <2>1. /\ m \notin published /\ published' = published \cup {m}
        /\ UNCHANGED <<duplicates, unanswered, worker, cur, acked, dead, succeeded, runs>>
      BY <1>1 DEF Publish
  <2>2. \A point, n : At(point, n)' <=> At(point, n)
      BY <2>1 DEF At
  <2>3. ~HeldCur(worker, cur, m) /\ m \notin acked /\ ~HeldSeq(duplicates, m)
      BY <2>1 DEF IInv, OnePlace, InOnePlace, Somewhere
  <2>4. ~At("Ack", m) /\ ~At("DLQ", m)
      BY <2>3, AtHeld DEF At, IInv
  <2>5. m \notin succeeded \cup dead \cup unanswered
      BY <2>3 DEF IInv, FilterHolds, ReasonsHeld
  <2>6. Status(m) = "absent" /\ Status(m)' = "open"
      BY <2>1, <2>2, <2>3, <2>4, <2>5 DEF Status, HeldSeq
  <2>7. \A n \in Msgs \ {m} : Status(n)' = Status(n)
      BY <2>1, <2>2, StatusSame
  <2>8. [n \in Msgs |-> Status(n)]' = [[n \in Msgs |-> Status(n)] EXCEPT ![m] = "open"]
      BY <2>6, <2>7, StatusBecomes
  <2>9. Delivered!Accept(m)
      BY <2>1, <2>6, <2>8 DEF Delivered!Accept
  <2> QED BY <2>9 DEF Delivered!Next
<1>3. ASSUME NEW m \in Msgs, Publish(m), memClosed PROVE UNCHANGED Delivered!vars
  <2>1. UNCHANGED <<published, duplicates, unanswered, worker, cur, acked, dead, succeeded, runs>>
      BY <1>3 DEF Publish
  <2> QED BY <2>1, QuietStutters
<1>2. CASE Cancel \/ PollFail \/ Expiry \/ Poller
           \/ Ticker \/ Timer \/ Run
           \/ DispTop \/ DispDequeue \/ DispRecheck \/ DispSubmit \/ DispWait
  <2>1. UNCHANGED <<published, duplicates, unanswered, worker, cur, acked, dead, succeeded, runs>>
      BY <1>2 DEF Cancel, PollFail, Expiry, MarkExpires, Poller, PollTop, PollLock,
                  PollWokenCancelled, PollHandle, Ticker, Tick, TickSend, TickStop, Timer,
                  TimerReceive, TimerEnqueue,
                  TimerStop, Run, RunSelect, RunDispWait, RunTimerWait, RunPollerWait,
                  RunPoolWait, RunDrain, RunRequeue, RunReturn, DispTop, DispDequeue,
                  DispRecheck, DispSubmit, DispWait
  <2> QED BY <2>1, QuietStutters
<1> QED BY <1>1, <1>2, <1>3, DispatcherRefines, WorkerRefines DEF Next, Dispatcher

(* The pipeline implements Delivery: whatever the interleaving of poller,   *)
(* wheel, dispatcher, workers and shutdown, whatever the handlers return    *)
(* and the store fails, a handler runs only while its message is open and   *)
(* within its limit, and processMessage and dispatchBatch acknowledge only  *)
(* what has a reason, which stays.                                          *)
THEOREM PipelineImplementsDelivery == Spec => ImplementsDelivery
<1> DEFINE HInv == IInv /\ ReasonsHeld
<1>1. Init => HInv /\ Delivered!Init
  <2> SUFFICES ASSUME Init PROVE HInv /\ Delivered!Init
      OBVIOUS
  <2>1. ReasonsHeld /\ published = {} /\ acked = {} /\ runs = [m \in Msgs |-> 0]
      BY DEF Init, ReasonsHeld
  <2>2. [m \in Msgs |-> Status(m)] = [m \in Msgs |-> "absent"]
      BY <2>1 DEF Status
  <2> QED BY <2>1, <2>2, InvInit DEF Delivered!Init
<1>2. HInv /\ [Next]_vars => HInv'
  <2>1. HInv /\ Next => ReasonsHeld'
      BY ReasonsStep DEF IInv
  <2>2. HInv /\ UNCHANGED vars => ReasonsHeld'
      BY DEF ReasonsHeld, vars
  <2> QED BY <2>1, <2>2, InvStep
<1>3. HInv /\ [Next]_vars => [Delivered!Next]_(Delivered!vars)
  <2>1. HInv /\ Next => Delivered!Next \/ UNCHANGED Delivered!vars
      BY RefinementStep
  <2>2. UNCHANGED vars => UNCHANGED Delivered!vars
      BY QuietStutters DEF vars
  <2> QED BY <2>1, <2>2
<1> QED BY <1>1, <1>2, <1>3, PTL DEF Spec, ImplementsDelivery, Delivered!Spec
=============================================================================
