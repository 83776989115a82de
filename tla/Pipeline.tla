------------------------------ MODULE Pipeline ------------------------------
(***************************************************************************)
(* Pipeline.Run (ringq/ringq.go) over the in-memory transport, or one like *)
(* it whose Subscribe may fail: the poller, the timer wheel and its reader,*)
(* the dispatcher, the worker pool, the idempotency filter and the         *)
(* shutdown sequence, as concurrent goroutines.                            *)
(*                                                                         *)
(* The ring buffer is the abstract queue that RingBuffer implements, under *)
(* the Block policy Run gives it: an Enqueue into a full ring is a step    *)
(* that cannot happen yet.  The timer wheel is the DelayQueue TimerWheel   *)
(* implements: any delayed message may become due at any tick.             *)
(***************************************************************************)
EXTENDS Integers, Sequences, FiniteSets, FiniteSetsExt

CONSTANTS Msgs,        \* the messages applications publish, each once
          Workers,     \* the goroutines of the pool (Concurrency)
          RingSize,    \* capacity of the ring buffer
          BatchMax,    \* what the dispatcher takes from the ring at once: 10
          DrainMax,    \* ... and once the context is cancelled: 100
          OutSize,     \* capacity of the wheel's output channel: 64
          MaxRetries,  \* maxRetries of the handlers
          RetryDelay,  \* base delay of the handlers
          Custom,      \* TRUE: handlers use retry.Coordinator
          Delayed,     \* messages with NotBefore > 0
          Unknown,     \* messages whose topic has no handler
          Verdicts,    \* Results handlers may return
          Key,         \* Key[m]: m's idempotency key, or NoKey
          NoKey,
          StoreFails,  \* TRUE: the IdemStore may return errors
          PollFails    \* TRUE: Subscribe may return an error

(* Delays stay far below the width of a Duration here; RetryLoop looks at   *)
(* the overflow.                                                            *)
Policy == INSTANCE RetryPolicy WITH Width <- 16, DelayCap <- 300

ASSUME PipelineAssumption ==
    /\ RingSize \in Nat \ {0} /\ OutSize \in Nat \ {0}
    /\ BatchMax \in Nat \ {0} /\ DrainMax \in Nat \ {0}
    /\ MaxRetries \in Nat /\ RetryDelay \in Nat /\ Custom \in BOOLEAN
    /\ StoreFails \in BOOLEAN /\ PollFails \in BOOLEAN
    /\ IsFiniteSet(Workers)
    /\ Verdicts \subseteq [action : Policy!Actions, delay : Int]
    /\ Delayed \subseteq Msgs /\ Unknown \subseteq Msgs

VARIABLES
    cancelled,  \* the context given to Run is done
    published,  \* messages Transport.Publish has accepted
    mem,        \* memory.Transport.messages
    memClosed,  \* memory.Transport.closed
    ring,       \* the ring buffer's contents
    ringClosed,
    wheel,      \* items in the timer wheel's buckets
    wheelClosed,
    expired,    \* the batch the wheel goroutine is sending
    out,        \* the wheel's output channel: batches
    outClosed,
    marked,     \* keys in the IdemStore, not expired
    storeClosed,
    work,       \* the pool's workCh: submitted messages
    workClosed,
    pend,       \* the WaitGroup of the current dispatchBatch
    run, rest,  \* where Run itself is, and what it drained from the wheel
    poller, pbatch,      \* the poller, and what it still has to hand on
    timer, tbatch,       \* runTimer, likewise
    ticker,              \* the wheel goroutine
    disp, dbatch,        \* the dispatcher, and what it has to ask about or submit
    kept, duplicates,    \* what filterDuplicates has made of the batch so far
    draining,            \* the dispatcher has seen the context cancelled
    worker, cur,         \* the workers, and the message each is processing
    acked,      \* messages acknowledged
    dead,       \* messages sent to the DLQ
    runs,       \* runs[m]: how often m's handler has run
    succeeded,  \* messages whose handler returned Ack
    together,   \* pairs of messages with one key last dequeued in one batch
    unanswered, \* messages for which Exists has returned an error
    unmarked    \* keys for which Mark has returned an error, or has expired

transport == <<published, mem, memClosed>>
ringVars == <<ring, ringClosed>>
wheelVars == <<wheel, wheelClosed, expired, ticker, out, outClosed>>
storeVars == <<marked, storeClosed>>
poolVars == <<work, workClosed, pend, worker, cur>>
pollVars == <<poller, pbatch>>
timerVars == <<timer, tbatch>>
runVars == <<run, rest>>
filtered == <<kept, duplicates>>
dispVars == <<disp, dbatch, filtered, draining>>
history == <<acked, dead, runs, succeeded, together, unanswered, unmarked>>
vars == <<cancelled, transport, ringVars, wheelVars, storeVars, poolVars, runVars,
          pollVars, timerVars, dispVars, history>>

(* What the steps of one goroutine leave alone.                             *)
notPoller == <<cancelled, published, memClosed, ringClosed, wheelClosed, expired, ticker, out,
               outClosed, storeVars, poolVars, runVars, timerVars, dispVars, history>>
notTicker == <<cancelled, transport, ringVars, storeVars, poolVars, runVars, pollVars,
               timerVars, dispVars, history>>
notTimer == <<cancelled, transport, ringClosed, wheel, wheelClosed, expired, ticker, outClosed,
              storeVars, poolVars, runVars, pollVars, dispVars, history>>
notDispatcher == <<cancelled, transport, ringClosed, wheelVars, storeVars, workClosed, worker,
                   cur, runVars, pollVars, timerVars, dead, runs, succeeded, unmarked>>
notWorker == <<cancelled, published, memClosed, ringClosed, wheelVars, storeClosed, workClosed,
               runVars, pbatch, timerVars, dispVars, together, unanswered>>
notRun == <<cancelled, published, mem, expired, ticker, out, outClosed, marked, work, pend,
            worker, cur, pbatch, timerVars, dispVars, history>>

Wheel == INSTANCE DelayQueue WITH Items <- Msgs, waiting <- wheel, batch <- expired,
                                  loop <- ticker, closed <- wheelClosed

(* The retries the handlers' coordinator allows.                            *)
Limit == IF Custom THEN Policy!DefaultRetries(MaxRetries) ELSE MaxRetries

(* A Message on its way: which one, and its Attempts.                       *)
Message == [id : Msgs, attempts : 0..Limit]
Fresh(m) == [id |-> m, attempts |-> 0]

Keys == {Key[m] : m \in Msgs} \ {NoKey}

Least(i, j) == IF i < j THEN i ELSE j

-----------------------------------------------------------------------------
Init ==
    /\ cancelled = FALSE
    /\ published = {} /\ mem = <<>> /\ memClosed = FALSE
    /\ ring = <<>> /\ ringClosed = FALSE
    /\ Wheel!Init /\ out = <<>> /\ outClosed = FALSE
    /\ marked = {} /\ storeClosed = FALSE
    /\ work = <<>> /\ workClosed = FALSE /\ pend = 0
    /\ run = "select" /\ rest = {}
    /\ poller = "top" /\ pbatch = <<>>
    /\ timer = "select" /\ tbatch = {}
    /\ disp = "top" /\ dbatch = <<>> /\ draining = FALSE
    /\ kept = <<>> /\ duplicates = <<>>
    /\ worker = [w \in Workers |-> "idle"]
    /\ cur = [w \in Workers |-> <<>>]
    /\ acked = {} /\ dead = {}
    /\ runs = [m \in Msgs |-> 0] /\ succeeded = {}
    /\ together = {}
    /\ unanswered = {} /\ unmarked = {}

-----------------------------------------------------------------------------
(* The contexts Run derives for dispatcher and timer: done with its own, or *)
(* when Run cancels them.                                                   *)
DispDone == cancelled \/ run # "select"
TimerDone == cancelled \/ run \notin {"select", "dispWg"}

(* Mutant: the subscriber is not woken.                                     *)
WokenNot == poller

(* cond.Signal, cond.Broadcast: the one subscriber wakes up.                *)
Woken == IF poller = "asleep" THEN "woken" ELSE poller

(* memory.Transport.Publish appends and signals, unless closed.             *)
Deliver(msg) ==
    IF memClosed THEN UNCHANGED <<mem, poller>>
                 ELSE mem' = Append(mem, msg) /\ poller' = Woken

(* A Publish to the closed transport reports success and does nothing.      *)
Publish(m) ==
    /\ m \notin published
    /\ published' = IF memClosed THEN published ELSE published \cup {m}
    /\ Deliver(Fresh(m))
    /\ UNCHANGED <<cancelled, memClosed, ringVars, wheelVars, storeVars, poolVars, runVars,
                   pbatch, timerVars, dispVars, history>>

(* Nack publishes the message again, whatever the delay.                    *)
Nack(msg) == Deliver(msg)

(* Close broadcasts.                                                        *)
CloseTransport == memClosed' = TRUE /\ poller' = Woken

Cancel ==
    /\ ~cancelled
    /\ cancelled' = TRUE
    /\ UNCHANGED <<transport, ringVars, wheelVars, storeVars, poolVars, runVars,
                   pollVars, timerVars, dispVars, history>>

(* Mutant: the ring grows instead of blocking.                              *)
EnqueueUnbounded(msg) == ring' = IF ringClosed THEN ring ELSE Append(ring, msg)

(* ring.Buffer.Enqueue under Block: waits for room; dropped once closed.    *)
Enqueue(msg) ==
    /\ Len(ring) < RingSize \/ ringClosed
    /\ ring' = IF ringClosed THEN ring ELSE Append(ring, msg)

-----------------------------------------------------------------------------
(* The poller: memory.Transport.Subscribe with runPoller's handler.         *)
PollTop ==
    /\ poller = "top"
    /\ poller' = IF cancelled THEN "done" ELSE "lock"
    /\ UNCHANGED <<pbatch, mem, ring, wheel, notPoller>>

(* Mutant: t.messages is not reset once it has been taken.                  *)
LeftoverAll == mem

(* What Subscribe leaves in t.messages.                                     *)
Leftover == <<>>

(* Under the mutex: take everything, return, or sleep.  A sleeper that is   *)
(* woken looks at the context first.                                        *)
PollLock ==
    /\ poller = "lock" \/ (poller = "woken" /\ ~cancelled)
    /\ IF mem # <<>> THEN poller' = "handle" /\ pbatch' = mem /\ mem' = Leftover
       ELSE /\ poller' = IF memClosed THEN "done" ELSE "asleep"
            /\ UNCHANGED <<pbatch, mem>>
    /\ UNCHANGED <<ring, wheel, notPoller>>

PollWokenCancelled ==
    /\ poller = "woken" /\ cancelled
    /\ poller' = "done"
    /\ UNCHANGED <<pbatch, mem, ring, wheel, notPoller>>

(* A transport that gives up on an error of its service, as SQS does when   *)
(* ReceiveMessage fails: the poller goroutine cancels pollCtx.              *)
PollFail ==
    /\ PollFails /\ poller = "lock"
    /\ poller' = "failed"
    /\ UNCHANGED <<pbatch, mem, ring, wheel, notPoller>>

(* The next message of the batch goes to the timer wheel or into the ring.  *)
PollHandle ==
    /\ poller = "handle" /\ pbatch # <<>>
    /\ IF Head(pbatch).id \in Delayed
         THEN Wheel!Insert(Head(pbatch)) /\ UNCHANGED ring
         ELSE Enqueue(Head(pbatch)) /\ UNCHANGED wheel
    /\ pbatch' = Tail(pbatch)
    /\ poller' = IF Len(pbatch) = 1 THEN "top" ELSE "handle"
    /\ UNCHANGED <<mem, notPoller>>

PollOver == poller \in {"done", "failed"}

-----------------------------------------------------------------------------
(* The timer wheel's goroutine (Wheel.Start) and its reader (runTimer).     *)
Tick ==
    /\ Wheel!Expire
    /\ UNCHANGED <<out, outClosed, notTicker>>

TickSend ==
    /\ Wheel!Send
    /\ Len(out) < OutSize /\ out' = Append(out, expired)
    /\ UNCHANGED <<outClosed, notTicker>>

(* In both selects ctx.Done may win.                                        *)
TickStop ==
    /\ Wheel!Stop
    /\ TimerDone /\ outClosed' = TRUE
    /\ UNCHANGED <<out, notTicker>>

TimerReceive ==
    /\ timer = "select" /\ out # <<>>
    /\ tbatch' = Head(out) /\ out' = Tail(out)
    /\ timer' = "enqueue"
    /\ UNCHANGED <<ring, notTimer>>

TimerEnqueue ==
    /\ timer = "enqueue"
    /\ \E msg \in tbatch :
        /\ Enqueue(msg)
        /\ tbatch' = tbatch \ {msg}
        /\ timer' = IF tbatch = {msg} THEN "select" ELSE "enqueue"
    /\ UNCHANGED <<out, notTimer>>

TimerStop ==
    /\ timer = "select"
    /\ TimerDone \/ (outClosed /\ out = <<>>)
    /\ timer' = "done"
    /\ UNCHANGED <<tbatch, out, ring, notTimer>>

-----------------------------------------------------------------------------
(* The dispatcher: runDispatcher and dispatchBatch.                         *)
DispTop ==
    /\ disp = "top"
    /\ disp' = "poll"
    /\ draining' = (draining \/ DispDone)
    /\ UNCHANGED <<dbatch, filtered, ring, work, pend, acked, together, unanswered,
                   notDispatcher>>

(* The pairs in a batch that have the same key, or none.                    *)
Alike(batch) == {pair \in kSubset(2, batch) : \A m, other \in pair : Key[m] = Key[other]}

(* DequeueBatch; an empty batch ends a draining dispatcher.                 *)
DispDequeue ==
    /\ disp = "poll"
    /\ LET n == Least(Len(ring), IF draining THEN DrainMax ELSE BatchMax) IN
         IF n = 0
           THEN /\ disp' = IF draining THEN "done" ELSE "recheck"
                /\ UNCHANGED <<ring, dbatch, together>>
           ELSE /\ dbatch' = SubSeq(ring, 1, n)
                /\ ring' = SubSeq(ring, n + 1, Len(ring))
                /\ disp' = "filter"
                /\ LET batch == {ring[i].id : i \in 1..n}
                   IN  together' = {pair \in together : pair \cap batch = {}}
                                        \cup Alike(batch)
    /\ UNCHANGED <<filtered, draining, work, pend, acked, unanswered, notDispatcher>>

(* The second look at the context, after an empty batch.                    *)
DispRecheck ==
    /\ disp = "recheck"
    /\ disp' = IF DispDone THEN "done" ELSE "top"
    /\ UNCHANGED <<dbatch, filtered, draining, ring, work, pend, acked, together, unanswered,
                   notDispatcher>>

(* Mutants: the store's answer is ignored; a message without a key counts as *)
(* a duplicate.                                                              *)
IsDuplicateNever(msg, err) == FALSE
IsDuplicateWithoutKey(msg, err) == Key[msg.id] \in marked \cup {NoKey} \/ err

(* filterDuplicates: a key the store knows, or cannot answer for, makes its *)
(* message a duplicate.                                                     *)
IsDuplicate(msg, err) == Key[msg.id] # NoKey /\ (Key[msg.id] \in marked \/ err)

(* Exists may fail where the store is asked.                                *)
Errors(msg) == IF StoreFails /\ Key[msg.id] # NoKey THEN BOOLEAN ELSE {FALSE}

(* The loop of filterDuplicates, one message at a time.                     *)
DispAsk ==
    /\ disp = "filter" /\ dbatch # <<>>
    /\ LET msg == Head(dbatch) IN \E err \in Errors(msg) :
        /\ IF IsDuplicate(msg, err)
             THEN duplicates' = Append(duplicates, msg) /\ UNCHANGED kept
             ELSE kept' = Append(kept, msg) /\ UNCHANGED duplicates
        /\ unanswered' = IF err THEN unanswered \cup {msg.id} ELSE unanswered
    /\ dbatch' = Tail(dbatch)
    /\ UNCHANGED <<disp, draining, ring, work, pend, acked, together, notDispatcher>>

(* Mutant: the duplicates are submitted as well.                            *)
RemainingAll == kept \o duplicates

(* messages = filtered.                                                     *)
Remaining == kept

(* Duplicates are acknowledged without being run, the others are submitted. *)
DispFiltered ==
    /\ disp = "filter" /\ dbatch = <<>>
    /\ dbatch' = Remaining /\ kept' = <<>>
    /\ acked' = acked \cup {duplicates[i].id : i \in DOMAIN duplicates}
    /\ duplicates' = <<>>
    /\ disp' = "submit"
    /\ UNCHANGED <<draining, ring, work, pend, together, unanswered, notDispatcher>>

(* wg.Add and Pool.Submit: the send waits while workCh is full.             *)
DispSubmit ==
    /\ disp = "submit" /\ dbatch # <<>>
    /\ Len(work) < Cardinality(Workers)
    /\ work' = Append(work, Head(dbatch))
    /\ pend' = pend + 1
    /\ dbatch' = Tail(dbatch)
    /\ UNCHANGED <<disp, filtered, draining, ring, acked, together, unanswered, notDispatcher>>

(* Mutant: the dispatcher does not wait for the batch.                      *)
BatchSubmitted == TRUE

(* wg.Wait: all messages of the batch are finished.                         *)
BatchFinished == pend = 0

DispWait ==
    /\ disp = "submit" /\ dbatch = <<>> /\ BatchFinished
    /\ disp' = IF draining THEN "poll" ELSE "top"
    /\ UNCHANGED <<dbatch, filtered, draining, ring, work, pend, acked, together, unanswered,
                   notDispatcher>>

-----------------------------------------------------------------------------
(* A worker of the pool: processMessage and handleUnknownTopic.             *)
WorkerTake(w) ==
    /\ worker[w] = "idle" /\ work # <<>>
    /\ cur' = [cur EXCEPT ![w] = <<Head(work)>>]
    /\ work' = Tail(work)
    /\ worker' = [worker EXCEPT ![w] = IF Head(work).id \in Unknown THEN "DLQ" ELSE "handle"]
    /\ UNCHANGED <<pend, ring, mem, poller, marked, acked, dead, runs, succeeded, unmarked,
                   notWorker>>

(* Pool.StopDispatching: the workers leave once workCh is empty.            *)
StopDispatching == workClosed' = TRUE

WorkerExit(w) ==
    /\ worker[w] = "idle" /\ workClosed /\ work = <<>>
    /\ worker' = [worker EXCEPT ![w] = "exited"]
    /\ UNCHANGED <<work, pend, cur, ring, mem, poller, marked, acked, dead, runs, succeeded,
                   unmarked, notWorker>>

(* Mutant: the outcome carries the message as it was, Attempts included.    *)
ResolveOutcomeForgets(msg, result) ==
    {[o EXCEPT !.attempts = msg.attempts] :
        o \in Policy!CoordinatorHandle(MaxRetries, RetryDelay, msg.attempts, result)}

ResolveOutcome(msg, result) ==
    IF Custom THEN Policy!CoordinatorHandle(MaxRetries, RetryDelay, msg.attempts, result)
              ELSE Policy!DefaultHandle(MaxRetries, RetryDelay, msg.attempts, result)

(* The handler runs and its result is turned into an outcome.               *)
Handle(w) ==
    /\ worker[w] = "handle"
    /\ LET msg == cur[w][1] IN
       /\ runs' = [runs EXCEPT ![msg.id] = @ + 1]
       /\ \E result \in Verdicts : \E o \in ResolveOutcome(msg, result) :
            /\ worker' = [worker EXCEPT ![w] = o.action]
            /\ cur' = [cur EXCEPT ![w] = <<[msg EXCEPT !.attempts = o.attempts]>>]
    /\ UNCHANGED <<work, pend, ring, mem, poller, marked, acked, dead, succeeded, unmarked,
                   notWorker>>

(* wg.Done, and back to workCh.                                             *)
Finish(w) ==
    /\ worker' = [worker EXCEPT ![w] = "idle"]
    /\ cur' = [cur EXCEPT ![w] = <<>>]
    /\ pend' = pend - 1
    /\ UNCHANGED work

(* Ack: the transport first, the IdemStore in a step of its own.            *)
WorkerAck(w) ==
    /\ worker[w] = "Ack"
    /\ acked' = acked \cup {cur[w][1].id}
    /\ succeeded' = succeeded \cup {cur[w][1].id}
    /\ worker' = [worker EXCEPT ![w] = "mark"]
    /\ UNCHANGED <<work, pend, cur, ring, mem, poller, marked, dead, runs, unmarked, notWorker>>

(* idemFilter.mark: nothing for a message without a key; errors are ignored.*)
MarkKey(m) ==
    \/ marked' = marked \cup ({Key[m]} \ {NoKey}) /\ UNCHANGED unmarked
    \/ /\ StoreFails /\ Key[m] # NoKey
       /\ unmarked' = unmarked \cup {Key[m]}
       /\ UNCHANGED marked

(* A mark lives as long as the filter's TTL.                                *)
MarkExpires(key) ==
    /\ key \in marked
    /\ marked' = marked \ {key}
    /\ unmarked' = unmarked \cup {key}
    /\ UNCHANGED <<cancelled, transport, ringVars, wheelVars, storeClosed, poolVars, runVars,
                   pollVars, timerVars, dispVars, acked, dead, runs, succeeded, together,
                   unanswered>>

WorkerMark(w) ==
    /\ worker[w] = "mark"
    /\ MarkKey(cur[w][1].id)
    /\ Finish(w)
    /\ UNCHANGED <<ring, mem, poller, acked, dead, runs, succeeded, notWorker>>

(* Retry: straight back into the ring, waiting there if it is full.         *)
WorkerRetry(w) ==
    /\ worker[w] = "Retry"
    /\ Enqueue(cur[w][1])
    /\ Finish(w)
    /\ UNCHANGED <<mem, poller, marked, acked, dead, runs, succeeded, unmarked, notWorker>>

(* RetryWithDelay: the delay is the transport's affair.                     *)
WorkerNack(w) ==
    /\ worker[w] = "RetryWithDelay"
    /\ Nack(cur[w][1])
    /\ Finish(w)
    /\ UNCHANGED <<ring, marked, acked, dead, runs, succeeded, unmarked, notWorker>>

(* SendToDLQ, which succeeds here, and Ack: after a DLQ outcome as for an   *)
(* unknown topic.                                                           *)
DeadLetter(m) ==
    /\ dead' = dead \cup {m}
    /\ acked' = acked \cup {m}

WorkerDLQ(w) ==
    /\ worker[w] = "DLQ"
    /\ DeadLetter(cur[w][1].id)
    /\ Finish(w)
    /\ UNCHANGED <<ring, mem, poller, marked, runs, succeeded, unmarked, notWorker>>

-----------------------------------------------------------------------------
(* Run itself: wait for its context or the poller's, then shut down part by *)
(* part.                                                                    *)
RunMoves(from, to) == run = from /\ run' = to

RunSelect ==
    /\ RunMoves("select", "dispWg") /\ (cancelled \/ poller = "failed")
    /\ UNCHANGED <<rest, poller, memClosed, workClosed, ringVars, wheel, wheelClosed,
                   storeClosed, notRun>>

(* Mutant: Run does not wait for the dispatcher.                            *)
DispatcherTold == TRUE

(* dispWg.Wait                                                              *)
DispatcherLeft == disp = "done"

RunDispWait ==
    /\ RunMoves("dispWg", "timerWg") /\ DispatcherLeft
    /\ UNCHANGED <<rest, poller, memClosed, workClosed, ringVars, wheel, wheelClosed,
                   storeClosed, notRun>>

(* timerWg.Wait, then transport.Close.                                      *)
RunTimerWait ==
    /\ RunMoves("timerWg", "pollerWg") /\ timer = "done"
    /\ CloseTransport
    /\ UNCHANGED <<rest, workClosed, ringVars, wheel, wheelClosed, storeClosed, notRun>>

(* pollerWg.Wait, then StopDispatching.                                     *)
RunPollerWait ==
    /\ RunMoves("pollerWg", "pool") /\ PollOver
    /\ StopDispatching
    /\ UNCHANGED <<rest, poller, memClosed, ringVars, wheel, wheelClosed, storeClosed, notRun>>

(* pool.Wait, then ringBuf.Close.                                           *)
RunPoolWait ==
    /\ RunMoves("pool", "drain") /\ \A w \in Workers : worker[w] = "exited"
    /\ ringClosed' = TRUE
    /\ UNCHANGED <<rest, poller, memClosed, workClosed, ring, wheel, wheelClosed, storeClosed,
                   notRun>>

(* tw.Drain empties the wheel; its items are enqueued one by one.           *)
RunDrain ==
    /\ RunMoves("drain", "requeue")
    /\ Wheel!Drain /\ rest' = wheel
    /\ UNCHANGED <<poller, memClosed, workClosed, ringVars, storeClosed, notRun>>

RunRequeue ==
    /\ run = "requeue"
    /\ \E msg \in rest : Enqueue(msg) /\ rest' = rest \ {msg}
    /\ UNCHANGED <<run, poller, memClosed, workClosed, ringClosed, wheel, wheelClosed,
                   storeClosed, notRun>>

(* idemFilter.close, and Run returns.                                       *)
RunReturn ==
    /\ RunMoves("requeue", "returned") /\ rest = {}
    /\ storeClosed' = TRUE
    /\ UNCHANGED <<rest, poller, memClosed, workClosed, ringVars, wheel, wheelClosed, notRun>>

-----------------------------------------------------------------------------
Expiry == \E key \in Keys : MarkExpires(key)
Poller == PollTop \/ PollLock \/ PollWokenCancelled \/ PollHandle
Ticker == Tick \/ TickSend \/ TickStop
Timer == TimerReceive \/ TimerEnqueue \/ TimerStop
Dispatcher == DispTop \/ DispDequeue \/ DispRecheck \/ DispAsk \/ DispFiltered \/ DispSubmit
                  \/ DispWait
Worker(w) ==
    \/ WorkerTake(w) \/ WorkerExit(w) \/ Handle(w) \/ WorkerAck(w) \/ WorkerMark(w)
    \/ WorkerRetry(w) \/ WorkerNack(w) \/ WorkerDLQ(w)
Run == RunSelect \/ RunDispWait \/ RunTimerWait \/ RunPollerWait \/ RunPoolWait
           \/ RunDrain \/ RunRequeue \/ RunReturn

Next ==
    \/ \E m \in Msgs : Publish(m)
    \/ Cancel \/ PollFail \/ Expiry
    \/ Poller \/ Ticker \/ Timer \/ Dispatcher \/ Run
    \/ \E w \in Workers : Worker(w)

Spec == Init /\ [][Next]_vars

(* Every goroutine keeps being scheduled, handlers return and the clock     *)
(* reaches every delayed message.  Nobody must publish, cancel or fail, and *)
(* no mark has to expire.                                                   *)
Fairness ==
    /\ WF_vars(Poller) /\ WF_vars(Ticker) /\ WF_vars(Timer)
    /\ WF_vars(Dispatcher) /\ WF_vars(Run)
    /\ \A w \in Workers : WF_vars(Worker(w))

FairSpec == Spec /\ Fairness

-----------------------------------------------------------------------------
(* Every queue stays within its capacity: the ring, the wheel's channel and *)
(* workCh; every goroutine is at one of its program points.                 *)
TypeOK ==
    /\ cancelled \in BOOLEAN /\ published \subseteq Msgs
    /\ mem \in Seq(Message) /\ memClosed \in BOOLEAN
    /\ ring \in Seq(Message) /\ Len(ring) <= RingSize /\ ringClosed \in BOOLEAN
    /\ wheel \subseteq Message /\ wheelClosed \in BOOLEAN /\ expired \subseteq Message
    /\ out \in Seq(SUBSET Message) /\ Len(out) <= OutSize /\ outClosed \in BOOLEAN
    /\ marked \subseteq Keys /\ storeClosed \in BOOLEAN
    /\ work \in Seq(Message) /\ Len(work) <= Cardinality(Workers)
    /\ workClosed \in BOOLEAN /\ pend \in Nat
    /\ run \in {"select", "dispWg", "timerWg", "pollerWg", "pool", "drain",
                "requeue", "returned"}
    /\ rest \subseteq Message
    /\ poller \in {"top", "lock", "asleep", "woken", "handle", "done", "failed"}
    /\ pbatch \in Seq(Message)
    /\ timer \in {"select", "enqueue", "done"} /\ tbatch \subseteq Message
    /\ ticker \in {"select", "send", "done"}
    /\ disp \in {"top", "poll", "recheck", "filter", "submit", "done"}
    /\ dbatch \in Seq(Message) /\ kept \in Seq(Message) /\ duplicates \in Seq(Message)
    /\ draining \in BOOLEAN
    /\ worker \in [Workers -> {"idle", "handle", "Ack", "mark", "Retry",
                               "RetryWithDelay", "DLQ", "exited"}]
    /\ cur \in [Workers -> Seq(Message)]
    /\ acked \subseteq Msgs /\ dead \subseteq Msgs /\ succeeded \subseteq Msgs
    /\ runs \in [Msgs -> Nat] /\ together \subseteq kSubset(2, Msgs)
    /\ unanswered \subseteq Msgs /\ unmarked \subseteq Keys

Busy == {w \in Workers : worker[w] \notin {"idle", "exited"}}

(* Where a message is being held, one element per place.                    *)
InSeq(name, seq, m) == {<<name, i>> : i \in {j \in DOMAIN seq : seq[j].id = m}}
InSet(name, set, m) == {<<name, msg>> : msg \in {x \in set : x.id = m}}
Places(m) ==
    InSeq("mem", mem, m) \cup InSeq("poller", pbatch, m) \cup InSeq("ring", ring, m)
    \cup InSet("wheel", wheel, m) \cup InSet("expired", expired, m)
    \cup (UNION {InSet(i, out[i], m) : i \in DOMAIN out})
    \cup InSet("timer", tbatch, m) \cup InSet("rest", rest, m)
    \cup InSeq("dispatcher", dbatch, m) \cup InSeq("kept", kept, m)
    \cup InSeq("duplicates", duplicates, m) \cup InSeq("work", work, m)
    \cup (UNION {InSeq(w, cur[w], m) : w \in {v \in Workers : worker[v] # "mark"}})
    \cup {<<"acked", n>> : n \in acked \cap {m}}

(* Run is about to shut down, or shutting down.                             *)
Stopping == cancelled \/ poller = "failed"

(* A message the transport accepted is in exactly one place, acknowledged   *)
(* included: no hand-over between goroutines loses or copies it.  Shutdown  *)
(* leaves it in the queue it is in, with one exception: it drops delayed    *)
(* messages, the batch of a wheel whose context is done and what Run drains *)
(* from the wheel and puts into the ring that it has closed before.         *)
EachInOnePlace ==
    \A m \in Msgs :
        /\ Cardinality(Places(m)) <= (IF m \in published THEN 1 ELSE 0)
        /\ m \in published => Places(m) # {} \/ (m \in Delayed /\ (outClosed \/ ringClosed))

(* Between two batches no message is with the pool: wg counts exactly the   *)
(* messages submitted and not finished, and the dispatcher waits for them.  *)
OneBatchAtATime ==
    /\ pend = Len(work) + Cardinality(Busy)
    /\ disp # "submit" => pend = 0

(* Poller, timer, dispatcher and workers have left.                         *)
OnlyRunLeft ==
    PollOver /\ timer = "done" /\ disp = "done" /\ \A w \in Workers : worker[w] = "exited"

(* Shutdown closes workCh, ring and store after their last use by any       *)
(* goroutine it waits for: a Submit on the closed workCh and a Mark in the  *)
(* closed MemoryStore would panic, a Retry on the closed ring would vanish. *)
(* Run itself is the exception: it closes the ring first and then enqueues  *)
(* there what it has drained from the wheel, all of which is dropped.       *)
ClosedAfterLastUse ==
    /\ workClosed => disp = "done"
    /\ ringClosed => OnlyRunLeft
    /\ rest # {} => ringClosed
    /\ storeClosed => OnlyRunLeft /\ rest = {}

(* Attempts travels with the message through ring, wheel and transport, so  *)
(* a handler never runs more than its limit allows.                         *)
RunsBounded == \A m \in Msgs : runs[m] <= Limit + 1

(* Two messages with one key are both processed only if one batch held      *)
(* both, where the filter asks about all messages before any is marked, or  *)
(* if the Mark between them failed, or has expired since.                   *)
DuplicatesOnlyWithinBatch ==
    \A m, n \in succeeded :
        m # n /\ Key[m] = Key[n] /\ Key[m] # NoKey
            => {m, n} \in together \/ Key[m] \in unmarked

(* At-least-once delivery: what is acknowledged was processed, went to the  *)
(* DLQ, or repeats a message that was processed.  The one exception is what *)
(* filterDuplicates makes of an error of the store: a message whose key     *)
(* could not be looked up is acknowledged as a duplicate.                   *)
AckedWasProcessed ==
    \A m \in acked \ unanswered :
        \/ m \in dead
        \/ \E n \in succeeded : n = m \/ (Key[n] = Key[m] /\ Key[m] # NoKey)

(* What has become of a message: the reason why its handler will not run    *)
(* (again), fixed by the coordinator's outcome, the topic or the filter, or *)
(* that it is open.                                                         *)
At(point, m) == \E w \in Workers : worker[w] = point /\ cur[w][1].id = m
Status(m) ==
    IF m \notin published THEN "absent"
    ELSE IF m \in succeeded \/ At("Ack", m) THEN "succeeded"
    ELSE IF m \in dead \/ At("DLQ", m) THEN "dead"
    ELSE IF m \in unanswered THEN "dropped"
    ELSE IF m \in acked \/ \E i \in DOMAIN duplicates : duplicates[i].id = m THEN "duplicate"
    ELSE "open"

Delivered == INSTANCE Delivery WITH status <- [m \in Msgs |-> Status(m)], settled <- acked

(* Through ring, wheel, transport and store, in a shutdown too, a message   *)
(* meets the promise of Delivery: its handler never runs once there is a    *)
(* reason not to, nor beyond its limit, and nothing is acknowledged without *)
(* its reason, which never changes.                                         *)
ImplementsDelivery == Delivered!Spec

(* Everyone waits for everyone: the ring is full and its only consumer, the *)
(* dispatcher, has left, while poller or timer wait for room; or it waits   *)
(* for a batch one of whose workers waits for room to re-enqueue a Retry.   *)
StuckOnRing ==
    /\ Len(ring) = RingSize
    /\ \/ /\ disp = "done"
          /\ timer = "enqueue"
             \/ (poller = "handle" /\ pbatch # <<>> /\ Head(pbatch).id \notin Delayed)
       \/ disp = "submit" /\ \E w \in Workers : worker[w] = "Retry"

(* Run returns once its context is cancelled or Subscribe has failed, unless *)
(* it is stuck.                                                              *)
ShutdownCompletes == Stopping ~> (run = "returned" \/ StuckOnRing)

(* While the pipeline runs, a message is acknowledged in the end, by its    *)
(* handler's success or by way of the DLQ, unless the pipeline is stuck.    *)
SettledUnlessStuck ==
    \A m \in Msgs : m \in published ~> (m \in acked \/ Stopping \/ StuckOnRing)

(* README: "Poison message (always fails) | Attempts exhausted -> DLQ": the *)
(* same without the exception.  Stopping the pipeline is a way out of this  *)
(* formula only, not for a worker that waits for room.                      *)
EventuallySettled ==
    \A m \in Msgs : m \in published ~> (m \in acked \/ Stopping)
=============================================================================
