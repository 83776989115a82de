# A verification of go-task-orbit

TLA+ specifications of the go-task-orbit worker library, the TLC models that check them on
small instances, and TLAPS proofs of what matters most for every size.

## The system

A `Pipeline` consumes messages from a transport and runs application handlers on them.

| Part | State | Operations | What is hard about it |
|---|---|---|---|
| Ring buffer (`ring/`) | slots, cursors `head`/`tail`, `count`, `closed`, two atomics | Enqueue, EnqueueBatch, Dequeue, DequeueBatch, Len, Close | one condition variable for everybody; wrap-around; `Len` without the mutex |
| Pipeline runtime (`ringq/ringq.go`) | where Run, poller, timer, dispatcher and workers are; the batch each holds | Run, runPoller, runTimer, runDispatcher, dispatchBatch, processMessage | five kinds of goroutines that wait for each other; a shutdown in eight stages |
| Worker pool (`executor/`) | `workCh`, WaitGroup | Start, Submit, StopDispatching, Wait | a Submit after the channel is closed panics |
| Retry coordinators (`ringq/ringq.go`, `retry/`) | none; `Attempts` travels in the message | Handle | two implementations of one interface; limits; overflow of the backoff |
| Timer wheel (`internal/timerwheel/`) | buckets by second, `closed` | Insert, Start, expire, Drain, Close | two roundings; dropped ticks; cancellation while sending |
| Idempotency filter (`ringq/filter.go`) | none | filterDuplicates, mark, close | checks a batch first, marks it later |
| Memory store (`idempotency/store_memory.go`) | key → expiry time | Exists, Mark, Close, evict | decides under one lock, acts under another |
| In-memory transport (`transport/memory/`) | queued messages, `closed` | Publish, Subscribe, Nack, Close | a condition variable that does not know the context |
| Pub/Sub transport (`transport/pubsub/`) | `inflight` by message ID, a `done` channel per delivery | Subscribe, Ack, Nack, SendToDLQ | callbacks that wait for the pipeline; redelivery under the same ID |
| SQS transport (`transport/sqs/`) | remote: the queue, receipts, the dead letter queue | Publish, Subscribe, Ack, Nack, SendToDLQ | visibility timeouts that nothing extends; stale receipts; calls that fail once the context is done; a failing receive stops the pipeline |
| Redis Streams transport (`transport/redisstreams/`) | remote: stream, consumer group with its pending entries | bootstrap, recoverStale, Publish, Subscribe, Ack, Nack, SendToDLQ | what is pending when a process ends; XCLAIM and XACK in the roles of retry and recovery |
| Redis store (`idempotency/store_redis.go`) | remote: keys with a time to live | Exists, Mark, Close | shared by pods, checked and marked in two calls that may fail; a second Mark does not prolong the first |
| Redis Pub/Sub transport | none | Publish, Subscribe | fire and forget |

The poller hands received messages to the ring, or to the timer wheel if they are delayed; the
timer moves due messages from the wheel to the ring; the dispatcher takes batches from the ring,
filters duplicates, submits the rest to the pool and waits for the batch; a worker runs the handler,
asks a coordinator for the outcome and acknowledges, re-enqueues, nacks or dead-letters the message.

What makes the parts correct: the ring is a bounded FIFO queue that loses no wake-up; no hand-over
loses or doubles a message; a handler runs as often as its limit allows and no more; what is
acknowledged was processed; a key is processed once; a delayed message comes out, and not early;
shutdown ends and closes nothing that another goroutine still uses; across crashes, restarts and failing calls
a message neither vanishes unsettled nor is processed again without a reason. The hazards, each at its line of the code,
and the properties that guard against them are in `PROJECT.json`.

## Modules

| Module | Models | Checked by |
|---|---|---|
| `BoundedQueue` | what `ring.Buffer` promises (abstract) | refinement |
| `RingBuffer`, `MCRingBuffer` | `ring/buffer.go` per critical section | `ring` |
| `RingSizing` | `nextPowerOfTwo` and the mask, with bit operations | `ring` |
| `RetryPolicy` | both coordinators as operators from attempts and result to outcomes | through the next two |
| `RetryLoop`, `MCRetryLoop` | one message and its coordinator | `retry` |
| `Pipeline`, `MCPipeline` | `Run` with all its goroutines, pool, filter and in-memory transport | `pipeline_*` |
| `Delivery` | what pipeline and transport promise for each message (abstract) | refinement by `Pipeline` and `RedisStreams` |
| `DelayQueue` | what `timerwheel.Wheel` promises (abstract) | refinement; part of `Pipeline` |
| `TimerWheel` | `timerwheel.Wheel` with clock and ticker | `wheel` |
| `MemoryStore` | `idempotency.MemoryStore` with clock and evictor | `store` |
| `PubSub`, `MCPubSub` | the Pub/Sub transport between service and pipeline | `pubsub` |
| `SQS`, `MCSQS` | the SQS transport and the Redis store under the pipelines of several pods | `sqs`, `sqs_poison` |
| `RedisStreams`, `MCRedisStreams` | the Redis Streams transport under the pipelines of several pods | `streams`, `streams_retry` |
| `RingBuffer_proofs`, `RetryLoop_proofs`, `MemoryStore_proofs`, `Pipeline_proofs`, `TimerWheel_proofs`, `PubSub_proofs`, `SQS_proofs`, `RedisStreams_proofs` | theorems about the module of that name | `tlapm` |

How the models follow the code:

* **RingBuffer.** A critical section is one action. `sync.Cond.Wait` ends one (`EnqueueWait`); a
  woken goroutine competes for the mutex again. `Signal` wakes any one sleeper. The two atomic
  stores of DropOldest and the two loads of `Len` are separate steps, since `Len` takes no lock:
  `EnqueueDropOldest` keeps the mutex (`storeTail`) until `StoreTail`. The other operations store
  one atomic only. `policy` is a variable so that one run covers all four.
* **RetryPolicy** returns *sets* of outcomes because Go leaves the conversion of a too large float
  to the platform. `time.Duration` is a wrapping integer of `Width` bits.
* **Pipeline** uses the queue that `RingBuffer` implements instead of the buffer itself, with the
  Block policy that `Run` asks for: an Enqueue into a full ring waits. The wheel is an instance of
  `DelayQueue`, which `TimerWheel` implements: any delayed message may be due at any tick. Hooks and
  payloads are left out. One goroutine is
  one program counter: `poller`, `ticker`, `timer`, `disp`, `worker[w]`, `run`. A batch in flight is
  explicit (`pbatch`, `expired`, `out`, `tbatch`, `dbatch`, `kept`, `duplicates`, `work`, `cur`, `rest`),
  so a message lost or doubled in a hand-over shows. `filterDuplicates` asks the store message by message
  (`DispAsk`), while poller and timer go on; when it has asked for all, the dispatcher acknowledges the
  duplicates (`DispFiltered`). Ack and Mark are two steps, as in `processMessage`. The filter marks with a
  time to live, so a marked key may be gone from the store at any later moment (`MarkExpires`). A Publish to
  the closed transport reports success and does nothing; `published` holds what was accepted. The history
  variables `acked`, `dead`, `runs`, `succeeded`, `together`, `unanswered`, `unmarked` record what
  properties speak of.
  With the in-memory transport Subscribe never fails; `PollFails` adds a transport whose Subscribe does,
  as SQS's when ReceiveMessage returns an error. `Run`'s select then ends by `pollCtx`, and dispatcher and
  timer learn of it only through the contexts `Run` cancels (`DispDone`, `TimerDone`).
* **Delivery** is the view of the application: a message is open, then there is one reason why its handler
  does not run any more (it succeeded, is dead, repeats another message, or was dropped because of an error),
  and only then is it acknowledged. `Status` in `Pipeline` reads the reason off the history variables
  and the worker that holds the verdict, `Status` in `RedisStreams` off the group's entry and the history. `SQS` does
  not implement it: each redelivery starts at `Attempts` 0, so no limit holds (`sqs_poison`), and a success does
  not prevent another run; what it promises instead is `RepeatsExplained`.
* **TimerWheel.** Time is finer than a second. A tick carries the time it fired; the goroutine may
  act on it later and then reads the clock again, as `expire` does. `time.Ticker` holds one tick and
  drops the others. It was started at any moment of a second (`Init`), so its ticks have any phase; a tick
  may be acted on late, but the ticker itself keeps its interval. `Drain` stands for the code's Drain and Close, which differ in what the caller gets.
* **MemoryStore.** `Exists` is three steps (read lock, clock, write lock), `evict` reads the clock
  before it locks, `Close` is two steps. A Mark of a closed store and a second Close panic.
  `Exclusive` says that no Mark happens during an Exists; `Pipeline`'s `OneBatchAtATime` shows that
  one pipeline calls its store so: the filter runs between batches and marks only within one.
* **PubSub.** The service and the client library are external. A copy in the pipeline carries only
  the message ID, so every settlement looks up `inflight` in a critical section and then, outside it,
  answers the service and closes `done`; those last two calls are one action, because nothing that
  happens between them depends on `done`. Of the pipeline the model keeps ring, wheel, filter, the IdemStore
  and the moment the dispatcher leaves; `Retry` keeps the copy where it is and is not a step. `toRingqMessage`
  keeps the attributes, so the filter applies: `Ask` is `filterDuplicates` for one copy, which is kept or will be
  acknowledged as a duplicate by the same `Ack` as any other (`AckLookup`, verdict `Drop`); `Exists` and Mark may
  fail (`StoreFails`), and a key may expire (`Forget`). The key is marked in the step that answers the
  service (`Finish`): the filter waits for the batch and cannot look in between.
* **SQS.** The queue, the dead letter queue and the Redis store outlive the pods. A receive makes a copy
  in one pod and hides the message; `VisibilityTimeout` may come at any moment while it is hidden, for the
  transport never extends it. A later receive makes the receipts of earlier copies stale; the service may
  or may not honour a stale receipt. Every call on SQS or Redis is a step that works, or fails by a fault,
  or fails because the pod's context is done: `Run` derives the dispatcher's context, and the workers' calls
  use it, so after a cancellation handlers run to their end and every Ack, Mark, Nack and SendToDLQ of
  theirs fails. Of the pipeline the model keeps what matters to that: batches (no dispatch before the
  last batch is finished), the filter before the first handler of a batch, Ack before Mark, `Retry`
  staying in the pod with its `Attempts` and `RetryWithDelay` leaving it without. A key may expire at any
  moment (`Expire`), however recent the last Mark of it: SETNX leaves the time to live of a key that is there
  alone. `ensureClient` is left out. `Return` lets `Run` return once the last batch is finished; a `Run` that hangs on a
  full ring (`StuckOnRing` below) is for the safety properties a pod that stops taking steps until a `Crash`.
  `NeverStranded`, under fairness of `Return`, says nothing of a pod that hangs and is never killed.
* **RedisStreams.** Redis keeps for each entry whether it is new, pending for a consumer, or
  acknowledged. Subscribe bootstraps, recovers and then reads with `>`. Ack, Nack and SendToDLQ use a
  context of their own, so they work during shutdown. A pod with a configured name finds its pending entries
  after a restart, one without does not. The XCLAIM at the end of `recoverStale` names no entry; Redis
  refuses such a command and the code returns. Subscribe looks for attributes of a type the client
  never returns, so neither delay nor idempotency key reach the pipeline and wheel and filter have no part.
  Both XADDs pass the attributes as a Go map; whether the client accepts that is not modelled beyond the
  fact that an XADD may fail.

## Runs

Passing:

| Run | Shows |
|---|---|
| `ring` | all policies, two producers with single items and batches, a consumer with every kind of `max` that also measures and closes: the counters agree, the array is exactly the queue, `BoundedQueue` is implemented, no wake-up is lost, sleepers are woken and Close releases all, `Len` never overstates but for DropOldest's one item; and New's rounding and mask are what the model assumes, for every request up to `MaxRequest` |
| `retry` | exact number of runs with both coordinators; the documented backoff as long as the product fits |
| `pipeline_safety` | three messages (delayed, unknown topic, shared key), two workers, all results, a store that may fail at every call and forget expired keys, cancellation or a failing Subscribe anywhere |
| `pipeline_progress` | a ring of one slot, two messages that share a key, one of them delayed, successes and both kinds of retry, a store and a Subscribe that may fail: `Delivery` is implemented, everything is settled and shutdown ends, except where everybody waits for room in the ring (`StuckOnRing`) |
| `wheel` | never early, eventually out, and the `DelayQueue` that `Pipeline` builds on: nothing lost or repeated |
| `store` | remembered until expiry, right answers, no leak |
| `pubsub` | with nacks, dead-lettering, expired deadlines, redelivery, and a filter that acknowledges duplicates and what the store cannot answer for: nobody waits in vain except where a redelivery has overwritten its entry, no channel is closed twice, only settled messages are acknowledged, with the exceptions below; on shutdown Receive returns unless a callback is stranded |
| `sqs` | two pods, one without a DLQ, a delayed message with a key, up to two faults (crash, stop, failing call) and expiring keys anywhere: no deletion without settlement, no repetition without one of the named causes, never stranded |
| `streams` | two pods, one named and with a DLQ stream, two messages, up to three faults: acknowledged is settled, `Delivery` is implemented, and everything is settled or parked, with the named exceptions |

Showing where the code and what is said of it part (`PROJECT.json` quotes the lines):

| Run | Shows |
|---|---|
| `pipeline_retry_wait` | worker, dispatcher and poller wait for each other on a full ring |
| `sqs_poison` | a message that always fails is retried for ever: each redelivery starts at `Attempts` 0 |
| `streams_retry` | a message nacked with a delay is never delivered again |

### Exceptions the properties carry

Some properties of the passing runs name the exact case in which the code does less than a reader of
its documents would expect. Each exception is needed: without it TLC finds the case at once.

* `LenNeverOverstates` bounds `Len` from above only. A dequeue between its two loads makes the result
  too small, even negative, and a DropOldest between its two stores makes it one more than the capacity
  (`ring/buffer.go:156`; RING-BUFFER.md:210 calls it the "exact queue depth").
* `BackoffFollowsFormula` holds while `baseDelay * 2^(attempt-1)` fits a Duration. Beyond, the product
  wraps around before the cap is applied, and a negative delay is an immediate Retry
  (`ringq/ringq.go:379`; README.md:170 gives the formula without a limit). Note also that the built-in
  coordinator gives every Retry a delay and so sends it through the transport (`ringq/ringq.go:384`;
  docs/retries.md:12 says it stays in the ring).
* `DuplicatesOnlyWithinBatch`: two messages with one key in one batch both run, since the filter asks
  about all of a batch before any is marked (`ringq/ringq.go:282`; README.md:236); so do two
  between which a Mark failed, whose error is ignored, or has expired: a key is remembered for the filter's
  TTL, 24 hours unless configured (`ringq/filter.go:20`, `:64`), and a duplicate that comes later, for
  instance out of the timer wheel, runs.
* `AckedWasProcessed`: an error of Exists counts as a duplicate and acknowledges the message unprocessed
  (`ringq/filter.go:44`; README.md:135 promises at-least-once delivery).
* `RememberedUntilExpiry` needs `Exclusive`. With `Exclusive = FALSE`, as when two pipelines share a
  store, an Exists that has found an expired entry deletes a Mark made in the meantime
  (`idempotency/store_memory.go:39`).
* `NoOrphan` and `CallbacksReturn` except deliveries whose `inflight` entry a redelivery has overwritten:
  their callbacks wait for ever and each takes one of `MaxOutstandingMessages`
  (`transport/pubsub/pubsub.go:105`; README.md:198 calls redelivery "Safe").
* `ShutdownCompletes` and `SettledUnlessStuck` except `StuckOnRing`. `Run` waits for the dispatcher first;
  a poller or timer that fills the ring afterwards sleeps in Enqueue, and `ringBuf.Close`, which would
  release it, comes after the wait for it (`ringq/ringq.go:185`; README.md:136 promises "Graceful shutdown").
  A worker that re-enqueues a Retry into a full ring waits for the dispatcher, which waits for the worker
  (`ringq/ringq.go:331`); `pipeline_retry_wait` shows that one without the exception.
* `ClosedAfterLastUse` holds for every goroutine but `Run`, and says so: what `Run` has drained from the wheel
  (`rest`) it holds only when the ring is closed (`rest # {} => ringClosed`). It then enqueues these messages into
  the closed ring, which drops them (`ringq/ringq.go:190-196`;
  changelog/20260531-IO-359-eta-delayed-task-enqueue.md:41 says "Graceful shutdown drains timer wheel to
  ring buffer", docs/architecture.md:19 "flush timer → drain ring").
* `EachInOnePlace` excepts delayed messages once the wheel's channel or the ring is closed: the batch a wheel
  goroutine was sending when its context ended (`internal/timerwheel/wheel.go:57`) and what `Run` drained. It does
  not say that what is somewhere is still processed: what `Run` leaves behind in the in-memory transport, the ring or
  the wheel's channel when it returns stays there.
* `ReceiveReturns` excepts stranded callbacks: once the dispatcher has left nobody settles what is in the
  wheel or was handed on late, Receive waits for those callbacks, and Run for Receive
  (`transport/pubsub/pubsub.go:116`; README.md:202 says "Inflight handlers complete, then workers exit").
* `RepeatsExplained` lists every window in which a message, or a key, is processed twice: a visibility
  timeout while a pod holds the message; an Ack or a Mark that failed, in a graceful shutdown too, where it
  always fails, or was prevented by a crash; two copies between check and mark; a key that has expired, which may
  be soon after its latest Mark (`idempotency/store_redis.go:45`). README.md:237-239 lists
  the crash before Ack and the unshared store; its "Crash between Mark and Ack" (README.md:197, 238) assumes
  that Mark comes first, whereas `processMessage` acknowledges first (`ringq/ringq.go:322`).
* `DeletedWasSettled` has the exception of `AckedWasProcessed`: Exists returned an error, which it always
  does once the context is done; the Ack then fails, too, but not if the error was a fault.
* `AckedWasSettled` excepts what `recoverStale` acknowledges after a restart without processing it
  (`transport/redisstreams/streams.go:96`; changelog/20260531-IO-359-redis-streams-transport.md:76 says
  "`XPENDING` + `XCLAIM` recovers them"), a Nack without a delay, and a SendToDLQ without a DLQ stream,
  which reports success (README.md:199: "No silent drops").
* `SettledOrParked` excepts entries that are pending with no copy left: after a Nack with a delay, a failing
  call, or the end of their process. Nothing ever reads them again.
* `ForgottenWhenSettled` has the exception of `AckedWasProcessed`, a message for which Exists returned an
  error (`ringq/filter.go:44`), and it counts a message as settled once SendToDLQ was called for it. That call nacks
  the delivery, and the Ack that follows may meet, and acknowledge, the redelivery the Nack caused, so
  that the message reaches no dead letter topic (`ringq/ringq.go:342`; README.md:199).

### Bounds

`MaxHead` stops new Enqueue calls once `head` has gone round the ring; calls under way still finish,
so the two producers' batches reuse and drop slots of the second and third round. A capacity of two
makes full, empty and wrapped buffers common; `RingBuffer_proofs` covers all others. `MaxRequest` is past
2^8, which exercises the shifts by 1 to 8; the shift by 16 repeats the argument. `Width` is small so that overflow is reached
within a few attempts. In `Pipeline` each message is published once, but retried up to the limit; two
messages with one key are needed for duplicates, a third to fill the ring behind them. `pipeline_progress`
has a ring of one slot, so that every way to wait for room occurs. `BatchMax` and
`DrainMax` are the code's 10 and 100, which only exceed the ring here; `OutSize` 1 makes the wheel's
send block, which 64 would hide. In `TimerWheel` and `MemoryStore` time stops at `MaxTime`, but ticks and sweeps go on, so what
is due is still found. `MaxDeliveries` 3 gives one message a redelivery of its redelivery; the two messages of `pubsub` share a key, one
is delayed, and the deadline of the other may pass (`Expires`), while both may be nacked. In `pipeline_progress`
no handler asks for the DLQ at once: exhausted retries do. In `SQS` `MaxCopies` 2 lets a
second copy overtake a first in the same pod or the other one, and `MaxFaults` 2 allows a fault during
the recovery from a fault; crashes, stops and failing calls count as faults, timeouts and expiring keys do not and are
unbounded. `Unit` 2 makes a delay of 1 less than a second, which Nack rounds down to none. In `RedisStreams`
`MaxPending` 1 stands for the 100 entries `recoverStale` looks at: with two pending entries one is left. `pipeline_safety`
uses the symmetry of the workers, which is sound for its invariants: nothing in the model or the
properties tells two workers apart.

CHECK_DEADLOCK is off where the system may stop: after Run has returned, a message has been settled,
all deliveries are used up, or the store has panicked.

### Fairness

Weak fairness stands for goroutines that keep being scheduled, mutexes that are not withheld for ever,
handlers that return, and a clock that runs. Nobody is obliged to publish, cancel, close, redeliver or
let a deadline pass. `ring` assumes a consumer that comes back to DequeueBatch as long
as the buffer is open, strongly fair because its other calls interleave: `runDispatcher`'s loop does
that. In `PubSub` there is one weak fairness for each delivery, its callback, its place in the wheel and its
copy taken together: each has finitely many steps, so that no step can be put off for ever by the others; the wheel
owes a firing only until the context is done. No mark has to expire. `SQS` and `RedisStreams` add that a hidden message becomes visible
again, that a visible message or new entry is received by some running pod, and that a pod that has
ended is started again; without the last, a message nobody is there to receive would refute any progress. No
call is assumed to work, but there are at most `MaxFaults` failures.

## Proofs

`RingBuffer_proofs` proves, for every capacity, set of goroutines, items and batches, that `Spec`
implies `TypeOK`, `CursorsAgree`, `WindowHoldsItems`, `NoLostWakeup`, `LenNeverOverstates` and
`ImplementsQueue`. None is inductive alone, so `IInv` joins the first four with: at most one
goroutine holds the mutex between two stores (`OneHolder`); a call under way has items left
(`ItemsLeft`); and what `Len` has loaded was once the head (`SeenWasStored`), which bounds `Len`. The
window argument rests on two lemmas about the remainder: sequence numbers less than `Capacity` apart
have different slots (`SlotsDistinct`), and the slot after a full window is that of its oldest item
(`SlotWraps`). One lemma per action shows that it preserves `IInv`, another what it does to the
queue of the window's items (`Contents`), from which every step is one of `BoundedQueue` or leaves
it unchanged.

`RetryLoop_proofs` proves `RetriesAreExact` for both coordinators, all limits and delays and any
width: as long as the message is retried, `Attempts` is the number of runs and at most the limit. The
delays, overflow included, play no part. It also proves `BackoffFollowsFormula`, for every base delay, cap
and width, from one fact of arithmetic that stands as a hypothesis of the theorem, `PowersPositive`:
2^n is at least 1 for every natural n. The provers know of `2^n` only that it is an integer, and an
induction is beyond them. The argument is that a product that fits has not wrapped around, and that its power was
not too large for the conversion either, unless the base delay is 0 and it does not matter.

`MemoryStore_proofs` proves `RememberedUntilExpiry` and `AnswersAreCurrent` under `Exclusive`. The
invariant adds that a stored entry is the one of the latest Mark, that what an Exists has read still
is, and that what it will delete has expired; only the last two need `Exclusive`.

`Pipeline_proofs` proves every safety invariant of `pipeline_safety`, for any messages, keys, finite set
of workers, sizes, limits and verdicts: `TypeOK`, `EachInOnePlace`, `OneBatchAtATime`,
`ClosedAfterLastUse`, `RunsBounded`, `AckedWasProcessed`, `DuplicatesOnlyWithinBatch`. One invariant serves
all seven, in layers that build on each other:

* `HandsEmpty`: what a goroutine holds belongs to the point it is at. Without it a batch could be
  overwritten by the next.
* `Shutdown`: where `Run` is says who has left and what is closed. `ClosedAfterLastUse` follows from it;
  by itself that property does not know in which order `Run` waits.
* `OnePlace` is `EachInOnePlace` without the cardinality: a message occurs at most once in each of the
  fourteen places, in one of them only, in none before it is published and in one ever after, unless
  shutdown may have dropped it (`MayBeDropped`). That only delayed messages are dropped needs `WheelDelayed`: what is in
  the wheel, in its goroutine's batch or in `rest` came there as delayed. The lemmas say what Append, Tail,
  SubSeq, concatenation and an update of one worker do to occurrences; `PlacesCounted` leads back to the
  cardinality.
* `AttemptsCountRuns`: wherever a message is, its `Attempts` is the number of its runs; this is what
  `RunsBounded` needs, and it needs `OnePlace`, since a second copy would not have been counted.
* `AckJustified`: what is marked was processed, and every duplicate the filter has found has a processed
  message with its key or an error of the store.
* `FilterHolds`: a success is marked, about to be, or its Mark has failed or expired; and what has passed the filter
  shares its key only with members of its own batch. It needs `OneBatchAtATime`: between two batches nobody
  is about to mark.

Each layer has one lemma that takes the actions one by one, and the lemmas cite the earlier layers. TLC has
checked the whole invariant on the instance of `pipeline_safety`.

On top of these it proves the refinement `ImplementsDelivery`: every step of every goroutine is a step of
`Delivery` or leaves it unchanged. The actions that no message notices change neither status nor `runs` nor
`acked` (`QuietStutters`); the rest move one message (`Settles`, `Concludes`, `DispatcherRefines`,
`WorkerRefines`). That a run finds its message open rests on `OnePlace` (nobody else holds it), and that its limit is
not exceeded on `AttemptsCountRuns`. The reasons need one invariant more, `ReasonsHeld`: what is dead was acknowledged in
the same step, and what the store gave no answer for is acknowledged or among the duplicates, so no
later step can give it another reason.

`TimerWheel_proofs` proves `NeverEarly` and the refinement `ImplementsDelayQueue` for any length of a second,
any delays and any phase of the ticker. The invariant adds that a slot's target is the time its item
was inserted with, so no item has two slots (`SlotsAsAsked`), that only what was inserted leaves
(`LeftWasAsked`), and that there is no batch outside of the send (`BatchOnlyInSend`). The refinement
needs the first: `expire` takes the due slots out, and with one slot per item the items it keeps and those it
sends are disjoint (`ExpireSplits`). With it `Pipeline` rests on a proof where it uses `DelayQueue`,
as it does, through `RingBuffer_proofs`, where it uses a bounded queue.

`PubSub_proofs` proves `NoOrphan`, `ClosedOnce` and `ForgottenWhenSettled` for any messages and number of
deliveries. `NoOrphan` and `ClosedOnce` need each other and the story of a delivery: unknown to everybody
before it is registered; then in `inflight` under its message's ID with its channel open, and taken by
nobody; then held by one call that is to close it. `ForgottenWhenSettled` needs that whoever is about to
acknowledge has seen a success, a SendToDLQ, a processed message of the same key or an error of the store for that
message (`AckJustified`), that every key in the store is that of a processed message (`MarksJustified`), from
which the filter's duplicates get their reason, and that a call finds only deliveries of its own message
(`FoundSameMessage`). An expiring key takes nothing from this, since a success stays one.

`SQS_proofs` proves `TypeOK`, `DeletedWasSettled` and `RepeatsExplained` for any pods, messages, keys,
copies and faults. `RepeatsExplained` is the substance: as long as nothing has happened that
excuses a second run of a message, there is one copy of it at most, with the latest receipt, while the
message is hidden, and a success is on its way to the deletion (`MessageOnce`); as long as nothing excuses a
second run for a key, one copy with that key at most is past the filter, none once the key is marked, and a
success is on its way to the mark (`KeyOnce`). A key that expires leaves a copy the filter has already taken for
a duplicate with a reason to be deleted, since the success behind the mark stays (`DeleteJustified`). So the causes the property lists are all there are.

`RedisStreams_proofs` proves `TypeOK`, `AckedWasSettled` and the refinement `ImplementsDelivery` for any pods,
messages, faults and restarts. The refinement needs that an unread entry has neither copy nor runs
(`UnreadUntouched`); that the `Attempts` of a retried copy count its runs, which the limit bounds, with
no success among them (`AttemptsCountRuns`); that a concluded entry has no copy on its way to a handler
(`ConcludedRests`); and that `recoverStale` acknowledges only entries of its own consumer, before this process has
read any, so that nobody holds a copy of what it drops (`RecoversOwn`).

The assumptions are those named in the modules (`BufferAssumption`, `PolicyAssumption`, `LoopAssumption`,
`StoreAssumption`, `PipelineAssumption`, `WheelAssumption`, `PubSubAssumption`, `SQSAssumption`,
`StreamsAssumption`): sizes are positive, limits, delays and ttls are naturals, a handler returns one of the
four actions, the pool is finite, `Nil` is no item, messages are not keys, and there is a pod and a message.
TLC evaluates them in every run. The bounds that keep TLC's instances finite (`MaxTime`, `MaxFaults`,
`MaxDeliveries`, `MaxCopies`) are constants of the theorems, too, which hold for all their values.

Only model-checked: the liveness properties, since fairness and ENABLED are beyond the prover
(`CloseReleasesProducers`, `BlockedGetsWoken`, `ShutdownCompletes`, `SettledUnlessStuck`, `EventuallyFires`,
`ExpiredIsEvicted`, `CallbacksReturn`, `ReceiveReturns`, `NeverStranded`, `SettledOrParked`); and `Sizing`,
which is about bit operations.

## Not modelled

The Redis Pub/Sub transport, whose Ack, Nack and SendToDLQ do nothing: a message is processed at most
once and every retry through the transport is lost, as docs/transports.md:67 says. Two pods with the
same configured consumer name. The public
`idempotency.Filter`, a copy of the pipeline's own filter; builder, configuration, codec and hooks,
which have no state of their own or only observe; `TrySubmit` and `Wheel.Len`, which the pipeline does
not call; examples, benchmarks and tests.

## Plan

Every safety property of the passing runs is proved, except `Sizing`, and so is every refinement: the ring
implements `BoundedQueue`, the wheel `DelayQueue`, the pipeline and the Redis Streams transport `Delivery`. Left
to do: the pipelines inside `PubSub`, `SQS` and `RedisStreams` as abstractions of `Pipeline`, and a shared
`MemoryStore` under several pipelines (`Exclusive = FALSE`) beside the shared Redis store.
