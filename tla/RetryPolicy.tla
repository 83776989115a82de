---------------------------- MODULE RetryPolicy ----------------------------
(***************************************************************************)
(* What becomes of a message after its handler has run: the two            *)
(* implementations of ringq.RetryCoordinator.  DefaultHandle is the one    *)
(* built into the pipeline (defaultRetryCoordinator, ringq/ringq.go), with *)
(* exponential backoff; CoordinatorHandle is retry.Coordinator             *)
(* (retry/retry.go), with a fixed delay.  Each maps the message's Attempts *)
(* and the handler's Result to a set of outcomes: a set because the        *)
(* float-to-integer conversion of the backoff leaves the result of an      *)
(* overflow to the platform.                                               *)
(***************************************************************************)
EXTENDS Integers

CONSTANTS Width,    \* bits of time.Duration; 64 in Go, less for model checking
          DelayCap  \* maxRetryDelay

ASSUME PolicyAssumption ==
    /\ Width \in Nat \ {0}
    /\ DelayCap \in 1..(2 ^ (Width - 1) - 1)

(* ringq.Action; any other int a handler returns behaves like "other".      *)
Actions == {"Ack", "Retry", "RetryWithDelay", "DLQ", "other"}

(* ringq.RetryOutcome; its Message is known by its Attempts.                *)
Outcome(action, attempts, delay) ==
    [action |-> action, attempts |-> attempts, delay |-> delay]

-----------------------------------------------------------------------------
(* time.Duration is a signed integer that wraps around.                     *)
Half == 2 ^ (Width - 1)
Wrap(x) == ((x + Half) % (2 * Half)) - Half

(* int64(f) of a float out of range: the least integer on amd64, the        *)
(* greatest on arm64.                                                       *)
ToInt(f) == IF f < Half THEN {f} ELSE {-Half, Half - 1}

(* Mutant: the exponent is one too large.                                   *)
BackoffTooFar(base, attempt) ==
    {IF d > DelayCap THEN DelayCap ELSE d :
        d \in {Wrap(base * p) : p \in ToInt(2 ^ attempt)}}

(* The backoff before retry number attempt, as the code computes it.        *)
Backoff(base, attempt) ==
    {IF d > DelayCap THEN DelayCap ELSE d :
        d \in {Wrap(base * p) : p \in ToInt(2 ^ (attempt - 1))}}

(* Mutant: the limit is compared with the attempts already made.            *)
ExhaustedLate(attempts, maxRetries) == attempts > maxRetries

(* Another attempt would exceed the limit.                                  *)
Exhausted(attempts, maxRetries) == attempts + 1 > maxRetries

(* defaultRetryCoordinator.Handle.  A positive delay turns a Retry into a   *)
(* RetryWithDelay.                                                          *)
DefaultHandle(maxRetries, base, attempts, result) ==
    CASE result.action = "Ack" -> {Outcome("Ack", attempts, 0)}
      [] result.action \in {"Retry", "RetryWithDelay"} ->
            IF Exhausted(attempts, maxRetries)
              THEN {Outcome("DLQ", attempts, 0)}
              ELSE {Outcome(IF d > 0 THEN "RetryWithDelay" ELSE result.action,
                            attempts + 1, d) :
                        d \in IF result.delay <= 0
                                THEN Backoff(base, attempts + 1)
                                ELSE {result.delay}}
      [] OTHER -> {Outcome("DLQ", attempts, 0)}

-----------------------------------------------------------------------------
(* retry.Config.Defaults: zero means the default.                           *)
DefaultRetries(n) == IF n = 0 THEN 3 ELSE n
DefaultBase(d) == IF d = 0 THEN 5 ELSE d

(* retry.Coordinator.Handle.  A Retry keeps its action and has no delay.    *)
CoordinatorHandle(maxRetries, base, attempts, result) ==
    CASE result.action = "Ack" -> {Outcome("Ack", attempts, 0)}
      [] result.action \in {"Retry", "RetryWithDelay"} ->
            IF Exhausted(attempts, DefaultRetries(maxRetries))
              THEN {Outcome("DLQ", attempts, 0)}
              ELSE {Outcome(result.action, attempts + 1,
                            IF result.action = "Retry" THEN 0
                            ELSE IF result.delay <= 0 THEN DefaultBase(base)
                            ELSE result.delay)}
      [] OTHER -> {Outcome("DLQ", attempts, 0)}
=============================================================================
