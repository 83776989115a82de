-------------------------- MODULE RetryLoop_proofs --------------------------
(***************************************************************************)
(* For every limit, delay and width of Duration, both coordinators run a   *)
(* failing handler exactly maxRetries + 1 times; the delays they choose,   *)
(* overflow included, play no part in that.  And the delays of the         *)
(* built-in one are those of the documented formula wherever it fits.      *)
(***************************************************************************)
EXTENDS RetryLoop, TLAPS

Live == outcome.action \in {"Retry", "RetryWithDelay"}

(* Attempts counts the runs so far as long as the message is retried.       *)
AttemptsCountRuns ==
    /\ entry \in Entries
    /\ attempts \in Nat /\ runs \in Nat
    /\ Live => runs = attempts /\ attempts <= Allowed

IInv == AttemptsCountRuns /\ RetriesAreExact

(* What either coordinator may answer: give up, or count one attempt more   *)
(* and retry; a handler asking for a retry is given up only at the limit.   *)
LEMMA Answers ==
    ASSUME entry \in Entries, attempts \in Nat,
           NEW r \in Results, NEW o \in ResolveOutcome(r)
    PROVE  \/ /\ o.action \in {"Ack", "DLQ"} /\ o.attempts = attempts
              /\ (r.action \in {"Retry", "RetryWithDelay"} => attempts + 1 > Allowed)
           \/ /\ o.action \in {"Retry", "RetryWithDelay"}
              /\ o.attempts = attempts + 1 /\ attempts + 1 <= Allowed
<1> USE DEF Outcome, Exhausted
<1>1. r.action \in Actions
    BY DEF Results
<1>2. entry.maxRetries \in Nat /\ Allowed \in Nat
    BY LoopAssumption DEF Entries, Allowed, DefaultRetries
<1>3. CASE entry.coordinator = "default"
  <2>1. o \in DefaultHandle(entry.maxRetries, entry.base, attempts, r)
      BY <1>3 DEF ResolveOutcome
  <2>2. Allowed = entry.maxRetries
      BY <1>3 DEF Allowed
  <2>3. CASE r.action = "Ack"
      BY <2>1, <2>3 DEF DefaultHandle
  <2>4. CASE r.action \in {"Retry", "RetryWithDelay"} /\ attempts + 1 > entry.maxRetries
      BY <2>1, <2>2, <2>4 DEF DefaultHandle
  <2>5. CASE r.action \in {"Retry", "RetryWithDelay"} /\ ~(attempts + 1 > entry.maxRetries)
    <3>1. PICK d : o = [action |-> IF d > 0 THEN "RetryWithDelay" ELSE r.action,
                        attempts |-> attempts + 1, delay |-> d]
        BY <2>1, <2>5 DEF DefaultHandle
    <3>2. o.action \in {"Retry", "RetryWithDelay"} /\ o.attempts = attempts + 1
        BY <2>5, <3>1
    <3> QED BY <1>2, <2>2, <2>5, <3>2
  <2>6. CASE r.action \in {"DLQ", "other"}
      BY <2>1, <2>6 DEF DefaultHandle
  <2> QED BY <1>1, <2>3, <2>4, <2>5, <2>6 DEF Actions
<1>4. CASE entry.coordinator = "retry.Coordinator"
  <2>1. o \in CoordinatorHandle(entry.maxRetries, entry.base, attempts, r)
      BY <1>4 DEF ResolveOutcome
  <2>2. Allowed = DefaultRetries(entry.maxRetries)
      BY <1>4 DEF Allowed
  <2>3. CASE r.action = "Ack"
      BY <2>1, <2>3 DEF CoordinatorHandle
  <2>4. CASE r.action \in {"Retry", "RetryWithDelay"} /\ attempts + 1 > Allowed
      BY <2>1, <2>2, <2>4 DEF CoordinatorHandle
  <2>5. CASE r.action \in {"Retry", "RetryWithDelay"} /\ ~(attempts + 1 > Allowed)
    <3>1. o.action = r.action /\ o.attempts = attempts + 1
        BY <2>1, <2>2, <2>5 DEF CoordinatorHandle
    <3> QED BY <1>2, <2>5, <3>1
  <2>6. CASE r.action \in {"DLQ", "other"}
      BY <2>1, <2>6 DEF CoordinatorHandle
  <2> QED BY <1>1, <2>3, <2>4, <2>5, <2>6 DEF Actions
<1> QED BY <1>3, <1>4 DEF Entries

(* The invariant holds, whichever coordinator decides.                      *)
LEMMA Invariance == Spec => []IInv
<1>1. Init => IInv
  <2> SUFFICES ASSUME Init PROVE IInv
      OBVIOUS
  <2>1. Allowed \in Nat
      BY LoopAssumption DEF Init, Entries, Allowed, DefaultRetries
  <2> QED BY <2>1 DEF Init, IInv, AttemptsCountRuns, RetriesAreExact, Live, Outcome
<1>2. IInv /\ [Next]_vars => IInv'
  <2> SUFFICES ASSUME IInv, [Next]_vars PROVE IInv'
      OBVIOUS
  <2> USE DEF IInv
  <2>1. Allowed \in Nat
      BY LoopAssumption DEF AttemptsCountRuns, Entries, Allowed, DefaultRetries
  <2>2. ASSUME NEW r \in Results, Handle(r) PROVE IInv'
    <3>1. /\ Live /\ runs' = runs + 1 /\ result' = r /\ entry' = entry
          /\ outcome' \in ResolveOutcome(r) /\ attempts' = outcome'.attempts
        BY <2>2 DEF Handle, Live
    <3>2. Allowed' = Allowed
        BY <3>1 DEF Allowed
    <3>3. runs = attempts /\ attempts <= Allowed /\ attempts \in Nat /\ entry \in Entries
        BY <3>1 DEF AttemptsCountRuns
    <3>4. CASE /\ outcome'.action \in {"Ack", "DLQ"} /\ outcome'.attempts = attempts
               /\ (r.action \in {"Retry", "RetryWithDelay"} => attempts + 1 > Allowed)
        BY <2>1, <3>1, <3>2, <3>3, <3>4 DEF AttemptsCountRuns, RetriesAreExact, Live
    <3>5. CASE /\ outcome'.action \in {"Retry", "RetryWithDelay"}
               /\ outcome'.attempts = attempts + 1 /\ attempts + 1 <= Allowed
        BY <2>1, <3>1, <3>2, <3>3, <3>5 DEF AttemptsCountRuns, RetriesAreExact, Live
    <3> QED BY <3>1, <3>3, <3>4, <3>5, Answers
  <2>3. CASE UNCHANGED vars
      BY <2>3 DEF vars, AttemptsCountRuns, RetriesAreExact, Live, Allowed
  <2> QED BY <2>2, <2>3 DEF Next
<1> QED BY <1>1, <1>2, PTL DEF Spec

(* A handler that keeps failing runs exactly maxRetries + 1 times under     *)
(* defaultRetryCoordinator and retry.Coordinator alike.                     *)
THEOREM RetriesExact == Spec => []RetriesAreExact
<1>1. IInv => RetriesAreExact
    BY DEF IInv
<1> QED BY <1>1, Invariance, PTL

-----------------------------------------------------------------------------
(* All that the argument about the backoff uses of the powers of two.  The  *)
(* provers know no more of them than that they are integers.                *)
PowersPositive == \A n \in Nat : 2 ^ n >= 1

(* A product that fits a Duration does not wrap around, and neither was the *)
(* power it is made of too large for the conversion to an integer.          *)
LEMMA BackoffWhenItFits ==
    ASSUME PowersPositive, NEW base \in Nat, NEW attempt \in Nat \ {0},
           NEW d \in Backoff(base, attempt), base * 2 ^ (attempt - 1) < Half
    PROVE  d = IF base * 2 ^ (attempt - 1) < DelayCap
                 THEN base * 2 ^ (attempt - 1) ELSE DelayCap
<1> DEFINE power == 2 ^ (attempt - 1)
<1>1. Half \in Int /\ Half >= 1
    BY PolicyAssumption DEF PowersPositive, Half
<1>2. power \in Int /\ power >= 1
    BY DEF PowersPositive
<1>3. DelayCap \in Int /\ DelayCap < Half
    BY <1>1, PolicyAssumption DEF Half
<1>4. PICK p \in ToInt(power) :
          d = IF Wrap(base * p) > DelayCap THEN DelayCap ELSE Wrap(base * p)
    BY DEF Backoff
<1> HIDE DEF power
<1>5. base * p = base * power
  <2>1. CASE base = 0
    <3>1. p \in Int
        BY <1>1, <1>2 DEF ToInt
    <3> QED BY <1>2, <2>1, <3>1
  <2>2. CASE base >= 1
    <3>1. power <= base * power
        BY <1>2, <2>2
    <3>2. power < Half
        BY <1>1, <1>2, <3>1 DEF power
    <3> QED BY <3>2 DEF ToInt
  <2> QED BY <2>1, <2>2
<1>6. base * power \in Int /\ 0 <= base * power /\ base * power < Half
    BY <1>2 DEF power
<1>7. Wrap(base * power) = base * power
  <2>1. ASSUME NEW x \in Int, 0 <= x, x < Half PROVE Wrap(x) = x
    <3>1. (x + Half) % (2 * Half) = x + Half
        BY <1>1, <2>1
    <3> QED BY <1>1, <3>1 DEF Wrap
  <2> HIDE DEF Wrap
  <2> QED BY <1>6, <2>1
<1> QED BY <1>3, <1>4, <1>5, <1>6, <1>7 DEF power

(* The delay before a retry is the documented min(baseDelay * 2^(attempt-1), *)
(* maxRetryDelay) whenever defaultRetryCoordinator chooses it and the        *)
(* product fits, for every base delay, limit, cap and width.                 *)
THEOREM BackoffAsDocumented == PowersPositive /\ Spec => []BackoffFollowsFormula
<1> SUFFICES ASSUME PowersPositive PROVE Spec => []BackoffFollowsFormula
    OBVIOUS
<1>1. Init => BackoffFollowsFormula
    BY DEF Init, BackoffFollowsFormula
<1>2. IInv /\ BackoffFollowsFormula /\ [Next]_vars => BackoffFollowsFormula'
  <2> SUFFICES ASSUME IInv, BackoffFollowsFormula, [Next]_vars PROVE BackoffFollowsFormula'
      OBVIOUS
  <2>1. CASE UNCHANGED vars
      BY <2>1 DEF vars, BackoffFollowsFormula
  <2>2. ASSUME NEW r \in Results, Handle(r) PROVE BackoffFollowsFormula'
    <3>1. /\ entry' = entry /\ result' = r /\ attempts' = outcome'.attempts
          /\ entry.base \in Nat /\ attempts \in Nat
        BY <2>2, LoopAssumption DEF Handle, IInv, AttemptsCountRuns, Entries
    <3> SUFFICES ASSUME entry.coordinator = "default", r.delay <= 0,
                        outcome'.action \in {"Retry", "RetryWithDelay"},
                        entry.base * 2 ^ (attempts' - 1) < Half
                 PROVE  outcome'.delay = IF entry.base * 2 ^ (attempts' - 1) < DelayCap
                                           THEN entry.base * 2 ^ (attempts' - 1) ELSE DelayCap
        BY <3>1 DEF BackoffFollowsFormula
    <3>2. outcome' \in DefaultHandle(entry.maxRetries, entry.base, attempts, r)
        BY <2>2 DEF Handle, ResolveOutcome
    <3>3. PICK d \in Backoff(entry.base, attempts + 1) :
              outcome'.attempts = attempts + 1 /\ outcome'.delay = d
        BY <3>2 DEF DefaultHandle, Outcome
    <3> QED BY <3>1, <3>3, BackoffWhenItFits
  <2> QED BY <2>1, <2>2 DEF Next
<1> QED BY <1>1, <1>2, Invariance, PTL DEF Spec
=============================================================================
