----------------------------- MODULE RetryLoop -----------------------------
(***************************************************************************)
(* One message going round: its handler runs, the coordinator of its       *)
(* handlerEntry decides (resolveOutcome), and a retried message comes back *)
(* with its Attempts.  Where it travels in between is Pipeline's business. *)
(***************************************************************************)
EXTENDS RetryPolicy

CONSTANTS Limits,      \* the maxRetries a handler may be registered with
          BaseDelays,  \* the base delays
          Delays       \* the Result.Delay a handler may return

ASSUME LoopAssumption ==
    /\ Limits \subseteq Nat /\ BaseDelays \subseteq Nat
    /\ Delays \subseteq Int

VARIABLES entry,     \* handlerEntry: coordinator, maxRetries, baseDelay
          attempts,  \* msg.Attempts
          runs,      \* how often the handler has run
          result,    \* the handler's last Result
          outcome    \* the coordinator's last RetryOutcome

vars == <<entry, attempts, runs, result, outcome>>

Results == [action : Actions, delay : Delays]

Entries == [coordinator : {"default", "retry.Coordinator"},
            maxRetries : Limits, base : BaseDelays]

(* The retries an entry allows once its defaults are filled in.             *)
Allowed == IF entry.coordinator = "default" THEN entry.maxRetries
                                            ELSE DefaultRetries(entry.maxRetries)

(* resolveOutcome: the entry's coordinator, or the built-in one.            *)
ResolveOutcome(r) ==
    IF entry.coordinator = "default"
      THEN DefaultHandle(entry.maxRetries, entry.base, attempts, r)
      ELSE CoordinatorHandle(entry.maxRetries, entry.base, attempts, r)

Init ==
    /\ entry \in Entries
    /\ attempts = 0
    /\ runs = 0
    /\ result = [action |-> "Retry", delay |-> 0]
    /\ outcome = Outcome("Retry", 0, 0)

(* The message is delivered again and its handler returns r.                *)
Handle(r) ==
    /\ outcome.action \in {"Retry", "RetryWithDelay"}
    /\ runs' = runs + 1
    /\ result' = r
    /\ outcome' \in ResolveOutcome(r)
    /\ attempts' = outcome'.attempts
    /\ UNCHANGED entry

Next == \E r \in Results : Handle(r)

Spec == Init /\ [][Next]_vars

-----------------------------------------------------------------------------
(* Attempts never goes below zero and outcomes are RetryOutcomes.           *)
TypeOK ==
    /\ entry \in Entries
    /\ attempts \in Nat /\ runs \in Nat
    /\ result \in [action : Actions, delay : Int]
    /\ outcome \in [action : Actions, attempts : Nat, delay : Int]

(* A handler that keeps asking for a retry runs exactly maxRetries + 1      *)
(* times: no run beyond the limit, and no message given up before it.       *)
RetriesAreExact ==
    /\ runs <= Allowed + 1
    /\ (result.action \in {"Retry", "RetryWithDelay"} /\ outcome.action = "DLQ")
          => runs = Allowed + 1

(* README: "Retry delays grow exponentially: min(baseDelay * 2^(attempt-1), *)
(* 5min)" whenever the handler leaves the delay to the built-in policy.     *)
(* This holds for as long as the product fits a time.Duration: it is        *)
(* compared with the cap only after it may have wrapped around.             *)
BackoffFollowsFormula ==
    (runs > 0 /\ entry.coordinator = "default" /\ result.delay <= 0
         /\ outcome.action \in {"Retry", "RetryWithDelay"}) =>
        LET d == entry.base * 2 ^ (attempts - 1)
        IN  d < Half => outcome.delay = IF d < DelayCap THEN d ELSE DelayCap
=============================================================================
