-------------------------------- MODULE Retry --------------------------------
(***************************************************************************)
(* Retry, WithCircuitBreaker and Manager of internal/resilience/           *)
(* circuit_breaker.go, on top of the breaker.                              *)
(*                                                                         *)
(* Retry makes a manager of its own, so that its breaker is new and nobody *)
(* else's: in a behaviour the breaker is either shared by callers of       *)
(* Execute, as in CircuitBreaker, or used by one Retry after the other.    *)
(* WithCircuitBreaker is a Retry with no retries.                          *)
(***************************************************************************)
EXTENDS CircuitBreaker

CONSTANTS Caller,       \* the goroutine that calls Retry
          MaxRetries    \* bound on the argument maxRetries

ASSUME RetryAssumption == Caller \in Calls /\ MaxRetries \in Nat

VARIABLES
  use,     \* "shared" or "retry"
  retry,   \* Retry is at "none", "ready" to call Execute, "running" the function
           \* in it, "waiting" for the backoff, or has "returned"
  left,    \* how many retries it has left
  runs     \* history: how often it has run the function

retryVars == <<use, retry, left, runs>>
allVars == <<vars, retryVars>>

RetryInit ==
  /\ Init
  /\ use \in {"shared", "retry"}
  /\ retry = "none" /\ left = 0 /\ runs = 0

-----------------------------------------------------------------------------
\* GetOrCreate finds nothing in a manager that was made a line before.
GetOrCreate ==
  /\ state' = "closed" /\ failureCount' = 0 /\ halfOpenCalls' = 0 /\ waited' = TRUE
  /\ streak' = 0
  /\ Forget

RetryBegins(maxRetries) ==
  /\ use = "retry" /\ retry \in {"none", "returned"}
  /\ GetOrCreate
  /\ retry' = "ready"
  /\ left' = maxRetries
  /\ runs' = 0
  /\ UNCHANGED <<running, use>>

\* Execute lets the function through; RetryFindsClosed says it never refuses.
Attempt ==
  /\ retry = "ready"
  /\ AllowClosed(Caller)
  /\ retry' = "running"
  /\ runs' = runs + 1
  /\ UNCHANGED <<use, left>>

AttemptSucceeds ==
  /\ retry = "running"
  /\ Succeed(Caller)
  /\ retry' = "returned"
  /\ UNCHANGED <<use, left, runs>>

\* Fault: it goes on whatever the breaker says.
FaultyAttemptFails ==
  /\ retry = "running"
  /\ Fail(Caller)
  /\ retry' = IF left = 0 THEN "returned" ELSE "waiting"
  /\ UNCHANGED <<use, left, runs>>

\* After a failure it gives up when the breaker is open or no retry is left.
AttemptFails ==
  /\ retry = "running"
  /\ Fail(Caller)
  /\ retry' = IF state' = "open" \/ left = 0 THEN "returned" ELSE "waiting"
  /\ UNCHANGED <<use, left, runs>>

\* A panic leaves Retry as it leaves Execute.
AttemptPanics ==
  /\ retry = "running"
  /\ Panic(Caller)
  /\ retry' = "returned"
  /\ UNCHANGED <<use, left, runs>>

BackoffEnds ==
  /\ retry = "waiting"
  /\ retry' = "ready"
  /\ left' = left - 1
  /\ UNCHANGED <<vars, use, runs>>

ContextDone ==
  /\ retry = "waiting"
  /\ retry' = "returned"
  /\ UNCHANGED <<vars, use, left, runs>>

-----------------------------------------------------------------------------
RetryStep ==
  \/ \E maxRetries \in 0..MaxRetries : RetryBegins(maxRetries)
  \/ Attempt \/ AttemptSucceeds \/ AttemptFails \/ AttemptPanics
  \/ BackoffEnds \/ ContextDone

RetryNext ==
  \/ use = "shared" /\ Next /\ UNCHANGED retryVars
  \/ RetryStep

RetrySpec == RetryInit /\ [][RetryNext]_allVars

RetryFairSpec == RetrySpec /\ Fairness

-----------------------------------------------------------------------------
(* Properties *)

\* Retry calls the function while its breaker is closed and gives up with the
\* failure that opens it: it is never refused, and runs the function at most
\* MaxFailures times, whatever maxRetries says.
RetryFindsClosed ==
  /\ retry \in {"ready", "waiting"} => state = "closed"
  /\ runs <= MaxFailures
=============================================================================
