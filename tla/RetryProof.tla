------------------------------ MODULE RetryProof ------------------------------
(***************************************************************************)
(* Retry and its breaker, proved for any limits and any number of retries. *)
(***************************************************************************)
EXTENDS Retry, CircuitBreakerProof

\* While Retry is at work its breaker is closed and has counted the failures of
\* this Retry and nothing else.
RetryInv ==
  /\ runs \in Nat
  /\ use = "shared" => retry = "none"
  /\ retry \in {"none", "ready", "running", "waiting", "returned"}
  /\ retry \in {"ready", "running", "waiting"} => state = "closed"
  /\ retry \in {"ready", "waiting"} => runs = failureCount
  /\ retry = "running" => runs = failureCount + 1
  /\ runs <= MaxFailures

LEMMA RetryInvInit == RetryInit => RetryInv
  BY BreakerAssumption DEF BreakerAssumption, RetryInit, RetryInv

\* What a step of Retry is to the breaker.
LEMMA BreakerOfRetry ==
  ASSUME [RetryNext]_allVars
  PROVE  [Next]_vars \/ (GetOrCreate /\ UNCHANGED running)
<1>1. ASSUME NEW maxRetries \in 0..MaxRetries, RetryBegins(maxRetries)
      PROVE  GetOrCreate /\ UNCHANGED running
  BY <1>1 DEF RetryBegins
<1>2. Attempt \/ AttemptSucceeds \/ AttemptFails \/ AttemptPanics
        => \E c \in Calls : AllowClosed(c) \/ Succeed(c) \/ Fail(c) \/ Panic(c)
  <2>1. Caller \in Calls
    BY RetryAssumption DEF RetryAssumption
  <2>2. Attempt => AllowClosed(Caller)
    BY DEF Attempt
  <2>3. AttemptSucceeds => Succeed(Caller)
    BY DEF AttemptSucceeds
  <2>4. AttemptFails => Fail(Caller)
    BY DEF AttemptFails
  <2>5. AttemptPanics => Panic(Caller)
    BY DEF AttemptPanics
  <2> QED
    BY <2>1, <2>2, <2>3, <2>4, <2>5
<1>3. (\E c \in Calls : AllowClosed(c) \/ Succeed(c) \/ Fail(c) \/ Panic(c)) => Next
  BY DEF Next
<1>4. BackoffEnds \/ ContextDone \/ UNCHANGED allVars => UNCHANGED vars
  BY DEF BackoffEnds, ContextDone, allVars
<1> QED
  BY <1>1, <1>2, <1>3, <1>4 DEF RetryNext, RetryStep

LEMMA NewBreaker ==
  ASSUME TypeOK, GetOrCreate, UNCHANGED running
  PROVE  TypeOK' /\ BreakerInv'
<1>1. Flags'
  BY TypeParts DEF GetOrCreate, Forget, Flags
<1>2. Numbers'
  BY BreakerAssumption, TypeParts DEF BreakerAssumption, GetOrCreate, Forget, Numbers
<1>3. BreakerInv'
  BY BreakerAssumption
  DEF BreakerAssumption, GetOrCreate, Forget, BreakerInv, Counting, CountsRow,
      ClosedBelowLimit, SomeProbeDecides
<1>4. (TypeOK <=> Flags /\ Numbers)'
  BY TypeParts, PTL
<1> QED
  BY <1>1, <1>2, <1>3, <1>4

LEMMA RetryInvStep ==
  TypeOK /\ BreakerInv /\ RetryInv /\ [RetryNext]_allVars => RetryInv'
<1> SUFFICES ASSUME Numbers, BreakerInv, RetryInv, [RetryNext]_allVars PROVE RetryInv'
  BY TypeParts
<1> USE BreakerAssumption DEF BreakerAssumption, Numbers, RetryInv
<1>0. state = "closed" => failureCount < MaxFailures
  BY DEF BreakerInv, ClosedBelowLimit
<1>1. ASSUME NEW maxRetries \in 0..MaxRetries, RetryBegins(maxRetries) PROVE RetryInv'
  BY <1>1 DEF RetryBegins, GetOrCreate
<1>2. CASE Attempt
  BY <1>0, <1>2 DEF Attempt, AllowClosed, breakerVars
<1>3. CASE AttemptSucceeds
  BY <1>3 DEF AttemptSucceeds
<1>4. CASE AttemptFails
  BY <1>4 DEF AttemptFails, Fail
<1>5. CASE AttemptPanics
  BY <1>5 DEF AttemptPanics
<1>6. CASE BackoffEnds \/ ContextDone
  BY <1>6 DEF BackoffEnds, ContextDone, vars, breakerVars
<1>7. CASE use = "shared" /\ Next /\ UNCHANGED retryVars
  BY <1>7 DEF retryVars
<1>8. CASE UNCHANGED allVars
  BY <1>8 DEF allVars, vars, breakerVars, retryVars
<1> QED
  BY <1>1, <1>2, <1>3, <1>4, <1>5, <1>6, <1>7, <1>8 DEF RetryNext, RetryStep

LEMMA RetryInvariance == RetrySpec => [](TypeOK /\ BreakerInv /\ RetryInv)
<1>1. RetryInit => TypeOK /\ BreakerInv /\ RetryInv
  BY TypeInit, BreakerInit, RetryInvInit DEF RetryInit
<1>2. TypeOK /\ BreakerInv /\ [RetryNext]_allVars => TypeOK' /\ BreakerInv'
  BY BreakerOfRetry, TypeStep, BreakerStep, NewBreaker
<1> QED
  BY <1>1, <1>2, RetryInvStep, PTL DEF RetrySpec

\* A Retry finds its breaker closed whenever it is about to call it, and runs the
\* function MaxFailures times at most; and the breaker keeps its own promises,
\* whether it is shared or made anew by each Retry.
THEOREM RetryIsNeverRefused ==
  RetrySpec => [](TypeOK /\ ProbesLimited /\ ClosedBelowLimit /\ SomeProbeDecides
                    /\ RetryFindsClosed)
<1>1. TypeOK /\ BreakerInv => ProbesLimited /\ ClosedBelowLimit /\ SomeProbeDecides
  BY BreakerAssumption
  DEF BreakerAssumption, TypeOK, BreakerInv, Counting, ProbesLimited
<1>2. RetryInv => RetryFindsClosed
  BY DEF RetryInv, RetryFindsClosed
<1> QED
  BY <1>1, <1>2, RetryInvariance, PTL

\* The breaker that Retry uses trips as the breaker promises: from closed to open
\* only after MaxFailures failures in a row, and a new Retry never opens it.
THEOREM RetryTripsRightly == RetrySpec => TripsOnFailures
<1>1. TypeOK /\ BreakerInv /\ [RetryNext]_allVars
        => [state = "closed" /\ state' = "open" => streak' >= MaxFailures]_vars
  <2>1. GetOrCreate => state' # "open"
    BY DEF GetOrCreate
  <2> QED
    BY <2>1, BreakerOfRetry, TripStep
<1> QED
  BY <1>1, RetryInvariance, PTL DEF RetrySpec, TripsOnFailures

\* What a Retry has run and what it may still run are within its budget.
Budget ==
  /\ runs \in Nat /\ left \in Nat
  /\ retry = "none" => runs = 0
  /\ retry = "ready" => runs + left <= MaxRetries
  /\ retry \in {"running", "waiting"} => runs + left <= MaxRetries + 1
  /\ retry = "waiting" => left > 0
  /\ runs <= MaxRetries + 1

LEMMA BudgetStep == RetryInv /\ Budget /\ [RetryNext]_allVars => Budget'
<1> SUFFICES ASSUME RetryInv, Budget, [RetryNext]_allVars PROVE Budget'
  OBVIOUS
<1> USE RetryAssumption DEF RetryAssumption, Budget
<1>1. ASSUME NEW maxRetries \in 0..MaxRetries, RetryBegins(maxRetries) PROVE Budget'
  BY <1>1 DEF RetryBegins
<1>2. CASE Attempt
  BY <1>2 DEF Attempt
<1>3. CASE AttemptSucceeds \/ AttemptPanics
  BY <1>3 DEF AttemptSucceeds, AttemptPanics
<1>4. CASE AttemptFails
  BY <1>4 DEF AttemptFails
<1>5. CASE BackoffEnds
  BY <1>5 DEF BackoffEnds
<1>6. CASE ContextDone
  BY <1>6 DEF ContextDone
<1>7. CASE UNCHANGED retryVars
  BY <1>7 DEF retryVars
<1> QED
  BY <1>1, <1>2, <1>3, <1>4, <1>5, <1>6, <1>7 DEF RetryNext, RetryStep, allVars

\* However its attempts end, a Retry runs the function at most once more than it has
\* retries.
THEOREM RetryKeepsBudget == RetrySpec => [](runs <= MaxRetries + 1)
<1>1. RetryInit => Budget
  BY RetryAssumption DEF RetryAssumption, RetryInit, Budget
<1>2. Budget => runs <= MaxRetries + 1
  BY DEF Budget
<1> QED
  BY <1>1, <1>2, BudgetStep, RetryInvariance, PTL DEF RetrySpec
=============================================================================
