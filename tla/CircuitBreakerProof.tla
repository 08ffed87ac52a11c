------------------------- MODULE CircuitBreakerProof -------------------------
(***************************************************************************)
(* The invariants of CircuitBreaker, proved for every set of callers and   *)
(* every pair of limits.                                                   *)
(***************************************************************************)
EXTENDS CircuitBreaker, TLAPS

-----------------------------------------------------------------------------
(* Types *)

\* The provers take numbers and truth values one kind at a time.
Flags == waited \in BOOLEAN /\ lost \in BOOLEAN
Numbers ==
  /\ state \in {"closed", "open", "half-open"}
  /\ failureCount \in 0..FailureBound
  /\ halfOpenCalls \in 0..HalfOpenMaxCalls
  /\ running \subseteq Calls
  /\ probes \subseteq running
  /\ admitted \in Nat
  /\ streak \in Nat

LEMMA TypeParts == TypeOK <=> Flags /\ Numbers
  BY DEF TypeOK, Flags, Numbers

LEMMA TypeInit == Init => TypeOK
<1>1. Init => Flags
  BY DEF Init, Flags
<1>2. Init => Numbers
  BY BreakerAssumption DEF BreakerAssumption, Init, Numbers
<1> QED
  BY <1>1, <1>2, TypeParts

LEMMA FlagsStep == Flags /\ [Next]_vars => Flags'
<1> SUFFICES ASSUME Flags, [Next]_vars PROVE Flags'
  OBVIOUS
<1>1. waited' \in {waited, TRUE, FALSE}
  BY DEF Next, vars, breakerVars, AllowClosed, AllowFirst, AllowProbe, Fail, Succeed,
         Panic, Reset, TimePasses
<1>2. lost' \in {lost, FALSE} \/ \E c \in Calls : lost' = (lost \/ c \in probes)
  BY DEF Next, vars, history, AllowClosed, AllowFirst, AllowProbe, LetThrough, Fail,
         Succeed, Forget, Remain, Panic, Reset, TimePasses
<1> QED
  BY <1>1, <1>2 DEF Flags

LEMMA NumbersStep == Numbers /\ [Next]_vars => Numbers'
<1> SUFFICES ASSUME Numbers, [Next]_vars PROVE Numbers'
  OBVIOUS
<1> USE BreakerAssumption DEF BreakerAssumption, Numbers, breakerVars, history
<1>1. ASSUME NEW c \in Calls, AllowClosed(c) PROVE Numbers'
  BY <1>1 DEF AllowClosed
<1>2. ASSUME NEW c \in Calls, AllowFirst(c) PROVE Numbers'
  BY <1>2 DEF AllowFirst
<1>3. ASSUME NEW c \in Calls, AllowProbe(c) PROVE Numbers'
  BY <1>3 DEF AllowProbe, LetThrough
<1>4. ASSUME NEW c \in Calls, Fail(c) PROVE Numbers'
  BY <1>4 DEF Fail, Return, Remain, Forget
<1>5. ASSUME NEW c \in Calls, Succeed(c) PROVE Numbers'
  BY <1>5 DEF Succeed, Return, Remain, Forget
<1>6. ASSUME NEW c \in Calls, Panic(c) PROVE Numbers'
  BY <1>6 DEF Panic, Return
<1>7. CASE Reset
  BY <1>7 DEF Reset, Forget
<1>8. CASE TimePasses
  BY <1>8 DEF TimePasses
<1>9. CASE UNCHANGED vars
  BY <1>9 DEF vars
<1> QED
  BY <1>1, <1>2, <1>3, <1>4, <1>5, <1>6, <1>7, <1>8, <1>9 DEF Next

LEMMA TypeStep == TypeOK /\ [Next]_vars => TypeOK'
<1>1. (TypeOK <=> Flags /\ Numbers)'
  BY TypeParts, PTL
<1> QED
  BY <1>1, TypeParts, FlagsStep, NumbersStep

\* The type invariant of the breaker.
THEOREM Typing == Spec => []TypeOK
<1>1. TypeOK /\ [Next]_vars => TypeOK'
  BY TypeStep
<1> QED
  BY TypeInit, <1>1, PTL DEF Spec

-----------------------------------------------------------------------------
(* The half-open state *)

\* What the counter stands for: the calls let through but the first.  Outside
\* the half-open state nothing is kept of a period.
Counting == IF state = "half-open" THEN admitted = halfOpenCalls + 1
                                   ELSE admitted = 0 /\ probes = {}

\* A closed breaker's count is the failures in a row.
CountsRow == state = "closed" => failureCount = streak

BreakerInv == Counting /\ CountsRow /\ ClosedBelowLimit /\ SomeProbeDecides

LEMMA BreakerInit == Init => BreakerInv
  BY BreakerAssumption
  DEF BreakerAssumption, Init, BreakerInv, Counting, CountsRow, ClosedBelowLimit, SomeProbeDecides

LEMMA BreakerStep == TypeOK /\ BreakerInv /\ [Next]_vars => BreakerInv'
<1> SUFFICES ASSUME TypeOK, BreakerInv, [Next]_vars PROVE BreakerInv'
  OBVIOUS
<1> USE BreakerAssumption
    DEF BreakerAssumption, TypeOK, BreakerInv, Counting, CountsRow, ClosedBelowLimit, SomeProbeDecides,
        breakerVars, history
<1>1. ASSUME NEW c \in Calls, AllowClosed(c) PROVE BreakerInv'
  BY <1>1 DEF AllowClosed
<1>2. ASSUME NEW c \in Calls, AllowFirst(c) PROVE BreakerInv'
  BY <1>2 DEF AllowFirst
<1>3. ASSUME NEW c \in Calls, AllowProbe(c) PROVE BreakerInv'
  BY <1>3 DEF AllowProbe, LetThrough
<1>4. ASSUME NEW c \in Calls, Fail(c) PROVE BreakerInv'
  BY <1>4 DEF Fail, Return, Remain, Forget
<1>5. ASSUME NEW c \in Calls, Succeed(c) PROVE BreakerInv'
  <2>1. CASE state = "closed"
    BY <1>5, <2>1 DEF Succeed, Return, Remain
  <2>2. CASE state = "half-open" /\ halfOpenCalls >= HalfOpenMaxCalls
    BY <1>5, <2>2 DEF Succeed, Return, Forget
  <2>3. CASE state = "half-open" /\ ~(halfOpenCalls >= HalfOpenMaxCalls)
    BY <1>5, <2>3 DEF Succeed, Return, Remain
  <2>4. CASE state = "open"
    BY <1>5, <2>4 DEF Succeed, Return, Remain
  <2> QED
    BY <2>1, <2>2, <2>3, <2>4
<1>6. ASSUME NEW c \in Calls, Panic(c) PROVE BreakerInv'
  BY <1>6 DEF Panic, Return
<1>7. CASE Reset
  BY <1>7 DEF Reset, Forget
<1>8. CASE TimePasses
  BY <1>8 DEF TimePasses
<1>9. CASE UNCHANGED vars
  BY <1>9 DEF vars
<1> QED
  BY <1>1, <1>2, <1>3, <1>4, <1>5, <1>6, <1>7, <1>8, <1>9 DEF Next

LEMMA BreakerInvariance == Spec => [](TypeOK /\ BreakerInv)
<1>1. Init => TypeOK /\ BreakerInv
  BY TypeInit, BreakerInit
<1>2. (TypeOK /\ BreakerInv) /\ [Next]_vars => (TypeOK /\ BreakerInv)'
  BY TypeStep, BreakerStep
<1> QED
  BY <1>1, <1>2, PTL DEF Spec

\* No half-open period lets more than one call beyond the limit through.
THEOREM AtMostOneExtraProbe == Spec => []ProbesLimited
<1>1. TypeOK /\ BreakerInv => ProbesLimited
  BY BreakerAssumption DEF BreakerAssumption, TypeOK, BreakerInv, Counting, ProbesLimited
<1> QED
  BY BreakerInvariance, <1>1, PTL

\* A closed breaker is below its limit.
THEOREM BelowLimit == Spec => []ClosedBelowLimit
<1>1. TypeOK /\ BreakerInv => ClosedBelowLimit
  BY DEF BreakerInv
<1> QED
  BY BreakerInvariance, <1>1, PTL

\* A half-open breaker at its limit waits for a call it has let in, unless one
\* has panicked.
THEOREM NeverStuck == Spec => []SomeProbeDecides
<1>1. TypeOK /\ BreakerInv => SomeProbeDecides
  BY DEF BreakerInv
<1> QED
  BY BreakerInvariance, <1>1, PTL

-----------------------------------------------------------------------------
(* Tripping *)

LEMMA TripStep ==
  TypeOK /\ BreakerInv /\ [Next]_vars
     => (state = "closed" /\ state' = "open" => streak' >= MaxFailures)
<1> SUFFICES ASSUME TypeOK, BreakerInv, [Next]_vars, state = "closed", state' = "open"
             PROVE  streak' >= MaxFailures
  OBVIOUS
<1> USE BreakerAssumption DEF BreakerAssumption, TypeOK, BreakerInv, CountsRow, breakerVars
<1>1. ASSUME NEW c \in Calls, Fail(c) PROVE streak' >= MaxFailures
  BY <1>1 DEF Fail
<1>2. ASSUME NEW c \in Calls, Succeed(c) PROVE FALSE
  BY <1>2 DEF Succeed
<1>3. ASSUME NEW c \in Calls, AllowClosed(c) \/ AllowFirst(c) \/ AllowProbe(c) \/ Panic(c)
      PROVE FALSE
  BY <1>3 DEF AllowClosed, AllowFirst, AllowProbe, Panic
<1>4. ~(Reset \/ TimePasses \/ UNCHANGED vars)
  BY DEF Reset, TimePasses, vars
<1> QED
  BY <1>1, <1>2, <1>3, <1>4 DEF Next

\* A closed breaker opens only after MaxFailures failures in a row.
THEOREM TripsRightly == Spec => TripsOnFailures
<1>1. TypeOK /\ BreakerInv /\ [Next]_vars
        => [state = "closed" /\ state' = "open" => streak' >= MaxFailures]_vars
  BY TripStep
<1> QED
  BY BreakerInvariance, <1>1, PTL DEF Spec, TripsOnFailures
=============================================================================
