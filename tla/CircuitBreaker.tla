---------------------------- MODULE CircuitBreaker ----------------------------
(***************************************************************************)
(* internal/resilience/circuit_breaker.go: a breaker between a failing     *)
(* service and its callers.  Execute asks allowCall, runs the function     *)
(* with no lock held and records the result, so a result is recorded in    *)
(* whatever state the breaker has reached by then.  allowCall and          *)
(* recordResult are lock regions and steps here.                           *)
(*                                                                         *)
(* Time is what allowCall asks of it: whether resetTimeout has passed      *)
(* since the last failure.  A refused call changes nothing and has no      *)
(* action.                                                                 *)
(***************************************************************************)
EXTENDS Integers

CONSTANTS Calls,             \* goroutines that call Execute, again and again
          MaxFailures, HalfOpenMaxCalls,
          Panicking,         \* bound: the goroutines whose function may panic
          FailureBound       \* bound: failureCount stops here

ASSUME BreakerAssumption ==
  /\ MaxFailures \in Nat \ {0} /\ HalfOpenMaxCalls \in Nat
  /\ Panicking \subseteq Calls
  /\ FailureBound \in Nat

VARIABLES
  state,          \* "closed", "open" or "half-open"
  failureCount,
  halfOpenCalls,
  waited,         \* time.Since(lastFailureTime) > resetTimeout
  running,        \* the goroutines whose function has been let through
  probes,         \* history: those let through since the breaker became half-open
  admitted,       \* history: how many have been let through since then
  lost,           \* history: one of those has panicked
  streak          \* history: failures since the last success, reset or closing

breakerVars == <<state, failureCount, halfOpenCalls, waited>>
history == <<probes, admitted, lost>>
vars == <<breakerVars, running, history, streak>>

Init ==
  /\ state = "closed"
  /\ failureCount = 0
  /\ halfOpenCalls = 0
  /\ waited = TRUE
  /\ running = {}
  /\ probes = {}
  /\ admitted = 0
  /\ lost = FALSE
  /\ streak = 0

-----------------------------------------------------------------------------
(* allowCall *)

AllowClosed(c) ==
  /\ state = "closed" /\ c \notin running
  /\ running' = running \cup {c}
  /\ UNCHANGED <<breakerVars, history, streak>>

\* The call that makes the breaker half-open is let through and not counted.
AllowFirst(c) ==
  /\ state = "open" /\ waited /\ c \notin running
  /\ state' = "half-open"
  /\ halfOpenCalls' = 0
  /\ running' = running \cup {c}
  /\ probes' = {c}
  /\ admitted' = 1
  /\ lost' = FALSE
  /\ UNCHANGED <<failureCount, waited, streak>>

LetThrough(c) ==
  /\ running' = running \cup {c}
  /\ probes' = probes \cup {c}
  /\ admitted' = admitted + 1
  /\ UNCHANGED lost

\* Fault: one call too many.
FaultyOneMore(c) ==
  /\ state = "half-open" /\ halfOpenCalls <= HalfOpenMaxCalls /\ c \notin running
  /\ halfOpenCalls' = halfOpenCalls + 1
  /\ LetThrough(c)
  /\ UNCHANGED <<state, failureCount, waited, streak>>

\* Fault: the call is let through and not counted.
FaultyUncounted(c) ==
  /\ state = "half-open" /\ halfOpenCalls < HalfOpenMaxCalls /\ c \notin running
  /\ LetThrough(c)
  /\ UNCHANGED <<state, failureCount, halfOpenCalls, waited, streak>>

AllowProbe(c) ==
  /\ state = "half-open" /\ halfOpenCalls < HalfOpenMaxCalls /\ c \notin running
  /\ halfOpenCalls' = halfOpenCalls + 1
  /\ LetThrough(c)
  /\ UNCHANGED <<state, failureCount, waited, streak>>

-----------------------------------------------------------------------------
(* recordResult *)

Return(c) ==
  /\ c \in running
  /\ running' = running \ {c}

\* What leaving the half-open state does to the history of it.
Forget ==
  /\ probes' = {}
  /\ admitted' = 0
  /\ lost' = FALSE

Remain(c) ==
  /\ probes' = probes \ {c}
  /\ UNCHANGED <<admitted, lost>>

\* Fault: a failed probe does not open the breaker.
FaultyStaysHalfOpen(c) ==
  /\ Return(c)
  /\ failureCount < FailureBound
  /\ failureCount' = failureCount + 1
  /\ waited' = FALSE
  /\ streak' = streak + 1
  /\ IF state = "closed" /\ failureCount' >= MaxFailures
     THEN state' = "open" ELSE UNCHANGED state
  /\ Remain(c)
  /\ UNCHANGED halfOpenCalls

\* A failure counts in every state, and restarts the wait of an open breaker.
Fail(c) ==
  /\ Return(c)
  /\ failureCount < FailureBound
  /\ failureCount' = failureCount + 1
  /\ waited' = FALSE
  /\ streak' = streak + 1
  /\ IF state = "half-open" \/ (state = "closed" /\ failureCount' >= MaxFailures)
     THEN state' = "open" /\ Forget
     ELSE UNCHANGED state /\ Remain(c)
  /\ UNCHANGED halfOpenCalls

\* Fault: a success in the closed state leaves the count.
FaultyKeepsCount(c) ==
  /\ Return(c)
  /\ IF state = "half-open" /\ halfOpenCalls >= HalfOpenMaxCalls
     THEN state' = "closed" /\ failureCount' = 0 /\ Forget
     ELSE UNCHANGED <<state, failureCount>> /\ Remain(c)
  /\ streak' = 0
  /\ UNCHANGED <<halfOpenCalls, waited>>

\* Fault: the count is not reset when the breaker closes.
FaultyClosesDirty(c) ==
  /\ Return(c)
  /\ CASE state = "closed" -> failureCount' = 0 /\ UNCHANGED state /\ Remain(c)
       [] state = "half-open" /\ halfOpenCalls >= HalfOpenMaxCalls ->
            state' = "closed" /\ Forget /\ UNCHANGED failureCount
       [] OTHER -> UNCHANGED <<state, failureCount>> /\ Remain(c)
  /\ streak' = 0
  /\ UNCHANGED <<halfOpenCalls, waited>>

\* Fault: the first probe is expected to be counted too.
FaultyWantsOneMore(c) ==
  /\ Return(c)
  /\ CASE state = "closed" -> failureCount' = 0 /\ UNCHANGED state /\ Remain(c)
       [] state = "half-open" /\ halfOpenCalls > HalfOpenMaxCalls ->
            state' = "closed" /\ failureCount' = 0 /\ Forget
       [] OTHER -> UNCHANGED <<state, failureCount>> /\ Remain(c)
  /\ streak' = 0
  /\ UNCHANGED <<halfOpenCalls, waited>>

\* A success closes a half-open breaker that has let all its calls through,
\* whether they have returned or not and whoever the success is from.
Succeed(c) ==
  /\ Return(c)
  /\ CASE state = "closed" -> failureCount' = 0 /\ UNCHANGED state /\ Remain(c)
       [] state = "half-open" /\ halfOpenCalls >= HalfOpenMaxCalls ->
            state' = "closed" /\ failureCount' = 0 /\ Forget
       [] OTHER -> UNCHANGED <<state, failureCount>> /\ Remain(c)
  /\ streak' = 0
  /\ UNCHANGED <<halfOpenCalls, waited>>

\* Execute has no deferred call: the result of a function that panics is not
\* recorded.
Panic(c) ==
  /\ c \in Panicking
  /\ Return(c)
  /\ probes' = probes \ {c}
  /\ lost' = (lost \/ c \in probes)
  /\ UNCHANGED <<breakerVars, admitted, streak>>

-----------------------------------------------------------------------------
Reset ==
  /\ state' = "closed"
  /\ failureCount' = 0
  /\ halfOpenCalls' = 0
  /\ streak' = 0
  /\ Forget
  /\ UNCHANGED <<waited, running>>

\* resetTimeout passes with no failure.
TimePasses ==
  /\ ~waited
  /\ waited' = TRUE
  /\ UNCHANGED <<state, failureCount, halfOpenCalls, running, history, streak>>

-----------------------------------------------------------------------------
Next ==
  \/ \E c \in Calls : \/ AllowClosed(c) \/ AllowFirst(c) \/ AllowProbe(c)
                      \/ Fail(c) \/ Succeed(c) \/ Panic(c)
  \/ Reset \/ TimePasses

\* A function that runs ends.  Nobody has to call.
Fairness == \A c \in Calls : WF_vars(Fail(c) \/ Succeed(c) \/ Panic(c))

Spec == Init /\ [][Next]_vars

FairSpec == Spec /\ Fairness

-----------------------------------------------------------------------------
(* Properties *)

TypeOK ==
  /\ state \in {"closed", "open", "half-open"}
  /\ failureCount \in 0..FailureBound
  /\ halfOpenCalls \in 0..HalfOpenMaxCalls
  /\ waited \in BOOLEAN
  /\ running \subseteq Calls
  /\ probes \subseteq running
  /\ admitted \in Nat
  /\ lost \in BOOLEAN
  /\ streak \in Nat

\* One half-open period lets at most one call more through than the limit says,
\* the one that began it, however the calls before it end meanwhile.
ProbesLimited == admitted <= HalfOpenMaxCalls + 1

\* A closed breaker is below its limit: neither late failures, nor failed probes,
\* nor the way it was closed leave it one success away from nothing.
ClosedBelowLimit == state = "closed" => failureCount < MaxFailures

\* A closed breaker opens only after MaxFailures failures in a row.
TripsOnFailures ==
  [][state = "closed" /\ state' = "open" => streak' >= MaxFailures]_vars

\* A half-open breaker that lets nobody in any more waits for a call it has let
\* in: nothing but a panic can leave it refusing everybody for ever.
SomeProbeDecides ==
  state = "half-open" /\ halfOpenCalls >= HalfOpenMaxCalls => probes # {} \/ lost

\* And that call decides, or panics.
HalfOpenEnds ==
  (state = "half-open" /\ halfOpenCalls >= HalfOpenMaxCalls)
     ~> (state # "half-open" \/ lost)
=============================================================================
