--------------------------- MODULE CircuitBreaker ---------------------------
(***************************************************************************)
(* packages/service-core: CircuitBreaker.execute, as api-gateway uses it:  *)
(* one breaker per upstream, many requests in flight. A call checks the    *)
(* state before its first await and records its result after it, so        *)
(* results arrive in any order and in states their calls did not start in. *)
(*                                                                         *)
(* age is the time since openedAt, in ticks, capped at ResetTimeout: all   *)
(* the code asks of the clock is whether the reset timeout is over.        *)
(***************************************************************************)
EXTENDS Integers, TLAPS

CONSTANTS
    Calls,            \* calls that may be in flight at once
    FailureThreshold,
    SuccessThreshold,
    ResetTimeout

ASSUME ThresholdsAssumption ==
    /\ FailureThreshold \in Nat \ {0}
    /\ SuccessThreshold \in Nat \ {0}
    /\ ResetTimeout \in Nat

VARIABLES
    state,     \* CLOSED, OPEN or HALF_OPEN
    failures,
    successes,
    age,       \* min(now() - openedAt, ResetTimeout)
    inFlight,  \* calls whose operation is running
    healthy,   \* whether the upstream answers; the environment's
    troubled   \* calls in flight that may fail: it has been down meanwhile

breaker == <<state, failures, successes, age>>
vars == <<breaker, inFlight, healthy, troubled>>

Init ==
    /\ state = "CLOSED"
    /\ failures = 0
    /\ successes = 0
    /\ age = ResetTimeout
    /\ inFlight = {}
    /\ healthy \in BOOLEAN
    /\ troubled = {}

-----------------------------------------------------------------------------
shedding == state = "OPEN" /\ age < ResetTimeout

(* Mutant: every call that is let through starts the probe count over.     *)
enter_restart ==
    /\ state' = IF state = "OPEN" THEN "HALF_OPEN" ELSE state
    /\ successes' = 0

(* The reset timeout is over: the call becomes a probe. *)
enter ==
    IF state = "OPEN" THEN state' = "HALF_OPEN" /\ successes' = 0
    ELSE UNCHANGED <<state, successes>>

(* execute lets the call through; a shed call changes nothing. *)
Start(c) ==
    /\ c \notin inFlight
    /\ ~ shedding
    /\ enter
    /\ inFlight' = inFlight \cup {c}
    /\ troubled' = IF healthy THEN troubled ELSE troubled \cup {c}
    /\ UNCHANGED <<failures, age, healthy>>

open == state' = "OPEN" /\ age' = 0 /\ successes' = 0

(* Mutant: closing keeps the failures that opened the circuit.             *)
close_keepFailures == state' = "CLOSED" /\ successes' = 0 /\ UNCHANGED <<failures, age>>

close == state' = "CLOSED" /\ failures' = 0 /\ successes' = 0 /\ UNCHANGED age

countsAsProbe == state = "HALF_OPEN"

(* Mutant: a late success is taken for the upstream being back.            *)
recordSuccess_closesOpen ==
    IF state = "CLOSED" THEN failures' = 0 /\ UNCHANGED <<state, successes, age>>
    ELSE IF state = "OPEN" \/ successes + 1 >= SuccessThreshold THEN close
    ELSE successes' = successes + 1 /\ UNCHANGED <<state, failures, age>>

recordSuccess ==
    IF countsAsProbe
    THEN IF successes + 1 >= SuccessThreshold THEN close
         ELSE successes' = successes + 1 /\ UNCHANGED <<state, failures, age>>
    ELSE failures' = 0 /\ UNCHANGED <<state, successes, age>>

(* Failures are counted past the threshold while the circuit is open; all  *)
(* that is ever asked of them is whether they have reached it.             *)
countFailure == IF failures < FailureThreshold THEN failures + 1 ELSE failures

recordFailure ==
    IF state = "HALF_OPEN" THEN open /\ UNCHANGED failures
    ELSE /\ failures' = countFailure
         /\ IF countFailure >= FailureThreshold THEN open
            ELSE UNCHANGED <<state, successes, age>>

Succeed(c) ==
    /\ c \in inFlight
    /\ recordSuccess
    /\ inFlight' = inFlight \ {c}
    /\ troubled' = troubled \ {c}
    /\ UNCHANGED healthy

(* The upstream is unreachable or UPSTREAM_TIMEOUT_MS has passed. *)
Fail(c) ==
    /\ c \in troubled
    /\ recordFailure
    /\ inFlight' = inFlight \ {c}
    /\ troubled' = troubled \ {c}
    /\ UNCHANGED healthy

Tick ==
    /\ age < ResetTimeout
    /\ age' = age + 1
    /\ UNCHANGED <<state, failures, successes, inFlight, healthy, troubled>>

(* The upstream goes down or comes back. *)
Flip ==
    /\ healthy' = ~ healthy
    /\ troubled' = IF healthy THEN inFlight ELSE troubled
    /\ UNCHANGED <<breaker, inFlight>>

Next ==
    \/ \E c \in Calls : Start(c) \/ Succeed(c) \/ Fail(c)
    \/ Tick
    \/ Flip

Spec == Init /\ [][Next]_vars

(* Requests keep coming, time passes, and every call ends: the proxy       *)
(* aborts it after UPSTREAM_TIMEOUT_MS. Nothing forces the upstream up.    *)
Fairness ==
    /\ WF_vars(Tick)
    /\ \A c \in Calls : WF_vars(Start(c)) /\ WF_vars(Succeed(c) \/ Fail(c))

FairSpec == Spec /\ Fairness

-----------------------------------------------------------------------------
(* Properties. *)

(* Every variable stays in its set.                                        *)
TypeOK ==
    /\ state \in {"CLOSED", "OPEN", "HALF_OPEN"}
    /\ failures \in 0 .. FailureThreshold
    /\ successes \in 0 .. SuccessThreshold - 1
    /\ age \in 0 .. ResetTimeout
    /\ inFlight \subseteq Calls
    /\ healthy \in BOOLEAN
    /\ troubled \subseteq inFlight

(* The counters never sit at a threshold without the state change it is    *)
(* for: closed means fewer consecutive failures than failureThreshold,     *)
(* half-open fewer successes than successThreshold; and no success is      *)
(* carried into or out of a probing phase.                                 *)
CountersBelowThreshold ==
    /\ state = "CLOSED" => failures < FailureThreshold /\ successes = 0
    /\ state = "HALF_OPEN" => successes < SuccessThreshold
    /\ state = "OPEN" => successes = 0

(* However late results arrive, an open circuit is only left through a     *)
(* probe: OPEN never becomes CLOSED, HALF_OPEN is only entered from OPEN.  *)
StateCycle ==
    [][state' # state =>
          <<state, state'>> \in {<<"CLOSED", "OPEN">>, <<"OPEN", "HALF_OPEN">>,
                                 <<"HALF_OPEN", "OPEN">>, <<"HALF_OPEN", "CLOSED">>}]_vars

(* An upstream that stays healthy from some time on gets its traffic back  *)
(* for good, whatever calls from before still fail.                        *)
Recovers == <>[]healthy => <>[](state = "CLOSED")

-----------------------------------------------------------------------------
(* Theorems, for any number of calls in flight and any thresholds.         *)

(* The thresholds keep their counters in range, so the two are inductive   *)
(* together and need nothing else.                                         *)
Inv == TypeOK /\ CountersBelowThreshold

(* The breaker starts closed, with both counters at zero.                  *)
LEMMA InitInv == Init => Inv
BY ThresholdsAssumption DEF Init, Inv, TypeOK, CountersBelowThreshold

(* Letting a call through keeps the counters below their thresholds.       *)
LEMMA StartInv ==
    ASSUME Inv, NEW c \in Calls, Start(c)
    PROVE  Inv'
BY ThresholdsAssumption DEF Inv, TypeOK, CountersBelowThreshold, Start, enter, shedding

(* A success, in whatever state it arrives, keeps them there too.          *)
LEMMA SucceedInv ==
    ASSUME Inv, NEW c \in Calls, Succeed(c)
    PROVE  Inv'
BY ThresholdsAssumption
   DEF Inv, TypeOK, CountersBelowThreshold, Succeed, recordSuccess, countsAsProbe, close

(* So does a failure: reaching the threshold opens the circuit.            *)
LEMMA FailInv ==
    ASSUME Inv, NEW c \in Calls, Fail(c)
    PROVE  Inv'
BY ThresholdsAssumption
   DEF Inv, TypeOK, CountersBelowThreshold, Fail, recordFailure, countFailure, open

(* Every step is one of those, or the clock moving.                        *)
LEMMA StepInv == Inv /\ [Next]_vars => Inv'
<1> SUFFICES ASSUME Inv, [Next]_vars PROVE Inv'
  OBVIOUS
<1>1. CASE Tick
  BY <1>1, ThresholdsAssumption DEF Inv, TypeOK, CountersBelowThreshold, Tick
<1>2. CASE Flip
  BY <1>2 DEF Inv, TypeOK, CountersBelowThreshold, Flip, breaker
<1>3. CASE UNCHANGED vars
  BY <1>3 DEF Inv, TypeOK, CountersBelowThreshold, vars, breaker
<1>4. QED
  BY <1>1, <1>2, <1>3, StartInv, SucceedInv, FailInv DEF Next

-----------------------------------------------------------------------------
(* The breaker's variables stay in their sets.                             *)
THEOREM TypeCorrect == Spec => []TypeOK
<1>1. Inv => TypeOK
  BY DEF Inv
<1>2. QED
  BY <1>1, InitInv, StepInv, PTL DEF Spec

(* No counter sits at its threshold, whatever order results arrive in.     *)
THEOREM CountersHold == Spec => []CountersBelowThreshold
<1>1. Inv => CountersBelowThreshold
  BY DEF Inv
<1>2. QED
  BY <1>1, InitInv, StepInv, PTL DEF Spec

(* An open circuit is only left through a probe.                           *)
THEOREM CycleHolds == Spec => StateCycle
<1> DEFINE Cycle ==
        state' # state =>
          <<state, state'>> \in {<<"CLOSED", "OPEN">>, <<"OPEN", "HALF_OPEN">>,
                                 <<"HALF_OPEN", "OPEN">>, <<"HALF_OPEN", "CLOSED">>}
<1>1. Inv /\ [Next]_vars => [Cycle]_vars
  <2> SUFFICES ASSUME Inv, [Next]_vars PROVE Cycle
    OBVIOUS
  <2>1. state \in {"CLOSED", "OPEN", "HALF_OPEN"}
    BY DEF Inv, TypeOK
  <2>2. ASSUME NEW c \in Calls, Start(c) PROVE Cycle
    BY <2>1, <2>2 DEF Start, enter
  <2>3. ASSUME NEW c \in Calls, Succeed(c) PROVE Cycle
    BY <2>1, <2>3 DEF Succeed, recordSuccess, countsAsProbe, close
  <2>4. ASSUME NEW c \in Calls, Fail(c) PROVE Cycle
    BY <2>1, <2>4 DEF Fail, recordFailure, open
  <2>5. CASE Tick \/ Flip \/ UNCHANGED vars
    BY <2>5 DEF Tick, Flip, vars, breaker
  <2>6. QED
    BY <2>2, <2>3, <2>4, <2>5 DEF Next
<1>2. QED
  BY <1>1, InitInv, StepInv, PTL DEF Spec, StateCycle
=============================================================================
