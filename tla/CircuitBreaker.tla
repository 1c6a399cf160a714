--------------------------- MODULE CircuitBreaker ---------------------------
(***************************************************************************)
(* The in-memory circuit breakers of                                       *)
(* backend/internal/circuitbreaker/circuitbreaker.go: one circuitState per *)
(* "scope:scopeValue" key, every operation under StateManager.mu.          *)
(*                                                                         *)
(* Time is abstracted to what the code compares it with: `cooling` is TRUE *)
(* from the moment CooldownUntil is set until time.Now() passes it.  A key *)
(* missing from the map and a key holding the initial circuitState behave  *)
(* alike, so absence is modelled by Fresh.  The state written to Redis is  *)
(* never read back, and callers drop its error, so it is left out.         *)
(***************************************************************************)
EXTENDS Integers

CONSTANTS
    Keys,               \* the breakers, e.g. one per device
    ThresholdNum,       \* failureThreshold(scope) as the fraction
    ThresholdDen,       \*   ThresholdNum / ThresholdDen
    HalfOpenSuccesses,  \* halfOpenSuccessesFor(scope)
    MaxFailures,        \* bound: largest FailureCount explored
    MaxSuccesses        \* bound: largest SuccessCount reached while closed

ASSUME BreakerAssumption ==
    /\ ThresholdNum \in Nat
    /\ ThresholdDen \in Nat \ {0}
    /\ HalfOpenSuccesses \in Nat \ {0}
    /\ MaxFailures \in Nat
    /\ MaxSuccesses \in Nat

VARIABLES
    breaker,    \* Keys -> circuitState
    streak      \* history: successes recorded since the last failure of the key

vars == <<breaker, streak>>

States == {"CLOSED", "OPEN", "HALF_OPEN"}

Breaker == [state : States, failures : Nat, successes : Nat,
            trial : Nat, cooling : BOOLEAN]

Fresh == [state |-> "CLOSED", failures |-> 0, successes |-> 0,
          trial |-> 0, cooling |-> FALSE]

-----------------------------------------------------------------------------
(* The three operations on one circuitState. *)

\* failureRate > threshold, over every outcome since the breaker last closed
Exceeds(failures, successes) ==
    failures * ThresholdDen > ThresholdNum * (failures + successes)

Tripped(b) == [b EXCEPT !.state = "OPEN", !.cooling = TRUE]

\* Plausible mistakes in these operations, used to show that the properties
\* below notice them.
AfterFailureLenient(b) ==
    IF b.state = "CLOSED" /\ b.successes > 0
    THEN [b EXCEPT !.failures = @ + 1]
    ELSE [Tripped(b) EXCEPT !.failures = @ + 1]

AfterSuccessStuck(b) ==
    IF b.state = "CLOSED" THEN [b EXCEPT !.successes = @ + 1] ELSE b

AfterSuccessEager(b) ==
    IF b.state = "CLOSED" THEN [b EXCEPT !.successes = @ + 1] ELSE Fresh

AfterGetStateKeepsTrial(b) ==
    IF b.state = "OPEN" /\ ~b.cooling THEN [b EXCEPT !.state = "HALF_OPEN"] ELSE b

AfterFailure(b) ==
    LET counted == [b EXCEPT !.failures = @ + 1]
    IN  IF b.state = "HALF_OPEN"
        THEN [Tripped(counted) EXCEPT !.successes = 0]
        ELSE IF Exceeds(counted.failures, counted.successes)
             THEN Tripped(counted)
             ELSE counted

AfterSuccess(b) ==
    CASE b.state = "OPEN"   -> b
      [] b.state = "CLOSED" -> [b EXCEPT !.successes = @ + 1]
      [] b.state = "HALF_OPEN" ->
            IF b.trial + 1 >= HalfOpenSuccesses
            THEN [Fresh EXCEPT !.cooling = b.cooling]
            ELSE [b EXCEPT !.successes = @ + 1, !.trial = @ + 1]

AfterGetState(b) ==
    IF b.state = "OPEN" /\ ~b.cooling
    THEN [b EXCEPT !.state = "HALF_OPEN", !.trial = 0]
    ELSE b

-----------------------------------------------------------------------------

Init ==
    /\ breaker = [k \in Keys |-> Fresh]
    /\ streak = [k \in Keys |-> 0]

RecordFailure(k) ==
    /\ breaker[k].failures < MaxFailures
    /\ breaker' = [breaker EXCEPT ![k] = AfterFailure(@)]
    /\ streak' = [streak EXCEPT ![k] = 0]

RecordSuccess(k) ==
    /\ breaker[k].state = "CLOSED" => breaker[k].successes < MaxSuccesses
    /\ breaker' = [breaker EXCEPT ![k] = AfterSuccess(@)]
    \* counted up to HalfOpenSuccesses only, so that the state space is finite
    /\ streak' = [streak EXCEPT ![k] = IF @ < HalfOpenSuccesses THEN @ + 1 ELSE @]

\* GetState, and IsOpen through it: the read that moves OPEN to HALF_OPEN
GetState(k) ==
    /\ breaker' = [breaker EXCEPT ![k] = AfterGetState(@)]
    /\ UNCHANGED streak

\* the admin endpoint deletes the entry
Reset(k) ==
    /\ breaker' = [breaker EXCEPT ![k] = Fresh]
    /\ UNCHANGED streak

\* the clock passes CooldownUntil
CooldownElapses(k) ==
    /\ breaker[k].cooling
    /\ breaker' = [breaker EXCEPT ![k].cooling = FALSE]
    /\ UNCHANGED streak

\* the process restarts: NewStateManager starts from an empty map
Restart ==
    /\ breaker' = [k \in Keys |-> Fresh]
    /\ UNCHANGED streak

Next ==
    \/ \E k \in Keys :
        \/ RecordFailure(k)
        \/ RecordSuccess(k)
        \/ GetState(k)
        \/ Reset(k)
        \/ CooldownElapses(k)
    \/ Restart

Spec == Init /\ [][Next]_vars

(* Time passes, and as long as messages are dispatched to the device each   *)
(* dispatch polls its breaker and each success is recorded.  Failures,      *)
(* resets and restarts are not assumed to happen.                           *)
FairSpec ==
    /\ Spec
    /\ \A k \in Keys :
        /\ WF_vars(CooldownElapses(k))
        /\ WF_vars(GetState(k))
        /\ WF_vars(breaker[k].state # "OPEN" /\ RecordSuccess(k))

-----------------------------------------------------------------------------
(* Properties *)

\* Every breaker has the shape of circuitState.
TypeOK ==
    /\ breaker \in [Keys -> Breaker]
    /\ streak \in [Keys -> Nat]

\* A closed breaker never hides a failure rate above the threshold: whatever
\* sequence of outcomes, trips and re-closings led here, its two counters are
\* within it (RecordFailure opens the circuit in the very call that crosses).
ClosedWithinThreshold ==
    \A k \in Keys : breaker[k].state = "CLOSED" =>
        ~Exceeds(breaker[k].failures, breaker[k].successes)

\* The trial counter of a half-open breaker counts consecutive successes only:
\* it never exceeds the successes recorded since the key's last failure, so a
\* trial interrupted by a failure starts again from zero.
TrialIsConsecutive ==
    \A k \in Keys : breaker[k].state = "HALF_OPEN" =>
        /\ breaker[k].trial <= streak[k]
        /\ breaker[k].trial < HalfOpenSuccesses

\* A tripped breaker closes only from HALF_OPEN and only after
\* HalfOpenSuccesses consecutive successes, unless an admin resets it or the
\* process restarts.
ClosesOnlyAfterTrial ==
    [][\A k \in Keys :
        breaker[k].state # "CLOSED" /\ breaker'[k].state = "CLOSED" =>
            \/ breaker[k].state = "HALF_OPEN" /\ streak'[k] >= HalfOpenSuccesses
            \/ Reset(k)
            \/ Restart]_vars

\* Once its device stops failing, a tripped breaker closes again: cooldown,
\* the poll that half-opens it and the trial successes lead back to CLOSED.
RecoversOnceHealthy ==
    \A k \in Keys :
        <>[][~RecordFailure(k)]_vars => []<>(breaker[k].state = "CLOSED")

\* Documentation (docs/requirement.md 17.2): a spike of account failures
\* throttles the account.  Stated at its weakest: a breaker that has seen
\* MaxFailures failures and no success is no longer closed.
SpikeOpensBreaker ==
    \A k \in Keys :
        breaker[k].failures = MaxFailures /\ breaker[k].successes = 0
            => breaker[k].state # "CLOSED"

=============================================================================
