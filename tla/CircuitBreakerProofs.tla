------------------------ MODULE CircuitBreakerProofs ------------------------
(* Machine-checked proofs about CircuitBreaker, for every set of keys, every *)
(* threshold and every number of half-open trials.                           *)
EXTENDS CircuitBreaker, TLAPS

\* What one key contributes to the inductive invariant.
KeyInv(b, s) ==
    /\ b.state = "CLOSED" => ~Exceeds(b.failures, b.successes)
    /\ b.state = "HALF_OPEN" => b.trial <= s /\ b.trial < HalfOpenSuccesses

IInv == TypeOK /\ \A k \in Keys : KeyInv(breaker[k], streak[k])

-----------------------------------------------------------------------------
(* Lemmas about the operations on one circuitState *)

\* A success can only lower the failure rate: it cannot push a breaker over
\* the threshold.
LEMMA SuccessLowersRate ==
    ASSUME NEW f \in Nat, NEW s \in Nat, ~Exceeds(f, s)
    PROVE  ~Exceeds(f, s + 1)
<1>1. f * ThresholdDen \in Int /\ ThresholdNum * (f + s) \in Int
    BY BreakerAssumption
<1>2. ThresholdNum * (f + (s + 1)) = ThresholdNum * (f + s) + ThresholdNum
    BY BreakerAssumption
<1>3. QED BY <1>1, <1>2, BreakerAssumption DEF Exceeds

\* The initial circuitState is a legal one, within its threshold.
LEMMA FreshLegal ==
    ASSUME NEW s \in Nat
    PROVE  Fresh \in Breaker /\ KeyInv(Fresh, s)
BY BreakerAssumption DEF Fresh, Breaker, States, KeyInv, Exceeds

\* A half-open breaker only has its trial counter to answer for.
LEMMA HalfOpenLegal ==
    ASSUME NEW b \in Breaker, NEW s, b.state = "HALF_OPEN",
           b.trial <= s, b.trial < HalfOpenSuccesses
    PROVE  KeyInv(b, s)
BY DEF KeyInv

\* RecordFailure restarts the streak and leaves a breaker that is either
\* tripped or within its threshold.
LEMMA FailureLegal ==
    ASSUME NEW b \in Breaker, NEW s \in Nat, KeyInv(b, s)
    PROVE  AfterFailure(b) \in Breaker /\ KeyInv(AfterFailure(b), 0)
<1> DEFINE c == [b EXCEPT !.failures = @ + 1]
<1>1. c \in Breaker /\ c.failures = b.failures + 1 /\ c.state = b.state
    BY DEF Breaker
<1>2. Tripped(c) \in Breaker /\ Tripped(c).state = "OPEN"
    BY <1>1 DEF Tripped, Breaker, States
<1>3. CASE b.state = "HALF_OPEN"
    <2>1. AfterFailure(b) = [Tripped(c) EXCEPT !.successes = 0]
        BY <1>3 DEF AfterFailure
    <2>2. QED BY <1>2, <2>1 DEF Breaker, States, KeyInv
<1>4. CASE b.state # "HALF_OPEN" /\ Exceeds(c.failures, c.successes)
    <2>1. AfterFailure(b) = Tripped(c)
        BY <1>4 DEF AfterFailure
    <2>2. QED BY <1>2, <2>1 DEF KeyInv
<1>5. CASE b.state # "HALF_OPEN" /\ ~Exceeds(c.failures, c.successes)
    <2>1. AfterFailure(b) = c
        BY <1>5 DEF AfterFailure
    <2>2. QED BY <1>1, <1>5, <2>1 DEF KeyInv
<1>6. QED BY <1>3, <1>4, <1>5

\* RecordSuccess extends the streak t' >= t and keeps the breaker legal.
LEMMA SuccessLegal ==
    ASSUME NEW b \in Breaker, NEW s \in Nat, KeyInv(b, s),
           NEW t \in Nat, t = IF s < HalfOpenSuccesses THEN s + 1 ELSE s
    PROVE  AfterSuccess(b) \in Breaker /\ KeyInv(AfterSuccess(b), t)
<1>1. CASE b.state = "OPEN"
    BY <1>1 DEF AfterSuccess, KeyInv
<1>2. CASE b.state = "CLOSED"
    <2>1. AfterSuccess(b) = [b EXCEPT !.successes = @ + 1]
        BY <1>2 DEF AfterSuccess
    <2>2. ~Exceeds(b.failures, b.successes + 1)
        BY <1>2, SuccessLowersRate DEF KeyInv, Breaker
    <2>3. QED BY <1>2, <2>1, <2>2 DEF Breaker, KeyInv
<1>3. CASE b.state = "HALF_OPEN"
    <2>1. CASE b.trial + 1 >= HalfOpenSuccesses
        <3>1. AfterSuccess(b) = [Fresh EXCEPT !.cooling = b.cooling]
            BY <1>3, <2>1 DEF AfterSuccess
        <3>2. AfterSuccess(b) \in Breaker
            BY <3>1, FreshLegal DEF Breaker
        <3>3. /\ AfterSuccess(b).state = "CLOSED"
              /\ AfterSuccess(b).failures = 0
              /\ AfterSuccess(b).successes = 0
            BY <3>1 DEF Fresh
        <3>4. ~Exceeds(0, 0)
            BY BreakerAssumption DEF Exceeds
        <3>5. QED BY <3>2, <3>3, <3>4 DEF KeyInv
    <2>2. CASE b.trial + 1 < HalfOpenSuccesses
        <3>1. AfterSuccess(b) = [b EXCEPT !.successes = @ + 1, !.trial = @ + 1]
            BY <1>3, <2>2, BreakerAssumption DEF AfterSuccess, Breaker
        <3>2. b.trial <= s
            BY <1>3 DEF KeyInv
        <3>3. b.trial + 1 <= t
            BY <2>2, <3>2, BreakerAssumption DEF Breaker
        <3>4. AfterSuccess(b) \in Breaker
            <4> DEFINE c == [b EXCEPT !.successes = @ + 1]
            <4>1. c \in Breaker /\ c.trial = b.trial
                BY DEF Breaker
            <4>2. AfterSuccess(b) = [c EXCEPT !.trial = @ + 1]
                BY <3>1, <4>1
            <4> HIDE DEF c
            <4>3. QED BY <4>1, <4>2 DEF Breaker
        <3>5. AfterSuccess(b).state = "HALF_OPEN" /\ AfterSuccess(b).trial = b.trial + 1
            BY <1>3, <3>1 DEF Breaker
        <3>6. b.trial + 1 < HalfOpenSuccesses
            BY <2>2
        <3>7. /\ AfterSuccess(b).trial <= t
              /\ AfterSuccess(b).trial < HalfOpenSuccesses
            BY <3>3, <3>5, <3>6
        <3>8. KeyInv(AfterSuccess(b), t)
            BY <3>4, <3>5, <3>7, HalfOpenLegal
        <3>9. QED BY <3>4, <3>8
    <2>3. QED BY <2>1, <2>2, BreakerAssumption DEF Breaker
<1>4. QED BY <1>1, <1>2, <1>3 DEF Breaker, States

\* GetState starts a half-open trial from zero.
LEMMA GetStateLegal ==
    ASSUME NEW b \in Breaker, NEW s \in Nat, KeyInv(b, s)
    PROVE  AfterGetState(b) \in Breaker /\ KeyInv(AfterGetState(b), s)
<1>1. CASE b.state = "OPEN" /\ ~b.cooling
    <2>1. AfterGetState(b) = [b EXCEPT !.state = "HALF_OPEN", !.trial = 0]
        BY <1>1 DEF AfterGetState
    <2>2. AfterGetState(b) \in Breaker
        <3> DEFINE c == [b EXCEPT !.state = "HALF_OPEN"]
        <3>1. c \in Breaker
            BY DEF Breaker, States
        <3>2. AfterGetState(b) = [c EXCEPT !.trial = 0]
            BY <2>1
        <3> HIDE DEF c
        <3>3. QED BY <3>1, <3>2 DEF Breaker
    <2>3. AfterGetState(b).state = "HALF_OPEN" /\ AfterGetState(b).trial = 0
        BY <2>1 DEF Breaker
    <2>4. 0 <= s /\ 0 < HalfOpenSuccesses
        BY BreakerAssumption
    <2>5. KeyInv(AfterGetState(b), s)
        BY <2>2, <2>3, <2>4, HalfOpenLegal
    <2>6. QED BY <2>2, <2>5
<1>2. CASE ~(b.state = "OPEN" /\ ~b.cooling)
    BY <1>2 DEF AfterGetState
<1>3. QED BY <1>1, <1>2

-----------------------------------------------------------------------------

\* The initial state satisfies the inductive invariant.
LEMMA InitIInv == Init => IInv
<1> SUFFICES ASSUME Init PROVE IInv
    OBVIOUS
<1>1. TypeOK
    BY FreshLegal DEF Init, TypeOK
<1>2. \A k \in Keys : KeyInv(breaker[k], streak[k])
    BY FreshLegal DEF Init
<1>3. QED BY <1>1, <1>2 DEF IInv

\* Every step keeps it.
LEMMA NextIInv == IInv /\ [Next]_vars => IInv'
<1> SUFFICES ASSUME IInv, [Next]_vars PROVE IInv'
    OBVIOUS
<1> USE DEF TypeOK
<1>1. ASSUME NEW k \in Keys, RecordFailure(k) PROVE IInv'
    <2>1. AfterFailure(breaker[k]) \in Breaker /\ KeyInv(AfterFailure(breaker[k]), 0)
        BY FailureLegal DEF IInv
    <2>2. QED BY <1>1, <2>1 DEF RecordFailure, IInv
<1>2. ASSUME NEW k \in Keys, RecordSuccess(k) PROVE IInv'
    <2>1. streak'[k] = IF streak[k] < HalfOpenSuccesses THEN streak[k] + 1 ELSE streak[k]
        BY <1>2 DEF RecordSuccess, IInv
    <2>2. streak'[k] \in Nat
        BY <2>1 DEF IInv
    <2>3. /\ AfterSuccess(breaker[k]) \in Breaker
          /\ KeyInv(AfterSuccess(breaker[k]), streak'[k])
        BY <2>1, <2>2, SuccessLegal DEF IInv
    <2>4. QED BY <1>2, <2>2, <2>3 DEF RecordSuccess, IInv
<1>3. ASSUME NEW k \in Keys, GetState(k) PROVE IInv'
    <2>1. /\ AfterGetState(breaker[k]) \in Breaker
          /\ KeyInv(AfterGetState(breaker[k]), streak[k])
        BY GetStateLegal DEF IInv
    <2>2. QED BY <1>3, <2>1 DEF GetState, IInv
<1>4. ASSUME NEW k \in Keys, Reset(k) PROVE IInv'
    <2>1. Fresh \in Breaker /\ KeyInv(Fresh, streak[k])
        BY FreshLegal DEF IInv
    <2>2. QED BY <1>4, <2>1 DEF Reset, IInv
<1>5. ASSUME NEW k \in Keys, CooldownElapses(k) PROVE IInv'
    <2>1. [breaker[k] EXCEPT !.cooling = FALSE] \in Breaker
        BY DEF IInv, Breaker
    <2>2. KeyInv([breaker[k] EXCEPT !.cooling = FALSE], streak[k])
        BY DEF IInv, KeyInv, Breaker
    <2>3. QED BY <1>5, <2>1, <2>2 DEF CooldownElapses, IInv
<1>6. CASE Restart
    BY <1>6, FreshLegal DEF Restart, IInv
<1>7. CASE UNCHANGED vars
    BY <1>7 DEF vars, IInv
<1>8. QED BY <1>1, <1>2, <1>3, <1>4, <1>5, <1>6, <1>7 DEF Next

\* The inductive invariant holds in every reachable state.
LEMMA AlwaysIInv == Spec => []IInv
<1>1. QED BY InitIInv, NextIInv, PTL DEF Spec

\* Every circuitState keeps its type.
THEOREM TypeCorrect == Spec => []TypeOK
<1>1. IInv => TypeOK
    BY DEF IInv
<1>2. QED BY <1>1, AlwaysIInv, PTL

\* A closed breaker is always within its failure threshold.
THEOREM ClosedWithinThresholdHolds == Spec => []ClosedWithinThreshold
<1>1. IInv => ClosedWithinThreshold
    BY DEF IInv, KeyInv, ClosedWithinThreshold
<1>2. QED BY <1>1, AlwaysIInv, PTL

\* The half-open trial counter only ever counts consecutive successes.
THEOREM TrialIsConsecutiveHolds == Spec => []TrialIsConsecutive
<1>1. IInv => TrialIsConsecutive
    BY DEF IInv, KeyInv, TrialIsConsecutive
<1>2. QED BY <1>1, AlwaysIInv, PTL

\* A tripped breaker closes only after a full run of trial successes.
THEOREM ClosesOnlyAfterTrialHolds == Spec => ClosesOnlyAfterTrial
<1> DEFINE Closes(k) == breaker[k].state # "CLOSED" /\ breaker'[k].state = "CLOSED"
           Allowed(k) == \/ breaker[k].state = "HALF_OPEN" /\ streak'[k] >= HalfOpenSuccesses
                         \/ Reset(k)
                         \/ Restart
<1>1. ASSUME IInv, [Next]_vars, NEW k \in Keys, Closes(k)
      PROVE  Allowed(k)
    <2> USE DEF IInv, TypeOK
    <2>1. ASSUME NEW j \in Keys, j # k,
                 \/ RecordFailure(j) \/ RecordSuccess(j) \/ GetState(j)
                 \/ Reset(j) \/ CooldownElapses(j)
          PROVE FALSE
        BY <1>1, <2>1 DEF RecordFailure, RecordSuccess, GetState, Reset, CooldownElapses
    <2>2. CASE RecordFailure(k)
        <3>1. breaker'[k] = AfterFailure(breaker[k])
            BY <2>2, <1>1 DEF RecordFailure
        <3>2. breaker'[k].state \in {"OPEN", breaker[k].state}
            BY <1>1, <3>1 DEF AfterFailure, Tripped, Breaker
        <3>3. QED BY <1>1, <3>2
    <2>3. CASE RecordSuccess(k)
        <3>1. /\ breaker'[k] = AfterSuccess(breaker[k])
              /\ streak'[k] = IF streak[k] < HalfOpenSuccesses
                              THEN streak[k] + 1 ELSE streak[k]
            BY <2>3, <1>1 DEF RecordSuccess
        <3>2. breaker[k].state = "HALF_OPEN" /\ breaker[k].trial + 1 >= HalfOpenSuccesses
            BY <1>1, <3>1 DEF AfterSuccess, Breaker, States
        <3>3. breaker[k].trial <= streak[k]
            BY <1>1, <3>2 DEF KeyInv
        <3>4. streak'[k] >= HalfOpenSuccesses
            BY <1>1, <3>1, <3>2, <3>3, BreakerAssumption DEF Breaker
        <3>5. QED BY <3>2, <3>4
    <2>4. CASE GetState(k)
        <3>1. breaker'[k] = AfterGetState(breaker[k])
            BY <2>4, <1>1 DEF GetState
        <3>2. breaker'[k].state \in {"HALF_OPEN", breaker[k].state}
            BY <1>1, <3>1 DEF AfterGetState, Breaker
        <3>3. QED BY <1>1, <3>2
    <2>5. CASE CooldownElapses(k)
        BY <2>5, <1>1 DEF CooldownElapses, Breaker
    <2>6. CASE UNCHANGED vars
        BY <2>6, <1>1 DEF vars
    <2>7. QED BY <1>1, <2>1, <2>2, <2>3, <2>4, <2>5, <2>6 DEF Next
<1>2. IInv /\ [Next]_vars =>
        [\A k \in Keys : Closes(k) => Allowed(k)]_vars
    BY <1>1
<1>3. QED BY <1>2, AlwaysIInv, PTL DEF Spec, ClosesOnlyAfterTrial

-----------------------------------------------------------------------------
(* A threshold of one is never exceeded *)

\* No breaker has opened.
AllClosed == \A k \in Keys : breaker[k].state = "CLOSED"

\* Failures are never more than all outcomes.
LEMMA RateAtMostOne ==
    ASSUME ThresholdNum >= ThresholdDen, NEW f \in Nat, NEW s \in Nat
    PROVE  ~Exceeds(f, s)
<1> DEFINE more == ThresholdNum - ThresholdDen
<1>1. ThresholdNum \in Nat /\ ThresholdDen \in Nat /\ more \in Nat
    BY BreakerAssumption
<1>2. ThresholdNum * (f + s) = f * ThresholdDen + (more * f + ThresholdNum * s)
    BY <1>1
<1>3. more * f \in Nat /\ ThresholdNum * s \in Nat /\ f * ThresholdDen \in Nat
    BY <1>1
<1>4. QED BY <1>2, <1>3 DEF Exceeds

\* The comparison is strict: a scope whose threshold is 1 or more, as the
\* account scope's, has a breaker that no number of failures opens.
THEOREM FullThresholdNeverOpens ==
    ThresholdNum >= ThresholdDen => (Spec => []AllClosed)
<1>1. SUFFICES ASSUME ThresholdNum >= ThresholdDen PROVE Spec => []AllClosed
    OBVIOUS
<1>2. Init => AllClosed
    <2> SUFFICES ASSUME Init, NEW k \in Keys PROVE breaker[k].state = "CLOSED"
        BY DEF AllClosed
    <2>1. breaker[k] = Fresh
        BY DEF Init
    <2>2. QED BY <2>1 DEF Fresh
<1>3. IInv /\ AllClosed /\ [Next]_vars => AllClosed'
    <2> SUFFICES ASSUME IInv, AllClosed, [Next]_vars PROVE AllClosed'
        OBVIOUS
    <2> USE DEF AllClosed
    <2>1. breaker \in [Keys -> Breaker]
        BY DEF IInv, TypeOK
    <2>2. ASSUME NEW k \in Keys, RecordFailure(k) PROVE AllClosed'
        <3> DEFINE counted == [breaker[k] EXCEPT !.failures = @ + 1]
        <3>1. /\ counted.state = "CLOSED"
              /\ counted.failures \in Nat /\ counted.successes \in Nat
            BY <2>1 DEF Breaker
        <3>2. ~Exceeds(counted.failures, counted.successes)
            BY <1>1, <3>1, RateAtMostOne
        <3>3. AfterFailure(breaker[k]) = counted
            BY <3>2 DEF AfterFailure
        <3>4. AfterFailure(breaker[k]).state = "CLOSED"
            BY <3>1, <3>3
        <3>5. QED BY <2>1, <2>2, <3>4 DEF RecordFailure
    <2>3. ASSUME NEW k \in Keys, RecordSuccess(k) PROVE AllClosed'
        <3>1. AfterSuccess(breaker[k]).state = "CLOSED"
            BY <2>1 DEF AfterSuccess, Breaker
        <3>2. QED BY <2>1, <2>3, <3>1 DEF RecordSuccess
    <2>4. ASSUME NEW k \in Keys, GetState(k) PROVE AllClosed'
        BY <2>1, <2>4 DEF GetState, AfterGetState
    <2>5. ASSUME NEW k \in Keys, Reset(k) PROVE AllClosed'
        BY <2>1, <2>5 DEF Reset, Fresh
    <2>6. ASSUME NEW k \in Keys, CooldownElapses(k) PROVE AllClosed'
        BY <2>1, <2>6 DEF CooldownElapses, Breaker
    <2>7. CASE Restart
        BY <2>7 DEF Restart, Fresh
    <2>8. CASE UNCHANGED vars
        BY <2>8 DEF vars
    <2>9. QED BY <2>2, <2>3, <2>4, <2>5, <2>6, <2>7, <2>8 DEF Next
<1>4. QED BY <1>2, <1>3, AlwaysIInv, PTL DEF Spec
=============================================================================
