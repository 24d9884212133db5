------------------------- MODULE CircuitBreakerProofs -------------------------
(* What the methods of the circuit breaker preserve, for every threshold. *)
EXTENDS CircuitBreaker, TLAPS

LEMMA NewBreakerOK == NewBreaker \in Breakers /\ Consistent(NewBreaker)
  BY ThresholdAssumption DEF NewBreaker, Breakers, Consistent

\* allow_request hands out a probe or finds the breaker closed.
LEMMA AskedOK ==
    ASSUME NEW b \in Breakers, Consistent(b), Allows(b)
    PROVE  /\ Asked(b) \in Breakers /\ Consistent(Asked(b))
           /\ Asked(b).state \in {"closed", "half_open"}
<1>1. CASE b.state = "open" /\ b.cooled
  BY <1>1, ThresholdAssumption DEF Asked, Breakers, Consistent
<1>2. CASE ~(b.state = "open" /\ b.cooled)
  <2>1. Asked(b) = b
    BY <1>2 DEF Asked
  <2>2. b.state = "closed"
    BY <1>2 DEF Allows, Consistent
  <2> QED
    BY <2>1, <2>2
<1> QED
  BY <1>1, <1>2

LEMMA OnSuccessOK ==
    ASSUME NEW b \in Breakers
    PROVE  OnSuccess(b) \in Breakers /\ Consistent(OnSuccess(b)) /\ OnSuccess(b).state = "closed"
<1>1. OnSuccess(b) \in Breakers
  <2>1. 0 \in Nat
    OBVIOUS
  <2> QED
    BY <2>1, Zenon DEF OnSuccess, Breakers
<1>2. OnSuccess(b).failures = 0 /\ OnSuccess(b).probe = FALSE /\ OnSuccess(b).state = "closed"
  BY Zenon DEF OnSuccess, Breakers
<1>3. 0 < FailureThreshold
  BY ThresholdAssumption
<1> QED
  BY <1>1, <1>2, <1>3 DEF Consistent

\* on_failure never leaves the breaker half open.
LEMMA OnFailureOK ==
    ASSUME NEW b \in Breakers, Consistent(b)
    PROVE  /\ OnFailure(b) \in Breakers /\ Consistent(OnFailure(b))
           /\ OnFailure(b).state # "half_open"
<1> DEFINE counted == [b EXCEPT !.failures = @ + 1, !.probe = FALSE]
<1>1. /\ counted \in Breakers /\ counted.failures = b.failures + 1
      /\ counted.state = b.state /\ counted.probe = FALSE
  <2>1. b.failures + 1 \in Nat
    BY DEF Breakers
  <2> QED
    BY <2>1, Zenon DEF Breakers
<1>2. CASE counted.failures >= FailureThreshold
  <2> DEFINE opened == [counted EXCEPT !.state = "open", !.cooled = FALSE]
  <2>1. OnFailure(b) = opened
    BY <1>2 DEF OnFailure
  <2>2. opened \in Breakers
    BY <1>1, Zenon DEF Breakers
  <2>3. opened.state = "open" /\ opened.probe = FALSE /\ opened.failures = counted.failures
    BY <1>1, Zenon DEF Breakers
  <2>4. ~(counted.failures < FailureThreshold)
    BY <1>1, <1>2, ThresholdAssumption DEF Breakers
  <2> HIDE DEF counted, opened
  <2> QED
    BY <2>1, <2>2, <2>3, <2>4 DEF Consistent
<1>3. CASE ~(counted.failures >= FailureThreshold)
  <2>1. OnFailure(b) = counted
    BY <1>3 DEF OnFailure
  <2>2. b.failures < FailureThreshold /\ counted.failures < FailureThreshold
    BY <1>1, <1>3, ThresholdAssumption DEF Breakers
  <2>3. b.state = "closed"
    BY <2>2 DEF Consistent
  <2> QED
    BY <1>1, <2>1, <2>2, <2>3 DEF Consistent
<1> QED
  BY <1>2, <1>3

LEMMA CoolDownOK ==
    ASSUME NEW b \in Breakers, Consistent(b), Cools(b)
    PROVE  CoolDown(b) \in Breakers /\ Consistent(CoolDown(b)) /\ CoolDown(b).state = "open"
  BY DEF CoolDown, Cools, Breakers, Consistent
=============================================================================
