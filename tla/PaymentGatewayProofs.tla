------------------------- MODULE PaymentGatewayProofs -------------------------
(* Theorems about PaymentGateway. *)
EXTENDS PaymentGateway, CircuitBreakerProofs

\* TypeOK needs that the attempts of a waiting call are not used up.
AttemptsLeft == \A t \in Tasks : task[t].pc = "waiting" => task[t].attempt < MaxAttempts

IInv == TypeOK /\ BreakerAtRest /\ AttemptsLeft

LEMMA InitOK == Init => IInv
  BY PaymentAssumption, NewBreakerOK
  DEF Init, IInv, TypeOK, BreakerAtRest, AttemptsLeft, NewBreaker

\* One attempt, from any state the breaker may be asked in.
LEMMA AttemptOK ==
    ASSUME IInv, NEW t \in Tasks, NEW n \in 1..MaxAttempts,
           NEW b \in Breakers, Consistent(b), Attempt(t, n, b)
    PROVE  IInv'
<1>1. breaker' \in Breakers /\ Consistent(breaker') /\ breaker'.state # "half_open"
  BY OnFailureOK DEF Attempt
<1>2. TypeOK'
  <2> DEFINE Calls == [pc : {"idle", "waiting", "done"}, attempt : 0..MaxAttempts,
                       outcome : {"none", "refused", "error", "cancelled"}]
  <2>1. task \in [Tasks -> Calls] /\ calls \in Nat
    BY DEF IInv, TypeOK
  <2>2. n \in 0..MaxAttempts
    BY PaymentAssumption
  <2>3. task'[t] \in Calls
    BY <2>1, <2>2 DEF Attempt
  <2>4. task' = [task EXCEPT ![t] = task'[t]]
    BY <2>1 DEF Attempt
  <2>5. task' \in [Tasks -> Calls]
    BY <2>1, <2>3, <2>4
  <2>6. calls' \in Nat
    BY <2>1 DEF Attempt
  <2> QED
    BY <1>1, <2>5, <2>6 DEF TypeOK
<1>3. AttemptsLeft'
  BY PaymentAssumption DEF IInv, TypeOK, AttemptsLeft, Attempt
<1> QED
  BY <1>1, <1>2, <1>3 DEF IInv, BreakerAtRest, Consistent

LEMMA NextOK == IInv /\ [Next]_vars => IInv'
<1> SUFFICES ASSUME IInv, [Next]_vars
             PROVE  IInv'
  OBVIOUS
<1>1. breaker \in Breakers /\ Consistent(breaker) /\ breaker.state # "half_open"
  BY DEF IInv, TypeOK, BreakerAtRest
<1>2. ASSUME NEW t \in Tasks, Charge(t)
      PROVE  IInv'
  <2>1. Allows(breaker) /\ Attempt(t, 1, Asked(breaker))
    BY <1>2 DEF Charge
  <2>2. Asked(breaker) \in Breakers /\ Consistent(Asked(breaker))
    BY <1>1, <2>1, AskedOK
  <2> QED
    BY <2>1, <2>2, AttemptOK, PaymentAssumption
<1>3. ASSUME NEW t \in Tasks, Refuse(t) \/ Cancel(t)
      PROVE  IInv'
  BY <1>3 DEF Refuse, Cancel, Finish, IInv, TypeOK, BreakerAtRest, Consistent, AttemptsLeft
<1>4. ASSUME NEW t \in Tasks, Resume(t)
      PROVE  IInv'
  <2>1. task[t].attempt + 1 \in 1..MaxAttempts
    BY <1>4, PaymentAssumption DEF Resume, IInv, TypeOK, AttemptsLeft
  <2> QED
    BY <1>1, <1>4, <2>1, AttemptOK DEF Resume
<1>5. CASE ResetTimeout
  <2>1. breaker' \in Breakers /\ Consistent(breaker') /\ breaker'.state # "half_open"
    BY <1>1, <1>5, CoolDownOK DEF ResetTimeout
  <2> QED
    BY <1>5, <2>1 DEF ResetTimeout, IInv, TypeOK, BreakerAtRest, Consistent, AttemptsLeft
<1>6. CASE UNCHANGED vars
  BY <1>6 DEF vars, IInv, TypeOK, BreakerAtRest, Consistent, AttemptsLeft
<1> QED
  BY <1>2, <1>3, <1>4, <1>5, <1>6 DEF Next

\* The breaker and every charge keep their types, and a charge no more attempts than
\* allowed, for any number of charges, attempts and any threshold (charge and
\* _charge_with_retries).
THEOREM TypeCorrect == Spec => []TypeOK
<1>1. IInv => TypeOK
  BY DEF IInv
<1> QED
  BY <1>1, InitOK, NextOK, PTL DEF Spec

\* Between any two awaits the breaker's fields agree and no probe is outstanding,
\* for any number of charges, attempts and any threshold (charge and
\* _charge_with_retries).
THEOREM AtRest == Spec => [](TypeOK /\ BreakerAtRest)
<1>1. IInv => TypeOK /\ BreakerAtRest
  BY DEF IInv
<1> QED
  BY <1>1, InitOK, NextOK, PTL DEF Spec
=============================================================================
