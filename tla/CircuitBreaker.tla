--------------------------- MODULE CircuitBreaker ---------------------------
(***************************************************************************)
(* The circuit breaker of the e-mail notifier and of the payment gateway:  *)
(* the same class in both files.  A breaker is a record; its methods never *)
(* await, so each is one operator.  Of `_opened_at` and the monotonic      *)
(* clock only this matters: has reset_timeout passed since the breaker     *)
(* last opened (`cooled`).                                                 *)
(***************************************************************************)
EXTENDS Naturals

CONSTANT FailureThreshold

ASSUME ThresholdAssumption == FailureThreshold \in Nat \ {0}

Breakers == [state : {"closed", "open", "half_open"}, failures : Nat,
             cooled : BOOLEAN, probe : BOOLEAN]

NewBreaker == [state |-> "closed", failures |-> 0, cooled |-> FALSE, probe |-> FALSE]

\* allow_request: its answer, and what asking does to the breaker.
Allows(b) ==
    \/ b.state = "closed"
    \/ b.state = "open" /\ b.cooled
    \/ b.state = "half_open" /\ ~b.probe
Asked(b) == IF b.state = "open" /\ b.cooled
            THEN [b EXCEPT !.state = "half_open", !.probe = TRUE] ELSE b

\* A faulty variant of OnFailure: the comparison is strict.
OnFailure_Strict(b) ==
    LET counted == [b EXCEPT !.failures = @ + 1, !.probe = FALSE]
    IN  IF counted.failures > FailureThreshold
        THEN [counted EXCEPT !.state = "open", !.cooled = FALSE] ELSE counted

\* on_success, on_failure
OnSuccess(b) == [b EXCEPT !.failures = 0, !.probe = FALSE, !.state = "closed"]

OnFailure(b) ==
    LET counted == [b EXCEPT !.failures = @ + 1, !.probe = FALSE]
    IN  IF counted.failures >= FailureThreshold
        THEN [counted EXCEPT !.state = "open", !.cooled = FALSE] ELSE counted

\* reset_timeout passes.
Cools(b) == b.state = "open" /\ ~b.cooled
CoolDown(b) == [b EXCEPT !.cooled = TRUE]

\* The fields tell one story: closed exactly while the failures since the last
\* success are below the threshold, half open exactly while a probe is marked.
Consistent(b) ==
    /\ b.state = "closed" <=> b.failures < FailureThreshold
    /\ b.state = "half_open" <=> b.probe
=============================================================================
