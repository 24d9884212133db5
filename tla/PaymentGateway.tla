--------------------------- MODULE PaymentGateway ---------------------------
(***************************************************************************)
(* FakePaymentGateway.charge: asyncio tasks share one gateway and its      *)
(* circuit breaker.  _charge_with_retries calls _simulate_remote with three *)
(* arguments (125) and it takes two (153): every attempt raises TypeError  *)
(* before anything is awaited, and the loop treats it as transient (139).  *)
(* So no charge is ever stored or answered, no timeout ever runs, and the  *)
(* only await left is the backoff.                                         *)
(***************************************************************************)
EXTENDS CircuitBreaker

CONSTANTS
    Tasks,       \* the calls of charge
    MaxAttempts  \* retry.max_attempts

ASSUME PaymentAssumption == MaxAttempts \in Nat \ {0}

VARIABLES
    breaker,
    calls,  \* _calls
    task    \* the state of each call

vars == <<breaker, calls, task>>

Init ==
    /\ breaker = NewBreaker
    /\ calls = 0
    /\ task = [t \in Tasks |-> [pc |-> "idle", attempt |-> 0, outcome |-> "none"]]

Finish(t, outcome) == task' = [task EXCEPT ![t].pc = "done", ![t].outcome = outcome]

\* A faulty variant of Attempt: one attempt too many.
Attempt_OneMore(t, n, b) ==
    /\ calls' = calls + 1
    /\ breaker' = OnFailure(b)
    /\ task' = [task EXCEPT ![t].attempt = n,
                            ![t].pc = IF n > MaxAttempts THEN "done" ELSE "waiting",
                            ![t].outcome = IF n > MaxAttempts THEN "error" ELSE @]

\* The n-th attempt of t, with the breaker as b: it fails at once.  The last one
\* raises to the caller, an earlier one waits for the backoff.
Attempt(t, n, b) ==
    /\ calls' = calls + 1
    /\ breaker' = OnFailure(b)
    /\ task' = [task EXCEPT ![t].attempt = n,
                            ![t].pc = IF n >= MaxAttempts THEN "done" ELSE "waiting",
                            ![t].outcome = IF n >= MaxAttempts THEN "error" ELSE @]

\* A faulty variant of Resume: it waits until the breaker lets it through.
Resume_AsksFirst(t) ==
    /\ task[t].pc = "waiting"
    /\ Allows(breaker)
    /\ Attempt(t, task[t].attempt + 1, Asked(breaker))

Charge(t) ==
    /\ task[t].pc = "idle"
    /\ Allows(breaker)
    /\ Attempt(t, 1, Asked(breaker))

Refuse(t) ==
    /\ task[t].pc = "idle"
    /\ ~Allows(breaker)
    /\ Finish(t, "refused")
    /\ UNCHANGED <<breaker, calls>>

Resume(t) ==
    /\ task[t].pc = "waiting"
    /\ Attempt(t, task[t].attempt + 1, breaker)

\* The caller gives up during the backoff.
Cancel(t) ==
    /\ task[t].pc = "waiting"
    /\ Finish(t, "cancelled")
    /\ UNCHANGED <<breaker, calls>>

ResetTimeout ==
    /\ Cools(breaker)
    /\ breaker' = CoolDown(breaker)
    /\ UNCHANGED <<calls, task>>

Next == (\E t \in Tasks : Charge(t) \/ Refuse(t) \/ Resume(t) \/ Cancel(t)) \/ ResetTimeout

Spec == Init /\ [][Next]_vars

\* The event loop wakes every task whose backoff is over.
FairSpec == Spec /\ \A t \in Tasks : WF_vars(Resume(t))

-----------------------------------------------------------------------------
(* Properties *)

\* Each variable has its type, and no call makes more than MaxAttempts attempts.
TypeOK ==
    /\ breaker \in Breakers
    /\ calls \in Nat
    /\ task \in [Tasks -> [pc : {"idle", "waiting", "done"}, attempt : 0..MaxAttempts,
                           outcome : {"none", "refused", "error", "cancelled"}]]

\* The breaker's fields agree between any two awaits, and no probe is outstanding
\* that a cancelled call could take with it: unlike the e-mail notifier, the first
\* attempt reports before it awaits.
BreakerAtRest == Consistent(breaker) /\ breaker.state # "half_open"

\* Every call of charge comes to an end.
ChargeEnds == \A t \in Tasks : task[t].pc = "waiting" ~> task[t].pc = "done"
=============================================================================
