---------------------------- MODULE EmailNotifier ----------------------------
(***************************************************************************)
(* FakeEmailNotifier._send_with_policy: asyncio tasks share one notifier,  *)
(* its circuit breaker and its idempotency store.  A task keeps the event  *)
(* loop until its next await, so a step runs from one await to the next:   *)
(* from the call to the network, from the network's answer to the backoff  *)
(* or the return, from the backoff to the network.                         *)
(***************************************************************************)
EXTENDS CircuitBreaker, Sequences, FiniteSets

CONSTANTS
    Tasks,       \* the calls of send_order_confirmation and send_order_allocated
    Keys,        \* idempotency keys
    KeyOf,       \* the key each call computes
    MaxAttempts, \* retry.max_attempts
    MaxFailures  \* bound on transient_failures_before_success

ASSUME EmailAssumption ==
    /\ IsFiniteSet(Tasks)
    /\ KeyOf \in [Tasks -> Keys]
    /\ MaxAttempts \in Nat \ {0}
    /\ MaxFailures \in Nat

VARIABLES
    breaker,
    failing,    \* transient_failures_before_success
    permanent,  \* permanent_error
    calls,      \* _calls
    sent,       \* the keys of the mails sent, in order
    store,      \* _idempo_store: key -> delivery
    task        \* the state of each call

vars == <<breaker, failing, permanent, calls, sent, store, task>>

\* `probing` remembers that the call was let through as the probe of a half-open
\* breaker.  A delivery is identified by the number of attempts made when it was
\* answered (_simulate_send 133).
Idle == [pc |-> "idle", attempt |-> 0, probing |-> FALSE, outcome |-> "none", delivery |-> 0]

InFlight(t) == task[t].pc \in {"sending", "waiting"}

Finish(t, outcome, delivery) ==
    task' = [task EXCEPT ![t].pc = "done", ![t].outcome = outcome, ![t].delivery = delivery]

Init ==
    /\ breaker = NewBreaker
    /\ failing \in 0..MaxFailures
    /\ permanent \in BOOLEAN
    /\ calls = 0
    /\ sent = <<>>
    /\ store = <<>>
    /\ task = [t \in Tasks |-> Idle]

-----------------------------------------------------------------------------
(* Up to the first await *)

SendAgain(t) ==
    /\ task[t].pc = "idle"
    /\ KeyOf[t] \in DOMAIN store
    /\ Finish(t, "delivered", store[KeyOf[t]])
    /\ UNCHANGED <<breaker, failing, permanent, calls, sent, store>>

Refuse(t) ==
    /\ task[t].pc = "idle"
    /\ KeyOf[t] \notin DOMAIN store
    /\ ~Allows(breaker)
    /\ Finish(t, "refused", 0)
    /\ UNCHANGED <<breaker, failing, permanent, calls, sent, store>>

Send(t) ==
    /\ task[t].pc = "idle"
    /\ KeyOf[t] \notin DOMAIN store
    /\ Allows(breaker)
    /\ breaker' = Asked(breaker)
    /\ calls' = calls + 1
    /\ task' = [task EXCEPT ![t].pc = "sending", ![t].attempt = 1,
                            ![t].probing = breaker'.state = "half_open"]
    /\ UNCHANGED <<failing, permanent, sent, store>>

-----------------------------------------------------------------------------
(* The network answers *)

\* Faulty variants of the actions below: the delivery is not remembered; a
\* permanent error is not reported to the breaker; one attempt too many; a
\* retry waits until the breaker lets it through.
Deliver_Forgotten(t) ==
    /\ task[t].pc = "sending" /\ ~permanent /\ failing = 0
    /\ breaker' = OnSuccess(breaker)
    /\ sent' = Append(sent, KeyOf[t])
    /\ Finish(t, "delivered", calls)
    /\ UNCHANGED <<failing, permanent, calls, store>>
FailPermanently_Unreported(t) ==
    /\ task[t].pc = "sending" /\ permanent
    /\ Finish(t, "permanent", 0)
    /\ UNCHANGED <<breaker, failing, permanent, calls, sent, store>>
FailTransiently_OneMore(t) ==
    /\ task[t].pc = "sending" /\ ~permanent /\ failing > 0
    /\ failing' = failing - 1
    /\ breaker' = OnFailure(breaker)
    /\ IF task[t].attempt > MaxAttempts THEN Finish(t, "transient", 0)
       ELSE task' = [task EXCEPT ![t].pc = "waiting"]
    /\ UNCHANGED <<permanent, calls, sent, store>>
Resume_AsksFirst(t) ==
    /\ task[t].pc = "waiting" /\ Allows(breaker)
    /\ breaker' = Asked(breaker)
    /\ calls' = calls + 1
    /\ task' = [task EXCEPT ![t].pc = "sending", ![t].attempt = @ + 1]
    /\ UNCHANGED <<failing, permanent, sent, store>>

Deliver(t) ==
    /\ task[t].pc = "sending" /\ ~permanent /\ failing = 0
    /\ breaker' = OnSuccess(breaker)
    /\ sent' = Append(sent, KeyOf[t])
    /\ store' = [k \in DOMAIN store \cup {KeyOf[t]} |->
                    IF k = KeyOf[t] THEN calls ELSE store[k]]
    /\ Finish(t, "delivered", calls)
    /\ UNCHANGED <<failing, permanent, calls>>

FailPermanently(t) ==
    /\ task[t].pc = "sending" /\ permanent
    /\ breaker' = OnFailure(breaker)
    /\ Finish(t, "permanent", 0)
    /\ UNCHANGED <<failing, permanent, calls, sent, store>>

FailTransiently(t) ==
    /\ task[t].pc = "sending" /\ ~permanent /\ failing > 0
    /\ failing' = failing - 1
    /\ breaker' = OnFailure(breaker)
    /\ IF task[t].attempt >= MaxAttempts THEN Finish(t, "transient", 0)
       ELSE task' = [task EXCEPT ![t].pc = "waiting"]
    /\ UNCHANGED <<permanent, calls, sent, store>>

\* The backoff ends and the loop tries again, without asking the breaker.
Resume(t) ==
    /\ task[t].pc = "waiting"
    /\ calls' = calls + 1
    /\ task' = [task EXCEPT ![t].pc = "sending", ![t].attempt = @ + 1]
    /\ UNCHANGED <<breaker, failing, permanent, sent, store>>

\* CancelledError is no Exception: no handler of the loop sees it.  At the network
\* the answer is lost with the call.
Cancel(t) ==
    /\ InFlight(t)
    /\ Finish(t, IF task[t].pc = "sending" THEN "lost" ELSE "cancelled", 0)
    /\ UNCHANGED <<breaker, failing, permanent, calls, sent, store>>

-----------------------------------------------------------------------------
(* The environment *)

ResetTimeout ==
    /\ Cools(breaker)
    /\ breaker' = CoolDown(breaker)
    /\ UNCHANGED <<failing, permanent, calls, sent, store, task>>

\* The mail server gets better or worse: the behaviour controls are set anew.
Reconfigure ==
    /\ failing' \in 0..MaxFailures
    /\ permanent' \in BOOLEAN
    /\ UNCHANGED <<breaker, calls, sent, store, task>>

Start(t) == SendAgain(t) \/ Refuse(t) \/ Send(t)
Continue(t) == Deliver(t) \/ FailPermanently(t) \/ FailTransiently(t) \/ Resume(t)

Next ==
    \/ \E t \in Tasks : Start(t) \/ Continue(t) \/ Cancel(t)
    \/ ResetTimeout \/ Reconfigure

Spec == Init /\ [][Next]_vars

\* The event loop wakes every task whose sleep is over.
FairSpec == Spec /\ \A t \in Tasks : WF_vars(Continue(t))

-----------------------------------------------------------------------------
(* Properties *)

Outcomes == {"none", "delivered", "refused", "permanent", "transient", "lost", "cancelled"}

\* Each variable has its type; a dictionary is a function on some of the keys.
TypeOK ==
    /\ breaker \in Breakers
    /\ failing \in 0..MaxFailures /\ permanent \in BOOLEAN
    /\ calls \in Nat
    /\ sent \in Seq(Keys)
    /\ DOMAIN store \subseteq Keys /\ store \in [DOMAIN store -> Nat]
    /\ task \in [Tasks -> [pc : {"idle", "sending", "waiting", "done"}, attempt : 0..MaxAttempts,
                           probing : BOOLEAN, outcome : Outcomes, delivery : Nat]]

\* The breaker's fields agree, whichever tasks report to it and however late
\* (CircuitBreaker.allow_request, on_success, on_failure).
BreakerConsistent == Consistent(breaker)

\* A half-open breaker refuses everybody, so it must be waiting for someone: the
\* call it let through is at the network in its first attempt and will report,
\* unless it was cancelled there.
HalfOpenHasProbe ==
    breaker.state = "half_open" =>
        \E t \in Tasks : /\ task[t].probing /\ task[t].attempt = 1
                         /\ task[t].pc = "sending" \/ task[t].outcome = "lost"

MailsFor(k) == {i \in DOMAIN sent : sent[i] = k}
Delivered(k) == {t \in Tasks : KeyOf[t] = k /\ task[t].outcome = "delivered"}

\* What callers were told is what happened, for each key: it is remembered if and
\* only if a mail went out, a caller told "delivered" has its mail, and no mail went
\* out for callers who were all told that it failed.
MailsAccounted ==
    \A k \in Keys :
        /\ k \in DOMAIN store <=> MailsFor(k) # {}
        /\ Delivered(k) # {} => MailsFor(k) # {}
        /\ Cardinality(MailsFor(k)) <= Cardinality(Delivered(k))

\* Every call comes to an end, however long the mail server goes on failing.
SendEnds == \A t \in Tasks : InFlight(t) ~> task[t].pc = "done"

\* "allow one probe" (payment/fake.py 46, of the same class): a half-open breaker
\* refuses because a probe is on its way.  With nobody in flight, nothing will ever
\* change the breaker again.
NeverStuck == breaker.state = "half_open" => \E t \in Tasks : InFlight(t)

\* "idempotent", the contract test says of two sends of one mail
\* (test_email.notifier_contract.py 26): whoever is told that it was delivered is told
\* of the same delivery.
SameDelivery ==
    \A k \in Keys : \A t, u \in Delivered(k) : task[t].delivery = task[u].delivery
=============================================================================
