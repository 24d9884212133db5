------------------------- MODULE EmailNotifierProofs -------------------------
(***************************************************************************)
(* Theorems about EmailNotifier, for any number of calls, any keys they    *)
(* share, any threshold and number of attempts.                            *)
(***************************************************************************)
EXTENDS EmailNotifier, CircuitBreakerProofs, FiniteSetTheorems

Calls == [pc : {"idle", "sending", "waiting", "done"}, attempt : 0..MaxAttempts,
          probing : BOOLEAN, outcome : Outcomes, delivery : Nat]

\* A call has no outcome before it is done, and a waiting one has attempts left.
CallsOK ==
    \A t \in Tasks :
        /\ task[t].pc # "done" => task[t].outcome = "none"
        /\ task[t].pc = "waiting" => task[t].attempt < MaxAttempts

SafeInv == TypeOK /\ BreakerConsistent /\ CallsOK

\* What a step does to the calls: one call, or none, changes.
OneCall(t) ==
    /\ task'[t] \in Calls
    /\ \A u \in Tasks \ {t} : task'[u] = task[u]
    /\ task' \in [Tasks -> Calls]

-----------------------------------------------------------------------------
(* Types and the breaker *)

LEMMA InitOK == Init => SafeInv
<1> SUFFICES ASSUME Init
             PROVE  SafeInv
  OBVIOUS
<1>1. breaker \in Breakers /\ BreakerConsistent
  BY NewBreakerOK DEF Init, BreakerConsistent
<1>2. Idle \in Calls /\ Idle.pc = "idle" /\ Idle.outcome = "none"
  BY EmailAssumption DEF Idle, Calls, Outcomes
<1>3. task \in [Tasks -> Calls] /\ CallsOK
  BY <1>2 DEF Init, CallsOK
<1> QED
  BY <1>1, <1>3 DEF Init, SafeInv, TypeOK, Calls

\* Finishing a call with a proper outcome.
LEMMA FinishOK ==
    ASSUME TypeOK, NEW t \in Tasks, NEW o \in Outcomes, NEW d \in Nat, Finish(t, o, d)
    PROVE  OneCall(t) /\ task'[t].pc = "done" /\ task'[t].outcome = o
<1>1. task \in [Tasks -> Calls]
  BY DEF TypeOK, Calls
<1>2. task'[t] = [task[t] EXCEPT !.pc = "done", !.outcome = o, !.delivery = d]
  BY <1>1 DEF Finish
<1>3. task'[t] \in Calls /\ task'[t].pc = "done" /\ task'[t].outcome = o
  BY <1>1, <1>2, Zenon DEF Calls
<1> QED
  BY <1>1, <1>3 DEF Finish, OneCall

\* Every step of a call leaves a well-formed record that satisfies CallsOK.
LEMMA CallStep ==
    ASSUME SafeInv, NEW t \in Tasks, Start(t) \/ Continue(t) \/ Cancel(t)
    PROVE  /\ OneCall(t)
           /\ task'[t].pc # "done" => task'[t].outcome = "none"
           /\ task'[t].pc = "waiting" => task'[t].attempt < MaxAttempts
<1>1. TypeOK /\ CallsOK /\ task \in [Tasks -> Calls]
  BY DEF SafeInv, TypeOK, Calls
<1>2. CASE SendAgain(t)
  <2>1. store[KeyOf[t]] \in Nat /\ "delivered" \in Outcomes
    BY <1>1, <1>2 DEF SendAgain, TypeOK, Outcomes
  <2> QED
    BY <1>1, <1>2, <2>1, FinishOK DEF SendAgain
<1>3. CASE Deliver(t)
  <2>1. calls \in Nat /\ "delivered" \in Outcomes
    BY <1>1 DEF TypeOK, Outcomes
  <2> QED
    BY <1>1, <1>3, <2>1, FinishOK DEF Deliver
<1>4. CASE Refuse(t) \/ FailPermanently(t) \/ Cancel(t)
  <2>1. PICK o \in {"refused", "permanent", "lost", "cancelled"} : Finish(t, o, 0)
    BY <1>4 DEF Refuse, FailPermanently, Cancel
  <2>2. o \in Outcomes /\ 0 \in Nat
    BY DEF Outcomes
  <2> QED
    BY <1>1, <2>1, <2>2, FinishOK
<1>5. CASE Send(t)
  <2> DEFINE p == breaker'.state = "half_open"
  <2>1. task' = [task EXCEPT ![t].pc = "sending", ![t].attempt = 1, ![t].probing = p]
    BY <1>5 DEF Send
  <2>2. task'[t] = [task[t] EXCEPT !.pc = "sending", !.attempt = 1, !.probing = p]
    BY <1>1, <2>1
  <2>3. p \in BOOLEAN /\ 1 \in 0..MaxAttempts /\ task[t].pc = "idle"
    BY <1>5, EmailAssumption DEF Send
  <2> HIDE DEF p
  <2>4. task'[t] \in Calls /\ task'[t].pc = "sending" /\ task'[t].outcome = task[t].outcome
    BY <1>1, <2>2, <2>3, Zenon DEF Calls
  <2> QED
    BY <1>1, <2>1, <2>3, <2>4 DEF OneCall, CallsOK
<1>6. CASE FailTransiently(t)
  <2>1. CASE task[t].attempt >= MaxAttempts
    <3>1. Finish(t, "transient", 0) /\ "transient" \in Outcomes /\ 0 \in Nat
      BY <1>6, <2>1 DEF FailTransiently, Outcomes
    <3> QED
      BY <1>1, <3>1, FinishOK
  <2>2. CASE ~(task[t].attempt >= MaxAttempts)
    <3>1. task' = [task EXCEPT ![t].pc = "waiting"] /\ task[t].pc = "sending"
      BY <1>6, <2>2 DEF FailTransiently
    <3>2. task'[t] \in Calls /\ task'[t].outcome = task[t].outcome
          /\ task'[t].attempt = task[t].attempt
      BY <1>1, <3>1 DEF Calls
    <3>3. task[t].attempt < MaxAttempts
      BY <1>1, <2>2, EmailAssumption DEF Calls
    <3> QED
      BY <1>1, <3>1, <3>2, <3>3 DEF OneCall, CallsOK
  <2> QED
    BY <2>1, <2>2
<1>7. CASE Resume(t)
  <2>1. task' = [task EXCEPT ![t].pc = "sending", ![t].attempt = @ + 1]
        /\ task[t].pc = "waiting"
    BY <1>7 DEF Resume
  <2>2. task[t].attempt + 1 \in 0..MaxAttempts
    BY <1>1, <2>1, EmailAssumption DEF Calls, CallsOK
  <2>3. task'[t] \in Calls /\ task'[t].pc = "sending" /\ task'[t].outcome = task[t].outcome
    BY <1>1, <2>1, <2>2 DEF Calls
  <2> QED
    BY <1>1, <2>1, <2>3 DEF OneCall, CallsOK
<1> QED
  BY <1>2, <1>3, <1>4, <1>5, <1>6, <1>7 DEF Start, Continue

\* What a step does to the breaker.  Only a probe let through leaves it half open.
LEMMA BreakerStep ==
    ASSUME TypeOK, BreakerConsistent, [Next]_vars
    PROVE  /\ breaker' \in Breakers /\ Consistent(breaker')
           /\ \/ breaker' = breaker
              \/ breaker'.state # "half_open"
              \/ \E t \in Tasks : Send(t)
<1>1. breaker \in Breakers /\ Consistent(breaker)
  BY DEF TypeOK, BreakerConsistent
<1>2. ASSUME NEW t \in Tasks, Send(t)
      PROVE  breaker' \in Breakers /\ Consistent(breaker')
  BY <1>1, <1>2, AskedOK DEF Send
<1>3. ASSUME NEW t \in Tasks, Deliver(t)
      PROVE  breaker' \in Breakers /\ Consistent(breaker') /\ breaker'.state = "closed"
  BY <1>1, <1>3, OnSuccessOK DEF Deliver
<1>4. ASSUME NEW t \in Tasks, FailPermanently(t) \/ FailTransiently(t)
      PROVE  breaker' \in Breakers /\ Consistent(breaker') /\ breaker'.state # "half_open"
  BY <1>1, <1>4, OnFailureOK DEF FailPermanently, FailTransiently
<1>5. CASE ResetTimeout
  BY <1>1, <1>5, CoolDownOK DEF ResetTimeout
<1>6. ASSUME NEW t \in Tasks, SendAgain(t) \/ Refuse(t) \/ Resume(t) \/ Cancel(t)
      PROVE  breaker' = breaker
  BY <1>6 DEF SendAgain, Refuse, Resume, Cancel
<1>7. CASE Reconfigure \/ UNCHANGED vars
  BY <1>1, <1>7 DEF Reconfigure, vars
<1> QED
  BY <1>1, <1>2, <1>3, <1>4, <1>5, <1>6, <1>7 DEF Next, Start, Continue

LEMMA SafeNext == SafeInv /\ [Next]_vars => SafeInv'
<1> SUFFICES ASSUME SafeInv, [Next]_vars
             PROVE  SafeInv'
  OBVIOUS
<1>1. TypeOK /\ BreakerConsistent /\ CallsOK /\ task \in [Tasks -> Calls]
  BY DEF SafeInv, TypeOK, Calls
<1>2. breaker' \in Breakers /\ BreakerConsistent'
  BY <1>1, BreakerStep DEF BreakerConsistent, Consistent
<1>3. task' \in [Tasks -> Calls] /\ CallsOK'
  <2>1. ASSUME NEW t \in Tasks, Start(t) \/ Continue(t) \/ Cancel(t)
        PROVE  task' \in [Tasks -> Calls] /\ CallsOK'
    BY <1>1, <2>1, CallStep DEF OneCall, CallsOK
  <2>2. CASE ResetTimeout \/ Reconfigure \/ UNCHANGED vars
    BY <1>1, <2>2 DEF ResetTimeout, Reconfigure, vars, CallsOK
  <2> QED
    BY <2>1, <2>2 DEF Next
<1>4. /\ failing' \in 0..MaxFailures /\ permanent' \in BOOLEAN /\ calls' \in Nat
  <2>1. ASSUME NEW t \in Tasks, FailTransiently(t)
        PROVE  failing' \in 0..MaxFailures /\ permanent' = permanent /\ calls' = calls
    BY <1>1, <2>1, EmailAssumption DEF FailTransiently, TypeOK
  <2>2. ASSUME NEW t \in Tasks, Start(t) \/ Deliver(t) \/ FailPermanently(t) \/ Resume(t) \/ Cancel(t)
        PROVE  failing' = failing /\ permanent' = permanent /\ calls' \in Nat
    BY <1>1, <2>2
    DEF Start, Send, SendAgain, Refuse, Deliver, FailPermanently, Resume, Cancel, TypeOK
  <2>3. CASE ResetTimeout \/ UNCHANGED vars
    BY <1>1, <2>3 DEF ResetTimeout, vars, TypeOK
  <2>4. CASE Reconfigure
    BY <1>1, <2>4 DEF Reconfigure, TypeOK
  <2> QED
    BY <1>1, <2>1, <2>2, <2>3, <2>4 DEF Next, Continue, TypeOK
<1>5. /\ sent' \in Seq(Keys) /\ DOMAIN store' \subseteq Keys /\ store' \in [DOMAIN store' -> Nat]
  <2>1. ASSUME NEW t \in Tasks, Deliver(t)
        PROVE  /\ sent' \in Seq(Keys) /\ DOMAIN store' \subseteq Keys
               /\ store' \in [DOMAIN store' -> Nat]
    <3>1. KeyOf[t] \in Keys /\ sent \in Seq(Keys) /\ calls \in Nat
      BY <1>1, EmailAssumption DEF TypeOK
    <3> QED
      BY <1>1, <2>1, <3>1 DEF Deliver, TypeOK
  <2>2. ASSUME NEW t \in Tasks, ~Deliver(t), Start(t) \/ Continue(t) \/ Cancel(t)
        PROVE  UNCHANGED <<sent, store>>
    BY <2>2 DEF Start, Continue, Send, SendAgain, Refuse, FailPermanently, FailTransiently,
                Resume, Cancel
  <2>3. CASE ResetTimeout \/ Reconfigure \/ UNCHANGED vars
    BY <1>1, <2>3 DEF ResetTimeout, Reconfigure, vars, TypeOK
  <2> QED
    BY <1>1, <2>1, <2>2, <2>3 DEF Next, TypeOK
<1> QED
  BY <1>2, <1>3, <1>4, <1>5 DEF SafeInv, TypeOK, Calls

LEMMA Safe == Spec => []SafeInv
  BY InitOK, SafeNext, PTL DEF Spec

\* Type correctness, for any calls, keys and number of attempts.
THEOREM TypeCorrect == Spec => []TypeOK
<1>1. SafeInv => TypeOK
  BY DEF SafeInv
<1> QED
  BY <1>1, Safe, PTL

\* The breaker's fields agree in every state, whichever calls report to it
\* (CircuitBreaker in email/fake.py).
THEOREM BreakerStaysConsistent == Spec => []BreakerConsistent
<1>1. SafeInv => BreakerConsistent
  BY DEF SafeInv
<1> QED
  BY <1>1, Safe, PTL

-----------------------------------------------------------------------------
(* The probe of a half-open breaker *)

ProbeInv == SafeInv /\ HalfOpenHasProbe

\* Only a report to the breaker or a cancellation takes a call out of its first
\* attempt, and a report leaves the breaker closed or open.
LEMMA ProbeStep ==
    ASSUME ProbeInv, [Next]_vars
    PROVE  HalfOpenHasProbe'
<1>1. TypeOK /\ BreakerConsistent /\ CallsOK /\ task \in [Tasks -> Calls]
  BY DEF ProbeInv, SafeInv, TypeOK, Calls
<1>2. CASE \E t \in Tasks : Send(t)
  <2>1. PICK t \in Tasks : Send(t)
    BY <1>2
  <2>2. task'[t].pc = "sending" /\ task'[t].attempt = 1
        /\ task'[t].probing = (breaker'.state = "half_open")
    BY <1>1, <2>1 DEF Send, Calls
  <2> QED
    BY <2>2 DEF HalfOpenHasProbe
<1>3. CASE breaker'.state # "half_open"
  BY <1>3 DEF HalfOpenHasProbe
<1>4. CASE breaker' = breaker /\ breaker.state = "half_open" /\ ~\E t \in Tasks : Send(t)
  <2>1. PICK t \in Tasks : /\ task[t].probing /\ task[t].attempt = 1
                           /\ task[t].pc = "sending" \/ task[t].outcome = "lost"
    BY <1>4 DEF ProbeInv, HalfOpenHasProbe
  <2>2. task[t].pc \in {"sending", "done"}
    BY <1>1, <2>1 DEF CallsOK
  <2>3. ASSUME NEW u \in Tasks, Start(u) \/ Continue(u) \/ Cancel(u)
        PROVE  task'[t] = task[t] \/ (task[t].pc = "sending" /\ Cancel(t))
    <3>1. ~Deliver(u)
      BY <1>1, <1>4, OnSuccessOK DEF Deliver, TypeOK, BreakerConsistent
    <3>2. ~FailPermanently(u) /\ ~FailTransiently(u)
      BY <1>1, <1>4, OnFailureOK DEF FailPermanently, FailTransiently, TypeOK, BreakerConsistent
    <3>3. SendAgain(u) \/ Refuse(u) \/ Resume(u) \/ Cancel(u)
      BY <1>4, <2>3, <3>1, <3>2 DEF Start, Continue
    <3>4. u = t => Cancel(u) /\ task[t].pc = "sending"
      BY <2>2, <3>3 DEF SendAgain, Refuse, Resume, Cancel, InFlight
    <3>5. u # t => task'[t] = task[t]
      BY <1>1, <3>3 DEF SendAgain, Refuse, Resume, Cancel, Finish
    <3> QED
      BY <3>4, <3>5
  <2>4. CASE task'[t] = task[t]
    BY <2>1, <2>4 DEF HalfOpenHasProbe
  <2>5. CASE task[t].pc = "sending" /\ Cancel(t)
    <3>1. Finish(t, "lost", 0)
      BY <2>5 DEF Cancel
    <3>2. /\ task'[t].probing = task[t].probing /\ task'[t].attempt = task[t].attempt
          /\ task'[t].outcome = "lost"
      BY <1>1, <3>1, Zenon DEF Finish, Calls
    <3> QED
      BY <2>1, <3>2 DEF HalfOpenHasProbe
  <2> QED
    BY <2>3, <2>4, <2>5 DEF Next, ResetTimeout, Reconfigure, vars
<1> QED
  BY <1>1, <1>2, <1>3, <1>4, BreakerStep

\* A breaker that refuses everybody is waiting for the answer to a probe, which will
\* come unless the probe was cancelled at the network (allow_request and
\* _send_with_policy).
THEOREM ProbeOnItsWay == Spec => []HalfOpenHasProbe
<1>1. Init => ProbeInv
  BY InitOK DEF Init, NewBreaker, ProbeInv, HalfOpenHasProbe
<1>2. ProbeInv /\ [Next]_vars => ProbeInv'
  BY ProbeStep, SafeNext DEF ProbeInv
<1>3. ProbeInv => HalfOpenHasProbe
  BY DEF ProbeInv
<1> QED
  BY <1>1, <1>2, <1>3, PTL DEF Spec

-----------------------------------------------------------------------------
(* Mails and what callers were told *)

MailInv == SafeInv /\ MailsAccounted

LEMMA FiniteMails ==
    ASSUME TypeOK, NEW k \in Keys
    PROVE  /\ IsFiniteSet(MailsFor(k)) /\ Cardinality(MailsFor(k)) \in Nat
           /\ IsFiniteSet(Delivered(k)) /\ Cardinality(Delivered(k)) \in Nat
<1>1. Len(sent) \in Nat /\ DOMAIN sent = 1..Len(sent)
  BY DEF TypeOK
<1>2. IsFiniteSet(1..Len(sent))
  BY <1>1, FS_Interval
<1>3. MailsFor(k) \subseteq 1..Len(sent) /\ Delivered(k) \subseteq Tasks
  BY <1>1 DEF MailsFor, Delivered
<1>4. IsFiniteSet(MailsFor(k)) /\ IsFiniteSet(Delivered(k))
  BY <1>2, <1>3, FS_Subset, EmailAssumption
<1> QED
  BY <1>4, FS_CardinalityType

\* The e-mail goes out: one mail more for the key, one caller more told so.
LEMMA DeliverMails ==
    ASSUME MailInv, NEW t \in Tasks, Deliver(t)
    PROVE  MailsAccounted'
<1>1. TypeOK /\ CallsOK /\ MailsAccounted /\ task \in [Tasks -> Calls]
  BY DEF MailInv, SafeInv, TypeOK, Calls
<1>2. /\ task'[t].outcome = "delivered" /\ task[t].outcome = "none"
      /\ \A u \in Tasks \ {t} : task'[u] = task[u]
  BY <1>1, Zenon DEF Deliver, Finish, Calls, CallsOK
<1>3. /\ sent \in Seq(Keys) /\ Len(sent) \in Nat /\ sent' = Append(sent, KeyOf[t])
      /\ KeyOf[t] \in Keys /\ DOMAIN store' = DOMAIN store \cup {KeyOf[t]}
  BY <1>1, EmailAssumption DEF Deliver, TypeOK
<1>4. DOMAIN sent' = 1..(Len(sent) + 1) /\ sent'[Len(sent) + 1] = KeyOf[t]
      /\ \A i \in 1..Len(sent) : sent'[i] = sent[i]
  BY <1>3
<1> SUFFICES ASSUME NEW k \in Keys
             PROVE  /\ k \in DOMAIN store' <=> MailsFor(k)' # {}
                    /\ Delivered(k)' # {} => MailsFor(k)' # {}
                    /\ Cardinality(MailsFor(k))' <= Cardinality(Delivered(k))'
  BY DEF MailsAccounted
<1>5. CASE k = KeyOf[t]
  <2>1. MailsFor(k)' = MailsFor(k) \cup {Len(sent) + 1} /\ Len(sent) + 1 \notin MailsFor(k)
    BY <1>3, <1>4, <1>5 DEF MailsFor
  <2>2. Delivered(k)' = Delivered(k) \cup {t} /\ t \notin Delivered(k)
    BY <1>2, <1>5 DEF Delivered
  <2>3. /\ Cardinality(MailsFor(k) \cup {Len(sent) + 1}) = Cardinality(MailsFor(k)) + 1
        /\ Cardinality(Delivered(k) \cup {t}) = Cardinality(Delivered(k)) + 1
    BY <1>1, <2>1, <2>2, FiniteMails, FS_AddElement
  <2>4. Cardinality(MailsFor(k)) + 1 <= Cardinality(Delivered(k)) + 1
    BY <1>1, FiniteMails DEF MailsAccounted
  <2> QED
    BY <1>3, <1>5, <2>1, <2>2, <2>3, <2>4
<1>6. CASE k # KeyOf[t]
  <2>1. MailsFor(k)' = MailsFor(k)
    BY <1>3, <1>4, <1>6 DEF MailsFor
  <2>2. Delivered(k)' = Delivered(k)
    BY <1>2, <1>6 DEF Delivered
  <2> QED
    BY <1>1, <1>3, <1>6, <2>1, <2>2 DEF MailsAccounted
<1> QED
  BY <1>5, <1>6

\* A caller served from the store has the mail that put the key there.
LEMMA SendAgainMails ==
    ASSUME MailInv, NEW t \in Tasks, SendAgain(t)
    PROVE  MailsAccounted'
<1>1. TypeOK /\ CallsOK /\ MailsAccounted /\ task \in [Tasks -> Calls]
  BY DEF MailInv, SafeInv, TypeOK, Calls
<1>2. /\ task'[t].outcome = "delivered" /\ task[t].outcome = "none"
      /\ \A u \in Tasks \ {t} : task'[u] = task[u]
      /\ KeyOf[t] \in DOMAIN store /\ UNCHANGED <<sent, store>>
  BY <1>1, Zenon DEF SendAgain, Finish, Calls, CallsOK
<1> SUFFICES ASSUME NEW k \in Keys
             PROVE  /\ k \in DOMAIN store' <=> MailsFor(k)' # {}
                    /\ Delivered(k)' # {} => MailsFor(k)' # {}
                    /\ Cardinality(MailsFor(k))' <= Cardinality(Delivered(k))'
  BY DEF MailsAccounted
<1>3. MailsFor(k)' = MailsFor(k)
  BY <1>2 DEF MailsFor
<1>4. CASE k = KeyOf[t]
  <2>1. Delivered(k)' = Delivered(k) \cup {t} /\ t \notin Delivered(k)
    BY <1>2, <1>4 DEF Delivered
  <2>2. Cardinality(Delivered(k) \cup {t}) = Cardinality(Delivered(k)) + 1
    BY <1>1, <2>1, FiniteMails, FS_AddElement
  <2>3. Cardinality(MailsFor(k)) <= Cardinality(Delivered(k)) + 1
    BY <1>1, FiniteMails DEF MailsAccounted
  <2> QED
    BY <1>1, <1>2, <1>3, <1>4, <2>1, <2>2, <2>3 DEF MailsAccounted
<1>5. CASE k # KeyOf[t]
  <2>1. Delivered(k)' = Delivered(k)
    BY <1>2, <1>5 DEF Delivered
  <2> QED
    BY <1>1, <1>2, <1>3, <2>1 DEF MailsAccounted
<1> QED
  BY <1>4, <1>5

\* Nothing else sends, remembers or reports a delivery.
LEMMA OtherMails ==
    ASSUME MailInv, UNCHANGED <<sent, store>>,
           \A u \in Tasks : task'[u].outcome = "delivered" <=> task[u].outcome = "delivered"
    PROVE  MailsAccounted'
<1>1. \A k \in Keys : MailsFor(k)' = MailsFor(k) /\ Delivered(k)' = Delivered(k)
  BY DEF MailsFor, Delivered
<1> QED
  BY <1>1 DEF MailInv, MailsAccounted

LEMMA MailsNext == MailInv /\ [Next]_vars => MailInv'
<1> SUFFICES ASSUME MailInv, [Next]_vars
             PROVE  MailsAccounted'
  BY SafeNext DEF MailInv
<1>1. SafeInv /\ TypeOK /\ CallsOK /\ task \in [Tasks -> Calls]
  BY DEF MailInv, SafeInv, TypeOK, Calls
<1>2. ASSUME NEW t \in Tasks,
             Refuse(t) \/ Send(t) \/ FailPermanently(t) \/ FailTransiently(t)
                \/ Resume(t) \/ Cancel(t)
      PROVE  MailsAccounted'
  <2>1. UNCHANGED <<sent, store>>
    BY <1>2 DEF Refuse, Send, FailPermanently, FailTransiently, Resume, Cancel
  <2>2. \A u \in Tasks \ {t} : task'[u] = task[u]
    BY <1>1, <1>2, CallStep DEF OneCall, Start, Continue
  <2>3. task[t].outcome = "none"
    BY <1>1, <1>2
    DEF CallsOK, Refuse, Send, FailPermanently, FailTransiently, Resume, Cancel, InFlight
  <2>4. task'[t].outcome # "delivered"
    <3>1. CASE \E o \in {"refused", "permanent", "transient", "lost", "cancelled"} : Finish(t, o, 0)
      <4>1. PICK o \in {"refused", "permanent", "transient", "lost", "cancelled"} : Finish(t, o, 0)
        BY <3>1
      <4>2. o \in Outcomes /\ 0 \in Nat /\ o # "delivered"
        BY DEF Outcomes
      <4> QED
        BY <1>1, <4>1, <4>2, FinishOK
    <3>2. CASE Send(t)
      BY <1>1, <2>3, <3>2, Zenon DEF Send, Calls
    <3>3. CASE FailTransiently(t) /\ task' = [task EXCEPT ![t].pc = "waiting"]
      BY <1>1, <2>3, <3>3 DEF Calls
    <3>4. CASE Resume(t)
      BY <1>1, <2>3, <3>4, Zenon DEF Resume, Calls
    <3> QED
      BY <1>2, <3>1, <3>2, <3>3, <3>4 DEF Refuse, FailPermanently, FailTransiently, Cancel
  <2> QED
    BY <2>1, <2>2, <2>3, <2>4, OtherMails
<1>3. CASE ResetTimeout \/ Reconfigure \/ UNCHANGED vars
  <2>1. UNCHANGED <<sent, store, task>>
    BY <1>3 DEF ResetTimeout, Reconfigure, vars
  <2> QED
    BY <2>1, OtherMails
<1> QED
  BY <1>2, <1>3, DeliverMails, SendAgainMails DEF Next, Start, Continue

\* Whatever fails, is cancelled or overlaps: a key is remembered exactly when a mail
\* went out for it, a caller told "delivered" has its mail, and there are no more
\* mails than callers told so (_send_with_policy).
THEOREM MailsStayAccounted == Spec => []MailsAccounted
<1>1. Init => MailInv
  <2>1. ASSUME Init, NEW k \in Keys
        PROVE  MailsFor(k) = {} /\ Delivered(k) = {} /\ k \notin DOMAIN store
    BY <2>1 DEF Init, MailsFor, Delivered, Idle
  <2>2. Cardinality({}) = 0 /\ 0 <= 0
    BY FS_EmptySet
  <2> QED
    BY <2>1, <2>2, InitOK DEF MailInv, MailsAccounted
<1>2. MailInv => MailsAccounted
  BY DEF MailInv
<1> QED
  BY <1>1, <1>2, MailsNext, PTL DEF Spec
=============================================================================
