----------------------------- MODULE AuthProofs -----------------------------
(***************************************************************************)
(* Proofs about Auth.  The checks of a request take several steps; the     *)
(* invariant carries what the ones behind it saw: past jwt.decode, either  *)
(* the request could have been admitted at that instant or its token was   *)
(* already confirmed as revoked, and then the lookup still to come refuses *)
(* it, because a process only ever adds to its set.                        *)
(***************************************************************************)
EXTENDS Auth, TLAPS

Stages == Flight \cup {"idle", "done", "401", "403"}
Request == [stage : Stages, token : Tokens \cup {None},
            wants : Roles \cup {"revoke"}, at : Processes \cup {None}]

Types ==
    /\ now \in 0..MaxTime
    /\ issued \in [Tokens -> {None} \cup [roles : SUBSET Roles, exp : Int]]
    /\ revoked \in [Processes -> SUBSET Tokens]
    /\ confirmed \in [Processes -> SUBSET Tokens]
    /\ req \in [Requests -> Request]
    /\ found \in [Requests -> SUBSET {"admit", "refuse"}]

\* A request in flight has a token that was issued, and a process.
Held == \A r \in Requests : req[r].stage \in Flight =>
            req[r].token \in Tokens /\ issued[req[r].token] # None /\ req[r].at \in Processes

Sets == \A p \in Processes : confirmed[p] \subseteq revoked[p] /\ \A t \in revoked[p] : issued[t] # None

\* What the checks behind a request showed.
Passed(r) ==
    /\ req[r].stage = "alive" => "admit" \in found[r] \/ req[r].token \in confirmed[req[r].at]
    /\ req[r].stage \in {"known", "revoked", "admitted", "done", "403"} => "admit" \in found[r]
    /\ req[r].stage = "revoked" => req[r].token \in revoked[req[r].at]
    /\ req[r].stage = "401" => "refuse" \in found[r]
Past == \A r \in Requests : Passed(r)

IInv == Types /\ Held /\ Sets /\ Past

-----------------------------------------------------------------------------
LEMMA InitHolds == Init => IInv
<1> SUFFICES ASSUME Init PROVE IInv
    OBVIOUS
<1> USE TimeAssumption
<1>1. Types
    BY DEF Init, Types, Request, Stages, Idle, Flight, Roles
<1>2. Held /\ Sets /\ Past
    BY DEF Init, Held, Sets, Past, Passed, Idle, Flight
<1> QED BY <1>1, <1>2 DEF IInv

\* What Look adds: everything a request in flight could be told before, and what it
\* can be told now.
LEMMA LookAdds ==
    ASSUME Look, NEW r \in Requests, req'[r].stage # "idle"
    PROVE  /\ req[r].stage \in Flight => found[r] \subseteq found'[r] /\ Fair(req[r])' \subseteq found'[r]
           /\ req'[r] # req[r] => Fair(req[r])' \subseteq found'[r]
           /\ req'[r] = req[r] => found[r] \subseteq found'[r]
<1>1. found'[r] = IF req'[r] = req[r] /\ req[r].stage \notin Flight THEN found[r]
                  ELSE IF req'[r].stage = "idle" THEN {}
                  ELSE (IF req[r].stage \in Flight THEN found[r] ELSE {}) \cup Fair(req[r])'
    BY DEF Look
<1> QED BY <1>1

LEMMA LookTypes ==
    ASSUME Look, found \in [Requests -> SUBSET {"admit", "refuse"}]
    PROVE  found' \in [Requests -> SUBSET {"admit", "refuse"}]
<1>1. \A r \in Requests : Fair(req[r])' \subseteq {"admit", "refuse"}
    BY DEF Fair
<1> QED BY <1>1 DEF Look

\* A request that a step leaves alone, while the sets of its process only grow, keeps
\* what it had passed.
LEMMA LeftAlone ==
    ASSUME IInv, Look, NEW r \in Requests, req'[r] = req[r], req[r].stage # "idle",
           req[r].stage \in Flight => /\ revoked[req[r].at] \subseteq revoked'[req[r].at]
                                      /\ confirmed[req[r].at] \subseteq confirmed'[req[r].at]
    PROVE  Passed(r)'
<1>1. found[r] \subseteq found'[r]
    BY LookAdds
<1> QED BY <1>1 DEF IInv, Past, Passed, Flight

-----------------------------------------------------------------------------
\* A check changes one request's stage, nothing else but the history.
LEMMA StageKeeps ==
    ASSUME IInv, NEW r \in Requests, NEW stage \in Stages \ {"idle"}, req[r].stage \in Flight,
           Move(r, stage), UNCHANGED <<now, issued, revoked, confirmed>>, Look
    PROVE  /\ Types' /\ Held' /\ Sets'
           /\ \A q \in Requests \ {r} : Passed(q)'
           /\ req[r] \in Request /\ req[r].token \in Tokens /\ req[r].at \in Processes
           /\ issued[req[r].token] \in [roles : SUBSET Roles, exp : Int] /\ now \in Int
           /\ req'[r].stage = stage /\ req'[r].token = req[r].token /\ req'[r].at = req[r].at
           /\ found[r] \subseteq found'[r] /\ Fair(req[r])' \subseteq found'[r]
<1> USE DEF IInv
<1>1. /\ req[r] \in Request /\ req[r].token \in Tokens /\ req[r].at \in Processes
      /\ issued[req[r].token] \in [roles : SUBSET Roles, exp : Int] /\ now \in Int
    BY DEF Types, Held
<1>2. /\ req' \in [Requests -> Request] /\ req'[r].stage = stage
      /\ req'[r].token = req[r].token /\ req'[r].at = req[r].at
  <2>1. [req[r] EXCEPT !.stage = stage] \in Request
      BY <1>1 DEF Request
  <2>2. req'[r] = [req[r] EXCEPT !.stage = stage]
      BY DEF Move, Types
  <2> QED BY <1>1, <2>1, <2>2 DEF Move, Types, Request
<1>3. Types'
    BY <1>2, LookTypes DEF Types
<1>4. \A q \in Requests \ {r} : req'[q] = req[q]
    BY DEF Move, Types
<1>5. Held' /\ Sets'
    BY <1>2, <1>4 DEF Held, Sets
<1>6. ASSUME NEW q \in Requests \ {r} PROVE Passed(q)'
  <2>1. CASE req[q].stage = "idle"
      BY <2>1, <1>4 DEF Passed
  <2>2. CASE req[q].stage # "idle"
      BY <2>2, <1>4, LeftAlone
  <2> QED BY <2>1, <2>2
<1>7. found[r] \subseteq found'[r] /\ Fair(req[r])' \subseteq found'[r]
    BY <1>2, LookAdds
<1> QED BY <1>1, <1>2, <1>3, <1>5, <1>6, <1>7

LEMMA DecodeKeeps == ASSUME IInv, NEW r \in Requests, Decode(r) PROVE IInv'
<1>1. /\ req[r].stage = "arrived"
      /\ UNCHANGED <<now, issued, revoked, confirmed>> /\ Look
    BY DEF Decode, Check
<1>2. CASE issued[req[r].token].exp > now /\ Move(r, "alive")
  <2>1. /\ Types' /\ Held' /\ Sets' /\ \A q \in Requests \ {r} : Passed(q)'
        /\ req[r].token \in Tokens /\ req[r].at \in Processes
        /\ issued[req[r].token].exp \in Int /\ now \in Int
        /\ req'[r].stage = "alive" /\ req'[r].token = req[r].token /\ req'[r].at = req[r].at
        /\ Fair(req[r])' \subseteq found'[r]
      BY <1>1, <1>2, StageKeeps DEF Stages, Flight
  <2>2. ~(Dead(req[r])')
      BY <2>1, <1>1, <1>2, NoneAssumption DEF Dead
  <2>3. Passed(r)'
      BY <2>1, <2>2 DEF Passed, Fair
  <2> QED BY <2>1, <2>3 DEF IInv, Past
<1>3. CASE ~(issued[req[r].token].exp > now) /\ Move(r, "401")
  <2>1. /\ Types' /\ Held' /\ Sets' /\ \A q \in Requests \ {r} : Passed(q)'
        /\ req[r].token \in Tokens
        /\ issued[req[r].token].exp \in Int /\ now \in Int
        /\ req'[r].stage = "401" /\ req'[r].token = req[r].token
        /\ Fair(req[r])' \subseteq found'[r]
      BY <1>1, <1>3, StageKeeps DEF Stages, Flight
  <2>2. Dead(req[r])'
      BY <2>1, <1>1, <1>3 DEF Dead
  <2>3. Passed(r)'
      BY <2>1, <2>2 DEF Passed, Fair
  <2> QED BY <2>1, <2>3 DEF IInv, Past
<1> QED BY <1>2, <1>3 DEF Decode, Check

LEMMA LookupKeeps == ASSUME IInv, NEW r \in Requests, Lookup(r) PROVE IInv'
<1>1. /\ req[r].stage = "alive"
      /\ UNCHANGED <<now, issued, revoked, confirmed>> /\ Look
    BY DEF Lookup, Check
<1>2. CASE req[r].token \notin revoked[req[r].at] /\ Move(r, "known")
  <2>1. /\ Types' /\ Held' /\ Sets' /\ \A q \in Requests \ {r} : Passed(q)'
        /\ req[r].at \in Processes
        /\ req'[r].stage = "known" /\ found[r] \subseteq found'[r]
      BY <1>1, <1>2, StageKeeps DEF Stages, Flight
  <2>2. req[r].token \notin confirmed[req[r].at]
      BY <2>1, <1>2 DEF IInv, Sets
  <2>3. "admit" \in found[r]
      BY <2>2, <1>1 DEF IInv, Past, Passed
  <2>4. Passed(r)'
      BY <2>1, <2>3 DEF Passed
  <2> QED BY <2>1, <2>4 DEF IInv, Past
<1>3. CASE req[r].token \in revoked[req[r].at] /\ Move(r, "401")
  <2>1. /\ Types' /\ Held' /\ Sets' /\ \A q \in Requests \ {r} : Passed(q)'
        /\ req'[r].stage = "401" /\ req'[r].token = req[r].token /\ req'[r].at = req[r].at
        /\ Fair(req[r])' \subseteq found'[r]
      BY <1>1, <1>3, StageKeeps DEF Stages, Flight
  <2>2. req'[r].token \in revoked'[req'[r].at]
      BY <2>1, <1>1, <1>3
  <2>3. Passed(r)'
      BY <2>1, <2>2 DEF Passed, Fair
  <2> QED BY <2>1, <2>3 DEF IInv, Past
<1> QED BY <1>2, <1>3 DEF Lookup, Check

\* The two stages that look at nothing that changes.
LEMMA RouteKeeps == ASSUME IInv, NEW r \in Requests, RequireRole(r) \/ Handle(r) PROVE IInv'
<1>1. /\ req[r].stage \in {"known", "admitted"}
      /\ UNCHANGED <<now, issued, revoked, confirmed>> /\ Look
    BY DEF RequireRole, Handle, Check
<1>2. PICK stage \in {"admitted", "403", "done"} : Move(r, stage)
    BY DEF RequireRole, Handle, Check
<1>3. /\ Types' /\ Held' /\ Sets' /\ \A q \in Requests \ {r} : Passed(q)'
      /\ req'[r].stage = stage /\ found[r] \subseteq found'[r]
    BY <1>1, <1>2, StageKeeps DEF Stages, Flight
<1>4. "admit" \in found[r]
    BY <1>1 DEF IInv, Past, Passed
<1>5. Passed(r)'
    BY <1>3, <1>4 DEF Passed
<1> QED BY <1>3, <1>5 DEF IInv, Past

\* Revoke and Confirm let the sets of one process grow by the request's own token.
LEMMA RevokeKeeps == ASSUME IInv, NEW r \in Requests, Revoke(r) \/ Confirm(r) PROVE IInv'
<1> DEFINE next == IF req[r].stage = "known" THEN "revoked" ELSE "done"
<1>1. /\ req[r].stage \in {"known", "revoked"} /\ req[r] \in Request
      /\ req[r].token \in Tokens /\ issued[req[r].token] # None /\ req[r].at \in Processes
    BY DEF Revoke, Confirm, IInv, Types, Held, Flight
<1>2. req' = [req EXCEPT ![r].stage = next] /\ UNCHANGED <<now, issued>> /\ Look
    BY DEF Revoke, Confirm, Move
<1>3. \/ revoked' = [revoked EXCEPT ![req[r].at] = @ \cup {req[r].token}] /\ confirmed' = confirmed
         /\ next = "revoked"
      \/ confirmed' = [confirmed EXCEPT ![req[r].at] = @ \cup {req[r].token}] /\ revoked' = revoked
         /\ next = "done" /\ req[r].token \in revoked[req[r].at]
    BY DEF Revoke, Confirm, IInv, Past, Passed
<1>4. /\ revoked' \in [Processes -> SUBSET Tokens] /\ confirmed' \in [Processes -> SUBSET Tokens]
      /\ \A p \in Processes : revoked[p] \subseteq revoked'[p] /\ confirmed[p] \subseteq confirmed'[p]
    BY <1>1, <1>3 DEF IInv, Types
<1>5. /\ req' \in [Requests -> Request] /\ req'[r].stage = next
      /\ req'[r].token = req[r].token /\ req'[r].at = req[r].at
  <2>1. [req[r] EXCEPT !.stage = next] \in Request
      BY <1>1 DEF Request, Stages, Flight
  <2>2. req'[r] = [req[r] EXCEPT !.stage = next]
      BY <1>2 DEF IInv, Types
  <2> QED BY <1>1, <1>2, <2>1, <2>2 DEF IInv, Types, Request
<1>6. \A q \in Requests \ {r} : req'[q] = req[q]
    BY <1>2 DEF IInv, Types
<1>7. Types'
    BY <1>2, <1>4, <1>5, LookTypes DEF IInv, Types
<1>8. Held'
    BY <1>1, <1>2, <1>5, <1>6 DEF IInv, Held
<1>9. Sets'
    BY <1>1, <1>2, <1>3 DEF IInv, Sets, Types
<1>10. ASSUME NEW q \in Requests PROVE Passed(q)'
  <2>1. CASE q = r
    <3>1. found[r] \subseteq found'[r] /\ "admit" \in found[r]
        BY <1>1, <1>2, <1>5, LookAdds DEF Flight, IInv, Past, Passed
    <3>2. next = "revoked" => req'[r].token \in revoked'[req'[r].at]
        BY <1>1, <1>3, <1>5 DEF IInv, Types
    <3> QED BY <2>1, <3>1, <3>2, <1>5 DEF Passed
  <2>2. CASE q # r /\ req[q].stage = "idle"
      BY <2>2, <1>6 DEF Passed
  <2>3. CASE q # r /\ req[q].stage # "idle"
    <3>1. req[q].stage \in Flight => req[q].at \in Processes
        BY DEF IInv, Held
    <3> QED BY <2>3, <3>1, <1>2, <1>4, <1>6, LeftAlone
  <2> QED BY <2>1, <2>2, <2>3
<1> QED BY <1>7, <1>8, <1>9, <1>10 DEF IInv, Past

-----------------------------------------------------------------------------
\* A new request has passed nothing, unless it came without a token and was refused.
LEMMA ArriveKeeps == ASSUME IInv, NEW r \in Requests, Arrive(r) PROVE IInv'
<1>1. /\ req[r].stage \notin Flight
      /\ UNCHANGED <<now, issued, revoked, confirmed>> /\ Look
    BY DEF Arrive
<1>2. PICK p \in Processes, w \in Roles \cup {"revoke"}, t \in {x \in Tokens : issued[x] # None} \cup {None} :
        req' = [req EXCEPT ![r] = [stage |-> IF t = None THEN "401" ELSE "arrived",
                                   token |-> t, wants |-> w, at |-> p]]
    BY DEF Arrive
<1>3. /\ req' \in [Requests -> Request] /\ req'[r].token = t /\ req'[r].at = p
      /\ req'[r].stage = IF t = None THEN "401" ELSE "arrived"
      /\ \A q \in Requests \ {r} : req'[q] = req[q]
  <2>1. [stage |-> IF t = None THEN "401" ELSE "arrived", token |-> t, wants |-> w, at |-> p] \in Request
      BY DEF Request, Stages, Flight
  <2> QED BY <1>2, <2>1 DEF IInv, Types
<1>4. Types'
    BY <1>1, <1>3, LookTypes DEF IInv, Types
<1>5. Held'
    BY <1>1, <1>3 DEF IInv, Held, Flight
<1>6. Sets'
    BY <1>1 DEF IInv, Sets
<1>7. ASSUME NEW q \in Requests PROVE Passed(q)'
  <2>1. CASE q = r /\ t # None
      BY <2>1, <1>3 DEF Passed
  <2>2. CASE q = r /\ t = None
    <3>1. Fair(req[r])' = {"refuse"}
        BY <2>2, <1>3 DEF Fair, Dead
    <3>2. "refuse" \in found'[r]
      <4>1. CASE req'[r] # req[r]
          BY <4>1, <3>1, <2>2, <1>1, <1>3, LookAdds
      <4>2. CASE req'[r] = req[r]
          BY <4>2, <2>2, <1>1, <1>3, LookAdds DEF IInv, Past, Passed
      <4> QED BY <4>1, <4>2
    <3> QED BY <2>2, <3>2, <1>3 DEF Passed
  <2>3. CASE q # r /\ req[q].stage = "idle"
      BY <2>3, <1>3 DEF Passed
  <2>4. CASE q # r /\ req[q].stage # "idle"
      BY <2>4, <1>1, <1>3, LeftAlone
  <2> QED BY <2>1, <2>2, <2>3, <2>4
<1> QED BY <1>4, <1>5, <1>6, <1>7 DEF IInv, Past

\* A restart clears the sets of its process, and its requests with them.
LEMMA RestartKeeps == ASSUME IInv, NEW p \in Processes, Restart(p) PROVE IInv'
<1>1. /\ revoked' = [revoked EXCEPT ![p] = {}] /\ confirmed' = [confirmed EXCEPT ![p] = {}]
      /\ req' = [r \in Requests |-> IF req[r].at = p THEN Idle ELSE req[r]]
      /\ UNCHANGED <<now, issued>> /\ Look
    BY DEF Restart
<1>2. Types'
  <2>1. Idle \in Request
      BY DEF Idle, Request, Stages, Roles
  <2> QED BY <1>1, <2>1, LookTypes DEF IInv, Types
<1>3. Held' /\ Sets'
    BY <1>1 DEF IInv, Held, Sets, Types, Idle, Flight
<1>4. ASSUME NEW q \in Requests PROVE Passed(q)'
  <2>1. CASE req[q].at = p \/ req[q].stage = "idle"
    <3>1. req'[q].stage = "idle"
        BY <2>1, <1>1 DEF Idle
    <3> QED BY <3>1 DEF Passed
  <2>2. CASE req[q].at # p /\ req[q].stage # "idle"
    <3>1. req'[q] = req[q] /\ (req[q].stage \in Flight => req[q].at \in Processes)
        BY <2>2, <1>1 DEF IInv, Held
    <3>2. req[q].stage \in Flight => /\ revoked[req[q].at] \subseteq revoked'[req[q].at]
                                     /\ confirmed[req[q].at] \subseteq confirmed'[req[q].at]
        BY <2>2, <3>1, <1>1 DEF IInv, Types
    <3> QED BY <2>2, <3>1, <3>2, <1>1, LeftAlone
  <2> QED BY <2>1, <2>2
<1> QED BY <1>2, <1>3, <1>4 DEF IInv, Past

\* Issuing a token and the clock concern no request's past.
LEMMA RestKeeps == ASSUME IInv, (\E t \in Tokens : Issue(t)) \/ Tick PROVE IInv'
<1>1. UNCHANGED <<req, revoked, confirmed>> /\ Look
    BY DEF Issue, Tick
<1>2. /\ now' \in 0..MaxTime
      /\ issued' \in [Tokens -> {None} \cup [roles : SUBSET Roles, exp : Int]]
      /\ \A t \in Tokens : issued[t] # None => issued'[t] # None
  <2>1. CASE Tick
      BY <2>1, TimeAssumption DEF Tick, IInv, Types
  <2>2. CASE \E t \in Tokens : Issue(t)
    <3>1. PICK t \in Tokens : Issue(t)
        BY <2>2
    <3>2. PICK roles \in SUBSET Roles, e \in Lifetimes :
            issued' = [issued EXCEPT ![t] = [roles |-> roles, exp |-> now + Life(e)]]
        BY <3>1 DEF Issue
    <3>3. now + Life(e) \in Int
        BY LifetimesAssumption, TimeAssumption DEF Life, IInv, Types
    <3>4. [roles |-> roles, exp |-> now + Life(e)] \in [roles : SUBSET Roles, exp : Int]
        BY <3>3
    <3>5. issued[t] = None /\ now' = now
        BY <3>1 DEF Issue
    <3> QED BY <3>2, <3>4, <3>5 DEF IInv, Types
  <2> QED BY <2>1, <2>2
<1>3. Types'
    BY <1>1, <1>2, LookTypes DEF IInv, Types
<1>4. Held' /\ Sets'
    BY <1>1, <1>2 DEF IInv, Held, Sets, Types
<1>5. ASSUME NEW q \in Requests PROVE Passed(q)'
  <2>1. CASE req[q].stage = "idle"
      BY <2>1, <1>1 DEF Passed
  <2>2. CASE req[q].stage # "idle"
      BY <2>2, <1>1, LeftAlone
  <2> QED BY <2>1, <2>2
<1> QED BY <1>3, <1>4, <1>5 DEF IInv, Past

LEMMA StepHolds == IInv /\ [Next]_vars => IInv'
<1> SUFFICES ASSUME IInv, [Next]_vars PROVE IInv'
    OBVIOUS
<1>1. CASE \E t \in Tokens : Issue(t)
    BY <1>1, RestKeeps
<1>2. ASSUME NEW r \in Requests, Arrive(r) PROVE IInv'
    BY <1>2, ArriveKeeps
<1>3. ASSUME NEW r \in Requests, Serve(r) PROVE IInv'
    BY <1>3, DecodeKeeps, LookupKeeps, RouteKeeps, RevokeKeeps DEF Serve
<1>4. CASE Tick
    BY <1>4, RestKeeps
<1>5. ASSUME NEW p \in Processes, Restart(p) PROVE IInv'
    BY <1>5, RestartKeeps
<1>6. CASE UNCHANGED vars
    BY <1>6 DEF vars, IInv, Types, Held, Sets, Past, Passed
<1> QED BY <1>1, <1>2, <1>3, <1>4, <1>5, <1>6 DEF Next

LEMMA Invariance == Spec => []IInv
<1> QED BY InitHolds, StepHolds, PTL DEF Spec

\* Every value keeps its type, a confirmed revocation is in the set of its process, and
\* only issued tokens get there.
THEOREM TypeCorrect == Spec => []TypeOK
<1>1. IInv => TypeOK
    BY DEF IInv, Types, Sets, TypeOK, Request, Stages
<1> QED BY <1>1, Invariance, PTL

\* However requests, revocations, restarts and the clock interleave, no request passes
\* the checks unless it could have been admitted at one instant since it arrived.
THEOREM AdmissionIsRight == Spec => []AdmittedRightly
<1>1. IInv => AdmittedRightly
    BY DEF IInv, Past, Passed, AdmittedRightly
<1> QED BY <1>1, Invariance, PTL

\* And none is refused unless it could have been refused at one instant since then.
THEOREM RefusalIsRight == Spec => []RefusedRightly
<1>1. IInv => RefusedRightly
    BY DEF IInv, Past, Passed, RefusedRightly
<1> QED BY <1>1, Invariance, PTL
=============================================================================
