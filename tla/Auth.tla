-------------------------------- MODULE Auth --------------------------------
(***************************************************************************)
(* Access tokens: issued, presented with requests, revoked.                *)
(*                                                                         *)
(* Every process of the service keeps its own set of revoked tokens, in    *)
(* memory (security.py).  The checks of a request are functions that run   *)
(* on the thread pool, so other requests, a revocation and the passing of  *)
(* time come between any two of them, and between the last one and the     *)
(* handler.  A token is known to whoever asked for it, so any process may  *)
(* be shown any token issued so far; signatures are taken as checked.      *)
(***************************************************************************)
EXTENDS Integers

CONSTANTS
    Processes,
    Requests,    \* requests that can be in flight or just answered
    Tokens,      \* the tokens that are issued, by their jti
    Lifetimes,   \* values of expires_in; 0 stands for None too
    DefaultTtl,  \* access_token_ttl_seconds
    MaxTime,     \* bound: the clock stops here, and every token has expired by then
    None

Roles == {"admin", "user"}

ASSUME LifetimesAssumption == Lifetimes \subseteq Int /\ DefaultTtl \in Int
ASSUME TimeAssumption == MaxTime \in Nat
ASSUME NoneAssumption == None \notin Tokens \cup Processes

VARIABLES
    now,
    issued,     \* the payload of each token, None before it is issued
    revoked,    \* _REVOKED_JTI of each process
    req,        \* each request: what it asks, of whom, and how far it got
    \* history:
    confirmed,  \* tokens whose revocation a process has answered since it started
    found       \* the answers a request could have got at some instant since it arrived

vars == <<now, issued, revoked, req, confirmed, found>>

Idle == [stage |-> "idle", token |-> None, wants |-> "user", at |-> None]
Flight == {"arrived", "alive", "known", "revoked", "admitted"}

Init ==
    /\ now = 0
    /\ issued = [t \in Tokens |-> None]
    /\ revoked = [p \in Processes |-> {}]
    /\ req = [r \in Requests |-> Idle]
    /\ confirmed = [p \in Processes |-> {}]
    /\ found = [r \in Requests |-> {}]

Move(r, stage) == req' = [req EXCEPT ![r].stage = stage]

\* What a request can be told, going by what it may know: the revocations that were
\* answered must be heeded, those under way may be.
Dead(q) == q.token = None \/ issued[q.token].exp <= now
Fair(q) ==
    (IF ~Dead(q) /\ q.token \notin confirmed[q.at] THEN {"admit"} ELSE {})
    \cup (IF Dead(q) \/ q.token \in revoked[q.at] THEN {"refuse"} ELSE {})

\* What each request could have been told by now, this step included.
Look ==
    found' = [r \in Requests |->
                IF req'[r] = req[r] /\ req[r].stage \notin Flight THEN found[r]
                ELSE IF req'[r].stage = "idle" THEN {}
                ELSE (IF req[r].stage \in Flight THEN found[r] ELSE {}) \cup Fair(req[r])']

\* One stage of a request: where it goes when the check holds and when it does not.
Check(r, from, good, pass, fail) ==
    /\ req[r].stage = from
    /\ Move(r, IF good THEN pass ELSE fail)
    /\ UNCHANGED <<now, issued, revoked, confirmed>> /\ Look

-----------------------------------------------------------------------------
\* issue_test_token: 0 is falsy and gets the default.
Life(e) == IF e = 0 THEN DefaultTtl ELSE e
Issue(t) ==
    /\ issued[t] = None
    /\ \E roles \in SUBSET Roles, e \in Lifetimes :
         /\ now + Life(e) <= MaxTime
         /\ issued' = [issued EXCEPT ![t] = [roles |-> roles, exp |-> now + Life(e)]]
    /\ UNCHANGED <<now, revoked, req, confirmed>> /\ Look

\* A request reaches a process: on a route for users or for admins, or on /revoke.
\* Without a token bearer_credentials refuses it.
Arrive(r) ==
    /\ req[r].stage \notin Flight
    /\ \E p \in Processes, w \in Roles \cup {"revoke"}, t \in {x \in Tokens : issued[x] # None} \cup {None} :
         /\ t = None => w # "revoke"
         /\ req' = [req EXCEPT ![r] = [stage |-> IF t = None THEN "401" ELSE "arrived",
                                       token |-> t, wants |-> w, at |-> p]]
    /\ UNCHANGED <<now, issued, revoked, confirmed>> /\ Look

-----------------------------------------------------------------------------
(* decode_token *)

\* jwt.decode verifies the claims.  Faulty variants have the leeway on the wrong side,
\* or leave an end to the set of revoked tokens.
Decode_NoExpiry(r) == Check(r, "arrived", TRUE, "alive", "401")
Decode_Early(r) == Check(r, "arrived", issued[req[r].token].exp > now + 1, "alive", "401")
Decode(r) == Check(r, "arrived", issued[req[r].token].exp > now, "alive", "401")

\* The jti is looked up in the set of this process.  A faulty variant lets a token be
\* revoked again.
Lookup_Again(r) ==
    Check(r, "alive", req[r].wants = "revoke" \/ req[r].token \notin revoked[req[r].at], "known", "401")
Lookup(r) == Check(r, "alive", req[r].token \notin revoked[req[r].at], "known", "401")

\* The roles of the principal; none means user.
Principal(t) == IF issued[t].roles = {} THEN {"user"} ELSE issued[t].roles

\* require_role; /revoke asks for none.
RequireRole(r) ==
    /\ req[r].wants # "revoke"
    /\ Check(r, "known", req[r].wants \in Principal(req[r].token), "admitted", "403")

\* The handler of the route.
Handle(r) == Check(r, "admitted", TRUE, "done", "done")

\* /revoke: revoke_token_by_jti.  A faulty variant goes by the role of users.
Revoke_Users(r) ==
    /\ req[r].stage = "known" /\ req[r].wants = "revoke"
    /\ revoked' = [revoked EXCEPT ![req[r].at] = @ \cup
                     {t \in {req[r].token} : "user" \in issued[t].roles}]
    /\ Move(r, "revoked")
    /\ UNCHANGED <<now, issued, confirmed>> /\ Look
Revoke(r) ==
    /\ req[r].stage = "known" /\ req[r].wants = "revoke"
    /\ revoked' = [revoked EXCEPT ![req[r].at] = @ \cup {req[r].token}]
    /\ Move(r, "revoked")
    /\ UNCHANGED <<now, issued, confirmed>> /\ Look

Confirm(r) ==
    /\ req[r].stage = "revoked"
    /\ confirmed' = [confirmed EXCEPT ![req[r].at] = @ \cup {req[r].token}]
    /\ Move(r, "done")
    /\ UNCHANGED <<now, issued, revoked>> /\ Look

-----------------------------------------------------------------------------
(* The surroundings *)

Tick ==
    /\ now < MaxTime
    /\ now' = now + 1
    /\ UNCHANGED <<issued, revoked, req, confirmed>> /\ Look

\* A process ends and another takes its place: the set is empty, its requests are gone.
Restart(p) ==
    /\ revoked' = [revoked EXCEPT ![p] = {}]
    /\ confirmed' = [confirmed EXCEPT ![p] = {}]
    /\ req' = [r \in Requests |-> IF req[r].at = p THEN Idle ELSE req[r]]
    /\ UNCHANGED <<now, issued>> /\ Look

Serve(r) == Decode(r) \/ Lookup(r) \/ RequireRole(r) \/ Handle(r) \/ Revoke(r) \/ Confirm(r)

Next ==
    \/ \E t \in Tokens : Issue(t)
    \/ \E r \in Requests : Arrive(r) \/ Serve(r)
    \/ Tick
    \/ \E p \in Processes : Restart(p)

Spec == Init /\ [][Next]_vars

\* Time passes.
FairSpec == Spec /\ WF_vars(Tick)

-----------------------------------------------------------------------------
\* Types; what a process confirmed it has in its set, and it only ever revokes tokens
\* that were issued.
TypeOK ==
    /\ now \in 0..MaxTime
    /\ issued \in [Tokens -> {None} \cup [roles : SUBSET Roles, exp : Int]]
    /\ revoked \in [Processes -> SUBSET Tokens] /\ confirmed \in [Processes -> SUBSET Tokens]
    /\ req \in [Requests -> [stage : Flight \cup {"idle", "done", "401", "403"}, token : Tokens \cup {None},
                            wants : Roles \cup {"revoke"}, at : Processes \cup {None}]]
    /\ found \in [Requests -> SUBSET {"admit", "refuse"}]
    /\ \A p \in Processes : confirmed[p] \subseteq revoked[p] /\ \A t \in revoked[p] : issued[t] # None

\* A request gets past the checks, which take several steps, only if at one instant
\* since it arrived its token was alive and its process had not confirmed the token's
\* revocation: a revocation answered before a request arrives keeps it out.
AdmittedRightly ==
    \A r \in Requests : req[r].stage \in {"admitted", "done", "403"} => "admit" \in found[r]

\* A request is refused only if at one instant since it arrived it had no token, or the
\* token had expired or was in the set of its process.
RefusedRightly ==
    \A r \in Requests : req[r].stage = "401" => "refuse" \in found[r]

\* No token works for ever, even when a restart forgets that it was revoked.
TokensEnd == <>[][\A r \in Requests : req'[r].stage = "alive" => req[r].stage = "alive"]_vars
=============================================================================
