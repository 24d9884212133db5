---------------------------- MODULE OutboxProofs ----------------------------
(* What holds of the outbox for any writers, workers, messages and builds. *)
EXTENDS Outbox, WellFoundedInduction, TLAPS

LEMMA KeyFacts == KeyOf \in [Writers -> Keys] /\ Nobody \notin Keys \cup Dispatchers
BY NobodyAssumption DEF KeyOf, Keys

\* A worker remembers that the handlers took a message only while it marks it.
OkWhileMarking == \A d \in Dispatchers : worker[d].ok => worker[d].pc = "marking"

Types == TypeOK /\ OkWhileMarking

RowsOK(t) ==
    t \in [Keys -> Rows] /\ \A k \in Keys : t[k].owner = Nobody <=> t[k].lease = "none"

\* What the updates of a row keep: claim, mark, the two delays.
LEMMA RowSteps ==
    ASSUME NEW r \in Rows, r.owner = Nobody <=> r.lease = "none"
    PROVE  /\ \A d \in Dispatchers :
                LET q == [r EXCEPT !.owner = d, !.lease = "live"]
                IN  q \in Rows /\ q.owner # Nobody /\ q.lease # "none"
           /\ \A how \in Marks :
                LET q == Marked(r, how)
                IN  q \in Rows /\ (q.owner = Nobody <=> q.lease = "none")
           /\ r.lease = "live" =>
                LET q == [r EXCEPT !.lease = "over"]
                IN  q \in Rows /\ q.owner # Nobody /\ q.lease # "none"
           /\ LET q == [r EXCEPT !.due = TRUE]
              IN  q \in Rows /\ (q.owner = Nobody <=> q.lease = "none")
<1>1. \A d \in Dispatchers :
         LET q == [r EXCEPT !.owner = d, !.lease = "live"]
         IN  q \in Rows /\ q.owner # Nobody /\ q.lease # "none"
  BY KeyFacts DEF Rows
<1>2. ASSUME NEW how \in Marks
      PROVE  LET q == Marked(r, how) IN q \in Rows /\ (q.owner = Nobody <=> q.lease = "none")
  <2>1. CASE how = "sent" BY <2>1 DEF Rows, Marked
  <2>2. CASE how = "failed" BY <2>2 DEF Rows, Marked
  <2>3. CASE how = "none" BY <2>3 DEF Rows, Marked
  <2>4. QED BY <2>1, <2>2, <2>3 DEF Marks
<1>3. r.lease = "live" => LET q == [r EXCEPT !.lease = "over"]
                          IN  q \in Rows /\ q.owner # Nobody /\ q.lease # "none"
  BY DEF Rows
<1>4. LET q == [r EXCEPT !.due = TRUE] IN q \in Rows /\ (q.owner = Nobody <=> q.lease = "none")
  BY DEF Rows
<1>5. QED BY <1>1, <1>2, <1>3, <1>4

\* Hence of the table: a batch is leased, its marks are committed, a delay ends.
LEMMA TableSteps ==
    ASSUME RowsOK(row)
    PROVE  /\ \A d \in Dispatchers, S \in SUBSET Keys :
                RowsOK([k \in Keys |-> IF k \in S THEN [row[k] EXCEPT !.owner = d, !.lease = "live"]
                                       ELSE row[k]])
           /\ \A f \in [Keys -> Marks] : RowsOK([k \in Keys |-> Marked(row[k], f[k])])
           /\ \A k \in Keys : row[k].lease = "live" => RowsOK([row EXCEPT ![k].lease = "over"])
           /\ \A k \in Keys : RowsOK([row EXCEPT ![k].due = TRUE])
<1>1. \A k \in Keys : row[k] \in Rows /\ (row[k].owner = Nobody <=> row[k].lease = "none")
  BY DEF RowsOK
<1>2. ASSUME NEW d \in Dispatchers, NEW S \in SUBSET Keys
      PROVE  RowsOK([k \in Keys |-> IF k \in S THEN [row[k] EXCEPT !.owner = d, !.lease = "live"]
                                    ELSE row[k]])
  BY <1>1, RowSteps DEF RowsOK
<1>3. ASSUME NEW f \in [Keys -> Marks] PROVE RowsOK([k \in Keys |-> Marked(row[k], f[k])])
  <2>1. ASSUME NEW k \in Keys
        PROVE  /\ Marked(row[k], f[k]) \in Rows
               /\ Marked(row[k], f[k]).owner = Nobody <=> Marked(row[k], f[k]).lease = "none"
    <3>1. f[k] \in Marks OBVIOUS
    <3>2. QED BY <1>1, <3>1, RowSteps
  <2>2. QED BY <2>1 DEF RowsOK
<1>4. ASSUME NEW k \in Keys, row[k].lease = "live" PROVE RowsOK([row EXCEPT ![k].lease = "over"])
  BY <1>1, <1>4, RowSteps DEF RowsOK
<1>5. ASSUME NEW k \in Keys PROVE RowsOK([row EXCEPT ![k].due = TRUE])
  BY <1>1, RowSteps DEF RowsOK
<1>6. QED BY <1>2, <1>3, <1>4, <1>5

LEMMA InitTypes == Init => Types
BY KeyFacts, BatchAssumption, BuildsAssumption
   DEF Init, Types, TypeOK, OkWhileMarking, Rows, Sessions, Workers, Marks, Idle, Unmarked, Session

LEMMA WriteTypes ==
    ASSUME Types, NEW w \in Writers, Write(w)
    PROVE  Types'
<1> USE DEF Types, TypeOK, OkWhileMarking, table, producers, ghosts
<1>1. ASSUME NEW due \in BOOLEAN, Enqueue(w, due) PROVE Types'
  <2>1. writer' \in [Writers -> Sessions] /\ nextId' \in Nat
    BY <1>1 DEF Enqueue, Sessions
  <2>2. QED BY <1>1, <2>1 DEF Enqueue
<1>2. ASSUME FlushFails(w) PROVE Types'
  <2>1. writer' \in [Writers -> Sessions] BY <1>2 DEF FlushFails, Sessions, Session
  <2>2. QED BY <1>2, <2>1 DEF FlushFails
<1>3. ASSUME Commit(w) PROVE Types'
  <2>1. writer' \in [Writers -> Sessions] BY <1>3 DEF Commit, Sessions, Session, Ended
  <2>2. writer[w].id \in Nat /\ writer[w].due \in BOOLEAN BY DEF Sessions
  <2>3. row' \in [Keys -> Rows] BY <1>3, <2>2, KeyFacts DEF Commit, Rows
  <2>4. \A k \in Keys : row'[k].owner = Nobody <=> row'[k].lease = "none"
    BY <1>3, KeyFacts DEF Commit
  <2>5. QED BY <1>3, <2>1, <2>3, <2>4 DEF Commit
<1>4. ASSUME Abandon(w) PROVE Types'
  <2>1. writer' \in [Writers -> Sessions] BY <1>4 DEF Abandon, Sessions, Session, Ended
  <2>2. QED BY <1>4, <2>1 DEF Abandon
<1>5. QED BY <1>1, <1>2, <1>3, <1>4 DEF Write

LEMMA HandedType ==
    ASSUME Types, NEW d \in Dispatchers, NEW k \in worker[d].batch, NEW ok \in BOOLEAN,
           Handed(d, k, ok), worker[d].pc = "publishing", UNCHANGED mark
    PROVE  /\ worker' \in [Dispatchers -> Workers]
           /\ handed' \subseteq Keys /\ k \in Keys
           /\ OkWhileMarking'
           /\ \A e \in Dispatchers :
                /\ worker'[e].pc = "marking" <=> worker'[e].msg # Nobody
                /\ worker'[e].pc = "idle" => worker'[e] = Idle /\ mark'[e] = Unmarked
BY KeyFacts DEF Types, TypeOK, OkWhileMarking, Handed, Workers

LEMMA LoseType ==
    ASSUME Types, NEW d \in Dispatchers, Lose(d)
    PROVE  /\ worker' \in [Dispatchers -> Workers]
           /\ mark' \in [Dispatchers -> [Keys -> Marks]]
           /\ interrupted' \subseteq Keys
           /\ OkWhileMarking'
           /\ \A e \in Dispatchers :
                /\ worker'[e].pc = "marking" <=> worker'[e].msg # Nobody
                /\ worker'[e].pc = "idle" => worker'[e] = Idle /\ mark'[e] = Unmarked
<1> USE DEF Types, TypeOK, OkWhileMarking, Lose
<1>1. QED BY KeyFacts DEF Idle, Unmarked, Workers, Marks

LEMMA DispatchTypes ==
    ASSUME Types, NEW d \in Dispatchers, Work(d) \/ Abort(d)
    PROVE  Types'
<1> USE DEF Types, TypeOK, OkWhileMarking, table, producers, ghosts
<1>1. ASSUME Claim(d) PROVE Types'
  <2>1. PICK S \in Batches :
          /\ worker' = [worker EXCEPT ![d] = [Idle EXCEPT !.pc = "publishing", !.batch = S]]
          /\ row' = [k \in Keys |-> IF k \in S THEN [row[k] EXCEPT !.owner = d, !.lease = "live"]
                                    ELSE row[k]]
    BY <1>1 DEF Claim
  <2>2. S \in SUBSET Keys BY DEF Batches, Claimable
  <2>3. RowsOK(row) BY DEF RowsOK
  <2>4. RowsOK(row') BY <2>1, <2>2, <2>3, TableSteps
  <2>5. worker' \in [Dispatchers -> Workers] BY <2>1, <2>2 DEF Workers, Idle
  <2>6. \A e \in Dispatchers : worker'[e] = IF e = d THEN [Idle EXCEPT !.pc = "publishing", !.batch = S] ELSE worker[e]
    BY <2>1
  <2>7. QED BY <1>1, <2>4, <2>5, <2>6 DEF Claim, Idle, RowsOK
<1>2. ASSUME Publish(d) PROVE Types'
  <2>1. PICK k \in worker[d].batch : Handed(d, k, TRUE) /\ handled' = handled \cup {k}
    BY <1>2 DEF Publish
  <2>2. QED BY <1>2, <2>1, HandedType DEF Publish
<1>3. ASSUME HandlerFails(d) PROVE Types'
  <2>1. PICK k \in worker[d].batch : Handed(d, k, FALSE) BY <1>3 DEF HandlerFails
  <2>2. failures' \in 0..MaxFailures BY <1>3, BatchAssumption DEF HandlerFails
  <2>3. QED BY <1>3, <2>1, <2>2, HandedType DEF HandlerFails
<1>4. ASSUME Poison(d) PROVE Types' BY <1>4, LoseType DEF Poison
<1>5. ASSUME Mark(d) PROVE Types'
  <2>1. worker[d].msg \in Keys BY <1>5 DEF Mark, Workers
  <2>2. mark' \in [Dispatchers -> [Keys -> Marks]] BY <1>5, <2>1 DEF Mark, Marks
  <2>3. worker' \in [Dispatchers -> Workers] BY <1>5 DEF Mark, Workers
  <2>4. \A e \in Dispatchers \ {d} : worker'[e] = worker[e] /\ mark'[e] = mark[e] BY <1>5 DEF Mark
  <2>5. worker'[d].pc = "publishing" /\ worker'[d].msg = Nobody /\ ~worker'[d].ok
    BY <1>5 DEF Mark, Workers
  <2>6. QED BY <1>5, <2>2, <2>3, <2>4, <2>5 DEF Mark
<1>6. ASSUME Finish(d) PROVE Types'
  <2>1. mark[d] \in [Keys -> Marks] OBVIOUS
  <2>2. RowsOK(row) BY DEF RowsOK
  <2>3. RowsOK(row') BY <1>6, <2>1, <2>2, TableSteps DEF Finish
  <2>4. QED BY <1>6, <2>3 DEF Finish, Idle, Unmarked, Workers, Marks, RowsOK
<1>7. ASSUME Abort(d) PROVE Types'
  <2>1. aborts' \in 0..MaxAborts BY <1>7, BatchAssumption DEF Abort
  <2>2. QED BY <1>7, <2>1, LoseType DEF Abort
<1>8. QED BY <1>1, <1>2, <1>3, <1>4, <1>5, <1>6, <1>7 DEF Work

LEMMA TimeTypes ==
    ASSUME Types, NEW k \in Keys, LeaseEnds(k) \/ BackoffEnds(k)
    PROVE  Types'
<1> USE DEF Types, TypeOK, OkWhileMarking, table, producers, ghosts
<1>1. RowsOK(row) BY DEF RowsOK
<1>2. RowsOK(row') BY <1>1, TableSteps DEF LeaseEnds, BackoffEnds
<1>3. QED BY <1>2 DEF LeaseEnds, BackoffEnds, RowsOK

\* The table, the transactions and the workers stay well formed, for any number of
\* each; a lease has an owner and an owner a lease.
THEOREM TypeCorrect == Spec => []TypeOK
<1>1. Types /\ [Next]_vars => Types'
  <2> SUFFICES ASSUME Types, [Next]_vars PROVE Types' OBVIOUS
  <2>1. CASE UNCHANGED vars BY <2>1 DEF vars, Types, TypeOK, OkWhileMarking
  <2>2. CASE Next
    <3>1. ASSUME NEW d \in Dispatchers, Poll(d) PROVE Types'
      BY <3>1 DEF Poll, vars, Types, TypeOK, OkWhileMarking
    <3>2. QED BY <2>2, <3>1, WriteTypes, DispatchTypes, TimeTypes DEF Next
  <2>3. QED BY <2>1, <2>2
<1>2. QED BY InitTypes, <1>1, PTL DEF Spec, Types
-----------------------------------------------------------------------------
(* What each step does to the rows, the hands and the locks, key by key *)

LEMMA ClaimFields ==
    ASSUME Types, NEW d \in Dispatchers, Claim(d)
    PROVE  \E S \in SUBSET Claimable :
             /\ worker'[d].pc = "publishing" /\ worker'[d].batch = S
             /\ worker'[d].msg = Nobody /\ ~worker'[d].ok
             /\ \A e \in Dispatchers \ {d} : worker'[e] = worker[e]
             /\ mark[d] = Unmarked
             /\ \A k \in Keys : /\ row'[k].state = row[k].state
                                /\ k \in S => row'[k].lease = "live" /\ row'[k].owner = d
                                /\ k \notin S => row'[k] = row[k]
<1>1. PICK S \in Batches :
        /\ worker' = [worker EXCEPT ![d] = [Idle EXCEPT !.pc = "publishing", !.batch = S]]
        /\ row' = [k \in Keys |-> IF k \in S THEN [row[k] EXCEPT !.owner = d, !.lease = "live"]
                                  ELSE row[k]]
  BY DEF Claim
<1>2. \A k \in Keys : row[k] \in Rows BY DEF Types, TypeOK
<1>3. \A r \in Rows : LET q == [r EXCEPT !.owner = d, !.lease = "live"]
                      IN  q.state = r.state /\ q.lease = "live" /\ q.owner = d
  BY DEF Rows
<1>4. \A k \in Keys : /\ row'[k].state = row[k].state
                      /\ k \in S => row'[k].lease = "live" /\ row'[k].owner = d
                      /\ k \notin S => row'[k] = row[k]
  BY <1>1, <1>2, <1>3
<1>5. DOMAIN worker = Dispatchers BY DEF Types, TypeOK
<1>6. /\ worker'[d].pc = "publishing" /\ worker'[d].batch = S
      /\ worker'[d].msg = Nobody /\ ~worker'[d].ok
      /\ \A e \in Dispatchers \ {d} : worker'[e] = worker[e]
  BY <1>1, <1>5 DEF Idle
<1>7. mark[d] = Unmarked BY DEF Claim, Types, TypeOK
<1>8. S \in SUBSET Claimable BY DEF Batches
<1>9. QED BY <1>4, <1>6, <1>7, <1>8

LEMMA HandedFields ==
    ASSUME Types, NEW d \in Dispatchers, NEW k \in worker[d].batch, NEW ok \in BOOLEAN,
           Handed(d, k, ok)
    PROVE  /\ worker'[d].pc = "marking" /\ worker'[d].batch = worker[d].batch \ {k}
           /\ worker'[d].msg = k /\ (worker'[d].ok <=> ok)
           /\ \A e \in Dispatchers \ {d} : worker'[e] = worker[e]
           /\ k \in Keys
BY DEF Types, TypeOK, Workers, Handed

LEMMA MarkFields ==
    ASSUME Types, NEW d \in Dispatchers, Mark(d)
    PROVE  /\ worker'[d].batch = worker[d].batch
           /\ worker'[d].msg = Nobody /\ ~worker'[d].ok
           /\ \A e \in Dispatchers \ {d} : worker'[e] = worker[e] /\ mark'[e] = mark[e]
           /\ worker[d].msg \in Keys
           /\ mark'[d][worker[d].msg] = IF worker[d].ok THEN "sent" ELSE "failed"
           /\ \A k \in Keys \ {worker[d].msg} : mark'[d][k] = mark[d][k]
BY DEF Types, TypeOK, Workers, Mark

LEMMA IdleFields ==
    ASSUME Types, NEW d \in Dispatchers,
           worker' = [worker EXCEPT ![d] = Idle], mark' = [mark EXCEPT ![d] = Unmarked]
    PROVE  /\ worker'[d].pc = "idle" /\ worker'[d].batch = {}
           /\ worker'[d].msg = Nobody /\ ~worker'[d].ok
           /\ \A k \in Keys : mark'[d][k] = "none"
           /\ \A e \in Dispatchers \ {d} : worker'[e] = worker[e] /\ mark'[e] = mark[e]
BY DEF Types, TypeOK, Idle, Unmarked

LEMMA FinishFields ==
    ASSUME Types, NEW d \in Dispatchers, Finish(d), NEW k \in Keys
    PROVE  /\ mark[d][k] = "none" => row'[k] = row[k]
           /\ mark[d][k] = "sent" => row'[k].state = "sent"
           /\ mark[d][k] = "failed" => row'[k].state = row[k].state
           /\ k \in handed' <=> k \in handed /\ mark[d][k] # "failed"
<1>0. k \in handed' <=> k \in handed /\ mark[d][k] # "failed" BY DEF Finish
<1>1. row'[k] = Marked(row[k], mark[d][k]) /\ row[k] \in Rows BY DEF Finish, Types, TypeOK
<1>2. CASE mark[d][k] = "none" BY <1>0, <1>1, <1>2 DEF Marked
<1>3. CASE mark[d][k] = "sent" BY <1>0, <1>1, <1>3 DEF Marked, Rows
<1>4. CASE mark[d][k] = "failed" BY <1>0, <1>1, <1>4 DEF Marked, Rows
<1>5. mark[d][k] \in Marks BY DEF Types, TypeOK
<1>6. QED BY <1>2, <1>3, <1>4, <1>5 DEF Marks

LEMMA TimeFields ==
    ASSUME Types, NEW k \in Keys, LeaseEnds(k) \/ BackoffEnds(k)
    PROVE  /\ \A j \in Keys \ {k} : row'[j] = row[j]
           /\ row'[k].state = row[k].state
           /\ BackoffEnds(k) => row'[k].lease = row[k].lease /\ row'[k].owner = row[k].owner
<1>1. row \in [Keys -> Rows] /\ row[k] \in Rows BY DEF Types, TypeOK
<1>2. CASE LeaseEnds(k) /\ row[k].lease = "live"
  BY <1>1, <1>2, TimeTypes DEF LeaseEnds, BackoffEnds, Rows
<1>3. CASE BackoffEnds(k)
  BY <1>1, <1>3 DEF BackoffEnds, Rows
<1>4. QED BY <1>2, <1>3 DEF LeaseEnds
-----------------------------------------------------------------------------
(* Deliveries *)

\* What a worker has in hand is in the table; what it is about to mark sent, or has
\* marked sent, the handlers had.
HandOK ==
    /\ SentWasDelivered
    /\ \A d \in Dispatchers, k \in Keys :
         /\ Holds(d, k) => row[k].state # "absent"
         /\ mark[d][k] = "sent" => k \in handled
         /\ worker[d].msg = k /\ worker[d].ok => k \in handled

\* A message that was never interrupted is in the hands of the owner of its live
\* lease only, at one place there.  Once the handlers were given it, it is sent, or the
\* worker that gave it to them has yet to mark it or to commit the mark.
Clean(k) ==
    /\ k \in handed =>
         \/ row[k].state = "sent"
         \/ \E d \in Dispatchers : mark[d][k] # "none" \/ worker[d].msg = k
    /\ \A d \in Dispatchers :
         /\ Holds(d, k) => row[k].lease = "live" /\ row[k].owner = d /\ row[k].state = "pending"
         /\ k \in worker[d].batch => k \notin handed /\ worker[d].msg # k /\ mark[d][k] = "none"
         /\ worker[d].msg = k => mark[d][k] = "none"
OnceOK == \A k \in Keys \ interrupted : Clean(k)

Delivery == HandOK /\ OnceOK

LEMMA InitDelivery == Init => Delivery
BY KeyFacts DEF Init, Delivery, HandOK, OnceOK, Clean, SentWasDelivered, Holds, Idle, Unmarked

LEMMA ClaimDelivery ==
    ASSUME Types, Delivery, NEW d \in Dispatchers, Claim(d)
    PROVE  Delivery'
<1>1. PICK S \in SUBSET Claimable :
        /\ worker'[d].pc = "publishing" /\ worker'[d].batch = S
        /\ worker'[d].msg = Nobody /\ ~worker'[d].ok
        /\ \A e \in Dispatchers \ {d} : worker'[e] = worker[e]
        /\ mark[d] = Unmarked
        /\ \A j \in Keys : /\ row'[j].state = row[j].state
                           /\ j \in S => row'[j].lease = "live" /\ row'[j].owner = d
                           /\ j \notin S => row'[j] = row[j]
  BY ClaimFields
<1>2. \A k \in S : /\ k \in Keys /\ row[k].state = "pending" /\ row[k].lease # "live"
                   /\ \A e \in Dispatchers : mark[e][k] = "none"
  BY DEF Claimable, Locked
<1>3. /\ mark' = mark /\ handed' = handed /\ handled' = handled
      /\ interrupted' = interrupted
  BY DEF Claim, ghosts
<1>4. \A k \in Keys : mark[d][k] = "none" BY <1>1 DEF Unmarked
<1>5. worker[d].pc = "idle" BY DEF Claim
<1>6. worker[d] = Idle BY <1>5 DEF Types, TypeOK
<1>7. ASSUME NEW k \in Keys
      PROVE  /\ row'[k].state = row[k].state
             /\ k \in S => /\ row'[k].lease = "live" /\ row'[k].owner = d
                           /\ row[k].state = "pending" /\ row[k].lease # "live"
             /\ k \notin S => row'[k] = row[k]
             /\ Holds(d, k)' <=> k \in S
             /\ ~Holds(d, k)
             /\ worker'[d].msg # k
  <2>1. Holds(d, k)' <=> k \in S BY <1>1, <1>3, <1>4, KeyFacts DEF Holds
  <2>2. ~Holds(d, k) BY <1>4, <1>6, KeyFacts DEF Holds, Idle
  <2>3. worker'[d].msg # k BY <1>1, KeyFacts
  <2>4. k \in S => row[k].state = "pending" /\ row[k].lease # "live" BY <1>2
  <2>5. row'[k].state = row[k].state /\ (k \notin S => row'[k] = row[k])
    BY <1>1
  <2>6. k \in S => /\ row'[k].lease = "live" /\ row'[k].owner = d
                   /\ row[k].state = "pending" /\ row[k].lease # "live"
    BY <1>1, <2>4
  <2>7. QED BY <2>1, <2>2, <2>3, <2>5, <2>6
<1>8. ASSUME NEW e \in Dispatchers, e # d, NEW k \in Keys
      PROVE  /\ worker'[e] = worker[e]
             /\ Holds(e, k)' <=> Holds(e, k)
  BY <1>1, <1>3, <1>8 DEF Holds
<1>9. ASSUME NEW e \in Dispatchers, NEW k \in Keys
      PROVE  /\ Holds(e, k)' => row'[k].state # "absent"
             /\ mark'[e][k] = "sent" => k \in handled'
             /\ worker'[e].msg = k /\ worker'[e].ok => k \in handled'
  <2>1. mark[e][k] = "sent" => k \in handled BY DEF Delivery, HandOK
  <2>2. CASE e = d BY <1>3, <1>7, <2>1, <2>2
  <2>3. CASE e # d BY <1>3, <1>7, <1>8, <2>1, <2>3 DEF Delivery, HandOK
  <2>4. QED BY <2>2, <2>3
<1>10. SentWasDelivered' BY <1>3, <1>7 DEF Delivery, HandOK, SentWasDelivered
<1>11. ASSUME NEW k \in Keys \ interrupted PROVE Clean(k)'
  <2>1. Clean(k) BY DEF Delivery, OnceOK
  <2>2. CASE k \in S
    <3>1. row[k].lease # "live" /\ row[k].state = "pending" BY <1>7, <2>2
    <3>2. \A e \in Dispatchers : ~Holds(e, k) BY <2>1, <3>1 DEF Clean
    <3>3. k \notin handed BY <2>1, <3>1, <3>2 DEF Clean, Holds
    <3>4. ASSUME NEW e \in Dispatchers
          PROVE  /\ Holds(e, k)' => /\ row'[k].lease = "live" /\ row'[k].owner = e
                                    /\ row'[k].state = "pending"
                 /\ worker'[e].msg # k /\ mark'[e][k] = "none"
      <4>1. mark'[e][k] = "none" BY <1>3, <3>2 DEF Holds
      <4>2. CASE e = d BY <1>7, <2>2, <3>1, <4>1, <4>2
      <4>3. CASE e # d BY <1>8, <3>2, <4>1, <4>3 DEF Holds
      <4>4. QED BY <4>2, <4>3
    <3>5. QED BY <1>3, <3>3, <3>4 DEF Clean
  <2>3. CASE k \notin S
    <3>1. row'[k] = row[k] BY <1>7, <2>3
    <3>2. ~Holds(d, k)' /\ ~Holds(d, k) BY <1>7, <2>3
    <3>3. \A e \in Dispatchers : e # d => worker'[e] = worker[e] BY <1>1
    <3>4. QED BY <1>3, <2>1, <3>1, <3>2, <3>3 DEF Clean, Holds
  <2>4. QED BY <2>2, <2>3
<1>12. QED BY <1>3, <1>9, <1>10, <1>11 DEF Delivery, HandOK, OnceOK

\* publish, with the handlers' answer: the message goes from the batch into the hand.
LEMMA PublishDelivery ==
    ASSUME Types, Delivery, NEW d \in Dispatchers, Publish(d) \/ HandlerFails(d)
    PROVE  Delivery'
<1>1. PICK k \in worker[d].batch, ok \in BOOLEAN :
        Handed(d, k, ok) /\ handled' = IF ok THEN handled \cup {k} ELSE handled
  <2>1. CASE Publish(d) BY <2>1 DEF Publish
  <2>2. CASE HandlerFails(d) BY <2>2 DEF HandlerFails
  <2>3. QED BY <2>1, <2>2
<1>2. row' = row /\ mark' = mark /\ interrupted' = interrupted
  BY DEF Publish, HandlerFails, table
<1>3. /\ worker'[d].batch = worker[d].batch \ {k}
      /\ worker'[d].msg = k /\ (worker'[d].ok <=> ok)
      /\ \A e \in Dispatchers \ {d} : worker'[e] = worker[e]
      /\ k \in Keys
  BY <1>1, HandedFields
<1>4. worker[d].msg = Nobody /\ ~worker[d].ok
  BY DEF Publish, HandlerFails, Types, TypeOK, OkWhileMarking
<1>5. ASSUME NEW j \in Keys
      PROVE  /\ j # k => (j \in handed' <=> j \in handed)
             /\ j \in handled => j \in handled'
             /\ ok => k \in handled'
  BY <1>1 DEF Handed
<1>6. ASSUME NEW e \in Dispatchers, e # d PROVE worker'[e] = worker[e]
  BY <1>3, <1>6
<1>7. ASSUME NEW j \in Keys PROVE Holds(d, j)' <=> Holds(d, j)
  BY <1>2, <1>3, <1>4, KeyFacts DEF Holds
<1>8. ASSUME NEW e \in Dispatchers, NEW j \in Keys
      PROVE  /\ Holds(e, j)' => row'[j].state # "absent"
             /\ mark'[e][j] = "sent" => j \in handled'
             /\ worker'[e].msg = j /\ worker'[e].ok => j \in handled'
  <2>1. /\ Holds(e, j) => row[j].state # "absent"
        /\ mark[e][j] = "sent" => j \in handled
        /\ worker[e].msg = j /\ worker[e].ok => j \in handled
    BY DEF Delivery, HandOK
  <2>2. CASE e = d BY <1>2, <1>3, <1>5, <1>7, <2>1, <2>2
  <2>3. CASE e # d
    <3>1. worker'[e] = worker[e] BY <1>6, <2>3
    <3>2. Holds(e, j)' <=> Holds(e, j) BY <1>2, <3>1 DEF Holds
    <3>3. QED BY <1>2, <1>5, <2>1, <3>1, <3>2
  <2>4. QED BY <2>2, <2>3
<1>9. SentWasDelivered' BY <1>2, <1>5 DEF Delivery, HandOK, SentWasDelivered
<1>10. ASSUME NEW j \in Keys \ interrupted PROVE Clean(j)'
  <2>1. Clean(j) BY DEF Delivery, OnceOK
  <2>2. CASE j = k
    <3>1. Holds(d, k) BY DEF Holds
    <3>2. /\ row[k].lease = "live" /\ row[k].owner = d /\ row[k].state = "pending"
          /\ mark[d][k] = "none"
      BY <2>1, <2>2, <3>1 DEF Clean
    <3>3. \A e \in Dispatchers : e # d => ~Holds(e, k) BY <2>1, <2>2, <3>2 DEF Clean
    <3>5. ASSUME NEW e \in Dispatchers, e # d
          PROVE  k \notin worker'[e].batch /\ worker'[e].msg # k /\ mark'[e][k] = "none"
      BY <1>2, <1>6, <3>3, <3>5 DEF Holds
    <3>6. k \notin worker'[d].batch /\ mark'[d][k] = "none" /\ worker'[d].msg = k
      BY <1>2, <1>3, <3>2
    <3>7. QED BY <1>2, <1>3, <2>2, <3>2, <3>5, <3>6 DEF Clean, Holds
  <2>3. CASE j # k
    <3>1. j \in handed' <=> j \in handed BY <1>5, <2>3
    <3>2. ASSUME NEW e \in Dispatchers
          PROVE  /\ Holds(e, j)' <=> Holds(e, j)
                 /\ j \in worker'[e].batch <=> j \in worker[e].batch
                 /\ worker'[e].msg = j <=> worker[e].msg = j
                 /\ worker'[e].msg = j => (worker'[e].ok <=> worker[e].ok)
                 /\ mark'[e][j] = mark[e][j]
      <4>1. CASE e = d BY <1>2, <1>3, <1>4, <1>7, <2>3, <4>1, KeyFacts
      <4>2. CASE e # d BY <1>2, <1>6, <4>2 DEF Holds
      <4>3. QED BY <4>1, <4>2
    <3>3. QED BY <1>2, <2>1, <3>1, <3>2 DEF Clean
  <2>4. QED BY <2>2, <2>3
<1>11. QED BY <1>2, <1>8, <1>9, <1>10 DEF Delivery, HandOK, OnceOK

\* mark_sent, mark_failed: the message goes from the hand to the marks.
LEMMA MarkDelivery ==
    ASSUME Types, Delivery, NEW d \in Dispatchers, Mark(d)
    PROVE  Delivery'
<1> DEFINE k == worker[d].msg
<1>1. row' = row /\ handed' = handed /\ handled' = handled /\ interrupted' = interrupted
  BY DEF Mark, table, ghosts
<1>2. /\ worker'[d].batch = worker[d].batch
      /\ worker'[d].msg = Nobody /\ ~worker'[d].ok
      /\ \A e \in Dispatchers \ {d} : worker'[e] = worker[e] /\ mark'[e] = mark[e]
      /\ k \in Keys
      /\ mark'[d][k] = IF worker[d].ok THEN "sent" ELSE "failed"
      /\ \A j \in Keys \ {k} : mark'[d][j] = mark[d][j]
  BY MarkFields
<1> HIDE DEF k
<1>3. k = worker[d].msg BY DEF k
<1>4. ASSUME NEW e \in Dispatchers, NEW j \in Keys
      PROVE  /\ Holds(e, j)' <=> Holds(e, j)
             /\ j \in worker'[e].batch <=> j \in worker[e].batch
             /\ e # d \/ j # k => /\ (worker'[e].msg = j <=> worker[e].msg = j)
                                  /\ mark'[e][j] = mark[e][j]
             /\ e # d => worker'[e] = worker[e]
             /\ worker'[d].msg # j
  <2>1. CASE e = d BY <1>2, <1>3, <2>1, KeyFacts DEF Holds
  <2>2. CASE e # d BY <1>2, <2>2, KeyFacts DEF Holds
  <2>3. QED BY <2>1, <2>2
<1>5. ASSUME NEW e \in Dispatchers, NEW j \in Keys
      PROVE  /\ Holds(e, j)' => row'[j].state # "absent"
             /\ mark'[e][j] = "sent" => j \in handled'
             /\ worker'[e].msg = j /\ worker'[e].ok => j \in handled'
  <2>1. /\ Holds(e, j) => row[j].state # "absent"
        /\ mark[e][j] = "sent" => j \in handled
        /\ worker[e].msg = j /\ worker[e].ok => j \in handled
    BY DEF Delivery, HandOK
  <2>2. CASE e = d /\ j = k BY <1>1, <1>2, <1>3, <1>4, <2>1, <2>2
  <2>3. CASE e # d \/ j # k BY <1>1, <1>4, <2>1, <2>3
  <2>4. QED BY <2>2, <2>3
<1>6. SentWasDelivered' BY <1>1 DEF Delivery, HandOK, SentWasDelivered
<1>7. ASSUME NEW j \in Keys \ interrupted PROVE Clean(j)'
  <2>1. Clean(j) BY DEF Delivery, OnceOK
  <2>2. CASE j = k
    <3>1. Holds(d, k) BY <1>3 DEF Holds
    <3>2. /\ row[k].lease = "live" /\ row[k].owner = d /\ row[k].state = "pending"
          /\ k \notin worker[d].batch
      BY <1>3, <2>1, <2>2, <3>1 DEF Clean
    <3>3. \A e \in Dispatchers : e # d => ~Holds(e, k) BY <2>1, <2>2, <3>2 DEF Clean
    <3>4. ASSUME NEW e \in Dispatchers, e # d
          PROVE  k \notin worker'[e].batch /\ worker'[e].msg # k /\ mark'[e][k] = "none"
      BY <1>2, <3>3, <3>4 DEF Holds
    <3>5. k \notin worker'[d].batch /\ worker'[d].msg # k BY <1>2, <1>4, <3>2
    <3>6. mark'[d][k] # "none" BY <1>2
    <3>7. QED BY <1>1, <2>2, <3>2, <3>4, <3>5, <3>6 DEF Clean, Holds
  <2>3. CASE j # k
    <3>1. ASSUME NEW e \in Dispatchers
          PROVE  /\ Holds(e, j)' <=> Holds(e, j)
                 /\ j \in worker'[e].batch <=> j \in worker[e].batch
                 /\ worker'[e].msg = j <=> worker[e].msg = j
                 /\ worker'[e].msg = j => (worker'[e].ok <=> worker[e].ok)
                 /\ mark'[e][j] = mark[e][j]
      BY <1>3, <1>4, <2>3
    <3>2. QED BY <1>1, <2>1, <3>1 DEF Clean
  <2>4. QED BY <2>2, <2>3
<1>8. QED BY <1>1, <1>5, <1>6, <1>7 DEF Delivery, HandOK, OnceOK

\* The end of a batch: d lets go of everything; its marks are kept or lost.
LEMMA LetGo ==
    ASSUME Types, HandOK, NEW d \in Dispatchers,
           worker' = [worker EXCEPT ![d] = Idle], mark' = [mark EXCEPT ![d] = Unmarked],
           UNCHANGED handled,
           \A k \in Keys : /\ row'[k].state = "absent" <=> row[k].state = "absent"
                           /\ row'[k].state = "sent" => row[k].state = "sent" \/ mark[d][k] = "sent"
    PROVE  /\ HandOK'
           /\ \A e \in Dispatchers \ {d} : worker'[e] = worker[e] /\ mark'[e] = mark[e]
           /\ \A k \in Keys : /\ ~Holds(d, k)' /\ worker'[d].msg # k /\ ~worker'[d].ok
                              /\ mark'[d][k] = "none" /\ k \notin worker'[d].batch
<1>1. /\ worker'[d].batch = {} /\ worker'[d].msg = Nobody /\ ~worker'[d].ok
      /\ \A k \in Keys : mark'[d][k] = "none"
      /\ \A e \in Dispatchers \ {d} : worker'[e] = worker[e] /\ mark'[e] = mark[e]
  BY IdleFields
<1>2. ASSUME NEW k \in Keys
      PROVE  /\ ~Holds(d, k)' /\ worker'[d].msg # k /\ ~worker'[d].ok
             /\ mark'[d][k] = "none" /\ k \notin worker'[d].batch
  BY <1>1, KeyFacts DEF Holds
<1>3. ASSUME NEW e \in Dispatchers, NEW k \in Keys
      PROVE  /\ Holds(e, k)' => row'[k].state # "absent"
             /\ mark'[e][k] = "sent" => k \in handled'
             /\ worker'[e].msg = k /\ worker'[e].ok => k \in handled'
  <2>1. CASE e = d BY <1>2, <2>1
  <2>2. CASE e # d
    <3>1. worker'[e] = worker[e] /\ mark'[e] = mark[e] BY <1>1, <2>2
    <3>2. Holds(e, k)' <=> Holds(e, k) BY <3>1 DEF Holds
    <3>3. QED BY <3>1, <3>2 DEF HandOK
  <2>3. QED BY <2>1, <2>2
<1>4. SentWasDelivered' BY DEF HandOK, SentWasDelivered
<1>5. QED BY <1>1, <1>2, <1>3, <1>4 DEF HandOK

LEMMA FinishDelivery ==
    ASSUME Types, Delivery, NEW d \in Dispatchers, Finish(d)
    PROVE  Delivery'
<1>1. \A k \in Keys : /\ mark[d][k] = "none" => row'[k] = row[k]
                      /\ mark[d][k] = "sent" => row'[k].state = "sent"
                      /\ mark[d][k] = "failed" => row'[k].state = row[k].state
                      /\ k \in handed' <=> k \in handed /\ mark[d][k] # "failed"
  BY FinishFields
<1>2. \A k \in Keys : mark[d][k] \in Marks BY DEF Types, TypeOK
<1>3. ASSUME NEW k \in Keys
      PROVE  /\ row'[k].state = "absent" <=> row[k].state = "absent"
             /\ row'[k].state = "sent" => row[k].state = "sent" \/ mark[d][k] = "sent"
             /\ mark[d][k] # "none" => row[k].state # "absent"
  <2>1. mark[d][k] # "none" => row[k].state # "absent" BY DEF Delivery, HandOK, Holds
  <2>2. QED BY <1>1, <1>2, <2>1 DEF Marks
<1>4. /\ HandOK'
      /\ \A e \in Dispatchers \ {d} : worker'[e] = worker[e] /\ mark'[e] = mark[e]
      /\ \A k \in Keys : /\ ~Holds(d, k)' /\ worker'[d].msg # k /\ ~worker'[d].ok
                         /\ mark'[d][k] = "none" /\ k \notin worker'[d].batch
  BY <1>3, LetGo DEF Finish, Delivery
<1>5. interrupted' = interrupted BY DEF Finish
<1>6. ASSUME NEW k \in Keys \ interrupted PROVE Clean(k)'
  <2>1. Clean(k) BY DEF Delivery, OnceOK
  <2>2. ASSUME NEW e \in Dispatchers
        PROVE  /\ e # d => /\ worker'[e] = worker[e] /\ mark'[e] = mark[e]
                           /\ Holds(e, k)' <=> Holds(e, k)
               /\ e = d => /\ ~Holds(e, k)' /\ worker'[e].msg # k /\ k \notin worker'[e].batch
                           /\ mark'[e][k] = "none"
    BY <1>4 DEF Holds
  <2>3. worker[d].msg # k BY KeyFacts DEF Finish, Types, TypeOK
  <2>4. CASE mark[d][k] = "none"
    <3>1. row'[k] = row[k] BY <1>1, <2>4
    <3>2. \A e \in Dispatchers : mark[e][k] # "none" \/ worker[e].msg = k => e # d
      BY <2>3, <2>4
    <3>3. k \in handed' <=> k \in handed BY <1>1, <2>4
    <3>4. QED BY <2>1, <2>2, <3>1, <3>2, <3>3 DEF Clean
  <2>5. CASE mark[d][k] # "none"
    <3>1. Holds(d, k) BY <2>5 DEF Holds
    <3>2. \A e \in Dispatchers : ~Holds(e, k)'
      BY <2>1, <2>2, <3>1 DEF Clean
    <3>3. \A e \in Dispatchers : k \notin worker'[e].batch /\ worker'[e].msg # k /\ mark'[e][k] = "none"
      BY <3>2 DEF Holds
    <3>4. row'[k].state = "sent" \/ k \notin handed'
      BY <1>1, <1>2, <2>5 DEF Marks
    <3>5. QED BY <3>2, <3>3, <3>4, KeyFacts DEF Clean
  <2>6. QED BY <2>4, <2>5
<1>7. QED BY <1>4, <1>5, <1>6 DEF Delivery, OnceOK

LEMMA LoseDelivery ==
    ASSUME Types, Delivery, NEW d \in Dispatchers, Lose(d), row' = row,
           handed' = handed, handled' = handled
    PROVE  Delivery'
<1>1. /\ HandOK'
      /\ \A e \in Dispatchers \ {d} : worker'[e] = worker[e] /\ mark'[e] = mark[e]
      /\ \A k \in Keys : /\ ~Holds(d, k)' /\ worker'[d].msg # k /\ ~worker'[d].ok
                         /\ mark'[d][k] = "none" /\ k \notin worker'[d].batch
  BY LetGo DEF Lose, Delivery
<1>2. ASSUME NEW k \in Keys \ interrupted' PROVE Clean(k)'
  <2>1. k \notin interrupted /\ mark[d][k] = "none" /\ worker[d].msg # k
    BY <1>2 DEF Lose
  <2>2. Clean(k) BY <2>1 DEF Delivery, OnceOK
  <2>3. ASSUME NEW e \in Dispatchers
        PROVE  /\ e # d => /\ worker'[e] = worker[e] /\ mark'[e] = mark[e]
                           /\ Holds(e, k)' <=> Holds(e, k)
               /\ e = d => /\ ~Holds(e, k)' /\ worker'[e].msg # k /\ k \notin worker'[e].batch
                           /\ mark'[e][k] = "none"
    BY <1>1 DEF Holds
  <2>4. \A e \in Dispatchers : mark[e][k] # "none" \/ worker[e].msg = k => e # d
    BY <2>1
  <2>5. QED BY <2>2, <2>3, <2>4 DEF Clean
<1>3. QED BY <1>1, <1>2 DEF Delivery, OnceOK

LEMMA TimeDelivery ==
    ASSUME Types, Delivery, NEW k \in Keys, LeaseEnds(k) \/ BackoffEnds(k)
    PROVE  Delivery'
<1>1. worker' = worker /\ mark' = mark /\ handed' = handed /\ handled' = handled
  BY DEF LeaseEnds, BackoffEnds, ghosts
<1>2. \A j \in Keys : row'[j].state = row[j].state /\ (j # k => row'[j] = row[j])
  BY TimeFields
<1>3. \A d \in Dispatchers, j \in Keys : Holds(d, j)' <=> Holds(d, j) BY <1>1 DEF Holds
<1>4. HandOK' BY <1>1, <1>2, <1>3 DEF Delivery, HandOK, SentWasDelivered
<1>5. ASSUME NEW j \in Keys \ interrupted' PROVE Clean(j)'
  <2>1. j \notin interrupted BY <1>5 DEF LeaseEnds, BackoffEnds, ghosts
  <2>2. Clean(j) BY <2>1 DEF Delivery, OnceOK
  <2>3. \A d \in Dispatchers : Holds(d, j) => row'[j].lease = row[j].lease /\ row'[j].owner = row[j].owner
    <3>1. CASE j # k BY <1>2, <3>1
    <3>2. CASE j = k /\ BackoffEnds(k) BY <3>2, TimeFields
    <3>3. CASE j = k /\ LeaseEnds(k) BY <1>5, <3>3 DEF LeaseEnds
    <3>4. QED BY <3>1, <3>2, <3>3
  <2>4. QED BY <1>1, <1>2, <1>3, <2>2, <2>3 DEF Clean
<1>6. QED BY <1>4, <1>5 DEF Delivery, OnceOK

LEMMA WriteDelivery ==
    ASSUME Types, Delivery, NEW w \in Writers, Write(w),
           Commit(w) /\ "message" \in writer[w].writes => row[KeyOf[w]].state = "absent"
    PROVE  Delivery'
<1>1. /\ worker' = worker /\ mark' = mark /\ handed' = handed /\ handled' = handled
      /\ interrupted' = interrupted
  BY DEF Write, Enqueue, FlushFails, Commit, Abandon, ghosts
<1>2. ASSUME NEW k \in Keys
      PROVE  row'[k] = row[k] \/ (row[k].state = "absent" /\ row'[k].state = "pending")
  <2>1. CASE Commit(w)
    <3>1. row \in [Keys -> Rows] BY DEF Types, TypeOK
    <3>2. QED BY <2>1, <3>1 DEF Commit
  <2>2. CASE ~Commit(w) BY <2>2 DEF Write, Enqueue, FlushFails, Abandon, table
  <2>3. QED BY <2>1, <2>2
<1>3. \A d \in Dispatchers, k \in Keys : Holds(d, k)' <=> Holds(d, k) BY <1>1 DEF Holds
<1>4. \A d \in Dispatchers, k \in Keys : Holds(d, k) => row[k].state # "absent"
  BY DEF Delivery, HandOK
<1>5. HandOK' BY <1>1, <1>2, <1>3, <1>4 DEF Delivery, HandOK, SentWasDelivered
<1>6. ASSUME NEW k \in Keys \ interrupted PROVE Clean(k)'
  <2>1. Clean(k) BY DEF Delivery, OnceOK
  <2>2. QED BY <1>1, <1>2, <1>3, <1>4, <2>1 DEF Clean
<1>7. QED BY <1>1, <1>5, <1>6 DEF Delivery, OnceOK

-----------------------------------------------------------------------------
(* Writers *)

\* An open transaction holds its own rows from the start, and the message with them
\* or neither; at most one of those with the same message holds it, and then the
\* table does not.
WritersOK ==
    \A w \in Writers :
        /\ writer[w].pc = "begun" => writer[w].writes = {"own"}
        /\ writer[w].pc = "enqueued" => writer[w].writes \in {{}, {"own", "message"}}
        /\ writer[w].pc = "ended" => writer[w].writes = {}
        /\ w \in stored => writer[w].pc = "ended"
        /\ "message" \in writer[w].writes =>
             /\ row[KeyOf[w]].state = "absent"
             /\ \A v \in Writers \ {w} : KeyOf[v] = KeyOf[w] => "message" \notin writer[v].writes

Atomic == WritersOK /\ Together

LEMMA InitAtomic == Init => Atomic
BY KeyFacts DEF Init, Atomic, WritersOK, Together, Session

\* What happens to one writer's transaction, the table and `stored` apart.
LEMMA OwnStep ==
    ASSUME Types, Atomic, NEW w \in Writers, stored' = stored, row' = row,
           \/ \E due \in BOOLEAN : Enqueue(w, due)
           \/ FlushFails(w) \/ Abandon(w)
    PROVE  Atomic'
<1>1. /\ \A v \in Writers \ {w} : writer'[v] = writer[v]
      /\ w \notin stored
      /\ \/ writer'[w].pc = "ended" /\ writer'[w].writes = {}
         \/ writer'[w].pc = "enqueued" /\ writer'[w].writes = {}
         \/ /\ writer'[w].pc = "enqueued" /\ writer'[w].writes = {"own", "message"}
            /\ row[KeyOf[w]].state = "absent"
            /\ \A v \in Writers \ {w} : KeyOf[v] = KeyOf[w] => "message" \notin writer[v].writes
  <2>1. writer \in [Writers -> Sessions] BY DEF Types, TypeOK
  <2>2. w \notin stored
    BY DEF Atomic, WritersOK, Enqueue, FlushFails, Abandon
  <2>3. CASE \E due \in BOOLEAN : Enqueue(w, due)
    <3>1. PICK due \in BOOLEAN : Enqueue(w, due) BY <2>3
    <3>2. QED BY <2>1, <2>2, <3>1 DEF Enqueue, Reserved
  <2>4. CASE FlushFails(w) BY <2>1, <2>2, <2>4 DEF FlushFails, Session
  <2>5. CASE Abandon(w) BY <2>1, <2>2, <2>5 DEF Abandon, Ended, Session
  <2>6. QED BY <2>3, <2>4, <2>5
<1>2. Together' BY DEF Atomic, Together
<1>3. ASSUME NEW v \in Writers
      PROVE  /\ writer'[v].pc = "begun" => writer'[v].writes = {"own"}
             /\ writer'[v].pc = "enqueued" => writer'[v].writes \in {{}, {"own", "message"}}
             /\ writer'[v].pc = "ended" => writer'[v].writes = {}
             /\ v \in stored' => writer'[v].pc = "ended"
             /\ "message" \in writer'[v].writes => row'[KeyOf[v]].state = "absent"
  <2>1. CASE v = w BY <1>1, <2>1
  <2>2. CASE v # w
    <3>1. writer'[v] = writer[v] BY <1>1, <2>2
    <3>2. QED BY <3>1 DEF Atomic, WritersOK
  <2>3. QED BY <2>1, <2>2
<1>4. ASSUME NEW u \in Writers, NEW v \in Writers, u # v, KeyOf[v] = KeyOf[u],
             "message" \in writer'[u].writes, "message" \in writer'[v].writes
      PROVE  FALSE
  <2>1. CASE u = w
    <3>1. writer'[v] = writer[v] BY <1>1, <1>4, <2>1
    <3>2. QED BY <1>1, <1>4, <2>1, <3>1
  <2>2. CASE v = w
    <3>1. writer'[u] = writer[u] BY <1>1, <1>4, <2>2
    <3>2. QED BY <1>1, <1>4, <2>2, <3>1
  <2>3. CASE u # w /\ v # w
    <3>1. writer'[u] = writer[u] /\ writer'[v] = writer[v] BY <1>1, <2>3
    <3>2. QED BY <1>4, <3>1 DEF Atomic, WritersOK
  <2>4. QED BY <2>1, <2>2, <2>3
<1>5. QED BY <1>2, <1>3, <1>4 DEF Atomic, WritersOK

LEMMA CommitAtomic ==
    ASSUME Types, Atomic, NEW w \in Writers, Commit(w)
    PROVE  Atomic'
<1>1. /\ writer \in [Writers -> Sessions] /\ row \in [Keys -> Rows] /\ stored \subseteq Writers
      /\ KeyOf[w] \in Keys
  BY KeyFacts DEF Types, TypeOK
<1>2. /\ writer'[w].pc = "ended" /\ writer'[w].writes = {}
      /\ \A v \in Writers \ {w} : writer'[v] = writer[v]
  BY <1>1 DEF Commit, Ended, Session
<1>3. w \notin stored BY DEF Commit, Atomic, WritersOK
<1>4. CASE writer[w].writes = {}
  <2>1. stored' = stored /\ row' = row BY <1>4 DEF Commit
  <2>2. Together' BY <2>1 DEF Atomic, Together
  <2>3. ASSUME NEW v \in Writers
        PROVE  v = w \/ writer'[v] = writer[v]
    BY <1>2
  <2>4. WritersOK' BY <1>2, <1>3, <2>1, <2>3 DEF Atomic, WritersOK
  <2>5. QED BY <2>2, <2>4 DEF Atomic
<1>5. CASE writer[w].writes = {"own", "message"}
  <2>1. stored' = stored \cup {w} BY <1>5 DEF Commit
  <2>2. /\ row'[KeyOf[w]].state = "pending"
        /\ \A k \in Keys \ {KeyOf[w]} : row'[k] = row[k]
    BY <1>1, <1>5 DEF Commit
  <2>3. /\ row[KeyOf[w]].state = "absent"
        /\ \A v \in Writers \ {w} : KeyOf[v] = KeyOf[w] => "message" \notin writer[v].writes
    BY <1>5 DEF Atomic, WritersOK
  <2>4. Together'
    <3> SUFFICES ASSUME NEW k \in Keys
                 PROVE  IF row'[k].state = "absent" THEN {v \in stored' : KeyOf[v] = k} = {}
                        ELSE \E v \in Writers : {u \in stored' : KeyOf[u] = k} = {v}
      BY DEF Together
    <3>1. CASE k = KeyOf[w]
      <4>1. {v \in stored : KeyOf[v] = k} = {} BY <2>3, <3>1 DEF Atomic, Together
      <4>2. {u \in stored' : KeyOf[u] = k} = {w} BY <2>1, <3>1, <4>1
      <4>3. QED BY <2>2, <3>1, <4>2
    <3>2. CASE k # KeyOf[w]
      <4>1. {u \in stored' : KeyOf[u] = k} = {u \in stored : KeyOf[u] = k} BY <2>1, <3>2
      <4>2. row'[k] = row[k] BY <2>2, <3>2
      <4>3. QED BY <4>1, <4>2 DEF Atomic, Together
    <3>3. QED BY <3>1, <3>2
  <2>5. WritersOK'
    <3>1. ASSUME NEW v \in Writers, v # w, "message" \in writer'[v].writes
          PROVE  KeyOf[v] # KeyOf[w] /\ row'[KeyOf[v]] = row[KeyOf[v]]
      <4>1. writer'[v] = writer[v] /\ KeyOf[v] \in Keys BY <1>2, <3>1, KeyFacts
      <4>2. KeyOf[v] # KeyOf[w] BY <2>3, <3>1, <4>1
      <4>3. QED BY <2>2, <4>1, <4>2
    <3>2. ASSUME NEW v \in Writers PROVE v = w \/ writer'[v] = writer[v] BY <1>2
    <3>3. QED BY <1>2, <2>1, <3>1, <3>2 DEF Atomic, WritersOK
  <2>6. QED BY <2>4, <2>5 DEF Atomic
<1>6. QED BY <1>4, <1>5 DEF Commit, Atomic, WritersOK

LEMMA RestAtomic ==
    ASSUME Atomic, writer' = writer, stored' = stored,
           \A k \in Keys : row'[k].state = "absent" <=> row[k].state = "absent"
    PROVE  Atomic'
<1>1. \A w \in Writers : KeyOf[w] \in Keys BY KeyFacts
<1>2. QED BY <1>1 DEF Atomic, WritersOK, Together

-----------------------------------------------------------------------------
(* The order of the ids *)

\* The sequence numbers every row once, open transactions included.
IdsOK ==
    /\ \A k \in Keys : row[k].state # "absent" =>
         /\ row[k].id < nextId
         /\ \A j \in Keys \ {k} : row[j].state # "absent" => row[j].id # row[k].id
    /\ \A w \in Writers : "message" \in writer[w].writes =>
         /\ writer[w].id < nextId
         /\ \A k \in Keys : row[k].state # "absent" => row[k].id # writer[w].id
         /\ \A v \in Writers \ {w} : "message" \in writer[v].writes => writer[v].id # writer[w].id

Ahead(d, k) == worker[d].msg = k \/ k \in worker[d].batch

\* A worker goes through its batch by id: what it has marked comes before what it has
\* in hand, and that before the rest.
Ascending ==
    \A d \in Dispatchers, k, j \in Keys :
        /\ mark[d][k] # "none" /\ Ahead(d, j) => row[k].id < row[j].id
        /\ worker[d].msg = k /\ j \in worker[d].batch => row[k].id < row[j].id

Ordered == IdsOK /\ Ascending

LEMMA InitOrdered == Init => Ordered
BY KeyFacts DEF Init, Ordered, IdsOK, Ascending, Ahead, Idle, Unmarked, Session

\* Rows keep their ids, and stay in the table or out of it, whatever the workers and
\* time do.
LEMMA SameIds ==
    ASSUME Types, Delivery,
           \/ \E d \in Dispatchers : Work(d) \/ Abort(d)
           \/ \E k \in Keys : LeaseEnds(k) \/ BackoffEnds(k)
    PROVE  \A k \in Keys : /\ row'[k].id = row[k].id
                           /\ row'[k].state = "absent" <=> row[k].state = "absent"
<1>1. \A k \in Keys : row[k] \in Rows BY DEF Types, TypeOK
<1>2. ASSUME NEW d \in Dispatchers, Claim(d), NEW k \in Keys
      PROVE  row'[k].id = row[k].id /\ row'[k].state = row[k].state
  <2>1. \/ row'[k] = row[k]
        \/ row'[k] = [row[k] EXCEPT !.owner = d, !.lease = "live"]
    BY <1>2 DEF Claim
  <2>2. QED BY <1>1, <2>1 DEF Rows
<1>3. ASSUME NEW d \in Dispatchers, Finish(d), NEW k \in Keys
      PROVE  row'[k].id = row[k].id /\ (row'[k].state = "absent" <=> row[k].state = "absent")
  <2>1. row'[k] = Marked(row[k], mark[d][k]) /\ mark[d][k] \in Marks
    BY <1>3 DEF Finish, Types, TypeOK
  <2>2. mark[d][k] # "none" => row[k].state # "absent" BY DEF Delivery, HandOK, Holds
  <2>3. CASE mark[d][k] = "none" BY <2>1, <2>3 DEF Marked
  <2>4. CASE mark[d][k] = "sent" BY <1>1, <2>1, <2>2, <2>4 DEF Marked, Rows
  <2>5. CASE mark[d][k] = "failed" BY <1>1, <2>1, <2>2, <2>5 DEF Marked, Rows
  <2>6. QED BY <2>1, <2>3, <2>4, <2>5 DEF Marks
<1>4. ASSUME NEW j \in Keys, LeaseEnds(j) \/ BackoffEnds(j), NEW k \in Keys
      PROVE  row'[k].id = row[k].id /\ row'[k].state = row[k].state
  <2>1. row \in [Keys -> Rows] BY DEF Types, TypeOK
  <2>2. CASE LeaseEnds(j) BY <1>1, <2>1, <2>2 DEF LeaseEnds, Rows
  <2>3. CASE BackoffEnds(j) BY <1>1, <2>1, <2>3 DEF BackoffEnds, Rows
  <2>4. QED BY <1>4, <2>2, <2>3
<1>5. ASSUME NEW d \in Dispatchers,
             Publish(d) \/ HandlerFails(d) \/ Poison(d) \/ Mark(d) \/ Abort(d)
      PROVE  row' = row
  BY <1>5 DEF Publish, HandlerFails, Poison, Mark, Abort, table
<1>6. QED BY <1>2, <1>3, <1>4, <1>5 DEF Work

LEMMA RestIds ==
    ASSUME IdsOK, writer' = writer, nextId' = nextId,
           \A k \in Keys : /\ row'[k].id = row[k].id
                           /\ row'[k].state = "absent" <=> row[k].state = "absent"
    PROVE  IdsOK'
BY DEF IdsOK

LEMMA WriteIds ==
    ASSUME Types, Atomic, IdsOK, NEW w \in Writers, Write(w)
    PROVE  IdsOK'
<1>1. /\ writer \in [Writers -> Sessions] /\ row \in [Keys -> Rows] /\ nextId \in Nat
      /\ KeyOf[w] \in Keys
      /\ \A v \in Writers : writer[v].id \in Nat
      /\ \A k \in Keys : row[k].id \in Nat
  BY KeyFacts DEF Types, TypeOK, Sessions, Rows
<1>2. ASSUME NEW due \in BOOLEAN, Enqueue(w, due) PROVE IdsOK'
  <2>1. /\ writer'[w].id = nextId
        /\ \A v \in Writers \ {w} : writer'[v] = writer[v]
        /\ nextId' = nextId + 1 /\ row' = row
    BY <1>1, <1>2 DEF Enqueue
  <2>2. \A k \in Keys : row[k].state # "absent" => row[k].id < nextId /\ row[k].id # nextId
    BY <1>1 DEF IdsOK
  <2>3. \A v \in Writers : "message" \in writer[v].writes => writer[v].id < nextId /\ writer[v].id # nextId
    BY <1>1 DEF IdsOK
  <2>4. ASSUME NEW v \in Writers, "message" \in writer'[v].writes
        PROVE  /\ writer'[v].id < nextId'
               /\ \A k \in Keys : row'[k].state # "absent" => row'[k].id # writer'[v].id
               /\ \A u \in Writers \ {v} : "message" \in writer'[u].writes => writer'[u].id # writer'[v].id
    <3>1. CASE v = w
      <4>1. \A u \in Writers \ {v} : writer'[u] = writer[u] BY <2>1, <3>1
      <4>2. QED BY <1>1, <2>1, <2>2, <2>3, <3>1, <4>1
    <3>2. CASE v # w
      <4>1. writer'[v] = writer[v] BY <2>1, <3>2
      <4>2. writer[v].id < nextId BY <2>3, <2>4, <4>1
      <4>3. ASSUME NEW u \in Writers \ {v}, "message" \in writer'[u].writes
            PROVE  writer'[u].id # writer'[v].id
        <5>1. CASE u = w BY <1>1, <2>1, <4>1, <4>2, <5>1
        <5>2. CASE u # w
          <6>1. writer'[u] = writer[u] BY <2>1, <5>2
          <6>2. QED BY <2>4, <4>1, <4>3, <6>1 DEF IdsOK
        <5>3. QED BY <5>1, <5>2
      <4>4. QED BY <1>1, <2>1, <2>4, <4>1, <4>2, <4>3 DEF IdsOK
    <3>3. QED BY <3>1, <3>2
  <2>5. QED BY <1>1, <2>1, <2>2, <2>4 DEF IdsOK
<1>3. ASSUME FlushFails(w) \/ Abandon(w) PROVE IdsOK'
  <2>1. /\ "message" \notin writer'[w].writes
        /\ \A v \in Writers \ {w} : writer'[v] = writer[v]
        /\ row' = row /\ nextId' = nextId
    BY <1>1, <1>3 DEF FlushFails, Abandon, Ended, Session, table
  <2>2. QED BY <2>1 DEF IdsOK
<1>4. ASSUME Commit(w) PROVE IdsOK'
  <2>1. /\ "message" \notin writer'[w].writes
        /\ \A v \in Writers \ {w} : writer'[v] = writer[v]
        /\ nextId' = nextId
    BY <1>1, <1>4 DEF Commit, Ended, Session
  <2>2. CASE "message" \notin writer[w].writes
    <3>1. row' = row BY <1>4, <2>2 DEF Commit
    <3>2. QED BY <2>1, <3>1 DEF IdsOK
  <2>3. CASE "message" \in writer[w].writes
    <3>1. /\ row'[KeyOf[w]].id = writer[w].id
          /\ \A k \in Keys \ {KeyOf[w]} : row'[k] = row[k]
      BY <1>1, <1>4, <2>3 DEF Commit
    <3>2. /\ writer[w].id < nextId
          /\ \A k \in Keys : row[k].state # "absent" => row[k].id # writer[w].id
          /\ \A v \in Writers \ {w} : "message" \in writer[v].writes => writer[v].id # writer[w].id
      BY <2>3 DEF IdsOK
    <3>3. ASSUME NEW k \in Keys, row'[k].state # "absent"
          PROVE  /\ row'[k].id < nextId'
                 /\ \A j \in Keys \ {k} : row'[j].state # "absent" => row'[j].id # row'[k].id
      <4>1. CASE k = KeyOf[w] BY <2>1, <3>1, <3>2, <4>1
      <4>2. CASE k # KeyOf[w]
        <5>1. row'[k] = row[k] BY <3>1, <4>2
        <5>2. ASSUME NEW j \in Keys \ {k}, row'[j].state # "absent" PROVE row'[j].id # row'[k].id
          <6>1. CASE j = KeyOf[w] BY <3>1, <3>2, <3>3, <5>1, <6>1
          <6>2. CASE j # KeyOf[w] BY <3>1, <3>3, <5>1, <5>2, <6>2 DEF IdsOK
          <6>3. QED BY <6>1, <6>2
        <5>3. QED BY <2>1, <3>3, <5>1, <5>2 DEF IdsOK
      <4>3. QED BY <4>1, <4>2
    <3>4. ASSUME NEW v \in Writers, "message" \in writer'[v].writes
          PROVE  /\ writer'[v] = writer[v] /\ v # w
                 /\ \A k \in Keys : row'[k].state # "absent" => row'[k].id # writer[v].id
      <4>1. writer'[v] = writer[v] /\ v # w BY <2>1, <3>4
      <4>2. ASSUME NEW k \in Keys, row'[k].state # "absent" PROVE row'[k].id # writer[v].id
        <5>1. CASE k = KeyOf[w] BY <3>1, <3>2, <3>4, <4>1, <5>1
        <5>2. CASE k # KeyOf[w] BY <3>1, <3>4, <4>1, <4>2, <5>2 DEF IdsOK
        <5>3. QED BY <5>1, <5>2
      <4>3. QED BY <4>1, <4>2
    <3>5. \A v \in Writers : "message" \in writer'[v].writes =>
            /\ writer'[v].id < nextId'
            /\ \A u \in Writers \ {v} : "message" \in writer'[u].writes => writer'[u].id # writer'[v].id
      BY <2>1, <3>4 DEF IdsOK
    <3>6. QED BY <3>3, <3>4, <3>5 DEF IdsOK
  <2>4. QED BY <2>2, <2>3
<1>5. QED BY <1>2, <1>3, <1>4 DEF Write

\* The batch may only shrink from the front, and marks follow it.
LEMMA WorkAscending ==
    ASSUME Types, Delivery, IdsOK, Ascending, NEW d \in Dispatchers, Work(d) \/ Abort(d)
    PROVE  Ascending'
<1>1. \A k \in Keys : row'[k].id = row[k].id BY SameIds
<1>2. SUFFICES ASSUME NEW k \in Keys, NEW j \in Keys
               PROVE  /\ mark'[d][k] # "none" /\ Ahead(d, j)' => row[k].id < row[j].id
                      /\ worker'[d].msg = k /\ j \in worker'[d].batch => row[k].id < row[j].id
  <2>1. \A e \in Dispatchers \ {d} : worker'[e] = worker[e] /\ mark'[e] = mark[e]
    <3>1. worker \in [Dispatchers -> Workers] /\ mark \in [Dispatchers -> [Keys -> Marks]]
      BY DEF Types, TypeOK
    <3>2. QED BY <3>1 DEF Work, Claim, Publish, HandlerFails, Handed, Poison, Mark, Finish, Abort, Lose
  <2>2. QED BY <1>1, <1>2, <2>1 DEF Ascending, Ahead
<1>3. /\ mark[d][k] # "none" /\ Ahead(d, j) => row[k].id < row[j].id
      /\ worker[d].msg = k /\ j \in worker[d].batch => row[k].id < row[j].id
  BY DEF Ascending
<1>4. CASE Claim(d)
  <2>1. worker'[d].msg = Nobody /\ mark[d] = Unmarked /\ mark' = mark BY <1>4, ClaimFields DEF Claim
  <2>2. QED BY <2>1, KeyFacts DEF Unmarked
<1>5. CASE Publish(d) \/ HandlerFails(d)
  <2>1. PICK i \in worker[d].batch, ok \in BOOLEAN :
          /\ First(i, worker[d].batch)
          /\ Handed(d, i, ok)
    BY <1>5 DEF Publish, HandlerFails
  <2>2. /\ worker'[d].batch = worker[d].batch \ {i} /\ worker'[d].msg = i /\ i \in Keys
        /\ mark' = mark
    BY <1>5, <2>1, HandedFields DEF Publish, HandlerFails
  <2>3. Ahead(d, j)' => Ahead(d, j) BY <2>2 DEF Ahead
  <2>4. ASSUME j \in worker'[d].batch PROVE row[i].id < row[j].id
    <3>1. row[i].id <= row[j].id /\ i # j BY <2>1, <2>2, <2>4 DEF First
    <3>2. row[i].state # "absent" /\ row[j].state # "absent"
      BY <2>2, <2>4 DEF Delivery, HandOK, Holds
    <3>3. row[i].id # row[j].id BY <2>2, <3>1, <3>2 DEF IdsOK
    <3>4. row[i].id \in Nat /\ row[j].id \in Nat BY <2>2 DEF Types, TypeOK, Rows
    <3>5. QED BY <3>1, <3>3, <3>4
  <2>5. QED BY <1>3, <2>2, <2>3, <2>4
<1>6. CASE Mark(d)
  <2>1. /\ worker'[d].batch = worker[d].batch /\ worker'[d].msg = Nobody
        /\ worker[d].msg \in Keys
        /\ k # worker[d].msg => mark'[d][k] = mark[d][k]
    BY <1>6, MarkFields
  <2>2. Ahead(d, j)' => j \in worker[d].batch /\ Ahead(d, j) BY <2>1, KeyFacts DEF Ahead
  <2>3. QED BY <1>3, <2>1, <2>2, KeyFacts
<1>7. CASE Finish(d) \/ Poison(d) \/ Abort(d)
  <2>1. worker'[d].batch = {} /\ mark'[d][k] = "none"
    BY <1>7, IdleFields DEF Finish, Poison, Abort, Lose
  <2>2. QED BY <2>1
<1>8. QED BY <1>4, <1>5, <1>6, <1>7 DEF Work

LEMMA OrderedStep ==
    ASSUME Types, Delivery, Atomic, Ordered, [Next]_vars
    PROVE  Ordered'
<1>1. ASSUME NEW w \in Writers, Write(w) PROVE Ordered'
  <2>1. worker' = worker /\ mark' = mark
    BY <1>1 DEF Write, Enqueue, FlushFails, Commit, Abandon
  <2>2. ASSUME NEW k \in Keys, row[k].state # "absent" PROVE row'[k] = row[k]
    <3>1. CASE Commit(w)
      <4>1. "message" \in writer[w].writes => KeyOf[w] # k BY <2>2 DEF Atomic, WritersOK
      <4>2. row \in [Keys -> Rows] BY DEF Types, TypeOK
      <4>3. QED BY <3>1, <4>1, <4>2 DEF Commit
    <3>2. CASE ~Commit(w) BY <1>1, <3>2 DEF Write, Enqueue, FlushFails, Abandon, table
    <3>3. QED BY <3>1, <3>2
  <2>3. \A d \in Dispatchers, k \in Keys : Holds(d, k) => row'[k] = row[k]
    BY <2>2 DEF Delivery, HandOK
  <2>4. Ascending' BY <2>1, <2>3 DEF Ordered, Ascending, Ahead, Holds
  <2>5. QED BY <1>1, <2>4, WriteIds DEF Ordered
<1>2. ASSUME NEW d \in Dispatchers, Work(d) \/ Abort(d) PROVE Ordered'
  <2>1. writer' = writer /\ nextId' = nextId
    BY <1>2 DEF Work, Claim, Publish, HandlerFails, Poison, Mark, Finish, Abort, producers, table
  <2>2. IdsOK' BY <1>2, <2>1, SameIds, RestIds DEF Ordered
  <2>3. QED BY <1>2, <2>2, WorkAscending DEF Ordered
<1>3. ASSUME NEW i \in Keys, LeaseEnds(i) \/ BackoffEnds(i) PROVE Ordered'
  <2>1. /\ writer' = writer /\ nextId' = nextId /\ worker' = worker /\ mark' = mark
    BY <1>3 DEF LeaseEnds, BackoffEnds, producers
  <2>2. \A k \in Keys : row'[k].id = row[k].id BY <1>3, SameIds
  <2>3. IdsOK' BY <1>3, <2>1, SameIds, RestIds DEF Ordered
  <2>4. Ascending' BY <2>1, <2>2 DEF Ordered, Ascending, Ahead
  <2>5. QED BY <2>3, <2>4 DEF Ordered
<1>4. ASSUME UNCHANGED vars PROVE Ordered'
  BY <1>4 DEF vars, Ordered, IdsOK, Ascending, Ahead
<1>5. QED BY <1>1, <1>2, <1>3, <1>4 DEF Next, Poll

\* A set of naturals has a least element.
LEMMA LeastNat ==
    ASSUME NEW T \in SUBSET Nat, T # {}
    PROVE  \E x \in T : \A y \in T : x <= y
<1>1. IsWellFoundedOn({ss \in Nat \X Nat : ss[1] < ss[2]}, Nat)
  BY NatLessThanWellFounded DEF OpToRel
<1>2. T \subseteq Nat OBVIOUS
<1>3. PICK x \in T : \A y \in T : <<y, x>> \notin {ss \in Nat \X Nat : ss[1] < ss[2]}
  BY <1>1, <1>2, WFMin, Zenon
<1>4. ASSUME NEW y \in T PROVE x <= y
  <2>1. x \in Nat /\ y \in Nat OBVIOUS
  <2>2. ~ (y < x) BY <1>3, <2>1
  <2>3. QED BY <2>1, <2>2
<1>5. QED BY <1>4

\* Of workers that wait for each other, the one whose message has the greatest id
\* waits for nobody: who holds the lock has gone on to a message of a greater id.
LEMMA LastWaitsForNone ==
    ASSUME Types, Delivery, Ordered, NEW S \in SUBSET Dispatchers, S # {},
           \A d \in S : \E e \in S \ {d} : WaitsFor(d, e)
    PROVE  FALSE
<1> DEFINE id(d) == row[worker[d].msg].id
           left(d) == nextId - id(d)
<1>1. ASSUME NEW d \in S PROVE left(d) \in Nat
  <2>1. worker[d].pc = "marking" BY DEF WaitsFor
  <2>2. worker[d].msg \in Keys BY <2>1 DEF Types, TypeOK, Workers
  <2>3. row[worker[d].msg].state # "absent" BY <2>2 DEF Delivery, HandOK, Holds
  <2>4. id(d) < nextId BY <2>2, <2>3 DEF Ordered, IdsOK
  <2>5. id(d) \in Nat /\ nextId \in Nat BY <2>2 DEF Types, TypeOK, Rows
  <2>6. QED BY <2>4, <2>5
<1>2. PICK d \in S : \A e \in S : left(d) <= left(e)
  <2> DEFINE T == {left(d) : d \in S}
  <2>1. T \in SUBSET Nat /\ T # {} BY <1>1
  <2> HIDE DEF T
  <2>2. PICK x \in T : \A y \in T : x <= y BY <2>1, LeastNat
  <2>3. QED BY <2>2 DEF T
<1>3. PICK e \in S \ {d} : WaitsFor(d, e) OBVIOUS
<1>4. worker[d].msg \in Keys /\ worker[e].msg \in Keys
  BY <1>3 DEF WaitsFor, Types, TypeOK, Workers
<1>5. id(d) < id(e) BY <1>3, <1>4 DEF WaitsFor, Ordered, Ascending, Ahead
<1>6. id(d) \in Nat /\ id(e) \in Nat /\ nextId \in Nat BY <1>4 DEF Types, TypeOK, Rows
<1>7. left(d) <= left(e) BY <1>2, <1>3
<1>8. QED BY <1>5, <1>6, <1>7

-----------------------------------------------------------------------------
Core == Types /\ Delivery /\ Atomic

LEMMA CoreInductive == Core /\ [Next]_vars => Core'
<1> SUFFICES ASSUME Core, [Next]_vars PROVE Core' OBVIOUS
<1>1. Types /\ Delivery /\ Atomic BY DEF Core
<1>2. ASSUME UNCHANGED vars PROVE Core'
  BY <1>2 DEF vars, Core, Types, TypeOK, OkWhileMarking, Delivery, HandOK, OnceOK, Clean, Holds,
              SentWasDelivered, Atomic, WritersOK, Together
<1>3. ASSUME NEW w \in Writers, Write(w) PROVE Core'
  <2>1. Types' BY <1>1, <1>3, WriteTypes
  <2>2. "message" \in writer[w].writes => row[KeyOf[w]].state = "absent"
    BY <1>1 DEF Atomic, WritersOK
  <2>3. Delivery' BY <1>1, <1>3, <2>2, WriteDelivery
  <2>4. CASE Commit(w) BY <1>1, <2>1, <2>3, <2>4, CommitAtomic DEF Core
  <2>5. CASE ~Commit(w)
    <3>1. row' = row /\ stored' = stored
      BY <1>3, <2>5 DEF Write, Enqueue, FlushFails, Abandon, table
    <3>2. Atomic' BY <1>1, <1>3, <2>5, <3>1, OwnStep DEF Write
    <3>3. QED BY <2>1, <2>3, <3>2 DEF Core
  <2>6. QED BY <2>4, <2>5
<1>4. ASSUME NEW d \in Dispatchers, Work(d) \/ Abort(d) PROVE Core'
  <2>1. Types' BY <1>1, <1>4, DispatchTypes
  <2>2. writer' = writer /\ stored' = stored
    BY <1>4 DEF Work, Claim, Publish, HandlerFails, Poison, Mark, Finish, Abort, producers
  <2>3. ASSUME Claim(d) PROVE Core'
    <3>1. \A k \in Keys : row'[k].state = row[k].state BY <1>1, <2>3, ClaimFields
    <3>2. Atomic' BY <1>1, <2>2, <3>1, RestAtomic
    <3>3. QED BY <1>1, <2>1, <2>3, <3>2, ClaimDelivery DEF Core
  <2>4. ASSUME Finish(d) PROVE Core'
    <3>1. ASSUME NEW k \in Keys PROVE row'[k].state = "absent" <=> row[k].state = "absent"
      <4>1. mark[d][k] \in Marks BY <1>1 DEF Types, TypeOK
      <4>2. mark[d][k] # "none" => row[k].state # "absent"
        BY <1>1 DEF Delivery, HandOK, Holds
      <4>3. QED BY <1>1, <2>4, <4>1, <4>2, FinishFields DEF Marks
    <3>2. Atomic' BY <1>1, <2>2, <3>1, RestAtomic
    <3>3. QED BY <1>1, <2>1, <2>4, <3>2, FinishDelivery DEF Core
  <2>5. ASSUME row' = row, Delivery' PROVE Core'
    <3>1. Atomic' BY <1>1, <2>2, <2>5, RestAtomic
    <3>2. QED BY <2>1, <2>5, <3>1 DEF Core
  <2>6. ASSUME Publish(d) \/ HandlerFails(d) PROVE Core'
    <3>1. row' = row BY <2>6 DEF Publish, HandlerFails, table
    <3>2. QED BY <1>1, <2>5, <2>6, <3>1, PublishDelivery
  <2>7. ASSUME Mark(d) PROVE Core'
    <3>1. row' = row BY <2>7 DEF Mark, table
    <3>2. QED BY <1>1, <2>5, <2>7, <3>1, MarkDelivery
  <2>8. ASSUME Poison(d) \/ Abort(d) PROVE Core'
    <3>1. row' = row /\ handed' = handed /\ handled' = handled /\ Lose(d)
      BY <2>8 DEF Poison, Abort, table
    <3>2. QED BY <1>1, <2>5, <3>1, LoseDelivery
  <2>9. QED BY <1>4, <2>3, <2>4, <2>6, <2>7, <2>8 DEF Work
<1>5. ASSUME NEW k \in Keys, LeaseEnds(k) \/ BackoffEnds(k) PROVE Core'
  <2>1. writer' = writer /\ stored' = stored BY <1>5 DEF LeaseEnds, BackoffEnds, producers
  <2>2. \A j \in Keys : row'[j].state = row[j].state BY <1>1, <1>5, TimeFields
  <2>3. Atomic' BY <1>1, <2>1, <2>2, RestAtomic
  <2>4. QED BY <1>1, <1>5, <2>3, TimeTypes, TimeDelivery DEF Core
<1>6. ASSUME NEW d \in Dispatchers, Poll(d) PROVE Core' BY <1>2, <1>6 DEF Poll
<1>7. QED BY <1>2, <1>3, <1>4, <1>5, <1>6 DEF Next

IInv == Core /\ Ordered

LEMMA Invariant == Spec => []IInv
<1>1. Init => IInv BY InitTypes, InitDelivery, InitAtomic, InitOrdered DEF IInv, Core
<1>2. IInv /\ [Next]_vars => IInv' BY CoreInductive, OrderedStep DEF IInv, Core
<1>3. QED BY <1>1, <1>2, PTL DEF Spec

\* What a worker gives to the handlers was in its batch.
LEMMA HandsFromBatch ==
    ASSUME Types, Next, NEW d \in Dispatchers, NEW k \in Keys, Hands(d, k)
    PROVE  k \in worker[d].batch
<1>1. worker'[d].msg = k /\ worker[d].msg # k /\ k # Nobody BY KeyFacts DEF Hands
<1>2. PICK e \in Dispatchers : Work(e) \/ Abort(e)
  BY <1>1 DEF Next, Write, Enqueue, FlushFails, Commit, Abandon, Poll, vars, LeaseEnds, BackoffEnds
<1>3. CASE Claim(e)
  <2>1. worker'[e].msg = Nobody /\ \A o \in Dispatchers \ {e} : worker'[o] = worker[o]
    BY <1>3, ClaimFields
  <2>2. QED BY <1>1, <2>1
<1>4. CASE Publish(e) \/ HandlerFails(e)
  <2>1. PICK j \in worker[e].batch, ok \in BOOLEAN : Handed(e, j, ok)
    BY <1>4 DEF Publish, HandlerFails
  <2>2. worker'[e].msg = j /\ \A o \in Dispatchers \ {e} : worker'[o] = worker[o]
    BY <2>1, HandedFields
  <2>3. QED BY <1>1, <2>2
<1>5. CASE Mark(e)
  <2>1. worker'[e].msg = Nobody /\ \A o \in Dispatchers \ {e} : worker'[o] = worker[o]
    BY <1>5, MarkFields
  <2>2. QED BY <1>1, <2>1
<1>6. CASE Finish(e) \/ Poison(e) \/ Abort(e)
  <2>1. worker'[e].msg = Nobody /\ \A o \in Dispatchers \ {e} : worker'[o] = worker[o]
    BY <1>6, IdleFields DEF Finish, Poison, Abort, Lose
  <2>2. QED BY <1>1, <2>1
<1>7. QED BY <1>2, <1>3, <1>4, <1>5, <1>6 DEF Work

\* No step changes the state of a row that is sent.
LEMMA SentStep ==
    ASSUME Types, Atomic, Next, NEW k \in Keys, row[k].state = "sent"
    PROVE  row'[k].state = "sent"
<1>1. ASSUME NEW w \in Writers, Write(w) PROVE row'[k] = row[k]
  <2>1. CASE Commit(w)
    <3>1. "message" \in writer[w].writes => KeyOf[w] # k BY DEF Atomic, WritersOK
    <3>2. row \in [Keys -> Rows] BY DEF Types, TypeOK
    <3>3. QED BY <2>1, <3>1, <3>2 DEF Commit
  <2>2. CASE ~Commit(w) BY <1>1, <2>2 DEF Write, Enqueue, FlushFails, Abandon, table
  <2>3. QED BY <2>1, <2>2
<1>2. ASSUME NEW d \in Dispatchers, Work(d) \/ Abort(d) PROVE row'[k].state = "sent"
  <2>1. CASE Claim(d) BY <2>1, ClaimFields
  <2>2. CASE Finish(d)
    <3>1. mark[d][k] \in Marks BY DEF Types, TypeOK
    <3>2. QED BY <2>2, <3>1, FinishFields DEF Marks
  <2>3. CASE ~Claim(d) /\ ~Finish(d)
    BY <1>2, <2>3 DEF Work, Publish, HandlerFails, Poison, Mark, Abort, table
  <2>4. QED BY <2>1, <2>2, <2>3
<1>3. ASSUME NEW j \in Keys, LeaseEnds(j) \/ BackoffEnds(j) PROVE row'[k].state = "sent"
  BY <1>3, TimeFields
<1>4. QED BY <1>1, <1>2, <1>3 DEF Next, Poll, vars

\* A row marked sent was delivered, whichever workers raced for it.
THEOREM Delivered == Spec => []SentWasDelivered
<1>1. IInv => SentWasDelivered BY DEF IInv, Core, Delivery, HandOK
<1>2. QED BY <1>1, Invariant, PTL

\* The handlers are given a message again only after one of them raised and the message
\* went back for it, after its lease ended in a worker's hands, or after a worker that
\* had published it lost its session.
THEOREM DeliveredOnce == Spec => OnceUnlessInterrupted
<1>1. IInv /\ [Next]_vars =>
        [\A d \in Dispatchers, k \in Keys : Hands(d, k) /\ k \in handed => k \in interrupted]_vars
  <2> SUFFICES ASSUME IInv, Next, NEW d \in Dispatchers, NEW k \in Keys, Hands(d, k), k \in handed
               PROVE  k \in interrupted
    OBVIOUS
  <2>1. k \in worker[d].batch BY HandsFromBatch DEF IInv, Core
  <2>2. ~Clean(k) BY <2>1 DEF Clean
  <2>3. QED BY <2>2 DEF IInv, Core, Delivery, OnceOK
<1>2. QED BY <1>1, Invariant, PTL DEF Spec, OnceUnlessInterrupted

\* Once a message is marked sent it stays so: a late mark_failed names other columns.
THEOREM SentStaysSent == Spec => SentForGood
<1>1. IInv /\ [Next]_vars =>
        [\A k \in Keys : row[k].state = "sent" => row'[k].state = "sent"]_vars
  <2> SUFFICES ASSUME IInv, Next, NEW k \in Keys, row[k].state = "sent"
               PROVE  row'[k].state = "sent"
    OBVIOUS
  <2>1. QED BY SentStep DEF IInv, Core
<1>2. QED BY <1>1, Invariant, PTL DEF Spec, SentForGood

\* A message is in the table exactly when the own rows of one of its writers are.
THEOREM EventWithItsRows == Spec => []Together
<1>1. IInv => Together BY DEF IInv, Core, Atomic
<1>2. QED BY <1>1, Invariant, PTL

\* No set of workers waits for itself: the row locks are taken in the order of the ids,
\* whatever leases end, are taken over, or lapse in a worker's hands.
THEOREM NobodyDeadlocks == Spec => []NoLockCycle
<1>1. IInv => NoLockCycle
  <2> SUFFICES ASSUME IInv,
                      NEW S \in (SUBSET Dispatchers) \ {{}},
                      \A d \in S : \E e \in S \ {d} : WaitsFor(d, e)
               PROVE  FALSE
    BY DEF NoLockCycle
  <2>1. QED BY LastWaitsForNone DEF IInv, Core
<1>2. QED BY <1>1, Invariant, PTL
=============================================================================
