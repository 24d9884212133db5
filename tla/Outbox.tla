------------------------------- MODULE Outbox -------------------------------
(***************************************************************************)
(* The transactional outbox: OutboxStore and OutboxDispatcher over the     *)
(* table outbox_messages (PostgreSQL, read committed).                     *)
(*                                                                         *)
(* A writer is one transaction: it adds rows of its own to the session, as *)
(* the use cases do before they publish, then enqueues one event, then     *)
(* commits.  A dispatcher is one worker in run_forever: it claims a batch  *)
(* under a lease in a first transaction, and in a second one publishes     *)
(* message after message, marks each row and commits them all.             *)
(*                                                                         *)
(* A message is its key, (event_type, idempotency_key).  Timestamps are    *)
(* what a claim asks of them: has available_at come, is the lease live.    *)
(* Four slips of the source stop it.  "import": outbox_models.py 5-6 names *)
(* datetime for type checkers only, but Mapped[datetime] needs it when the *)
(* class is made, so whatever imports the store (repository.py 12) fails   *)
(* to start.  "clock": datetime.UTC does not exist (repository.py 47, 61,  *)
(* 89, 100).  The name of an event type: deserialize_event assigns to a    *)
(* frozen dataclass of it (serializer.py 44, 52).  A build says which of   *)
(* them are mended; {} is the code as it stands, in which nothing runs.    *)
(***************************************************************************)
EXTENDS Integers, FiniteSets

CONSTANTS
    Writers,
    Orders,
    Locations,
    EventOf,     \* the event each writer enqueues
    Dispatchers,
    Nobody,      \* lock_owner is NULL
    BatchSize,
    Builds,      \* sets of slips that are mended, see Slips
    MaxFailures, \* bound: how often a handler may raise, over all messages
    MaxAborts    \* bound: how often a dispatcher may lose its session

\* What can be serialized.
Events == [type : {"OrderPlaced"}, order : Orders]
          \cup [type : {"StockAllocated"}, order : Orders, location : Locations]

Slips == {"import", "clock", "OrderPlaced", "StockAllocated"}

\* Two allocations of one order, from two locations say, are one message.  The payload
\* stored is that of the writer that came first.
default_idempotency_key(e) == <<e.type, e.order>>
KeyOf == [w \in Writers |-> default_idempotency_key(EventOf[w])]
Keys == {KeyOf[w] : w \in Writers}

ASSUME EventsAssumption == EventOf \in [Writers -> Events]
ASSUME NobodyAssumption == Nobody \notin Keys \cup Dispatchers
ASSUME BatchAssumption == BatchSize \in Nat \ {0} /\ MaxFailures \in Nat /\ MaxAborts \in Nat
ASSUME BuildsAssumption == Builds \subseteq SUBSET Slips

Rows == [state : {"absent", "pending", "sent"}, id : Nat, due : BOOLEAN,
         lease : {"none", "live", "over"}, owner : Dispatchers \cup {Nobody}]
Sessions == [pc : {"begun", "enqueued", "ended"},
             writes : SUBSET {"own", "message"}, id : Nat, due : BOOLEAN]
Workers == [pc : {"idle", "publishing", "marking"}, batch : SUBSET Keys,
            msg : Keys \cup {Nobody}, ok : BOOLEAN]
Marks == {"none", "sent", "failed"}

VARIABLES
    row,         \* the committed row of each key
    nextId,      \* the sequence of the primary key
    writer,      \* the writers' transactions
    stored,      \* writers whose own rows are committed
    worker,      \* the dispatchers: what is left of the batch, the message in hand
    mark,        \* rows a dispatcher has updated and not committed: it holds their locks
    \* history of the messages:
    handed,      \* given to the handlers, and not given back by a mark_failed since
    handled,     \* given to the handlers, and all of them returned
    interrupted, \* in a worker's hands when the lease ended; or given to the handlers by
                 \* a worker that lost its session before the commit
    failures, aborts,
    mended

table == <<row, nextId>>
producers == <<writer, stored>>
ghosts == <<handed, handled, interrupted>>
vars == <<row, nextId, writer, stored, worker, mark, handed, handled, interrupted,
          failures, aborts, mended>>

Idle == [pc |-> "idle", batch |-> {}, msg |-> Nobody, ok |-> FALSE]
Unmarked == [k \in Keys |-> "none"]
Session(pc, writes) == [pc |-> pc, writes |-> writes, id |-> 0, due |-> FALSE]
Ended == Session("ended", {})

Init ==
    /\ row = [k \in Keys |-> [state |-> "absent", id |-> 0, due |-> FALSE,
                              lease |-> "none", owner |-> Nobody]]
    /\ nextId = 1
    /\ writer = [w \in Writers |-> Session("begun", {"own"})]
    /\ stored = {}
    /\ worker = [d \in Dispatchers |-> Idle]
    /\ mark = [d \in Dispatchers |-> Unmarked]
    /\ handed = {} /\ handled = {} /\ interrupted = {}
    /\ failures = 0 /\ aborts = 0
    /\ mended \in Builds

-----------------------------------------------------------------------------
(* Writers *)

\* The unique index knows the key: an uncommitted row of it makes the insert wait.
Reserved(w) == \E v \in Writers \ {w} : KeyOf[v] = KeyOf[w] /\ "message" \in writer[v].writes

\* enqueue: the flush inserts the writer's own rows and the message.  Without
\* "clock" this is the case of an available_at that the caller gave.
Enqueue(w, due) ==
    /\ writer[w].pc = "begun" /\ "import" \in mended
    /\ row[KeyOf[w]].state = "absent" /\ ~Reserved(w)
    /\ writer' = [writer EXCEPT ![w] = [pc |-> "enqueued", writes |-> {"own", "message"},
                                        id |-> nextId, due |-> due]]
    /\ nextId' = nextId + 1
    /\ UNCHANGED <<row, stored, worker, mark, ghosts, failures, aborts, mended>>

\* enqueue, when the flush fails: the key is taken, or anything else about the
\* rows flushed.  The session is rolled back and begun anew, and enqueue returns.
\* A faulty variant rolls back to a savepoint before the message only.
FlushFails_Savepoint(w) ==
    /\ writer[w].pc = "begun" /\ "import" \in mended
    /\ writer' = [writer EXCEPT ![w].pc = "enqueued"]
    /\ UNCHANGED <<table, stored, worker, mark, ghosts, failures, aborts, mended>>
FlushFails(w) ==
    /\ writer[w].pc = "begun" /\ "import" \in mended
    /\ writer' = [writer EXCEPT ![w] = Session("enqueued", {})]
    /\ UNCHANGED <<table, stored, worker, mark, ghosts, failures, aborts, mended>>

\* The session commits whatever it still holds.
Commit(w) ==
    /\ writer[w].pc = "enqueued"
    /\ writer' = [writer EXCEPT ![w] = Ended]
    /\ stored' = IF "own" \in writer[w].writes THEN stored \cup {w} ELSE stored
    /\ row' = IF "message" \in writer[w].writes
              THEN [row EXCEPT ![KeyOf[w]] = [state |-> "pending", id |-> writer[w].id,
                                              due |-> writer[w].due, lease |-> "none",
                                              owner |-> Nobody]]
              ELSE row
    /\ UNCHANGED <<nextId, worker, mark, ghosts, failures, aborts, mended>>

\* Anything raises inside the session, the import and enqueue's own datetime.UTC included.
Abandon(w) ==
    /\ writer[w].pc \in {"begun", "enqueued"}
    /\ writer' = [writer EXCEPT ![w] = Ended]
    /\ UNCHANGED <<table, stored, worker, mark, ghosts, failures, aborts, mended>>

-----------------------------------------------------------------------------
(* Dispatchers *)

Locked(k) == \E d \in Dispatchers : mark[d][k] # "none"

\* The WHERE of the claim, with SKIP LOCKED.  Faulty variants never take over a
\* lease that is over, or do not look at leases.
Claimable_NoTakeover ==
    {k \in Keys : /\ row[k].state = "pending" /\ row[k].due
                  /\ row[k].lease = "none" /\ ~Locked(k)}
Claimable_Leased == {k \in Keys : row[k].state = "pending" /\ row[k].due /\ ~Locked(k)}
Claimable == {k \in Keys : /\ row[k].state = "pending" /\ row[k].due
                           /\ row[k].lease # "live" /\ ~Locked(k)}

\* The first BatchSize of them by id.
Batches == {S \in SUBSET Claimable :
               /\ S # {} /\ Cardinality(S) <= BatchSize
               /\ Cardinality(S) < BatchSize => S = Claimable
               /\ \A k \in S, j \in Claimable \ S : row[k].id < row[j].id}

\* claim_batch: one transaction that leases the batch.
Claim(d) ==
    /\ worker[d].pc = "idle" /\ {"import", "clock"} \subseteq mended
    /\ \E S \in Batches :
         /\ worker' = [worker EXCEPT ![d] = [Idle EXCEPT !.pc = "publishing", !.batch = S]]
         /\ row' = [k \in Keys |-> IF k \in S THEN [row[k] EXCEPT !.owner = d, !.lease = "live"]
                                   ELSE row[k]]
    /\ UNCHANGED <<nextId, producers, mark, ghosts, failures, aborts, mended>>

\* claim_batch finds nothing, or raises and run_forever swallows it.
Poll(d) ==
    /\ worker[d].pc = "idle" /\ "import" \in mended
    /\ "clock" \notin mended \/ Claimable = {}
    /\ UNCHANGED vars

\* The rows come back ordered by id.  A faulty variant goes through them in any order.
First_Any(k, S) == k \in S
First(k, S) == k \in S /\ \A j \in S : row[k].id <= row[j].id

\* deserialize_event returns.
Readable(k) == k[1] \in mended

\* publish calls every handler, whether one before it raised or not.
Handed(d, k, ok) ==
    /\ worker' = [worker EXCEPT ![d] = [pc |-> "marking", batch |-> worker[d].batch \ {k},
                                       msg |-> k, ok |-> ok]]
    /\ handed' = handed \cup {k}

\* publish: every handler returns.
Publish(d) ==
    /\ worker[d].pc = "publishing"
    /\ \E k \in worker[d].batch :
         First(k, worker[d].batch) /\ Readable(k) /\ Handed(d, k, TRUE) /\ handled' = handled \cup {k}
    /\ UNCHANGED <<table, producers, mark, interrupted, failures, aborts, mended>>

\* publish: a handler raises, others may have returned, and the bus has recorded an
\* error more.  A faulty variant does not look at the bus's errors.
HandlerFails_Unnoticed(d) ==
    /\ worker[d].pc = "publishing" /\ failures < MaxFailures
    /\ failures' = failures + 1
    /\ \E k \in worker[d].batch : First(k, worker[d].batch) /\ Readable(k) /\ Handed(d, k, TRUE)
    /\ UNCHANGED <<table, producers, mark, handled, interrupted, aborts, mended>>
HandlerFails(d) ==
    /\ worker[d].pc = "publishing" /\ failures < MaxFailures
    /\ failures' = failures + 1
    /\ \E k \in worker[d].batch : First(k, worker[d].batch) /\ Readable(k) /\ Handed(d, k, FALSE)
    /\ UNCHANGED <<table, producers, mark, handled, interrupted, aborts, mended>>

\* mark_sent or mark_failed: the UPDATE waits for the row lock and looks at
\* neither lock_owner nor lock_until.
Mark(d) ==
    /\ worker[d].pc = "marking"
    /\ \A e \in Dispatchers \ {d} : mark[e][worker[d].msg] = "none"
    /\ mark' = [mark EXCEPT ![d][worker[d].msg] = IF worker[d].ok THEN "sent" ELSE "failed"]
    /\ worker' = [worker EXCEPT ![d].pc = "publishing", ![d].msg = Nobody, ![d].ok = FALSE]
    /\ UNCHANGED <<table, producers, ghosts, failures, aborts, mended>>

\* What the UPDATE makes of the row: neither names the columns of the other, so a
\* row that is sent stays sent.  Faulty variants clear lock_owner alone, or put the
\* row back among the pending ones.
Marked_LeaseKept(r, how) ==
    CASE how = "sent" -> [r EXCEPT !.state = "sent", !.owner = Nobody]
      [] how = "failed" -> [r EXCEPT !.due = FALSE, !.owner = Nobody]
      [] OTHER -> r
Marked_Requeued(r, how) ==
    CASE how = "sent" -> [r EXCEPT !.state = "sent", !.owner = Nobody, !.lease = "none"]
      [] how = "failed" -> [r EXCEPT !.state = "pending", !.due = FALSE, !.owner = Nobody, !.lease = "none"]
      [] OTHER -> r
Marked(r, how) ==
    CASE how = "sent" -> [r EXCEPT !.state = "sent", !.owner = Nobody, !.lease = "none"]
      [] how = "failed" -> [r EXCEPT !.due = FALSE, !.owner = Nobody, !.lease = "none"]
      [] OTHER -> r

\* The commit at the end of the batch.
Finish(d) ==
    /\ worker[d].pc = "publishing" /\ worker[d].batch = {}
    /\ row' = [k \in Keys |-> Marked(row[k], mark[d][k])]
    /\ worker' = [worker EXCEPT ![d] = Idle]
    /\ mark' = [mark EXCEPT ![d] = Unmarked]
    /\ handed' = handed \ {k \in Keys : mark[d][k] = "failed"}
    /\ UNCHANGED <<nextId, producers, handled, interrupted, failures, aborts, mended>>

\* The session is lost with every mark; the leases stay.
Lose(d) ==
    /\ worker' = [worker EXCEPT ![d] = Idle]
    /\ mark' = [mark EXCEPT ![d] = Unmarked]
    /\ interrupted' = interrupted \cup {k \in Keys : mark[d][k] # "none" \/ worker[d].msg = k}

\* deserialize_event raises outside the try, and with it goes what the batch marked
\* before this message.
Poison(d) ==
    /\ worker[d].pc = "publishing"
    /\ \E k \in worker[d].batch : First(k, worker[d].batch) /\ ~Readable(k)
    /\ Lose(d)
    /\ UNCHANGED <<table, producers, handed, handled, failures, aborts, mended>>

\* The process crashes, or the connection breaks under a flush or the commit.
Abort(d) ==
    /\ worker[d].pc # "idle" /\ aborts < MaxAborts
    /\ aborts' = aborts + 1
    /\ Lose(d)
    /\ UNCHANGED <<table, producers, handed, handled, failures, mended>>

\* lease_seconds pass; nothing ties them to how long the handlers take.
Holds(d, k) == k \in worker[d].batch \/ worker[d].msg = k \/ mark[d][k] # "none"
LeaseEnds(k) ==
    /\ row[k].lease = "live"
    /\ row' = [row EXCEPT ![k].lease = "over"]
    /\ interrupted' = IF \E d \in Dispatchers : Holds(d, k) THEN interrupted \cup {k} ELSE interrupted
    /\ UNCHANGED <<nextId, producers, worker, mark, handed, handled, failures, aborts, mended>>

\* available_at comes: the delay the writer asked for, or the backoff.
BackoffEnds(k) ==
    /\ row[k].state # "absent" /\ ~row[k].due
    /\ row' = [row EXCEPT ![k].due = TRUE]
    /\ UNCHANGED <<nextId, producers, worker, mark, ghosts, failures, aborts, mended>>

-----------------------------------------------------------------------------
Write(w) == (\E due \in BOOLEAN : Enqueue(w, due)) \/ FlushFails(w) \/ Commit(w) \/ Abandon(w)
Work(d) == \/ Claim(d) \/ Publish(d) \/ HandlerFails(d) \/ Poison(d)
           \/ Mark(d) \/ Finish(d)

Next == \/ \E w \in Writers : Write(w)
        \/ \E d \in Dispatchers : Poll(d) \/ Work(d) \/ Abort(d)
        \/ \E k \in Keys : LeaseEnds(k) \/ BackoffEnds(k)

Spec == Init /\ [][Next]_vars

\* run_forever keeps a worker going whatever run_once raises; time passes.
FairSpec == /\ Spec
            /\ \A d \in Dispatchers : WF_vars(Work(d))
            /\ \A k \in Keys : WF_vars(LeaseEnds(k)) /\ WF_vars(BackoffEnds(k))

-----------------------------------------------------------------------------
\* Types; a row without a lease has no owner and the other way round, a worker has
\* a message in hand exactly while it marks.  (The columns of outbox_models.py.)
TypeOK ==
    /\ row \in [Keys -> Rows] /\ nextId \in Nat
    /\ writer \in [Writers -> Sessions] /\ stored \subseteq Writers
    /\ worker \in [Dispatchers -> Workers] /\ mark \in [Dispatchers -> [Keys -> Marks]]
    /\ handed \subseteq Keys /\ handled \subseteq Keys /\ interrupted \subseteq Keys
    /\ failures \in 0..MaxFailures /\ aborts \in 0..MaxAborts /\ mended \in SUBSET Slips
    /\ \A k \in Keys : row[k].owner = Nobody <=> row[k].lease = "none"
    /\ \A d \in Dispatchers :
         /\ worker[d].pc = "marking" <=> worker[d].msg # Nobody
         /\ worker[d].pc = "idle" => worker[d] = Idle /\ mark[d] = Unmarked

\* The event is part of the transaction: a message is in the table exactly when the
\* own rows of one of the writers that enqueue it are, and of one only.
Together ==
    \A k \in Keys :
        LET by == {w \in stored : KeyOf[w] = k}
        IN  IF row[k].state = "absent" THEN by = {} ELSE \E w \in Writers : by = {w}

\* A row is marked sent only after the handlers had its message and all returned.
SentWasDelivered == \A k \in Keys : row[k].state = "sent" => k \in handled

\* No late mark of a worker whose lease is over, and no duplicate of a writer, takes
\* back that a message was sent.
SentForGood == [][\A k \in Keys : row[k].state = "sent" => row'[k].state = "sent"]_vars

\* Leases and row locks keep the workers apart: after the handlers were given a message
\* they are given it again only when one of them raised and the message went back for
\* it, or it was interrupted: its lease ended in a worker's hands, or the worker that
\* had published it lost its session before the commit.
Hands(d, k) == worker[d].msg # k /\ worker'[d].msg = k
OnceUnlessInterrupted ==
    [][\A d \in Dispatchers, k \in Keys : Hands(d, k) /\ k \in handed => k \in interrupted]_vars

\* Workers wait for each other's row locks only along the order of ids, so no set
\* of workers waits for itself.
WaitsFor(d, e) == worker[d].pc = "marking" /\ mark[e][worker[d].msg] # "none"
NoLockCycle ==
    \A S \in (SUBSET Dispatchers) \ {{}} : \E d \in S : \A e \in S \ {d} : ~WaitsFor(d, e)

\* docs/outbox.md: every message that is persisted is delivered in the end, whatever
\* leases end and sessions break on the way: again and again none is pending.  So it
\* is in the build in which all slips are mended.
DeliversOnceMended == mended = Slips => []<>(\A k \in Keys : row[k].state # "pending")
=============================================================================
