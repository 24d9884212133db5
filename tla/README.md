# Hex Commerce Service: a verification project

TLA+ models of the service in `src/hex_commerce_service`, TLC configurations
that check them on small instances, and TLAPS proofs of what holds for every
instance. Paths below are relative to `src/hex_commerce_service/app/` unless they
start with `docs/` or `tests/`.

## 1. Inventory

The service takes orders for products, allocates stock to them and announces
both. It is built as ports and adapters: use cases in the middle, an in-memory
adapter that the API, the command line and the tests run on, and a second family
of adapters (database, outbox, e-mail, payment) that nothing wires up yet.

| component | state | operations | interacts with |
|---|---|---|---|
| In-memory unit of work, `adapters/inmemory/system.py` | `_in_context`, `_committed`, three snapshots, `_pending_events`, the event sink | `__enter__`, `__exit__`, `commit`, `rollback`, `buffer_or_sink` | repositories (reads and replaces their dictionaries), bus (called inside `commit`) |
| Repositories, `adapters/inmemory/repositories.py` | three dictionaries | `get`, `add`, `upsert`, `list` | hold the entities by reference |
| Message bus, `application/message_bus.py` | handlers, `errors` | `subscribe`, `publish` | calls handlers synchronously, records what they raise |
| Use cases, `application/use_cases/` | none | `PlaceOrder`, `AllocateStock` | one `with uow:` block each |
| Entities, `domain/entities/` | on-hand levels, order lines, price | `allocate`, `set_on_hand`, `add_line` | mutated in place |
| HTTP API, `adapters/inbound/api/` | ONE unit of work and bus for the whole application (`app.py` 27-31) | POST /products, PUT /inventory, POST /orders, POST /orders/{id}/allocate, GETs | plain `def` routes: FastAPI runs them in worker threads |
| Authentication, `adapters/inbound/api/auth/` | the set of revoked token ids | issue, decode, revoke, require a role | every route depends on it |
| E-mail notifier, `adapters/outbound/email/fake.py` | breaker, idempotency store, `sent` | two sends with retry | asyncio tasks over one notifier |
| Payment gateway, `adapters/outbound/payment/fake.py` | breaker, idempotency store | `charge` with timeout and retry | asyncio tasks |
| Outbox, `infra/outbox/` | rows of `outbox_messages` | `enqueue`, `claim_batch`, `mark_sent`, `mark_failed`, `run_once`, `run_forever` | database transactions, the bus |
| SQLAlchemy repositories, `adapters/outbound/sqlalchemy_repositories.py`, `infra/db/` | tables | `add`, `get`, `upsert`, `list` | one session per transaction |
| Value objects, `domain/value_objects/` | immutable | money arithmetic, parsing | everywhere |
| Anti-corruption layer, `acl/` | none | maps an external order to a command | use cases |
| Command line, middleware, logging, settings, migrations, benchmark | none that another part reads | | |

What is hard, and so what the properties are about (`PROJECT.json` lists each
hazard at its line):

* **Threads over one unit of work.** Nothing in `system.py` is locked. Requests
  interleave between any two statements, on flags, snapshots, the pending list,
  the dictionaries and the `Inventory` objects themselves.
* **Re-entrance.** `commit()` calls the bus inside the `with` block. A handler
  that runs a use case enters the same unit of work again, and its `__exit__` and
  `rollback` work on the fields of the one that is still committing.
* **Rollback by shallow copy.** The snapshots copy dictionaries; `allocate`
  changes the objects in them.
* **Swallowed errors.** The bus drops what a handler raises.
* **Retries and breakers** across awaits (e-mail, payment), **leases and crashes**
  (outbox), **read-modify-write** across transactions (SQL inventory).

What makes each component correct:

* unit of work: a committed change stays, a rolled-back one leaves nothing, the
  event log and the repositories agree, nothing survives from one unit of work
  into the next;
* use cases: an allocation takes the whole order or nothing, stock stays at or
  above zero, an order is announced once if and only if it is stored;
* bus: every announced event is handled, or its failure is recorded;
* API: every request is answered;
* notifier and gateway: at most one delivery per key, a breaker that closes again;
* outbox: at-least-once delivery, no message lost, no message claimed for ever;
* authentication: a revoked or expired token is never accepted.

## 2. Modules

| module | what it is |
|---|---|
| `UnitOfWork` | unit of work, repositories, bus, use cases and routes, one shared access per step |
| `Shop` | the abstract service: each call atomic |
| `UnitOfWorkShop` | the refinement mapping from `UnitOfWork` to `Shop`, and the balance of stock |
| `UnitOfWorkProofs` | theorems about `UnitOfWork` with any number of threads, and the stock of one thread |
| `UnitOfWorkSerialProofs` | theorems about one thread: snapshots, orders, events, handlers, sums over finite sets, the refinement of `Shop`, the balance of stock |
| `CircuitBreaker` | the circuit breaker of both outbound adapters, as operators on a record |
| `EmailNotifier` | the e-mail notifier: tasks sharing breaker, store and mail server |
| `PaymentGateway` | the payment gateway as it runs |
| `Outbox` | the transactional outbox: writers' transactions, dispatchers, leases |
| `SqlRepositories` | the SQLAlchemy repositories in `session_scope`, several sessions on one database |
| `Auth` | tokens: issue, the stepwise checks, roles, revocation, several processes |
| `CircuitBreakerProofs`, `EmailNotifierProofs`, `PaymentGatewayProofs`, `OutboxProofs`, `SqlRepositoriesProofs`, `AuthProofs` | lemmas and theorems about them |
| `MCUnitOfWork`, `MCUnitOfWorkShop`, `MCEmailNotifier`, `MCPaymentGateway`, `MCOutbox`, `MCSqlRepositories`, `MCAuth` | instances for TLC |

### `UnitOfWork`

A request is a name in `Requests` and, for PlaceOrder, also the id of the order it
creates (`uuid4` is assumed not to collide). A worker thread takes it up
(`Receive`, at most `PoolSize` at once) and runs it as a **stack of frames**, the
running one at the head. A frame has the program counter `pc` and the locals:
the lines being worked through and the `index` in them, the currencies seen, the
inventory object fetched, the value read before a write, the batch `commit`
copied. `CallAllocate` pushes a frame (a handler that runs AllocateStock),
`Return` pops it and, if it raised, records the event in `errors`.

Each action is one access to shared state: Python threads may switch between any
two bytecodes, so a read and the write that depends on it are two steps
(`CanFulfill`, `LoadOnHand`, `StoreOnHand` for the three accesses of
`Inventory.allocate`; `Publish` and `Buffer` for the test of `_in_context` and the
append). Single dictionary and list operations are atomic under the interpreter
lock. Work on a frame's own data goes with the step before or after it.

`Inventory` objects are a heap, `stock`: `repo.inventories` maps a location to an
object, PUT creates a new object, and an allocation keeps the object it fetched,
however stale. Snapshots copy the map and not the heap, as the code does.
Products are their currency and orders their lines: what the code branches on.
Every exception is the one outcome `raised`. Order totals, names, prices and the
JSON of the answers are left out.

One step of `ReadProduct` reads one product; the currency comparison (lines 49-53)
and the construction of the order work on locals, so they are `CreateOrder` and
`RefuseOrder`. `PoolSize = 1` is the command line, the unit tests and an API with
one worker; `Subscribed` says whether the bus has the handlers of
`tests/app/application/test_e2e_order_flow_message_bus.py` (`app.py` subscribes
none).

Operators with a suffix (`Restore_Emptied`, `Exit_NoFinally`, ...) are faulty
variants of an action. The specification does not use them: they show that each
property notices the mistake it is there for.

### `Shop` and `UnitOfWorkShop`

`Shop` says what a client may believe: placing an order stores and announces it
in one step, an allocation takes every line, or the call has no effect at all. It
adds up the lines of an order per SKU; the code looks at line after line. It
describes no code of its own, so it is not mapped to source lines.

The mapping takes effect at `ExtendSink`. Until then the Shop sees the snapshots
for the repositories, and what an unfinished allocation took out of an object in
place is counted back on the shelf.

### `CircuitBreaker`, `EmailNotifier`, `PaymentGateway`

The class `CircuitBreaker` stands word for word in `email/fake.py` and in
`payment/fake.py`. Its methods do not await, so each is an operator from a breaker
to a breaker, used by both modules. Of the monotonic clock only one fact matters,
whether `reset_timeout` has passed since the breaker last opened: `cooled`, set by
the environment's step `ResetTimeout` and reset when `on_failure` opens it again.

Both adapters are asyncio code: a task keeps the event loop until its next await,
so **an action runs from one await to the next**. In `EmailNotifier` a call is
`idle`, then `sending` (asleep in `_simulate_send`), `waiting` (asleep in the
backoff) and `done` with its outcome. `SendAgain`, `Refuse` and `Send` are the code
before the first await; `Deliver`, `FailPermanently` and `FailTransiently` run from
the answer of the network; `Resume` from the end of the backoff. `Cancel` is
`CancelledError` raised at either await: it is not an `Exception`, so no handler of
the loop runs. `except Exception` (113) would treat another error just as a
transient one, and `_simulate_send` raises no other. `Reconfigure` sets the
behaviour controls anew, as the tests do between calls: the mail server gets better
or worse at any time. `probing` is the only addition: it remembers which call was
let through as the probe.

A mail is its key (`KeyOf`). A delivery id is the value of `_calls` at the time of
the answer, from which the code hashes it.

`PaymentGateway` looks like `EmailNotifier` in the source and is not like it when it
runs. `_charge_with_retries` calls `_simulate_remote` with one argument too many
(125, 153). The `TypeError` arises before `wait_for` is entered, `except Exception`
(139) takes it for a transient failure, and so every attempt fails at once: no
charge is ever made, no timeout runs, nothing is ever stored. The model has only
the control that is left: breaker, attempts, backoff, cancellation during it.

### `Outbox`

A writer is one transaction: its own rows, then `enqueue`, then the commit of
`session_scope`. `Enqueue` is the flush that succeeds; it waits while another open
transaction holds the same key, as the unique constraint makes it. `FlushFails` is
`except Exception` (`repository.py` 54-58): the whole session is rolled back and
begun anew, so the writer goes on with nothing and may commit nothing. A message
is its key, `default_idempotency_key`: event type and order, without the location.

A dispatcher is `idle`, `publishing` a batch or `marking` the message in hand.
`Claim` is the first transaction of `run_once` (`claim_batch`, its `ORDER BY id`,
`LIMIT` and `SKIP LOCKED`); `Publish` and `HandlerFails` are the call of the bus
and the test whether its error list grew. The bus calls every handler and goes on
after one raises, so in both the message was handed to them. `Mark` is the UPDATE of
`mark_sent` or `mark_failed`, which waits for the row's lock; `Finish` is the commit of
the batch. `Poison` (the payload of the next message cannot be read) and `Abort`
(crash, lost connection) lose the session with every mark made so far. Time is two
facts about a row: its lease is live or over, `available_at` has come or not.

`mended` says which of four slips of the source are repaired:

* `infra/db/outbox_models.py` 5-6 imports `datetime` under `TYPE_CHECKING`, while
  `Mapped[datetime]` (34-44) is evaluated when the class is created (`infra/db/models.py` 3
  keeps the import at run time for that reason). `infra/outbox/repository.py` 12 then fails
  on import, and with it every writer and every dispatcher;
* `datetime.UTC` does not exist on the class (`repository.py` 47, 61, 89, 100): no batch
  is ever claimed, and a message can be enqueued only with an `available_at`;
* `deserialize_event` assigns to a frozen dataclass, for `OrderPlaced` (`serializer.py` 44)
  and for `StockAllocated` (52): no payload of that type can be read.

`{}` is the code as it stands, in which nothing of the outbox runs. It has to be modelled
past the slips to be modelled at all. Every safety property is proved whatever is mended,
and checked with everything mended and with all but the last, where messages that
can be read share a batch with one that cannot. `handed`, `handled` and `interrupted` are
history.

### `SqlRepositories`

A session runs a script, a sequence of repository calls, inside `session_scope`.
What is stored is which rows exist and **who wrote each**, so two contents are
equal only if nobody rewrote the row: that is what lost updates and stale levels
are about. `add` leaves rows pending; every query first flushes them (`InsertRow`
until none is left, parents first). `upsert` is `AddLocation` if the location is
not there, then `StartDelete`, `DeleteRow` for every level found, `AddItems`. The
get and the list of orders are two queries, `SelectOrders` and `LoadLines`, without
a common snapshot.

The database is external: a row that an open transaction inserted or deleted makes
others wait (`Holders`); a DELETE that waited skips a row that is gone or rewritten
by then and never sees one inserted after it began (read committed); keys and
foreign keys are checked per row. `Deadlocked` is PostgreSQL's detector, `Fail` any
exception: the session's rows and locks go with it.

### `Auth`

A token is the claims it was issued with. A request reaches one of `Processes`
and goes through the checks one step at a time: bearer credentials, `Decode` (expiry),
`Lookup` (the set of revoked ids of this process), `RequireRole` or, on `/revoke`,
`Revoke` and its answer `Confirm`. Other requests, the clock and a `Restart`
come between any two. The history `found` collects the answers that would have been
right at some instant since the request arrived, which is what the two safety
properties compare the real answer with. A revocation counts as binding from its
answer on, and as possible from the moment it is in the set.

## 3. Runs

| run | instance | checks |
|---|---|---|
| `serial` | 1 thread, every kind of call, handlers subscribed, fair | `TypeOK`, `StockNonNegative`, `OrdersMatchEvents`, `NoSnapshotLeft`, `HandledOrRecorded`, `OrdersOnlyGrow`, `EveryRequestAnswered` |
| `threads` | 2 threads, symmetric requests | `QuietWhenIdle`, `JustifiedEvents` |
| `shop` | 1 thread, handlers, orders naming a SKU once | `ShopSpec` (refinement), `StockAccounted` |
| `leaked_stock` | 1 thread, orders naming a SKU twice | `StockAccounted` fails |
| `lost_commit` | 2 threads | `CommitKept` fails |
| `email` | 3 sends, two for one mail, cancellation, fair | `TypeOK`, `BreakerConsistent`, `HalfOpenHasProbe`, `MailsAccounted`, `SendEnds` |
| `lost_probe` | the same | `NeverStuck` fails |
| `double_mail` | the same | `SameDelivery` fails |
| `payment` | 4 charges, fair | `TypeOK`, `BreakerAtRest`, `ChargeEnds` |
| `outbox` | 3 writers, 2 keys, 2 dispatchers, `StockAllocated` readable or not, fair | `TypeOK`, `Together`, `SentWasDelivered`, `NoLockCycle`, `SentForGood`, `OnceUnlessInterrupted`, `DeliversOnceMended` |
| `sql` | 3 sessions, 6 scripts, fair | `TypeOK`, `NoOverwrite`, `NothingStale`, `OrdersWhole`, `SessionsEnd` |
| `auth` | 2 processes, 2 requests, 1 token, fair clock | `TypeOK`, `AdmittedRightly`, `RefusedRightly`, `TokensEnd` |

What they show of the unit of work:

* **Served one request at a time, the service keeps its promises**, with nested
  handlers too, as long as an order names a SKU once.
* **An order that names a SKU twice leaks stock** (`leaked_stock`). The precheck
  (`allocate_stock.py` 37-39) compares each line with the whole stock, the second
  line then fails, and the rollback restores a dictionary that holds the very
  object the first line was taken from.
* **Two threads break the unit of work** (`lost_commit`): a committed order
  disappears with another request's rollback, a successful call announces nothing.
  `StockNonNegative`, `NoSnapshotLeft` and `OrdersMatchEvents` fail with two threads
  too; no run repeats that.
* **What threads do not break**: nothing remains buffered once they are done, and
  no event is announced without its cause, whoever commits it.
* After a handler's failed allocation the flag `committed` is False although the
  outer commit went through. Nothing reads it, so it is a remark and no finding.
* Without a direct allocation at the handler's location, every order ends up
  allocated and notified or on the error list (`HandledOrRecorded`); a client that
  also allocates there can be first, and the handler then fails or allocates again:
  nothing records that an order was allocated before.

Of the notifier and the gateway:

* **The breaker's fields never disagree**, however late its callers report, and a
  half-open breaker has its probe on the way (`email`). **A probe cancelled at the
  network breaks that for ever**: the breaker stays half open, and no timeout and
  no later call can close it (`lost_probe`).
* Remarks on the breaker: a call goes on making attempts after the failure that
  opened it, and so a probe that retries can be joined by a second one. The comment
  "only one probe at a time" (`payment/fake.py` 52) is true of `allow_request` alone.
* **A mail goes out twice when two sends of it overlap** (`double_mail`), for the
  store is asked before the await and written after it; the callers can then be told
  of different deliveries, where the contract test says "idempotent" of two sends one after the
  other. Still, a mail is remembered exactly if it was sent, and no caller is told of a
  delivery that was none (`MailsAccounted`, which does not limit a key to one mail).
* No charge ever succeeds, see section 2; `tests/contract/test_payment_gateway_contract.py`
  fails in all its tests for that reason.
* A remark and no finding: `tests/contract/test_email.notifier_contract.py` 43-46
  expects the second send to raise `TransientExternalError`, but the first one has
  opened the breaker by its two failures and the second raises `CircuitOpenError`.

Of the outbox:

* **An event and the rows of its transaction are stored together or not at all**
  (`Together`), duplicates and failed flushes included. What a duplicate costs is
  its writer's own rows, and `enqueue` reports success: the comment at
  `repository.py` 55 speaks of the event alone. Since the default key has no location,
  two allocations of one order from two locations are such duplicates.
* **Leases and row locks keep the workers apart**: when the handlers are given a
  message again, one of them had raised and the message went back for it
  (`mark_failed`: those that had returned see it again too), or its lease ended in a worker's
  hands, or a worker was lost before its commit (`OnceUnlessInterrupted`).
  Overlapping batches cannot deadlock, because every batch is worked in id order.
* **Sent is for good** (`SentForGood`): the marks look at no `lock_owner`, so a worker whose
  lease ended may mark a row failed that another has marked sent; it stays sent. Such
  a mark also clears the other worker's lease, and a third may take the message:
  allowed by delivery at least once.
* **A payload that cannot be read holds up what is in its batch**: it raises outside the
  `try`, the marks made before it are lost, and the messages published before it
  are published again whenever the leases have ended (the second build of `outbox`).
* **As it stands nothing runs**: the store cannot be imported, see section 2, against
  `docs/outbox.md` 3, which promises persistence and delivery at least once. There is no
  behaviour of the outbox to check before that, so no run is about it. With every slip mended
  everything is delivered, once the crashes and failures are over (`DeliversOnceMended`).
  `max_attempts` is read by nothing, so a message that always fails is tried for ever.

Of the database:

* **Upserts of one location exclude each other from the DELETE on**: a level that
  another session committed in between makes the insert fail instead of being
  overwritten, and nothing the DELETE found survives. Opposite lock orders end by the
  detector, and `session_scope` leaves nothing behind.
* Two windows stay open, and no text of the repository promises otherwise: a level
  committed between an allocation's read and its own DELETE is deleted unseen, and
  two upserts of disjoint SKUs of a new location merge.
* An order is loaded whole although its lines come by a second query: lines are
  committed with their order and never changed.
* `list` of the inventories raises as soon as there is a location
  (`sqlalchemy_repositories.py` 191 extends a list by an `Inventory`); in the
  instance there always is one.

Of authentication:

* **A request is admitted or refused only as one instant since its arrival
  justifies**, though the checks come one after another. Revocations are known to one
  process and lost by its restart: there the token works again, until it expires.
* `expires_in = 0` is falsy and gives the default lifetime (`auth/router.py` 32).
  No value gives a token without an end (`TokensEnd`).

**Bounds.** *Unit of work*: three SKUs (two in the catalogue, one to be added in
another currency), two locations, at most two units of a SKU, three requests: one
to prepare, one to disturb, one to see the effect. Two lines per order suffice for
"a later line fails". Two threads are the smallest number at which the
interleavings exist; three are beyond a few minutes. In `serial` clients allocate
at the second location only, as `HandledOrRecorded` requires.

*Notifier and gateway*: three calls are two that share a key and one that shares
only the breaker; two attempts are one retry; the threshold of 2 lets the breaker
open within one call or across two, and a probe fail with the count already above
it. `MaxFailures` bounds how many failures the server has in store at once, and
`Reconfigure` refills it. Four charges are one to open the gateway's breaker, one
still retrying from before, one let through by the timeout and one that is refused.

*Outbox*: three writers are two with events of one key and one apart, so that a duplicate,
an abandoned duplicate and a second message to order occur; batches of two overlap;
`MaxFailures = 1` and `MaxAborts = 1` bound how often a handler raises and a session
is lost, one being enough for every redelivery, while leases end without bound.

*Database*: three sessions are two that conflict and one that waits, deadlocks with
them or reads; two SKUs and two locations, one of them new, give the opposite lock
orders; each script has at most two upserts.

*Authentication*: two processes differ in what they know; two requests are a use
and a revocation, or two revocations, overlapping; lifetimes below zero, zero and
above. `MaxTime = 3` lies behind the last expiry.

**Fairness.** *Unit of work* (`serial`): weak fairness of each request's own steps.
The operating system and the interpreter keep running a thread that can run, and no
step waits for another thread, so liveness needs no second one. Nothing says that a
request ever arrives. *Notifier and gateway*: weak fairness of each call's `Continue`
(`Resume`), because the event loop wakes every task whose sleep is over, and both
sleeps are finite. Nothing is assumed of the clock, of callers or of the mail server;
`SendEnds` holds even if the server fails for ever. *Outbox*: each dispatcher's
`Work`, because `run_forever` goes on after any exception, and the end of leases and
backoffs, which is the passing of time; nothing of writers or crashes. *Database*: some
session that can go on does; going on includes that a refused flush raises and that the
detector ends a deadlock. Since sessions are finite, that one condition suffices.
*Authentication*: the clock.

**Deadlock** is checked in every run but `payment`. The unit of work and the database have one action that
stutters when everything is over (`AllServed`, `AllEnded`); the mail server can
always change, a dispatcher can always poll, a process can always restart. A gateway
whose charges have all ended may stop, which is why `payment` sets
`CHECK_DEADLOCK FALSE`.

## 4. Proofs

Every invariant and every action property that a passing run checks is also proved
by TLAPS, for any sets, sequences of calls and bounds; the refinement of `Shop` too.
Assumed are only the named assumptions in the modules (`UnitOfWork`: finitely many
requests, the default location is a location, request names and locations differ,
`None` is none of the values it stands in for, every call is of one of the four kinds,
catalogue and initial stock are well typed with levels at or above zero; the adapters:
finitely many calls, at least one attempt) and what a theorem lists as its
hypotheses, each of which is explained below.

### Unit of work, any number of threads (`UnitOfWorkProofs`)

* `TypeCorrect`: `Spec => []TypeOK`. From the inductive invariant `IInv`, because `TypeOK`
  alone is not inductive: it also needs what each `pc` implies about its frame's locals
  (an allocation past `getInventory` has an object, a line index in range, a dispatching
  frame with a pushed frame above it a non-empty batch).
* `Quiet`: `Spec => []QuietWhenIdle`. A buffered event has a thread between `buffer` and its
  last clearing of the list, a raised flag a frame between `enter` and `exit`: whichever
  thread exits last leaves the flag down, even when nested and overlapping exits took
  it down early.
* `EventsJustified`: without subscribed handlers (the API), `Spec => []JustifiedEvents`. Events are
  copied from thread to thread, so the invariant is about all of their ways at once: sink,
  buffer and every batch on its way to the sink are sequences over `Known`, the set of events
  whose cause has happened, and that set only grows, because a call past its refusals
  does not raise any more. The property names the request that asked for an allocation;
  with handlers subscribed the bus asks too, which is the end-to-end test's case, has
  one thread, and is what `OrdersHandled` is about.

### Unit of work, one thread (`PoolSize = 1`)

This is the command line, the unit tests and an API with one worker. With two threads
`CommitKept` fails (`lost_commit`), and `StockNonNegative`, `NoSnapshotLeft` and
`OrdersMatchEvents` do too.

* `SerialStock`: `[]StockNonNegative`. Only the running frame allocates, so between `CanFulfill`
  and `StoreOnHand` the level that was checked is still the level (`SerialInv`).
* `SnapshotsForgotten`: `[]NoSnapshotLeft`. `PhaseInv` says what the program counter of the running
  frame implies for the unit of work: which snapshots are taken or forgotten, when they equal
  the repositories, what is buffered, and that the only frame that can lie on a
  request's own is the handler of the order it has just announced. Nested `with` blocks
  share the fields, and what makes that harmless is their position: a handler enters when
  the outer `commit` has forgotten its snapshots and emptied its list.
* `OrdersTold`, `CommitsKept`: `[]OrdersMatchEvents`, `[]CommitKept`. `AllRecorded`: an order is in the
  repository exactly from `addOrder` on and in the sink, once, exactly from `extendSink` on.
* `OrdersStay`: `OrdersOnlyGrow`, an action property. The restoring of the snapshots is the step
  to worry about: only an allocation is rolled back, and it has not touched the orders.
* `OrdersHandled`: with `Subscribed` and `OnlyHandlersAllocate` (no client asks for the handler's own
  allocation, which would then be made twice), `[]HandledOrRecorded`. `Story` follows one order from
  its announcement through its handler: allocated once and notified once, or an error and neither.
* `ImplementsShop`: with `EachSkuOnce` (no order names a SKU on two lines), `Spec => ShopSpec`: each step
  of the unit of work is one atomic step of the Shop, seen through the mapping of
  `UnitOfWorkShop`, or a stutter. The step that is not a stutter is `ExtendSink`, and `WorkInv` is what
  is known by then about what the frame read before: an allocation still has the stored
  order and the location's inventory (`Allocating`), a placing call has checked all its lines against
  products of one currency (`Placing`), the repositories differ from the snapshots by
  the body's write alone (`Writing`). Under `EachSkuOnce` the precheck of a line survives the
  taking of the others, so that an allocation inside its `with` block never raises and never
  rolls back.
* `StockBalances`: with `EachSkuOnce`, `[]StockAccounted`. The property speaks of times without a
  running request; `Accounted` closes the gap: what is missing from a location is what was
  allocated there plus what the running frame has in its hands. `leaked_stock` shows
  that without the hypothesis it is false.

The last two add up quantities with the community modules' folds. Induction over sets is
out of the prover's reach as a theorem with an operator parameter, so the lemmas under
"Sums over finite sets" prove what they need of `SumFunctionOnSet` from well-foundedness of the
naturals, with the induction predicate as a set: that the fold exists and is unique,
that adding or changing one element changes the sum by it, that functions equal on a
set have one sum.

### Circuit breaker, notifier, gateway

`CircuitBreakerProofs` proves for each method of the breaker that it keeps
`Consistent`, for every threshold above zero: closed exactly while the failures
since the last success are below the threshold, half open exactly while a probe is
marked. `on_failure` leaves a breaker closed or open, never half open: a half-open
breaker already has as many failures as the threshold. The theorems about the two
adapters rest on these lemmas.

* `PaymentGatewayProofs!TypeCorrect`, `AtRest`: `[]TypeOK`, `[]BreakerAtRest`. The
  inductive invariant adds that a waiting charge has attempts left.
* `EmailNotifierProofs!TypeCorrect`, `BreakerStaysConsistent`: from `SafeInv`, which
  adds that a call has no outcome before it is done and attempts left while it waits.
* `EmailNotifierProofs!MailsStayAccounted`: `[]MailsAccounted`. Each
  delivery adds one mail and one caller told so, because that caller had no outcome
  yet; a call served from the store adds a caller; nothing else changes either set.
* `EmailNotifierProofs!ProbeOnItsWay`: `[]HalfOpenHasProbe`. Only `Send`
  makes a breaker half open, and then marks its own call; every report leaves the
  breaker closed or open; so while it stays half open only a cancellation can move
  the probe.

### Outbox

* `TypeCorrect`, `EventWithItsRows`, `Delivered`, `DeliveredOnce`, `SentStaysSent`: `[]TypeOK`,
  `[]Together`, `[]SentWasDelivered`, and the action properties `OnceUnlessInterrupted` and
  `SentForGood`, for any writers, workers and builds. `Types` adds that a worker remembers a success only
  while it marks. `Atomic` says whose transaction reserves a key and that it holds its
  own rows with the message. `Delivery` says that a message in a worker's hands is pending,
  leased by that worker and in nobody else's hands, *unless it was interrupted*; that
  escape is what makes it inductive, since a lease may end at any time. And a message
  that was handed to the handlers and not given back is sent, or the worker that
  handed it has yet to commit its mark: so it is in no batch, and `HandsFromBatch` concludes.
* `NobodyDeadlocks`: `[]NoLockCycle`, for any number of workers. Leases end in workers' hands, so the
  batches of any two can overlap. `Ascending`: what a worker has marked, and so locked, has
  a smaller id than anything it still has ahead, and ids of stored rows differ (`IdsOK`). In a circle
  of waiting workers take the one that waits for the greatest id: whoever holds that row
  waits for a greater one.

### SQLAlchemy repositories

* `TypeCorrect`, `NothingOverwritten`, `OldLevelsGone`: `[]TypeOK` (with the foreign keys),
  `NoOverwrite` and `NothingStale`, for any sessions and
  scripts. The invariant: no two sessions hold a row (`Locks`), a row a session deleted is still
  as its DELETE found it (`Deleted`), one it inserted is not in the table or deleted first
  (`Inserted`), and each row its DELETE found is yet to be reached, deleted, or rewritten by
  another (`Replaced`). The last needs that a writer commits once (`Authors`): the content
  found can never come back.
* `LoadedWhole`: with `OrdersOnce` (no session adds an order twice, and none is there at the
  start: `OrderId.new()` does not repeat), `OrdersWhole`. `OrderInv` says that the rows of an order,
  in the table and among the rows a session has added, are there with exactly the lines of one `add`, and
  that an order found by the first query is still there for the second. An order of a session
  itself is not in the table (`Inserted`), so a load never mixes the two.

### Authentication

* `TypeCorrect`, `AdmissionIsRight`, `RefusalIsRight`: `[]TypeOK`, `[]AdmittedRightly`, `[]RefusedRightly`,
  for any processes, requests and tokens. Past the expiry check, a request could have been admitted at
  that instant *or* its token's revocation was confirmed before; the lookup, which comes
  later, rules the second out. The order of the two checks matters to the proof.

### Only model-checked

Liveness is out of the prover's reach: `EveryRequestAnswered`, `SendEnds`, `ChargeEnds`,
`DeliversOnceMended`, `SessionsEnd` and `TokensEnd` are checked by TLC on the instances of section 3.

## 5. Plan

1. `JustifiedEvents` for handlers on several threads: the property extended to what the
   bus asks for, with the frames below the running one in its invariant.
2. An abstract specification of the threaded service that orders its answers, so that
   a stale `Inventory` written back over a later PUT (`allocate_stock.py` 32) can be
   stated.
3. `Money`: half-even rounding as operators, with theorems about its error.

## 6. Not modelled

Logging, request ids, settings, the alembic environment, the benchmark and the
command line's parsing and printing hold no state that another part reads; the
commands run the use cases of `UnitOfWork` one at a time. The GET routes and the
in-memory `list()` only read. `Inventory.add`, `Inventory.remove`, `Order.add_item` and
`Order.remove_line_at` have no caller outside unit tests.

**Value objects.** `Money` and the three validated strings are immutable and each
operation is one step without state; no handler branches on an amount. SKUs, order
ids and keys are model values here.

**Anti-corruption layer.** A pure mapping, and as it stands no external order gets
through it: the payload's field is `order_items` (`acl/dto_external.py` 19, other fields
are forbidden), `acl/mapping.py` 30 reads `ext.orderItems`, and a currency ends in
`object(self, ...)` (line 29), which raises. `tests/acl/test_external_mapping_order_e2e.py`
18-36 expects it to succeed. There is no state and no interleaving to check beyond that.
