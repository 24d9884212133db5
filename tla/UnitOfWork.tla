----------------------------- MODULE UnitOfWork -----------------------------
(***************************************************************************)
(* The in-memory unit of work, its repositories and event publisher, the   *)
(* message bus, and the use cases and API routes that run on them.         *)
(*                                                                         *)
(* One application object holds ONE unit of work, shared by every request  *)
(* (api/app.py 27-40).  The routes are plain `def` functions, so FastAPI   *)
(* runs each in a worker thread: PoolSize threads interleave between any   *)
(* two statements that touch shared state.  PoolSize = 1 is the command    *)
(* line and the unit tests.  A thread is a stack of frames, the running    *)
(* one first; commit() calls the bus inside the `with` block, so a handler *)
(* that runs a use case pushes a frame on top of the one committing.       *)
(***************************************************************************)
EXTENDS Integers, Sequences, FiniteSets

CONSTANTS
    Requests,        \* the calls made of the service; also the order ids they create
    Skus,
    Locations,
    DefaultLocation, \* where the API and the bus handler allocate from
    Currencies,
    Calls,           \* what a client may ask for
    PoolSize,        \* requests served at the same time
    Subscribed,      \* the bus has the handlers of the end-to-end test
    Catalogue,       \* products present at the start: SKU -> currency
    InitialStock,    \* inventories present at the start: location -> levels
    None             \* Python's None

Lines == [sku : Skus, quantity : Int]
Levels == [Skus -> Int]

PlaceCalls == [op : {"place"}, items : Seq(Lines)]
AllocateCalls == [op : {"allocate"}, order : Requests, location : Locations]
ProductCalls == [op : {"product"}, sku : Skus, currency : Currencies]
StockCalls == [op : {"stock"}, location : Locations, levels : [Skus -> Nat]]
AllCalls == PlaceCalls \cup AllocateCalls \cup ProductCalls \cup StockCalls

IsDict(d, K, V) == DOMAIN d \subseteq K /\ d \in [DOMAIN d -> V]
Put(d, k, v) == [x \in DOMAIN d \cup {k} |-> IF x = k THEN v ELSE d[x]]

ASSUME NamesAssumption ==
    /\ IsFiniteSet(Requests)
    /\ DefaultLocation \in Locations
    /\ Requests \cap Locations = {}
ASSUME CallsAssumption == None \notin Calls /\ \A c \in Calls : c \in AllCalls
ASSUME PoolAssumption == PoolSize \in Nat /\ Subscribed \in BOOLEAN
ASSUME NoneAssumption ==
    /\ \A D \in SUBSET Skus : None \notin [D -> Currencies]
    /\ \A D \in SUBSET Requests : None \notin [D -> Seq(Lines)]
    /\ \A D \in SUBSET Locations : None \notin [D -> Requests \cup Locations]
    /\ None \notin Requests \cup Locations
ASSUME SeedAssumption ==
    /\ IsDict(Catalogue, Skus, Currencies)
    /\ IsDict(InitialStock, Locations, [Skus -> Nat])

\* An Inventory object is named by what created it: the location for one
\* present at the start, the PUT request otherwise.
Objects == Requests \cup Locations

Repos == <<"products", "orders", "inventories">>

OrderPlaced(o) == [type |-> "OrderPlaced", order |-> o]
StockAllocated(o, l) == [type |-> "StockAllocated", order |-> o, location |-> l]
Events == {OrderPlaced(o) : o \in Requests}
          \cup {StockAllocated(o, l) : o \in Requests, l \in Locations}

VARIABLES
    repo,       \* the three repositories' `items` dictionaries
    stock,      \* the heap of Inventory objects: their on-hand levels
    snap,       \* the three snapshots, or None
    inContext,  \* _in_context
    committed,  \* _committed
    pending,    \* _pending_events
    sink,       \* event_sink.events
    sent,       \* what the subscribed notifier has sent
    errors,     \* events whose handler raised, as the bus records them
    calls,      \* what each request asked for, None before it arrives
    frames,     \* the call stack of the thread that serves each request
    result      \* "none" until the request is answered with "ok" or "raised"

stores == <<repo, stock>>
uow == <<snap, inContext, committed, pending>>
logs == <<sink, sent, errors>>
vars == <<repo, stock, snap, inContext, committed, pending, sink, sent, errors,
          calls, frames, result>>

-----------------------------------------------------------------------------
(* Frames *)

FirstStep(op) == CASE op = "place" -> "readProduct"
                   [] op = "allocate" -> "getOrder"
                   [] OTHER -> "enter"

BodyStep(op) == CASE op = "place" -> "addOrder"
                  [] op = "allocate" -> "canFulfill"
                  [] op = "product" -> "addProduct"
                  [] op = "stock" -> "upsert"

NewFrame(c) ==
    [call |-> c, pc |-> FirstStep(c.op),
     lines |-> IF c.op = "place" THEN c.items ELSE <<>>,
     index |-> 1, inventory |-> None, currencies |-> {}, onHand |-> 0, batch |-> <<>>]

Top(r) == Head(frames[r])
At(r, pc) == frames[r] # <<>> /\ Top(r).pc = pc
Line(r) == Top(r).lines[Top(r).index]
LinesLeft(r) == Top(r).index <= Len(Top(r).lines)
Available(r) == stock[Top(r).inventory][Line(r).sku]

\* The running frame of request r becomes f.
Become(r, f) == frames' = [frames EXCEPT ![r] = <<f>> \o Tail(@)]
Goto(r, pc) == Become(r, [Top(r) EXCEPT !.pc = pc, !.index = 1])
Advance(r) == Become(r, [Top(r) EXCEPT !.index = @ + 1])

\* Faulty variants of Return: the bus drops a handler's exception, or tries the
\* handler again.
Return_Unrecorded(r, outcome) ==
    /\ frames' = [frames EXCEPT ![r] = IF Len(@) = 1 THEN <<>> ELSE
                    <<[Head(Tail(@)) EXCEPT !.batch = Tail(@)]>> \o Tail(Tail(@))]
    /\ result' = IF Len(frames[r]) = 1 THEN [result EXCEPT ![r] = outcome] ELSE result
    /\ UNCHANGED errors
Return_Retried(r, outcome) ==
    /\ frames' = [frames EXCEPT ![r] = IF outcome = "raised" THEN Tail(@)
                    ELSE IF Len(@) = 1 THEN <<>> ELSE
                    <<[Head(Tail(@)) EXCEPT !.batch = Tail(@)]>> \o Tail(Tail(@))]
    /\ result' = IF Len(frames[r]) = 1 THEN [result EXCEPT ![r] = outcome] ELSE result
    /\ UNCHANGED errors

\* The running frame ends.  At the bottom of the stack its outcome answers the
\* request; otherwise the bus goes on with the batch of the frame below, after
\* recording an exception of the handler.
Return(r, outcome) ==
    \/ /\ Tail(frames[r]) = <<>>
       /\ frames' = [frames EXCEPT ![r] = <<>>]
       /\ result' = [result EXCEPT ![r] = outcome]
       /\ UNCHANGED errors
    \/ /\ Tail(frames[r]) # <<>>
       /\ LET caller == Head(Tail(frames[r])) IN
          /\ frames' = [frames EXCEPT ![r] =
                          <<[caller EXCEPT !.batch = Tail(@)]>> \o Tail(Tail(@))]
          /\ errors' = IF outcome = "raised" THEN errors \cup {Head(caller.batch)}
                                             ELSE errors
       /\ UNCHANGED result

Busy == {r \in Requests : frames[r] # <<>>}

\* What the use case announces.
Announcement(r) == LET c == Top(r).call IN
    IF c.op = "place" THEN OrderPlaced(r) ELSE StockAllocated(c.order, c.location)

Dispatching(r) == At(r, "dispatch") \/ At(r, "dispatchNow")

-----------------------------------------------------------------------------
(* Faulty variants of the actions below: the mistakes the properties must tell *)
(* from the code.                                                              *)

\* The check of Inventory.allocate is left out; its loop stops one line early.
CanFulfill_Unchecked(r) ==
    /\ At(r, "canFulfill")
    /\ Become(r, [Top(r) EXCEPT !.pc = IF LinesLeft(r) THEN "load" ELSE "upsert"])
    /\ UNCHANGED <<stores, uow, logs, calls, result>>
CanFulfill_OneLineShort(r) ==
    /\ At(r, "canFulfill")
    /\ Become(r, [Top(r) EXCEPT !.pc =
                    IF Top(r).index >= Len(Top(r).lines) THEN "upsert" ELSE "load"])
    /\ UNCHANGED <<stores, uow, logs, calls, result>>

\* The inventory is stored under another key than its location.
UpsertInventory_KeyedBy(r, key) ==
    /\ At(r, "upsert")
    /\ LET object == IF Top(r).call.op = "stock" THEN r ELSE Top(r).inventory IN
       repo' = [repo EXCEPT !.inventories = Put(@, key, object)]
    /\ Goto(r, IF Top(r).call.op = "stock" THEN "copyPending" ELSE "publish")
    /\ UNCHANGED <<stock, uow, logs, calls, result>>
UpsertInventory_ByObject(r) == UpsertInventory_KeyedBy(r, r)
UpsertInventory_AtDefault(r) == UpsertInventory_KeyedBy(r, DefaultLocation)

\* The `with` block ends without commit().
Buffer_NoCommit(r) ==
    /\ At(r, "buffer")
    /\ pending' = Append(pending, Announcement(r))
    /\ Goto(r, "exit")
    /\ UNCHANGED <<stores, snap, inContext, committed, logs, calls, result>>

\* _clear_snapshots forgets the inventories.
ClearSnapshot_TwoOfThree(r) ==
    \E pc \in {"forget", "forgetRestored"} :
        /\ At(r, pc)
        /\ snap' = [snap EXCEPT ![Repos[Top(r).index]] = None]
        /\ IF Top(r).index < 2 THEN Advance(r)
           ELSE Goto(r, IF pc = "forget" THEN "setCommitted" ELSE "rolledBack")
        /\ UNCHANGED <<stores, inContext, committed, pending, logs, calls, result>>

\* An exception of a handler leaves commit() although the sink has the events.
EndDispatch_Escaping(r) ==
    /\ Dispatching(r)
    /\ Top(r).batch = <<>> \/ ~Subscribed
    /\ Become(r, [Top(r) EXCEPT !.pc = IF @ = "dispatch" THEN "exitRaising" ELSE "copyPending",
                                !.batch = <<>>])
    /\ UNCHANGED <<stores, uow, logs, calls, result>>

\* A rollback empties the repositories instead of restoring them.
Restore_Emptied(r) ==
    /\ At(r, "restore")
    /\ repo' = [repo EXCEPT ![Repos[Top(r).index]] = <<>>]
    /\ IF Top(r).index < Len(Repos) THEN Advance(r) ELSE Goto(r, "forgetRestored")
    /\ UNCHANGED <<stock, uow, logs, calls, result>>

\* __exit__ without its `finally`.
Exit_NoFinally(r) ==
    \/ At(r, "exit") /\ Return(r, "ok") /\ inContext' = FALSE
       /\ UNCHANGED <<stores, snap, committed, pending, sink, sent, calls>>
    \/ At(r, "exitRaising") /\ Return(r, "raised")
       /\ UNCHANGED <<stores, uow, sink, sent, calls>>

-----------------------------------------------------------------------------
Init ==
    /\ repo = [products |-> Catalogue, orders |-> <<>>,
               inventories |-> [l \in DOMAIN InitialStock |-> l]]
    /\ stock = [x \in Objects |-> IF x \in DOMAIN InitialStock
                                  THEN InitialStock[x] ELSE [s \in Skus |-> 0]]
    /\ snap = [products |-> None, orders |-> None, inventories |-> None]
    /\ inContext = FALSE
    /\ committed = FALSE
    /\ pending = <<>>
    /\ sink = <<>>
    /\ sent = <<>>
    /\ errors = {}
    /\ calls = [r \in Requests |-> None]
    /\ frames = [r \in Requests |-> <<>>]
    /\ result = [r \in Requests |-> "none"]

\* A worker thread takes up request r.  PUT /inventory fills a new Inventory
\* object, which no other thread can see yet.
Receive(r, c) ==
    /\ calls[r] = None
    /\ Cardinality(Busy) < PoolSize
    /\ calls' = [calls EXCEPT ![r] = c]
    /\ frames' = [frames EXCEPT ![r] = <<NewFrame(c)>>]
    /\ stock' = IF c.op = "stock" THEN [stock EXCEPT ![r] = c.levels] ELSE stock
    /\ UNCHANGED <<repo, uow, logs, result>>

-----------------------------------------------------------------------------
(* PlaceOrderUseCase, before its `with` block *)

Orderable(r) == Line(r).sku \in DOMAIN repo.products /\ Line(r).quantity > 0

ReadProduct(r) ==
    /\ At(r, "readProduct")
    /\ LinesLeft(r) /\ Orderable(r)
    /\ Become(r, [Top(r) EXCEPT !.index = @ + 1,
                    !.currencies = @ \cup {repo.products[Line(r).sku]}])
    /\ UNCHANGED <<stores, uow, logs, calls, result>>

CreateOrder(r) ==
    /\ At(r, "readProduct")
    /\ Top(r).lines # <<>> /\ ~LinesLeft(r)
    /\ \A c, d \in Top(r).currencies : c = d
    /\ Goto(r, "enter")
    /\ UNCHANGED <<stores, uow, logs, calls, result>>

RefuseOrder(r) ==
    /\ At(r, "readProduct")
    /\ \/ Top(r).lines = <<>>
       \/ LinesLeft(r) /\ ~Orderable(r)
       \/ ~LinesLeft(r) /\ \E c, d \in Top(r).currencies : c # d
    /\ Return(r, "raised")
    /\ UNCHANGED <<stores, uow, sink, sent, calls>>

-----------------------------------------------------------------------------
(* AllocateStockUseCase, before its `with` block *)

GetOrder(r) ==
    /\ At(r, "getOrder")
    /\ LET o == Top(r).call.order IN
       \/ /\ o \in DOMAIN repo.orders
          /\ Become(r, [Top(r) EXCEPT !.pc = "getInventory", !.lines = repo.orders[o]])
          /\ UNCHANGED <<result, errors>>
       \/ o \notin DOMAIN repo.orders /\ Return(r, "raised")
    /\ UNCHANGED <<stores, uow, sink, sent, calls>>

GetInventory(r) ==
    /\ At(r, "getInventory")
    /\ LET l == Top(r).call.location IN
       \/ /\ l \in DOMAIN repo.inventories
          /\ Become(r, [Top(r) EXCEPT !.pc = "precheck", !.inventory = repo.inventories[l]])
          /\ UNCHANGED <<result, errors>>
       \/ l \notin DOMAIN repo.inventories /\ Return(r, "raised")
    /\ UNCHANGED <<stores, uow, sink, sent, calls>>

Precheck(r) ==
    /\ At(r, "precheck")
    /\ \/ LinesLeft(r) /\ Available(r) >= Line(r).quantity
          /\ Advance(r) /\ UNCHANGED <<result, errors>>
       \/ LinesLeft(r) /\ Available(r) < Line(r).quantity
          /\ Return(r, "raised")
       \/ ~LinesLeft(r) /\ Goto(r, "enter") /\ UNCHANGED <<result, errors>>
    /\ UNCHANGED <<stores, uow, sink, sent, calls>>

-----------------------------------------------------------------------------
(* __enter__ *)

Enter(r) ==
    /\ At(r, "enter")
    /\ inContext' = TRUE
    /\ committed' = FALSE
    /\ Goto(r, "snapshot")
    /\ UNCHANGED <<stores, snap, pending, logs, calls, result>>

TakeSnapshot(r) ==
    /\ At(r, "snapshot")
    /\ LET k == Top(r).index IN
       /\ snap' = [snap EXCEPT ![Repos[k]] = repo[Repos[k]]]
       /\ IF k < Len(Repos) THEN Advance(r) ELSE Goto(r, "clearPending")
    /\ UNCHANGED <<stores, inContext, committed, pending, logs, calls, result>>

ClearPending(r) ==
    /\ At(r, "clearPending")
    /\ pending' = <<>>
    /\ Goto(r, BodyStep(Top(r).call.op))
    /\ UNCHANGED <<stores, snap, inContext, committed, logs, calls, result>>

-----------------------------------------------------------------------------
(* The bodies of the `with` blocks *)

AddProduct(r) ==
    /\ At(r, "addProduct")
    /\ repo' = [repo EXCEPT !.products = Put(@, Top(r).call.sku, Top(r).call.currency)]
    /\ Goto(r, "copyPending")
    /\ UNCHANGED <<stock, uow, logs, calls, result>>

AddOrder(r) ==
    /\ At(r, "addOrder")
    /\ repo' = [repo EXCEPT !.orders = Put(@, r, Top(r).lines)]
    /\ Goto(r, "publish")
    /\ UNCHANGED <<stock, uow, logs, calls, result>>

\* Inventory.allocate: the check, the second read and the write are three steps.
CanFulfill(r) ==
    /\ At(r, "canFulfill")
    /\ Become(r, [Top(r) EXCEPT !.pc = IF ~LinesLeft(r) THEN "upsert"
                                       ELSE IF Available(r) >= Line(r).quantity THEN "load"
                                       ELSE "rollback"])
    /\ UNCHANGED <<stores, uow, logs, calls, result>>

LoadOnHand(r) ==
    /\ At(r, "load")
    /\ Become(r, [Top(r) EXCEPT !.pc = "store", !.onHand = Available(r)])
    /\ UNCHANGED <<stores, uow, logs, calls, result>>

StoreOnHand(r) ==
    /\ At(r, "store")
    /\ stock' = [stock EXCEPT ![Top(r).inventory] =
                   [@ EXCEPT ![Line(r).sku] = Top(r).onHand - Line(r).quantity]]
    /\ Become(r, [Top(r) EXCEPT !.pc = "canFulfill", !.index = @ + 1, !.onHand = 0])
    /\ UNCHANGED <<repo, uow, logs, calls, result>>

UpsertInventory(r) ==
    /\ At(r, "upsert")
    /\ LET c == Top(r).call
           object == IF c.op = "stock" THEN r ELSE Top(r).inventory IN
       /\ repo' = [repo EXCEPT !.inventories = Put(@, c.location, object)]
       /\ Goto(r, IF c.op = "stock" THEN "copyPending" ELSE "publish")
    /\ UNCHANGED <<stock, uow, logs, calls, result>>

\* TransactionalEventPublisher.publish: the test of _in_context, then the append.
\* Another thread's __exit__ may have cleared the flag meanwhile; the event then
\* goes straight to the sink and the bus.
Publish(r) ==
    /\ At(r, "publish")
    /\ Goto(r, IF inContext THEN "buffer" ELSE "sinkNow")
    /\ UNCHANGED <<stores, uow, logs, calls, result>>

Buffer(r) ==
    /\ At(r, "buffer")
    /\ pending' = Append(pending, Announcement(r))
    /\ Goto(r, "copyPending")
    /\ UNCHANGED <<stores, snap, inContext, committed, logs, calls, result>>

SinkNow(r) ==
    /\ At(r, "sinkNow")
    /\ sink' = Append(sink, Announcement(r))
    /\ Become(r, [Top(r) EXCEPT !.pc = "dispatchNow", !.batch = <<Announcement(r)>>])
    /\ UNCHANGED <<stores, uow, sent, errors, calls, result>>

-----------------------------------------------------------------------------
(* commit() *)

CopyPending(r) ==
    /\ At(r, "copyPending")
    /\ Become(r, [Top(r) EXCEPT !.pc = "extendSink", !.batch = pending])
    /\ UNCHANGED <<stores, uow, logs, calls, result>>

ExtendSink(r) ==
    /\ At(r, "extendSink")
    /\ sink' = sink \o Top(r).batch
    /\ Goto(r, "discard")
    /\ UNCHANGED <<stores, uow, sent, errors, calls, result>>

DiscardPending(r) ==
    /\ At(r, "discard")
    /\ pending' = <<>>
    /\ Goto(r, "forget")
    /\ UNCHANGED <<stores, snap, inContext, committed, logs, calls, result>>

\* _clear_snapshots, called by commit and by a completed restore.
ClearSnapshot(r) ==
    \E pc \in {"forget", "forgetRestored"} :
        /\ At(r, pc)
        /\ snap' = [snap EXCEPT ![Repos[Top(r).index]] = None]
        /\ IF Top(r).index < Len(Repos) THEN Advance(r)
           ELSE Goto(r, IF pc = "forget" THEN "setCommitted" ELSE "rolledBack")
        /\ UNCHANGED <<stores, inContext, committed, pending, logs, calls, result>>

SetCommitted(r) ==
    /\ At(r, "setCommitted")
    /\ committed' = TRUE
    /\ Goto(r, "dispatch")
    /\ UNCHANGED <<stores, snap, inContext, pending, logs, calls, result>>

\* MessageBus.publish for each event of the batch.  The subscribed handlers are
\* those of the end-to-end test: allocate what was placed, notify what was
\* allocated.
Notify(r) ==
    /\ Dispatching(r)
    /\ Subscribed /\ Top(r).batch # <<>>
    /\ LET e == Head(Top(r).batch) IN
       /\ e.type = "StockAllocated"
       /\ sent' = Append(sent, e)
    /\ Become(r, [Top(r) EXCEPT !.batch = Tail(@)])
    /\ UNCHANGED <<stores, uow, sink, errors, calls, result>>

CallAllocate(r) ==
    /\ Dispatching(r)
    /\ Subscribed /\ Top(r).batch # <<>>
    /\ LET e == Head(Top(r).batch) IN
       /\ e.type = "OrderPlaced"
       /\ frames' = [frames EXCEPT ![r] =
                       <<NewFrame([op |-> "allocate", order |-> e.order,
                                   location |-> DefaultLocation])>> \o @]
    /\ UNCHANGED <<stores, uow, logs, calls, result>>

EndDispatch(r) ==
    /\ Dispatching(r)
    /\ Top(r).batch = <<>> \/ ~Subscribed
    /\ Become(r, [Top(r) EXCEPT !.pc = IF @ = "dispatch" THEN "exit" ELSE "copyPending",
                                !.batch = <<>>])
    /\ UNCHANGED <<stores, uow, logs, calls, result>>

-----------------------------------------------------------------------------
(* rollback() and __exit__ *)

Rollback(r) ==
    /\ At(r, "rollback")
    /\ Goto(r, IF \E k \in DOMAIN snap : snap[k] = None THEN "rolledBack" ELSE "restore")
    /\ UNCHANGED <<stores, uow, logs, calls, result>>

\* dict(None) is a TypeError: it leaves rollback, and __exit__ by its `finally`.
Restore(r) ==
    /\ At(r, "restore")
    /\ LET k == Top(r).index
           old == snap[Repos[k]] IN
       \/ /\ old # None
          /\ repo' = [repo EXCEPT ![Repos[k]] = old]
          /\ IF k < Len(Repos) THEN Advance(r) ELSE Goto(r, "forgetRestored")
       \/ /\ old = None
          /\ Goto(r, "exitRaising")
          /\ UNCHANGED repo
    /\ UNCHANGED <<stock, uow, logs, calls, result>>

RolledBack(r) ==
    /\ At(r, "rolledBack")
    /\ pending' = <<>>
    /\ committed' = FALSE
    /\ Goto(r, "exitRaising")
    /\ UNCHANGED <<stores, snap, inContext, logs, calls, result>>

Exit(r) ==
    /\ \/ At(r, "exit") /\ Return(r, "ok")
       \/ At(r, "exitRaising") /\ Return(r, "raised")
    /\ inContext' = FALSE
    /\ UNCHANGED <<stores, snap, committed, pending, sink, sent, calls>>

-----------------------------------------------------------------------------
Step(r) ==
    \/ ReadProduct(r) \/ CreateOrder(r) \/ RefuseOrder(r)
    \/ GetOrder(r) \/ GetInventory(r) \/ Precheck(r)
    \/ Enter(r) \/ TakeSnapshot(r) \/ ClearPending(r)
    \/ AddProduct(r) \/ AddOrder(r) \/ UpsertInventory(r)
    \/ CanFulfill(r) \/ LoadOnHand(r) \/ StoreOnHand(r)
    \/ Publish(r) \/ Buffer(r) \/ SinkNow(r)
    \/ CopyPending(r) \/ ExtendSink(r) \/ DiscardPending(r)
    \/ ClearSnapshot(r) \/ SetCommitted(r)
    \/ Notify(r) \/ CallAllocate(r) \/ EndDispatch(r)
    \/ Rollback(r) \/ Restore(r) \/ RolledBack(r) \/ Exit(r)

\* Every request has been answered: the workers are idle.
AllServed ==
    /\ \A r \in Requests : result[r] # "none"
    /\ UNCHANGED vars

Next == (\E r \in Requests : Step(r) \/ \E c \in Calls : Receive(r, c)) \/ AllServed

Spec == Init /\ [][Next]_vars

\* The operating system keeps running every worker thread; no request need arrive.
FairSpec == Spec /\ \A r \in Requests : WF_vars(Step(r))

-----------------------------------------------------------------------------
(* Properties *)

PCs == {"readProduct", "getOrder", "getInventory", "precheck", "enter", "snapshot",
        "clearPending", "addProduct", "addOrder", "canFulfill", "load", "store",
        "upsert", "publish", "buffer", "sinkNow", "dispatchNow", "copyPending",
        "extendSink", "discard", "forget", "setCommitted", "dispatch", "rollback",
        "restore", "forgetRestored", "rolledBack", "exit", "exitRaising"}

Frame == [call : AllCalls, pc : PCs, lines : Seq(Lines), index : Nat \ {0},
          inventory : Objects \cup {None}, currencies : SUBSET Currencies,
          onHand : Int, batch : Seq(Events)]

IsProducts(d) == IsDict(d, Skus, Currencies)
IsOrders(d) == IsDict(d, Requests, Seq(Lines))
IsInventories(d) == IsDict(d, Locations, Objects)

\* Each variable has its type: the dictionaries of the repositories and their
\* snapshots, the heap of inventories, the event lists, the threads' frames.
TypeOK ==
    /\ DOMAIN repo = {"products", "orders", "inventories"}
    /\ IsProducts(repo.products) /\ IsOrders(repo.orders) /\ IsInventories(repo.inventories)
    /\ stock \in [Objects -> Levels]
    /\ DOMAIN snap = DOMAIN repo
    /\ snap.products = None \/ IsProducts(snap.products)
    /\ snap.orders = None \/ IsOrders(snap.orders)
    /\ snap.inventories = None \/ IsInventories(snap.inventories)
    /\ inContext \in BOOLEAN /\ committed \in BOOLEAN
    /\ pending \in Seq(Events) /\ sink \in Seq(Events) /\ sent \in Seq(Events)
    /\ errors \in SUBSET Events
    /\ calls \in [Requests -> Calls \cup {None}]
    /\ frames \in [Requests -> Seq(Frame)]
    /\ result \in [Requests -> {"none", "ok", "raised"}]

\* "Inventory keeps on-hand quantities per SKU with the invariant: stock >= 0"
\* (inventory.py 11), for the check-then-write of Inventory.allocate.
StockNonNegative == \A x \in Objects, s \in Skus : stock[x][s] >= 0

Placed(r) == result[r] = "ok" /\ calls[r].op = "place"
Times(e) == Cardinality({i \in DOMAIN sink : sink[i] = e})

\* What a successful PlaceOrder committed stays, whatever the requests beside it do:
\* the order in the repository and its event in the sink (the assertions on the
\* committed unit of work in test_unit_of_work.py 22-27).
CommitKept ==
    \A r \in Requests : Placed(r) => r \in DOMAIN repo.orders /\ Times(OrderPlaced(r)) > 0

\* Between requests the repository and the event log tell the same story: an
\* order is there if and only if its call succeeded, and was announced once; an
\* order that was refused left nothing (place_order.py 67-70).
OrdersMatchEvents ==
    Busy = {} =>
        \A r \in Requests :
            /\ Placed(r) <=> r \in DOMAIN repo.orders
            /\ Times(OrderPlaced(r)) = IF Placed(r) THEN 1 ELSE 0

\* With no request running, nothing is left of the last one: no buffered event
\* for the next commit to flush, and publish() outside a `with` block is direct
\* again (__exit__'s finally, commit and rollback), whichever threads overlapped.
QuietWhenIdle == Busy = {} => ~inContext /\ pending = <<>>

\* Nor a snapshot that a later rollback could restore (commit, _restore_snapshots).
NoSnapshotLeft == Busy = {} => \A k \in DOMAIN snap : snap[k] = None

\* The frames that have gone through the whole allocation loop.
Announcing == {"upsert", "publish", "buffer", "sinkNow", "dispatchNow", "copyPending",
               "extendSink", "discard", "forget", "setCommitted", "dispatch", "exit"}

\* No event without its cause, even when one thread commits what another has
\* buffered: an order is announced only by a PlaceOrder that was not refused, an
\* allocation only by an AllocateStock call that took every line.
JustifiedEvents ==
    \A i \in DOMAIN (sink \o pending) :
        LET e == (sink \o pending)[i]
            completed(r) == \/ result[r] = "ok"
                            \/ frames[r] # <<>> /\ Top(r).pc \in Announcing
        IN  IF e.type = "OrderPlaced"
            THEN calls[e.order].op = "place" /\ completed(e.order)
            ELSE \E r \in Requests :
                    /\ calls[r] = [op |-> "allocate", order |-> e.order,
                                   location |-> e.location]
                    /\ completed(r)

\* With the bus handlers subscribed, between requests every announced order is
\* either allocated and notified, once each, or its failure is on the bus's error
\* list; never both, never neither (message_bus.py 25-30 swallows exceptions).
HandledOrRecorded ==
    Busy = {} =>
        \A r \in Requests : Times(OrderPlaced(r)) > 0 =>
            LET done == StockAllocated(r, DefaultLocation)
                notified == {i \in DOMAIN sent : sent[i] = done}
            IN  IF OrderPlaced(r) \in errors
                THEN Times(done) = 0 /\ notified = {}
                ELSE Times(done) = 1 /\ Cardinality(notified) = 1

\* No step takes an order away or changes its lines: a rollback undoes only the
\* work of its own unit of work.
OrdersOnlyGrow ==
    [][\A o \in DOMAIN repo.orders :
          o \in DOMAIN repo'.orders /\ repo'.orders[o] = repo.orders[o]]_vars

\* Every request is answered: no handler loops, and none waits for another.
EveryRequestAnswered ==
    \A r \in Requests : calls[r] # None ~> result[r] # "none"
=============================================================================
