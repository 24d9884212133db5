--------------------------- MODULE UnitOfWorkShop ---------------------------
(***************************************************************************)
(* The unit of work, served by one thread, implements the Shop.  A call    *)
(* takes effect when commit() extends the sink: until then the Shop keeps  *)
(* the snapshots, and the units an allocation has already taken out of the *)
(* Inventory object in place are counted as still on the shelf.            *)
(***************************************************************************)
EXTENDS UnitOfWork, Functions

\* A unit of work that has taken its snapshots and has not committed.
OpenSteps == {"addProduct", "addOrder", "canFulfill", "load", "store", "upsert",
              "publish", "buffer", "copyPending", "extendSink", "rollback", "restore"}
Uncommitted == {r \in Busy : Top(r).pc \in OpenSteps}

ViewOf(name) == IF Uncommitted = {} THEN repo[name] ELSE snap[name]

\* The lines an allocation has taken from its inventory so far.
Taken(r) == IF Top(r).pc \in {"canFulfill", "load", "store"}
            THEN 1..(Top(r).index - 1) ELSE DOMAIN Top(r).lines
TakenOf(r, s) ==
    SumFunction([i \in {i \in Taken(r) : Top(r).lines[i].sku = s} |-> Top(r).lines[i].quantity])
OnShelf(x, s) ==
    LET taking == {r \in Uncommitted : Top(r).inventory = x}
    IN  stock[x][s] + SumFunction([r \in taking |-> TakenOf(r, s)])

Shelf == LET view == ViewOf("inventories")
         IN  [l \in DOMAIN view |-> [s \in Skus |-> OnShelf(view[l], s)]]

S == INSTANCE Shop WITH products <- ViewOf("products"), orders <- ViewOf("orders"),
                        shelf <- Shelf, log <- sink

\* Every call is atomic to the rest of the service: it has all of its effects,
\* announcement included, in one step, or none (UnitOfWork.commit and rollback
\* around the bodies of the use cases).
ShopSpec == S!Spec

\* The Inventory objects that have been a location's, and the levels they came with.
ObjectsOf(l) == {x \in Objects : \/ x = l /\ x \in DOMAIN InitialStock
                                 \/ /\ x \in Requests /\ calls[x] # None
                                    /\ calls[x].op = "stock" /\ calls[x].location = l}
Given(x) == IF x \in DOMAIN InitialStock THEN InitialStock[x] ELSE calls[x].levels
Missing(l, s) == SumFunction([x \in ObjectsOf(l) |-> Given(x)[s] - stock[x][s]])

\* What was allocated at a location, as the event sink has it.
AllocationsAt(l) == {i \in DOMAIN sink : sink[i].type = "StockAllocated" /\ sink[i].location = l}
Allocated(l, s) ==
    SumFunction([i \in AllocationsAt(l) |-> S!Needed(repo.orders[sink[i].order], s)])

\* Stock is neither lost nor created: between requests, what is missing from the
\* Inventory objects of a location is what was allocated and announced there.  A
\* failed allocation therefore gave back what it had taken (allocate_stock.py
\* 42-47, rolled back by __exit__).
StockAccounted ==
    Busy = {} => \A l \in Locations, s \in Skus : Missing(l, s) = Allocated(l, s)
=============================================================================
