-------------------------------- MODULE Shop --------------------------------
(***************************************************************************)
(* What the service promises, with nothing of how: products, orders,       *)
(* stock and the log of announcements change together, one call at a time. *)
(* An order is placed only for known products of one currency and is       *)
(* announced in the same step; an allocation takes the whole order or      *)
(* nothing.  A refused call is no step at all.                             *)
(***************************************************************************)
EXTENDS Integers, Sequences, Functions

CONSTANTS Skus, Requests, Calls, Catalogue, InitialStock

VARIABLES
    products,   \* SKU -> currency
    orders,     \* order id -> lines
    shelf,      \* location -> SKU -> units on hand
    log         \* announcements, in order

vars == <<products, orders, shelf, log>>

Insert(d, k, v) == [x \in DOMAIN d \cup {k} |-> IF x = k THEN v ELSE d[x]]

\* Units of s on some lines of an order: a SKU may be on several of them.
Units(lines, s, chosen) ==
    SumFunction([i \in {i \in chosen : lines[i].sku = s} |-> lines[i].quantity])
Needed(lines, s) == Units(lines, s, DOMAIN lines)

Init ==
    /\ products = Catalogue
    /\ orders = <<>>
    /\ shelf = InitialStock
    /\ log = <<>>

AddProduct(sku, currency) ==
    /\ products' = Insert(products, sku, currency)
    /\ UNCHANGED <<orders, shelf, log>>

SetStock(l, levels) ==
    /\ shelf' = Insert(shelf, l, levels)
    /\ UNCHANGED <<products, orders, log>>

Place(o, items) ==
    /\ o \notin DOMAIN orders
    /\ items # <<>>
    /\ \A i \in DOMAIN items :
          items[i].sku \in DOMAIN products /\ items[i].quantity > 0
    /\ \A i, j \in DOMAIN items : products[items[i].sku] = products[items[j].sku]
    /\ orders' = Insert(orders, o, items)
    /\ log' = Append(log, [type |-> "OrderPlaced", order |-> o])
    /\ UNCHANGED <<products, shelf>>

Allocate(o, l) ==
    /\ o \in DOMAIN orders /\ l \in DOMAIN shelf
    /\ \A s \in Skus : Needed(orders[o], s) <= shelf[l][s]
    /\ shelf' = [shelf EXCEPT ![l] = [s \in Skus |-> @[s] - Needed(orders[o], s)]]
    /\ log' = Append(log, [type |-> "StockAllocated", order |-> o, location |-> l])
    /\ UNCHANGED <<products, orders>>

Next ==
    \/ \E c \in Calls :
          \/ c.op = "product" /\ AddProduct(c.sku, c.currency)
          \/ c.op = "stock" /\ SetStock(c.location, c.levels)
          \/ c.op = "place" /\ \E o \in Requests : Place(o, c.items)
    \/ \E o \in Requests : \E l \in DOMAIN shelf : Allocate(o, l)

Spec == Init /\ [][Next]_vars
=============================================================================
