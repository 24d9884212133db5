------------------------- MODULE MCSqlRepositories -------------------------
(* A small instance of SqlRepositories for TLC. *)
EXTENDS SqlRepositories

CONSTANTS s1, s2, s3, A, B, main, annex, o1, o2

Call(op) == [op |-> op]
Adding(k) == [op |-> "addProduct", sku |-> k]
Ordering(o, ks) == [op |-> "addOrder", order |-> o, skus |-> ks]
Reading(os) == [op |-> "orders", orders |-> os]
Getting(l) == [op |-> "get", at |-> l]
Setting(l, ks) == [op |-> "upsert", at |-> l, skus |-> ks, seen |-> TRUE]
Replacing(l, ks) == [op |-> "upsert", at |-> l, skus |-> ks, seen |-> FALSE]

\* An allocation: read an order, read the levels, write them back.  Two locations, one
\* of them new, in either order.  A new product, the contents replaced, and its first
\* level set.  Two orders, one of a product that may not be there.  The lists.
MCScripts ==
    {<<Reading({o1}), Getting(main), Setting(main, {A})>>,
     <<Replacing(main, {A}), Replacing(annex, {A})>>,
     <<Replacing(annex, {A}), Replacing(main, {A})>>,
     <<Adding(B), Call("products"), Replacing(main, {A}), Getting(main), Setting(main, {B})>>,
     <<Ordering(o1, {A, B}), Ordering(o2, {A})>>,
     <<Reading({o1, o2}), Call("stocks")>>}

MCSeeded == {Product(A), Location(main), Item(main, A)}
=============================================================================
