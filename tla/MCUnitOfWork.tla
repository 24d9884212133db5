---------------------------- MODULE MCUnitOfWork ----------------------------
(* Small instances of UnitOfWork for TLC. *)
EXTENDS UnitOfWork, TLC

CONSTANTS r1, r2, r3, skuA, skuB, skuC, main, annex, usd, eur

MCCatalogue == (skuA :> usd) @@ (skuB :> usd)
StockOf(m, n) == [s \in Skus |-> CASE s = skuA -> m [] s = skuB -> n [] OTHER -> 0]
MCStock == main :> StockOf(2, 1)

Cart(s, q) == <<[sku |-> s, quantity |-> q]>>
PlaceCall(items) == [op |-> "place", items |-> items]
AllocateAt(ls) == [op : {"allocate"}, order : Requests, location : ls]

\* The bus handler allocates every order at main; a client may only do so at annex.
\* Every kind of cart: empty, a zero quantity, one line, two SKUs, the same SKU
\* twice, and a SKU that is unknown or, once added, priced in another currency.
SerialCalls ==
    {PlaceCall(i) : i \in {<<>>, Cart(skuB, 0), Cart(skuA, 1), Cart(skuA, 1) \o Cart(skuB, 1),
                           Cart(skuA, 1) \o Cart(skuA, 2), Cart(skuA, 1) \o Cart(skuC, 1)}}
    \cup AllocateAt({annex})
    \cup {[op |-> "product", sku |-> skuC, currency |-> eur]}
    \cup {[op |-> "stock", location |-> annex, levels |-> StockOf(1, 1)]}
    \cup {[op |-> "stock", location |-> main, levels |-> StockOf(1, 0)]}

ThreadCalls ==
    {PlaceCall(i) : i \in {Cart(skuA, 1), Cart(skuA, 1) \o Cart(skuA, 2)}}
    \cup AllocateAt({main})
    \cup {[op |-> "product", sku |-> skuC, currency |-> eur],
          [op |-> "stock", location |-> main, levels |-> StockOf(1, 1)]}

RequestSymmetry == Permutations(Requests)
=============================================================================
