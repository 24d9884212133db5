-------------------------- MODULE MCUnitOfWorkShop --------------------------
(* UnitOfWorkShop on the instances of MCUnitOfWork. *)
EXTENDS MCUnitOfWork, UnitOfWorkShop

\* Orders that name each SKU once: what the tests and the documents place.
DistinctCalls ==
    {PlaceCall(i) : i \in {Cart(skuA, 1) \o Cart(skuB, 1), Cart(skuA, 1), Cart(skuC, 1)}}
    \cup AllocateAt({main})
    \cup {[op |-> "product", sku |-> skuC, currency |-> eur]}
    \cup {[op |-> "stock", location |-> main, levels |-> StockOf(1, 1)]}
    \cup {[op |-> "stock", location |-> annex, levels |-> StockOf(1, 0)]}

RepeatedCalls ==
    {PlaceCall(Cart(skuA, 1) \o Cart(skuA, 2))} \cup AllocateAt({main})
=============================================================================
