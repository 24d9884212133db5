------------------------------ MODULE MCOutbox ------------------------------
(* A small instance of Outbox for TLC: three writers, two of one message. *)
EXTENDS Outbox, TLC

CONSTANTS w1, w2, w3, o1, main, annex, d1, d2

Allocated(l) == [type |-> "StockAllocated", order |-> o1, location |-> l]
MCEventOf == (w1 :> [type |-> "OrderPlaced", order |-> o1])
             @@ (w2 :> Allocated(main)) @@ (w3 :> Allocated(annex))

\* Everything mended, or everything but one of the assignments to a frozen event.
MCBuilds == {Slips, Slips \ {"StockAllocated"}}
=============================================================================
