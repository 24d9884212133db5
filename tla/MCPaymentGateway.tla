-------------------------- MODULE MCPaymentGateway --------------------------
(* A small instance of PaymentGateway for TLC. *)
EXTENDS PaymentGateway, TLC

CONSTANTS c1, c2, c3, c4
=============================================================================
