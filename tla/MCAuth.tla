------------------------------- MODULE MCAuth -------------------------------
(* A small instance of Auth for TLC. *)
EXTENDS Auth

CONSTANTS p1, p2, r1, r2, t1, t2

\* Expired when issued, the default, and shorter than the default.
MCLifetimes == {-1, 0, 1}
=============================================================================
