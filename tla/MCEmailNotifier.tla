--------------------------- MODULE MCEmailNotifier ---------------------------
(* Small instances of EmailNotifier for TLC. *)
EXTENDS EmailNotifier, TLC

CONSTANTS t1, t2, t3, confirmation, allocated

\* Two calls for one mail and one for another.
MCKeyOf == (t1 :> confirmation) @@ (t2 :> confirmation) @@ (t3 :> allocated)
=============================================================================
