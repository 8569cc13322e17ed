------------------------------ MODULE MCEvents ------------------------------
(* Two events, which can hold each other's callbacks. *)
EXTENDS Events

CONSTANTS e1, e2

MCObjects == {e1, e2}
=============================================================================
