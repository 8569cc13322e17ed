--------------------------- MODULE MCHttpExchange ---------------------------
(* One request, with every outcome of its handler. *)
EXTENDS HttpExchange

MCCodes == {406, 501, 500}
=============================================================================
