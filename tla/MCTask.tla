------------------------------- MODULE MCTask -------------------------------
(* A request and an answer that are larger than the pipes. *)
EXTENDS Task

MCCallers == {Caller}
MCStreams == {"stdout", "stderr"}
MCCommands == {"framed", "filter", "failing", "to end"}

ASSUME TaskConstants
=============================================================================
