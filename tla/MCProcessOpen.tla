---------------------------- MODULE MCProcessOpen ----------------------------
(* Two processes, with descriptors for all pipes of one of them only. *)
EXTENDS ProcessOpen

CONSTANTS p1, p2

MCProcesses == {p1, p2}
MCPiped == {"stdin", "stdout", "stderr"}
MCBefore == 0 .. 3
=============================================================================
