--------------------------- MODULE MCProcessWinOpen ---------------------------
(* Two threads open a process each. *)
EXTENDS ProcessWinOpen

CONSTANTS p1, p2

MCProcesses == {p1, p2}
MCPiped == {"stdin", "stdout"}
=============================================================================
