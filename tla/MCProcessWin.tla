---------------------------- MODULE MCProcessWin ----------------------------
(* One thread waits, another kills, a third one writes. *)
EXTENDS ProcessWin

CONSTANTS waiter, killer, writer

MCWaiters == {waiter}
MCKillers == {killer}
MCWriters == {writer}
MCStdout == {"stdout"}
=============================================================================
