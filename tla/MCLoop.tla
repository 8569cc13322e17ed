------------------------------- MODULE MCLoop -------------------------------
(* Loop with two workers: the smallest pool in which the main thread holds *)
(* one worker's mutex while it waits for another's.                        *)
EXTENDS Loop

CONSTANTS main, stopper, nobody, a, b

MCWorkers == 1 .. 2
MCClients == {main, stopper}
MCItems == {a, b}
=============================================================================
