------------------------------ MODULE MCProcess ------------------------------
(* One thread waits, another one kills and writes, and callbacks do all of   *)
(* this; or two threads wait.                                                *)
EXTENDS ProcessClients

CONSTANTS waiter, waiter2, client, callback

MCCallers == {waiter, client, callback}
MCWaiters == {waiter, callback}
MCTwoWaiters == {waiter, waiter2}
MCClients == {client, callback}
MCStreams == {"stdout"}
=============================================================================
