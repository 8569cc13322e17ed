------------------------------- MODULE Rounds -------------------------------
(***************************************************************************)
(* What Loop (loop.hpp) promises its callables, with no thread, mutex or    *)
(* condition variable in sight: turns of the main callable, which hands out *)
(* work, alternate with turns in which every worker works off its queue.    *)
(* The workers' turn ends when nothing is left to do but the work of the    *)
(* workers that have stopped.                                               *)
(***************************************************************************)
CONSTANTS Workers, Items

VARIABLES phase,      (* whose turn it is                       *)
          queue,      (* queue[w]: the work w has been given    *)
          requested,  (* requested[w]: w has been told to stop  *)
          stopped     (* stopped[w]: w has stopped              *)

vars == <<phase, queue, requested, stopped>>

Init == /\ phase = "workers"
        /\ queue = [w \in Workers |-> {}]
        /\ requested = [w \in Workers |-> FALSE]
        /\ stopped = [w \in Workers |-> FALSE]

(* The main callable: it may only add work and requests to stop. *)
MainTurn ==
  /\ phase = "main"
  /\ \E work \in [Workers -> SUBSET Items], stop \in SUBSET Workers :
        /\ queue' = [w \in Workers |-> queue[w] \cup work[w]]
        /\ requested' = [w \in Workers |-> requested[w] \/ w \in stop]
  /\ phase' \in {"main", "workers"}
  /\ UNCHANGED stopped

(* A worker works off part of its queue, in the workers' turn only. *)
Work(w) == /\ phase = "workers"
           /\ ~stopped[w]
           /\ \E left \in SUBSET queue[w] :
                 left # queue[w] /\ queue' = [queue EXCEPT ![w] = left]
           /\ UNCHANGED <<phase, requested, stopped>>

Stop(w) == /\ phase = "workers"
           /\ requested[w]
           /\ stopped' = [stopped EXCEPT ![w] = TRUE]
           /\ UNCHANGED <<phase, queue, requested>>

Request(w) == /\ requested' = [requested EXCEPT ![w] = TRUE]
              /\ UNCHANGED <<phase, queue, stopped>>

(* The barrier at the end of the workers' turn. *)
Synchronise == /\ phase = "workers"
               /\ \A w \in Workers : queue[w] = {} \/ stopped[w]
               /\ phase' = "main"
               /\ UNCHANGED <<queue, requested, stopped>>

Next == \/ MainTurn \/ Synchronise
        \/ \E w \in Workers : Work(w) \/ Stop(w) \/ Request(w)

Spec == Init /\ [][Next]_vars
=============================================================================
