------------------------------- MODULE Worker -------------------------------
(***************************************************************************)
(* Utilities::Threading::Worker (loop.hpp): a thread that waits on its own  *)
(* mutex cvm and condition variable cv until its Queue is not empty or      *)
(* terminate() was called, and hands the queue to a client's callable.      *)
(*                                                                          *)
(* The module holds the state of a set of workers, the steps of each        *)
(* worker's thread, and the steps that any other thread takes when it calls *)
(* a member of Worker.  Loop and WorkerPool close it with such threads.     *)
(*                                                                          *)
(* A condition variable is the set of the threads blocked on it: to block   *)
(* joins the set and releases the mutex in one step, a notification takes   *)
(* threads out of the set, and a thread outside the set competes for the    *)
(* mutex again.  The queue is the set of its items: Worker hands over the   *)
(* whole list and never looks at its order.                                 *)
(***************************************************************************)
EXTENDS Integers

CONSTANTS Workers,  (* the workers; a worker is also the name of its thread *)
          Clients,  (* the threads that call the members of Worker          *)
          Items,    (* what a queue may hold                                *)
          Nobody    (* the holder of a free mutex                           *)

Threads == Workers \cup Clients

ASSUME ThreadsAssumption == /\ Workers \cap Clients = {}
                            /\ Nobody \notin Threads

VARIABLES mutex,      (* mutex[w]: the thread that holds w.cvm               *)
          parked,     (* parked[w]: the threads blocked on w.cv              *)
          queue,      (* queue[w]: the items in w's body                     *)
          terminate,  (* terminate[w]: the flag _terminate                   *)
          terminated, (* terminated[w]: the flag _terminated                 *)
          pc          (* pc[w]: where the thread of w is in _loop            *)

workerVars == <<mutex, parked, queue, terminate, terminated, pc>>

WorkerTypeOK ==
  /\ mutex \in [Workers -> Threads \cup {Nobody}]
  /\ parked \in [Workers -> SUBSET Threads]
  /\ queue \in [Workers -> SUBSET Items]
  /\ terminate \in [Workers -> BOOLEAN]
  /\ terminated \in [Workers -> BOOLEAN]
  /\ pc \in [Workers -> {"lock", "test", "park", "decide", "callable",
                         "notify", "bye", "exited"}]

WorkerInit ==
  /\ mutex = [w \in Workers |-> Nobody]
  /\ parked = [w \in Workers |-> {}]
  /\ queue = [w \in Workers |-> {}]
  /\ terminate = [w \in Workers |-> FALSE]
  /\ terminated = [w \in Workers |-> FALSE]
  /\ pc = [w \in Workers |-> "lock"]

-----------------------------------------------------------------------------
(* std::mutex and std::condition_variable, as loop.hpp uses them. *)

Acquire(t, w) == /\ t \notin parked[w]
                 /\ mutex[w] = Nobody
                 /\ mutex' = [mutex EXCEPT ![w] = t]

Release(t, w) == /\ mutex[w] = t
                 /\ mutex' = [mutex EXCEPT ![w] = Nobody]

Block(t, w) == /\ Release(t, w)
               /\ parked' = [parked EXCEPT ![w] = @ \cup {t}]

NotifyOne(w) == \/ /\ parked[w] = {}
                   /\ UNCHANGED parked
                \/ \E t \in parked[w] : parked' = [parked EXCEPT ![w] = @ \ {t}]

(* A condition variable may wake a thread for no reason. *)
SpuriousWake(w) == /\ \E t \in parked[w] : parked' = [parked EXCEPT ![w] = @ \ {t}]
                   /\ UNCHANGED <<mutex, queue, terminate, terminated, pc>>

-----------------------------------------------------------------------------
(* The thread of worker w: Worker::_loop. *)

Goto(w, from, to) == pc[w] = from /\ pc' = [pc EXCEPT ![w] = to]

(* unique_lock lk{cvm}, and the reacquisition at the end of cv.wait. *)
Lock(w) == /\ Goto(w, "lock", "test")
           /\ Acquire(w, w)
           /\ UNCHANGED <<parked, queue, terminate, terminated>>

(* The predicate of cv.wait.  _terminate is written without cvm, so what   *)
(* is read here may have changed by the next step.                         *)
MustRun(w) == queue[w] # {} \/ terminate[w]

Test(w) == /\ \/ MustRun(w)  /\ Goto(w, "test", "decide")
              \/ ~MustRun(w) /\ Goto(w, "test", "park")
           /\ UNCHANGED <<mutex, parked, queue, terminate, terminated>>

Park(w) == /\ Goto(w, "park", "lock")
           /\ Block(w, w)
           /\ UNCHANGED <<queue, terminate, terminated>>

(* Mutant: a worker that leaves notifies nobody. *)
LeaveSilently(w) == /\ terminate[w]
                    /\ Goto(w, "decide", "exited")
                    /\ terminated' = [terminated EXCEPT ![w] = TRUE]
                    /\ Release(w, w)
                    /\ UNCHANGED <<parked, queue, terminate>>

(* if(_terminate): leave for good, whatever the queue still holds. *)
Leave(w) == /\ terminate[w]
            /\ Goto(w, "decide", "bye")
            /\ terminated' = [terminated EXCEPT ![w] = TRUE]
            /\ Release(w, w)
            /\ UNCHANGED <<parked, queue, terminate>>

Enter(w) == /\ ~terminate[w]
            /\ Goto(w, "decide", "callable")
            /\ UNCHANGED <<mutex, parked, queue, terminate, terminated>>

(* Mutant: the next iteration starts without a notification. *)
CallableSilent(w) == /\ Goto(w, "callable", "lock")
                     /\ \E left \in SUBSET queue[w] :
                           left # queue[w] /\ queue' = [queue EXCEPT ![w] = left]
                     /\ Release(w, w)
                     /\ UNCHANGED <<parked, terminate, terminated>>

(* The client's callable, under cvm: it takes at least one item out of the *)
(* queue it was given (a callable that takes none makes _loop spin).       *)
Callable(w) == /\ Goto(w, "callable", "notify")
               /\ \E left \in SUBSET queue[w] :
                     /\ left # queue[w]
                     /\ queue' = [queue EXCEPT ![w] = left]
               /\ Release(w, w)
               /\ UNCHANGED <<parked, terminate, terminated>>

(* cv.notify_one after the unlock, on both ways out of an iteration. *)
Notify(w) == /\ Goto(w, "notify", "lock") \/ Goto(w, "bye", "exited")
             /\ NotifyOne(w)
             /\ UNCHANGED <<mutex, queue, terminate, terminated>>

WorkerStep(w) == \/ Lock(w) \/ Test(w) \/ Park(w)
                 \/ Leave(w) \/ Enter(w) \/ Callable(w) \/ Notify(w)

-----------------------------------------------------------------------------
(* Members of Worker called by other threads. *)

(* Mutant: wait() is satisfied by a worker that is only told to terminate. *)
IdleWhenTold(w) == queue[w] = {} \/ terminate[w]

(* The predicate of Worker::wait. *)
Idle(w) == queue[w] = {} \/ terminated[w]

(* Worker::terminate sets the flag without cvm, then notifies. *)
SetTerminate(w) == /\ terminate' = [terminate EXCEPT ![w] = TRUE]
                   /\ UNCHANGED <<mutex, parked, queue, terminated, pc>>

NotifyAll(w) == /\ parked' = [parked EXCEPT ![w] = {}]
                /\ UNCHANGED <<mutex, queue, terminate, terminated, pc>>
=============================================================================
