-------------------------------- MODULE Loop --------------------------------
(***************************************************************************)
(* Utilities::Threading::Loop (loop.hpp): a main thread and N workers.  In  *)
(* each round Loop::run takes the cvm of every worker, calls the main       *)
(* callable, releases every cvm, notifies every worker and waits for each   *)
(* of them in turn.                                                         *)
(*                                                                          *)
(* The main callable is the client's: with every cvm held it may push to    *)
(* any queue, terminate any worker, or throw.  The worker collection it is  *)
(* given holds shared pointers that may outlive the call, so another thread *)
(* (Stopper) may terminate a worker at any time.                            *)
(***************************************************************************)
EXTENDS Worker

CONSTANTS N,         (* the number of workers                 *)
          Main,      (* the thread in Loop::run               *)
          Stopper,   (* the threads that call terminate()     *)
          MayThrow   (* whether the main callable may throw   *)

ASSUME LoopAssumption == /\ N \in Nat \ {0}
                         /\ Workers = 1 .. N
                         /\ Clients = {Main, Stopper}
                         /\ MayThrow \in BOOLEAN

VARIABLES mpc,       (* where the main thread is in Loop::run               *)
          mi,        (* the worker its current for statement has come to    *)
          stopping   (* the workers whose terminate() is between its steps  *)

vars == <<workerVars, mpc, mi, stopping>>

TypeOK == /\ WorkerTypeOK
          /\ mpc \in {"lock", "callable", "unlock", "notify",
                      "wait", "test", "park", "thrown"}
          /\ mi \in Workers
          /\ stopping \in SUBSET Workers

Init == /\ WorkerInit
        /\ mpc = "lock"
        /\ mi = 1
        /\ stopping = {}

-----------------------------------------------------------------------------
(* Loop::run *)

(* One iteration of for(auto& pw : _workers) is done: go on with the next  *)
(* worker, or with the next statement of run.                              *)
Advance(from, again, next) ==
  /\ mpc = from
  /\ \/ mi < N /\ mi' = mi + 1 /\ mpc' = again
     \/ mi = N /\ mi' = 1      /\ mpc' = next

(* Mutant: try_lock in place of lock, its result ignored. *)
MainTryLock == /\ Advance("lock", "lock", "callable")
               /\ \/ Acquire(Main, mi)
                  \/ mutex[mi] # Nobody /\ UNCHANGED mutex
               /\ UNCHANGED <<parked, queue, terminate, terminated, pc, stopping>>

MainLock == /\ Advance("lock", "lock", "callable")
            /\ Acquire(Main, mi)
            /\ UNCHANGED <<parked, queue, terminate, terminated, pc, stopping>>

(* What the main callable does to the workers before it ends.  terminate() *)
(* called from here has cvm held: nobody sees it between its two steps.    *)
Dispatch ==
  \E work \in [Workers -> SUBSET Items], stop \in SUBSET Workers :
     /\ queue' = [w \in Workers |-> queue[w] \cup work[w]]
     /\ terminate' = [w \in Workers |-> terminate[w] \/ w \in stop]
     /\ parked' = [w \in Workers |-> IF w \in stop THEN {} ELSE parked[w]]

MainCallable == /\ mpc = "callable"
                /\ mpc' = "unlock"
                /\ Dispatch
                /\ UNCHANGED <<mutex, terminated, pc, mi, stopping>>

(* Mutant: guards release the mutexes when the exception leaves run. *)
MainThrowsUnlocking == /\ MayThrow
                       /\ mpc = "callable"
                       /\ mpc' = "thrown"
                       /\ Dispatch
                       /\ mutex' = [w \in Workers |-> Nobody]
                       /\ UNCHANGED <<terminated, pc, mi, stopping>>

(* An exception leaves run with every cvm locked: no guard releases them. *)
MainThrows == /\ MayThrow
              /\ mpc = "callable"
              /\ mpc' = "thrown"
              /\ Dispatch
              /\ UNCHANGED <<mutex, terminated, pc, mi, stopping>>

MainUnlock == /\ Advance("unlock", "unlock", "notify")
              /\ Release(Main, mi)
              /\ UNCHANGED <<parked, queue, terminate, terminated, pc, stopping>>

(* Mutant: only the workers that were given work are notified. *)
MainNotifyBusy == /\ Advance("notify", "notify", "wait")
                  /\ \/ queue[mi] # {} /\ NotifyOne(mi)
                     \/ queue[mi] = {} /\ UNCHANGED parked
                  /\ UNCHANGED <<mutex, queue, terminate, terminated, pc, stopping>>

MainNotify == /\ Advance("notify", "notify", "wait")
              /\ NotifyOne(mi)
              /\ UNCHANGED <<mutex, queue, terminate, terminated, pc, stopping>>

(* w.wait(): lock, then cv.wait with its predicate. *)
MainWait == /\ mpc = "wait"
            /\ mpc' = "test"
            /\ Acquire(Main, mi)
            /\ UNCHANGED <<parked, queue, terminate, terminated, pc, mi, stopping>>

(* Mutant: cv.wait without a predicate. *)
MainPassUnchecked == /\ Advance("test", "wait", "lock")
                     /\ Release(Main, mi)
                     /\ UNCHANGED <<parked, queue, terminate, terminated, pc, stopping>>

(* The lock wait() returns is released at the end of the for's body. *)
MainPass == /\ Idle(mi)
            /\ Advance("test", "wait", "lock")
            /\ Release(Main, mi)
            /\ UNCHANGED <<parked, queue, terminate, terminated, pc, stopping>>

MainMustPark == /\ mpc = "test"
                /\ ~Idle(mi)
                /\ mpc' = "park"
                /\ UNCHANGED <<workerVars, mi, stopping>>

MainPark == /\ mpc = "park"
            /\ mpc' = "wait"
            /\ Block(Main, mi)
            /\ UNCHANGED <<queue, terminate, terminated, pc, mi, stopping>>

MainStep == \/ MainLock \/ MainCallable \/ MainThrows \/ MainUnlock
            \/ MainNotify \/ MainWait \/ MainPass \/ MainMustPark \/ MainPark

-----------------------------------------------------------------------------
(* Worker::terminate called by a thread other than the main one. *)

StopperSets(w) == /\ w \notin stopping
                  /\ stopping' = stopping \cup {w}
                  /\ SetTerminate(w)
                  /\ UNCHANGED <<mpc, mi>>

StopperNotifies(w) == /\ w \in stopping
                      /\ stopping' = stopping \ {w}
                      /\ NotifyAll(w)
                      /\ UNCHANGED <<mpc, mi>>

PoolStep(w) == WorkerStep(w) /\ UNCHANGED <<mpc, mi, stopping>>

Spurious(w) == SpuriousWake(w) /\ UNCHANGED <<mpc, mi, stopping>>

Next == \/ MainStep
        \/ \E w \in Workers : PoolStep(w) \/ Spurious(w)
                              \/ StopperSets(w) \/ StopperNotifies(w)

Spec == Init /\ [][Next]_vars

(* Threads run, callables return, and a thread that keeps asking for a      *)
(* mutex that is free again and again gets it.  Nothing is assumed of the   *)
(* Stopper: its notify_all may never come.                                  *)
Fairness ==
  /\ WF_vars(MainStep)
  /\ SF_vars(MainLock) /\ SF_vars(MainWait)
  /\ \A w \in Workers : /\ WF_vars(PoolStep(w))
                        /\ SF_vars(Lock(w) /\ UNCHANGED <<mpc, mi, stopping>>)

FairSpec == Spec /\ Fairness
-----------------------------------------------------------------------------
(* The main callable works on queues and contexts without further locking: *)
(* no worker's callable runs while it does.                                *)
MainExclusive ==
  mpc = "callable" => \A w \in Workers : pc[w] \notin {"test", "decide", "callable"}

(* The barrier: a round starts when the work of the round before is done,  *)
(* except the work left with a worker that has terminated.                 *)
Barrier ==
  mpc = "callable" => \A w \in Workers : queue[w] = {} \/ terminated[w]

(* No wakeup is lost: a thread asleep on a cv although what it waits for    *)
(* holds will still be notified by the thread that made it hold, and not    *)
(* another of the threads asleep there in its stead.                        *)
NoLostWakeup ==
  \A w \in Workers :
    /\ w \in parked[w] /\ queue[w] # {} =>
         \/ mpc \in {"unlock", "thrown"}
         \/ mpc = "notify" /\ mi <= w /\ parked[w] = {w}
    /\ Main \in parked[w] /\ Idle(w) =>
         pc[w] \in {"notify", "bye"} /\ parked[w] = {Main}

(* A worker that has terminated touches its queue no more: what is pushed  *)
(* to it from then on, or was left in it, is never processed.              *)
NoWorkAfterTermination ==
  [][\A w \in Workers : terminated[w] => terminated'[w] /\ queue[w] \subseteq queue'[w]]_vars

(* After an exception of the main callable the pool is wedged: a worker     *)
(* ends no iteration, does no work and does not even notice terminate().   *)
ThrownWedges ==
  [][mpc = "thrown" => UNCHANGED <<mpc, queue, terminated>>]_vars

(* Rounds never stop, however the workers are terminated, unless the main   *)
(* callable throws.                                                         *)
RoundsGoOn == []<>(mpc \in {"callable", "thrown"})

(* terminate() takes effect although its notify_all may fall between the    *)
(* worker's test of the flag and its sleep, and wake nobody: the next       *)
(* round's notify_one makes the worker look again.  After an exception      *)
(* there is no next round.                                                  *)
TerminateTakesEffect ==
  \A w \in Workers : terminate[w] ~> (terminated[w] \/ mpc = "thrown")

(* A round of Loop is a round of the abstract specification Rounds. *)
phase == IF mpc \in {"callable", "thrown"} THEN "main" ELSE "workers"

R == INSTANCE Rounds WITH requested <- terminate, stopped <- terminated

RoundsSpec == R!Spec
=============================================================================
