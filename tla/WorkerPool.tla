----------------------------- MODULE WorkerPool -----------------------------
(***************************************************************************)
(* Workers (loop.hpp) used without a Loop: any number of client threads     *)
(* push work under cvm and notify, the way Loop::run does, wait for a       *)
(* worker to be idle, and terminate workers.  They also push into a body    *)
(* that they obtained (obtain_body, try_obtain_body), or locked with an     *)
(* item_lock of their own.  obtain_body and try_obtain_body dereference the *)
(* Mutex of the body: they compile for a body that has a pointer there, not *)
(* for WorkerBody, which has the mutex itself.                              *)
(*                                                                          *)
(* Loop has one waiting thread and notifies every worker in every round.    *)
(* Without it two weaknesses of the protocol show: a notify_one reaches one *)
(* thread only, which may be the wrong one, and the notify_all of           *)
(* terminate() may come between a worker's test and its sleep.  With bodies *)
(* there is one more: Body.Mutex is none of _loop's, so that a push under   *)
(* it races with the worker and with other clients.  History variables      *)
(* record that this happened; the properties say that nothing else goes     *)
(* wrong.                                                                   *)
(***************************************************************************)
EXTENDS Worker, FiniteSets

VARIABLES owner, mutexes, misused,  (* of ItemLock, see there               *)
          cpc,       (* where a client is                                    *)
          on,        (* the worker a client is dealing with                  *)
          contended, (* the workers that a notify_one found with several     *)
                     (* threads asleep on their cv                           *)
          missed,    (* the workers that terminate() notified on their way   *)
                     (* from the test to the sleep                           *)
          raced      (* the workers whose queue two threads may have touched *)
                     (* at once                                              *)

(* The mutex of an item is the Mutex of a worker's body. *)
INSTANCE ItemLock WITH Holders <- Clients, Owned <- Workers

itemLocks == <<owner, mutexes, misused>>
history == <<contended, missed, raced>>
vars == <<workerVars, itemLocks, cpc, on, history>>

TypeOK == /\ WorkerTypeOK
          /\ ItemLockTypeOK
          /\ cpc \in [Clients -> {"idle", "push", "notify", "wait", "test", "park", "terminate",
                                  "obtain", "try", "inside", "unlocked"}]
          /\ on \in [Clients -> Workers]
          /\ contended \in SUBSET Workers
          /\ missed \in SUBSET Workers
          /\ raced \in SUBSET Workers

Init == /\ WorkerInit
        /\ ItemLockInit
        /\ cpc = [c \in Clients |-> "idle"]
        /\ on \in [Clients -> Workers]
        /\ contended = {} /\ missed = {} /\ raced = {}

-----------------------------------------------------------------------------
GotoClient(c, from, to) == cpc[c] = from /\ cpc' = [cpc EXCEPT ![c] = to]

(* notify_one on w's cv, by a client or by the worker itself. *)
RecordNotifyOne(w) ==
  contended' = IF Cardinality(parked[w]) > 1 THEN contended \cup {w} ELSE contended

(* A client turns to a worker: to push to it, to wait for it, or for its    *)
(* body, by obtain_body, by try_obtain_body or with an item_lock that it    *)
(* constructs without a mutex.                                              *)
Begin(c) == /\ \E call \in {"push", "wait", "obtain", "try", "unlocked"} :
                  GotoClient(c, "idle", call)
            /\ \E w \in Workers : on' = [on EXCEPT ![c] = w]
            /\ UNCHANGED <<workerVars, itemLocks, history>>

(* Mutant: a client pushes and notifies nobody. *)
PushSilently(c) ==
  /\ GotoClient(c, "push", "idle")
  /\ mutex[on[c]] = Nobody
  /\ \E item \in Items : queue' = [queue EXCEPT ![on[c]] = @ \cup {item}]
  /\ UNCHANGED <<mutex, parked, terminate, terminated, pc, itemLocks, on, history>>

(* cvm.lock(), body().Queue.push_back(item), cvm.unlock(). *)
Push(c) == /\ GotoClient(c, "push", "notify")
           /\ mutex[on[c]] = Nobody
           /\ \E item \in Items : queue' = [queue EXCEPT ![on[c]] = @ \cup {item}]
           /\ UNCHANGED <<mutex, parked, terminate, terminated, pc, itemLocks, on, history>>

(* Mutant: the notification is left out. *)
PushNotifiesNobody(c) ==
  /\ GotoClient(c, "notify", "idle")
  /\ UNCHANGED <<workerVars, itemLocks, on, history>>

(* cv.notify_one() *)
PushNotifies(c) == /\ GotoClient(c, "notify", "idle")
                   /\ NotifyOne(on[c])
                   /\ RecordNotifyOne(on[c])
                   /\ UNCHANGED <<mutex, queue, terminate, terminated, pc, itemLocks, on>>
                   /\ UNCHANGED <<missed, raced>>

(* wait(): lock, then cv.wait with its predicate. *)
WaitLock(c) == /\ GotoClient(c, "wait", "test")
               /\ Acquire(c, on[c])
               /\ UNCHANGED <<parked, queue, terminate, terminated, pc, itemLocks, on, history>>

WaitReturns(c) == /\ Idle(on[c])
                  /\ GotoClient(c, "test", "idle")
                  /\ Release(c, on[c])
                  /\ UNCHANGED <<parked, queue, terminate, terminated, pc, itemLocks, on, history>>

WaitMustPark(c) == /\ ~Idle(on[c])
                   /\ GotoClient(c, "test", "park")
                   /\ UNCHANGED <<workerVars, itemLocks, on, history>>

WaitPark(c) == /\ GotoClient(c, "park", "wait")
               /\ Block(c, on[c])
               /\ UNCHANGED <<queue, terminate, terminated, pc, itemLocks, on, history>>

(* terminate(): the flag, then notify_all. *)
Terminate(c) == /\ GotoClient(c, "idle", "terminate")
                /\ \E w \in Workers : on' = [on EXCEPT ![c] = w] /\ SetTerminate(w)
                /\ UNCHANGED <<itemLocks, history>>

TerminateNotifies(c) ==
  /\ GotoClient(c, "terminate", "idle")
  /\ NotifyAll(on[c])
  /\ missed' = IF pc[on[c]] = "park" THEN missed \cup {on[c]} ELSE missed
  /\ UNCHANGED <<itemLocks, on, contended, raced>>

(* obtain_body(), and lock() of an object that has no mutex. *)
Obtain(c) == /\ GotoClient(c, "obtain", "inside") \/ GotoClient(c, "unlocked", "inside")
             /\ LockItem(c, on[c])
             /\ UNCHANGED <<workerVars, on, history>>

(* Mutant: the constructor does not throw when try_lock fails. *)
TryObtainAlways(c) == /\ GotoClient(c, "try", "inside")
                      /\ LockItem(c, on[c]) \/ TryLockFails(c, on[c])
                      /\ UNCHANGED <<workerVars, on, history>>

(* try_obtain_body() throws when it fails, and there is no object then. *)
TryObtain(c) == /\ \/ GotoClient(c, "try", "inside") /\ LockItem(c, on[c])
                   \/ GotoClient(c, "try", "idle") /\ UNCHANGED itemLocks
                /\ UNCHANGED <<workerVars, on, history>>

TryLock(c) == /\ cpc[c] = "unlocked"
              /\ TryLockFails(c, on[c])
              /\ UNCHANGED <<workerVars, cpc, on, history>>

(* body.Queue.push_back(item) in the body; then the object is destroyed.    *)
(* Who holds cvm reads or changes the queue at the same time, and so may a  *)
(* client that is about to push.                                            *)
Touched(c) == \/ mutex[on[c]] # Nobody
              \/ \E d \in Clients : d # c /\ cpc[d] = "push" /\ on[d] = on[c]

PushInBody(c) ==
  /\ GotoClient(c, "inside", "notify")
  /\ \E item \in Items : queue' = [queue EXCEPT ![on[c]] = @ \cup {item}]
  /\ raced' = IF Touched(c) THEN raced \cup {on[c]} ELSE raced
  /\ DestroyLock(c)
  /\ UNCHANGED <<mutex, parked, terminate, terminated, pc, on, contended, missed>>

(* unlock(), of an object that lives on. *)
UnlockEarly(c) == /\ GotoClient(c, "inside", "unlocked")
                  /\ UnlockItem(c)
                  /\ UNCHANGED <<workerVars, on, history>>

Destroy(c) == /\ GotoClient(c, "inside", "idle") \/ GotoClient(c, "unlocked", "idle")
              /\ DestroyLock(c)
              /\ UNCHANGED <<workerVars, on, history>>

(* Steps a client takes once it has made its call. *)
Proceed(c) == \/ Push(c) \/ PushNotifies(c)
              \/ WaitLock(c) \/ WaitReturns(c) \/ WaitMustPark(c) \/ WaitPark(c)
              \/ TerminateNotifies(c)
              \/ Obtain(c) \/ TryObtain(c) \/ TryLock(c)
              \/ PushInBody(c) \/ UnlockEarly(c) \/ Destroy(c)

PoolStep(w) == /\ WorkerStep(w)
               /\ IF pc[w] \in {"notify", "bye"} THEN RecordNotifyOne(w)
                                                 ELSE UNCHANGED contended
               /\ UNCHANGED <<itemLocks, cpc, on, missed, raced>>

Spurious(w) == SpuriousWake(w) /\ UNCHANGED <<itemLocks, cpc, on, history>>

Next == \/ \E c \in Clients : Begin(c) \/ Terminate(c) \/ Proceed(c)
        \/ \E w \in Workers : PoolStep(w) \/ Spurious(w)

Spec == Init /\ [][Next]_vars

(* Threads run, callables return, and mutexes are not withheld for ever. *)
Fairness ==
  /\ \A c \in Clients : WF_vars(Proceed(c)) /\ SF_vars(Push(c)) /\ SF_vars(WaitLock(c))
  /\ \A w \in Workers :
        WF_vars(PoolStep(w)) /\ SF_vars(Lock(w) /\ UNCHANGED <<itemLocks, cpc, on, history>>)

FairSpec == Spec /\ Fairness
-----------------------------------------------------------------------------
(* Whoever sleeps on a cv although the queue is as it wants it will be      *)
(* notified by a thread that is about to, unless a notify_one has met two   *)
(* sleepers, or a push in a body the worker at its queue.  A worker that is *)
(* told to terminate is woken unless it was between its test and its sleep. *)
SleepersWillBeWoken ==
  \A w \in Workers :
    /\ w \in parked[w] /\ queue[w] # {} =>
         w \in contended \cup raced \/ \E c \in Clients : cpc[c] = "notify" /\ on[c] = w
    /\ \A c \in Clients : c \in parked[w] /\ Idle(w) =>
         w \in contended \/ pc[w] \in {"notify", "bye"}
    /\ w \in parked[w] /\ terminate[w] =>
         w \in missed \/ \E c \in Clients : cpc[c] = "terminate" /\ on[c] = w

(* A client that was told that it has a body has it, alone, unless an       *)
(* object unlocked the mutex for which it had been unlocked, or had failed  *)
(* to lock it, before.                                                      *)
BodiesAreExclusive ==
  \A c \in Clients : cpc[c] = "inside" => owner[on[c]] = c \/ on[c] \in misused

(* Work that is pushed is worked on or the worker leaves, unless a          *)
(* notify_one has met two sleepers or a push in a body has raced.           *)
WorkIsDone ==
  \A w \in Workers :
    queue[w] # {} ~> (queue[w] = {} \/ terminated[w] \/ w \in contended \cup raced)
=============================================================================
