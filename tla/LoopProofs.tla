----------------------------- MODULE LoopProofs -----------------------------
(***************************************************************************)
(* Proofs about Loop, for every number of workers and every set of items:   *)
(* its invariants, and that it implements Rounds.                           *)
(***************************************************************************)
EXTENDS Loop, TLAPS

(* The workers whose cvm the main thread holds. *)
MainHolds(w) == \/ mpc = "lock" /\ w < mi
                \/ mpc \in {"callable", "thrown"}
                \/ mpc = "unlock" /\ mi <= w
                \/ mpc \in {"test", "park"} /\ w = mi

(* The workers the main thread has already waited for in this round. *)
MainPassed(w) == \/ mpc \in {"wait", "test", "park"} /\ w < mi
                 \/ mpc \in {"lock", "callable"}

(* The workers the main thread may have given work and not notified yet. *)
NotYetNotified(w) == \/ mpc \in {"callable", "thrown", "unlock"}
                     \/ mpc = "notify" /\ mi <= w

Working == {"test", "park", "decide", "callable"}

(* run comes to the main callable, and leaves it, at the first worker. *)
ControlInv == mpc \in {"callable", "thrown"} => mi = 1

(* Who holds a mutex follows from where the threads are. *)
MutexInv ==
  \A w \in Workers : /\ mutex[w] \in {Nobody, Main, w}
                     /\ mutex[w] = Main <=> MainHolds(w)
                     /\ mutex[w] = w <=> pc[w] \in Working

(* Only the worker and the main thread sleep on a cv, each at its place. *)
ParkedInv ==
  \A w \in Workers : /\ parked[w] \subseteq {w, Main}
                     /\ w \in parked[w] => pc[w] = "lock"
                     /\ Main \in parked[w] => mpc = "wait" /\ mi = w

(* A flag that is set stays set, and a callable is never given nothing. *)
FlagInv ==
  \A w \in Workers : /\ terminated[w] => terminate[w]
                     /\ terminated[w] <=> pc[w] \in {"bye", "exited"}
                     /\ pc[w] = "decide" => MustRun(w)
                     /\ pc[w] = "callable" => queue[w] # {}

PassedInv == \A w \in Workers : MainPassed(w) => Idle(w)

(* Between its test and its sleep a thread holds cvm, so that what it      *)
(* tested of the queue cannot change; and the one that makes it change     *)
(* notifies afterwards.                                                    *)
WakeupInv ==
  \A w \in Workers :
    /\ pc[w] = "park" => queue[w] = {}
    /\ w \in parked[w] /\ queue[w] # {} => NotYetNotified(w)
    /\ mpc = "park" /\ mi = w => ~Idle(w)
    /\ Main \in parked[w] /\ Idle(w) => pc[w] \in {"notify", "bye"}

IInv == /\ TypeOK
        /\ ControlInv
        /\ MutexInv
        /\ ParkedInv
        /\ FlagInv
        /\ PassedInv
        /\ WakeupInv

-----------------------------------------------------------------------------
(* Threads have names of their own, and no name stands for a free mutex. *)
LEMMA Names == /\ N \in Nat /\ N >= 1 /\ Workers = 1 .. N
               /\ Main \notin Workers
               /\ Nobody \notin Workers
               /\ Main # Nobody
               /\ Main \in Threads
               /\ Workers \subseteq Threads
               /\ MayThrow \in BOOLEAN
  BY ThreadsAssumption, LoopAssumption DEF Threads

(* The invariant holds before the first round. *)
LEMMA IInvInit == Init => IInv
  BY Names
  DEF Init, WorkerInit, IInv, TypeOK, WorkerTypeOK, ControlInv, MutexInv, ParkedInv, FlagInv,
      PassedInv, WakeupInv, MainHolds, MainPassed, Idle, Working

(* notify_one wakes a thread if one sleeps there, and touches nothing else. *)
LEMMA NotifyOneWakes ==
  ASSUME NEW w \in Workers, parked \in [Workers -> SUBSET Threads], NotifyOne(w)
  PROVE  /\ parked' \in [Workers -> SUBSET Threads]
         /\ \A x \in Workers : parked'[x] \subseteq parked[x]
         /\ \A x \in Workers \ {w} : parked'[x] = parked[x]
         /\ parked[w] # {} => \E t \in parked[w] : t \notin parked'[w]
  BY DEF NotifyOne

(* Taking the next mutex, which was free, makes the main thread hold it. *)
LEMMA MainLockInv ==
  ASSUME IInv, MainLock
  PROVE  IInv'
  <1>1. TypeOK'
    BY Names DEF MainLock, Advance, Acquire, IInv, TypeOK, WorkerTypeOK
  <1>2. ControlInv'
    BY Names DEF MainLock, Advance, Acquire, IInv, TypeOK, WorkerTypeOK,
        ControlInv
  <1>3. MutexInv'
    BY Names DEF MainLock, Advance, Acquire, IInv, TypeOK, WorkerTypeOK,
        MutexInv, MainHolds, Working
  <1>4. ParkedInv'
    BY Names DEF MainLock, Advance, Acquire, IInv, TypeOK, WorkerTypeOK,
        ParkedInv
  <1>5. FlagInv'
    BY Names DEF MainLock, Advance, Acquire, IInv, TypeOK, WorkerTypeOK,
        FlagInv, MustRun
  <1>6. PassedInv'
    BY Names DEF MainLock, Advance, Acquire, IInv, TypeOK, WorkerTypeOK,
        PassedInv, MainPassed, Idle
  <1>7. WakeupInv'
    BY Names DEF MainLock, Advance, Acquire, IInv, TypeOK, WorkerTypeOK,
        WakeupInv, NotYetNotified, Idle
  <1>. QED  BY <1>1, <1>2, <1>3, <1>4, <1>5, <1>6, <1>7 DEF IInv

(* Pushing work is safe because every cvm is held: no worker is past its test,
   and every sleeper is yet to be notified. *)
LEMMA MainCallableInv ==
  ASSUME IInv, MainCallable
  PROVE  IInv'
  <1>1. TypeOK'
    BY Names DEF MainCallable, Dispatch, IInv, TypeOK, WorkerTypeOK
  <1>2. ControlInv'
    BY Names DEF MainCallable, Dispatch, IInv, TypeOK, WorkerTypeOK,
        ControlInv
  <1>3. MutexInv'
    BY Names DEF MainCallable, Dispatch, IInv, TypeOK, WorkerTypeOK, MutexInv,
        MainHolds, Working, ControlInv
  <1>4. ParkedInv'
    BY Names DEF MainCallable, Dispatch, IInv, TypeOK, WorkerTypeOK, ParkedInv
  <1>5. FlagInv'
    BY Names DEF MainCallable, Dispatch, IInv, TypeOK, WorkerTypeOK, FlagInv,
        MustRun
  <1>6. PassedInv'
    BY Names DEF MainCallable, Dispatch, IInv, TypeOK, WorkerTypeOK,
        PassedInv, MainPassed, Idle
  <1>7. WakeupInv'
    BY Names DEF MainCallable, Dispatch, IInv, TypeOK, WorkerTypeOK,
        WakeupInv, NotYetNotified, Idle, MutexInv, MainHolds, Working
  <1>. QED  BY <1>1, <1>2, <1>3, <1>4, <1>5, <1>6, <1>7 DEF IInv

(* The same when the callable ends with an exception. *)
LEMMA MainThrowsInv ==
  ASSUME IInv, MainThrows
  PROVE  IInv'
  <1>1. TypeOK'
    BY Names DEF MainThrows, Dispatch, IInv, TypeOK, WorkerTypeOK
  <1>2. ControlInv'
    BY Names DEF MainThrows, Dispatch, IInv, TypeOK, WorkerTypeOK, ControlInv
  <1>3. MutexInv'
    BY Names DEF MainThrows, Dispatch, IInv, TypeOK, WorkerTypeOK, MutexInv,
        MainHolds, Working
  <1>4. ParkedInv'
    BY Names DEF MainThrows, Dispatch, IInv, TypeOK, WorkerTypeOK, ParkedInv
  <1>5. FlagInv'
    BY Names DEF MainThrows, Dispatch, IInv, TypeOK, WorkerTypeOK, FlagInv,
        MustRun
  <1>6. PassedInv'
    BY Names DEF MainThrows, Dispatch, IInv, TypeOK, WorkerTypeOK, PassedInv,
        MainPassed, Idle
  <1>7. WakeupInv'
    BY Names DEF MainThrows, Dispatch, IInv, TypeOK, WorkerTypeOK, WakeupInv,
        NotYetNotified, Idle, MutexInv, MainHolds, Working
  <1>. QED  BY <1>1, <1>2, <1>3, <1>4, <1>5, <1>6, <1>7 DEF IInv

(* Releasing a mutex leaves the worker not yet notified. *)
LEMMA MainUnlockInv ==
  ASSUME IInv, MainUnlock
  PROVE  IInv'
  <1>1. TypeOK'
    BY Names DEF MainUnlock, Advance, Release, IInv, TypeOK, WorkerTypeOK
  <1>2. ControlInv'
    BY Names DEF MainUnlock, Advance, Release, IInv, TypeOK, WorkerTypeOK,
        ControlInv
  <1>3. MutexInv'
    BY Names DEF MainUnlock, Advance, Release, IInv, TypeOK, WorkerTypeOK,
        MutexInv, MainHolds, Working
  <1>4. ParkedInv'
    BY Names DEF MainUnlock, Advance, Release, IInv, TypeOK, WorkerTypeOK,
        ParkedInv
  <1>5. FlagInv'
    BY Names DEF MainUnlock, Advance, Release, IInv, TypeOK, WorkerTypeOK,
        FlagInv, MustRun
  <1>6. PassedInv'
    BY Names DEF MainUnlock, Advance, Release, IInv, TypeOK, WorkerTypeOK,
        PassedInv, MainPassed, Idle
  <1>7. WakeupInv'
    BY Names DEF MainUnlock, Advance, Release, IInv, TypeOK, WorkerTypeOK,
        WakeupInv, NotYetNotified, Idle
  <1>. QED  BY <1>1, <1>2, <1>3, <1>4, <1>5, <1>6, <1>7 DEF IInv

(* The main thread is not asleep when it notifies, so the worker is woken. *)
LEMMA MainNotifyInv ==
  ASSUME IInv, MainNotify
  PROVE  IInv'
  <1>1. /\ mi \in Workers /\ mpc = "notify"
        /\ UNCHANGED <<mutex, queue, terminate, terminated, pc, stopping>>
        /\ \/ mi < N /\ mi' = mi + 1 /\ mpc' = "notify"
           \/ mi = N /\ mi' = 1 /\ mpc' = "wait"
    BY DEF MainNotify, Advance, IInv, TypeOK
  <1>2. /\ parked' \in [Workers -> SUBSET Threads]
        /\ \A w \in Workers : parked'[w] \subseteq parked[w]
        /\ parked[mi] # {} => \E t \in parked[mi] : t \notin parked'[mi]
    BY <1>1, NotifyOneWakes DEF MainNotify, IInv, TypeOK, WorkerTypeOK
  <1>3. mi \notin parked'[mi]
    <2>1. parked[mi] \subseteq {mi}
      BY <1>1 DEF IInv, ParkedInv
    <2>. QED  BY <1>1, <1>2, <2>1
  <1>4. TypeOK'
    BY <1>1, <1>2, Names DEF IInv, TypeOK, WorkerTypeOK
  <1>5. ControlInv'
    BY <1>1 DEF ControlInv
  <1>6. MutexInv'
    BY <1>1, Names DEF IInv, MutexInv, MainHolds
  <1>7. ParkedInv'
    BY <1>1, <1>2 DEF IInv, ParkedInv
  <1>8. FlagInv'
    BY <1>1 DEF IInv, FlagInv, MustRun
  <1>9. PassedInv'
    BY <1>1, Names DEF PassedInv, MainPassed
  <1>10. WakeupInv'
    BY <1>1, <1>2, <1>3, Names DEF IInv, WakeupInv, ParkedInv, NotYetNotified, Idle
  <1>. QED  BY <1>4, <1>5, <1>6, <1>7, <1>8, <1>9, <1>10 DEF IInv

(* To wait the main thread first takes the mutex. *)
LEMMA MainWaitInv ==
  ASSUME IInv, MainWait
  PROVE  IInv'
  <1>1. TypeOK'
    BY Names DEF MainWait, Acquire, IInv, TypeOK, WorkerTypeOK
  <1>2. ControlInv'
    BY Names DEF MainWait, Acquire, IInv, TypeOK, WorkerTypeOK, ControlInv
  <1>3. MutexInv'
    BY Names DEF MainWait, Acquire, IInv, TypeOK, WorkerTypeOK, MutexInv,
        MainHolds, Working
  <1>4. ParkedInv'
    BY Names DEF MainWait, Acquire, IInv, TypeOK, WorkerTypeOK, ParkedInv
  <1>5. FlagInv'
    BY Names DEF MainWait, Acquire, IInv, TypeOK, WorkerTypeOK, FlagInv,
        MustRun
  <1>6. PassedInv'
    BY Names DEF MainWait, Acquire, IInv, TypeOK, WorkerTypeOK, PassedInv,
        MainPassed, Idle
  <1>7. WakeupInv'
    BY Names DEF MainWait, Acquire, IInv, TypeOK, WorkerTypeOK, WakeupInv,
        NotYetNotified, Idle
  <1>. QED  BY <1>1, <1>2, <1>3, <1>4, <1>5, <1>6, <1>7 DEF IInv

(* A worker that wait() has let pass stays idle until the next callable. *)
LEMMA MainPassInv ==
  ASSUME IInv, MainPass
  PROVE  IInv'
  <1>1. TypeOK'
    BY Names DEF MainPass, Advance, Release, Idle, IInv, TypeOK, WorkerTypeOK
  <1>2. ControlInv'
    BY Names DEF MainPass, Advance, Release, Idle, IInv, TypeOK, WorkerTypeOK,
        ControlInv
  <1>3. MutexInv'
    BY Names DEF MainPass, Advance, Release, Idle, IInv, TypeOK, WorkerTypeOK,
        MutexInv, MainHolds, Working
  <1>4. ParkedInv'
    BY Names DEF MainPass, Advance, Release, Idle, IInv, TypeOK, WorkerTypeOK,
        ParkedInv
  <1>5. FlagInv'
    BY Names DEF MainPass, Advance, Release, Idle, IInv, TypeOK, WorkerTypeOK,
        FlagInv, MustRun
  <1>6. PassedInv'
    BY Names DEF MainPass, Advance, Release, Idle, IInv, TypeOK, WorkerTypeOK,
        PassedInv, MainPassed
  <1>7. WakeupInv'
    BY Names DEF MainPass, Advance, Release, Idle, IInv, TypeOK, WorkerTypeOK,
        WakeupInv, NotYetNotified
  <1>. QED  BY <1>1, <1>2, <1>3, <1>4, <1>5, <1>6, <1>7 DEF IInv

(* A worker that is not idle lets the main thread go to sleep. *)
LEMMA MainMustParkInv ==
  ASSUME IInv, MainMustPark
  PROVE  IInv'
  <1>1. TypeOK'
    BY Names DEF MainMustPark, Idle, workerVars, IInv, TypeOK, WorkerTypeOK
  <1>2. ControlInv'
    BY Names DEF MainMustPark, Idle, workerVars, IInv, TypeOK, WorkerTypeOK,
        ControlInv
  <1>3. MutexInv'
    BY Names DEF MainMustPark, Idle, workerVars, IInv, TypeOK, WorkerTypeOK,
        MutexInv, MainHolds, Working
  <1>4. ParkedInv'
    BY Names DEF MainMustPark, Idle, workerVars, IInv, TypeOK, WorkerTypeOK,
        ParkedInv
  <1>5. FlagInv'
    BY Names DEF MainMustPark, Idle, workerVars, IInv, TypeOK, WorkerTypeOK,
        FlagInv, MustRun
  <1>6. PassedInv'
    BY Names DEF MainMustPark, Idle, workerVars, IInv, TypeOK, WorkerTypeOK,
        PassedInv, MainPassed
  <1>7. WakeupInv'
    BY Names DEF MainMustPark, Idle, workerVars, IInv, TypeOK, WorkerTypeOK,
        WakeupInv, NotYetNotified
  <1>. QED  BY <1>1, <1>2, <1>3, <1>4, <1>5, <1>6, <1>7 DEF IInv

(* The main thread falls asleep while the worker is not idle. *)
LEMMA MainParkInv ==
  ASSUME IInv, MainPark
  PROVE  IInv'
  <1>1. TypeOK'
    BY Names DEF MainPark, Block, Release, IInv, TypeOK, WorkerTypeOK
  <1>2. ControlInv'
    BY Names DEF MainPark, Block, Release, IInv, TypeOK, WorkerTypeOK,
        ControlInv
  <1>3. MutexInv'
    BY Names DEF MainPark, Block, Release, IInv, TypeOK, WorkerTypeOK,
        MutexInv, MainHolds, Working
  <1>4. ParkedInv'
    BY Names DEF MainPark, Block, Release, IInv, TypeOK, WorkerTypeOK,
        ParkedInv
  <1>5. FlagInv'
    BY Names DEF MainPark, Block, Release, IInv, TypeOK, WorkerTypeOK,
        FlagInv, MustRun
  <1>6. PassedInv'
    BY Names DEF MainPark, Block, Release, IInv, TypeOK, WorkerTypeOK,
        PassedInv, MainPassed, Idle
  <1>7. WakeupInv'
    BY Names DEF MainPark, Block, Release, IInv, TypeOK, WorkerTypeOK,
        WakeupInv, NotYetNotified, Idle
  <1>. QED  BY <1>1, <1>2, <1>3, <1>4, <1>5, <1>6, <1>7 DEF IInv

(* A worker takes its mutex. *)
LEMMA LockInv ==
  ASSUME NEW v \in Workers, IInv, Lock(v), UNCHANGED <<mpc, mi, stopping>>
  PROVE  IInv'
  <1>1. TypeOK'
    BY Names DEF Lock, Goto, Acquire, IInv, TypeOK, WorkerTypeOK
  <1>2. ControlInv'
    BY Names DEF Lock, Goto, Acquire, IInv, TypeOK, WorkerTypeOK, ControlInv
  <1>3. MutexInv'
    BY Names DEF Lock, Goto, Acquire, IInv, TypeOK, WorkerTypeOK, MutexInv,
        MainHolds, Working
  <1>4. ParkedInv'
    BY Names DEF Lock, Goto, Acquire, IInv, TypeOK, WorkerTypeOK, ParkedInv
  <1>5. FlagInv'
    BY Names DEF Lock, Goto, Acquire, IInv, TypeOK, WorkerTypeOK, FlagInv,
        MustRun
  <1>6. PassedInv'
    BY Names DEF Lock, Goto, Acquire, IInv, TypeOK, WorkerTypeOK, PassedInv,
        MainPassed, Idle
  <1>7. WakeupInv'
    BY Names DEF Lock, Goto, Acquire, IInv, TypeOK, WorkerTypeOK, WakeupInv,
        NotYetNotified, Idle
  <1>. QED  BY <1>1, <1>2, <1>3, <1>4, <1>5, <1>6, <1>7 DEF IInv

(* A worker that sleeps has found its queue empty, under its mutex. *)
LEMMA TestInv ==
  ASSUME NEW v \in Workers, IInv, Test(v), UNCHANGED <<mpc, mi, stopping>>
  PROVE  IInv'
  <1>1. TypeOK'
    BY Names DEF Test, Goto, MustRun, IInv, TypeOK, WorkerTypeOK
  <1>2. ControlInv'
    BY Names DEF Test, Goto, MustRun, IInv, TypeOK, WorkerTypeOK, ControlInv
  <1>3. MutexInv'
    BY Names DEF Test, Goto, MustRun, IInv, TypeOK, WorkerTypeOK, MutexInv,
        MainHolds, Working
  <1>4. ParkedInv'
    BY Names DEF Test, Goto, MustRun, IInv, TypeOK, WorkerTypeOK, ParkedInv
  <1>5. FlagInv'
    BY Names DEF Test, Goto, MustRun, IInv, TypeOK, WorkerTypeOK, FlagInv
  <1>6. PassedInv'
    BY Names DEF Test, Goto, MustRun, IInv, TypeOK, WorkerTypeOK, PassedInv,
        MainPassed, Idle
  <1>7. WakeupInv'
    BY Names DEF Test, Goto, MustRun, IInv, TypeOK, WorkerTypeOK, WakeupInv,
        NotYetNotified, Idle
  <1>. QED  BY <1>1, <1>2, <1>3, <1>4, <1>5, <1>6, <1>7 DEF IInv

(* A worker falls asleep on an empty queue. *)
LEMMA ParkInv ==
  ASSUME NEW v \in Workers, IInv, Park(v), UNCHANGED <<mpc, mi, stopping>>
  PROVE  IInv'
  <1>1. TypeOK'
    BY Names DEF Park, Goto, Block, Release, IInv, TypeOK, WorkerTypeOK
  <1>2. ControlInv'
    BY Names DEF Park, Goto, Block, Release, IInv, TypeOK, WorkerTypeOK,
        ControlInv
  <1>3. MutexInv'
    BY Names DEF Park, Goto, Block, Release, IInv, TypeOK, WorkerTypeOK,
        MutexInv, MainHolds, Working
  <1>4. ParkedInv'
    BY Names DEF Park, Goto, Block, Release, IInv, TypeOK, WorkerTypeOK,
        ParkedInv
  <1>5. FlagInv'
    BY Names DEF Park, Goto, Block, Release, IInv, TypeOK, WorkerTypeOK,
        FlagInv, MustRun
  <1>6. PassedInv'
    BY Names DEF Park, Goto, Block, Release, IInv, TypeOK, WorkerTypeOK,
        PassedInv, MainPassed, Idle
  <1>7. WakeupInv'
    BY Names DEF Park, Goto, Block, Release, IInv, TypeOK, WorkerTypeOK,
        WakeupInv, NotYetNotified, Idle
  <1>. QED  BY <1>1, <1>2, <1>3, <1>4, <1>5, <1>6, <1>7 DEF IInv

(* A worker that leaves makes its wait() pass and is about to notify. *)
LEMMA LeaveInv ==
  ASSUME NEW v \in Workers, IInv, Leave(v), UNCHANGED <<mpc, mi, stopping>>
  PROVE  IInv'
  <1>1. TypeOK'
    BY Names DEF Leave, Goto, Release, IInv, TypeOK, WorkerTypeOK
  <1>2. ControlInv'
    BY Names DEF Leave, Goto, Release, IInv, TypeOK, WorkerTypeOK, ControlInv
  <1>3. MutexInv'
    BY Names DEF Leave, Goto, Release, IInv, TypeOK, WorkerTypeOK, MutexInv,
        MainHolds, Working
  <1>4. ParkedInv'
    BY Names DEF Leave, Goto, Release, IInv, TypeOK, WorkerTypeOK, ParkedInv
  <1>5. FlagInv'
    BY Names DEF Leave, Goto, Release, IInv, TypeOK, WorkerTypeOK, FlagInv,
        MustRun
  <1>6. PassedInv'
    BY Names DEF Leave, Goto, Release, IInv, TypeOK, WorkerTypeOK, PassedInv,
        MainPassed, Idle
  <1>7. WakeupInv'
    BY Names DEF Leave, Goto, Release, IInv, TypeOK, WorkerTypeOK, WakeupInv,
        NotYetNotified, Idle, MutexInv, MainHolds, Working
  <1>. QED  BY <1>1, <1>2, <1>3, <1>4, <1>5, <1>6, <1>7 DEF IInv

(* A worker that has not been told to terminate has work. *)
LEMMA EnterInv ==
  ASSUME NEW v \in Workers, IInv, Enter(v), UNCHANGED <<mpc, mi, stopping>>
  PROVE  IInv'
  <1>1. TypeOK'
    BY Names DEF Enter, Goto, IInv, TypeOK, WorkerTypeOK
  <1>2. ControlInv'
    BY Names DEF Enter, Goto, IInv, TypeOK, WorkerTypeOK, ControlInv
  <1>3. MutexInv'
    BY Names DEF Enter, Goto, IInv, TypeOK, WorkerTypeOK, MutexInv, MainHolds,
        Working
  <1>4. ParkedInv'
    BY Names DEF Enter, Goto, IInv, TypeOK, WorkerTypeOK, ParkedInv
  <1>5. FlagInv'
    BY Names DEF Enter, Goto, IInv, TypeOK, WorkerTypeOK, FlagInv, MustRun
  <1>6. PassedInv'
    BY Names DEF Enter, Goto, IInv, TypeOK, WorkerTypeOK, PassedInv,
        MainPassed, Idle
  <1>7. WakeupInv'
    BY Names DEF Enter, Goto, IInv, TypeOK, WorkerTypeOK, WakeupInv,
        NotYetNotified, Idle
  <1>. QED  BY <1>1, <1>2, <1>3, <1>4, <1>5, <1>6, <1>7 DEF IInv

(* A worker that has worked is about to notify. *)
LEMMA CallableInv ==
  ASSUME NEW v \in Workers, IInv, Callable(v), UNCHANGED <<mpc, mi, stopping>>
  PROVE  IInv'
  <1>1. TypeOK'
    BY Names DEF Callable, Goto, Release, IInv, TypeOK, WorkerTypeOK
  <1>2. ControlInv'
    BY Names DEF Callable, Goto, Release, IInv, TypeOK, WorkerTypeOK,
        ControlInv
  <1>3. MutexInv'
    BY Names DEF Callable, Goto, Release, IInv, TypeOK, WorkerTypeOK,
        MutexInv, MainHolds, Working
  <1>4. ParkedInv'
    BY Names DEF Callable, Goto, Release, IInv, TypeOK, WorkerTypeOK,
        ParkedInv
  <1>5. FlagInv'
    BY Names DEF Callable, Goto, Release, IInv, TypeOK, WorkerTypeOK, FlagInv,
        MustRun
  <1>6. PassedInv'
    BY Names DEF Callable, Goto, Release, IInv, TypeOK, WorkerTypeOK,
        PassedInv, MainPassed, Idle
  <1>7. WakeupInv'
    BY Names DEF Callable, Goto, Release, IInv, TypeOK, WorkerTypeOK,
        WakeupInv, NotYetNotified, Idle, MutexInv, MainHolds, Working,
        FlagInv, MustRun
  <1>. QED  BY <1>1, <1>2, <1>3, <1>4, <1>5, <1>6, <1>7 DEF IInv

(* A worker is not asleep when it notifies, so the main thread is woken. *)
LEMMA NotifyInv ==
  ASSUME NEW v \in Workers, IInv, Notify(v), UNCHANGED <<mpc, mi, stopping>>
  PROVE  IInv'
  <1>1. /\ pc \in [Workers -> {"lock", "test", "park", "decide", "callable",
                               "notify", "bye", "exited"}]
        /\ UNCHANGED <<mutex, queue, terminate, terminated, mpc, mi, stopping>>
        /\ \/ pc[v] = "notify" /\ pc' = [pc EXCEPT ![v] = "lock"]
           \/ pc[v] = "bye" /\ pc' = [pc EXCEPT ![v] = "exited"]
    BY DEF Notify, Goto, IInv, TypeOK, WorkerTypeOK
  <1>2. /\ parked' \in [Workers -> SUBSET Threads]
        /\ \A w \in Workers : parked'[w] \subseteq parked[w]
        /\ parked[v] # {} => \E t \in parked[v] : t \notin parked'[v]
    BY NotifyOneWakes DEF Notify, IInv, TypeOK, WorkerTypeOK
  <1>3. Main \notin parked'[v]
    <2>1. parked[v] \subseteq {Main}
      BY <1>1 DEF IInv, ParkedInv
    <2>. QED  BY <1>2, <2>1
  <1>4. TypeOK'
    BY <1>1, <1>2 DEF IInv, TypeOK, WorkerTypeOK
  <1>5. ControlInv'
    BY <1>1 DEF IInv, ControlInv
  <1>6. MutexInv'
    BY <1>1 DEF IInv, MutexInv, MainHolds, Working
  <1>7. ParkedInv'
    BY <1>1, <1>2 DEF IInv, ParkedInv
  <1>8. FlagInv'
    BY <1>1 DEF IInv, FlagInv, MustRun
  <1>9. PassedInv'
    BY <1>1 DEF IInv, PassedInv, MainPassed, Idle
  <1>10. WakeupInv'
    BY <1>1, <1>2, <1>3 DEF IInv, WakeupInv, ParkedInv, NotYetNotified, Idle
  <1>. QED  BY <1>4, <1>5, <1>6, <1>7, <1>8, <1>9, <1>10 DEF IInv

(* Waking a sleeper for no reason does no harm. *)
LEMMA SpuriousWakeInv ==
  ASSUME NEW v \in Workers, IInv, SpuriousWake(v), UNCHANGED <<mpc, mi, stopping>>
  PROVE  IInv'
  <1>1. TypeOK'
    BY Names DEF SpuriousWake, IInv, TypeOK, WorkerTypeOK
  <1>2. ControlInv'
    BY Names DEF SpuriousWake, IInv, TypeOK, WorkerTypeOK, ControlInv
  <1>3. MutexInv'
    BY Names DEF SpuriousWake, IInv, TypeOK, WorkerTypeOK, MutexInv,
        MainHolds, Working
  <1>4. ParkedInv'
    BY Names DEF SpuriousWake, IInv, TypeOK, WorkerTypeOK, ParkedInv
  <1>5. FlagInv'
    BY Names DEF SpuriousWake, IInv, TypeOK, WorkerTypeOK, FlagInv, MustRun
  <1>6. PassedInv'
    BY Names DEF SpuriousWake, IInv, TypeOK, WorkerTypeOK, PassedInv,
        MainPassed, Idle
  <1>7. WakeupInv'
    BY Names DEF SpuriousWake, IInv, TypeOK, WorkerTypeOK, WakeupInv,
        NotYetNotified, Idle
  <1>. QED  BY <1>1, <1>2, <1>3, <1>4, <1>5, <1>6, <1>7 DEF IInv

(* A worker may be told to terminate at any time. *)
LEMMA StopperSetsInv ==
  ASSUME NEW v \in Workers, IInv, StopperSets(v)
  PROVE  IInv'
  <1>1. TypeOK'
    BY Names DEF StopperSets, SetTerminate, IInv, TypeOK, WorkerTypeOK
  <1>2. ControlInv'
    BY Names DEF StopperSets, SetTerminate, IInv, TypeOK, WorkerTypeOK,
        ControlInv
  <1>3. MutexInv'
    BY Names DEF StopperSets, SetTerminate, IInv, TypeOK, WorkerTypeOK,
        MutexInv, MainHolds, Working
  <1>4. ParkedInv'
    BY Names DEF StopperSets, SetTerminate, IInv, TypeOK, WorkerTypeOK,
        ParkedInv
  <1>5. FlagInv'
    BY Names DEF StopperSets, SetTerminate, IInv, TypeOK, WorkerTypeOK,
        FlagInv, MustRun
  <1>6. PassedInv'
    BY Names DEF StopperSets, SetTerminate, IInv, TypeOK, WorkerTypeOK,
        PassedInv, MainPassed, Idle
  <1>7. WakeupInv'
    BY Names DEF StopperSets, SetTerminate, IInv, TypeOK, WorkerTypeOK,
        WakeupInv, NotYetNotified, Idle
  <1>. QED  BY <1>1, <1>2, <1>3, <1>4, <1>5, <1>6, <1>7 DEF IInv

(* Waking every sleeper does no harm. *)
LEMMA StopperNotifiesInv ==
  ASSUME NEW v \in Workers, IInv, StopperNotifies(v)
  PROVE  IInv'
  <1>1. TypeOK'
    BY Names DEF StopperNotifies, NotifyAll, IInv, TypeOK, WorkerTypeOK
  <1>2. ControlInv'
    BY Names DEF StopperNotifies, NotifyAll, IInv, TypeOK, WorkerTypeOK,
        ControlInv
  <1>3. MutexInv'
    BY Names DEF StopperNotifies, NotifyAll, IInv, TypeOK, WorkerTypeOK,
        MutexInv, MainHolds, Working
  <1>4. ParkedInv'
    BY Names DEF StopperNotifies, NotifyAll, IInv, TypeOK, WorkerTypeOK,
        ParkedInv
  <1>5. FlagInv'
    BY Names DEF StopperNotifies, NotifyAll, IInv, TypeOK, WorkerTypeOK,
        FlagInv, MustRun
  <1>6. PassedInv'
    BY Names DEF StopperNotifies, NotifyAll, IInv, TypeOK, WorkerTypeOK,
        PassedInv, MainPassed, Idle
  <1>7. WakeupInv'
    BY Names DEF StopperNotifies, NotifyAll, IInv, TypeOK, WorkerTypeOK,
        WakeupInv, NotYetNotified, Idle
  <1>. QED  BY <1>1, <1>2, <1>3, <1>4, <1>5, <1>6, <1>7 DEF IInv

(* Every step of Loop preserves the inductive invariant. *)
LEMMA IInvNext == IInv /\ [Next]_vars => IInv'
  <1> SUFFICES ASSUME IInv, [Next]_vars PROVE IInv'
    OBVIOUS
  <1>1. CASE MainStep
    BY <1>1, MainLockInv, MainCallableInv, MainThrowsInv, MainUnlockInv,
       MainNotifyInv, MainWaitInv, MainPassInv, MainMustParkInv, MainParkInv
    DEF MainStep
  <1>2. CASE \E w \in Workers : PoolStep(w)
    <2>1. PICK w \in Workers : PoolStep(w)
      BY <1>2
    <2>. QED
      BY <2>1, LockInv, TestInv, ParkInv, LeaveInv, EnterInv, CallableInv, NotifyInv
      DEF PoolStep, WorkerStep
  <1>3. CASE \E w \in Workers : Spurious(w) \/ StopperSets(w) \/ StopperNotifies(w)
    BY <1>3, SpuriousWakeInv, StopperSetsInv, StopperNotifiesInv DEF Spurious
  <1>4. CASE UNCHANGED vars
    BY <1>4
    DEF vars, workerVars, IInv, TypeOK, WorkerTypeOK, ControlInv, MutexInv, ParkedInv,
        FlagInv, PassedInv, WakeupInv, MainHolds, MainPassed, NotYetNotified, Idle, MustRun
  <1>. QED  BY <1>1, <1>2, <1>3, <1>4 DEF Next

(* The inductive invariant holds in every state of every execution. *)
THEOREM Invariance == Spec => []IInv
  BY IInvInit, IInvNext, PTL DEF Spec

-----------------------------------------------------------------------------
(* The state keeps its types. *)
THEOREM TypeCorrect == Spec => []TypeOK
  <1>1. IInv => TypeOK
    BY DEF IInv
  <1>. QED  BY <1>1, Invariance, PTL

(* No worker's callable runs while the main callable does: the main thread *)
(* holds every cvm then, and a worker at its callable holds its own.       *)
THEOREM MutualExclusion == Spec => []MainExclusive
  <1>1. IInv => MainExclusive
    BY Names DEF IInv, MutexInv, MainHolds, Working, MainExclusive
  <1>. QED  BY <1>1, Invariance, PTL

(* A round starts only when the work of the round before is done: a worker  *)
(* that wait() let pass stays idle, since nobody else pushes to its queue.  *)
THEOREM BarrierHolds == Spec => []Barrier
  <1>1. IInv => Barrier
    BY DEF IInv, PassedInv, MainPassed, Idle, Barrier
  <1>. QED  BY <1>1, Invariance, PTL

(* No wakeup is lost: work is pushed and tested for under cvm, and the main *)
(* thread and the worker never sleep on cv when the other notifies.         *)
THEOREM WakeupsArrive == Spec => []NoLostWakeup
  <1>1. IInv => NoLostWakeup
    <2> SUFFICES ASSUME IInv, NEW w \in Workers
                 PROVE  /\ w \in parked[w] /\ queue[w] # {} =>
                             \/ mpc \in {"unlock", "thrown"}
                             \/ mpc = "notify" /\ mi <= w /\ parked[w] = {w}
                        /\ Main \in parked[w] /\ Idle(w) =>
                             pc[w] \in {"notify", "bye"} /\ parked[w] = {Main}
      BY DEF NoLostWakeup
    <2>1. ASSUME w \in parked[w], queue[w] # {}
          PROVE  \/ mpc \in {"unlock", "thrown"}
                 \/ mpc = "notify" /\ mi <= w /\ parked[w] = {w}
      <3>1. NotYetNotified(w) /\ mpc # "callable"
        BY <2>1 DEF IInv, WakeupInv, PassedInv, MainPassed, Idle, FlagInv, ParkedInv
      <3>2. mpc = "notify" => parked[w] = {w}
        BY <2>1 DEF IInv, ParkedInv
      <3>. QED  BY <3>1, <3>2 DEF NotYetNotified
    <2>2. ASSUME Main \in parked[w], Idle(w)
          PROVE  pc[w] \in {"notify", "bye"} /\ parked[w] = {Main}
      BY <2>2 DEF IInv, WakeupInv, ParkedInv
    <2>. QED  BY <2>1, <2>2
  <1>. QED  BY <1>1, Invariance, PTL

-----------------------------------------------------------------------------
(* A worker that has terminated is past its last callable. *)
THEOREM NothingAfterTermination == Spec => NoWorkAfterTermination
  <1> DEFINE Kept == \A w \in Workers :
               terminated[w] => terminated'[w] /\ queue[w] \subseteq queue'[w]
  <1>1. IInv /\ [Next]_vars => [Kept]_vars
    <2> SUFFICES ASSUME IInv, Next PROVE Kept
      OBVIOUS
    <2> USE DEF IInv, TypeOK, WorkerTypeOK
    <2>1. CASE MainStep
      BY <2>1
      DEF MainStep, MainLock, MainCallable, MainThrows, MainUnlock, MainNotify, MainWait,
          MainPass, MainMustPark, MainPark, Dispatch, workerVars
    <2>2. CASE \E v \in Workers : PoolStep(v)
      <3>1. PICK v \in Workers : PoolStep(v)
        BY <2>2
      <3>2. CASE Callable(v)
        <4>1. ~terminated[v]
          BY <3>2 DEF Callable, Goto, FlagInv
        <4>. QED  BY <3>2, <4>1 DEF Callable
      <3>3. CASE Leave(v)
        BY <3>3 DEF Leave
      <3>4. CASE UNCHANGED <<queue, terminated>>
        BY <3>4
      <3>. QED
        BY <3>1, <3>2, <3>3, <3>4
        DEF PoolStep, WorkerStep, Lock, Test, Park, Enter, Notify
    <2>3. CASE \E v \in Workers : Spurious(v) \/ StopperSets(v) \/ StopperNotifies(v)
      BY <2>3 DEF Spurious, SpuriousWake, StopperSets, SetTerminate, StopperNotifies, NotifyAll
    <2>. QED  BY <2>1, <2>2, <2>3 DEF Next
  <1>. QED  BY <1>1, Invariance, PTL DEF Spec, NoWorkAfterTermination

(* After an exception the main thread holds every cvm for ever. *)
THEOREM ExceptionWedges == Spec => ThrownWedges
  <1> DEFINE Wedged == mpc = "thrown" => UNCHANGED <<mpc, queue, terminated>>
  <1>1. IInv /\ [Next]_vars => [Wedged]_vars
    <2> SUFFICES ASSUME IInv, Next, mpc = "thrown"
                 PROVE  UNCHANGED <<mpc, queue, terminated>>
      OBVIOUS
    <2>1. ~MainStep
      BY DEF MainStep, MainLock, MainCallable, MainThrows, MainUnlock, MainNotify, MainWait,
             MainPass, MainMustPark, MainPark, Advance
    <2>2. CASE \E v \in Workers : PoolStep(v)
      <3>1. PICK v \in Workers : PoolStep(v)
        BY <2>2
      <3>2. mutex[v] # v
        BY Names DEF IInv, MutexInv, MainHolds
      <3>3. ~Leave(v) /\ ~Callable(v)
        BY <3>2 DEF Leave, Callable, Release
      <3>. QED
        BY <3>1, <3>3 DEF PoolStep, WorkerStep, Lock, Test, Park, Enter, Notify
    <2>3. CASE \E v \in Workers : Spurious(v) \/ StopperSets(v) \/ StopperNotifies(v)
      BY <2>3 DEF Spurious, SpuriousWake, StopperSets, SetTerminate, StopperNotifies, NotifyAll
    <2>. QED  BY <2>1, <2>2, <2>3 DEF Next
  <1>. QED  BY <1>1, Invariance, PTL DEF Spec, ThrownWedges

-----------------------------------------------------------------------------
(* Loop implements Rounds.  The main thread's turn is from its last lock to *)
(* the end of the callable; there is nothing between the threads that a     *)
(* client who relies on Rounds could notice.                                *)
THEOREM Refinement == Spec => RoundsSpec
  <1>1. Init => R!Init
    BY DEF Init, WorkerInit, R!Init, phase
  <1>2. IInv /\ [Next]_vars => [R!Next]_(R!vars)
    <2> SUFFICES ASSUME IInv, [Next]_vars
                 PROVE  R!Next \/ UNCHANGED R!vars
      OBVIOUS
    <2> USE DEF phase
    <2>1. CASE MainLock
      <3>1. CASE mi < N
        BY <2>1, <3>1, Names DEF MainLock, Advance, R!vars
      <3>2. CASE mi = N
        <4>1. \A w \in Workers : queue[w] = {} \/ terminated[w]
          BY <2>1 DEF MainLock, Advance, IInv, PassedInv, MainPassed, Idle
        <4>2. R!Synchronise
          BY <2>1, <3>2, <4>1, Names DEF MainLock, Advance, R!Synchronise
        <4>. QED  BY <4>2 DEF R!Next
      <3>. QED  BY <3>1, <3>2, <2>1 DEF MainLock, Advance
    <2>2. CASE MainCallable \/ MainThrows
      <3>1. R!MainTurn
        BY <2>2 DEF MainCallable, MainThrows, Dispatch, R!MainTurn
      <3>. QED  BY <3>1 DEF R!Next
    <2>3. CASE \/ MainUnlock \/ MainNotify \/ MainWait
               \/ MainPass \/ MainMustPark \/ MainPark
      BY <2>3
      DEF MainUnlock, MainNotify, MainWait, MainPass, MainMustPark, MainPark, Advance,
          workerVars, R!vars
    <2>4. CASE \E w \in Workers : PoolStep(w)
      <3>1. PICK w \in Workers : PoolStep(w)
        BY <2>4
      <3>2. CASE Callable(w)
        <4>1. phase = "workers" /\ ~terminated[w]
          BY <3>2, Names
          DEF Callable, Goto, IInv, MutexInv, MainHolds, Working, FlagInv
        <4>2. R!Work(w)
          BY <3>1, <3>2, <4>1 DEF Callable, PoolStep, R!Work
        <4>. QED  BY <4>2 DEF R!Next
      <3>3. CASE Leave(w)
        <4>1. phase = "workers"
          BY <3>3, Names DEF Leave, Goto, IInv, MutexInv, MainHolds, Working
        <4>2. R!Stop(w)
          BY <3>1, <3>3, <4>1 DEF Leave, PoolStep, R!Stop
        <4>. QED  BY <4>2 DEF R!Next
      <3>4. CASE Lock(w) \/ Test(w) \/ Park(w) \/ Enter(w) \/ Notify(w)
        BY <3>1, <3>4 DEF PoolStep, Lock, Test, Park, Enter, Notify, R!vars
      <3>. QED  BY <3>1, <3>2, <3>3, <3>4 DEF PoolStep, WorkerStep
    <2>5. CASE \E w \in Workers : StopperSets(w)
      <3>1. PICK w \in Workers : StopperSets(w)
        BY <2>5
      <3>2. R!Request(w)
        BY <3>1 DEF StopperSets, SetTerminate, R!Request
      <3>. QED  BY <3>2 DEF R!Next
    <2>6. CASE \E w \in Workers : Spurious(w) \/ StopperNotifies(w)
      BY <2>6 DEF Spurious, SpuriousWake, StopperNotifies, NotifyAll, R!vars
    <2>7. CASE UNCHANGED vars
      BY <2>7 DEF vars, workerVars, R!vars
    <2>. QED
      BY <2>1, <2>2, <2>3, <2>4, <2>5, <2>6, <2>7 DEF Next, MainStep
  <1>. QED  BY <1>1, <1>2, Invariance, PTL DEF Spec, RoundsSpec, R!Spec

=============================================================================
