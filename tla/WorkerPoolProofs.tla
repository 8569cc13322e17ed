-------------------------- MODULE WorkerPoolProofs --------------------------
(***************************************************************************)
(* Proofs about WorkerPool, for every set of workers and clients: nobody    *)
(* sleeps who will not be woken, and a body is had by one client alone.     *)
(***************************************************************************)
EXTENDS WorkerPool, FiniteSetTheorems, TLAPS

(* Between its lock and its unlock a worker holds its cvm. *)
Working == {"test", "park", "decide", "callable"}

MutexInv ==
  \A w \in Workers :
    /\ mutex[w] = w <=> pc[w] \in Working
    /\ \A c \in Clients : mutex[w] = c <=> cpc[c] \in {"test", "park"} /\ on[c] = w

(* A worker and clients that wait for it sleep on its cv. *)
ParkedInv ==
  \A w \in Workers : /\ IsFiniteSet(parked[w])
                     /\ parked[w] \subseteq {w} \cup Clients
                     /\ w \in parked[w] => pc[w] = "lock"
                     /\ \A c \in Clients \cap parked[w] : cpc[c] = "wait" /\ on[c] = w

(* What a thread has found before it goes to sleep still holds, but for     *)
(* pushes in a body and for the flag of terminate().                        *)
TestedInv ==
  \A w \in Workers :
    /\ pc[w] = "park" /\ queue[w] # {} => w \in raced
    /\ pc[w] = "park" /\ terminate[w] =>
         w \in missed \/ \E c \in Clients : cpc[c] = "terminate" /\ on[c] = w
    /\ \A c \in Clients : cpc[c] = "park" /\ on[c] = w => ~Idle(w)

WakeInv == MutexInv /\ ParkedInv /\ TestedInv /\ SleepersWillBeWoken

IInv == TypeOK /\ BodiesAreExclusive /\ WakeInv

-----------------------------------------------------------------------------
(* Threads have names of their own, and no name stands for a free mutex. *)
LEMMA Names == /\ Workers \subseteq Threads /\ Clients \subseteq Threads
               /\ \A w \in Workers, c \in Clients : w # c
               /\ Nobody \notin Workers /\ Nobody \notin Clients
  BY ThreadsAssumption DEF Threads

(* A notify_one that finds one sleeper at most leaves nobody asleep. *)
LEMMA OneSleeper ==
  ASSUME NEW w \in Workers, parked \in [Workers -> SUBSET Threads], IsFiniteSet(parked[w]),
         NotifyOne(w), ~(Cardinality(parked[w]) > 1)
  PROVE  parked'[w] = {}
  <1>1. CASE parked[w] = {}
    BY <1>1 DEF NotifyOne
  <1>2. CASE parked[w] # {}
    <2>1. Cardinality(parked[w]) \in Nat /\ Cardinality(parked[w]) # 0
      BY <1>2, FS_CardinalityType, FS_EmptySet
    <2>2. Cardinality(parked[w]) = 1
      BY <2>1
    <2>3. \E x : parked[w] = {x}
      BY <2>2, FS_Singleton
    <2>. QED  BY <1>2, <2>3 DEF NotifyOne
  <1>. QED  BY <1>1, <1>2

(* It wakes threads that sleep there, and touches nobody else. *)
LEMMA NotifyOneWakes ==
  ASSUME NEW w \in Workers, parked \in [Workers -> SUBSET Threads], NotifyOne(w)
  PROVE  /\ parked' \in [Workers -> SUBSET Threads]
         /\ \A v \in Workers : parked'[v] \subseteq parked[v]
         /\ \A v \in Workers \ {w} : parked'[v] = parked[v]
  BY DEF NotifyOne

(* Fewer sleepers are as finite and as well placed. *)
LEMMA FewerSleepers ==
  ASSUME ParkedInv, \A v \in Workers : parked'[v] \subseteq parked[v],
         UNCHANGED <<pc, on>>, \A c \in Clients : cpc[c] = "wait" => cpc'[c] = "wait"
  PROVE  ParkedInv'
  <1>1. \A v \in Workers : IsFiniteSet(parked'[v])
    BY FS_Subset DEF ParkedInv
  <1>. QED  BY <1>1 DEF ParkedInv

-----------------------------------------------------------------------------
(* Type correctness. *)

(* Each action keeps the types of the state. *)
LEMMA TypeOKInit == Init => TypeOK
  BY Names DEF Init, WorkerInit, ItemLockInit, TypeOK, WorkerTypeOK, ItemLockTypeOK, Threads

LEMMA TypeOKNext == TypeOK /\ [Next]_vars => TypeOK'
  <1> SUFFICES ASSUME TypeOK, [Next]_vars PROVE TypeOK'
    OBVIOUS
  <1> USE DEF TypeOK, WorkerTypeOK, ItemLockTypeOK, GotoClient
  <1>1. CASE UNCHANGED vars
    BY <1>1 DEF vars, workerVars, itemLocks, history
  <1>2. ASSUME NEW c \in Clients, Begin(c) \/ Terminate(c) PROVE TypeOK'
    <2>1. on' \in [Clients -> Workers]
      BY <1>2 DEF Begin, Terminate
    <2>2. CASE Begin(c)
      BY <2>1, <2>2 DEF Begin, workerVars, itemLocks, history
    <2>3. CASE Terminate(c)
      BY <2>1, <2>3 DEF Terminate, SetTerminate, itemLocks, history
    <2>. QED  BY <1>2, <2>2, <2>3
  <1>3. ASSUME NEW c \in Clients,
               Push(c) \/ WaitLock(c) \/ WaitReturns(c) \/ WaitMustPark(c) \/ WaitPark(c)
        PROVE  TypeOK'
    BY <1>3, Names, SMTT(30) DEF Push, WaitLock, WaitReturns, WaitMustPark, WaitPark, Acquire, Release,
                       Block, workerVars, itemLocks, history
  <1>4. ASSUME NEW c \in Clients, PushNotifies(c) PROVE TypeOK'
    <2>1. parked' \in [Workers -> SUBSET Threads]
      BY <1>4, NotifyOneWakes DEF PushNotifies
    <2>. QED  BY <1>4, <2>1 DEF PushNotifies, RecordNotifyOne, itemLocks
  <1>5. ASSUME NEW c \in Clients, TerminateNotifies(c) PROVE TypeOK'
    BY <1>5 DEF TerminateNotifies, NotifyAll, itemLocks
  <1>6. ASSUME NEW c \in Clients, Obtain(c) \/ TryObtain(c) \/ TryLock(c) PROVE TypeOK'
    BY <1>6, Names, SMTT(30) DEF Obtain, TryObtain, TryLock, LockItem, TryLockFails, workerVars,
                       itemLocks, history
  <1>7. ASSUME NEW c \in Clients, PushInBody(c) \/ UnlockEarly(c) \/ Destroy(c) PROVE TypeOK'
    <2>1. UNCHANGED <<mutex, parked, terminate, terminated, pc, on, contended, missed>>
      BY <1>7 DEF PushInBody, UnlockEarly, Destroy, workerVars, history
    <2>2. queue' \in [Workers -> SUBSET Items] /\ raced' \in SUBSET Workers
      BY <1>7 DEF PushInBody, UnlockEarly, Destroy, workerVars, history
    <2>3. ItemLockTypeOK'
      BY <1>7 DEF PushInBody, UnlockEarly, Destroy, DestroyLock, UnlockItem, Unlocked
    <2>4. cpc' \in [Clients -> {"idle", "push", "notify", "wait", "test", "park", "terminate",
                                "obtain", "try", "inside", "unlocked"}]
      BY <1>7 DEF PushInBody, UnlockEarly, Destroy
    <2>. QED  BY <2>1, <2>2, <2>3, <2>4
  <1>8. ASSUME NEW w \in Workers, PoolStep(w) PROVE TypeOK'
    <2> USE DEF PoolStep, RecordNotifyOne, itemLocks
    <2>1. CASE Notify(w)
      <3>1. parked' \in [Workers -> SUBSET Threads]
        BY <2>1, NotifyOneWakes DEF Notify
      <3>. QED  BY <1>8, <2>1, <3>1 DEF Notify, Goto
    <2>2. CASE Lock(w) \/ Test(w) \/ Enter(w)
      BY <1>8, <2>2, Names DEF Lock, Test, Enter, Goto, Acquire
    <2>3. CASE Park(w)
      BY <1>8, <2>3, Names DEF Park, Goto, Release, Block
    <2>4. CASE Leave(w)
      BY <1>8, <2>4, Names DEF Leave, Goto, Release
    <2>5. CASE Callable(w)
      <3>1. queue' \in [Workers -> SUBSET Items]
        BY <2>5 DEF Callable
      <3>. QED  BY <1>8, <2>5, <3>1 DEF Callable, Goto, Release
    <2>. QED  BY <1>8, <2>1, <2>2, <2>3, <2>4, <2>5 DEF WorkerStep
  <1>9. ASSUME NEW w \in Workers, Spurious(w) PROVE TypeOK'
    BY <1>9 DEF Spurious, SpuriousWake, itemLocks, history
  <1>. QED
    BY <1>1, <1>2, <1>3, <1>4, <1>5, <1>6, <1>7, <1>8, <1>9 DEF Next, Proceed

-----------------------------------------------------------------------------
(* The bodies. *)

(* Who is in a body keeps it until it leaves: nobody locks what it has, and *)
(* who unlocks what another has is recorded.                                *)
LEMMA UnlockedKeeps ==
  ASSUME TypeOK, NEW h \in Clients, Unlocked(h), NEW i \in Workers, NEW c \in Clients \ {h},
         owner[i] = c \/ i \in misused
  PROVE  owner'[i] = c \/ i \in misused'
  BY DEF Unlocked, TypeOK, ItemLockTypeOK

LEMMA BodiesInit == Init => BodiesAreExclusive
  BY DEF Init, BodiesAreExclusive

LEMMA BodiesNext == TypeOK /\ BodiesAreExclusive /\ [Next]_vars => BodiesAreExclusive'
  <1> SUFFICES ASSUME TypeOK, BodiesAreExclusive, [Next]_vars,
                      NEW d \in Clients, cpc'[d] = "inside"
               PROVE  owner'[on'[d]] = d \/ on'[d] \in misused'
    BY DEF BodiesAreExclusive
  <1> USE DEF BodiesAreExclusive, GotoClient
  <1>1. CASE UNCHANGED <<itemLocks, cpc, on>>
    BY <1>1 DEF itemLocks
  <1>2. ASSUME NEW c \in Clients, Begin(c) \/ Terminate(c)
        PROVE  owner'[on'[d]] = d \/ on'[d] \in misused'
    BY <1>2 DEF Begin, Terminate, itemLocks, TypeOK
  <1>3. ASSUME NEW c \in Clients,
               \/ Push(c) \/ PushNotifies(c) \/ WaitLock(c) \/ WaitReturns(c) \/ WaitMustPark(c)
               \/ WaitPark(c) \/ TerminateNotifies(c)
        PROVE  owner'[on'[d]] = d \/ on'[d] \in misused'
    BY <1>3 DEF Push, PushNotifies, WaitLock, WaitReturns, WaitMustPark, WaitPark,
                TerminateNotifies, itemLocks, TypeOK
  <1>4. ASSUME NEW c \in Clients, Obtain(c) \/ TryObtain(c) \/ TryLock(c)
        PROVE  owner'[on'[d]] = d \/ on'[d] \in misused'
    BY <1>4, Names DEF Obtain, TryObtain, TryLock, LockItem, TryLockFails, itemLocks,
                       TypeOK, ItemLockTypeOK
  <1>5. ASSUME NEW c \in Clients, PushInBody(c) \/ UnlockEarly(c) \/ Destroy(c)
        PROVE  owner'[on'[d]] = d \/ on'[d] \in misused'
    <2>1. Unlocked(c) /\ on' = on /\ d # c /\ cpc[d] = "inside" /\ on[d] \in Workers
      BY <1>5 DEF PushInBody, UnlockEarly, Destroy, DestroyLock, UnlockItem, TypeOK
    <2>. QED  BY <2>1, UnlockedKeeps
  <1>. QED
    BY <1>1, <1>2, <1>3, <1>4, <1>5 DEF Next, Proceed, PoolStep, Spurious, vars

-----------------------------------------------------------------------------
(* Sleepers. *)

LEMMA WakeInvInit == Init => WakeInv
  BY Names, FS_EmptySet
  DEF Init, WorkerInit, WakeInv, MutexInv, ParkedInv, TestedInv, SleepersWillBeWoken, Working, Idle

(* A client that goes neither to nor from a place where it has a cvm,       *)
(* sleeps or owes a notification changes nothing for a sleeper.             *)
LEMMA QuietKeeps ==
  ASSUME TypeOK, WakeInv, NEW c \in Clients, UNCHANGED <<workerVars, history>>,
         \A d \in Clients \ {c} : cpc'[d] = cpc[d] /\ on'[d] = on[d],
         cpc[c] \notin {"notify", "wait", "test", "park", "terminate"},
         cpc'[c] \notin {"test", "park"}
  PROVE  WakeInv'
  <1>1. UNCHANGED <<mutex, parked, queue, terminate, terminated, pc, contended, missed, raced>>
    BY DEF workerVars, history
  <1>2. MutexInv'
    BY <1>1 DEF WakeInv, MutexInv
  <1>3. ParkedInv'
    BY <1>1 DEF WakeInv, ParkedInv
  <1>4. TestedInv'
    BY <1>1 DEF WakeInv, TestedInv, Idle
  <1>5. SleepersWillBeWoken'
    BY <1>1 DEF WakeInv, SleepersWillBeWoken, Idle
  <1>. QED  BY <1>2, <1>3, <1>4, <1>5 DEF WakeInv

(* A push under cvm: the worker is not between its test and its sleep, and  *)
(* the client is going to notify it.                                        *)
LEMMA PushKeeps ==
  ASSUME TypeOK, WakeInv, NEW c \in Clients, Push(c)
  PROVE  WakeInv'
  <1> USE Names DEF GotoClient, TypeOK, WorkerTypeOK, WakeInv, Push, itemLocks, history
  <1>1. MutexInv'
    BY DEF MutexInv, Working
  <1>2. ParkedInv'
    BY DEF ParkedInv
  <1>3. TestedInv'
    BY DEF TestedInv, MutexInv, ParkedInv, Idle, Working
  <1>4. SleepersWillBeWoken'
    BY DEF SleepersWillBeWoken, MutexInv, ParkedInv, TestedInv, Idle, Working
  <1>. QED  BY <1>1, <1>2, <1>3, <1>4 DEF WakeInv

(* A client that waits takes cvm, tests, and sleeps or returns. *)
LEMMA WaitLockKeeps ==
  ASSUME TypeOK, WakeInv, NEW c \in Clients, WaitLock(c)
  PROVE  WakeInv'
  <1> USE Names DEF GotoClient, TypeOK, WorkerTypeOK, WakeInv, WaitLock, Acquire, itemLocks, history
  <1>1. MutexInv'
    BY DEF MutexInv, Working
  <1>2. ParkedInv'
    BY DEF ParkedInv
  <1>3. TestedInv'
    BY DEF TestedInv, MutexInv, ParkedInv, Idle, Working
  <1>4. SleepersWillBeWoken'
    BY DEF SleepersWillBeWoken, MutexInv, ParkedInv, TestedInv, Idle, Working
  <1>. QED  BY <1>1, <1>2, <1>3, <1>4 DEF WakeInv

(* It returns without cvm. *)
LEMMA WaitReturnsKeeps ==
  ASSUME TypeOK, WakeInv, NEW c \in Clients, WaitReturns(c)
  PROVE  WakeInv'
  <1> USE Names DEF GotoClient, TypeOK, WorkerTypeOK, WakeInv, WaitReturns, Release, itemLocks, history
  <1>1. MutexInv'
    BY DEF MutexInv, Working
  <1>2. ParkedInv'
    BY DEF ParkedInv
  <1>3. TestedInv'
    BY DEF TestedInv, MutexInv, ParkedInv, Idle, Working
  <1>4. SleepersWillBeWoken'
    BY DEF SleepersWillBeWoken, MutexInv, ParkedInv, TestedInv, Idle, Working
  <1>. QED  BY <1>1, <1>2, <1>3, <1>4 DEF WakeInv

(* What it has found holds as long as it has cvm. *)
LEMMA WaitMustParkKeeps ==
  ASSUME TypeOK, WakeInv, NEW c \in Clients, WaitMustPark(c)
  PROVE  WakeInv'
  <1> USE Names DEF GotoClient, TypeOK, WorkerTypeOK, WakeInv, WaitMustPark, workerVars, itemLocks, history
  <1>1. MutexInv'
    BY DEF MutexInv, Working
  <1>2. ParkedInv'
    BY DEF ParkedInv
  <1>3. TestedInv'
    BY DEF TestedInv, MutexInv, ParkedInv, Idle, Working
  <1>4. SleepersWillBeWoken'
    BY DEF SleepersWillBeWoken, MutexInv, ParkedInv, TestedInv, Idle, Working
  <1>. QED  BY <1>1, <1>2, <1>3, <1>4 DEF WakeInv

(* It sleeps while the worker is not idle. *)
LEMMA WaitParkKeeps ==
  ASSUME TypeOK, WakeInv, NEW c \in Clients, WaitPark(c)
  PROVE  WakeInv'
  <1> USE Names DEF GotoClient, TypeOK, WorkerTypeOK, WakeInv, WaitPark, Block, Release, itemLocks, history
  <1>1. MutexInv'
    BY DEF MutexInv, Working
  <1>2. ParkedInv'
    <2>1. \A v \in Workers : parked'[v] = IF v = on[c] THEN parked[v] \cup {c} ELSE parked[v]
      OBVIOUS
    <2>2. IsFiniteSet(parked[on[c]] \cup {c})
      <3>1. on[c] \in Workers /\ IsFiniteSet(parked[on[c]])
        BY DEF ParkedInv
      <3>. QED  BY ONLY <3>1, FS_AddElement
    <2>3. cpc'[c] = "wait" /\ \A d \in Clients \ {c} : cpc'[d] = cpc[d]
      OBVIOUS
    <2>. QED  BY <2>1, <2>2, <2>3 DEF ParkedInv
  <1>3. TestedInv'
    BY DEF TestedInv, MutexInv, ParkedInv, Idle, Working
  <1>4. SleepersWillBeWoken'
    BY DEF SleepersWillBeWoken, MutexInv, ParkedInv, TestedInv, Idle, Working
  <1>. QED  BY <1>1, <1>2, <1>3, <1>4 DEF WakeInv

(* terminate() sets the flag and owes a notification from then on. *)
LEMMA TerminateKeeps ==
  ASSUME TypeOK, WakeInv, NEW c \in Clients, Terminate(c)
  PROVE  WakeInv'
  <1> USE Names DEF GotoClient, TypeOK, WorkerTypeOK, WakeInv, Terminate, SetTerminate, itemLocks, history
  <1>1. MutexInv'
    BY DEF MutexInv, Working
  <1>2. ParkedInv'
    BY DEF ParkedInv
  <1>3. TestedInv'
    BY DEF TestedInv, MutexInv, ParkedInv, Idle, Working
  <1>4. SleepersWillBeWoken'
    BY DEF SleepersWillBeWoken, MutexInv, ParkedInv, TestedInv, Idle, Working
  <1>. QED  BY <1>1, <1>2, <1>3, <1>4 DEF WakeInv

(* It wakes everybody, or misses a worker that is on its way. *)
LEMMA TerminateNotifiesKeeps ==
  ASSUME TypeOK, WakeInv, NEW c \in Clients, TerminateNotifies(c)
  PROVE  WakeInv'
  <1> USE Names DEF GotoClient, TypeOK, WorkerTypeOK, WakeInv, TerminateNotifies, NotifyAll, itemLocks
  <1>1. MutexInv'
    BY DEF MutexInv, Working
  <1>2. ParkedInv'
    <2>1. \A v \in Workers : parked'[v] \subseteq parked[v]
      OBVIOUS
    <2>. QED  BY <2>1, FewerSleepers
  <1>3. TestedInv'
    BY DEF TestedInv, MutexInv, ParkedInv, Idle, Working
  <1>4. SleepersWillBeWoken'
    BY DEF SleepersWillBeWoken, MutexInv, ParkedInv, TestedInv, Idle, Working
  <1>. QED  BY <1>1, <1>2, <1>3, <1>4 DEF WakeInv

(* A push in a body notifies later, and races with a worker on its way. *)
LEMMA PushInBodyKeeps ==
  ASSUME TypeOK, WakeInv, NEW c \in Clients, PushInBody(c)
  PROVE  WakeInv'
  <1> USE Names DEF GotoClient, TypeOK, WorkerTypeOK, WakeInv, PushInBody
  <1>1. MutexInv'
    BY DEF MutexInv, Working
  <1>2. ParkedInv'
    BY DEF ParkedInv
  <1>3. TestedInv'
    <2>1. \A w \in Workers : pc[w] = "park" => mutex[w] # Nobody
      BY DEF MutexInv, Working
    <2>. QED  BY <2>1 DEF TestedInv, Idle, Touched
  <1>4. SleepersWillBeWoken'
    BY DEF SleepersWillBeWoken, MutexInv, ParkedInv, TestedInv, Idle, Working
  <1>. QED  BY <1>1, <1>2, <1>3, <1>4 DEF WakeInv

(* The notification of a client wakes whoever sleeps alone. *)
LEMMA PushNotifiesKeeps ==
  ASSUME TypeOK, WakeInv, NEW c \in Clients, PushNotifies(c)
  PROVE  WakeInv'
  <1> USE Names DEF GotoClient, TypeOK, WorkerTypeOK, WakeInv, PushNotifies, itemLocks
  <1> DEFINE v == on[c]
  <1>a. v \in Workers /\ NotifyOne(v)
    OBVIOUS
  <1>b. /\ \A u \in Workers : parked'[u] \subseteq parked[u]
        /\ \A u \in Workers \ {v} : parked'[u] = parked[u]
    BY <1>a, NotifyOneWakes
  <1>c. v \in contended' \/ parked'[v] = {}
    BY <1>a, OneSleeper DEF RecordNotifyOne, ParkedInv
  <1>d. contended \subseteq contended'
    BY DEF RecordNotifyOne
  <1>1. MutexInv'
    BY DEF MutexInv, Working
  <1>2. ParkedInv'
    BY <1>b, FewerSleepers
  <1>3. TestedInv'
    BY DEF TestedInv, MutexInv, ParkedInv, Idle, Working
  <1>4. SleepersWillBeWoken'
    <2> SUFFICES ASSUME NEW w \in Workers
                 PROVE  /\ w \in parked'[w] /\ queue[w] # {} =>
                             w \in contended' \cup raced \/ \E d \in Clients : cpc'[d] = "notify" /\ on[d] = w
                        /\ \A d \in Clients : d \in parked'[w] /\ Idle(w) =>
                             w \in contended' \/ pc[w] \in {"notify", "bye"}
                        /\ w \in parked'[w] /\ terminate[w] =>
                             w \in missed \/ \E d \in Clients : cpc'[d] = "terminate" /\ on[d] = w
      BY DEF SleepersWillBeWoken, Idle
    <2>1. CASE w = v
      BY <1>b, <1>c, <1>d, <2>1 DEF SleepersWillBeWoken
    <2>2. CASE w # v
      BY <1>b, <1>d, <2>2 DEF SleepersWillBeWoken
    <2>. QED  BY <2>1, <2>2
  <1>. QED  BY <1>1, <1>2, <1>3, <1>4 DEF WakeInv

(* The worker takes its cvm. *)
LEMMA LockKeeps ==
  ASSUME TypeOK, WakeInv, NEW w \in Workers, PoolStep(w), Lock(w)
  PROVE  WakeInv'
  <1> USE Names DEF GotoClient, TypeOK, WorkerTypeOK, WakeInv, PoolStep, itemLocks, Goto, Lock, Acquire
  <1>1. MutexInv'
    BY DEF MutexInv, Working
  <1>2. ParkedInv'
    BY DEF ParkedInv
  <1>3. TestedInv'
    BY DEF TestedInv, MutexInv, ParkedInv, Idle, Working
  <1>4. SleepersWillBeWoken'
    BY DEF SleepersWillBeWoken, MutexInv, ParkedInv, TestedInv, Idle, Working
  <1>. QED  BY <1>1, <1>2, <1>3, <1>4 DEF WakeInv

(* It goes to sleep only with nothing to do. *)
LEMMA TestKeeps ==
  ASSUME TypeOK, WakeInv, NEW w \in Workers, PoolStep(w), Test(w)
  PROVE  WakeInv'
  <1> USE Names DEF GotoClient, TypeOK, WorkerTypeOK, WakeInv, PoolStep, itemLocks, Goto, Test, MustRun
  <1>1. MutexInv'
    BY DEF MutexInv, Working
  <1>2. ParkedInv'
    BY DEF ParkedInv
  <1>3. TestedInv'
    BY DEF TestedInv, MutexInv, ParkedInv, Idle, Working
  <1>4. SleepersWillBeWoken'
    BY DEF SleepersWillBeWoken, MutexInv, ParkedInv, TestedInv, Idle, Working
  <1>. QED  BY <1>1, <1>2, <1>3, <1>4 DEF WakeInv

(* It sleeps as it has found its queue. *)
LEMMA ParkKeeps ==
  ASSUME TypeOK, WakeInv, NEW w \in Workers, PoolStep(w), Park(w)
  PROVE  WakeInv'
  <1> USE Names DEF GotoClient, TypeOK, WorkerTypeOK, WakeInv, PoolStep, itemLocks, Goto, Park, Block, Release
  <1>1. MutexInv'
    BY DEF MutexInv, Working
  <1>2. ParkedInv'
    <2>1. \A v \in Workers : parked'[v] = IF v = w THEN parked[v] \cup {w} ELSE parked[v]
      OBVIOUS
    <2>2. IsFiniteSet(parked[w] \cup {w})
      BY FS_AddElement DEF ParkedInv
    <2>3. pc'[w] = "lock" /\ \A v \in Workers \ {w} : pc'[v] = pc[v]
      OBVIOUS
    <2>. QED  BY <2>1, <2>2, <2>3 DEF ParkedInv
  <1>3. TestedInv'
    BY DEF TestedInv, MutexInv, ParkedInv, Idle, Working
  <1>4. SleepersWillBeWoken'
    BY DEF SleepersWillBeWoken, MutexInv, ParkedInv, TestedInv, Idle, Working
  <1>. QED  BY <1>1, <1>2, <1>3, <1>4 DEF WakeInv

(* It leaves, and is going to notify. *)
LEMMA LeaveKeeps ==
  ASSUME TypeOK, WakeInv, NEW w \in Workers, PoolStep(w), Leave(w)
  PROVE  WakeInv'
  <1> USE Names DEF GotoClient, TypeOK, WorkerTypeOK, WakeInv, PoolStep, itemLocks, Goto, Leave, Release
  <1>1. MutexInv'
    BY DEF MutexInv, Working
  <1>2. ParkedInv'
    BY DEF ParkedInv
  <1>3. TestedInv'
    BY DEF TestedInv, MutexInv, ParkedInv, Idle, Working
  <1>4. SleepersWillBeWoken'
    BY DEF SleepersWillBeWoken, MutexInv, ParkedInv, TestedInv, Idle, Working
  <1>. QED  BY <1>1, <1>2, <1>3, <1>4 DEF WakeInv

(* It enters the callable. *)
LEMMA EnterKeeps ==
  ASSUME TypeOK, WakeInv, NEW w \in Workers, PoolStep(w), Enter(w)
  PROVE  WakeInv'
  <1> USE Names DEF GotoClient, TypeOK, WorkerTypeOK, WakeInv, PoolStep, itemLocks, Goto, Enter
  <1>1. MutexInv'
    BY DEF MutexInv, Working
  <1>2. ParkedInv'
    BY DEF ParkedInv
  <1>3. TestedInv'
    BY DEF TestedInv, MutexInv, ParkedInv, Idle, Working
  <1>4. SleepersWillBeWoken'
    BY DEF SleepersWillBeWoken, MutexInv, ParkedInv, TestedInv, Idle, Working
  <1>. QED  BY <1>1, <1>2, <1>3, <1>4 DEF WakeInv

(* It has emptied its queue, and is going to notify. *)
LEMMA CallableKeeps ==
  ASSUME TypeOK, WakeInv, NEW w \in Workers, PoolStep(w), Callable(w)
  PROVE  WakeInv'
  <1> USE Names DEF GotoClient, TypeOK, WorkerTypeOK, WakeInv, PoolStep, itemLocks, Goto, Callable, Release
  <1>1. MutexInv'
    BY DEF MutexInv, Working
  <1>2. ParkedInv'
    BY DEF ParkedInv
  <1>3. TestedInv'
    BY DEF TestedInv, MutexInv, ParkedInv, Idle, Working
  <1>4. SleepersWillBeWoken'
    BY DEF SleepersWillBeWoken, MutexInv, ParkedInv, TestedInv, Idle, Working
  <1>. QED  BY <1>1, <1>2, <1>3, <1>4 DEF WakeInv

(* Its notification wakes whoever sleeps alone. *)
LEMMA NotifyKeeps ==
  ASSUME TypeOK, WakeInv, NEW w \in Workers, PoolStep(w), Notify(w)
  PROVE  WakeInv'
  <1> USE Names DEF GotoClient, TypeOK, WorkerTypeOK, WakeInv, PoolStep, itemLocks, Goto, Notify
  <1>a. NotifyOne(w) /\ pc[w] \in {"notify", "bye"}
    OBVIOUS
  <1>b. /\ \A u \in Workers : parked'[u] \subseteq parked[u]
        /\ \A u \in Workers \ {w} : parked'[u] = parked[u]
    BY <1>a, NotifyOneWakes
  <1>c. w \in contended' \/ parked'[w] = {}
    BY <1>a, OneSleeper DEF RecordNotifyOne, ParkedInv
  <1>d. contended \subseteq contended'
    BY DEF RecordNotifyOne
  <1>1. MutexInv'
    BY DEF MutexInv, Working
  <1>2. ParkedInv'
    <2>1. w \notin parked[w]
      BY <1>a DEF ParkedInv
    <2>2. \A u \in Workers : IsFiniteSet(parked'[u])
      BY <1>b, FS_Subset DEF ParkedInv
    <2>. QED  BY <1>b, <2>1, <2>2 DEF ParkedInv
  <1>3. TestedInv'
    BY DEF TestedInv, MutexInv, ParkedInv, Idle, Working
  <1>4. SleepersWillBeWoken'
    <2>1. \A u \in Workers \ {w} : pc'[u] = pc[u]
      OBVIOUS
    <2>. QED  BY <1>b, <1>c, <1>d, <2>1 DEF SleepersWillBeWoken, Idle
  <1>. QED  BY <1>1, <1>2, <1>3, <1>4 DEF WakeInv

(* Who wakes for no reason does not sleep. *)
LEMMA SpuriousKeeps ==
  ASSUME TypeOK, WakeInv, NEW w \in Workers, Spurious(w)
  PROVE  WakeInv'
  <1> USE Names DEF GotoClient, TypeOK, WorkerTypeOK, WakeInv, Spurious, SpuriousWake, itemLocks, history
  <1>1. MutexInv'
    BY DEF MutexInv, Working
  <1>2. ParkedInv'
    <2>1. \A v \in Workers : parked'[v] \subseteq parked[v]
      OBVIOUS
    <2>. QED  BY <2>1, FewerSleepers
  <1>3. TestedInv'
    BY DEF TestedInv, MutexInv, ParkedInv, Idle, Working
  <1>4. SleepersWillBeWoken'
    BY DEF SleepersWillBeWoken, MutexInv, ParkedInv, TestedInv, Idle, Working
  <1>. QED  BY <1>1, <1>2, <1>3, <1>4 DEF WakeInv

(* Every step keeps who will be woken. *)
LEMMA WakeInvNext == TypeOK /\ WakeInv /\ [Next]_vars => WakeInv'
  <1> SUFFICES ASSUME TypeOK, WakeInv, [Next]_vars PROVE WakeInv'
    OBVIOUS
  <1>1. CASE UNCHANGED vars
    <2>1. UNCHANGED <<mutex, parked, queue, terminate, terminated, pc, cpc, on, contended, missed, raced>>
      BY <1>1 DEF vars, workerVars, history
    <2>2. MutexInv' /\ ParkedInv' /\ TestedInv' /\ SleepersWillBeWoken'
      BY <2>1 DEF WakeInv, MutexInv, ParkedInv, TestedInv, SleepersWillBeWoken, Idle
    <2>. QED  BY <2>2 DEF WakeInv
  <1>2. ASSUME NEW c \in Clients,
               Begin(c) \/ Obtain(c) \/ TryObtain(c) \/ TryLock(c) \/ UnlockEarly(c) \/ Destroy(c)
        PROVE  WakeInv'
    <2>1. /\ UNCHANGED <<workerVars, history>>
          /\ cpc[c] \notin {"notify", "wait", "test", "park", "terminate"}
      BY <1>2 DEF Begin, Obtain, TryObtain, TryLock, UnlockEarly, Destroy, GotoClient
    <2>2. cpc'[c] \notin {"test", "park"}
      BY <1>2 DEF Begin, Obtain, TryObtain, TryLock, UnlockEarly, Destroy, GotoClient, TypeOK
    <2>3. \A d \in Clients \ {c} : cpc'[d] = cpc[d] /\ on'[d] = on[d]
      BY <1>2 DEF Begin, Obtain, TryObtain, TryLock, UnlockEarly, Destroy, GotoClient, TypeOK
    <2>. QED  BY <2>1, <2>2, <2>3, QuietKeeps
  <1>3. ASSUME NEW c \in Clients,
               \/ Terminate(c) \/ Push(c) \/ PushNotifies(c) \/ WaitLock(c) \/ WaitReturns(c)
               \/ WaitMustPark(c) \/ WaitPark(c) \/ TerminateNotifies(c) \/ PushInBody(c)
        PROVE  WakeInv'
    BY <1>3, TerminateKeeps, PushKeeps, PushNotifiesKeeps, WaitLockKeeps, WaitReturnsKeeps,
       WaitMustParkKeeps, WaitParkKeeps, TerminateNotifiesKeeps, PushInBodyKeeps
  <1>4. ASSUME NEW w \in Workers, PoolStep(w) PROVE WakeInv'
    <2>1. WorkerStep(w)
      BY <1>4 DEF PoolStep
    <2>. QED
      BY <1>4, <2>1, LockKeeps, TestKeeps, ParkKeeps, LeaveKeeps, EnterKeeps, CallableKeeps,
         NotifyKeeps DEF WorkerStep
  <1>. QED  BY <1>1, <1>2, <1>3, <1>4, SpuriousKeeps DEF Next, Proceed

(* The invariant holds in every reachable state. *)
THEOREM Invariance == Spec => []IInv
  <1>1. Init => IInv
    BY TypeOKInit, BodiesInit, WakeInvInit DEF IInv
  <1>2. IInv /\ [Next]_vars => IInv'
    BY TypeOKNext, BodiesNext, WakeInvNext DEF IInv
  <1>. QED  BY <1>1, <1>2, PTL DEF Spec

(* The state of the pool is always of its type. *)
THEOREM TypeCorrect == Spec => []TypeOK
  BY Invariance, PTL DEF IInv

(* Nobody sleeps for ever on what has come, but in the situations recorded. *)
THEOREM NobodyOversleeps == Spec => []SleepersWillBeWoken
  <1>1. IInv => SleepersWillBeWoken
    BY DEF IInv, WakeInv
  <1>. QED  BY <1>1, Invariance, PTL

(* A client that obtained a body is alone in it until a misuse of an        *)
(* item_lock unlocks its mutex.                                             *)
THEOREM BodyIsHadAlone == Spec => []BodiesAreExclusive
  <1>1. IInv => BodiesAreExclusive
    BY DEF IInv
  <1>. QED  BY <1>1, Invariance, PTL
=============================================================================
