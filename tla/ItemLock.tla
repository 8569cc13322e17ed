------------------------------ MODULE ItemLock ------------------------------
(***************************************************************************)
(* item_lock (item_lock.hpp): an object that locks the mutex of an item and *)
(* unlocks it when it is destroyed, as Worker::obtain_body and              *)
(* obtainable_item::obtain return it.  A holder has one such object at a    *)
(* time, and an item is the name of its mutex.                              *)
(*                                                                          *)
(* The object keeps the mutexes it is to unlock in _mutexes.  unlock() does *)
(* not take them out, and try_lock() puts the mutex in whether it got it or *)
(* not, so that the object may unlock a mutex its holder does not have.     *)
(* That is undefined behaviour; pthread_mutex_unlock frees the mutex then,  *)
(* and `misused' records that it happened.  Locks of several mutexes are    *)
(* left out: their template does not compile.                               *)
(***************************************************************************)
EXTENDS Integers

CONSTANTS Holders, Owned,  (* the threads, and the items that have a mutex *)
          Nobody           (* the owner of a free mutex                    *)

VARIABLES owner,    (* owner[i]: the thread that has the mutex of item i    *)
          mutexes,  (* mutexes[h]: _mutexes of the object of holder h       *)
          misused   (* the items whose mutex was unlocked by a thread that  *)
                    (* did not have it                                      *)

ItemLockTypeOK == /\ owner \in [Owned -> Holders \cup {Nobody}]
                  /\ mutexes \in [Holders -> SUBSET Owned]
                  /\ misused \in SUBSET Owned

ItemLockInit == /\ owner = [i \in Owned |-> Nobody]
                /\ mutexes = [h \in Holders |-> {}]
                /\ misused = {}

(* lock(m), by itself or in the constructor. *)
LockItem(h, i) == /\ owner[i] = Nobody
                  /\ owner' = [owner EXCEPT ![i] = h]
                  /\ mutexes' = [mutexes EXCEPT ![h] = {i}]
                  /\ UNCHANGED misused

(* try_lock(m) that does not get the mutex; it may fail for no reason. *)
TryLockFails(h, i) == /\ mutexes' = [mutexes EXCEPT ![h] = {i}]
                      /\ UNCHANGED <<owner, misused>>

(* What unlock() does to the mutexes. *)
Unlocked(h) == /\ owner' = [i \in Owned |-> IF i \in mutexes[h] THEN Nobody ELSE owner[i]]
               /\ misused' = misused \cup {i \in mutexes[h] : owner[i] # h}

UnlockItem(h) == Unlocked(h) /\ UNCHANGED mutexes

(* The destructor. *)
DestroyLock(h) == Unlocked(h) /\ mutexes' = [mutexes EXCEPT ![h] = {}]
=============================================================================
