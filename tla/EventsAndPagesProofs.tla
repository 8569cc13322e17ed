------------------------- MODULE EventsAndPagesProofs -------------------------
(***************************************************************************)
(* Proofs about two small parts of the library that other code runs in the  *)
(* middle of.  In Events these are the callbacks: what a raise has called   *)
(* when it returns, for any events, subscriptions and nesting.  In          *)
(* Pagination it is other sessions: which rows an iteration handles, for    *)
(* tables and pages of any size, any number of changes and any order.       *)
(***************************************************************************)
EXTENDS Events, Pagination, FiniteSetTheorems, SequenceTheorems, TLAPS

(* A sequence begins with another, element by element. *)
Begins(list, s) == Len(s) <= Len(list) /\ \A i \in 1..Len(s) : s[i] = list[i]

(* A raise has called the list it is in up to where it is, and that list    *)
(* has only grown since.                                                    *)
RaiseInv(r) == /\ r.at = Len(r.called)
               /\ Begins(callbacks[r.where], r.called)
               /\ Begins(callbacks[r.where], r.began)

ReturnedInv == /\ returned.called = returned.left
               /\ Begins(returned.left, returned.began)

IInv == /\ TypeOK
        /\ ~undefined => \A k \in 1..Len(stack) : RaiseInv(stack[k])
        /\ ReturnedInv

-----------------------------------------------------------------------------
(* To begin with a sequence is to have it as a prefix. *)
LEMMA BeginsIsPrefix ==
  ASSUME NEW list \in Lists, NEW s \in Lists, Begins(list, s)
  PROVE  IsPrefix(s, list)
  BY DEF Begins, IsPrefix, Lists

(* A list that grows at its end still begins as it did. *)
LEMMA BeginsAppend ==
  ASSUME NEW list \in Lists, NEW s \in Lists, NEW x \in 1..MaxSubscriptions, Begins(list, s)
  PROVE  Begins(Append(list, x), s)
  BY DEF Begins, Lists

(* The innermost raise can be replaced or left. *)
LEMMA Innermost ==
  ASSUME stack \in Seq(Raises), stack # <<>>
  PROVE  /\ Len(stack) \in Nat \ {0}
         /\ Last(stack) = stack[Len(stack)] /\ Last(stack) \in Raises
         /\ Front(stack) \in Seq(Raises) /\ Len(Front(stack)) = Len(stack) - 1
         /\ \A k \in 1..Len(stack) - 1 : Front(stack)[k] = stack[k]
  BY SMTT(30) DEF Last, Front

LEMMA IInvInit == Init => IInv
  <1> SUFFICES ASSUME Init PROVE IInv
    OBVIOUS
  <1>1. <<>> \in Lists /\ <<>> \in Seq(Raises) /\ Len(<<>>) = 0
    BY DEF Lists
  <1>2. TypeOK
    <2>1. returned \in [began : Lists, called : Lists, left : Lists]
      BY <1>1 DEF Init, NoRaise
    <2>2. callbacks \in [Objects -> Lists] /\ made \in 0..MaxSubscriptions
      BY <1>1, EventsAssumption DEF Init
    <2>. QED  BY <1>1, <2>1, <2>2 DEF Init, TypeOK
  <1>3. ReturnedInv
    BY <1>1 DEF Init, ReturnedInv, NoRaise, Begins
  <1>. QED  BY <1>1, <1>2, <1>3 DEF Init, IInv

(* A new callback comes behind all others. *)
LEMMA SubscribeKeeps ==
  ASSUME IInv, NEW e \in Objects, Subscribe(e)
  PROVE  IInv'
  <1>1. /\ made' \in 1..MaxSubscriptions /\ made' = made + 1
        /\ callbacks' = [callbacks EXCEPT ![e] = Append(@, made')]
        /\ UNCHANGED <<stack, returned, undefined>>
    BY EventsAssumption DEF Subscribe, IInv, TypeOK
  <1>2. callbacks' \in [Objects -> Lists]
    BY <1>1 DEF IInv, TypeOK, Lists
  <1>3. TypeOK'
    BY <1>1, <1>2 DEF IInv, TypeOK
  <1>4. ASSUME ~undefined, NEW k \in 1..Len(stack) PROVE RaiseInv(stack[k])'
    <2>1. stack[k] \in Raises /\ RaiseInv(stack[k])
      BY <1>4 DEF IInv, TypeOK
    <2>2. callbacks[stack[k].where] \in Lists /\ stack[k].called \in Lists /\ stack[k].began \in Lists
      BY <2>1 DEF IInv, TypeOK, Raises
    <2>3. CASE stack[k].where = e
      <3>1. callbacks'[stack[k].where] = Append(callbacks[stack[k].where], made')
        BY <1>1, <2>3 DEF IInv, TypeOK
      <3>. QED  BY <1>1, <2>1, <2>2, <3>1, BeginsAppend DEF RaiseInv
    <2>4. CASE stack[k].where # e
      <3>1. callbacks'[stack[k].where] = callbacks[stack[k].where]
        BY <1>1, <2>1, <2>4 DEF IInv, TypeOK, Raises
      <3>. QED  BY <1>1, <2>1, <3>1 DEF RaiseInv
    <2>. QED  BY <2>3, <2>4
  <1>. QED  BY <1>1, <1>3, <1>4 DEF IInv, ReturnedInv

(* A raise begins with nothing called. *)
LEMMA RaiseKeeps ==
  ASSUME IInv, NEW e \in Objects, Raise(e)
  PROVE  IInv'
  <1> DEFINE r == [event |-> e, where |-> e, at |-> 0, began |-> callbacks[e], called |-> <<>>]
  <1>1. /\ stack' = Append(stack, r) /\ UNCHANGED <<callbacks, made, returned, undefined>>
        /\ stack \in Seq(Raises) /\ callbacks[e] \in Lists
    BY DEF Raise, IInv, TypeOK
  <1>2. r \in Raises /\ RaiseInv(r)
    <2>1. <<>> \in Lists /\ Len(<<>>) = 0
      BY DEF Lists
    <2>. QED  BY <1>1, <2>1 DEF Raises, RaiseInv, Begins, Lists
  <1>3. TypeOK'
    BY <1>1, <1>2 DEF IInv, TypeOK
  <1>4. RaiseInv(r)'
    BY <1>1, <1>2 DEF RaiseInv
  <1>5. ASSUME ~undefined, NEW k \in 1..Len(stack') PROVE RaiseInv(stack[k])'
    <2>1. (k \in 1..Len(stack) /\ stack'[k] = stack[k]) \/ stack'[k] = r
      BY <1>1, <1>2
    <2>. QED  BY <1>1, <1>4, <1>5, <2>1 DEF IInv, RaiseInv
  <1>. QED  BY <1>1, <1>3, <1>5 DEF IInv, ReturnedInv

(* A raise that calls the next callback of its list goes on as it began. *)
OneMore(r, list) == [r EXCEPT !.at = @ + 1, !.called = Append(@, list[r.at + 1])]

LEMMA OneMoreCalled ==
  ASSUME NEW list \in Lists, NEW r \in Raises, r.at < Len(list), r.at = Len(r.called),
         Begins(list, r.called)
  PROVE  /\ OneMore(r, list) \in Raises
         /\ OneMore(r, list).where = r.where /\ OneMore(r, list).began = r.began
         /\ OneMore(r, list).at = Len(OneMore(r, list).called)
         /\ Begins(list, OneMore(r, list).called)
  <1> DEFINE longer == Append(r.called, list[r.at + 1])
  <1>1. r.at \in Nat /\ r.called \in Seq(1..MaxSubscriptions)
    BY DEF Raises, Lists
  <1>2. r.at + 1 \in 1..Len(list) /\ list \in Seq(1..MaxSubscriptions)
    BY <1>1 DEF Lists
  <1>3. list[r.at + 1] \in 1..MaxSubscriptions
    BY <1>1, <1>2, ElementOfSeq
  <1>4. /\ longer \in Lists /\ Len(longer) = r.at + 1 /\ Begins(list, longer)
    BY <1>1, <1>2, <1>3 DEF Begins, Lists
  <1> HIDE DEF longer
  <1>5. OneMore(r, list) = [event |-> r.event, where |-> r.where, at |-> r.at + 1,
                            began |-> r.began, called |-> longer]
    <2>1. r = [event |-> r.event, where |-> r.where, at |-> r.at, began |-> r.began,
               called |-> r.called]
      BY DEF Raises
    <2>2. OneMore(r, list) = [[r EXCEPT !.at = r.at + 1] EXCEPT !.called = longer]
      BY <2>1 DEF OneMore, longer
    <2>. QED  BY <2>1, <2>2
  <1>. QED  BY <1>1, <1>4, <1>5 DEF Raises

(* The next callback is the one at that place of the list. *)
LEMMA CallNextKeeps ==
  ASSUME IInv, CallNext
  PROVE  IInv'
  <1> DEFINE r == Last(stack)
             list == callbacks[r.where]
             n == OneMore(r, list)
  <1>1. /\ ~undefined /\ stack # <<>> /\ r.at < Len(list)
        /\ stack' = Append(Front(stack), n)
        /\ UNCHANGED <<callbacks, made, returned, undefined>>
    BY DEF CallNext, OneMore
  <1>2. /\ stack \in Seq(Raises) /\ r \in Raises /\ list \in Lists /\ RaiseInv(r)
    BY <1>1, Innermost DEF IInv, TypeOK, Raises
  <1>3. r.at = Len(r.called) /\ Begins(list, r.called) /\ Begins(list, r.began)
    BY <1>2 DEF RaiseInv
  <1>4. PICK m : m = n
    OBVIOUS
  <1>5. /\ m \in Raises /\ m.where = r.where /\ m.began = r.began
        /\ m.at = Len(m.called) /\ Begins(list, m.called)
    <2> HIDE DEF r, list
    <2>1. r.at < Len(list) /\ list \in Lists /\ r \in Raises
      BY <1>1, <1>2
    <2>. QED  BY ONLY <1>3, <1>4, <2>1, OneMoreCalled
  <1>6. stack' = Append(Front(stack), m)
    BY <1>1, <1>4
  <1>7. /\ m.at = Len(m.called) /\ Begins(callbacks[m.where], m.called)
        /\ Begins(callbacks[m.where], m.began)
    BY <1>3, <1>5
  <1>8. TypeOK'
    BY <1>1, <1>5, <1>6, Innermost DEF IInv, TypeOK
  <1>9. ASSUME NEW k \in 1..Len(stack') PROVE RaiseInv(stack[k])'
    <2>1. k \in 1..Len(stack) /\ (stack'[k] = stack[k] \/ stack'[k] = m)
      <3>1. /\ Front(stack) \in Seq(Raises) /\ Len(Front(stack)) = Len(stack) - 1
            /\ \A i \in 1..Len(stack) - 1 : Front(stack)[i] = stack[i]
            /\ Len(stack) \in Nat
        BY <1>1, <1>2, Innermost
      <3>. QED  BY <1>5, <1>6, <3>1
    <2>2. CASE stack'[k] = stack[k]
      BY <1>1, <2>1, <2>2 DEF IInv, RaiseInv
    <2>3. CASE stack'[k] = m
      BY <1>1, <1>7, <2>3 DEF RaiseInv
    <2>. QED  BY <2>1, <2>2, <2>3
  <1>. QED  BY <1>1, <1>8, <1>9 DEF IInv, ReturnedInv

(* A raise that returns is at the end of the list it began in. *)
LEMMA RaiseReturnsKeeps ==
  ASSUME IInv, RaiseReturns
  PROVE  IInv'
  <1> DEFINE r == Last(stack)
             list == callbacks[r.where]
  <1>1. /\ ~undefined /\ stack # <<>> /\ r.at = Len(list) /\ UNCHANGED <<callbacks, made>>
        /\ stack \in Seq(Raises) /\ r \in Raises /\ list \in Lists /\ RaiseInv(r)
    BY Innermost DEF RaiseReturns, IInv, TypeOK, Raises
  <1>2. CASE undefined' = TRUE /\ UNCHANGED <<stack, returned>>
    BY <1>1, <1>2 DEF IInv, TypeOK, ReturnedInv
  <1>3. CASE /\ r.where = r.event /\ stack' = Front(stack) /\ UNCHANGED undefined
             /\ returned' = [began |-> r.began, called |-> r.called, left |-> list]
    <2>1. r.called \in Lists /\ r.began \in Lists
      BY <1>1 DEF Raises
    <2>2. r.called = list
      <3>1. /\ r.called \in Seq(1..MaxSubscriptions) /\ list \in Seq(1..MaxSubscriptions)
            /\ Len(r.called) = Len(list) /\ \A i \in 1..Len(r.called) : r.called[i] = list[i]
        BY <1>1, <2>1 DEF RaiseInv, Begins, Lists
      <3> HIDE DEF r, list
      <3>. QED  BY <3>1, SeqEqual
    <2>3. ReturnedInv'
      BY <1>1, <1>3, <2>2 DEF ReturnedInv, RaiseInv
    <2>4. TypeOK'
      BY <1>1, <1>3, <2>1, Innermost DEF IInv, TypeOK
    <2>5. ASSUME NEW k \in 1..Len(stack') PROVE RaiseInv(stack[k])'
      <3>1. k \in 1..Len(stack) /\ stack'[k] = stack[k]
        BY <1>1, <1>3, Innermost
      <3>. QED  BY <1>1, <3>1 DEF IInv, RaiseInv
    <2>. QED  BY <2>3, <2>4, <2>5 DEF IInv
  <1>. QED  BY <1>1, <1>2, <1>3 DEF RaiseReturns

LEMMA RaiseThrowsKeeps ==
  ASSUME IInv, RaiseThrows
  PROVE  IInv'
  <1>1. /\ ~undefined /\ stack # <<>> /\ stack' = Front(stack) /\ stack \in Seq(Raises)
        /\ UNCHANGED <<callbacks, made, returned, undefined>>
    BY DEF RaiseThrows, ClientRuns, IInv, TypeOK
  <1>2. TypeOK'
    BY <1>1, Innermost DEF IInv, TypeOK
  <1>3. ASSUME NEW k \in 1..Len(stack') PROVE RaiseInv(stack[k])'
    <2>1. k \in 1..Len(stack) /\ stack'[k] = stack[k]
      BY <1>1, Innermost
    <2>. QED  BY <1>1, <2>1 DEF IInv, RaiseInv
  <1>. QED  BY <1>1, <1>2, <1>3 DEF IInv, ReturnedInv

(* What is copied over was in no raise, or the behaviour is undefined. *)
LEMMA CopyKeeps ==
  ASSUME IInv, NEW e \in Objects, NEW f \in Objects, Copy(e, f)
  PROVE  IInv'
  <1>1. /\ ~undefined /\ callbacks' = [callbacks EXCEPT ![f] = callbacks[e]]
        /\ undefined' = InUse(f) /\ UNCHANGED <<made, stack, returned>>
    BY DEF Copy, ClientRuns
  <1>2. TypeOK'
    BY <1>1 DEF IInv, TypeOK, InUse
  <1>3. ASSUME ~undefined', NEW k \in 1..Len(stack) PROVE RaiseInv(stack[k])'
    <2>1. stack[k] \in Raises /\ RaiseInv(stack[k]) /\ k \in DOMAIN stack
      BY <1>1, <1>3 DEF IInv, TypeOK
    <2>2. callbacks'[stack[k].where] = callbacks[stack[k].where]
      BY <1>1, <1>3, <2>1 DEF IInv, TypeOK, InUse, Raises
    <2>. QED  BY <1>1, <2>1, <2>2 DEF RaiseInv
  <1>. QED  BY <1>1, <1>2, <1>3 DEF IInv, ReturnedInv

(* What is moved takes the raises in it along. *)
LEMMA MoveKeeps ==
  ASSUME IInv, NEW e \in Objects, NEW f \in Objects, Move(e, f)
  PROVE  IInv'
  <1>1. /\ ~undefined /\ e # f /\ stack \in Seq(Raises)
        /\ callbacks' = [callbacks EXCEPT ![f] = callbacks[e], ![e] = <<>>]
        /\ undefined' = InUse(f) /\ UNCHANGED <<made, returned>>
    BY DEF Move, ClientRuns, IInv, TypeOK
  <1>2. DOMAIN stack = 1..Len(stack) /\ Len(stack) \in Nat
    BY <1>1
  <1>3. stack' = [k \in 1..Len(stack) |-> IF stack[k].where = e THEN [stack[k] EXCEPT !.where = f]
                                                                ELSE stack[k]]
    BY <1>2 DEF Move
  <1>4. \A k \in 1..Len(stack) : /\ stack[k] \in Raises /\ stack'[k] \in Raises
                                 /\ stack'[k].at = stack[k].at /\ stack'[k].called = stack[k].called
                                 /\ stack'[k].began = stack[k].began
                                 /\ stack'[k].where = IF stack[k].where = e THEN f ELSE stack[k].where
    <2> TAKE k \in 1..Len(stack)
    <2>1. stack[k] \in Raises
      BY <1>1
    <2>2. stack'[k] = IF stack[k].where = e THEN [stack[k] EXCEPT !.where = f] ELSE stack[k]
      BY <1>3
    <2>. QED  BY <2>1, <2>2 DEF Raises
  <1>5. stack' \in Seq(Raises) /\ Len(stack') = Len(stack)
    BY <1>2, <1>3, <1>4
  <1>6. callbacks' \in [Objects -> Lists]
    <2>1. <<>> \in Lists /\ callbacks[e] \in Lists
      BY DEF Lists, IInv, TypeOK
    <2>. QED  BY <1>1, <2>1 DEF IInv, TypeOK
  <1>7. TypeOK'
    BY <1>1, <1>5, <1>6 DEF IInv, TypeOK, InUse
  <1>8. ASSUME ~undefined', NEW k \in 1..Len(stack') PROVE RaiseInv(stack[k])'
    <2>1. stack[k].where # f /\ RaiseInv(stack[k]) /\ stack[k].where \in Objects
      BY <1>1, <1>2, <1>4, <1>5, <1>8 DEF InUse, IInv, Raises
    <2>2. callbacks'[stack'[k].where] = callbacks[stack[k].where]
      BY <1>1, <1>4, <1>5, <2>1 DEF IInv, TypeOK
    <2>. QED  BY <1>4, <1>5, <2>1, <2>2 DEF RaiseInv
  <1>. QED  BY <1>1, <1>7, <1>8 DEF IInv, ReturnedInv

LEMMA IInvNext == IInv /\ [Next]_vars => IInv'
  <1> SUFFICES ASSUME IInv, [Next]_vars PROVE IInv'
    OBVIOUS
  <1>1. CASE UNCHANGED vars
    BY <1>1 DEF vars, IInv, TypeOK, RaiseInv, ReturnedInv
  <1>. QED
    BY <1>1, SubscribeKeeps, RaiseKeeps, CallNextKeeps, RaiseReturnsKeeps, RaiseThrowsKeeps,
       CopyKeeps, MoveKeeps DEF Next

(* The invariant holds in every reachable state. *)
THEOREM Invariance == Spec => []IInv
  BY IInvInit, IInvNext, PTL DEF Spec

(* The state of the events is always of its type. *)
THEOREM TypeCorrect == Spec => []TypeOK
  BY Invariance, PTL DEF IInv

(* Every raise calls what was subscribed before it and during it, in turn,  *)
(* with any number of events, callbacks and nested raises.                  *)
THEOREM RaisesCallInTurn == Spec => []CalledInTurn
  <1>1. ASSUME IInv PROVE CalledInTurn
    <2>1. returned.began \in Lists /\ returned.left \in Lists /\ returned.called = returned.left
      BY <1>1 DEF IInv, TypeOK, ReturnedInv
    <2>2. IsPrefix(returned.began, returned.called)
      BY <1>1, <2>1, BeginsIsPrefix DEF IInv, ReturnedInv
    <2>3. ASSUME ~undefined, NEW k \in DOMAIN stack
          PROVE  IsPrefix(stack[k].called, callbacks[stack[k].where])
      <3>1. k \in 1..Len(stack) /\ stack[k] \in Raises
        BY <1>1 DEF IInv, TypeOK
      <3>2. /\ stack[k].called \in Lists /\ callbacks[stack[k].where] \in Lists
            /\ Begins(callbacks[stack[k].where], stack[k].called)
        BY <1>1, <2>3, <3>1 DEF IInv, TypeOK, Raises, RaiseInv
      <3>. QED  BY <3>2, BeginsIsPrefix
    <2>. QED  BY <2>1, <2>2, <2>3 DEF CalledInTurn
  <1>. QED  BY <1>1, Invariance, PTL
-----------------------------------------------------------------------------
(***************************************************************************)
(* Pagination.                                                              *)
(*                                                                          *)
(* Whatever their order, the first n numbers of a result are those of n     *)
(* rows, or of all if there are no more (FirstCount); that bounds how often *)
(* the handler is called (CallsInv).  While rows change only by the changes *)
(* of others, each changes the number of another row by one at most: then   *)
(* at most one row moves from the pages that were read to those that were   *)
(* not, or the other way (ShiftByOne).  So the rows passed, whose number    *)
(* is one of those read though they were not handled, are no more than the  *)
(* changes (PassedInv), nor are those that come again (AgainInv).           *)
(***************************************************************************)
(* How many numbers have been read. *)
Reach == page * perpage

(* Until the rows are counted nothing has been read or changed. *)
CountInv == /\ pc = "count" => /\ before = {} /\ moved = {} /\ inserted = {} /\ page = 0
                               /\ calls = 0 /\ \A r \in Rows : handled[r] = 0
            /\ pc # "count" => /\ count = Cardinality(before)
                               /\ Table \subseteq before \cup inserted
            /\ pc = "done" => count <= Reach

RowsInv == /\ before \ moved \subseteq Table
           /\ \A r \in Rows : handled[r] > 0 => r \in Asked(Rows)

CallsInv == /\ calls <= Reach
            /\ calls <= Cardinality(Asked(before \cup inserted))
            /\ Reach <= calls \/ Cardinality(Untouched) <= calls

Passed == {r \in Missed : Number(r) <= Reach}
PassedInv == ~reordered /\ pc # "count" =>
               /\ Cardinality(Passed) <= changes
               /\ Cardinality(Passed) + Cardinality(Table) <= count + changes

(* The untouched rows that were handled once more than they are numbered. *)
Again == {r \in Untouched : handled[r] > IF Number(r) <= Reach THEN 1 ELSE 0}
AgainInv == ~reordered => Cardinality(Again) <= changes

IterIInv == /\ IterTypeOK /\ Distinct(stored) /\ CountInv /\ RowsInv
            /\ CallsInv /\ PassedInv /\ AgainInv

-----------------------------------------------------------------------------
(* Numbers of rows in a result. *)

LEMMA Finite == /\ IsFiniteSet(Rows) /\ IsFiniteSet(Table)
                /\ \A S \in SUBSET Rows : IsFiniteSet(S) /\ Cardinality(S) \in Nat
                /\ \A S \in SUBSET Rows : \A T \in SUBSET S : Cardinality(T) <= Cardinality(S)
  BY PaginationAssumption, FS_Subset, FS_CardinalityType DEF Table

LEMMA NumberType ==
  /\ Selected \subseteq Table /\ Table \subseteq Rows /\ Selected \in SUBSET Rows
  /\ \A r : UpTo(r) \in SUBSET Rows /\ UpTo(r) \subseteq Selected /\ Number(r) \in Nat
  <1>1. Selected \subseteq Table /\ Table \subseteq Rows
    BY DEF Selected, Asked, Table
  <1>2. \A r : UpTo(r) \in SUBSET Rows /\ UpTo(r) \subseteq Selected
    BY <1>1 DEF UpTo
  <1>3. \A r : Number(r) \in Nat
    BY <1>2, Finite DEF Number
  <1>. QED  BY <1>1, <1>2, <1>3

(* Numbers begin with one, and no two rows have the same. *)
LEMMA NumbersDiffer ==
  ASSUME IterTypeOK, Distinct(stored), NEW q \in Selected, NEW r \in Selected
  PROVE  /\ Number(r) >= 1
         /\ Number(q) = Number(r) => q = r
  <1>1. q \in Table /\ r \in Table /\ q \in Rows /\ r \in Rows
    BY NumberType
  <1>2. \A t \in Rows : stored[t] \in Nat
    BY PaginationAssumption DEF IterTypeOK
  <1>3. \A s, t \in Selected : s \in Rows /\ t \in Rows
    BY NumberType
  <1>4. Number(r) >= 1
    <2>1. r \in UpTo(r)
      BY <1>1, <1>2 DEF UpTo
    <2>2. Number(r) # 0
      BY <2>1, NumberType, Finite, FS_EmptySet DEF Number
    <2>. QED  BY <2>2, NumberType
  <1>5. ASSUME NEW s \in Selected, NEW t \in Selected, stored[s] < stored[t]
        PROVE  Number(s) < Number(t)
    <2>1. UpTo(s) \subseteq UpTo(t)
      BY <1>2, <1>3, <1>5 DEF UpTo
    <2>2. t \in UpTo(t) /\ t \notin UpTo(s)
      BY <1>2, <1>3, <1>5 DEF UpTo
    <2>3. Number(s) <= Number(t) /\ (Number(s) = Number(t) => UpTo(s) = UpTo(t))
      BY <2>1, NumberType, Finite, FS_Subset DEF Number
    <2>. QED  BY <2>2, <2>3, NumberType
  <1>6. ASSUME Number(q) = Number(r) PROVE q = r
    <2>1. ~(stored[q] < stored[r]) /\ ~(stored[r] < stored[q])
      BY <1>5, <1>6, NumberType
    <2>. QED  BY <1>1, <1>2, <2>1 DEF Distinct, Table
  <1>. QED  BY <1>4, <1>6

First(n) == {r \in Selected : Number(r) <= n}

(* The numbers of a result are those from one to its length. *)
LEMMA NumbersFill ==
  ASSUME IterTypeOK, Distinct(stored), NEW k \in 1 .. Cardinality(Selected)
  PROVE  \E r \in Selected : Number(r) = k
  <1> DEFINE C == Cardinality(Selected)
             f == [r \in Selected |-> Number(r)]
  <1>1. C \in Nat /\ IsFiniteSet(Selected)
    BY Finite, NumberType
  <1>2. IsFiniteSet(1 .. C) /\ Cardinality(1 .. C) = C
    BY <1>1, FS_Interval
  <1>3. ASSUME NEW r \in Selected PROVE Number(r) \in 1 .. C
    <2>1. Number(r) >= 1 /\ Number(r) \in Nat
      BY NumbersDiffer, NumberType
    <2>2. Number(r) <= C
      BY Finite, NumberType DEF Number
    <2>. QED  BY <1>1, <2>1, <2>2
  <1>4. f \in [Selected -> 1 .. C]
    BY <1>3
  <1>5. \A q, r \in Selected : f[q] = f[r] => q = r
    BY NumbersDiffer
  <1>6. f \in Injection(Selected, 1 .. C)
    BY <1>4, <1>5 DEF Injection, IsInjective
  <1>7. f \in Surjection(Selected, 1 .. C)
    BY <1>2, <1>6, FS_Injection
  <1>. QED  BY <1>7 DEF Surjection

(* As many rows have the numbers up to n. *)
LEMMA FirstCount ==
  ASSUME IterTypeOK, Distinct(stored), NEW n \in Nat
  PROVE  /\ First(n) \in SUBSET Selected /\ First(n) \in SUBSET Rows
         /\ Cardinality(Selected) \in Nat
         /\ Cardinality(First(n)) = IF n <= Cardinality(Selected) THEN n ELSE Cardinality(Selected)
  <1> DEFINE C == Cardinality(Selected)
  <1>1. /\ First(n) \in SUBSET Selected /\ First(n) \in SUBSET Rows /\ IsFiniteSet(First(n))
        /\ C \in Nat
    BY NumberType, Finite DEF First
  <1>2. CASE n <= C
    <2> DEFINE g == [r \in First(n) |-> Number(r)]
    <2>1. g \in [First(n) -> 1 .. n]
      BY NumbersDiffer, NumberType DEF First
    <2>2. \A q, r \in First(n) : g[q] = g[r] => q = r
      BY NumbersDiffer DEF First
    <2>3. \A k \in 1 .. n : \E r \in First(n) : g[r] = k
      <3> SUFFICES ASSUME NEW k \in 1 .. n PROVE \E r \in First(n) : Number(r) = k
        OBVIOUS
      <3>1. k \in 1 .. C
        BY <1>1, <1>2
      <3>2. PICK r \in Selected : Number(r) = k
        BY <3>1, NumbersFill
      <3>3. r \in First(n)
        BY <3>2 DEF First
      <3>. QED  BY <3>2, <3>3
    <2>4. g \in Bijection(First(n), 1 .. n)
      BY <2>1, <2>2, <2>3 DEF Bijection, Injection, Surjection, IsInjective
    <2>5. ExistsBijection(First(n), 1 .. n)
      BY <2>4 DEF ExistsBijection
    <2>6. Cardinality(1 .. n) = n
      BY FS_Interval
    <2>7. Cardinality(First(n)) = n
      BY <1>1, <2>5, <2>6, FS_Bijection
    <2>. QED  BY <1>1, <1>2, <2>7
  <1>3. CASE ~(n <= C)
    <2>1. \A r \in Selected : Number(r) <= C /\ Number(r) \in Nat
      BY Finite, NumberType DEF Number
    <2>2. First(n) = Selected
      BY <1>1, <1>3, <2>1 DEF First
    <2>. QED  BY <1>1, <1>3, <2>2
  <1>. QED  BY <1>2, <1>3

(* How far the pages that have been read reach. *)
LEMMA PagesRead ==
  ASSUME IterTypeOK
  PROVE  /\ perpage \in Nat /\ Reach \in Nat
         /\ (page + 1) * perpage = Reach + perpage
         /\ page = 0 => Reach = 0
  <1>1. page \in Nat /\ perpage \in Nat
    BY PaginationAssumption DEF IterTypeOK
  <1>. QED  BY <1>1 DEF Reach

(* A page is what lies between two such reaches. *)
LEMMA PageCount ==
  ASSUME IterTypeOK, Distinct(stored)
  PROVE  /\ Page = First(Reach + perpage) \ First(Reach)
         /\ Page \in SUBSET Selected
         /\ Cardinality(Page) = Cardinality(First(Reach + perpage)) - Cardinality(First(Reach))
  <1>1. /\ perpage \in Nat /\ Reach \in Nat /\ Reach + perpage \in Nat
        /\ \A r : Number(r) \in Nat
    BY PagesRead, NumberType
  <1>2. Page = {r \in Selected : Number(r) \in Reach + 1 .. Reach + perpage}
    BY DEF Page, Reach
  <1> HIDE DEF Reach
  <1>3. Page = First(Reach + perpage) \ First(Reach)
    BY <1>1, <1>2 DEF First
  <1>4. First(Reach) \subseteq First(Reach + perpage)
    BY <1>1 DEF First
  <1>5. Page \cup First(Reach) = First(Reach + perpage) /\ Page \cap First(Reach) = {}
    BY <1>3, <1>4
  <1>6. /\ IsFiniteSet(Page) /\ IsFiniteSet(First(Reach))
        /\ Cardinality(Page) \in Nat /\ Cardinality(First(Reach)) \in Nat
    BY <1>1, <1>3, FirstCount, Finite
  <1>7. Cardinality(First(Reach + perpage)) = Cardinality(Page) + Cardinality(First(Reach)) - 0
    <2>1. Cardinality(Page \cup First(Reach)) = Cardinality(Page) + Cardinality(First(Reach))
                                                 - Cardinality(Page \cap First(Reach))
      BY <1>6, FS_Union
    <2>. QED  BY <1>5, <2>1, FS_EmptySet
  <1>. QED  BY <1>1, <1>3, <1>6, <1>7, FirstCount

(* The rows that are still to be found are selected. *)
LEMMA UntouchedSelected ==
  ASSUME IterTypeOK, RowsInv
  PROVE  /\ Untouched \subseteq Selected /\ Untouched \in SUBSET Rows
         /\ Selected \subseteq Asked(Rows)
         /\ Asked(before \cup inserted) \in SUBSET Rows
  BY NumberType DEF Untouched, RowsInv, Selected, Asked, IterTypeOK

-----------------------------------------------------------------------------
LEMMA IterIInvInit == IterInit => IterIInv
  <1> SUFFICES ASSUME IterInit PROVE IterIInv
    OBVIOUS
  <1>1. IterTypeOK
    <2>1. 0 \in 0..MaxChanges
      BY PaginationAssumption
    <2>2. handled \in [Rows -> Nat] /\ stored \in [Rows -> 0..Places]
      BY DEF IterInit
    <2>. QED  BY <2>1, <2>2 DEF IterInit, IterTypeOK
  <1>2. Distinct(stored) /\ CountInv /\ RowsInv
    BY DEF IterInit, CountInv, RowsInv
  <1>3. Untouched = {}
    BY DEF IterInit, Untouched, Asked
  <1>4. CallsInv
    <2>1. Asked(before \cup inserted) = {} /\ calls = 0 /\ page = 0
      BY DEF IterInit, Asked
    <2>2. Reach = 0
      BY <1>1, <2>1, PagesRead
    <2>. QED  BY <2>1, <2>2, FS_EmptySet DEF CallsInv
  <1>5. PassedInv /\ AgainInv
    <2>1. Again = {} /\ pc = "count" /\ changes = 0
      BY <1>3 DEF Again, IterInit
    <2>. QED  BY <2>1, FS_EmptySet DEF PassedInv, AgainInv
  <1>. QED  BY <1>1, <1>2, <1>4, <1>5 DEF IterIInv

LEMMA TypeNext ==
  ASSUME IterIInv, [IterNext]_iterVars
  PROVE  IterTypeOK'
  <1> IterTypeOK /\ Distinct(stored)
    BY DEF IterIInv
  <1> USE DEF loopVars, tableVars
  <1>1. CASE CountRows \/ Finish
    BY <1>1, Finite, NumberType DEF CountRows, Finish, IterTypeOK
  <1>2. CASE ReadPage
    <2>1. Cardinality(Page) \in Nat
      BY PageCount, NumberType, Finite
    <2>2. calls' \in Nat /\ page' \in Nat /\ handled' \in [Rows -> Nat]
      BY <1>2, <2>1 DEF ReadPage, IterTypeOK
    <2>. QED  BY <1>2, <2>2 DEF ReadPage, IterTypeOK
  <1>3. ASSUME NEW r \in Rows, Insert(r) \/ Delete(r) \/ Update(r)
        PROVE  IterTypeOK'
    <2>1. changes' \in 0..MaxChanges
      BY <1>3, PaginationAssumption DEF Insert, Delete, Update, Change, IterTypeOK
    <2>2. stored' \in [Rows -> 0..Places]
      BY <1>3, PaginationAssumption DEF Insert, Delete, Update, Put, IterTypeOK
    <2>. QED  BY <1>3, <2>1, <2>2 DEF Insert, Delete, Update, Change, IterTypeOK
  <1>4. CASE Reorder
    <2>1. stored' \in [Rows -> 0..Places]
      BY <1>4, PaginationAssumption DEF Reorder
    <2>. QED  BY <1>4, <2>1 DEF Reorder, IterTypeOK
  <1>5. CASE UNCHANGED iterVars
    BY <1>5 DEF iterVars, IterTypeOK
  <1>. QED  BY <1>1, <1>2, <1>3, <1>4, <1>5 DEF IterNext, Iterate

-----------------------------------------------------------------------------
(* The steps of the function. *)

LEMMA StepCount ==
  ASSUME IterIInv, IterTypeOK', CountRows
  PROVE  IterIInv'
  <1> IterTypeOK /\ Distinct(stored) /\ CountInv /\ RowsInv
    BY DEF IterIInv
  <1>1. /\ pc = "count" /\ pc' = "pages" /\ count' = Cardinality(Table) /\ before' = Table
        /\ UNCHANGED <<stored, inserted, moved, changes, reordered, conditional, perpage, page,
                       handled, calls>>
    BY DEF CountRows, tableVars
  <1>2. /\ page = 0 /\ calls = 0 /\ moved = {} /\ inserted = {} /\ Reach = 0 /\ Reach' = 0
        /\ \A r \in Rows : handled[r] = 0
        /\ Table' = Table /\ \A r : Number(r)' = Number(r)
    BY <1>1, PagesRead DEF CountInv, Reach, Number, UpTo, Selected, Asked, Table
  <1>3. Distinct(stored)' /\ CountInv' /\ RowsInv'
    BY <1>1, <1>2 DEF Distinct, CountInv, RowsInv, Asked
  <1>4. Untouched' = Selected /\ Untouched' \in SUBSET Rows
    BY <1>1, <1>2, NumberType DEF Untouched, Selected, Asked
  <1>5. CallsInv'
    <2>1. Asked(before \cup inserted)' \in SUBSET Rows
      BY <1>1, <1>2, NumberType DEF Asked
    <2>2. Cardinality(Asked(before \cup inserted)') \in Nat
      BY <2>1, Finite
    <2>. QED  BY <1>1, <1>2, <2>2 DEF CallsInv
  <1>6. Passed' = {}
    <2> SUFFICES ASSUME NEW r \in Untouched', Number(r)' <= Reach' PROVE FALSE
      BY DEF Passed, Missed
    <2>1. Number(r) >= 1 /\ Number(r) \in Nat
      BY <1>4, NumbersDiffer, NumberType
    <2>. QED  BY <1>2, <2>1
  <1>7. PassedInv'
    <2>1. changes \in Nat /\ Cardinality(Table) \in Nat
      BY PaginationAssumption, Finite, NumberType DEF IterTypeOK
    <2>. QED  BY <1>1, <1>2, <1>6, <2>1, FS_EmptySet DEF PassedInv
  <1>8. AgainInv'
    <2>1. Again' = {}
      BY <1>1, <1>2, <1>4 DEF Again
    <2>2. changes' \in Nat
      BY PaginationAssumption DEF IterTypeOK
    <2>. QED  BY <2>1, <2>2, FS_EmptySet DEF AgainInv
  <1>. QED  BY <1>3, <1>5, <1>7, <1>8 DEF IterIInv

LEMMA StepRead ==
  ASSUME IterIInv, IterTypeOK', ReadPage
  PROVE  IterIInv'
  <1> /\ IterTypeOK /\ Distinct(stored) /\ CountInv /\ RowsInv
      /\ CallsInv /\ PassedInv /\ AgainInv
    BY DEF IterIInv
  <1>1. /\ pc = "pages" /\ perpage' = perpage /\ calls' = calls + Cardinality(Page)
        /\ handled' = [r \in Rows |-> IF r \in Page THEN handled[r] + 1 ELSE handled[r]]
        /\ UNCHANGED <<stored, inserted, moved, changes, reordered, conditional, count, pc, before>>
    BY DEF ReadPage, tableVars
  <1>2. /\ Reach \in Nat /\ Reach' \in Nat /\ perpage \in Nat
        /\ Reach' = Reach + perpage
    BY PagesRead DEF ReadPage, Reach
  <1>3. \A r : Number(r)' = Number(r) /\ Number(r) \in Nat
    BY <1>1, NumberType DEF Number, UpTo, Selected, Asked, Table
  <1>4. \A r : r \in Page <=> r \in Selected /\ Number(r) > Reach /\ Number(r) <= Reach'
    BY <1>2, <1>3, PageCount DEF First
  <1> HIDE DEF Reach
  <1>5. Distinct(stored)' /\ CountInv'
    BY <1>1 DEF Distinct, CountInv, Table
  <1>6. Untouched' = Untouched /\ Untouched \subseteq Selected /\ Untouched \in SUBSET Rows
    BY <1>1, UntouchedSelected DEF Untouched, Asked
  <1>7. RowsInv'
    BY <1>1, UntouchedSelected, PageCount DEF RowsInv, Table, Asked
  <1>8. CallsInv'
    <2> DEFINE C == Cardinality(Selected)
               U == Cardinality(Asked(before \cup inserted))
    <2>1. /\ calls \in Nat /\ C \in Nat /\ U \in Nat /\ Cardinality(Untouched) \in Nat
          /\ Cardinality(Untouched) <= C
      BY <1>6, UntouchedSelected, NumberType, Finite DEF IterTypeOK
    <2>2. C <= U
      <3>1. Selected \in SUBSET Asked(before \cup inserted)
        BY <1>1 DEF CountInv, Selected, Asked
      <3>. QED  BY <3>1, UntouchedSelected, Finite
    <2>3. Cardinality(Page) = (IF Reach' <= C THEN Reach' ELSE C) - (IF Reach <= C THEN Reach ELSE C)
      BY <1>2, PageCount, FirstCount
    <2>4. /\ Asked(before \cup inserted)' = Asked(before \cup inserted)
          /\ Untouched' = Untouched
      BY <1>1, <1>6 DEF Asked
    <2>5. /\ calls <= Reach /\ calls <= U
          /\ Reach <= calls \/ Cardinality(Untouched) <= calls
      BY DEF CallsInv
    <2> HIDE DEF C, U
    <2>6. /\ calls' <= Reach' /\ calls' <= U
          /\ Reach' <= calls' \/ Cardinality(Untouched) <= calls'
      BY <1>1, <1>2, <2>1, <2>2, <2>3, <2>5
    <2>. QED  BY <2>4, <2>6 DEF CallsInv, U
  <1>9. Passed' \subseteq Passed
    <2> SUFFICES ASSUME NEW r \in Untouched, handled'[r] = 0, Number(r) <= Reach'
                 PROVE  r \in Passed
      BY <1>1, <1>3, <1>6 DEF Passed, Missed
    <2>1. r \in Selected /\ r \in Rows /\ handled[r] \in Nat
      BY <1>6 DEF IterTypeOK
    <2>2. r \notin Page /\ handled[r] = 0
      BY <1>1, <2>1
    <2>3. Number(r) <= Reach
      BY <1>2, <1>3, <1>4, <2>1, <2>2
    <2>. QED  BY <2>2, <2>3 DEF Passed, Missed
  <1>10. PassedInv'
    <2>1. Passed \in SUBSET Rows /\ Table' = Table
      BY <1>1, <1>6 DEF Passed, Missed, Table
    <2>2. /\ Cardinality(Passed') <= Cardinality(Passed) /\ Cardinality(Passed') \in Nat
          /\ Cardinality(Passed) \in Nat /\ Cardinality(Table) \in Nat
          /\ changes \in Nat /\ count \in Nat
      BY <1>9, <2>1, Finite, NumberType, PaginationAssumption DEF IterTypeOK
    <2>. QED  BY <1>1, <2>1, <2>2 DEF PassedInv
  <1>11. Again' = Again
    <2> SUFFICES ASSUME NEW r \in Untouched
                 PROVE  handled'[r] > (IF Number(r) <= Reach' THEN 1 ELSE 0)
                          <=> handled[r] > (IF Number(r) <= Reach THEN 1 ELSE 0)
      BY <1>3, <1>6 DEF Again
    <2>1. r \in Selected /\ r \in Rows /\ handled[r] \in Nat
      BY <1>6 DEF IterTypeOK
    <2>2. CASE r \in Page
      <3>1. handled'[r] = handled[r] + 1 /\ Number(r) <= Reach' /\ ~(Number(r) <= Reach)
        BY <1>1, <1>2, <1>3, <1>4, <2>1, <2>2
      <3>. QED  BY <2>1, <3>1
    <2>3. CASE r \notin Page
      <3>1. handled'[r] = handled[r] /\ (Number(r) <= Reach' <=> Number(r) <= Reach)
        BY <1>1, <1>2, <1>3, <1>4, <2>1, <2>3
      <3>. QED  BY <3>1
    <2>. QED  BY <2>2, <2>3
  <1>12. AgainInv'
    BY <1>1, <1>11 DEF AgainInv
  <1>. QED  BY <1>5, <1>7, <1>8, <1>10, <1>12 DEF IterIInv

LEMMA StepFinish ==
  ASSUME IterIInv, IterTypeOK', Finish \/ UNCHANGED iterVars
  PROVE  IterIInv'
  <1>1. UNCHANGED <<stored, inserted, moved, changes, reordered, conditional, perpage, count, page,
                    handled, calls, before>>
    BY DEF Finish, iterVars, tableVars, loopVars
  <1>2. /\ Table' = Table /\ Reach' = Reach /\ Untouched' = Untouched /\ Missed' = Missed
        /\ \A r : Number(r)' = Number(r)
        /\ pc' = "count" <=> pc = "count"
    BY <1>1 DEF Table, Reach, Untouched, Missed, Number, UpTo, Selected, Asked, Finish, iterVars,
                loopVars
  <1>3. Passed' = Passed /\ Again' = Again
    BY <1>1, <1>2 DEF Passed, Again
  <1>4. Distinct(stored)' /\ RowsInv' /\ CallsInv' /\ PassedInv' /\ AgainInv'
    BY <1>1, <1>2, <1>3 DEF IterIInv, Distinct, RowsInv, CallsInv, PassedInv, AgainInv, Asked
  <1>5. count <= Reach \/ pc' # "done" \/ pc' = pc
    <2>1. count \in Nat /\ Reach \in Nat
      BY PagesRead DEF IterIInv, IterTypeOK
    <2>. QED  BY <2>1 DEF Finish, Reach, iterVars, loopVars
  <1>6. CountInv'
    BY <1>1, <1>2, <1>5 DEF IterIInv, CountInv
  <1>. QED  BY <1>4, <1>6 DEF IterIInv

-----------------------------------------------------------------------------
(* The steps of other sessions. *)

(* A row that comes, goes or moves changes the number of another by one at  *)
(* most, and one that comes makes none smaller.                             *)
LEMMA ShiftByOne ==
  ASSUME IterTypeOK, IterTypeOK', NEW r \in Rows, Insert(r) \/ Delete(r) \/ Update(r),
         NEW q \in Rows, q # r
  PROVE  /\ Number(q) \in Nat /\ Number(q)' \in Nat
         /\ Number(q)' <= Number(q) + 1 /\ Number(q) <= Number(q)' + 1
         /\ Insert(r) => Number(q) <= Number(q)'
  <1>1. /\ conditional' = conditional
        /\ \A t \in Rows : t # r => stored'[t] = stored[t]
        /\ Insert(r) => r \notin Table
    BY DEF Insert, Delete, Update, Put, Change, loopVars, IterTypeOK
  <1>2. /\ UpTo(q) \in SUBSET Rows /\ Number(q) \in Nat /\ Number(q) = Cardinality(UpTo(q))
        /\ r \in UpTo(q) => r \in Table
    BY NumberType DEF Number
  <1>3. UpTo(q)' \in SUBSET Rows
    BY DEF UpTo, Selected, Asked, Table
  <1>4. Number(q)' \in Nat /\ Number(q)' = Cardinality(UpTo(q)')
    BY <1>3, Finite DEF Number
  <1>5. \A t \in Rows : t # r => (t \in UpTo(q)' <=> t \in UpTo(q))
    BY <1>1 DEF UpTo, Selected, Asked, Table
  <1>6. UpTo(q)' \subseteq UpTo(q) \cup {r} /\ UpTo(q) \subseteq UpTo(q)' \cup {r}
    BY <1>2, <1>3, <1>5
  <1>7. IsFiniteSet(UpTo(q)) /\ IsFiniteSet(UpTo(q)')
    BY <1>2, <1>3, Finite
  <1>8. ASSUME NEW S, NEW T, IsFiniteSet(S), S \subseteq T \cup {r}, IsFiniteSet(T)
        PROVE  Cardinality(S) <= Cardinality(T) + 1
    <2>1. /\ IsFiniteSet(T \cup {r}) /\ Cardinality(T) \in Nat /\ Cardinality(S) \in Nat
          /\ Cardinality(T \cup {r}) <= Cardinality(T) + 1
          /\ Cardinality(T \cup {r}) \in Nat
      BY <1>8, FS_AddElement, FS_CardinalityType
    <2>2. Cardinality(S) <= Cardinality(T \cup {r})
      BY <1>8, <2>1, FS_Subset
    <2>. QED  BY <2>1, <2>2
  <1>9. Number(q)' <= Number(q) + 1
    BY <1>2, <1>4, <1>6, <1>7, <1>8
  <1>10. Number(q) <= Number(q)' + 1
    BY <1>2, <1>4, <1>6, <1>7, <1>8
  <1>11. ASSUME Insert(r) PROVE Number(q) <= Number(q)'
    <2>1. UpTo(q) \in SUBSET UpTo(q)'
      BY <1>1, <1>2, <1>6, <1>11
    <2>. QED  BY <1>2, <1>3, <1>4, <2>1, Finite
  <1>. QED  BY <1>2, <1>4, <1>9, <1>10, <1>11

(* Only the row numbered n can join those whose number was that of n rows   *)
(* that have been read, and only one row has that number.                   *)
LEMMA JoinedByOne ==
  ASSUME IterTypeOK, Distinct(stored), NEW n, NEW S \in SUBSET Rows, NEW T,
         T \subseteq S \cup {q \in Selected : Number(q) = n}
  PROVE  /\ Cardinality(T) \in Nat /\ Cardinality(S) \in Nat
         /\ Cardinality(T) <= Cardinality(S) + 1
  <1>1. PICK x : {q \in Selected : Number(q) = n} \subseteq {x}
    BY NumbersDiffer
  <1>2. /\ IsFiniteSet(S) /\ Cardinality(S) \in Nat
        /\ IsFiniteSet(S \cup {x}) /\ Cardinality(S \cup {x}) <= Cardinality(S) + 1
    BY Finite, FS_AddElement
  <1>3. T \in SUBSET (S \cup {x})
    BY <1>1
  <1>4. /\ Cardinality(T) \in Nat /\ Cardinality(T) <= Cardinality(S \cup {x})
        /\ Cardinality(S \cup {x}) \in Nat
    BY <1>2, <1>3, FS_Subset, FS_CardinalityType
  <1>. QED  BY <1>2, <1>4

LEMMA StepChange ==
  ASSUME IterIInv, IterTypeOK', NEW r \in Rows, Insert(r) \/ Delete(r) \/ Update(r)
  PROVE  IterIInv'
  <1> /\ IterTypeOK /\ Distinct(stored) /\ CountInv /\ RowsInv
      /\ CallsInv /\ PassedInv /\ AgainInv
    BY DEF IterIInv
  <1>1. /\ pc = "pages" /\ pc' = pc /\ changes' = changes + 1 /\ changes \in Nat
        /\ UNCHANGED <<conditional, perpage, count, page, handled, calls, before, reordered>>
    BY PaginationAssumption DEF Insert, Delete, Update, Change, loopVars, IterTypeOK
  <1>2. /\ \A t \in Rows : t # r => stored'[t] = stored[t]
        /\ \A t \in Rows : t # r => stored'[r] # stored[t] \/ stored'[r] = 0
        /\ moved \subseteq moved' /\ inserted \subseteq inserted'
    BY DEF Insert, Delete, Update, Put, IterTypeOK
  <1>3. \/ /\ r \notin Table /\ Table' = Table \cup {r} /\ inserted' = inserted \cup {r}
           /\ moved' = moved /\ Insert(r)
        \/ /\ r \in Table /\ (Table' = Table \/ Table' = Table \ {r})
           /\ moved' = moved \cup {r} /\ inserted' = inserted
    BY PaginationAssumption DEF Insert, Delete, Update, Put, Table, IterTypeOK
  <1>4. Distinct(stored)'
    BY <1>2 DEF Distinct
  <1>5. Reach' = Reach /\ Reach \in Nat
    BY <1>1, PagesRead DEF Reach
  <1>6. CountInv' /\ RowsInv'
    BY <1>1, <1>3, <1>5 DEF CountInv, RowsInv, Asked
  <1>7. /\ Untouched' \subseteq Untouched /\ r \notin Untouched'
        /\ Untouched \subseteq Selected /\ Untouched \in SUBSET Rows
    BY <1>1, <1>2, <1>3, UntouchedSelected DEF Untouched, Asked, RowsInv
  <1>8. CallsInv'
    <2>1. Asked(before \cup inserted)' \in SUBSET Rows
      BY <1>6, UntouchedSelected DEF Asked, IterTypeOK
    <2>2. Asked(before \cup inserted) \in SUBSET Asked(before \cup inserted)'
      BY <1>1, <1>2 DEF Asked
    <2>3. /\ Cardinality(Asked(before \cup inserted)) <= Cardinality(Asked(before \cup inserted)')
          /\ Cardinality(Asked(before \cup inserted)) \in Nat
          /\ Cardinality(Asked(before \cup inserted)') \in Nat
          /\ Cardinality(Untouched') <= Cardinality(Untouched)
          /\ Cardinality(Untouched) \in Nat /\ Cardinality(Untouched') \in Nat
          /\ calls \in Nat
      BY <1>7, <2>1, <2>2, UntouchedSelected, Finite DEF IterTypeOK
    <2>. QED  BY <1>1, <1>5, <2>3 DEF CallsInv
  <1> HIDE DEF Reach
  <1>9. \A q \in Untouched' : /\ q \in Untouched /\ q \in Selected /\ q \in Rows /\ q # r
                              /\ handled'[q] = handled[q] /\ handled[q] \in Nat
                              /\ Number(q) \in Nat /\ Number(q)' \in Nat
                              /\ Number(q)' <= Number(q) + 1 /\ Number(q) <= Number(q)' + 1
                              /\ Insert(r) => Number(q) <= Number(q)'
    <2> SUFFICES ASSUME NEW q \in Untouched'
                 PROVE  /\ q \in Untouched /\ q \in Selected /\ q \in Rows /\ q # r
                        /\ handled'[q] = handled[q] /\ handled[q] \in Nat
                        /\ Number(q) \in Nat /\ Number(q)' \in Nat
                        /\ Number(q)' <= Number(q) + 1 /\ Number(q) <= Number(q)' + 1
                        /\ Insert(r) => Number(q) <= Number(q)'
      OBVIOUS
    <2>1. q \in Untouched /\ q \in Selected /\ q \in Rows /\ q # r
      BY <1>7
    <2>. QED  BY <1>1, <2>1, ShiftByOne DEF IterTypeOK
  <1>10. PassedInv'
    <2>1. Passed' \subseteq Passed \cup {q \in Selected : Number(q) = Reach + 1}
      <3> SUFFICES ASSUME NEW q \in Untouched', handled'[q] = 0, Number(q)' <= Reach
                   PROVE  q \in Passed \/ (q \in Selected /\ Number(q) = Reach + 1)
        BY <1>5 DEF Passed, Missed
      <3>1. /\ q \in Untouched /\ q \in Selected /\ handled[q] = 0
            /\ Number(q) <= Number(q)' + 1 /\ Number(q) \in Nat /\ Number(q)' \in Nat
        BY <1>9
      <3>2. Number(q) <= Reach \/ Number(q) = Reach + 1
        BY <1>5, <3>1
      <3>. QED  BY <3>1, <3>2 DEF Passed, Missed
    <2>2. Passed \in SUBSET Rows
      BY <1>7 DEF Passed, Missed
    <2>3. /\ Cardinality(Passed') \in Nat /\ Cardinality(Passed) \in Nat
          /\ Cardinality(Passed') <= Cardinality(Passed) + 1
      BY <2>1, <2>2, JoinedByOne
    <2>4. /\ Cardinality(Table) \in Nat /\ Cardinality(Table') \in Nat /\ IsFiniteSet(Table)
          /\ count \in Nat
      BY <1>3, Finite, NumberType, FS_AddElement, FS_RemoveElement, FS_CardinalityType DEF IterTypeOK
    <2>5. CASE Insert(r)
      <3>1. Passed' \subseteq Passed
        <4> SUFFICES ASSUME NEW q \in Untouched', handled'[q] = 0, Number(q)' <= Reach
                     PROVE  q \in Passed
          BY <1>5 DEF Passed, Missed
        <4>1. Number(q) <= Reach
          BY <1>5, <1>9, <2>5
        <4>. QED  BY <1>9, <4>1 DEF Passed, Missed
      <3>2. Cardinality(Passed') <= Cardinality(Passed)
        BY <2>2, <3>1, Finite
      <3>3. Cardinality(Table') <= Cardinality(Table) + 1
        BY <1>3, <2>4, FS_AddElement, FS_RemoveElement
      <3>. QED  BY <1>1, <2>3, <2>4, <3>2, <3>3 DEF PassedInv
    <2>6. CASE ~Insert(r)
      <3>1. Cardinality(Table') <= Cardinality(Table)
        <4>1. Table' = Table \/ Table' = Table \ {r}
          BY <1>3, <2>6
        <4>2. Table' \in SUBSET Table /\ Table \in SUBSET Rows
          BY <4>1, NumberType
        <4>. QED  BY <4>2, Finite
      <3>. QED  BY <1>1, <2>3, <2>4, <3>1 DEF PassedInv
    <2>. QED  BY <2>5, <2>6
  <1>11. AgainInv'
    <2>1. Again' \subseteq Again \cup {q \in Selected : Number(q) = Reach}
      <3> SUFFICES ASSUME NEW q \in Untouched', Number(q) # Reach,
                          handled'[q] > IF Number(q)' <= Reach THEN 1 ELSE 0
                   PROVE  q \in Again
        BY <1>5, <1>9 DEF Again
      <3>1. handled[q] > IF Number(q) <= Reach THEN 1 ELSE 0
        BY <1>5, <1>9
      <3>. QED  BY <1>9, <3>1 DEF Again
    <2>2. Again \in SUBSET Rows
      BY <1>7 DEF Again
    <2>3. /\ Cardinality(Again') \in Nat /\ Cardinality(Again) \in Nat
          /\ Cardinality(Again') <= Cardinality(Again) + 1
      BY <2>1, <2>2, JoinedByOne
    <2>. QED  BY <1>1, <2>3 DEF AgainInv
  <1>. QED  BY <1>4, <1>6, <1>8, <1>10, <1>11 DEF IterIInv

(* Another order is of no concern to how often the handler is called. *)
LEMMA StepReorder ==
  ASSUME IterIInv, IterTypeOK', Reorder
  PROVE  IterIInv'
  <1>1. /\ Distinct(stored)' /\ reordered' = TRUE
        /\ UNCHANGED <<inserted, moved, changes, conditional, perpage, count, page, handled, calls,
                       pc, before>>
    BY DEF Reorder, loopVars, Distinct
  <1>2. Table' = Table
    BY DEF Reorder, Table
  <1>3. Reach' = Reach /\ Untouched' = Untouched
    BY <1>1 DEF Reach, Untouched, Asked
  <1>4. CountInv' /\ RowsInv' /\ CallsInv'
    BY <1>1, <1>2, <1>3 DEF IterIInv, CountInv, RowsInv, CallsInv, Asked
  <1>5. PassedInv' /\ AgainInv'
    BY <1>1 DEF PassedInv, AgainInv
  <1>. QED  BY <1>1, <1>4, <1>5 DEF IterIInv

LEMMA IterIInvNext == IterIInv /\ [IterNext]_iterVars => IterIInv'
  <1> SUFFICES ASSUME IterIInv, [IterNext]_iterVars PROVE IterIInv'
    OBVIOUS
  <1>1. IterTypeOK'
    BY TypeNext
  <1>. QED  BY <1>1, StepCount, StepRead, StepFinish, StepChange, StepReorder DEF IterNext, Iterate

-----------------------------------------------------------------------------
(* The inductive invariant holds in every reachable state. *)
THEOREM IterInvariance == IterSpec => []IterIInv
  BY IterIInvInit, IterIInvNext, PTL DEF IterSpec

(* The state is always of its type. *)
THEOREM IterTypeCorrect == IterSpec => []IterTypeOK
  <1>1. IterIInv => IterTypeOK
    BY DEF IterIInv
  <1>. QED  BY <1>1, IterInvariance, PTL

(* Whatever the order of the results, and wherever rows are put, the pages  *)
(* add up to what is said: the handler is called often enough for the rows  *)
(* left untouched, and while the order stays each change makes one of them  *)
(* be missed and one come again at most.                                    *)
THEOREM PagesCover == IterSpec => []PagesCoverTheTable
  <1>1. ASSUME IterIInv PROVE PagesCoverTheTable
    <2> /\ IterTypeOK /\ Distinct(stored) /\ CountInv /\ RowsInv
        /\ CallsInv /\ PassedInv /\ AgainInv
      BY <1>1 DEF IterIInv
    <2> DEFINE C == Cardinality(Selected)
    <2>1. /\ calls \in Nat /\ count \in Nat /\ changes \in Nat /\ Reach \in Nat /\ C \in Nat
          /\ Untouched \subseteq Selected /\ Untouched \in SUBSET Rows
          /\ \A r \in Rows : handled[r] \in Nat
      BY PagesRead, FirstCount, UntouchedSelected, PaginationAssumption DEF IterTypeOK
    <2>2. ASSUME pc = "done" PROVE Cardinality(Untouched) <= calls
      <3>1. Untouched \in SUBSET before /\ before \in SUBSET Rows
        BY DEF Untouched, Asked, IterTypeOK
      <3>2. Cardinality(Untouched) <= count /\ count <= Reach /\ Cardinality(Untouched) \in Nat
        BY <2>2, <3>1, Finite DEF CountInv
      <3>. QED  BY <2>1, <3>2 DEF CallsInv
    <2>3. ASSUME ~reordered PROVE Cardinality(Repeated) <= changes
      <3>1. Repeated \subseteq Again
        BY <2>1 DEF Repeated, Again
      <3>2. Again \in SUBSET Rows
        BY <2>1 DEF Again
      <3>3. /\ Cardinality(Repeated) <= Cardinality(Again)
            /\ Cardinality(Again) \in Nat /\ Cardinality(Repeated) \in Nat
        BY <3>1, <3>2, Finite
      <3>. QED  BY <2>1, <2>3, <3>3 DEF AgainInv
    <2>4. ASSUME ~reordered, pc = "done" PROVE Cardinality(Missed) <= changes
      <3> DEFINE F == First(Reach)
      <3>1. /\ F \in SUBSET Selected /\ F \in SUBSET Rows
            /\ Cardinality(F) = IF Reach <= C THEN Reach ELSE C
        BY <2>1, FirstCount
      <3>2. /\ Passed \in SUBSET Rows /\ Missed \in SUBSET Rows
            /\ Missed \subseteq Passed \cup (Selected \ F)
        BY <2>1 DEF Passed, Missed, First
      <3>3. Selected \in SUBSET Rows /\ Selected \ F \in SUBSET Rows /\ Selected \in SUBSET Table
            /\ Table \in SUBSET Rows
        BY NumberType
      <3>4. Cardinality(Selected \ F) = C - Cardinality(F)
        <4>1. (Selected \ F) \cup F = Selected /\ (Selected \ F) \cap F = {}
          BY <3>1
        <4>2. /\ IsFiniteSet(F) /\ IsFiniteSet(Selected \ F)
              /\ Cardinality(F) \in Nat /\ Cardinality(Selected \ F) \in Nat
          BY <3>1, <3>3, Finite
        <4>3. Cardinality((Selected \ F) \cup F) = Cardinality(Selected \ F) + Cardinality(F)
                                                   - Cardinality((Selected \ F) \cap F)
          BY <4>2, FS_Union
        <4> HIDE DEF F
        <4>. QED  BY <2>1, <4>1, <4>2, <4>3, FS_EmptySet
      <3>5. Cardinality(Missed) <= Cardinality(Passed) + Cardinality(Selected \ F)
        <4>1. /\ IsFiniteSet(Passed) /\ IsFiniteSet(Selected \ F)
              /\ Cardinality(Passed) \in Nat /\ Cardinality(Selected \ F) \in Nat
          BY <3>2, <3>3, Finite
        <4> DEFINE B == Selected \ F
        <4> HIDE DEF B
        <4>2. /\ IsFiniteSet(Passed \cup B)
              /\ Cardinality(Passed \cup B) = Cardinality(Passed) + Cardinality(B)
                                             - Cardinality(Passed \cap B)
          BY <4>1, FS_Union DEF B
        <4>3. /\ Cardinality(Passed \cap B) \in Nat /\ Cardinality(Passed \cup B) \in Nat
              /\ Cardinality(Missed) <= Cardinality(Passed \cup B) /\ Cardinality(Missed) \in Nat
          <5>1. Passed \cap B \in SUBSET Rows /\ Passed \cup B \in SUBSET Rows
            BY <3>2, <3>3 DEF B
          <5>2. Missed \in SUBSET (Passed \cup B)
            BY <3>2 DEF B
          <5>. QED  BY <3>2, <5>1, <5>2, Finite
        <4>. QED  BY <4>1, <4>2, <4>3 DEF B
      <3>6. C <= Cardinality(Table) /\ Cardinality(Table) \in Nat /\ count <= Reach
        BY <2>4, <3>3, Finite DEF CountInv
      <3>7. /\ Cardinality(Passed) <= changes /\ Cardinality(Passed) \in Nat
            /\ Cardinality(Passed) + Cardinality(Table) <= count + changes
            /\ Cardinality(Missed) \in Nat
        BY <2>4, <3>2, Finite DEF PassedInv
      <3> HIDE DEF F, C
      <3>. QED  BY <2>1, <3>1, <3>4, <3>5, <3>6, <3>7
    <2>. QED  BY <2>2, <2>3, <2>4 DEF PagesCoverTheTable, RowsInv, CallsInv
  <1>. QED  BY <1>1, IterInvariance, PTL
=============================================================================
