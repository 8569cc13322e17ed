-------------------------- MODULE ProcessWinProofs --------------------------
(***************************************************************************)
(* Proofs about ProcessWin, for every set of callers, streams and bounds:   *)
(* no handle is used after it is closed, and a single waiter gets the       *)
(* child's status after its output.                                         *)
(*                                                                          *)
(* The second part is about ProcessWinOpen: NoChildHoldsNearEnds and        *)
(* NoHandleLeak.  The two modules share no state.                           *)
(***************************************************************************)
EXTENDS ProcessWin, ProcessWinOpen, TLAPS

(* A stream is read until it has ended, and closed once. *)
StreamInv == /\ \A s \in reading : closeCalls[s] = 0
             /\ \A s \in Streams \ reading : closeCalls[s] = 1 /\ AtEnd(s)

(* Who is past the join of the threads finds that they have ended. *)
CloserInv == /\ \A t \in Callers : tpc[t] \in {"stdin", "fds", "destroyed"} => reading = {}
             /\ ~outOpen => reading = {}

(* kill, write and the one who closes the handle hold their mutex. *)
LockInv ==
  \A t \in Callers : /\ tpc[t] = "kill" => closeMutex = t /\ ~closed
                     /\ tpc[t] = "null" => closeMutex = t
                     /\ tpc[t] = "write" => stdinMutex = t /\ stdinOpen

(* The handle is open until a waiter closes it, who sets closed next. *)
HandleInv == handle # "open" => closed \/ \E t \in Callers : tpc[t] = "null"

(* Only waiters wait, and ask for a code only when there is one. *)
WaiterInv == /\ \A t \in Callers : tpc[t] \notin {"idle", "kill", "write"} => t \in Waiters
             /\ \A t \in Callers : tpc[t] \in {"query", "close", "null"} => Child \notin alive
             /\ Child \notin alive => code # NoCode

(* The child has its outputs as long as it runs, and no kill terminates it  *)
(* as one of its descendants.                                               *)
ChildInv == /\ Child \in alive => \A s \in Streams : Child \in writers[s]
            /\ \A t \in Callers : Child \notin snapshot[t]

IInv == TypeOK /\ ChildInv /\ StreamInv /\ CloserInv /\ LockInv /\ HandleInv /\ WaiterInv

-----------------------------------------------------------------------------
(* The bounds are numbers, and no caller stands for a free mutex. *)
LEMMA Constants == /\ Nobody \notin Callers
                   /\ MaxOut \in Nat /\ MaxWrite \in Nat /\ PipeSize \in Nat /\ Descendants \in Nat
                   /\ OpenStdin \in BOOLEAN
  BY WinAssumption

(* The steps of the child, of the readers and of the callers. *)
Outsider == ChildStep
ReaderMoves == \E s \in Streams : ReaderStep(s)
Called == \E t \in Callers : Proceed(t) \/ Call(t)

LEMMA StepsAre == [Next]_vars => Outsider \/ ReaderMoves \/ Called \/ UNCHANGED vars
  BY DEF Next, Outsider, ReaderMoves, Called

LEMMA IInvInit == Init => IInv
  <1> SUFFICES ASSUME Init PROVE IInv
    OBVIOUS
  <1>1. TypeOK
    <2>1. /\ {closed, stdinOpen, outOpen} \subseteq BOOLEAN
          /\ {closeMutex, stdinMutex} \subseteq Callers \cup {Nobody}
      BY Constants DEF Init
    <2>4. /\ 0 \in 0 .. Descendants /\ 0 \in 0 .. PipeSize
      BY Constants
    <2>5. /\ alive \subseteq 0 .. Descendants /\ spawned \in 0 .. Descendants
          /\ inPipe \in 0 .. PipeSize
      BY <2>4 DEF Init, Child
    <2>2. /\ writers \in [Streams -> SUBSET alive]
          /\ written \in [Streams -> 0 .. MaxOut] /\ delivered \in [Streams -> 0 .. MaxOut]
          /\ closeCalls \in [Streams -> {0, 1}]
      BY Constants DEF Init
    <2>3. /\ tpc \in [Callers -> {"idle", "wait", "query", "close", "null", "join", "stdin", "fds",
                                  "kill", "write", "destroyed"}]
          /\ snapshot \in [Callers -> SUBSET (0 .. Descendants)]
          /\ own \in [Callers -> {NotYet, Running, -1, 0, 1, Terminated}]
          /\ left \in [Callers -> 0 .. MaxWrite]
          /\ result \in [Callers -> {NotYet, Running, -1, 0, 1, Terminated}]
      BY Constants DEF Init
    <2>. QED  BY <2>1, <2>2, <2>3, <2>5 DEF Init, TypeOK
  <1>2. ChildInv /\ StreamInv /\ CloserInv /\ LockInv /\ HandleInv /\ WaiterInv
    BY DEF Init, ChildInv, StreamInv, CloserInv, LockInv, HandleInv, WaiterInv
  <1>. QED  BY <1>1, <1>2 DEF IInv

-----------------------------------------------------------------------------
(* Type correctness. *)

(* What ends leaves its pipes. *)
LEMMA EndsKeepsTypes ==
  ASSUME TypeOK, NEW ps, Ends(ps)
  PROVE  /\ alive' \subseteq 0 .. Descendants /\ inReaders' \subseteq alive'
         /\ writers' \in [Streams -> SUBSET alive']
  BY DEF Ends, TypeOK

LEMMA TypeOKOutsider == TypeOK /\ Outsider => TypeOK'
  <1> SUFFICES ASSUME TypeOK, Outsider PROVE TypeOK'
    OBVIOUS
  <1> USE DEF Outside, readerVars, handleVars, pipeVars, callerVars
  <1>1. ASSUME NEW q \in alive, NEW s \in Streams, Output(q, s) PROVE TypeOK'
    BY <1>1, Constants DEF Output, TypeOK
  <1>2. ASSUME NEW q \in alive, Input(q) PROVE TypeOK'
    BY <1>2, Constants DEF Input, TypeOK, childVars
  <1>3. CASE Spawn
    <2>1. spawned' \in 0 .. Descendants
      BY <1>3, Constants DEF Spawn, TypeOK
    <2>2. /\ alive' = alive \cup {spawned'} /\ inReaders' \subseteq alive'
          /\ writers' \in [Streams -> SUBSET alive']
      <3>1. alive' = alive \cup {spawned'}
        BY <1>3 DEF Spawn
      <3>2. CASE writers' = writers /\ inReaders' = inReaders
        BY <3>1, <3>2 DEF TypeOK
      <3>3. CASE /\ writers' = [s \in Streams |-> writers[s] \cup {spawned'}]
                 /\ inReaders' = inReaders \cup {spawned'}
        BY <3>1, <3>3 DEF TypeOK
      <3>. QED  BY <1>3, <3>1, <3>2, <3>3 DEF Spawn
    <2>. QED  BY <1>3, <2>1, <2>2 DEF Spawn, TypeOK
  <1>4. CASE DescendantExits
    BY <1>4, EndsKeepsTypes DEF DescendantExits, TypeOK
  <1>5. ASSUME NEW c \in ExitCodes, Exit(c) PROVE TypeOK'
    BY <1>5, EndsKeepsTypes DEF Exit, TypeOK
  <1>. QED  BY <1>1, <1>2, <1>3, <1>4, <1>5 DEF Outsider, ChildStep

LEMMA TypeOKReader == TypeOK /\ StreamInv /\ ReaderMoves => TypeOK'
  <1> SUFFICES ASSUME TypeOK, StreamInv, NEW s \in Streams, Read(s) \/ StreamCloses(s) PROVE TypeOK'
    BY DEF ReaderMoves, ReaderStep
  <1> USE DEF childVars, handleVars, pipeVars, callerVars
  <1>1. CASE Read(s)
    <2>1. delivered' \in [Streams -> 0 .. MaxOut]
      BY <1>1, Constants DEF Read, TypeOK
    <2>. QED  BY <1>1, <2>1 DEF Read, TypeOK
  <1>2. CASE StreamCloses(s)
    <2>1. closeCalls' \in [Streams -> {0, 1}]
      BY <1>2 DEF StreamCloses, TypeOK, StreamInv
    <2>. QED  BY <1>2, <2>1 DEF StreamCloses, TypeOK
  <1>. QED  BY <1>1, <1>2

LEMMA TypeOKCalled == TypeOK /\ WaiterInv /\ Called => TypeOK'
  <1> SUFFICES ASSUME TypeOK, WaiterInv, NEW t \in Callers, Proceed(t) \/ Call(t) PROVE TypeOK'
    BY DEF Called
  <1> USE DEF Quiet, childVars, readerVars, handleVars, pipeVars, callerVars, Goto, Return
  <1>1. CASE GetExitStatus(t) \/ Destroy(t) \/ WaitReturns(t)
    <2>1. tpc' \in [Callers -> {"idle", "wait", "query", "close", "null", "join", "stdin", "fds",
                               "kill", "write", "destroyed"}]
      BY <1>1 DEF GetExitStatus, Destroy, WaitReturns, TypeOK
    <2>2. result' \in [Callers -> {NotYet, Running, -1, 0, 1, Terminated}]
      BY <1>1 DEF GetExitStatus, Destroy, WaitReturns, TypeOK
    <2>3. UNCHANGED <<Quiet, handleVars, pipeVars, snapshot, own, left>>
      BY <1>1 DEF GetExitStatus, Destroy, WaitReturns
    <2>. QED  BY <2>1, <2>2, <2>3 DEF TypeOK
  <1>2. CASE TryGetExitStatus(t)
    <2>1. /\ own' \in [Callers -> {NotYet, Running, -1, 0, 1, Terminated}]
          /\ result' \in [Callers -> {NotYet, Running, -1, 0, 1, Terminated}]
      BY <1>2 DEF TryGetExitStatus, TypeOK
    <2>2. tpc' \in [Callers -> {"idle", "wait", "query", "close", "null", "join", "stdin", "fds",
                               "kill", "write", "destroyed"}]
      BY <1>2 DEF TryGetExitStatus, TypeOK
    <2>3. UNCHANGED <<childVars, inPipe, readerVars, handleVars, pipeVars, snapshot, left>>
      BY <1>2 DEF TryGetExitStatus
    <2>. QED  BY <2>1, <2>2, <2>3 DEF TypeOK
  <1>3. CASE KillBegins(t)
    <2>1. alive \ {Child} \in SUBSET (0 .. Descendants)
      BY DEF TypeOK
    <2>. QED  BY <1>3, <2>1 DEF KillBegins, TypeOK
  <1>4. CASE CloseStdin(t)
    BY <1>4 DEF CloseStdin, CloseStdinFd, TypeOK
  <1>5. ASSUME NEW n \in 1 .. MaxWrite, WriteBegins(t, n) PROVE TypeOK'
    <2>1. n \in 0 .. MaxWrite
      BY Constants
    <2>. QED  BY <1>5, <2>1 DEF WriteBegins, TypeOK
  <1>6. CASE Query(t)
    <2>1. exitStatus' \in {-1, 0, 1, Terminated}
      BY <1>6 DEF Query, WaiterInv, TypeOK, ExitCodes
    <2>. QED  BY <1>6, <2>1 DEF Query, TypeOK
  <1>7. CASE CloseHandle(t) \/ SetClosed(t) \/ Join(t)
    <2>1. tpc' \in [Callers -> {"idle", "wait", "query", "close", "null", "join", "stdin", "fds",
                               "kill", "write", "destroyed"}]
      BY <1>7 DEF CloseHandle, SetClosed, Join, TypeOK
    <2>2. /\ handle' \in {"open", "closed", "null"} /\ closed' \in BOOLEAN
          /\ closeMutex' \in Callers \cup {Nobody}
      BY <1>7 DEF CloseHandle, SetClosed, Join, TypeOK
    <2>3. UNCHANGED <<Quiet, exitStatus, pipeVars, snapshot, own, left, result>>
      BY <1>7 DEF CloseHandle, SetClosed, Join
    <2>. QED  BY <2>1, <2>2, <2>3 DEF TypeOK
  <1>8. CASE CloseFdsStdin(t)
    <2>1. tpc' \in [Callers -> {"idle", "wait", "query", "close", "null", "join", "stdin", "fds",
                               "kill", "write", "destroyed"}]
      BY <1>8 DEF CloseFdsStdin, TypeOK
    <2>2. /\ stdinOpen' \in BOOLEAN
          /\ UNCHANGED <<Quiet, handleVars, stdinMutex, outOpen, snapshot, own, left, result>>
      BY <1>8 DEF CloseFdsStdin, CloseStdinFd, TypeOK
    <2>. QED  BY <2>1, <2>2 DEF TypeOK
  <1>9. CASE CloseFdsOut(t)
    <2>1. result' \in [Callers -> {NotYet, Running, -1, 0, 1, Terminated}]
      BY <1>9 DEF CloseFdsOut, TypeOK
    <2>. QED  BY <1>9, <2>1 DEF CloseFdsOut, TypeOK
  <1>10. CASE KillDescendant(t)
    <2>1. PICK q \in snapshot[t] : Ends({q}) /\ snapshot' = [snapshot EXCEPT ![t] = @ \ {q}]
      BY <1>10 DEF KillDescendant
    <2>2. snapshot' \in [Callers -> SUBSET (0 .. Descendants)]
      BY <2>1 DEF TypeOK
    <2>. QED  BY <1>10, <2>1, <2>2, EndsKeepsTypes DEF KillDescendant, TypeOK
  <1>11. CASE KillChild(t)
    <2>1. /\ alive' \subseteq 0 .. Descendants /\ inReaders' \subseteq alive'
          /\ writers' \in [Streams -> SUBSET alive'] /\ code' \in ExitCodes \cup {Terminated, NoCode}
      BY <1>11, EndsKeepsTypes DEF KillChild, TypeOK
    <2>. QED  BY <1>11, <2>1 DEF KillChild, TypeOK
  <1>12. CASE WriteSome(t)
    <2>1. inPipe' \in 0 .. PipeSize /\ left' \in [Callers -> 0 .. MaxWrite]
      BY <1>12, Constants DEF WriteSome, TypeOK
    <2>. QED  BY <1>12, <2>1 DEF WriteSome, TypeOK
  <1>13. CASE WriteReturns(t)
    BY <1>13, Constants DEF WriteReturns, TypeOK
  <1>. QED
    BY <1>1, <1>2, <1>3, <1>4, <1>5, <1>6, <1>7, <1>8, <1>9, <1>10, <1>11, <1>12, <1>13
    DEF Proceed, Call

-----------------------------------------------------------------------------
(* The streams. *)

(* Nothing more is written to what has ended: nobody is left to start a     *)
(* process that could.                                                      *)
EndsLast == \A s \in Streams : AtEnd(s) => AtEnd(s)'

LEMMA OutsiderEndsLast == TypeOK /\ ChildInv /\ Outsider => EndsLast /\ ChildInv'
  <1> SUFFICES ASSUME TypeOK, ChildInv, Outsider PROVE EndsLast /\ ChildInv'
    OBVIOUS
  <1> USE DEF EndsLast, ChildInv, AtEnd, Outside, readerVars, callerVars, TypeOK
  <1>1. ASSUME NEW q \in alive, NEW s \in Streams, Output(q, s) PROVE EndsLast /\ ChildInv'
    BY <1>1 DEF Output
  <1>2. ASSUME NEW q \in alive, Input(q) PROVE EndsLast /\ ChildInv'
    BY <1>2 DEF Input, childVars
  <1>3. CASE Spawn
    BY <1>3 DEF Spawn
  <1>4. CASE DescendantExits \/ \E c \in ExitCodes : Exit(c)
    BY <1>4 DEF DescendantExits, Exit, Ends
  <1>. QED  BY <1>1, <1>2, <1>3, <1>4 DEF Outsider, ChildStep

LEMMA CalledEndsLast == TypeOK /\ ChildInv /\ Called => EndsLast /\ ChildInv'
  <1> SUFFICES ASSUME NEW t \in Callers, TypeOK, ChildInv, Proceed(t) \/ Call(t)
               PROVE  EndsLast /\ ChildInv'
    BY DEF Called
  <1> USE DEF EndsLast, ChildInv, AtEnd, TypeOK
  <1>1. CASE KillDescendant(t)
    BY <1>1 DEF KillDescendant, Ends, readerVars
  <1>2. CASE KillChild(t)
    BY <1>2 DEF KillChild, Ends, readerVars
  <1>3. CASE KillBegins(t)
    BY <1>3 DEF KillBegins, Quiet, childVars, readerVars
  <1>4. CASE ~KillDescendant(t) /\ ~KillChild(t) /\ ~KillBegins(t)
    <2>1. UNCHANGED <<alive, writers, written, delivered, snapshot>>
      BY <1>4 DEF Proceed, Call, GetExitStatus, TryGetExitStatus, Destroy, WriteBegins, CloseStdin,
                  WaitReturns, Query, CloseHandle, SetClosed, Join, CloseFdsStdin, CloseFdsOut,
                  WriteSome, WriteReturns, Quiet, childVars, readerVars, callerVars
    <2>. QED  BY <2>1
  <1>. QED  BY <1>1, <1>2, <1>3, <1>4

(* What the child and the callers do is no concern of the threads that      *)
(* read.                                                                    *)
LEMMA StreamInvOthers ==
  ASSUME TypeOK, ChildInv, StreamInv, Outsider \/ Called
  PROVE  StreamInv' /\ ChildInv' /\ reading' = reading
  <1>1. EndsLast /\ ChildInv'
    BY OutsiderEndsLast, CalledEndsLast
  <1>2. UNCHANGED <<reading, closeCalls>>
    BY DEF Outsider, ChildStep, Output, Input, Spawn, DescendantExits, Exit, Called, Proceed, Call,
           GetExitStatus, TryGetExitStatus, Destroy, KillBegins, WriteBegins, CloseStdin,
           WaitReturns, Query, CloseHandle, SetClosed, Join, CloseFdsStdin, CloseFdsOut,
           KillDescendant, KillChild, WriteSome, WriteReturns, Quiet, Outside, readerVars
  <1>. QED  BY <1>1, <1>2 DEF StreamInv, EndsLast, TypeOK

LEMMA StreamInvReader ==
  ASSUME TypeOK, ChildInv, StreamInv, ReaderMoves
  PROVE  StreamInv' /\ ChildInv' /\ reading # {}
  <1>1. PICK s \in Streams : Read(s) \/ StreamCloses(s)
    BY DEF ReaderMoves, ReaderStep
  <1>2. CASE Read(s)
    BY <1>2 DEF Read, StreamInv, ChildInv, AtEnd, TypeOK, childVars, callerVars
  <1>3. CASE StreamCloses(s)
    BY <1>3 DEF StreamCloses, StreamInv, ChildInv, AtEnd, TypeOK, childVars, callerVars
  <1>. QED  BY <1>1, <1>2, <1>3

-----------------------------------------------------------------------------
(* The callers. *)

LEMMA CallersOthers ==
  ASSUME IInv, Outsider \/ ReaderMoves
  PROVE  CloserInv' /\ LockInv' /\ HandleInv' /\ WaiterInv'
  <1>1. UNCHANGED <<handleVars, pipeVars, callerVars>>
    BY DEF Outsider, ChildStep, Output, Input, Spawn, DescendantExits, Exit, ReaderMoves,
           ReaderStep, Read, StreamCloses, Outside
  <1>2. reading = {} => reading' = {}
    BY StreamInvOthers, StreamInvReader DEF IInv
  <1>3. CloserInv' /\ LockInv' /\ HandleInv'
    BY <1>1, <1>2 DEF IInv, CloserInv, LockInv, HandleInv, handleVars, pipeVars, callerVars
  <1>4. /\ Child \notin alive => Child \notin alive' /\ code' = code
        /\ Child \notin alive' => code' # NoCode
    <2> USE DEF IInv, WaiterInv, TypeOK
    <2>1. CASE ReaderMoves
      BY <2>1 DEF ReaderMoves, ReaderStep, Read, StreamCloses, childVars
    <2>2. CASE Spawn
      BY <2>2 DEF Spawn, Child
    <2>3. CASE \E c \in ExitCodes : Exit(c)
      BY <2>3 DEF Exit, Ends, ExitCodes, NoCode
    <2>4. CASE Outsider /\ ~Spawn /\ ~\E c \in ExitCodes : Exit(c)
      BY <2>4 DEF Outsider, ChildStep, Output, Input, DescendantExits, Ends, childVars
    <2>. QED  BY <2>1, <2>2, <2>3, <2>4
  <1>5. WaiterInv'
    BY <1>1, <1>4 DEF IInv, WaiterInv, callerVars
  <1>. QED  BY <1>3, <1>5

LEMMA CallersCalled ==
  ASSUME IInv, NEW t \in Callers, Proceed(t) \/ Call(t)
  PROVE  CloserInv' /\ LockInv' /\ HandleInv' /\ WaiterInv'
  <1> USE Constants DEF IInv, TypeOK, Goto, Return
  <1>1. reading' = reading
    BY StreamInvOthers DEF Called
  <1>2. CloserInv'
    BY <1>1 DEF CloserInv, Proceed, Call, GetExitStatus, TryGetExitStatus, Destroy, KillBegins,
                WriteBegins, CloseStdin, WaitReturns, Query, CloseHandle, SetClosed, Join,
                CloseFdsStdin, CloseFdsOut, KillDescendant, KillChild, WriteSome, WriteReturns,
                CloseStdinFd, pipeVars, callerVars
  <1>3. LockInv'
    BY DEF LockInv, Proceed, Call, GetExitStatus, TryGetExitStatus, Destroy, KillBegins,
           WriteBegins, CloseStdin, WaitReturns, Query, CloseHandle, SetClosed, Join,
           CloseFdsStdin, CloseFdsOut, KillDescendant, KillChild, WriteSome, WriteReturns,
           CloseStdinFd, handleVars, pipeVars, callerVars
  <1>4. HandleInv'
    <2> USE DEF HandleInv, LockInv
    <2>1. CASE CloseHandle(t)
      BY <2>1 DEF CloseHandle
    <2>2. CASE SetClosed(t)
      BY <2>2 DEF SetClosed
    <2>3. CASE ~CloseHandle(t) /\ ~SetClosed(t)
      <3>1. UNCHANGED <<handle, closed>>
        BY <2>3 DEF Proceed, Call, GetExitStatus, TryGetExitStatus, Destroy, KillBegins,
                    WriteBegins, CloseStdin, WaitReturns, Query, Join, CloseFdsStdin, CloseFdsOut,
                    KillDescendant, KillChild, WriteSome, WriteReturns, CloseStdinFd, handleVars
      <3>2. tpc[t] # "null" /\ (tpc' = tpc \/ \E to : tpc' = [tpc EXCEPT ![t] = to])
        BY <2>3 DEF Proceed, Call, GetExitStatus, TryGetExitStatus, Destroy, KillBegins,
                    WriteBegins, CloseStdin, WaitReturns, Query, Join, CloseFdsStdin, CloseFdsOut,
                    KillDescendant, KillChild, WriteSome, WriteReturns, callerVars
      <3>. QED  BY <3>1, <3>2
    <2>. QED  BY <2>1, <2>2, <2>3
  <1>5. /\ Child \notin alive => Child \notin alive' /\ code' = code
        /\ Child \notin alive' => code' # NoCode
    <2> USE DEF WaiterInv
    <2>1. CASE KillChild(t)
      BY <2>1 DEF KillChild, Ends, Terminated, NoCode
    <2>2. CASE KillDescendant(t)
      BY <2>2 DEF KillDescendant, Ends, ChildInv
    <2>3. CASE ~KillChild(t) /\ ~KillDescendant(t)
      BY <2>3 DEF Proceed, Call, GetExitStatus, TryGetExitStatus, Destroy, KillBegins, WriteBegins,
                  CloseStdin, WaitReturns, Query, CloseHandle, SetClosed, Join, CloseFdsStdin,
                  CloseFdsOut, WriteSome, WriteReturns, Quiet, childVars
    <2>. QED  BY <2>1, <2>2, <2>3
  <1>6. WaiterInv'
    <2>1. /\ tpc'[t] \notin {"idle", "kill", "write"} => t \in Waiters
          /\ tpc'[t] \in {"query", "close", "null"} => Child \notin alive
      BY DEF WaiterInv, Proceed, Call, GetExitStatus, TryGetExitStatus, Destroy, KillBegins,
             WriteBegins, CloseStdin, WaitReturns, Query, CloseHandle, SetClosed, Join,
             CloseFdsStdin, CloseFdsOut, KillDescendant, KillChild, WriteSome, WriteReturns,
             callerVars
    <2>2. \A u \in Callers \ {t} : tpc'[u] = tpc[u]
      BY DEF Proceed, Call, GetExitStatus, TryGetExitStatus, Destroy, KillBegins, WriteBegins,
             CloseStdin, WaitReturns, Query, CloseHandle, SetClosed, Join, CloseFdsStdin,
             CloseFdsOut, KillDescendant, KillChild, WriteSome, WriteReturns, callerVars
    <2>. QED  BY <1>5, <2>1, <2>2 DEF WaiterInv
  <1>. QED  BY <1>2, <1>3, <1>4, <1>6

LEMMA IInvNext == IInv /\ [Next]_vars => IInv'
  <1> SUFFICES ASSUME IInv, [Next]_vars PROVE IInv'
    OBVIOUS
  <1>1. CASE UNCHANGED vars
    BY <1>1
    DEF vars, childVars, readerVars, handleVars, pipeVars, callerVars, IInv, TypeOK, ChildInv,
        StreamInv, CloserInv, LockInv, HandleInv, WaiterInv, AtEnd
  <1>2. CASE Outsider
    BY <1>2, TypeOKOutsider, StreamInvOthers, CallersOthers DEF IInv
  <1>3. CASE ReaderMoves
    BY <1>3, TypeOKReader, StreamInvReader, CallersOthers DEF IInv
  <1>4. CASE Called
    BY <1>4, TypeOKCalled, StreamInvOthers, CallersCalled DEF IInv, Called
  <1>. QED  BY <1>1, <1>2, <1>3, <1>4, StepsAre

(* The invariant holds in every reachable state. *)
THEOREM Invariance == Spec => []IInv
  BY IInvInit, IInvNext, PTL DEF Spec

(* The state of a Process is always of its type. *)
THEOREM TypeCorrect == Spec => []TypeOK
  BY Invariance, PTL DEF IInv

(* kill has the open handle of the process, write that of stdin, and the    *)
(* threads those of the outputs, with any number of callers.                *)
THEOREM HandlesAreOpen == Spec => []NoUseAfterClose
  <1>1. IInv => NoUseAfterClose
    <2> SUFFICES ASSUME IInv, NEW t \in Callers, tpc[t] = "kill" PROVE handle = "open"
      BY DEF IInv, CloserInv, LockInv, NoUseAfterClose, TypeOK
    <2>1. closeMutex = t /\ ~closed
      BY DEF IInv, LockInv
    <2>2. \A u \in Callers : tpc[u] # "null"
      BY <2>1 DEF IInv, LockInv
    <2>. QED  BY <2>1, <2>2 DEF IInv, HandleInv
  <1>. QED  BY <1>1, Invariance, PTL

-----------------------------------------------------------------------------
(* The status, with a single waiter w. *)

(* Between the test of the handle and its closing nobody else closes it;    *)
(* what data.exit_status holds then, and what w was told, is the code of    *)
(* the child, and the output has ended.                                     *)
StatusInv(w) ==
  /\ tpc[w] \in {"wait", "query", "close"} => handle = "open" /\ ~closed
  /\ tpc[w] = "null" => ~closed
  /\ handle # "open" => closed \/ tpc[w] = "null"
  /\ handle = "null" => closed
  /\ closed => handle = "null" /\ exitStatus = code /\ Child \notin alive
  /\ tpc[w] \in {"close", "null"} => exitStatus = code
  /\ tpc[w] \in {"close", "null"} => own[w] \in {NotYet, code}
  /\ tpc[w] \in {"join", "stdin", "fds"} => own[w] = NotYet \/ (closed /\ own[w] = code)
  /\ tpc[w] = "query" => own[w] \in {NotYet, Running}
  /\ tpc[w] \in {"idle", "wait", "kill", "write"} => own[w] = NotYet
  /\ closed /\ tpc[w] # "join" => reading = {}
  /\ Returned(w) => closed /\ result[w] = code /\ reading = {}

LEMMA StatusInvInit ==
  ASSUME NEW w \in Callers
  PROVE  Init => StatusInv(w)
  BY DEF Init, StatusInv, Returned

(* It stays while w rests and the handle is left alone. *)
LEMMA StatusInvStays ==
  ASSUME NEW w \in Callers, StatusInv(w), WaiterInv,
         UNCHANGED <<handle, exitStatus, closed>>, UNCHANGED <<own[w], result[w]>>,
         \/ tpc'[w] = tpc[w]
         \/ {tpc[w], tpc'[w]} \subseteq {"idle", "kill", "write"},
         reading = {} => reading' = {},
         Child \notin alive => Child \notin alive' /\ code' = code
  PROVE  StatusInv(w)'
  <1>1. closed \/ tpc[w] \in {"close", "null"} \/ Returned(w) => Child \notin alive
    BY DEF StatusInv, WaiterInv
  <1>2. own[w] # NotYet => tpc[w] \notin {"idle", "wait", "kill", "write"}
    BY DEF StatusInv
  <1>3. Returned(w)' => closed /\ result'[w] = code' /\ reading' = {}
    BY <1>1 DEF StatusInv, Returned
  <1>4. closed => handle = "null" /\ exitStatus = code' /\ Child \notin alive'
    BY <1>1 DEF StatusInv
  <1>5. tpc'[w] \in {"close", "null"} => exitStatus = code' /\ own[w] \in {NotYet, code'}
    BY <1>1 DEF StatusInv
  <1>6. tpc'[w] \in {"join", "stdin", "fds"} => own[w] = NotYet \/ (closed /\ own[w] = code')
    BY <1>1 DEF StatusInv
  <1>. QED
    BY <1>2, <1>3, <1>4, <1>5, <1>6 DEF StatusInv

LEMMA StatusInvOthers ==
  ASSUME IInv, NEW w \in Callers, StatusInv(w), Outsider \/ ReaderMoves
  PROVE  StatusInv(w)'
  <1>1. UNCHANGED <<handleVars, pipeVars, callerVars>>
    BY DEF Outsider, ChildStep, Output, Input, Spawn, DescendantExits, Exit, ReaderMoves,
           ReaderStep, Read, StreamCloses, Outside
  <1>2. reading = {} => reading' = {}
    BY StreamInvOthers, StreamInvReader DEF IInv
  <1>3. Child \notin alive => Child \notin alive' /\ code' = code
    BY DEF IInv, TypeOK, Outsider, ChildStep, Output, Input, Spawn, DescendantExits, Exit, Ends,
           ReaderMoves, ReaderStep, Read, StreamCloses, Child, childVars
  <1>. QED
    BY <1>1, <1>2, <1>3, StatusInvStays DEF IInv, handleVars, callerVars

LEMMA StatusInvCalled ==
  ASSUME IInv, NEW w \in Callers, Waiters = {w}, StatusInv(w),
         NEW t \in Callers, Proceed(t) \/ Call(t)
  PROVE  StatusInv(w)'
  <1> USE DEF IInv, TypeOK, Goto, Return, StatusInv, Returned
  <1>1. reading' = reading
    BY StreamInvOthers DEF Called
  <1>2. CASE KillDescendant(t)
    <2>1. Child \notin alive => Child \notin alive' /\ code' = code
      BY <1>2 DEF KillDescendant, Ends
    <2>. QED  BY <1>1, <1>2, <2>1, StatusInvStays DEF KillDescendant, handleVars
  <1>3. CASE KillChild(t)
    <2>1. Child \notin alive => Child \notin alive' /\ code' = code
      BY <1>3 DEF KillChild
    <2>2. tpc'[w] = tpc[w] \/ {tpc[w], tpc'[w]} \subseteq {"idle", "kill", "write"}
      BY <1>3 DEF KillChild
    <2>. QED  BY <1>1, <1>3, <2>1, <2>2, StatusInvStays DEF KillChild
  <1>4. CASE KillBegins(t) \/ CloseStdin(t) \/ WriteSome(t) \/ WriteReturns(t)
             \/ \E n \in 1 .. MaxWrite : WriteBegins(t, n)
    BY <1>1, <1>4 DEF KillBegins, CloseStdin, CloseStdinFd, WriteSome, WriteReturns, WriteBegins,
                      Quiet, childVars, handleVars, callerVars
  <1>5. CASE GetExitStatus(t)
    BY <1>1, <1>5 DEF GetExitStatus, Quiet, childVars, handleVars
  <1>6. CASE TryGetExitStatus(t)
    BY <1>1, <1>6 DEF TryGetExitStatus, Quiet, childVars, handleVars, NotYet, Running
  <1>7. CASE Destroy(t)
    <2>1. ~closed /\ tpc[w] = "idle" /\ own[w] = NotYet /\ tpc'[w] \in {"idle", "join"}
      BY <1>7 DEF Destroy
    <2>2. UNCHANGED <<handle, closed, own, result>>
      BY <1>7 DEF Destroy, handleVars
    <2>. QED  BY <2>1, <2>2
  <1>8. CASE \/ WaitReturns(t) \/ Query(t) \/ CloseHandle(t) \/ SetClosed(t) \/ Join(t)
             \/ CloseFdsStdin(t) \/ CloseFdsOut(t)
    <2>1. t = w
      BY <1>8 DEF WaitReturns, Query, CloseHandle, SetClosed, Join, CloseFdsStdin, CloseFdsOut,
                  WaiterInv
    <2>2. CASE WaitReturns(w)
      BY <1>1, <2>2 DEF WaitReturns, Quiet, childVars, handleVars
    <2>3. CASE Query(w)
      BY <1>1, <2>3 DEF Query, Quiet, childVars
    <2>4. CASE CloseHandle(w)
      BY <1>1, <2>4 DEF CloseHandle, Quiet, childVars
    <2>5. CASE SetClosed(w)
      <3>1. /\ exitStatus = code /\ own[w] \in {NotYet, code} /\ Child \notin alive
            /\ ~Returned(w)
        BY <2>5 DEF SetClosed, WaiterInv
      <3>2. /\ tpc'[w] = "join" /\ handle' = "null" /\ closed'
            /\ UNCHANGED <<exitStatus, code, alive, own, result>>
        BY <2>5 DEF SetClosed, Quiet, childVars
      <3>. QED  BY <3>1, <3>2
    <2>6. CASE Join(w) \/ CloseFdsStdin(w)
      BY <1>1, <2>6 DEF Join, CloseFdsStdin, CloseStdinFd, Quiet, childVars, handleVars, CloserInv
    <2>7. CASE CloseFdsOut(w)
      BY <1>1, <2>7 DEF CloseFdsOut, Quiet, childVars, handleVars, CloserInv
    <2>. QED  BY <1>8, <2>1, <2>2, <2>3, <2>4, <2>5, <2>6, <2>7
  <1>. QED  BY <1>2, <1>3, <1>4, <1>5, <1>6, <1>7, <1>8 DEF Proceed, Call

LEMMA StatusInvNext ==
  ASSUME NEW w \in Callers, Waiters = {w}
  PROVE  IInv /\ StatusInv(w) /\ [Next]_vars => StatusInv(w)'
  <1> SUFFICES ASSUME IInv, StatusInv(w), [Next]_vars PROVE StatusInv(w)'
    OBVIOUS
  <1>1. CASE UNCHANGED vars
    BY <1>1 DEF vars, childVars, readerVars, handleVars, pipeVars, callerVars, StatusInv, Returned
  <1>. QED  BY <1>1, StepsAre, StatusInvOthers, StatusInvCalled DEF Called

(* A single waiter is told the status of the child, after all its output,   *)
(* whoever kills and writes meanwhile.                                      *)
THEOREM StatusComesLast ==
  ASSUME NEW w \in Callers, Waiters = {w}
  PROVE  Spec => []StatusAfterOutput
  <1>1. IInv /\ StatusInv(w) => StatusAfterOutput
    BY DEF IInv, StreamInv, StatusInv, StatusAfterOutput
  <1>2. Spec => []StatusInv(w)
    <2>1. Init => StatusInv(w)
      BY StatusInvInit
    <2>2. IInv /\ StatusInv(w) /\ [Next]_vars => StatusInv(w)'
      BY StatusInvNext
    <2>. QED  BY <2>1, <2>2, Invariance, PTL DEF Spec
  <1>. QED  BY <1>1, <1>2, Invariance, PTL
-----------------------------------------------------------------------------
(* Process::open, for any number of Process objects that are opened at once *)
(* and any choice of their streams.                                         *)
(*                                                                          *)
(* Both properties follow from what an end is at each place of its own open *)
(* (EndInv), from the mutex (MutexInv), and from who may have inherited a   *)
(* near end: only a near end that was left inheritable by an open that      *)
(* failed (InheritInv), as every other is made uninheritable under the      *)
(* mutex that it was created under.                                         *)

Creating == {"pipe", "inherit", "create"}
Leaving == {"unlock", "close"}

(* create_process_mutex is held from the first pipe to the last failure. *)
MutexInv == \A p \in Processes : mutex = p <=> opc[p] \in Creating \cup {"unlock"}

(* There is a child as soon as open succeeded. *)
OpenChildInv == \A p \in Processes : /\ cpc[p] # "none" => opc[p] \in Leaving \cup {"opened", "closed"}
                                     /\ opc[p] = "opened" => cpc[p] # "none"

(* The pipes are made one by one. *)
TodoInv == \A p \in Processes : /\ opc[p] = "lock" => todo[p] = Piped
                                /\ opc[p] \in {"pipe", "inherit"} => todo[p] # {}
                                /\ opc[p] = "create" => todo[p] = {}

(* Whether the pipe of a stream has been made, as long as no call failed. *)
Made(p, s) == s \notin todo[p] \/ (opc[p] = "inherit" /\ s = NextStream(p))

(* Which of the ends of a stream the program holds, and which of these the  *)
(* Handle objects will close, at each place of open.                        *)
EndInv ==
  \A p \in Processes, s \in Piped :
    /\ opc[p] = "lock" => /\ Near(p, s) \notin handles /\ Far(p, s) \notin handles
                          /\ Near(p, s) \notin owned[p] /\ Far(p, s) \notin owned[p]
    /\ opc[p] \in Creating => /\ Near(p, s) \in handles <=> Made(p, s)
                              /\ Far(p, s) \in handles <=> Made(p, s)
                              /\ Near(p, s) \in owned[p] <=> Made(p, s)
                              /\ Far(p, s) \in owned[p] <=> Made(p, s)
    /\ opc[p] \in Leaving =>
         /\ Far(p, s) \in handles <=> Far(p, s) \in owned[p]
         /\ cpc[p] = "none" => (Near(p, s) \in handles <=> Near(p, s) \in owned[p])
         /\ cpc[p] # "none" => Near(p, s) \in handles /\ Near(p, s) \notin owned[p]
    /\ opc[p] = "opened" => Near(p, s) \in handles /\ Far(p, s) \notin handles
    /\ opc[p] \in {"failed", "closed"} => Near(p, s) \notin handles /\ Far(p, s) \notin handles

(* A Handle object of one open closes no end of another. *)
OwnedInv == \A p, q \in Processes, s \in Piped :
              p # q => Near(q, s) \notin owned[p] /\ Far(q, s) \notin owned[p]

(* A near end is inheritable between the two calls that make it, and if the *)
(* second or a later one failed; only in that case can a child have it.     *)
InheritInv ==
  \A p \in Processes, s \in Piped :
    /\ Near(p, s) \in inheritable =>
         \/ opc[p] = "inherit" /\ s = NextStream(p)
         \/ opc[p] \in Leaving /\ cpc[p] = "none"
    /\ \A q \in Processes : Near(p, s) \in held[q] =>
         cpc[p] = "none" /\ opc[p] \in Leaving \cup {"failed", "closed"}

OpenIInv == /\ OpenTypeOK /\ MutexInv /\ OpenChildInv /\ TodoInv
            /\ EndInv /\ OwnedInv /\ InheritInv
-----------------------------------------------------------------------------
(* An end is near or far, of one process and one stream. *)
LEMMA EndsDiffer ==
  ASSUME NEW p, NEW q, NEW s, NEW t
  PROVE  /\ Near(p, s) = Near(q, t) <=> p = q /\ s = t
         /\ Far(p, s) = Far(q, t) <=> p = q /\ s = t
         /\ Near(p, s) # Far(q, t)
  BY DEF Near, Far

(* The stream whose pipe is made next is one that has none yet. *)
LEMMA NextStreamIsToDo ==
  ASSUME OpenTypeOK, NEW p \in Processes, todo[p] # {}
  PROVE  NextStream(p) \in todo[p] /\ NextStream(p) \in Piped
  BY WinOpenAssumption DEF OpenTypeOK, NextStream

LEMMA OpenIInvInit == OpenInit => OpenIInv
  BY WinOpenAssumption DEF OpenInit, OpenIInv, OpenTypeOK, MutexInv, OpenChildInv, TodoInv, EndInv, OwnedInv,
     InheritInv, Creating

LEMMA KeepLock ==
  ASSUME OpenIInv, NEW p \in Processes, Lock(p)
  PROVE  OpenIInv'
  <1> USE DEF OpenIInv, OpenTypeOK, Lock, OpenGoto
  <1>1. OpenTypeOK'
    OBVIOUS
  <1>2. MutexInv'
    BY WinOpenAssumption DEF MutexInv, Creating
  <1>3. OpenChildInv'
    BY DEF OpenChildInv, Leaving
  <1>4. TodoInv'
    BY DEF TodoInv
  <1>5. EndInv'
    BY DEF EndInv, TodoInv, Made, NextStream, Leaving
  <1>6. OwnedInv'
    BY DEF OwnedInv
  <1>7. InheritInv'
    BY DEF InheritInv, Leaving, NextStream
  <1>. QED  BY <1>1, <1>2, <1>3, <1>4, <1>5, <1>6, <1>7

LEMMA KeepCreatePipe ==
  ASSUME OpenIInv, NEW p \in Processes, CreatePipe(p)
  PROVE  OpenIInv'
  <1> USE DEF OpenIInv, OpenTypeOK, CreatePipe, OpenGoto
  <1>0. NextStream(p) \in Piped
    BY NextStreamIsToDo DEF TodoInv
  <1>1. OpenTypeOK'
    BY <1>0 DEF PipeEnds
  <1>2. MutexInv'
    BY DEF MutexInv, Creating
  <1>3. OpenChildInv'
    BY DEF OpenChildInv, Leaving
  <1>4. TodoInv'
    BY DEF TodoInv
  <1>5. EndInv'
    BY EndsDiffer DEF EndInv, Made, NextStream, Creating, Leaving
  <1>6. OwnedInv'
    BY EndsDiffer DEF OwnedInv
  <1>7. InheritInv'
    BY EndsDiffer DEF InheritInv, Leaving, NextStream
  <1>. QED  BY <1>1, <1>2, <1>3, <1>4, <1>5, <1>6, <1>7

LEMMA KeepSetHandleInformation ==
  ASSUME OpenIInv, NEW p \in Processes, SetHandleInformation(p)
  PROVE  OpenIInv'
  <1> USE DEF OpenIInv, OpenTypeOK, SetHandleInformation, OpenGoto
  <1>1. OpenTypeOK'
    OBVIOUS
  <1>2. MutexInv'
    BY DEF MutexInv, Creating
  <1>3. OpenChildInv'
    BY DEF OpenChildInv, Leaving
  <1>4. TodoInv'
    BY DEF TodoInv
  <1>5. EndInv'
    BY DEF EndInv, Made, NextStream, Creating, Leaving
  <1>6. OwnedInv'
    BY DEF OwnedInv
  <1>7. InheritInv'
    BY DEF InheritInv, Leaving, NextStream
  <1>. QED  BY <1>1, <1>2, <1>3, <1>4, <1>5, <1>6, <1>7

LEMMA KeepCreateProcess ==
  ASSUME OpenIInv, NEW p \in Processes, CreateProcess(p)
  PROVE  OpenIInv'
  <1> USE DEF OpenIInv, OpenTypeOK, CreateProcess, OpenGoto
  <1>1. OpenTypeOK'
    OBVIOUS
  <1>2. MutexInv'
    BY DEF MutexInv, Creating
  <1>3. OpenChildInv'
    BY DEF OpenChildInv, Leaving
  <1>4. TodoInv'
    BY DEF TodoInv
  <1>5. EndInv'
    BY EndsDiffer DEF EndInv, TodoInv, Made, NextStream, Creating
  <1>6. OwnedInv'
    BY DEF OwnedInv
  <1>7. InheritInv'
    BY DEF InheritInv, MutexInv, Creating, Leaving
  <1>. QED  BY <1>1, <1>2, <1>3, <1>4, <1>5, <1>6, <1>7

LEMMA KeepFail ==
  ASSUME OpenIInv, NEW p \in Processes, Fail(p)
  PROVE  OpenIInv'
  <1> USE DEF OpenIInv, OpenTypeOK, Fail, OpenGoto
  <1>0. cpc[p] = "none"
    BY DEF OpenChildInv, Leaving
  <1>1. OpenTypeOK'
    OBVIOUS
  <1>2. MutexInv'
    BY DEF MutexInv, Creating
  <1>3. OpenChildInv'
    BY DEF OpenChildInv, Leaving
  <1>4. TodoInv'
    BY DEF TodoInv
  <1>5. EndInv'
    BY <1>0 DEF EndInv, Made, NextStream, Creating, Leaving
  <1>6. OwnedInv'
    BY DEF OwnedInv
  <1>7. InheritInv'
    BY <1>0 DEF InheritInv, Leaving, NextStream
  <1>. QED  BY <1>1, <1>2, <1>3, <1>4, <1>5, <1>6, <1>7

LEMMA KeepUnlock ==
  ASSUME OpenIInv, NEW p \in Processes, Unlock(p)
  PROVE  OpenIInv'
  <1> USE DEF OpenIInv, OpenTypeOK, Unlock, OpenGoto
  <1>1. OpenTypeOK'
    OBVIOUS
  <1>2. MutexInv'
    BY WinOpenAssumption DEF MutexInv, Creating
  <1>3. OpenChildInv'
    BY DEF OpenChildInv, Leaving
  <1>4. TodoInv'
    BY DEF TodoInv
  <1>5. EndInv'
    BY DEF EndInv, Made, NextStream, Creating, Leaving
  <1>6. OwnedInv'
    BY DEF OwnedInv
  <1>7. InheritInv'
    BY DEF InheritInv, Leaving, NextStream
  <1>. QED  BY <1>1, <1>2, <1>3, <1>4, <1>5, <1>6, <1>7

LEMMA KeepCloseOwned ==
  ASSUME OpenIInv, NEW p \in Processes, CloseOwned(p)
  PROVE  OpenIInv'
  <1> USE DEF OpenIInv, OpenTypeOK, CloseOwned, OpenGoto
  <1>1. OpenTypeOK'
    BY DEF CloseHandles
  <1>2. MutexInv'
    BY DEF MutexInv, Creating
  <1>3. OpenChildInv'
    BY DEF OpenChildInv
  <1>4. TodoInv'
    BY DEF TodoInv
  <1>5. EndInv'
    BY DEF EndInv, OwnedInv, Made, NextStream, Creating, Leaving, CloseHandles
  <1>6. OwnedInv'
    BY DEF OwnedInv
  <1>7. InheritInv'
    BY DEF InheritInv, EndInv, CloseHandles, NextStream
  <1>. QED  BY <1>1, <1>2, <1>3, <1>4, <1>5, <1>6, <1>7

LEMMA KeepChildExits ==
  ASSUME OpenIInv, NEW p \in Processes, ChildExits(p)
  PROVE  OpenIInv'
  <1> USE DEF OpenIInv, OpenTypeOK, ChildExits, OpenGoto
  <1>1. OpenTypeOK'
    OBVIOUS
  <1>2. MutexInv'
    BY DEF MutexInv
  <1>3. OpenChildInv'
    BY DEF OpenChildInv
  <1>4. TodoInv'
    BY DEF TodoInv
  <1>5. EndInv'
    BY DEF EndInv, Made, NextStream
  <1>6. OwnedInv'
    BY DEF OwnedInv
  <1>7. InheritInv'
    BY DEF InheritInv, NextStream
  <1>. QED  BY <1>1, <1>2, <1>3, <1>4, <1>5, <1>6, <1>7

LEMMA KeepCloseFds ==
  ASSUME OpenIInv, NEW p \in Processes, CloseFds(p)
  PROVE  OpenIInv'
  <1> USE DEF OpenIInv, OpenTypeOK, CloseFds, OpenGoto
  <1>1. OpenTypeOK'
    BY DEF CloseHandles
  <1>2. MutexInv'
    BY DEF MutexInv, Creating
  <1>3. OpenChildInv'
    BY DEF OpenChildInv
  <1>4. TodoInv'
    BY DEF TodoInv
  <1>5. EndInv'
    BY EndsDiffer DEF EndInv, Made, NextStream, Creating, Leaving, CloseHandles
  <1>6. OwnedInv'
    BY DEF OwnedInv
  <1>7. InheritInv'
    BY DEF InheritInv, CloseHandles, NextStream
  <1>. QED  BY <1>1, <1>2, <1>3, <1>4, <1>5, <1>6, <1>7

LEMMA OpenIInvNext == OpenIInv /\ [OpenNext]_openVars => OpenIInv'
  <1> SUFFICES ASSUME OpenIInv, [OpenNext]_openVars PROVE OpenIInv'
    OBVIOUS
  <1>1. CASE UNCHANGED openVars
    BY <1>1 DEF openVars, OpenIInv, OpenTypeOK, MutexInv, OpenChildInv, TodoInv, EndInv, OwnedInv, InheritInv,
       Made, NextStream
  <1>2. ASSUME NEW p \in Processes, OpenStep(p) \/ ChildExits(p) \/ CloseFds(p) PROVE OpenIInv'
    BY <1>2, KeepLock, KeepCreatePipe, KeepSetHandleInformation, KeepCreateProcess, KeepFail,
       KeepUnlock, KeepCloseOwned, KeepChildExits, KeepCloseFds DEF OpenStep
  <1>. QED  BY <1>1, <1>2 DEF OpenNext

(* The inductive invariant holds in every reachable state. *)
THEOREM OpenInvariance == OpenSpec => []OpenIInv
  <1>. QED  BY OpenIInvInit, OpenIInvNext, PTL DEF OpenSpec

(* Type correctness: the handles that are inheritable are open ones, and    *)
(* what is held, owned and to do is of the processes there are.             *)
THEOREM OpenTypeCorrect == OpenSpec => []OpenTypeOK
  <1>1. OpenIInv => OpenTypeOK
    BY DEF OpenIInv
  <1>. QED  BY <1>1, OpenInvariance, PTL

(* create_process_mutex does what it is for: no child holds the program's   *)
(* end of a pipe of a process that was started.                             *)
THEOREM ChildrenGetFarEndsOnly == OpenSpec => []NoChildHoldsNearEnds
  <1>1. OpenIInv => NoChildHoldsNearEnds
    BY DEF OpenIInv, InheritInv, NoChildHoldsNearEnds
  <1>. QED  BY <1>1, OpenInvariance, PTL

(* Whatever call of open fails, and in whichever order several open and     *)
(* close their processes, the handles that are left are the near ends of    *)
(* the processes that are open.                                             *)
THEOREM HandlesAreClosed == OpenSpec => []NoHandleLeak
  <1>1. ASSUME OpenIInv, NEW p \in Processes, opc[p] \in {"opened", "failed", "closed"}
        PROVE  {e \in handles : e[1] = p}
                 = IF opc[p] = "opened" THEN {Near(p, s) : s \in Piped} ELSE {}
    <2>1. \A s \in Piped : Far(p, s) \notin handles
      BY <1>1 DEF OpenIInv, EndInv
    <2>2. \A s \in Piped : Near(p, s) \in handles <=> opc[p] = "opened"
      BY <1>1 DEF OpenIInv, EndInv
    <2>3. \A e \in handles : e[1] = p => \E s \in Piped : e = Near(p, s)
      <3>1. \A e \in handles : \E q \in Processes, s \in Piped : e = Near(q, s) \/ e = Far(q, s)
        BY <1>1 DEF OpenIInv, OpenTypeOK, PipeEnds
      <3>. QED  BY <2>1, <3>1 DEF Near, Far
    <2>4. \A s \in Piped : Near(p, s)[1] = p
      BY DEF Near
    <2>. QED  BY <2>2, <2>3, <2>4
  <1>2. ASSUME OpenIInv, \A p \in Processes : opc[p] \in {"lock", "opened", "failed", "closed"}
        PROVE  inheritable = {}
    <2>1. \A p \in Processes, s \in Piped : Far(p, s) \notin handles
      BY <1>2 DEF OpenIInv, EndInv
    <2>2. \A p \in Processes, s \in Piped : Near(p, s) \notin inheritable
      BY <1>2 DEF OpenIInv, InheritInv, Leaving
    <2>3. inheritable \subseteq PipeEnds /\ inheritable \subseteq handles
      BY <1>2 DEF OpenIInv, OpenTypeOK
    <2>. QED  BY <2>1, <2>2, <2>3 DEF PipeEnds
  <1>3. OpenIInv => NoHandleLeak
    BY <1>1, <1>2 DEF NoHandleLeak
  <1>. QED  BY <1>3, OpenInvariance, PTL
=============================================================================
