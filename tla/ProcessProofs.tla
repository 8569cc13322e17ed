---------------------------- MODULE ProcessProofs ----------------------------
(***************************************************************************)
(* Proofs about ProcessClients, for every set of callers, streams and       *)
(* bounds: no descriptor is used after it is closed, signals do not go      *)
(* astray, and who alone asks for the status gets the child's, after its    *)
(* output.  Then about Task, which is one of these clients.                 *)
(*                                                                          *)
(* The last part is about ProcessOpen: the program holds its ends of the    *)
(* pipes of those that run and of no other, a write goes to the stdin of    *)
(* the child, and the children hold their ends.  The two share no state.    *)
(***************************************************************************)
EXTENDS ProcessClients, Task, ProcessOpen, Sequences, FiniteSetTheorems, WellFoundedInduction, TLAPS

ReaderEnded == reader \in {"none", "done"} /\ ~calling

(* A stream is read until it has ended, and closed once. *)
StreamInv ==
  /\ \A s \in reading : closeCalls[s] = 0
  /\ \A s \in Streams \ reading : closeCalls[s] = 1 /\ AtEnd(s)
  /\ \A s \in Streams : revents[s] = "hup" => AtEnd(s)
  /\ reader \in {"none", "done"} => reading = {}

(* Who is past the join of the reader finds that it has ended. *)
CloserInv ==
  /\ \A t \in Callers : tpc[t] \in {"stdin", "fds", "destroyed"} => ReaderEnded
  /\ ~outOpen => ReaderEnded

(* kill and write hold their mutex, under which they have looked. *)
LockInv ==
  \A t \in Callers : /\ tpc[t] = "kill" => closeMutex = t /\ ~closed
                     /\ tpc[t] = "write" => stdinMutex = t /\ stdinOpen

(* Only waiters wait, and one of them has set, or is about to set, closed   *)
(* when the child has been collected.                                       *)
WaiterInv ==
  /\ \A t \in Callers : tpc[t] \notin {"idle", "kill", "write", "signalled"} => t \in Waiters
  /\ child = "reaped" => closed \/ \E t \in Waiters : tpc[t] \in {"store", "close"}

(* A child that has ended runs no more and has a status. *)
ChildInv == /\ "child" \in alive => child = "running"
            /\ child # "running" => raw # -1

IInv == TypeOK /\ StreamInv /\ CloserInv /\ LockInv /\ WaiterInv /\ ChildInv

-----------------------------------------------------------------------------
(* The callers are known, and the names of places are none of theirs. *)
LEMMA Roles == /\ Waiters \subseteq Callers /\ Killers \subseteq Callers /\ Writers \subseteq Callers
               /\ Nobody \notin Callers
               /\ MaxOut \in Nat /\ MaxWrite \in Nat /\ PipeSize \in Nat
               /\ OpenStdin \in BOOLEAN
  BY RolesAssumption, ProcessAssumption

(* The statuses there are, as they are stored. *)
LEMMA SampledType ==
  ASSUME raw \in ExitCodes \cup {Signal, -1}, raw # -1
  PROVE  Sampled \in {0, 2, Signal} /\ Sampled # -1
  BY DEF Sampled, ExitCodes, Signal

(* The steps of the child, of the reader and of the callers. *)
Outsider == ChildStep
ReaderMoves == PollInterrupted \/ ReaderStep \/ CallbackReturns
Called == \E t \in Callers : Proceed(t) \/ Call(t)

LEMMA StepsAre == [Next]_vars => Outsider \/ ReaderMoves \/ Called \/ UNCHANGED vars
  BY DEF Next, Outsider, ReaderMoves, Called

LEMMA IInvInit == Init => IInv
  <1> SUFFICES ASSUME Init PROVE IInv
    OBVIOUS
  <1>1. TypeOK
    <2>1. /\ {reused, stray, calling, closed, stdinOpen, outOpen} \subseteq BOOLEAN
          /\ {closeMutex, stdinMutex} \subseteq Callers \cup {Nobody}
          /\ reader \in {"none", "poll", "scan", "done"}
      BY Roles DEF Init
    <2>2. /\ writers \in [Streams -> SUBSET alive]
          /\ written \in [Streams -> 0 .. MaxOut] /\ delivered \in [Streams -> 0 .. MaxOut]
          /\ revents \in [Streams -> {"none", "in", "hup"}]
          /\ closeCalls \in [Streams -> Nat]
          /\ inPipe \in 0 .. PipeSize
      BY Roles DEF Init
    <2>3. /\ tpc \in [Callers -> {"idle", "wait", "store", "close", "join", "stdin",
                                  "fds", "kill", "write", "destroyed", "aborted", "signalled"}]
          /\ left \in [Callers -> 0 .. MaxWrite]
          /\ result \in [Callers -> {NotYet, -1, 0, 2, Signal}]
      BY Roles DEF Init
    <2>. QED  BY <2>1, <2>2, <2>3 DEF Init, TypeOK
  <1>2. StreamInv /\ CloserInv /\ LockInv /\ WaiterInv /\ ChildInv
    BY DEF Init, StreamInv, CloserInv, LockInv, WaiterInv, ChildInv, ReaderEnded
  <1>. QED  BY <1>1, <1>2 DEF IInv

-----------------------------------------------------------------------------
(* Type correctness. *)

(* What ends leaves its pipes. *)
LEMMA EndsKeepsTypes ==
  ASSUME TypeOK, NEW ps, Ends(ps)
  PROVE  /\ alive' \subseteq {"child", "descendant"} /\ inReaders' \subseteq alive'
         /\ writers' \in [Streams -> SUBSET alive']
  BY DEF Ends, TypeOK

LEMMA TypeOKOutsider == TypeOK /\ Outsider => TypeOK'
  <1> SUFFICES ASSUME TypeOK, Outsider PROVE TypeOK'
    OBVIOUS
  <1> USE DEF Outside, readerVars, objectVars, callerVars
  <1>1. ASSUME NEW q \in alive, NEW s \in Streams, Output(q, s) PROVE TypeOK'
    BY <1>1, Roles DEF Output, TypeOK
  <1>2. ASSUME NEW q \in alive, NEW s \in Streams, CloseOutput(q, s) PROVE TypeOK'
    BY <1>2 DEF CloseOutput, TypeOK
  <1>3. ASSUME NEW q \in alive, Input(q) PROVE TypeOK'
    BY <1>3, Roles DEF Input, TypeOK, kernelVars
  <1>4. CASE Spawn
    BY <1>4 DEF Spawn, TypeOK
  <1>5. CASE DescendantExits
    BY <1>5, EndsKeepsTypes DEF DescendantExits, TypeOK
  <1>6. CASE ReusePid
    BY <1>6 DEF ReusePid, TypeOK
  <1>7. ASSUME NEW code \in ExitCodes, Exit(code) PROVE TypeOK'
    BY <1>7, EndsKeepsTypes DEF Exit, Dies, TypeOK
  <1>. QED  BY <1>1, <1>2, <1>3, <1>4, <1>5, <1>6, <1>7 DEF Outsider, ChildStep

LEMMA TypeOKReader == TypeOK /\ ReaderMoves => TypeOK'
  <1> SUFFICES ASSUME TypeOK, ReaderMoves PROVE TypeOK'
    OBVIOUS
  <1> USE DEF kernelVars, objectVars, callerVars
  <1>1. CASE Poll
    <2>1. revents' \in [Streams -> {"none", "in", "hup"}]
      BY <1>1 DEF Poll
    <2>. QED  BY <1>1, <2>1 DEF Poll, TypeOK
  <1>2. CASE PollInterrupted
    BY <1>2 DEF PollInterrupted, TypeOK
  <1>3. ASSUME NEW s \in Streams, Read(s) \/ StreamCloses(s) \/ NothingToRead(s) PROVE TypeOK'
    <2>1. /\ reader' \in {"scan", "poll", "done"}
          /\ toScan' = toScan \ {s} /\ (reading' = reading \/ reading' = reading \ {s})
          /\ UNCHANGED <<kernelVars, inPipe, revents, objectVars, callerVars>>
      BY <1>3 DEF Read, StreamCloses, NothingToRead, ScanEnds
    <2>2. closeCalls' \in [Streams -> Nat]
      BY <1>3 DEF Read, StreamCloses, NothingToRead, TypeOK
    <2>3. delivered' \in [Streams -> 0 .. MaxOut]
      BY <1>3, Roles DEF Read, StreamCloses, NothingToRead, TypeOK
    <2>4. calling' \in BOOLEAN
      BY <1>3 DEF Read, StreamCloses, NothingToRead, InCallback, TypeOK
    <2>. QED  BY <2>1, <2>2, <2>3, <2>4 DEF TypeOK
  <1>4. CASE CallbackReturns
    BY <1>4 DEF CallbackReturns, TypeOK
  <1>. QED  BY <1>1, <1>2, <1>3, <1>4 DEF ReaderMoves, ReaderStep

LEMMA TypeOKCalled == TypeOK /\ Called => TypeOK'
  <1> SUFFICES ASSUME TypeOK, NEW t \in Callers, Proceed(t) \/ Call(t) PROVE TypeOK'
    BY DEF Called
  <1> USE DEF Quiet, kernelVars, readerVars, objectVars, callerVars, Goto, Return
  <1>1. CASE GetExitStatus(t)
    BY <1>1 DEF GetExitStatus, TypeOK
  <1>2. CASE TryGetExitStatus(t)
    BY <1>1, <1>2 DEF TryGetExitStatus
  <1>3. CASE Destroy(t)
    BY <1>3 DEF Destroy, TypeOK
  <1>4. CASE KillBegins(t)
    BY <1>4 DEF KillBegins, TypeOK
  <1>5. CASE CloseStdin(t)
    BY <1>5 DEF CloseStdin, CloseStdinFd, TypeOK
  <1>6. ASSUME NEW n \in 1 .. MaxWrite, WriteBegins(t, n) PROVE TypeOK'
    <2>1. n \in 0 .. MaxWrite
      BY Roles
    <2>. QED  BY <1>6, <2>1 DEF WriteBegins, TypeOK
  <1>7. CASE Reap(t)
    BY <1>7 DEF Reap, TypeOK
  <1>8. CASE NoChild(t)
    BY <1>8 DEF NoChild, TypeOK
  <1>9. CASE Store(t)
    BY <1>9, SampledType DEF Store, TypeOK, Sampled, ExitCodes, Signal
  <1>10. CASE SetClosed(t) \/ Join(t) \/ JoinSelf(t)
    <2>1. tpc' \in [Callers -> {"idle", "wait", "store", "close", "join", "stdin",
                                "fds", "kill", "write", "destroyed", "aborted", "signalled"}]
      BY <1>10 DEF SetClosed, Join, JoinSelf, TypeOK
    <2>2. /\ closed' \in BOOLEAN
          /\ UNCHANGED <<Quiet, exitStatus, closeMutex, stdinMutex, stdinOpen, outOpen, left, result>>
      BY <1>10 DEF SetClosed, Join, JoinSelf, TypeOK
    <2>. QED  BY <2>1, <2>2 DEF TypeOK
  <1>11. CASE CloseFdsStdin(t)
    <2>1. tpc' \in [Callers -> {"idle", "wait", "store", "close", "join", "stdin",
                                "fds", "kill", "write", "destroyed", "aborted", "signalled"}]
      BY <1>11 DEF CloseFdsStdin, TypeOK
    <2>2. /\ stdinOpen' \in BOOLEAN
          /\ UNCHANGED <<Quiet, exitStatus, closed, closeMutex, stdinMutex, outOpen, left, result>>
      BY <1>11 DEF CloseFdsStdin, CloseStdinFd, TypeOK
    <2>. QED  BY <2>1, <2>2 DEF TypeOK
  <1>12. CASE CloseFdsOut(t)
    <2>1. tpc' \in [Callers -> {"idle", "wait", "store", "close", "join", "stdin",
                                "fds", "kill", "write", "destroyed", "aborted", "signalled"}]
      BY <1>12 DEF CloseFdsOut, TypeOK
    <2>2. result' \in [Callers -> {NotYet, -1, 0, 2, Signal}]
      BY <1>12 DEF CloseFdsOut, TypeOK
    <2>3. /\ outOpen' \in BOOLEAN
          /\ UNCHANGED <<Quiet, exitStatus, closed, closeMutex, stdinMutex, stdinOpen, left>>
      BY <1>12 DEF CloseFdsOut
    <2>. QED  BY <2>1, <2>2, <2>3 DEF TypeOK
  <1>13. CASE KillSends(t)
    <2>1. PICK victims \in SUBSET alive :
             /\ Ends(victims)
             /\ \/ Dies(Signal)
                \/ UNCHANGED <<child, raw>>
      BY <1>13 DEF KillSends
    <2>2. /\ child' \in {"running", "zombie", "reaped"}
          /\ raw' \in ExitCodes \cup {Signal, -1}
      BY <2>1 DEF Dies, TypeOK
    <2>. QED  BY <1>13, <2>1, <2>2, EndsKeepsTypes DEF KillSends, TypeOK
  <1>14. CASE WriteSome(t)
    <2>1. PICK n \in 1 .. left[t] : /\ inPipe + n <= PipeSize
                                    /\ inPipe' = inPipe + n
                                    /\ left' = [left EXCEPT ![t] = @ - n]
      BY <1>14 DEF WriteSome
    <2>2. inPipe' \in 0 .. PipeSize /\ left' \in [Callers -> 0 .. MaxWrite]
      BY <2>1, Roles DEF TypeOK
    <2>. QED  BY <1>14, <2>2 DEF WriteSome, TypeOK
  <1>15. CASE WriteReturns(t)
    BY <1>15, Roles DEF WriteReturns, TypeOK
  <1>16. CASE WriteSignalled(t)
    BY <1>16 DEF WriteSignalled, TypeOK
  <1>. QED
    BY <1>1, <1>2, <1>3, <1>4, <1>5, <1>6, <1>7, <1>8, <1>9, <1>10, <1>11, <1>12, <1>13, <1>14,
       <1>15, <1>16 DEF Proceed, Call

-----------------------------------------------------------------------------
(* The streams. *)

(* Nothing more is written to what has ended. *)
EndsLast == \A s \in Streams : AtEnd(s) => AtEnd(s)'

LEMMA OutsiderEndsLast == TypeOK /\ Outsider => EndsLast
  <1> SUFFICES ASSUME TypeOK, Outsider, NEW s \in Streams, AtEnd(s) PROVE AtEnd(s)'
    BY DEF EndsLast
  <1> USE DEF AtEnd, Outside, readerVars, TypeOK
  <1>1. ASSUME NEW q \in alive, NEW r \in Streams, Output(q, r) \/ CloseOutput(q, r) \/ Input(q)
        PROVE  AtEnd(s)'
    BY <1>1 DEF Output, CloseOutput, Input, kernelVars
  <1>2. CASE Spawn
    BY <1>2 DEF Spawn
  <1>3. CASE DescendantExits \/ ReusePid \/ \E code \in ExitCodes : Exit(code)
    BY <1>3 DEF DescendantExits, ReusePid, Exit, Ends
  <1>. QED  BY <1>1, <1>2, <1>3 DEF Outsider, ChildStep

LEMMA CalledEndsLast == TypeOK /\ Called => EndsLast
  <1> SUFFICES ASSUME NEW t \in Callers, TypeOK, Proceed(t) \/ Call(t), NEW s \in Streams, AtEnd(s)
               PROVE  AtEnd(s)'
    BY DEF Called, EndsLast
  <1>1. CASE KillSends(t)
    BY <1>1 DEF KillSends, Ends, AtEnd, readerVars, TypeOK
  <1>2. CASE ~KillSends(t)
    <2>1. UNCHANGED <<writers, written, delivered>>
      BY <1>2
      DEF Proceed, Call, GetExitStatus, TryGetExitStatus, Destroy, KillBegins, CloseStdin,
          WriteBegins, Reap, NoChild, Store, SetClosed, Join, JoinSelf, CloseFdsStdin, CloseFdsOut,
          WriteSome, WriteReturns, WriteSignalled, Quiet, kernelVars, readerVars
    <2>. QED  BY <2>1 DEF AtEnd
  <1>. QED  BY <1>1, <1>2

(* What the child and the callers do is no concern of the reader's. *)
LEMMA StreamInvOthers ==
  ASSUME TypeOK, StreamInv, Outsider \/ Called
  PROVE  StreamInv' /\ (ReaderEnded' <=> ReaderEnded)
  <1>1. EndsLast
    BY OutsiderEndsLast, CalledEndsLast
  <1>2. UNCHANGED <<reader, calling, reading, revents, closeCalls>>
    BY DEF Outsider, ChildStep, Output, CloseOutput, Input, Spawn, DescendantExits, ReusePid, Exit,
           Called, Proceed, Call, GetExitStatus, TryGetExitStatus, Destroy, KillBegins, KillSends,
           CloseStdin, WriteBegins, Reap, NoChild, Store, SetClosed, Join, JoinSelf, CloseFdsStdin,
           CloseFdsOut, WriteSome, WriteReturns, WriteSignalled, Quiet, Outside, readerVars
  <1>. QED  BY <1>1, <1>2 DEF StreamInv, EndsLast, ReaderEnded, TypeOK

(* The reader goes on while it has streams, and ends with the last one. *)
LEMMA StreamInvReader ==
  ASSUME TypeOK, StreamInv, ReaderMoves
  PROVE  StreamInv' /\ ~ReaderEnded
  <1> USE DEF StreamInv, ReaderEnded, TypeOK
  <1>1. CASE Poll
    <2>1. \A s \in Streams : revents'[s] = "hup" => s \in reading /\ "hup" \in Polled(s)
      BY <1>1 DEF Poll
    <2>2. \A s \in Streams : revents'[s] = "hup" => AtEnd(s)
      BY <2>1 DEF Polled
    <2>. QED  BY <1>1, <2>2 DEF Poll, AtEnd, kernelVars
  <1>2. CASE PollInterrupted
    BY <1>2 DEF PollInterrupted, AtEnd, kernelVars
  <1>3. ASSUME NEW s \in Streams, Read(s) \/ StreamCloses(s) \/ NothingToRead(s)
        PROVE  StreamInv' /\ ~ReaderEnded
    <2>1. /\ reader = "scan" /\ s \in reading
          /\ reader' = "done" => reading' = {}
          /\ reader' \in {"scan", "poll", "done"}
          /\ UNCHANGED <<written, writers, revents>>
      BY <1>3 DEF Read, StreamCloses, NothingToRead, ScanEnds, kernelVars
    <2>2. CASE Read(s)
      BY <2>1, <2>2 DEF Read, AtEnd
    <2>3. CASE StreamCloses(s)
      <3>1. AtEnd(s) /\ delivered' = delivered
        BY <2>3 DEF StreamCloses
      <3>. QED  BY <2>1, <2>3, <3>1 DEF StreamCloses, AtEnd
    <2>4. CASE NothingToRead(s)
      BY <2>1, <2>4 DEF NothingToRead, AtEnd
    <2>. QED  BY <1>3, <2>2, <2>3, <2>4
  <1>4. CASE CallbackReturns
    BY <1>4 DEF CallbackReturns, AtEnd, kernelVars
  <1>. QED  BY <1>1, <1>2, <1>3, <1>4 DEF ReaderMoves, ReaderStep

-----------------------------------------------------------------------------
(* The callers. *)

LEMMA CallersOthers ==
  ASSUME IInv, Outsider \/ ReaderMoves
  PROVE  CloserInv' /\ LockInv' /\ WaiterInv' /\ ChildInv'
  <1>1. UNCHANGED <<objectVars, callerVars>>
    BY DEF Outsider, ChildStep, Output, CloseOutput, Input, Spawn, DescendantExits, ReusePid, Exit,
           ReaderMoves, PollInterrupted, ReaderStep, Poll, Read, StreamCloses, NothingToRead,
           ScanEnds, CallbackReturns, Outside
  <1>2. ReaderEnded => ReaderEnded'
    BY StreamInvOthers, StreamInvReader DEF IInv
  <1>3. CloserInv' /\ LockInv'
    BY <1>1, <1>2 DEF IInv, CloserInv, LockInv, objectVars, callerVars
  <1>4. child' = "reaped" => child = "reaped"
    BY DEF Outsider, ChildStep, Output, CloseOutput, Input, Spawn, DescendantExits, ReusePid, Exit,
           Dies, ReaderMoves, PollInterrupted, ReaderStep, Poll, Read, StreamCloses, NothingToRead,
           ScanEnds, CallbackReturns, kernelVars
  <1>5. WaiterInv'
    BY <1>1, <1>4 DEF IInv, WaiterInv, objectVars, callerVars
  <1>6. ChildInv'
    <2> USE DEF IInv, ChildInv
    <2>1. CASE ReaderMoves
      BY <2>1 DEF ReaderMoves, PollInterrupted, ReaderStep, Poll, Read, StreamCloses,
                  NothingToRead, ScanEnds, CallbackReturns, kernelVars
    <2>2. CASE \E code \in ExitCodes : Exit(code)
      BY <2>2 DEF Exit, Ends, Dies, ExitCodes
    <2>3. CASE Spawn
      BY <2>3 DEF Spawn
    <2>4. CASE Outsider /\ ~Spawn /\ ~\E code \in ExitCodes : Exit(code)
      BY <2>4 DEF Outsider, ChildStep, Output, CloseOutput, Input, DescendantExits, ReusePid, Ends,
                  kernelVars
    <2>. QED  BY <2>1, <2>2, <2>3, <2>4
  <1>. QED  BY <1>3, <1>5, <1>6

LEMMA CallersCalled ==
  ASSUME IInv, NEW t \in Callers, Proceed(t) \/ Call(t)
  PROVE  CloserInv' /\ LockInv' /\ WaiterInv' /\ ChildInv'
  <1> USE Roles DEF IInv, TypeOK, Goto, Return
  <1>1. UNCHANGED <<reader, calling>>
    BY DEF Proceed, Call, GetExitStatus, TryGetExitStatus, Destroy, KillBegins, KillSends,
           CloseStdin, WriteBegins, Reap, NoChild, Store, SetClosed, Join, JoinSelf, CloseFdsStdin,
           CloseFdsOut, WriteSome, WriteReturns, WriteSignalled, Quiet, readerVars
  <1>2. CloserInv'
    BY <1>1 DEF CloserInv, ReaderEnded, Proceed, Call, GetExitStatus, TryGetExitStatus, Destroy,
           KillBegins, KillSends, CloseStdin, CloseStdinFd, WriteBegins, Reap, NoChild, Store,
           SetClosed, Join, JoinSelf, CloseFdsStdin, CloseFdsOut, WriteSome, WriteReturns, WriteSignalled,
           objectVars, callerVars
  <1>3. LockInv'
    BY DEF LockInv, Proceed, Call, GetExitStatus, TryGetExitStatus, Destroy,
           KillBegins, KillSends, CloseStdin, CloseStdinFd, WriteBegins, Reap, NoChild, Store,
           SetClosed, Join, JoinSelf, CloseFdsStdin, CloseFdsOut, WriteSome, WriteReturns, WriteSignalled,
           objectVars, callerVars
  <1>4. WaiterInv'
    <2> USE DEF WaiterInv
    <2>1. CASE Reap(t)
      BY <2>1 DEF Reap, objectVars
    <2>2. CASE SetClosed(t)
      BY <2>2 DEF SetClosed, Quiet, kernelVars
    <2>3. CASE KillSends(t)
      <3>1. child' = "reaped" => child = "reaped"
        BY <2>3 DEF KillSends, Dies
      <3>. QED  BY <2>3, <3>1 DEF KillSends
    <2>4. CASE ~(Reap(t) \/ SetClosed(t) \/ KillSends(t))
      <3>1. UNCHANGED <<child, closed>>
        BY <2>4 DEF Proceed, Call, GetExitStatus, TryGetExitStatus, Destroy, KillBegins,
               CloseStdin, CloseStdinFd, WriteBegins, NoChild, Store, Join, JoinSelf,
               CloseFdsStdin, CloseFdsOut, WriteSome, WriteReturns, WriteSignalled, Quiet, kernelVars, objectVars
      <3>2. /\ tpc' = tpc \/ \E to : tpc' = [tpc EXCEPT ![t] = to]
            /\ tpc[t] \in {"store", "close"} => tpc' = [tpc EXCEPT ![t] = "close"]
            /\ tpc'[t] \notin {"idle", "kill", "write", "signalled"} => t \in Waiters
        BY <2>4 DEF Proceed, Call, GetExitStatus, TryGetExitStatus, Destroy, KillBegins,
               CloseStdin, CloseStdinFd, WriteBegins, NoChild, Store, Join, JoinSelf,
               CloseFdsStdin, CloseFdsOut, WriteSome, WriteReturns, WriteSignalled, callerVars
      <3>. QED  BY <3>1, <3>2
    <2>. QED  BY <2>1, <2>2, <2>3, <2>4
  <1>5. ChildInv'
    <2> USE DEF ChildInv
    <2>1. CASE Reap(t)
      BY <2>1 DEF Reap
    <2>2. CASE KillSends(t)
      BY <2>2 DEF KillSends, Dies, Ends, Signal
    <2>3. CASE ~(Reap(t) \/ KillSends(t))
      BY <2>3 DEF Proceed, Call, GetExitStatus, TryGetExitStatus, Destroy, KillBegins,
             CloseStdin, WriteBegins, NoChild, Store, SetClosed, Join, JoinSelf, CloseFdsStdin,
             CloseFdsOut, WriteSome, WriteReturns, WriteSignalled, Quiet, kernelVars
    <2>. QED  BY <2>1, <2>2, <2>3
  <1>. QED  BY <1>2, <1>3, <1>4, <1>5

LEMMA IInvNext == IInv /\ [Next]_vars => IInv'
  <1> SUFFICES ASSUME IInv, [Next]_vars PROVE IInv'
    OBVIOUS
  <1>1. CASE UNCHANGED vars
    BY <1>1
    DEF vars, kernelVars, readerVars, objectVars, callerVars, IInv, TypeOK, StreamInv, CloserInv,
        LockInv, WaiterInv, ChildInv, ReaderEnded, AtEnd
  <1>2. CASE Outsider
    BY <1>2, TypeOKOutsider, StreamInvOthers, CallersOthers DEF IInv
  <1>3. CASE ReaderMoves
    BY <1>3, TypeOKReader, StreamInvReader, CallersOthers DEF IInv
  <1>4. CASE Called
    BY <1>4, TypeOKCalled, StreamInvOthers, CallersCalled DEF IInv, Called
  <1>. QED  BY <1>1, <1>2, <1>3, <1>4, StepsAre

(* The invariant holds in every reachable state. *)
THEOREM Invariance == Spec => []IInv
  BY IInvInit, IInvNext, PTL DEF Spec

(* The state of a Process is always of its type. *)
THEOREM TypeCorrect == Spec => []TypeOK
  BY Invariance, PTL DEF IInv

(* No descriptor is read or written after another thread has closed it,     *)
(* with any number of waiters, killers and writers.                         *)
THEOREM DescriptorsAreOpen == Spec => []NoUseAfterClose
  <1>1. IInv => NoUseAfterClose
    BY DEF IInv, CloserInv, LockInv, NoUseAfterClose, ReaderEnded
  <1>. QED  BY <1>1, Invariance, PTL

(* No kill goes to a stranger but between waitpid and the setting of        *)
(* closed.                                                                  *)
THEOREM NoSignalGoesAstray == Spec => SignalsReachTheChild
  <1>1. ASSUME IInv, [Next]_vars, stray', ~stray
        PROVE  \E t \in Waiters : tpc[t] \in {"store", "close"}
    <2>1. PICK t \in Callers : KillSends(t)
      <3>1. stray' # stray
        BY <1>1
      <3>. QED
        BY <1>1, <3>1
        DEF Next, ChildStep, Output, CloseOutput, Input, Spawn, DescendantExits, ReusePid, Exit,
            PollInterrupted, ReaderStep, Poll, Read, StreamCloses, NothingToRead, ScanEnds,
            CallbackReturns, Proceed, Call, GetExitStatus, TryGetExitStatus, Destroy, KillBegins,
            CloseStdin, WriteBegins, Reap, NoChild, Store, SetClosed, Join, JoinSelf, CloseFdsStdin, CloseFdsOut,
            WriteSome, WriteReturns, WriteSignalled, Quiet, kernelVars, vars
    <2>2. tpc[t] = "kill" /\ child = "reaped"
      BY <1>1, <2>1 DEF KillSends, Goto
    <2>3. ~closed
      BY <1>1, <2>2 DEF IInv, LockInv
    <2>. QED  BY <1>1, <2>2, <2>3 DEF IInv, WaiterInv
  <1>2. IInv /\ [Next]_vars =>
          [stray' /\ ~stray => \E t \in Waiters : tpc[t] \in {"store", "close"}]_vars
    BY <1>1
  <1>. QED  BY <1>2, Invariance, PTL DEF Spec, SignalsReachTheChild

-----------------------------------------------------------------------------
(* The status. *)

(* Who has collected the child, or destroys the object. *)
Closing(t) == tpc[t] \in {"store", "close", "join", "stdin", "fds", "destroyed", "aborted"}

(* Who asks for the status, or was told it. *)
Asks(t) == tpc[t] \notin {"idle", "kill", "write", "signalled"} \/ Returned(t)

(* The status is stored once, after somebody has collected the child; who   *)
(* is told it is told what was stored, if nobody else asks.                 *)
StatusInv ==
  /\ exitStatus # -1 => child = "reaped" /\ exitStatus = Sampled
  /\ \A t \in Waiters : tpc[t] = "store" => child = "reaped"
  /\ child = "reaped" => \E t \in Waiters : Closing(t) \/ Returned(t)
  /\ \A t \in Waiters : Returned(t) =>
       /\ child = "reaped"
       /\ AsksAlone(t) => result[t] = Sampled /\ exitStatus = Sampled /\ ReaderEnded

LEMMA StatusInvInit == Init => StatusInv
  BY Roles DEF Init, StatusInv, Returned

(* Once collected, the child has its status for good. *)
LEMMA SampledStays ==
  ASSUME IInv, [Next]_vars, child = "reaped"
  PROVE  child' = "reaped" /\ Sampled' = Sampled
  <1>1. CASE \E t \in Callers : KillSends(t)
    BY <1>1 DEF KillSends, Dies, IInv, ChildInv, Sampled
  <1>2. CASE ~\E t \in Callers : KillSends(t)
    <2>1. UNCHANGED <<child, raw>>
      BY <1>2
      DEF Next, ChildStep, Output, CloseOutput, Input, Spawn, DescendantExits, ReusePid, Exit,
          PollInterrupted, ReaderStep, Poll, Read, StreamCloses, NothingToRead, ScanEnds,
          CallbackReturns, Proceed, Call, GetExitStatus, TryGetExitStatus, Destroy, KillBegins,
          CloseStdin, WriteBegins, Reap, NoChild, Store, SetClosed, Join, JoinSelf, CloseFdsStdin,
          CloseFdsOut, WriteSome, WriteReturns, WriteSignalled, Quiet, kernelVars, vars
    <2>. QED  BY <2>1 DEF Sampled
  <1>. QED  BY <1>1, <1>2

(* Who asks, goes on asking until it is told. *)
LEMMA AskingLasts ==
  ASSUME IInv, NEW t \in Callers, Proceed(t) \/ Call(t), NEW u \in Callers
  PROVE  /\ Asks(u) => Asks(u)'
         /\ Closing(u) \/ Returned(u) => (Closing(u) \/ Returned(u))'
         /\ Returned(u) => Returned(u)'
  <1> USE DEF IInv, TypeOK, Goto, Return, Asks, Closing, Returned
  <1>1. CASE NoChild(t)
    BY <1>1 DEF NoChild, NotYet, Signal
  <1>2. CASE CloseFdsOut(t)
    BY <1>2 DEF CloseFdsOut, NotYet, Signal
  <1>3. CASE ~(NoChild(t) \/ CloseFdsOut(t))
    <2>1. result' = result
      BY <1>3 DEF Proceed, Call, GetExitStatus, TryGetExitStatus, Destroy, KillBegins, KillSends,
             CloseStdin, WriteBegins, Reap, Store, SetClosed, Join, JoinSelf, CloseFdsStdin,
             WriteSome, WriteReturns, WriteSignalled, callerVars
    <2>2. u = t \/ tpc'[u] = tpc[u]
      BY <1>3 DEF Proceed, Call, GetExitStatus, TryGetExitStatus, Destroy, KillBegins, KillSends,
             CloseStdin, WriteBegins, Reap, Store, SetClosed, Join, JoinSelf, CloseFdsStdin,
             WriteSome, WriteReturns, WriteSignalled, callerVars
    <2>3. /\ Asks(t) => Asks(t)'
          /\ Closing(t) => Closing(t)'
      BY <1>3, <2>1 DEF Proceed, Call, GetExitStatus, TryGetExitStatus, Destroy, KillBegins, KillSends,
             CloseStdin, WriteBegins, Reap, Store, SetClosed, Join, JoinSelf, CloseFdsStdin,
             WriteSome, WriteReturns, WriteSignalled, callerVars
    <2>. QED  BY <2>1, <2>2, <2>3
  <1>. QED  BY <1>1, <1>2, <1>3

LEMMA StatusInvOthers ==
  ASSUME IInv, StatusInv, Outsider \/ ReaderMoves, [Next]_vars
  PROVE  StatusInv'
  <1>1. UNCHANGED <<objectVars, callerVars>>
    BY DEF Outsider, ChildStep, Output, CloseOutput, Input, Spawn, DescendantExits, ReusePid, Exit,
           ReaderMoves, PollInterrupted, ReaderStep, Poll, Read, StreamCloses, NothingToRead,
           ScanEnds, CallbackReturns, Outside
  <1>2. ReaderEnded => ReaderEnded'
    BY StreamInvOthers, StreamInvReader DEF IInv
  <1>3. child' = "reaped" => child = "reaped"
    BY DEF Outsider, ChildStep, Output, CloseOutput, Input, Spawn, DescendantExits, ReusePid, Exit,
           Dies, ReaderMoves, PollInterrupted, ReaderStep, Poll, Read, StreamCloses, NothingToRead,
           ScanEnds, CallbackReturns, kernelVars
  <1>. QED  BY <1>1, <1>2, <1>3, SampledStays
            DEF StatusInv, Returned, Closing, AsksAlone, objectVars, callerVars

LEMMA StatusInvCalled ==
  ASSUME IInv, StatusInv, NEW t \in Callers, Proceed(t) \/ Call(t), [Next]_vars
  PROVE  StatusInv'
  <1> USE DEF IInv, TypeOK, Goto, Return
  <1>1. UNCHANGED <<reader, calling>>
    BY DEF Proceed, Call, GetExitStatus, TryGetExitStatus, Destroy, KillBegins, KillSends,
           CloseStdin, WriteBegins, Reap, NoChild, Store, SetClosed, Join, JoinSelf, CloseFdsStdin,
           CloseFdsOut, WriteSome, WriteReturns, WriteSignalled, Quiet, readerVars
  <1>2. /\ exitStatus' # -1 => child' = "reaped" /\ exitStatus' = Sampled'
        /\ exitStatus # -1 => exitStatus' = exitStatus
    <2>1. CASE Store(t)
      <3>1. child = "reaped" /\ exitStatus' = Sampled
        BY <2>1 DEF Store, StatusInv, WaiterInv
      <3>. QED  BY <3>1, SampledStays DEF StatusInv
    <2>2. CASE ~Store(t)
      <3>1. exitStatus' = exitStatus
        BY <2>2 DEF Proceed, Call, GetExitStatus, TryGetExitStatus, Destroy, KillBegins, KillSends,
               CloseStdin, CloseStdinFd, WriteBegins, Reap, NoChild, SetClosed, Join, JoinSelf,
               CloseFdsStdin, CloseFdsOut, WriteSome, WriteReturns, WriteSignalled, Quiet, objectVars
      <3>. QED  BY <3>1, SampledStays DEF StatusInv
    <2>. QED  BY <2>1, <2>2
  <1>3. \A u \in Waiters : tpc'[u] = "store" => child' = "reaped"
    <2>1. CASE Reap(t)
      BY <2>1 DEF Reap
    <2>2. CASE ~Reap(t)
      <3>1. \A u \in Callers : tpc'[u] = "store" => tpc[u] = "store"
        BY <2>2 DEF Proceed, Call, GetExitStatus, TryGetExitStatus, Destroy, KillBegins, KillSends,
               CloseStdin, WriteBegins, NoChild, Store, SetClosed, Join, JoinSelf, CloseFdsStdin,
               CloseFdsOut, WriteSome, WriteReturns, WriteSignalled, callerVars
      <3>. QED  BY <3>1, Roles, SampledStays DEF StatusInv
    <2>. QED  BY <2>1, <2>2
  <1>4. child' = "reaped" => (\E u \in Waiters : Closing(u) \/ Returned(u))'
    <2>1. CASE Reap(t)
      BY <2>1 DEF Reap, Closing, WaiterInv
    <2>2. CASE ~Reap(t)
      <3>1. child' = "reaped" => child = "reaped"
        BY <2>2 DEF Proceed, Call, GetExitStatus, TryGetExitStatus, Destroy, KillBegins, KillSends,
               Dies, CloseStdin, WriteBegins, NoChild, Store, SetClosed, Join, JoinSelf, CloseFdsStdin,
               CloseFdsOut, WriteSome, WriteReturns, WriteSignalled, Quiet, kernelVars
      <3>. QED  BY <3>1, AskingLasts, Roles DEF StatusInv
    <2>. QED  BY <2>1, <2>2
  <1>5. ASSUME NEW u \in Waiters, Returned(u)'
        PROVE  child' = "reaped" /\ (AsksAlone(u)' =>
                 result'[u] = Sampled' /\ exitStatus' = Sampled' /\ ReaderEnded')
    <2> u \in Callers
      BY Roles
    <2>1. AsksAlone(u)' => AsksAlone(u)
      BY AskingLasts, Roles DEF AsksAlone, Asks
    <2>2. CASE Returned(u) /\ result'[u] = result[u]
      <3>1. child = "reaped"
        BY <2>2 DEF StatusInv
      <3>2. AsksAlone(u) => result[u] = Sampled /\ exitStatus = Sampled /\ ReaderEnded
        BY <2>2 DEF StatusInv
      <3>3. raw # -1
        BY <3>1 DEF ChildInv
      <3>. QED  BY <1>1, <1>2, <2>1, <2>2, <3>1, <3>2, <3>3, SampledStays, SampledType DEF ReaderEnded
    <2>3. CASE NoChild(t) /\ t = u
      <3>1. child = "reaped" /\ result'[u] = exitStatus /\ tpc[u] = "wait"
        BY <2>3 DEF NoChild
      <3>2. PICK v \in Waiters : Closing(v) \/ Returned(v)
        BY <3>1 DEF StatusInv
      <3>3. CASE v # u
        <4>1. ~AsksAlone(u)
          BY <3>2, <3>3 DEF AsksAlone, Closing
        <4>. QED  BY <2>1, <3>1, <4>1, SampledStays
      <3>4. CASE v = u
        <4>1. Returned(u)
          BY <3>1, <3>2, <3>4 DEF Closing
        <4>2. AsksAlone(u) => exitStatus = Sampled /\ ReaderEnded
          BY <4>1 DEF StatusInv
        <4>3. raw # -1
          BY <3>1 DEF ChildInv
        <4>. QED  BY <1>1, <1>2, <2>1, <3>1, <4>2, <4>3, SampledStays, SampledType DEF ReaderEnded
      <3>. QED  BY <3>3, <3>4
    <2>4. CASE CloseFdsOut(t) /\ t = u /\ exitStatus # -1
      <3>1. child = "reaped" /\ exitStatus = Sampled
        BY <2>4 DEF StatusInv
      <3>2. result'[u] = exitStatus /\ ReaderEnded
        BY <2>4 DEF CloseFdsOut, CloserInv
      <3>. QED  BY <1>1, <1>2, <2>4, <3>1, <3>2, SampledStays DEF ReaderEnded
    <2>5. \/ Returned(u) /\ result'[u] = result[u]
          \/ NoChild(t) /\ t = u
          \/ CloseFdsOut(t) /\ t = u /\ exitStatus # -1
      BY <1>5 DEF Returned, Proceed, Call, GetExitStatus, TryGetExitStatus, Destroy, KillBegins,
             KillSends, CloseStdin, WriteBegins, Reap, NoChild, Store, SetClosed, Join, JoinSelf,
             CloseFdsStdin, CloseFdsOut, WriteSome, WriteReturns, WriteSignalled, callerVars
    <2>. QED  BY <2>2, <2>3, <2>4, <2>5
  <1>. QED  BY <1>2, <1>3, <1>4, <1>5 DEF StatusInv

LEMMA StatusInvNext == IInv /\ StatusInv /\ [Next]_vars => StatusInv'
  <1> SUFFICES ASSUME IInv, StatusInv, [Next]_vars PROVE StatusInv'
    OBVIOUS
  <1>1. CASE UNCHANGED vars
    BY <1>1 DEF vars, kernelVars, readerVars, objectVars, callerVars, StatusInv, Returned, Sampled,
                Closing, AsksAlone, ReaderEnded
  <1>. QED  BY <1>1, StepsAre, StatusInvOthers, StatusInvCalled DEF Called

(* Of any number of waiters, one that is told the status while no other     *)
(* asks, callbacks included, is told that of the child, after all its       *)
(* output, whoever kills and writes meanwhile.                              *)
THEOREM StatusComesLast == Spec => []StatusAfterOutput
  <1>1. IInv /\ StatusInv => StatusAfterOutput
    BY DEF IInv, StreamInv, StatusInv, StatusAfterOutput, ReaderEnded
  <1>2. Spec => []StatusInv
    <2>1. Init => StatusInv
      BY StatusInvInit
    <2>2. IInv /\ StatusInv /\ [Next]_vars => StatusInv'
      BY StatusInvNext
    <2>. QED  BY <2>1, <2>2, Invariance, PTL DEF Spec
  <1>. QED  BY <1>1, <1>2, Invariance, PTL
-----------------------------------------------------------------------------
(* Task.  One that runs a command is a client of Process, the only waiter   *)
(* and the only writer, so that the theorems above hold of it; and with     *)
(* them, for requests, answers and pipes of any size and any of the         *)
(* commands, its response is complete.                                      *)

(* The caller asks for the status once, after its write. *)
CallInv ==
  /\ tpc[Caller] \notin {"kill", "destroyed", "aborted"}
  /\ step \in {"write", "writing"} => tpc[Caller] \in {"idle", "write", "signalled"}
  /\ step = "waiting" => tpc[Caller] \notin {"write", "signalled"} /\ (tpc[Caller] = "idle" => Returned(Caller))
  /\ step \in {"done", "failed"} => tpc[Caller] = "idle" /\ Returned(Caller)
  /\ tpc[Caller] \in {"store", "close", "join", "stdin", "fds"} => child = "reaped"
  /\ tpc[Caller] \in {"close", "join", "stdin", "fds"} => exitStatus # -1

(* No chunk of the request is read that was not written. *)
RequestInv == /\ step = "write" => got = 0 /\ inPipe = 0 /\ left[Caller] = 0
              /\ got + inPipe + left[Caller] <= Request

(* The status of the command tells whether it has failed, and one that has  *)
(* not has written its answer. *)
CommandInv ==
  child # "running" => \/ raw = 0 /\ command # "failing" /\ written["stdout"] = MaxOut
                       \/ raw = 512 /\ command = "failing"

TaskInv == TaskTypeOK /\ CallInv /\ RequestInv /\ CommandInv /\ ResponseIsComplete

(* What is shown above of a Process. *)
ObjectInv == IInv /\ StatusInv
-----------------------------------------------------------------------------
(* The roles that make Process' clients of the one caller. *)
Alone == TaskConstants /\ Waiters = {Caller} /\ Writers = {Caller}

LEMMA TaskValues ==
  ASSUME Alone
  PROVE  /\ Callers = {Caller} /\ Caller \in Callers /\ Reader # Caller
         /\ Request \in 1 .. MaxWrite /\ Request \in Nat
         /\ MaxOut \in Nat /\ MaxWrite \in Nat /\ PipeSize \in Nat
         /\ Streams = {"stdout", "stderr"}
         /\ OpenStdin
  <1>1. MaxOut \in Nat /\ MaxWrite \in Nat /\ PipeSize \in Nat
    BY ProcessAssumption
  <1>2. Request \in 1 .. MaxWrite
    BY DEF Alone, TaskConstants
  <1>3. Request \in Nat
    BY <1>1, <1>2
  <1>4. Caller \in Callers
    BY DEF Alone, TaskConstants
  <1>. QED  BY <1>1, <1>2, <1>3, <1>4 DEF Alone, TaskConstants

LEMMA CommandSteps ==
  ASSUME Alone, IInv, CommandStep
  PROVE  ChildStep
  <1>1. CASE Reads
    BY <1>1 DEF Reads, Input, ChildStep, IInv, TypeOK
  <1>2. CASE Answers \/ Complains
    <2>1. PICK s \in Streams : Output("child", s)
      BY <1>2, TaskValues DEF Answers, Complains
    <2>2. "child" \in alive
      BY <2>1 DEF Output, IInv, TypeOK
    <2>. QED  BY <2>1, <2>2 DEF ChildStep
  <1>3. CASE Succeeds \/ Fails
    BY <1>3 DEF Succeeds, Fails, ChildStep, ExitCodes
  <1>. QED  BY <1>1, <1>2, <1>3 DEF CommandStep

(* A step of Task is one of Process and its clients, or none. *)
LEMMA StepOfProcess ==
  ASSUME Alone, IInv, CallInv, [TaskNext]_allVars
  PROVE  [Next]_vars
  <1>. tpc[Caller] = "idle" => MayCall(Caller)
    BY TaskValues DEF CallInv, MayCall
  <1>1. CASE ~Ended /\ CommandStep
    BY <1>1, CommandSteps DEF Next
  <1>2. CASE ~Ended /\ (Write \/ AskStatus)
    <2>1. Call(Caller)
      BY <1>2, TaskValues DEF Write, AskStatus, Call, Alone
    <2>2. tpc[Caller] = "idle"
      BY <1>2 DEF Write, AskStatus, WriteBegins, GetExitStatus, Goto
    <2>. QED  BY <1>2, <2>1, <2>2, TaskValues DEF Next
  <1>3. CASE ~Ended /\ (InCall \/ ReadsOutput \/ Interrupted)
    BY <1>3, TaskValues DEF InCall, ReadsOutput, Interrupted, Next
  <1>4. CASE Take \/ UNCHANGED allVars
    BY <1>4 DEF Take, allVars
  <1>. QED  BY <1>1, <1>2, <1>3, <1>4 DEF TaskNext

LEMMA ObjectInvInit ==
  ASSUME Alone
  PROVE  TaskInit => ObjectInv
  BY IInvInit, StatusInvInit, TaskValues DEF TaskInit, ObjectInv

LEMMA ObjectInvNext ==
  ASSUME Alone, ObjectInv, CallInv, [TaskNext]_allVars
  PROVE  ObjectInv'
  BY StepOfProcess, IInvNext, StatusInvNext DEF ObjectInv

(* The one that asks, asks alone, and is told the status after the output. *)
LEMMA OneWaiter ==
  ASSUME Alone, ObjectInv
  PROVE  /\ Returned(Caller) => /\ child = "reaped" /\ ReaderEnded
                                /\ result[Caller] = Sampled /\ exitStatus = Sampled
         /\ child = "reaped" => Closing(Caller) \/ Returned(Caller)
  BY DEF Alone, ObjectInv, StatusInv, AsksAlone

-----------------------------------------------------------------------------
(* What is true of Task beyond its Process. *)

LEMMA TaskInvInit ==
  ASSUME Alone
  PROVE  TaskInit => TaskInv
  <1> SUFFICES ASSUME TaskInit PROVE TaskInv
    OBVIOUS
  <1>1. TypeOK
    BY IInvInit DEF TaskInit, IInv
  <1>2. TaskTypeOK
    BY <1>1, TaskValues DEF TaskInit, TaskTypeOK
  <1>. QED
    BY <1>2, TaskValues DEF TaskInit, TaskInv, Init, CallInv, RequestInv, CommandInv,
       ResponseIsComplete

LEMMA TaskInvCommand ==
  ASSUME Alone, ObjectInv, ObjectInv', TaskInv, CommandStep
  PROVE  TaskInv'
  <1> USE DEF TaskInv, TaskTypeOK, CallInv, RequestInv, CommandInv, ResponseIsComplete
  <1>1. TypeOK' /\ TypeOK /\ ChildInv
    BY DEF ObjectInv, IInv
  <1>2. CASE Reads
    BY <1>1, <1>2, TaskValues
    DEF Reads, Input, Outside, objectVars, callerVars, kernelVars, Returned, TypeOK
  <1>3. CASE Answers \/ Complains
    <2>1. PICK s \in Streams : Output("child", s)
      BY <1>3, TaskValues DEF Answers, Complains
    <2>2. child = "running"
      BY <1>1, <2>1 DEF Output, TypeOK, ChildInv
    <2>3. step \notin {"done", "failed"}
      BY <2>2, OneWaiter
    <2>. QED
      BY <1>1, <1>3, <2>1, <2>2, <2>3 DEF Answers, Complains, Output, Outside, callerVars,
         taskVars, Returned
  <1>4. CASE Succeeds \/ Fails
    <2>1. /\ child = "running" /\ child' = "zombie"
          /\ UNCHANGED <<command, got, step, taken, tpc, left, result, written, inPipe>>
      BY <1>4 DEF Succeeds, Fails, Exit, Dies, Outside, callerVars, taskVars
    <2>2. step \notin {"done", "failed"}
      BY <2>1, OneWaiter
    <2>3. CommandInv'
      <3>1. CASE Succeeds
        BY <2>1, <3>1 DEF Succeeds, Exit, Dies, MayAnswer
      <3>2. CASE Fails
        BY <2>1, <3>2 DEF Fails, Exit, Dies
      <3>. QED  BY <1>4, <3>1, <3>2
    <2>. QED  BY <1>1, <2>1, <2>2, <2>3 DEF Returned
  <1>. QED  BY <1>2, <1>3, <1>4 DEF CommandStep

LEMMA TaskInvReader ==
  ASSUME ObjectInv', TaskInv, ReadsOutput \/ Interrupted
  PROVE  TaskInv'
  <1>1. TypeOK'
    BY DEF ObjectInv, IInv
  <1>2. UNCHANGED <<kernelVars, inPipe, objectVars, callerVars, taskVars>>
    BY DEF ReadsOutput, Interrupted, PollInterrupted, ReaderStep, Poll, Read, StreamCloses,
       NothingToRead, ScanEnds
  <1>. QED
    BY <1>1, <1>2 DEF TaskInv, TaskTypeOK, CallInv, RequestInv, CommandInv, ResponseIsComplete,
       kernelVars, objectVars, callerVars, taskVars, Returned

LEMMA TaskInvInCall ==
  ASSUME Alone, ObjectInv, ObjectInv', TaskInv, InCall
  PROVE  TaskInv'
  <1> USE DEF TaskInv, TaskTypeOK, CallInv, RequestInv, CommandInv, ResponseIsComplete, Goto, Return
  <1>1. TypeOK' /\ TypeOK /\ ChildInv
    BY DEF ObjectInv, IInv
  <1>2. UNCHANGED taskVars
    BY DEF InCall
  <1>3. CASE Reap(Caller)
    BY <1>1, <1>2, <1>3 DEF Reap, taskVars
  <1>4. CASE NoChild(Caller) \/ CloseFdsOut(Caller)
    <2>1. child = "reaped" /\ exitStatus = Sampled /\ Sampled \in {0, 2, Signal}
      BY <1>1, <1>4, OneWaiter, SampledType
      DEF NoChild, CloseFdsOut, Closing, ObjectInv, StatusInv, TypeOK
    <2>2. Sampled # -1 /\ Sampled # NotYet
      BY <2>1 DEF NotYet, Signal
    <2>. QED
      BY <1>1, <1>2, <1>4, <2>1, <2>2 DEF NoChild, CloseFdsOut, Quiet, kernelVars, taskVars,
         Returned, TypeOK
  <1>5. CASE Store(Caller) \/ SetClosed(Caller) \/ Join(Caller) \/ CloseFdsStdin(Caller)
    <2>1. exitStatus' # -1
      <3>1. CASE Store(Caller)
        BY <1>1, <3>1, SampledType DEF Store, ChildInv, TypeOK
      <3>. QED
        BY <1>5, <3>1 DEF SetClosed, Join, CloseFdsStdin, CloseStdinFd, objectVars
    <2>. QED
      BY <1>1, <1>2, <1>5, <2>1, SMTT(30) DEF Store, SetClosed, Join, CloseFdsStdin, Quiet, kernelVars,
         taskVars, TypeOK
  <1>6. CASE WriteSome(Caller) \/ WriteReturns(Caller) \/ WriteSignalled(Caller)
    BY <1>1, <1>2, <1>6, TaskValues DEF WriteSome, WriteReturns, WriteSignalled, Quiet, kernelVars, taskVars,
       TypeOK
  <1>7. ~KillSends(Caller) /\ ~JoinSelf(Caller)
    BY TaskValues DEF KillSends, JoinSelf
  <1>. QED  BY <1>3, <1>4, <1>5, <1>6, <1>7 DEF InCall, Proceed

LEMMA TaskInvOwn ==
  ASSUME Alone, ObjectInv, ObjectInv', TaskInv, Write \/ AskStatus \/ Take
  PROVE  TaskInv'
  <1> USE DEF TaskInv, TaskTypeOK, CallInv, RequestInv, CommandInv, ResponseIsComplete, Goto
  <1>1. TypeOK' /\ TypeOK
    BY DEF ObjectInv, IInv
  <1>2. CASE Write
    BY <1>1, <1>2 DEF Write, WriteBegins, Quiet, kernelVars, TypeOK
  <1>3. CASE AskStatus
    BY <1>1, <1>3 DEF AskStatus, GetExitStatus, Quiet, kernelVars, TypeOK
  <1>4. CASE Take
    <2>1. Returned(Caller) /\ child = "reaped" /\ result[Caller] = Sampled
      BY <1>4, OneWaiter DEF Take
    <2>2. \A s \in Streams : delivered[s] = written[s]
      BY <2>1, OneWaiter DEF ReaderEnded, ObjectInv, IInv, StreamInv, AtEnd
    <2>3. result[Caller] = 0 <=> command # "failing"
      BY <2>1 DEF Sampled
    <2>. QED
      BY <1>1, <1>4, <2>1, <2>2, <2>3 DEF Take, vars, kernelVars, callerVars, Returned, TypeOK
  <1>. QED  BY <1>2, <1>3, <1>4

LEMMA TaskInvNext ==
  ASSUME Alone, ObjectInv, ObjectInv', TaskInv, [TaskNext]_allVars
  PROVE  TaskInv'
  <1>1. CASE UNCHANGED allVars
    BY <1>1 DEF allVars, vars, taskVars, kernelVars, objectVars, callerVars, ObjectInv, IInv,
       TaskInv, TaskTypeOK, CallInv, RequestInv, CommandInv, ResponseIsComplete, Returned
  <1>. QED
    BY <1>1, TaskInvCommand, TaskInvReader, TaskInvInCall, TaskInvOwn DEF TaskNext

-----------------------------------------------------------------------------
(* The invariants of Process and Task hold in every reachable state. *)
THEOREM TaskInvariance ==
  ASSUME Alone
  PROVE  TaskSpec => [](ObjectInv /\ TaskInv)
  <1>1. TaskInit => ObjectInv /\ TaskInv
    BY ObjectInvInit, TaskInvInit
  <1>2. ObjectInv /\ TaskInv /\ [TaskNext]_allVars => (ObjectInv /\ TaskInv)'
    BY ObjectInvNext, TaskInvNext DEF TaskInv
  <1>. QED  BY <1>1, <1>2, PTL DEF TaskSpec

(* Task is a client of Process: one that waits and writes, from one thread. *)
THEOREM TaskIsAClient ==
  ASSUME Alone
  PROVE  TaskSpec => Spec
  <1>1. TaskInit => Init
    BY DEF TaskInit
  <1>2. ObjectInv /\ TaskInv /\ [TaskNext]_allVars => [Next]_vars
    BY StepOfProcess DEF ObjectInv, TaskInv
  <1>. QED  BY <1>1, <1>2, TaskInvariance, PTL DEF TaskSpec, Spec

(* The state of Task is always of its type; so the command never reads more *)
(* than the request.                                                        *)
THEOREM TaskTypeCorrect ==
  ASSUME Alone
  PROVE  TaskSpec => []TaskTypeOK
  <1>1. TaskInv => TaskTypeOK
    BY DEF TaskInv
  <1>. QED  BY <1>1, TaskInvariance, PTL

(* What execute makes its response of is all that the command has written   *)
(* to its stdout, and it throws if and only if the command failed, with all *)
(* of its stderr.                                                           *)
THEOREM ResponsesAreComplete ==
  ASSUME Alone
  PROVE  TaskSpec => []ResponseIsComplete
  <1>1. TaskInv => ResponseIsComplete
    BY DEF TaskInv
  <1>. QED  BY <1>1, TaskInvariance, PTL
-----------------------------------------------------------------------------
(* Process::open, for any number of Process objects that are opened at      *)
(* once, any choice of their streams and any table of descriptors the       *)
(* program starts with.                                                     *)
(*                                                                          *)
(* All of it follows from one statement about the program's table           *)
(* (TableInv): an end of a pipe is in it, at the number that open has for   *)
(* it and nowhere else, from the pipe() that made it to the close() that    *)
(* is for it, however many others come and go in the meantime.              *)

Dirs == {"read", "write"}
FarDir(s) == IF s = "stdin" THEN "read" ELSE "write"
NearDir(s) == IF s = "stdin" THEN "write" ELSE "read"

(* The streams that have a pipe at a place of open, unless it failed. *)
MadeAt(place) == Piped \cap CASE place = "stdin"  -> {}
                              [] place = "stdout" -> {"stdin"}
                              [] place = "stderr" -> {"stdin", "stdout"}
                              [] place \in {"fork", "forked", "opened"} -> Piped
                              [] OTHER -> {}

(* Whether the program has an end of p's pipe for s: both until open has    *)
(* returned, and its own until it is reset.                                 *)
Live(p, s, dir) ==
  s \in MadeAt(opc[p]) /\ (opc[p] = "opened" => dir = NearDir(s) /\ near[p][s] # Null)

TableInv ==
  \A p \in Processes, s \in Piped, dir \in Dirs, fd \in Descriptors :
    fds[fd] = End(p, s, dir) <=> Live(p, s, dir) /\ ends[p][s][dir] = fd

OwnInv == \A fd \in Before : fds[fd] = Own(fd)

(* The object has the number of its end, or none. *)
NearInv == \A p \in Processes, s \in Piped :
             opc[p] = "opened" => near[p][s] \in {Null, ends[p][s][NearDir(s)]}

(* There is a child as soon as fork succeeded, and the numbers of its pipes *)
(* are new ones.                                                            *)
ForkInv == \A p \in Processes : cpc[p] # "none" =>
             /\ opc[p] \in {"forked", "opened", "closed"}
             /\ \A s \in Piped, dir \in Dirs : ends[p][s][dir] \notin Before

(* Only an object that could not be opened writes elsewhere. *)
StrayInv == \A p \in astray : opc[p] \in {"failed", "closed"} /\ cpc[p] = "none"

OpenIInv == OpenTypeOK /\ TableInv /\ OwnInv /\ NearInv /\ ForkInv /\ StrayInv

(* The program has stdin, stdout and stderr, and the loop that closes       *)
(* descriptors in the child reaches them all.                               *)
Ordinary == 0 .. 2 \subseteq Before /\ ~InheritFds /\ Limit <= FdMax

(* What a child has for 0, 1 and 2. *)
Standard(p, fd) == IF Order[fd + 1] \in Piped THEN Far(p, Order[fd + 1]) ELSE Own(fd)

(* The table of the child: a copy of the program's at first, of which the   *)
(* numbers of its pipes and those below 3 matter.                           *)
SetUpInv ==
  \A p \in Processes :
    /\ cpc[p] = "dup" =>
         /\ \A s \in Piped, dir \in Dirs : childFds[p][ends[p][s][dir]] = End(p, s, dir)
         /\ \A fd \in Before : childFds[p][fd] = Own(fd)
    /\ cpc[p] \in {"close", "rest", "runs"} =>
         \A fd \in 0 .. 2 : childFds[p][fd] = Standard(p, fd)
    /\ cpc[p] = "runs" => \A fd \in Descriptors : fd > 2 => childFds[p][fd] = Free

-----------------------------------------------------------------------------
(* What the entries of a table are, and the order of the streams. *)

LEMMA Entries ==
  /\ \A p, s, dir, q, t, e : End(p, s, dir) = End(q, t, e) <=> p = q /\ s = t /\ dir = e
  /\ \A p, s, dir, fd : /\ Free # End(p, s, dir)
                        /\ Own(fd) # End(p, s, dir)
                        /\ Own(fd) # Free
  /\ \A p, s : Far(p, s) = End(p, s, FarDir(s)) /\ Near(p, s) = End(p, s, NearDir(s))
  /\ \A s : /\ FarDir(s) \in Dirs /\ NearDir(s) \in Dirs
            /\ FarDir(s) # NearDir(s) /\ Dirs = {FarDir(s), NearDir(s)}
  <1>1. \A p, s, dir, q, t, e : End(p, s, dir) = End(q, t, e) <=> p = q /\ s = t /\ dir = e
    BY DEF End
  <1>2. ASSUME NEW p, NEW s, NEW dir, NEW fd
        PROVE  /\ Free # End(p, s, dir)
               /\ Own(fd) # End(p, s, dir)
               /\ Own(fd) # Free
    <2>1. Len(Free) = 1 /\ Len(Own(fd)) = 2 /\ Len(End(p, s, dir)) = 3
      BY DEF Free, Own, End
    <2>. QED  BY <2>1
  <1>3. \A p, s : Far(p, s) = End(p, s, FarDir(s)) /\ Near(p, s) = End(p, s, NearDir(s))
    BY DEF Far, Near, FarDir, NearDir
  <1>4. \A s : /\ FarDir(s) \in Dirs /\ NearDir(s) \in Dirs
              /\ FarDir(s) # NearDir(s) /\ Dirs = {FarDir(s), NearDir(s)}
    BY DEF Dirs, FarDir, NearDir
  <1>. QED  BY <1>1, <1>2, <1>3, <1>4

(* A set of natural numbers has a least element. *)
LEMMA LeastNatural ==
  ASSUME NEW S \in SUBSET Nat, S # {}
  PROVE  Min(S) \in S /\ \A n \in S : Min(S) <= n
  <1>1. \E m \in S : \A n \in S : <<n, m>> \notin OpToRel(<, Nat)
    BY NatLessThanWellFounded, WFMin
  <1>2. PICK m \in S : \A n \in S : ~(n < m)
    BY <1>1 DEF OpToRel
  <1>3. \A n \in S : m <= n
    BY <1>2
  <1>. QED  BY <1>3 DEF Min

(* The pipes are made in their order, none is forgotten. *)
LEMMA FromNext ==
  ASSUME NEW i \in 1 .. 4
  PROVE  /\ From(i) \in i .. 4
         /\ Order[From(i)] \in Piped \cup {"fork"}
         /\ \A j \in i .. 4 : j < From(i) => Order[j] \notin Piped
  <1> DEFINE S == {j \in i .. 4 : Order[j] \in Piped \cup {"fork"}}
  <1>1. S \in SUBSET Nat /\ 4 \in S
    BY DEF Order
  <1>2. Min(S) \in S /\ \A n \in S : Min(S) <= n
    BY <1>1, LeastNatural
  <1>3. From(i) = Min(S)
    BY DEF From
  <1>. QED  BY <1>2, <1>3

LEMMA FirstPlace == /\ Order[From(1)] \in Piped \cup {"fork"}
                    /\ MadeAt(Order[From(1)]) = {}
  <1>1. /\ From(1) \in 1 .. 4
        /\ Order[From(1)] \in Piped \cup {"fork"}
        /\ \A j \in 1 .. 4 : j < From(1) => Order[j] \notin Piped
    BY FromNext
  <1>2. Order[1] = "stdin" /\ Order[2] = "stdout" /\ Order[3] = "stderr" /\ Order[4] = "fork"
    BY DEF Order
  <1>3. From(1) = 1 \/ From(1) = 2 \/ From(1) = 3 \/ From(1) = 4
    BY <1>1
  <1>4. From(1) > 1 => "stdin" \notin Piped
    BY <1>1, <1>2
  <1>5. From(1) > 2 => "stdout" \notin Piped
    BY <1>1, <1>2
  <1>6. From(1) > 3 => "stderr" \notin Piped
    BY <1>1, <1>2
  <1>. QED  BY <1>1, <1>2, <1>3, <1>4, <1>5, <1>6, OpenAssumption DEF MadeAt

LEMMA NextPlace ==
  ASSUME NEW s \in Piped
  PROVE  /\ After(s) \in Piped \cup {"fork"}
         /\ MadeAt(After(s)) = MadeAt(s) \cup {s} /\ s \notin MadeAt(s)
  <1> DEFINE i == CHOOSE j \in 1 .. 3 : Order[j] = s
  <1>1. Order[1] = "stdin" /\ Order[2] = "stdout" /\ Order[3] = "stderr" /\ Order[4] = "fork"
    BY DEF Order
  <1>2. s \in {"stdin", "stdout", "stderr"}
    BY OpenAssumption
  <1>3. i \in 1 .. 3 /\ Order[i] = s
    <2>1. \E j \in 1 .. 3 : Order[j] = s
      BY <1>1, <1>2
    <2>. QED  BY <2>1
  <1>4. After(s) = Order[From(1 + i)]
    BY DEF After
  <1> HIDE DEF i
  <1>5. /\ From(1 + i) \in (1 + i) .. 4
        /\ Order[From(1 + i)] \in Piped \cup {"fork"}
        /\ \A j \in (1 + i) .. 4 : j < From(1 + i) => Order[j] \notin Piped
    <2>1. 1 + i \in 1 .. 4
      BY <1>3
    <2>. QED  BY <2>1, FromNext
  <1>6. From(1 + i) > 2 => i >= 2 \/ "stdout" \notin Piped
    BY <1>1, <1>3, <1>5
  <1>7. From(1 + i) > 3 => i >= 3 \/ "stderr" \notin Piped
    BY <1>1, <1>3, <1>5
  <1>8. CASE i = 1
    BY <1>1, <1>3, <1>4, <1>5, <1>6, <1>7, <1>8, OpenAssumption DEF MadeAt
  <1>9. CASE i = 2
    BY <1>1, <1>3, <1>4, <1>5, <1>7, <1>9, OpenAssumption DEF MadeAt
  <1>10. CASE i = 3
    BY <1>1, <1>3, <1>4, <1>5, <1>10, OpenAssumption DEF MadeAt
  <1>. QED  BY <1>3, <1>8, <1>9, <1>10

(* pipe() gives two numbers that are not used. *)
LEMMA TwoNumbers ==
  ASSUME Cardinality(Unused(fds)) >= 2,
         NEW r, r = Min(Unused(fds)),
         NEW w, w = Min(Unused(fds) \ {r})
  PROVE  r \in Unused(fds) /\ w \in Unused(fds) /\ r # w
  <1> DEFINE U == Unused(fds)
  <1>1. IsFiniteSet(Descriptors) /\ Descriptors \subseteq Nat
    BY FS_Interval, OpenAssumption DEF Descriptors
  <1>2. IsFiniteSet(U) /\ U \in SUBSET Nat
    BY <1>1, FS_Subset DEF Unused
  <1> HIDE DEF U
  <1>3. U # {}
    BY <1>2, FS_EmptySet DEF U
  <1>4. r \in U
    BY <1>2, <1>3, LeastNatural DEF U
  <1>5. Cardinality(U \ {r}) = Cardinality(U) - 1
    BY <1>2, <1>4, FS_RemoveElement
  <1>6. Cardinality(U) \in Nat
    BY <1>2, FS_CardinalityType
  <1>7. U \ {r} # {}
    BY <1>5, <1>6, FS_EmptySet DEF U
  <1>8. Min(U \ {r}) \in U \ {r}
    BY <1>2, <1>7, LeastNatural
  <1>. QED  BY <1>4, <1>8 DEF U

-----------------------------------------------------------------------------
(* Types. *)

LEMMA Typing == OpenTypeOK <=> /\ fds \in Tables
                               /\ ends \in [Processes -> [Piped -> [Dirs -> Descriptors]]]
                               /\ opc \in [Processes -> {"stdin", "stdout", "stderr", "fork", "forked",
                                                         "opened", "failed", "closed"}]
                               /\ near \in [Processes ->
                                             [Piped -> Descriptors \cup {Uninitialised, Null}]]
                               /\ childFds \in [Processes -> Tables]
                               /\ cpc \in [Processes -> {"none", "dup", "close", "rest", "runs",
                                                         "exited"}]
                               /\ astray \subseteq Processes
  BY DEF OpenTypeOK, Dirs

LEMMA TablesClosed ==
  /\ [fd \in Descriptors |-> Free] \in Tables
  /\ \A table \in Tables : \A N : Close(table, N) \in Tables
  BY DEF Tables, Close

LEMMA InitTypeOK == OpenInit => OpenTypeOK
  <1> SUFFICES ASSUME OpenInit PROVE OpenTypeOK
    OBVIOUS
  <1>1. fds \in Tables
    BY DEF OpenInit, Tables
  <1>2. 0 \in Descriptors
    BY OpenAssumption DEF Descriptors
  <1>3. opc \in [Processes -> {"stdin", "stdout", "stderr", "fork"}]
    BY FirstPlace, OpenAssumption DEF OpenInit
  <1>4. childFds \in [Processes -> Tables]
    BY TablesClosed DEF OpenInit
  <1>. QED  BY <1>1, <1>2, <1>3, <1>4 DEF OpenInit, OpenTypeOK

LEMMA DupTyped ==
  ASSUME OpenTypeOK, NEW p \in Processes, NEW table \in Tables,
         NEW s \in {"stdin", "stdout", "stderr"}, NEW n
  PROVE  Dup(p, table, s, n) \in Tables
  <1>1. CASE s \in Piped
    <2>1. ends[p][s][FarDir(s)] \in Descriptors
      BY <1>1, Typing, Entries
    <2>2. Dup(p, table, s, n) = [table EXCEPT ![n] = table[ends[p][s][FarDir(s)]]]
      BY <1>1, Entries DEF Dup, Far, FarDir, End
    <2>. QED  BY <2>1, <2>2 DEF Tables
  <1>2. CASE s \notin Piped
    BY <1>2 DEF Dup
  <1>. QED  BY <1>1, <1>2

LEMMA NextTypeOK ==
  ASSUME OpenTypeOK, [OpenNext]_openVars
  PROVE  OpenTypeOK'
  <1>1. ASSUME NEW p \in Processes, NEW s \in Piped, Pipe(p, s) PROVE OpenTypeOK'
    <2> DEFINE r == Min(Unused(fds))
               w == Min(Unused(fds) \ {r})
    <2>1. r \in Descriptors /\ w \in Descriptors
      BY <1>1, TwoNumbers DEF Pipe, Unused
    <2>2. /\ fds' = [fds EXCEPT ![r] = End(p, s, "read"), ![w] = End(p, s, "write")]
          /\ ends' = [ends EXCEPT ![p][s] = [read |-> r, write |-> w]]
          /\ opc' = [opc EXCEPT ![p] = After(s)]
          /\ UNCHANGED <<near, childFds, cpc, astray>>
      BY <1>1 DEF Pipe
    <2> HIDE DEF r, w
    <2>3. End(p, s, "read") \in PipeEnds /\ End(p, s, "write") \in PipeEnds
      BY DEF PipeEnds
    <2>4. fds' \in Tables
      BY <2>1, <2>2, <2>3 DEF OpenTypeOK, Tables
    <2>5. [read |-> r, write |-> w] \in [{"read", "write"} -> Descriptors]
      BY <2>1
    <2>6. ends' \in [Processes -> [Piped -> [{"read", "write"} -> Descriptors]]]
      BY <2>2, <2>5 DEF OpenTypeOK
    <2>7. After(s) \in {"stdin", "stdout", "stderr", "fork"}
      BY NextPlace, OpenAssumption
    <2>. QED  BY <2>2, <2>4, <2>6, <2>7 DEF OpenTypeOK
  <1>2. ASSUME NEW p \in Processes, NEW s \in Piped, PipeFails(p, s) PROVE OpenTypeOK'
    BY <1>2, TablesClosed DEF PipeFails, OpenFails, OpenTypeOK
  <1>3. ASSUME NEW p \in Processes, Fork(p) PROVE OpenTypeOK'
    BY <1>3 DEF Fork, OpenTypeOK
  <1>4. ASSUME NEW p \in Processes, ForkFails(p) PROVE OpenTypeOK'
    BY <1>4, TablesClosed DEF ForkFails, OpenFails, OpenTypeOK
  <1>5. ASSUME NEW p \in Processes, ParentKeepsNear(p) PROVE OpenTypeOK'
    <2>1. \A s \in Piped : ends[p][s][Near(p, s)[3]] \in Descriptors
      BY DEF OpenTypeOK, Near, End
    <2>2. near' \in [Processes -> [Piped -> Descriptors \cup {Uninitialised, Null}]]
      BY <1>5, <2>1 DEF ParentKeepsNear, OpenTypeOK
    <2>. QED  BY <1>5, <2>2, TablesClosed DEF ParentKeepsNear, OpenTypeOK
  <1>6. ASSUME NEW p \in Processes, ChildDups(p) PROVE OpenTypeOK'
    <2>1. childFds[p] \in Tables
      BY DEF OpenTypeOK
    <2>2. Dup(p, Dup(p, Dup(p, childFds[p], "stdin", 0), "stdout", 1), "stderr", 2) \in Tables
      BY <2>1, DupTyped
    <2>. QED  BY <1>6, <2>2 DEF ChildDups, SetUpStep, OpenTypeOK
  <1>7. ASSUME NEW p \in Processes, ChildCloses(p) \/ ChildClosesRest(p) \/ ChildExits(p)
        PROVE  OpenTypeOK'
    <2>1. PICK table \in Tables : childFds' = [childFds EXCEPT ![p] = table]
      <3>1. childFds[p] \in Tables
        BY DEF OpenTypeOK
      <3>2. CASE ChildCloses(p)
        BY <3>1, <3>2, TablesClosed DEF ChildCloses
      <3>3. CASE ChildClosesRest(p)
        BY <3>1, <3>3, TablesClosed DEF ChildClosesRest
      <3>4. CASE ChildExits(p)
        BY <3>4, TablesClosed DEF ChildExits
      <3>. QED  BY <1>7, <3>2, <3>3, <3>4
    <2>. QED  BY <1>7, <2>1 DEF ChildCloses, ChildClosesRest, ChildExits, SetUpStep, OpenTypeOK
  <1>8. ASSUME NEW p \in Processes, WriteTo(p) PROVE OpenTypeOK'
    <2>1. astray' \subseteq Processes
      BY <1>8 DEF WriteTo, OpenTypeOK
    <2>. QED  BY <1>8, <2>1 DEF WriteTo, OpenTypeOK
  <1>9. ASSUME NEW p \in Processes, NEW ss, Reset(p, ss)
        PROVE  /\ fds' \in Tables
               /\ near' \in [Processes -> [Piped -> Descriptors \cup {Uninitialised, Null}]]
    BY <1>9, TablesClosed DEF Reset, OpenTypeOK
  <1>10. ASSUME NEW p \in Processes, CloseStdinOf(p) \/ CloseFds(p) PROVE OpenTypeOK'
    <2>1. PICK ss : Reset(p, ss)
      BY <1>10 DEF CloseStdinOf, CloseFds
    <2>. QED  BY <1>9, <1>10, <2>1 DEF CloseStdinOf, CloseFds, OpenTypeOK
  <1>11. CASE UNCHANGED openVars
    BY <1>11 DEF openVars, OpenTypeOK
  <1>. QED
    BY <1>1, <1>2, <1>3, <1>4, <1>5, <1>6, <1>7, <1>8, <1>10, <1>11
       DEF OpenNext, OpenStep, ChildSetsUp

-----------------------------------------------------------------------------
(* The program's table. *)

(* A step of one open is none of another. *)
LEMMA OthersLive ==
  ASSUME NEW p, NEW q \in Processes, p # q,
         \E place : opc' = [opc EXCEPT ![p] = place],
         \E numbers : near' = [near EXCEPT ![p] = numbers],
         OpenTypeOK
  PROVE  \A s, dir : Live(q, s, dir)' <=> Live(q, s, dir)
  <1>1. opc'[q] = opc[q] /\ near'[q] = near[q]
    BY DEF OpenTypeOK
  <1>. QED  BY <1>1 DEF Live, MadeAt

(* Closing the numbers of ends that are no longer to be held leaves all     *)
(* others as they are, whoever has them.                                    *)
LEMMA ClosingNumbers ==
  ASSUME OpenTypeOK, TableInv, OwnInv, NEW p \in Processes, NEW N,
         fds' = Close(fds, N), ends' = ends,
         \A fd \in Descriptors : fd \in N <=>
           \E s \in Piped, dir \in Dirs : /\ Live(p, s, dir) /\ ~Live(p, s, dir)'
                                          /\ ends[p][s][dir] = fd,
         \A s \in Piped, dir \in Dirs : Live(p, s, dir)' => Live(p, s, dir),
         \A q \in Processes, s \in Piped, dir \in Dirs :
           p # q => (Live(q, s, dir)' <=> Live(q, s, dir))
  PROVE  TableInv' /\ OwnInv'
  <1>1. ASSUME NEW q \in Processes, NEW s \in Piped, NEW dir \in Dirs, NEW fd \in Descriptors
        PROVE  fds'[fd] = End(q, s, dir) <=> Live(q, s, dir)' /\ ends'[q][s][dir] = fd
    <2>1. fds'[fd] = End(q, s, dir) <=> fd \notin N /\ fds[fd] = End(q, s, dir)
      BY Entries DEF Close
    <2>2. fds[fd] = End(q, s, dir) <=> Live(q, s, dir) /\ ends[q][s][dir] = fd
      BY DEF TableInv
    <2>3. ASSUME fd \in N, Live(q, s, dir), ends[q][s][dir] = fd
          PROVE  ~Live(q, s, dir)'
      <3>1. PICK t \in Piped, e \in Dirs : /\ Live(p, t, e) /\ ~Live(p, t, e)'
                                           /\ ends[p][t][e] = fd
        BY <2>3
      <3>2. End(p, t, e) = End(q, s, dir)
        BY <2>2, <2>3, <3>1 DEF TableInv
      <3>3. p = q /\ t = s /\ e = dir
        BY <3>2, Entries
      <3>. QED  BY <3>1, <3>3
    <2>4. ASSUME fd \notin N, Live(q, s, dir), ends[q][s][dir] = fd
          PROVE  Live(q, s, dir)'
      BY <2>4
    <2>5. Live(q, s, dir)' => Live(q, s, dir)
      OBVIOUS
    <2>. QED  BY <2>1, <2>2, <2>3, <2>4, <2>5
  <1>2. ASSUME NEW fd \in Before PROVE fds'[fd] = Own(fd)
    <2>1. fd \in Descriptors
      BY OpenAssumption DEF Descriptors
    <2>2. fd \notin N
      <3> SUFFICES ASSUME fd \in N PROVE FALSE
        OBVIOUS
      <3>1. PICK t \in Piped, e \in Dirs : Live(p, t, e) /\ ends[p][t][e] = fd
        BY <2>1
      <3>2. fds[fd] = End(p, t, e)
        BY <2>1, <3>1 DEF TableInv
      <3>. QED  BY <3>2, Entries DEF OwnInv
    <2>. QED  BY <2>1, <2>2 DEF Close, OwnInv
  <1>. QED  BY <1>1, <1>2 DEF TableInv, OwnInv

LEMMA TableInit == OpenInit => TableInv /\ OwnInv
  <1> SUFFICES ASSUME OpenInit PROVE TableInv /\ OwnInv
    OBVIOUS
  <1>1. \A p \in Processes, s \in Piped, dir \in Dirs : ~Live(p, s, dir)
    BY FirstPlace DEF OpenInit, Live
  <1>2. \A fd \in Descriptors : fds[fd] \in {Own(fd), Free}
    BY DEF OpenInit
  <1>3. TableInv
    BY <1>1, <1>2, Entries DEF TableInv
  <1>4. OwnInv
    BY OpenAssumption DEF OpenInit, OwnInv, Descriptors
  <1>. QED  BY <1>3, <1>4

LEMMA TablePipe ==
  ASSUME OpenIInv, NEW p \in Processes, NEW s \in Piped, Pipe(p, s)
  PROVE  TableInv' /\ OwnInv'
  <1> DEFINE r == Min(Unused(fds))
             w == Min(Unused(fds) \ {r})
  <1>1. r \in Unused(fds) /\ w \in Unused(fds) /\ r # w
    BY TwoNumbers DEF Pipe
  <1>2. /\ fds' = [fds EXCEPT ![r] = End(p, s, "read"), ![w] = End(p, s, "write")]
        /\ ends' = [ends EXCEPT ![p][s] = [read |-> r, write |-> w]]
        /\ opc[p] = s /\ opc' = [opc EXCEPT ![p] = After(s)]
        /\ near' = near
    BY DEF Pipe
  <1> HIDE DEF r, w
  <1>3. /\ r \in Descriptors /\ w \in Descriptors
        /\ fds[r] = Free /\ fds[w] = Free
    BY <1>1 DEF Unused
  <1>4. OpenTypeOK /\ TableInv /\ OwnInv
    BY DEF OpenIInv
  <1>5. /\ \A fd \in Descriptors \ {r, w} : fds'[fd] = fds[fd]
        /\ fds'[r] = End(p, s, "read") /\ fds'[w] = End(p, s, "write")
    BY <1>1, <1>2, <1>3, <1>4 DEF OpenTypeOK, Tables
  <1>6. /\ ends'[p][s]["read"] = r /\ ends'[p][s]["write"] = w
        /\ \A q \in Processes, t \in Piped : p # q \/ s # t => ends'[q][t] = ends[q][t]
    BY <1>2, <1>4 DEF OpenTypeOK
  <1>7. \A q \in Processes : \A t, dir : p # q => (Live(q, t, dir)' <=> Live(q, t, dir))
    <2>1. ASSUME NEW q \in Processes, p # q PROVE opc'[q] = opc[q]
      BY <1>2, <1>4, <2>1 DEF OpenTypeOK
    <2>. QED  BY <1>2, <2>1 DEF Live, MadeAt
  <1>8. \A t \in Piped, dir \in Dirs : /\ Live(p, t, dir)' <=> t = s \/ Live(p, t, dir)
                                       /\ ~Live(p, s, dir)
    <2>1. /\ After(s) \in Piped \cup {"fork"}
          /\ MadeAt(After(s)) = MadeAt(s) \cup {s} /\ s \notin MadeAt(s)
      BY NextPlace
    <2>2. opc'[p] = After(s)
      BY <1>2, <1>4 DEF OpenTypeOK
    <2>3. s # "opened" /\ After(s) # "opened"
      BY <2>1, OpenAssumption
    <2>. QED  BY <1>2, <2>1, <2>2, <2>3 DEF Live, MadeAt
  <1>9. ASSUME NEW q \in Processes, NEW t \in Piped, NEW dir \in Dirs, NEW fd \in Descriptors
        PROVE  fds'[fd] = End(q, t, dir) <=> Live(q, t, dir)' /\ ends'[q][t][dir] = fd
    <2>1. fds[fd] = End(q, t, dir) <=> Live(q, t, dir) /\ ends[q][t][dir] = fd
      BY <1>4 DEF TableInv
    <2>2. CASE q = p /\ t = s
      <3>1. fds[fd] # End(q, t, dir) /\ Live(q, t, dir)'
        BY <1>8, <2>1, <2>2
      <3>2. fds'[fd] = End(p, s, dir) <=> (fd = r /\ dir = "read") \/ (fd = w /\ dir = "write")
        BY <1>1, <1>5, <2>2, <3>1, Entries
      <3>3. dir \in {"read", "write"}
        BY DEF Dirs
      <3>. QED  BY <1>6, <2>2, <3>1, <3>2, <3>3
    <2>3. CASE ~(q = p /\ t = s)
      <3>1. (Live(q, t, dir)' <=> Live(q, t, dir)) /\ ends'[q][t] = ends[q][t]
        BY <1>6, <1>7, <1>8, <2>3
      <3>2. fds'[fd] = End(q, t, dir) <=> fds[fd] = End(q, t, dir)
        BY <1>3, <1>5, <2>3, Entries
      <3>. QED  BY <2>1, <3>1, <3>2
    <2>. QED  BY <2>2, <2>3
  <1>10. ASSUME NEW fd \in Before PROVE fds'[fd] = Own(fd)
    <2>1. fd \in Descriptors /\ fds[fd] = Own(fd)
      BY <1>4, OpenAssumption DEF Descriptors, OwnInv
    <2>. QED  BY <1>3, <1>5, <2>1, Entries
  <1>. QED  BY <1>9, <1>10 DEF TableInv, OwnInv

(* The places of open and the streams that have a pipe there. *)
LEMMA Places == /\ \A place \in {"fork", "forked", "opened"} : MadeAt(place) = Piped
                /\ \A place \in {"failed", "closed"} : MadeAt(place) = {}
                /\ \A place : MadeAt(place) \subseteq Piped
  BY DEF MadeAt

LEMMA TablePipeFails ==
  ASSUME OpenIInv, NEW p \in Processes, NEW s \in Piped, PipeFails(p, s)
  PROVE  TableInv' /\ OwnInv'
  <1> DEFINE N == Numbers(p, MadeAt(s))
  <1>1. OpenTypeOK /\ TableInv /\ OwnInv
    BY DEF OpenIInv
  <1>2. fds' = Close(fds, N)
    BY OpenAssumption DEF PipeFails, MadeAt
  <1>3. /\ opc[p] = s /\ ends' = ends /\ near' = near
        /\ opc' = [opc EXCEPT ![p] = "failed"] /\ opc'[p] = "failed"
    BY <1>1 DEF PipeFails, OpenFails, OpenTypeOK
  <1>4. \A t, dir : ~Live(p, t, dir)'
    BY <1>3, Places DEF Live
  <1>5. \A t, dir : Live(p, t, dir) <=> t \in MadeAt(s)
    BY <1>3, OpenAssumption DEF Live
  <1>6. \A q \in Processes : \A t, dir : p # q => (Live(q, t, dir)' <=> Live(q, t, dir))
    BY <1>1, <1>3 DEF Live, OpenTypeOK
  <1>7. \A fd : fd \in N <=> \E t \in MadeAt(s), dir \in Dirs : ends[p][t][dir] = fd
    BY DEF Numbers, Dirs
  <1> HIDE DEF N
  <1>8. \A fd : fd \in N <=> \E t \in Piped, dir \in Dirs : /\ Live(p, t, dir) /\ ~Live(p, t, dir)'
                                                           /\ ends[p][t][dir] = fd
    BY <1>4, <1>5, <1>7, Places
  <1>. QED  BY <1>1, <1>2, <1>3, <1>4, <1>6, <1>8, ClosingNumbers

LEMMA TableForkFails ==
  ASSUME OpenIInv, NEW p \in Processes, ForkFails(p)
  PROVE  TableInv' /\ OwnInv'
  <1> DEFINE N == Numbers(p, Piped)
  <1>1. OpenTypeOK /\ TableInv /\ OwnInv
    BY DEF OpenIInv
  <1>2. fds' = Close(fds, N)
    BY DEF ForkFails
  <1>3. /\ opc[p] = "fork" /\ ends' = ends /\ near' = near
        /\ opc' = [opc EXCEPT ![p] = "failed"] /\ opc'[p] = "failed"
    BY <1>1 DEF ForkFails, OpenFails, OpenTypeOK
  <1>4. \A t, dir : ~Live(p, t, dir)'
    BY <1>3, Places DEF Live
  <1>5. \A t, dir : Live(p, t, dir) <=> t \in Piped
    BY <1>3, Places DEF Live
  <1>6. \A q \in Processes : \A t, dir : p # q => (Live(q, t, dir)' <=> Live(q, t, dir))
    BY <1>1, <1>3 DEF Live, OpenTypeOK
  <1>7. \A fd : fd \in N <=> \E t \in Piped, dir \in Dirs : ends[p][t][dir] = fd
    BY DEF Numbers, Dirs
  <1> HIDE DEF N
  <1>8. \A fd : fd \in N <=> \E t \in Piped, dir \in Dirs : /\ Live(p, t, dir) /\ ~Live(p, t, dir)'
                                                           /\ ends[p][t][dir] = fd
    BY <1>4, <1>5, <1>7
  <1>. QED  BY <1>1, <1>2, <1>3, <1>4, <1>6, <1>8, ClosingNumbers

LEMMA TableParent ==
  ASSUME OpenIInv, NEW p \in Processes, ParentKeepsNear(p)
  PROVE  TableInv' /\ OwnInv' /\ \A s \in Piped : near'[p][s] = ends[p][s][NearDir(s)]
  <1> DEFINE N == {ends[p][s][FarDir(s)] : s \in Piped}
  <1>1. OpenTypeOK /\ TableInv /\ OwnInv
    BY DEF OpenIInv
  <1>2. fds' = Close(fds, N)
    BY DEF ParentKeepsNear, Far, FarDir, End
  <1>3. /\ opc[p] = "forked" /\ ends' = ends
        /\ opc' = [opc EXCEPT ![p] = "opened"] /\ opc'[p] = "opened"
    BY <1>1 DEF ParentKeepsNear, OpenTypeOK
  <1>4. /\ near' = [near EXCEPT ![p] = near'[p]]
        /\ \A s \in Piped : near'[p][s] = ends[p][s][NearDir(s)]
    BY <1>1 DEF ParentKeepsNear, OpenTypeOK, Near, NearDir, End
  <1>5. \A s \in Piped, dir \in Dirs : ends[p][s][dir] # Null
    BY <1>1, OpenAssumption DEF OpenTypeOK, Dirs, Null, Descriptors
  <1>6. \A s \in Piped, dir \in Dirs : Live(p, s, dir)' <=> dir = NearDir(s)
    BY <1>3, <1>4, <1>5, Places, Entries DEF Live
  <1>7. \A s \in Piped, dir \in Dirs : Live(p, s, dir)
    BY <1>3, Places DEF Live
  <1>8. \A q \in Processes : \A t, dir : p # q => (Live(q, t, dir)' <=> Live(q, t, dir))
    BY <1>1, <1>3, <1>4 DEF Live, OpenTypeOK
  <1>9. \A fd : fd \in N <=> \E t \in Piped : ends[p][t][FarDir(t)] = fd
    OBVIOUS
  <1> HIDE DEF N
  <1>10. \A fd : fd \in N <=> \E t \in Piped, dir \in Dirs : /\ Live(p, t, dir) /\ ~Live(p, t, dir)'
                                                            /\ ends[p][t][dir] = fd
    BY <1>6, <1>7, <1>9, Entries
  <1>. QED  BY <1>1, <1>2, <1>3, <1>4, <1>7, <1>8, <1>10, ClosingNumbers

(* reset() of the numbers that the object has. *)
LEMMA TableReset ==
  ASSUME OpenIInv, NEW p \in Processes, NEW ss \in SUBSET Piped, Reset(p, ss), ends' = ends,
         \A s \in ss : near[p][s] # Null,
         \/ opc' = opc
         \/ /\ opc' = [opc EXCEPT ![p] = "closed"]
            /\ \A s \in Piped \ ss : near[p][s] = Null
            /\ opc[p] \in {"opened", "failed"}
  PROVE  TableInv' /\ OwnInv'
  <1> DEFINE N == IF opc[p] = "opened" THEN {near[p][s] : s \in ss} ELSE {}
  <1>1. OpenTypeOK /\ TableInv /\ OwnInv /\ NearInv
    BY DEF OpenIInv
  <1>2. fds' = Close(fds, N)
    BY <1>1 DEF Reset, Close, OpenTypeOK, Tables
  <1>3. /\ near' = [near EXCEPT ![p] = near'[p]]
        /\ \A s \in Piped : near'[p][s] = IF s \in ss THEN Null ELSE near[p][s]
    BY <1>1 DEF Reset, OpenTypeOK
  <1>4. \A q \in Processes : \A t, dir : p # q => (Live(q, t, dir)' <=> Live(q, t, dir))
    BY <1>1, <1>3 DEF Live, OpenTypeOK
  <1>5. \A s \in Piped, dir \in Dirs :
          Live(p, s, dir)' <=> Live(p, s, dir) /\ ~(opc[p] = "opened" /\ s \in ss)
    <2>1. CASE opc' = opc
      BY <1>3, <2>1 DEF Live
    <2>2. CASE opc' # opc
      <3>1. opc'[p] = "closed"
        BY <1>1, <2>2 DEF OpenTypeOK
      <3>2. \A s, dir : ~Live(p, s, dir)'
        BY <3>1, Places DEF Live
      <3>3. \A s \in Piped : \A dir : Live(p, s, dir) => opc[p] = "opened" /\ s \in ss
        BY <2>2, Places DEF Live
      <3>. QED  BY <3>2, <3>3
    <2>. QED  BY <2>1, <2>2
  <1>6. \A fd : fd \in N <=> opc[p] = "opened" /\ \E t \in ss : near[p][t] = fd
    OBVIOUS
  <1> HIDE DEF N
  <1>7. ASSUME opc[p] = "opened", NEW t \in ss
        PROVE  /\ near[p][t] = ends[p][t][NearDir(t)]
               /\ \A dir \in Dirs : Live(p, t, dir) <=> dir = NearDir(t)
    BY <1>1, <1>7, Places DEF NearInv, Live
  <1>8. \A fd : fd \in N <=> \E t \in Piped, dir \in Dirs : /\ Live(p, t, dir) /\ ~Live(p, t, dir)'
                                                            /\ ends[p][t][dir] = fd
    BY <1>5, <1>6, <1>7, Entries
  <1>. QED  BY <1>1, <1>2, <1>4, <1>5, <1>8, ClosingNumbers

(* Where no number changes and open stays where it holds what it holds. *)
LEMMA TableStays ==
  ASSUME OpenIInv, UNCHANGED <<fds, ends, near>>,
         \A p \in Processes : opc'[p] = opc[p] \/ (opc[p] = "fork" /\ opc'[p] = "forked")
  PROVE  TableInv' /\ OwnInv'
  <1>1. \A p \in Processes : \A s, dir : Live(p, s, dir)' <=> Live(p, s, dir)
    BY Places DEF Live
  <1>. QED  BY <1>1 DEF OpenIInv, TableInv, OwnInv

LEMMA TableNext ==
  ASSUME OpenIInv, [OpenNext]_openVars
  PROVE  TableInv' /\ OwnInv'
  <1>1. ASSUME NEW p \in Processes, OpenStep(p) PROVE TableInv' /\ OwnInv'
    <2>1. CASE Fork(p)
      <3>1. \A q \in Processes : opc'[q] = opc[q] \/ (opc[q] = "fork" /\ opc'[q] = "forked")
        BY <2>1 DEF Fork, OpenIInv, OpenTypeOK
      <3>. QED  BY <2>1, <3>1, TableStays DEF Fork
    <2>. QED  BY <1>1, <2>1, TablePipe, TablePipeFails, TableForkFails, TableParent DEF OpenStep
  <1>2. ASSUME NEW p \in Processes, ChildSetsUp(p) \/ ChildExits(p) \/ WriteTo(p)
        PROVE  TableInv' /\ OwnInv'
    BY <1>2, TableStays
       DEF ChildSetsUp, ChildDups, ChildCloses, ChildClosesRest, ChildExits, SetUpStep, WriteTo
  <1>3. ASSUME NEW p \in Processes, CloseStdinOf(p) PROVE TableInv' /\ OwnInv'
    BY <1>3, TableReset DEF CloseStdinOf
  <1>4. ASSUME NEW p \in Processes, CloseFds(p) PROVE TableInv' /\ OwnInv'
    <2> DEFINE ss == {s \in Piped : near[p][s] # Null}
    <2>1. /\ Reset(p, ss) /\ ends' = ends
          /\ opc' = [opc EXCEPT ![p] = "closed"] /\ opc[p] \in {"opened", "failed"}
      BY <1>4 DEF CloseFds
    <2>2. ss \in SUBSET Piped /\ \A s \in ss : near[p][s] # Null
      OBVIOUS
    <2>3. \A s \in Piped \ ss : near[p][s] = Null
      OBVIOUS
    <2> HIDE DEF ss
    <2>. QED  BY <2>1, <2>2, <2>3, TableReset
  <1>5. CASE UNCHANGED openVars
    BY <1>5, TableStays DEF openVars
  <1>. QED  BY <1>1, <1>2, <1>3, <1>4, <1>5 DEF OpenNext

-----------------------------------------------------------------------------
(* What the objects know of it. *)

LEMMA NearNext ==
  ASSUME OpenIInv, [OpenNext]_openVars
  PROVE  NearInv'
  <1> SUFFICES ASSUME NEW q \in Processes, NEW t \in Piped, opc'[q] = "opened"
               PROVE  near'[q][t] \in {Null, ends'[q][t][NearDir(t)]}
    BY DEF NearInv
  <1> OpenTypeOK /\ NearInv
    BY DEF OpenIInv
  <1>1. ASSUME NEW p \in Processes, NEW s \in Piped, Pipe(p, s)
        PROVE  opc[q] = "opened" /\ near' = near /\ ends'[q] = ends[q]
    <2>1. p # q
      BY <1>1, NextPlace, OpenAssumption DEF Pipe, OpenTypeOK
    <2>. QED  BY <1>1, <2>1 DEF Pipe, OpenTypeOK
  <1>2. ASSUME NEW p \in Processes,
               (\E s \in Piped : PipeFails(p, s)) \/ ForkFails(p) \/ Fork(p)
        PROVE  opc[q] = "opened" /\ near' = near /\ ends' = ends
    BY <1>2 DEF PipeFails, ForkFails, Fork, OpenFails, OpenTypeOK
  <1>3. ASSUME NEW p \in Processes, ParentKeepsNear(p)
        PROVE  near'[q][t] \in {Null, ends'[q][t][NearDir(t)]}
    <2>1. ends' = ends /\ (p # q => opc[q] = "opened" /\ near'[q] = near[q])
      BY <1>3 DEF ParentKeepsNear, OpenTypeOK
    <2>. QED  BY <1>3, <2>1, TableParent DEF NearInv
  <1>4. ASSUME NEW p \in Processes, ChildSetsUp(p) \/ ChildExits(p) \/ WriteTo(p) \/ UNCHANGED openVars
        PROVE  UNCHANGED <<opc, near, ends>>
    BY <1>4
       DEF ChildSetsUp, ChildDups, ChildCloses, ChildClosesRest, ChildExits, SetUpStep, WriteTo, openVars
  <1>5. ASSUME NEW p \in Processes, CloseStdinOf(p) \/ CloseFds(p)
        PROVE  opc[q] = "opened" /\ ends' = ends /\ near'[q][t] \in {Null, near[q][t]}
    <2>1. PICK ss : Reset(p, ss)
      BY <1>5 DEF CloseStdinOf, CloseFds
    <2>2. near'[q][t] \in {Null, near[q][t]}
      BY <2>1 DEF Reset, OpenTypeOK
    <2>. QED  BY <1>5, <2>2 DEF CloseStdinOf, CloseFds, OpenTypeOK
  <1>6. CASE \E p \in Processes : (\E s \in Piped : PipeFails(p, s)) \/ ForkFails(p) \/ Fork(p)
    BY <1>2, <1>6 DEF NearInv
  <1>7. CASE \E p \in Processes, s \in Piped : Pipe(p, s)
    BY <1>1, <1>7 DEF NearInv
  <1>8. CASE \E p \in Processes : ChildSetsUp(p) \/ ChildExits(p) \/ WriteTo(p)
    BY <1>4, <1>8 DEF NearInv
  <1>9. CASE UNCHANGED openVars
    BY <1>9 DEF openVars, NearInv
  <1>10. CASE \E p \in Processes : CloseStdinOf(p) \/ CloseFds(p)
    BY <1>5, <1>10 DEF NearInv
  <1>. QED  BY <1>3, <1>6, <1>7, <1>8, <1>9, <1>10 DEF OpenNext, OpenStep

(* While p's pipes are all open, none has a number that the program uses. *)
LEMMA NewNumbers ==
  ASSUME OpenIInv, NEW p \in Processes, opc[p] \in {"fork", "forked"}
  PROVE  \A s \in Piped, dir \in Dirs : /\ fds[ends[p][s][dir]] = End(p, s, dir)
                                        /\ ends[p][s][dir] \notin Before
  <1> SUFFICES ASSUME NEW s \in Piped, NEW dir \in Dirs
               PROVE  /\ fds[ends[p][s][dir]] = End(p, s, dir)
                      /\ ends[p][s][dir] \notin Before
    OBVIOUS
  <1>1. Live(p, s, dir)
    BY Places DEF Live
  <1>2. ends[p][s][dir] \in Descriptors
    BY DEF OpenIInv, OpenTypeOK, Dirs
  <1>3. fds[ends[p][s][dir]] = End(p, s, dir)
    BY <1>1, <1>2 DEF OpenIInv, TableInv
  <1>. QED  BY <1>3, Entries DEF OpenIInv, OwnInv

(* fork() is what starts a child, and after it the numbers stay. *)
LEMMA ForkOnce ==
  ASSUME OpenIInv, [OpenNext]_openVars, NEW q \in Processes, cpc'[q] # "none"
  PROVE  /\ ends'[q] = ends[q] /\ opc'[q] \in {"forked", "opened", "closed"}
         /\ cpc[q] # "none" \/ (Fork(q) /\ cpc'[q] = "dup")
  <1> OpenTypeOK /\ ForkInv
    BY DEF OpenIInv
  <1>1. ASSUME NEW p \in Processes, NEW s \in Piped, Pipe(p, s)
        PROVE  p # q /\ cpc' = cpc /\ opc'[q] = opc[q] /\ ends'[q] = ends[q]
    <2>1. p # q
      BY <1>1, OpenAssumption DEF Pipe, ForkInv
    <2>. QED  BY <1>1, <2>1 DEF Pipe, OpenTypeOK
  <1>2. ASSUME NEW p \in Processes, NEW s \in Piped, PipeFails(p, s)
        PROVE  p # q /\ cpc' = cpc /\ opc'[q] = opc[q] /\ ends' = ends
    <2>1. p # q
      BY <1>2, OpenAssumption DEF PipeFails, OpenFails, ForkInv
    <2>. QED  BY <1>2, <2>1 DEF PipeFails, OpenFails, OpenTypeOK
  <1>3. ASSUME NEW p \in Processes, ForkFails(p)
        PROVE  p # q /\ cpc' = cpc /\ opc'[q] = opc[q] /\ ends' = ends
    <2>1. p # q
      BY <1>3 DEF ForkFails, OpenFails, ForkInv
    <2>. QED  BY <1>3, <2>1 DEF ForkFails, OpenFails, OpenTypeOK
  <1>4. ASSUME NEW p \in Processes, Fork(p)
        PROVE  /\ ends' = ends
               /\ p = q => opc'[q] = "forked" /\ cpc'[q] = "dup"
               /\ p # q => opc'[q] = opc[q] /\ cpc'[q] = cpc[q]
    BY <1>4 DEF Fork, OpenTypeOK
  <1>5. ASSUME NEW p \in Processes, ParentKeepsNear(p) \/ CloseStdinOf(p) \/ CloseFds(p)
        PROVE  cpc' = cpc /\ ends' = ends /\ opc'[q] \in {opc[q], "opened", "closed"}
    BY <1>5 DEF ParentKeepsNear, CloseStdinOf, CloseFds, OpenTypeOK
  <1>6. ASSUME NEW p \in Processes, ChildSetsUp(p) \/ ChildExits(p) \/ WriteTo(p)
        PROVE  ends' = ends /\ opc' = opc /\ (cpc'[q] = cpc[q] \/ cpc[q] # "none")
    BY <1>6 DEF ChildSetsUp, ChildDups, ChildCloses, ChildClosesRest, ChildExits, SetUpStep, WriteTo,
                OpenTypeOK
  <1>7. CASE \E p \in Processes, s \in Piped : Pipe(p, s)
    BY <1>1, <1>7 DEF ForkInv
  <1>8. CASE \E p \in Processes, s \in Piped : PipeFails(p, s)
    BY <1>2, <1>8 DEF ForkInv
  <1>9. CASE \E p \in Processes : ForkFails(p)
    BY <1>3, <1>9 DEF ForkInv
  <1>10. CASE \E p \in Processes : Fork(p)
    BY <1>4, <1>10 DEF ForkInv
  <1>11. CASE \E p \in Processes : ParentKeepsNear(p) \/ CloseStdinOf(p) \/ CloseFds(p)
    BY <1>5, <1>11 DEF ForkInv
  <1>12. CASE \E p \in Processes : ChildSetsUp(p) \/ ChildExits(p) \/ WriteTo(p)
    BY <1>6, <1>12 DEF ForkInv
  <1>13. CASE UNCHANGED openVars
    BY <1>13 DEF openVars, ForkInv
  <1>. QED  BY <1>7, <1>8, <1>9, <1>10, <1>11, <1>12, <1>13 DEF OpenNext, OpenStep

LEMMA ForkNext ==
  ASSUME OpenIInv, [OpenNext]_openVars
  PROVE  ForkInv'
  <1> SUFFICES ASSUME NEW q \in Processes, cpc'[q] # "none"
               PROVE  /\ opc'[q] \in {"forked", "opened", "closed"}
                      /\ \A s \in Piped, dir \in Dirs : ends'[q][s][dir] \notin Before
    BY DEF ForkInv
  <1>1. ends'[q] = ends[q] /\ opc'[q] \in {"forked", "opened", "closed"}
    BY ForkOnce
  <1>2. CASE cpc[q] # "none"
    BY <1>1, <1>2 DEF OpenIInv, ForkInv
  <1>3. CASE Fork(q)
    BY <1>1, <1>3, NewNumbers DEF Fork
  <1>. QED  BY <1>1, <1>2, <1>3, ForkOnce

LEMMA StrayNext ==
  ASSUME OpenIInv, [OpenNext]_openVars
  PROVE  StrayInv'
  <1> OpenTypeOK /\ StrayInv /\ ForkInv /\ OpenTypeOK'
    BY NextTypeOK DEF OpenIInv
  <1>1. ASSUME NEW p \in Processes, WriteTo(p), NEW q \in astray' \ astray
        PROVE  opc'[q] \in {"failed", "closed"} /\ cpc'[q] = "none"
    <2>1. q = p /\ opc' = opc /\ cpc' = cpc
      BY <1>1 DEF WriteTo
    <2>2. opc[p] # "opened"
      <3> SUFFICES ASSUME opc[p] = "opened" PROVE FALSE
        OBVIOUS
      <3>1. /\ "stdin" \in Piped
            /\ near[p]["stdin"] = ends[p]["stdin"][NearDir("stdin")]
            /\ near[p]["stdin"] \in Descriptors
        <4>1. "stdin" \in Piped /\ near[p]["stdin"] # Null
          BY <1>1 DEF WriteTo
        <4>2. near[p]["stdin"] = ends[p]["stdin"][NearDir("stdin")]
          BY <4>1 DEF OpenIInv, NearInv
        <4>3. ends[p]["stdin"][NearDir("stdin")] \in Descriptors
          BY <4>1, Entries, Typing
        <4>. QED  BY <4>1, <4>2, <4>3
      <3>2. near[p]["stdin"] # Uninitialised
        BY <3>1, OpenAssumption DEF Descriptors, Uninitialised
      <3>3. Live(p, "stdin", NearDir("stdin"))
        BY <1>1, <3>1, Places DEF Live, WriteTo
      <3>4. fds[near[p]["stdin"]] = Near(p, "stdin")
        BY <3>1, <3>3, Entries DEF OpenIInv, TableInv
      <3>5. astray' = astray
        BY <1>1, <3>2, <3>4 DEF WriteTo
      <3>. QED  BY <1>1, <3>5
    <2>3. opc[p] = "failed"
      BY <1>1, <2>2 DEF WriteTo
    <2>. QED  BY <2>1, <2>3 DEF ForkInv
  <1>2. ASSUME NEW q \in astray
        PROVE  opc'[q] \in {"failed", "closed"} /\ cpc'[q] = "none"
    <2>1. q \in Processes /\ opc[q] \in {"failed", "closed"} /\ cpc[q] = "none"
      BY DEF OpenTypeOK, StrayInv
    <2>2. cpc'[q] = "none"
      BY <2>1, ForkOnce DEF Fork
    <2>3. ASSUME NEW p \in Processes, NEW s \in Piped, Pipe(p, s) \/ PipeFails(p, s)
          PROVE  opc'[q] = opc[q]
      <3>1. p # q
        BY <2>1, <2>3, OpenAssumption DEF Pipe, PipeFails
      <3>. QED  BY <2>1, <2>3, <3>1 DEF Pipe, PipeFails, OpenFails, OpenTypeOK
    <2>4. ASSUME NEW p \in Processes, Fork(p) \/ ForkFails(p) \/ ParentKeepsNear(p)
          PROVE  opc'[q] = opc[q]
      <3>1. p # q
        BY <2>1, <2>4 DEF Fork, ForkFails, ParentKeepsNear
      <3>. QED  BY <2>1, <2>4, <3>1 DEF Fork, ForkFails, ParentKeepsNear, OpenFails, OpenTypeOK
    <2>5. ASSUME NEW p \in Processes, ChildSetsUp(p) \/ ChildExits(p) \/ WriteTo(p) \/ CloseStdinOf(p)
          PROVE  opc' = opc
      BY <2>5 DEF ChildSetsUp, ChildDups, ChildCloses, ChildClosesRest, ChildExits, SetUpStep,
                  WriteTo, CloseStdinOf
    <2>6. ASSUME NEW p \in Processes, CloseFds(p)
          PROVE  opc'[q] \in {opc[q], "closed"}
      BY <2>1, <2>6 DEF CloseFds, OpenTypeOK
    <2>7. opc'[q] \in {opc[q], "closed"}
      BY <2>3, <2>4, <2>5, <2>6 DEF OpenNext, OpenStep, openVars
    <2>. QED  BY <2>1, <2>2, <2>7
  <1>3. CASE astray' = astray
    BY <1>2, <1>3 DEF StrayInv
  <1>4. CASE \E p \in Processes : WriteTo(p)
    BY <1>1, <1>2, <1>4 DEF StrayInv
  <1>5. astray' = astray \/ \E p \in Processes : WriteTo(p)
    BY DEF OpenNext, OpenStep, Pipe, PipeFails, Fork, ForkFails, OpenFails, ParentKeepsNear, ChildSetsUp,
           ChildDups, ChildCloses, ChildClosesRest, ChildExits, SetUpStep, CloseStdinOf, CloseFds, openVars
  <1>. QED  BY <1>3, <1>4, <1>5

-----------------------------------------------------------------------------
LEMMA OpenIInvInit == OpenInit => OpenIInv
  <1> SUFFICES ASSUME OpenInit PROVE OpenIInv
    OBVIOUS
  <1>1. \A p \in Processes : opc[p] # "opened" /\ cpc[p] = "none"
    BY FirstPlace, OpenAssumption DEF OpenInit
  <1>2. NearInv /\ ForkInv /\ StrayInv
    BY <1>1 DEF OpenInit, NearInv, ForkInv, StrayInv
  <1>. QED  BY <1>2, InitTypeOK, TableInit DEF OpenIInv

LEMMA OpenIInvNext == OpenIInv /\ [OpenNext]_openVars => OpenIInv'
  BY NextTypeOK, TableNext, NearNext, ForkNext, StrayNext DEF OpenIInv

(* The inductive invariant holds in every reachable state. *)
THEOREM OpenInvariance == OpenSpec => []OpenIInv
  BY OpenIInvInit, OpenIInvNext, PTL DEF OpenSpec

(* The state is always of its type. *)
THEOREM OpenTypeCorrect == OpenSpec => []OpenTypeOK
  <1>1. OpenIInv => OpenTypeOK
    BY DEF OpenIInv
  <1>. QED  BY <1>1, OpenInvariance, PTL

(* Whatever fails and however the opens of several objects interleave, the  *)
(* program holds its own ends of the pipes of those that run, none of one   *)
(* that could not be opened or is closed, and all the files it had.         *)
THEOREM NoEndIsLeaked == OpenSpec => []ProgramHoldsItsEnds
  <1>1. ASSUME OpenIInv PROVE ProgramHoldsItsEnds
    <2>1. ASSUME NEW p \in Processes
          PROVE  LET mine == {e \in PipeEnds : e[1] = p /\ \E fd \in Descriptors : fds[fd] = e}
                 IN  CASE opc[p] = "opened" ->
                            mine = {Near(p, s) : s \in {s \in Piped : near[p][s] # Null}}
                       [] opc[p] \in {"failed", "closed"} -> mine = {}
                       [] OTHER -> TRUE
      <3> DEFINE mine == {e \in PipeEnds : e[1] = p /\ \E fd \in Descriptors : fds[fd] = e}
                 kept == {Near(p, s) : s \in {s \in Piped : near[p][s] # Null}}
      <3>1. \A s \in Piped, dir \in Dirs :
              End(p, s, dir) \in PipeEnds /\ End(p, s, dir)[1] = p
        BY DEF PipeEnds, Dirs, End
      <3>2. \A e \in PipeEnds : e[1] = p => \E s \in Piped, dir \in Dirs : e = End(p, s, dir)
        BY DEF PipeEnds, Dirs, End
      <3>3. \A s \in Piped, dir \in Dirs : ends[p][s][dir] \in Descriptors
        BY <1>1, Typing DEF OpenIInv
      <3>4. \A s \in Piped, dir \in Dirs :
              (\E fd \in Descriptors : fds[fd] = End(p, s, dir)) <=> Live(p, s, dir)
        BY <1>1, <3>3 DEF OpenIInv, TableInv
      <3>5. \A e : e \in mine <=> \E s \in Piped, dir \in Dirs : Live(p, s, dir) /\ e = End(p, s, dir)
        <4>1. ASSUME NEW e \in mine
              PROVE  \E s \in Piped, dir \in Dirs : Live(p, s, dir) /\ e = End(p, s, dir)
          <5>1. PICK s \in Piped, dir \in Dirs : e = End(p, s, dir)
            BY <3>2
          <5>2. \E fd \in Descriptors : fds[fd] = End(p, s, dir)
            BY <5>1
          <5>. QED  BY <3>4, <5>1, <5>2
        <4>2. ASSUME NEW s \in Piped, NEW dir \in Dirs, Live(p, s, dir)
              PROVE  End(p, s, dir) \in mine
          BY <3>1, <3>4, <4>2
        <4>. QED  BY <4>1, <4>2
      <3> HIDE DEF mine
      <3>6. ASSUME opc[p] = "opened" PROVE mine = kept
        <4>1. \A s \in Piped, dir \in Dirs : Live(p, s, dir) <=> dir = NearDir(s) /\ near[p][s] # Null
          BY <3>6, Places DEF Live
        <4>2. \A e : e \in mine <=> \E s \in Piped : near[p][s] # Null /\ e = Near(p, s)
          BY <3>5, <4>1, Entries
        <4>. QED  BY <4>2
      <3>7. ASSUME opc[p] \in {"failed", "closed"} PROVE mine = {}
        <4>1. \A s, dir : ~Live(p, s, dir)
          BY <3>7, Places DEF Live
        <4>. QED  BY <3>5, <4>1
      <3>. QED  BY <3>6, <3>7 DEF mine
    <2>. QED  BY <1>1, <2>1 DEF OpenIInv, OwnInv, ProgramHoldsItsEnds
  <1>. QED  BY <1>1, OpenInvariance, PTL

(* A write to an object that has been opened goes to the stdin of its child *)
(* or nowhere.                                                              *)
THEOREM WritesReachTheChild == OpenSpec => []WriteGoesToStdin
  <1>1. OpenIInv => WriteGoesToStdin
    BY DEF OpenIInv, StrayInv, WriteGoesToStdin
  <1>. QED  BY <1>1, OpenInvariance, PTL

-----------------------------------------------------------------------------
(* The children. *)

LEMMA SetUpInit == OpenInit => SetUpInv
  BY DEF OpenInit, SetUpInv

(* dup2 copies the child's end, which is still at its number. *)
LEMMA DupCopies ==
  ASSUME Ordinary, OpenTypeOK, NEW p \in Processes, NEW table \in Tables, NEW n \in 0 .. 2,
         NEW s, s = Order[n + 1],
         \A t \in Piped, dir \in Dirs :
           ends[p][t][dir] \notin Before /\ table[ends[p][t][dir]] = End(p, t, dir)
  PROVE  /\ Dup(p, table, s, n) \in Tables
         /\ Dup(p, table, s, n)[n] = IF s \in Piped THEN Far(p, s) ELSE table[n]
         /\ \A fd \in Descriptors \ {n} : Dup(p, table, s, n)[fd] = table[fd]
         /\ \A t \in Piped, dir \in Dirs :
              Dup(p, table, s, n)[ends[p][t][dir]] = End(p, t, dir)
  <1>1. s \in {"stdin", "stdout", "stderr"}
    BY DEF Order
  <1>2. n \in Before /\ n \in Descriptors
    BY OpenAssumption DEF Ordinary, Descriptors
  <1>3. Dup(p, table, s, n) \in Tables
    BY <1>1, DupTyped
  <1>4. ASSUME s \in Piped PROVE Dup(p, table, s, n) = [table EXCEPT ![n] = Far(p, s)]
    <2>1. table[ends[p][s][FarDir(s)]] = Far(p, s)
      BY <1>4, Entries
    <2>. QED  BY <1>4, <2>1 DEF Dup, Far, FarDir, End
  <1>5. \A t \in Piped, dir \in Dirs : ends[p][t][dir] \in Descriptors \ {n}
    BY <1>2, Typing
  <1>6. /\ Dup(p, table, s, n)[n] = IF s \in Piped THEN Far(p, s) ELSE table[n]
        /\ \A fd \in Descriptors \ {n} : Dup(p, table, s, n)[fd] = table[fd]
    <2>1. CASE s \in Piped
      BY <1>2, <1>4, <2>1 DEF Tables
    <2>2. CASE s \notin Piped
      BY <2>2 DEF Dup
    <2>. QED  BY <2>1, <2>2
  <1>. QED  BY <1>3, <1>5, <1>6

LEMMA DupsDone ==
  ASSUME Ordinary, OpenIInv, SetUpInv, NEW p \in Processes, ChildDups(p)
  PROVE  \A fd \in 0 .. 2 : childFds'[p][fd] = Standard(p, fd)
  <1> DEFINE t0 == childFds[p]
             t1 == Dup(p, t0, "stdin", 0)
             t2 == Dup(p, t1, "stdout", 1)
             t3 == Dup(p, t2, "stderr", 2)
  <1>1. childFds'[p] = t3 /\ cpc[p] = "dup" /\ t0 \in Tables
    BY DEF ChildDups, SetUpStep, OpenIInv, OpenTypeOK
  <1>2. \A s \in Piped, dir \in Dirs :
          ends[p][s][dir] \notin Before /\ t0[ends[p][s][dir]] = End(p, s, dir)
    BY <1>1 DEF SetUpInv, OpenIInv, ForkInv
  <1>3. 0 \in Before /\ 1 \in Before /\ 2 \in Before
    BY DEF Ordinary
  <1>4. t0[0] = Own(0) /\ t0[1] = Own(1) /\ t0[2] = Own(2)
    BY <1>1, <1>3 DEF SetUpInv
  <1>5. 0 \in Descriptors /\ 1 \in Descriptors /\ 2 \in Descriptors
    BY <1>3, OpenAssumption DEF Descriptors
  <1>6. Order[0 + 1] = "stdin" /\ Order[1 + 1] = "stdout" /\ Order[2 + 1] = "stderr"
    BY DEF Order
  <1> HIDE DEF t0
  <1> OpenTypeOK
    BY DEF OpenIInv
  <1>7. /\ t1 \in Tables /\ t1[0] = Standard(p, 0) /\ t1[1] = Own(1) /\ t1[2] = Own(2)
        /\ \A s \in Piped, dir \in Dirs : t1[ends[p][s][dir]] = End(p, s, dir)
    BY <1>1, <1>2, <1>4, <1>5, <1>6, DupCopies DEF Standard
  <1> HIDE DEF t1
  <1>8. /\ t2 \in Tables /\ t2[0] = Standard(p, 0) /\ t2[1] = Standard(p, 1) /\ t2[2] = Own(2)
        /\ \A s \in Piped, dir \in Dirs : t2[ends[p][s][dir]] = End(p, s, dir)
    BY <1>2, <1>5, <1>6, <1>7, DupCopies DEF Standard
  <1> HIDE DEF t2
  <1>9. t3[0] = Standard(p, 0) /\ t3[1] = Standard(p, 1) /\ t3[2] = Standard(p, 2)
    BY <1>2, <1>5, <1>6, <1>8, DupCopies DEF Standard
  <1>. QED  BY <1>1, <1>9

LEMMA SetUpNext ==
  ASSUME Ordinary, OpenIInv, SetUpInv, [OpenNext]_openVars
  PROVE  SetUpInv'
  <1> OpenTypeOK /\ ForkInv
    BY DEF OpenIInv
  <1> DEFINE Own3(q) == \A fd \in 0 .. 2 : childFds[q][fd] = Standard(q, fd)
             Good(q) ==
               /\ cpc[q] = "dup" =>
                    /\ \A s \in Piped, dir \in Dirs : childFds[q][ends[q][s][dir]] = End(q, s, dir)
                    /\ \A fd \in Before : childFds[q][fd] = Own(fd)
               /\ cpc[q] \in {"close", "rest", "runs"} => Own3(q)
               /\ cpc[q] = "runs" => \A fd \in Descriptors : fd > 2 => childFds[q][fd] = Free
  <1>1. \A q \in Processes : Good(q)
    BY DEF SetUpInv
  <1> HIDE DEF Good
  <1>2. ASSUME NEW q \in Processes, cpc'[q] = cpc[q], childFds'[q] = childFds[q]
        PROVE  Good(q)'
    <2>1. CASE cpc[q] = "none"
      BY <1>2, <2>1 DEF Good
    <2>2. CASE cpc[q] # "none"
      BY <1>1, <1>2, <2>2, ForkOnce DEF Good, Standard
    <2>. QED  BY <2>1, <2>2
  <1>3. ASSUME NEW p \in Processes, Fork(p), NEW q \in Processes PROVE Good(q)'
    <2>1. CASE p # q
      BY <1>2, <1>3, <2>1 DEF Fork, OpenTypeOK
    <2>2. CASE p = q
      <3>1. cpc'[p] = "dup" /\ childFds'[p] = fds /\ ends' = ends /\ opc[p] = "fork"
        BY <1>3 DEF Fork, OpenTypeOK
      <3>. QED  BY <2>2, <3>1, NewNumbers DEF Good, OpenIInv, OwnInv
    <2>. QED  BY <2>1, <2>2
  <1>4. ASSUME NEW p \in Processes, ChildDups(p), NEW q \in Processes PROVE Good(q)'
    <2>1. CASE p # q
      BY <1>2, <1>4, <2>1 DEF ChildDups, SetUpStep, OpenTypeOK
    <2>2. CASE p = q
      <3>1. cpc'[p] = "close"
        BY <1>4 DEF ChildDups, SetUpStep, OpenTypeOK
      <3>. QED  BY <1>4, <2>2, <3>1, DupsDone DEF Good, Standard
    <2>. QED  BY <2>1, <2>2
  <1>5. ASSUME NEW p \in Processes, ChildCloses(p), NEW q \in Processes PROVE Good(q)'
    <2>1. CASE p # q
      BY <1>2, <1>5, <2>1 DEF ChildCloses, SetUpStep, OpenTypeOK
    <2>2. CASE p = q
      <3>1. /\ cpc[p] = "close" /\ cpc'[p] = "rest"
            /\ childFds'[p] = Close(childFds[p], Numbers(p, Piped))
        BY <1>5 DEF ChildCloses, SetUpStep, OpenTypeOK
      <3>2. \A fd \in 0 .. 2 : fd \in Descriptors /\ fd \notin Numbers(p, Piped)
        <4>1. \A s \in Piped, dir \in Dirs : ends[p][s][dir] \notin Before
          BY <3>1 DEF ForkInv
        <4>2. \A fd \in 0 .. 2 : fd \in Before /\ fd \in Descriptors
          BY OpenAssumption DEF Ordinary, Descriptors
        <4>. QED  BY <4>1, <4>2 DEF Numbers, Dirs
      <3>. QED  BY <1>1, <2>2, <3>1, <3>2 DEF Good, Standard, Close
    <2>. QED  BY <2>1, <2>2
  <1>6. ASSUME NEW p \in Processes, ChildClosesRest(p), NEW q \in Processes PROVE Good(q)'
    <2>1. CASE p # q
      BY <1>2, <1>6, <2>1 DEF ChildClosesRest, SetUpStep, OpenTypeOK
    <2>2. CASE p = q
      <3>1. /\ cpc[p] = "rest" /\ cpc'[p] = "runs"
            /\ childFds'[p] = Close(childFds[p], 3 .. FdMax - 1)
        BY <1>6 DEF ChildClosesRest, SetUpStep, OpenTypeOK, Ordinary
      <3>2. \A fd \in 0 .. 2 : fd \in Descriptors
        BY OpenAssumption DEF Ordinary, Descriptors
      <3>3. Own3(p)'
        BY <1>1, <3>1, <3>2 DEF Good, Standard, Close
      <3>4. \A fd \in Descriptors : fd > 2 => childFds'[p][fd] = Free
        BY <3>1, OpenAssumption DEF Close, Ordinary, Descriptors
      <3>. QED  BY <2>2, <3>1, <3>3, <3>4 DEF Good
    <2>. QED  BY <2>1, <2>2
  <1>7. ASSUME NEW p \in Processes, ChildExits(p), NEW q \in Processes PROVE Good(q)'
    <2>1. CASE p # q
      BY <1>2, <1>7, <2>1 DEF ChildExits, SetUpStep, OpenTypeOK
    <2>2. CASE p = q
      BY <1>7, <2>2 DEF ChildExits, SetUpStep, OpenTypeOK, Good
    <2>. QED  BY <2>1, <2>2
  <1>8. CASE UNCHANGED <<cpc, childFds>>
    <2>1. \A q \in Processes : Good(q)'
      BY <1>2, <1>8
    <2>. QED  BY <2>1 DEF Good, SetUpInv
  <1>9. CASE \E p \in Processes : Fork(p) \/ ChildSetsUp(p) \/ ChildExits(p)
    <2>1. \A q \in Processes : Good(q)'
      BY <1>3, <1>4, <1>5, <1>6, <1>7, <1>9 DEF ChildSetsUp
    <2>. QED  BY <2>1 DEF Good, SetUpInv
  <1>10. \/ UNCHANGED <<cpc, childFds>>
         \/ \E p \in Processes : Fork(p) \/ ChildSetsUp(p) \/ ChildExits(p)
    BY DEF OpenNext, OpenStep, Pipe, PipeFails, ForkFails, OpenFails, ParentKeepsNear, WriteTo,
           CloseStdinOf, CloseFds, openVars
  <1>. QED  BY <1>8, <1>9, <1>10

(* And if the program has a stdin, stdout and stderr, and the child closes  *)
(* all the rest, a child holds its ends of its pipes and nothing of anybody *)
(* else, though the pipes of others were open when it was forked.           *)
THEOREM OwnersHoldTheEnds ==
  ASSUME Ordinary
  PROVE  OpenSpec => []EndsAreHeldByTheirOwners
  <1>1. ASSUME SetUpInv PROVE ChildrenHoldTheirEnds
    <2> SUFFICES ASSUME NEW p \in Processes, NEW fd \in Descriptors, cpc[p] = "runs"
                 PROVE  childFds[p][fd] = IF fd > 2 THEN Free
                                          ELSE IF Order[fd + 1] \in Piped THEN Far(p, Order[fd + 1])
                                          ELSE IF fd \in Before THEN Own(fd) ELSE Free
      BY DEF ChildrenHoldTheirEnds
    <2>1. CASE fd > 2
      BY <1>1, <2>1 DEF SetUpInv
    <2>2. CASE ~(fd > 2)
      <3>1. fd \in 0 .. 2 /\ fd \in Before
        BY <2>2, OpenAssumption DEF Descriptors, Ordinary
      <3>2. childFds[p][fd] = Standard(p, fd)
        BY <1>1, <3>1 DEF SetUpInv
      <3>. QED  BY <2>2, <3>1, <3>2 DEF Standard
    <2>. QED  BY <2>1, <2>2
  <1>2. OpenSpec => []SetUpInv
    <2>1. OpenInit => SetUpInv
      BY SetUpInit
    <2>2. OpenIInv /\ SetUpInv /\ [OpenNext]_openVars => SetUpInv'
      BY SetUpNext
    <2>. QED  BY <2>1, <2>2, OpenInvariance, PTL DEF OpenSpec
  <1>3. ProgramHoldsItsEnds /\ ChildrenHoldTheirEnds => EndsAreHeldByTheirOwners
    BY DEF EndsAreHeldByTheirOwners
  <1>. QED  BY <1>1, <1>2, <1>3, NoEndIsLeaked, PTL
=============================================================================
