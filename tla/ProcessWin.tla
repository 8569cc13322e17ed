------------------------------ MODULE ProcessWin ------------------------------
(***************************************************************************)
(* TinyProcessLib::Process on Windows (process_win.cpp): a thread for each   *)
(* stream, and a handle of the process that get_exit_status and             *)
(* try_get_exit_status wait on, ask, and close.  As long as the program has  *)
(* that handle nobody else gets the child's id, so kill, which uses the      *)
(* handle under close_mutex, cannot hit a stranger.                          *)
(*                                                                          *)
(* data.handle is written and read without a lock: each read of it is a      *)
(* step.  A handle that was closed but not yet set to nullptr is "closed".   *)
(***************************************************************************)
EXTENDS Integers

CONSTANTS Waiters,      (* callers of get_exit_status, try_get_exit_status  *)
          Killers,      (* callers of kill                                  *)
          Writers,      (* callers of write and close_stdin                 *)
          Streams,      (* the output streams that are read                 *)
          OpenStdin,    (* the flag open_stdin                              *)
          Descendants,  (* how many processes the child may start           *)
          MaxOut,       (* chunks a stream may carry in all                 *)
          MaxWrite,     (* chunks one call of write may be given            *)
          PipeSize,     (* chunks a pipe holds                              *)
          Nobody        (* the holder of a free mutex                       *)

Callers == Waiters \cup Killers \cup Writers

ASSUME WinAssumption == /\ Streams \subseteq {"stdout", "stderr"}
                        /\ OpenStdin \in BOOLEAN
                        /\ Descendants \in Nat
                        /\ {MaxOut, MaxWrite, PipeSize} \subseteq Nat \ {0}
                        /\ Nobody \notin Callers

VARIABLES
  alive,       (* of the child, 0, and the processes it started, those running *)
  spawned,     (* how many processes the child has started                     *)
  code,        (* the child's exit code, once it has one                       *)
  writers,     (* writers[s]: the processes that hold the write end of s       *)
  written,     (* written[s]: chunks written to s                              *)
  delivered,   (* delivered[s]: chunks given to the read callback of s         *)
  inReaders,   (* the processes that hold the read end of stdin                *)
  inPipe,      (* chunks in the stdin pipe                                     *)
  reading,     (* the streams whose thread is in its loop                      *)
  closeCalls,  (* closeCalls[s]: calls of on_stdout_close, on_stderr_close     *)
  handle,      (* data.handle                                                  *)
  exitStatus,  (* data.exit_status                                             *)
  closed,      (* the flag closed                                              *)
  closeMutex, stdinMutex, (* the holder of each mutex                          *)
  stdinOpen, outOpen,     (* whether stdin_fd, and stdout_fd/stderr_fd, are set *)
  tpc,         (* tpc[t]: where caller t is                                    *)
  snapshot,    (* snapshot[t]: the processes kill has still to terminate       *)
  own,         (* own[t]: the status its try_get_exit_status has got           *)
  left,        (* left[t]: chunks its write has still to write                 *)
  result       (* result[t]: what its last call for the exit status returned   *)

childVars == <<alive, spawned, code, writers, written, inReaders>>
readerVars == <<delivered, reading, closeCalls>>
handleVars == <<handle, exitStatus, closed, closeMutex>>
pipeVars == <<stdinMutex, stdinOpen, outOpen>>
callerVars == <<tpc, snapshot, own, left, result>>
vars == <<childVars, inPipe, readerVars, handleVars, pipeVars, callerVars>>

Child == 0
ExitCodes == {0, 1}
Terminated == 2
NoCode == -3
NotYet == -3
Running == -2

TypeOK ==
  /\ alive \subseteq 0 .. Descendants /\ spawned \in 0 .. Descendants
  /\ code \in ExitCodes \cup {Terminated, NoCode}
  /\ writers \in [Streams -> SUBSET alive] /\ inReaders \subseteq alive
  /\ written \in [Streams -> 0 .. MaxOut] /\ delivered \in [Streams -> 0 .. MaxOut]
  /\ inPipe \in 0 .. PipeSize
  /\ reading \subseteq Streams /\ closeCalls \in [Streams -> {0, 1}]
  /\ handle \in {"open", "closed", "null"}
  /\ exitStatus \in {-1, 0, 1, Terminated}
  /\ {closed, stdinOpen, outOpen} \subseteq BOOLEAN
  /\ {closeMutex, stdinMutex} \subseteq Callers \cup {Nobody}
  /\ tpc \in [Callers -> {"idle", "wait", "query", "close", "null", "join", "stdin", "fds",
                          "kill", "write", "destroyed"}]
  /\ snapshot \in [Callers -> SUBSET (0 .. Descendants)]
  /\ own \in [Callers -> {NotYet, Running, -1, 0, 1, Terminated}]
  /\ left \in [Callers -> 0 .. MaxWrite]
  /\ result \in [Callers -> {NotYet, Running, -1, 0, 1, Terminated}]

Init ==
  /\ alive = {Child} /\ spawned = 0 /\ code = NoCode
  /\ writers = [s \in Streams |-> {Child}]
  /\ written = [s \in Streams |-> 0] /\ delivered = [s \in Streams |-> 0]
  /\ inReaders = {Child} /\ inPipe = 0
  /\ reading = Streams /\ closeCalls = [s \in Streams |-> 0]
  /\ handle = "open" /\ exitStatus = -1 /\ closed = FALSE
  /\ closeMutex = Nobody /\ stdinMutex = Nobody
  /\ stdinOpen = OpenStdin /\ outOpen = TRUE
  /\ tpc = [t \in Callers |-> "idle"] /\ snapshot = [t \in Callers |-> {}]
  /\ own = [t \in Callers |-> NotYet]
  /\ left = [t \in Callers |-> 0] /\ result = [t \in Callers |-> NotYet]

-----------------------------------------------------------------------------
(* The child and the processes it starts. *)

Outside == <<readerVars, handleVars, pipeVars, callerVars>>

Output(p, s) == /\ p \in writers[s]
                /\ written[s] < MaxOut /\ written[s] - delivered[s] < PipeSize
                /\ written' = [written EXCEPT ![s] = @ + 1]
                /\ UNCHANGED <<alive, spawned, code, writers, inReaders, inPipe, Outside>>

Input(p) == /\ p \in inReaders /\ inPipe > 0
            /\ inPipe' = inPipe - 1
            /\ UNCHANGED <<childVars, Outside>>

(* A process the child starts may be given its streams. *)
Spawn == /\ Child \in alive /\ spawned < Descendants
         /\ spawned' = spawned + 1
         /\ alive' = alive \cup {spawned'}
         /\ \/ /\ writers' = [s \in Streams |-> writers[s] \cup {spawned'}]
               /\ inReaders' = inReaders \cup {spawned'}
            \/ UNCHANGED <<writers, inReaders>>
         /\ UNCHANGED <<code, written, inPipe, Outside>>

Ends(ps) == /\ alive' = alive \ ps
            /\ writers' = [s \in Streams |-> writers[s] \ ps]
            /\ inReaders' = inReaders \ ps

Exit(c) == /\ Child \in alive
           /\ code' = c
           /\ Ends({Child})
           /\ UNCHANGED <<spawned, written, inPipe, Outside>>

DescendantExits == /\ \E p \in alive \ {Child} : Ends({p})
                   /\ UNCHANGED <<spawned, code, written, inPipe, Outside>>

-----------------------------------------------------------------------------
(* The threads stdout_thread and stderr_thread. *)

AtEnd(s) == delivered[s] = written[s] /\ writers[s] = {}

Read(s) == /\ s \in reading
           /\ \E n \in delivered[s] + 1 .. written[s] : delivered' = [delivered EXCEPT ![s] = n]
           /\ UNCHANGED <<childVars, inPipe, reading, closeCalls, handleVars, pipeVars, callerVars>>

(* Mutant: the loop goes on at the end of the stream. *)
StreamReadOn(s) ==
  /\ s \in reading /\ AtEnd(s)
  /\ closeCalls' = [closeCalls EXCEPT ![s] = 1]
  /\ UNCHANGED <<childVars, inPipe, delivered, reading, handleVars, pipeVars, callerVars>>

(* ReadFile fails or reads nothing. *)
StreamCloses(s) == /\ s \in reading /\ AtEnd(s)
                   /\ reading' = reading \ {s}
                   /\ closeCalls' = [closeCalls EXCEPT ![s] = @ + 1]
                   /\ UNCHANGED <<childVars, inPipe, delivered, handleVars, pipeVars, callerVars>>

-----------------------------------------------------------------------------
(* get_exit_status and try_get_exit_status. *)

Quiet == <<childVars, inPipe, readerVars>>

Goto(t, from, to) == tpc[t] = from /\ tpc' = [tpc EXCEPT ![t] = to]

Return(t, from, status) == Goto(t, from, "idle") /\ result' = [result EXCEPT ![t] = status]

(* With no handle the status has been stored by an earlier call. *)
GetExitStatus(t) == /\ \/ handle = "null" /\ Return(t, "idle", exitStatus)
                       \/ handle # "null" /\ Goto(t, "idle", "wait") /\ UNCHANGED result
                    /\ UNCHANGED <<Quiet, handleVars, pipeVars, snapshot, left, own>>

TryGetExitStatus(t) ==
  \/ /\ handle = "open" /\ Child \in alive
     /\ Return(t, "idle", Running)
     /\ UNCHANGED <<Quiet, handleVars, pipeVars, snapshot, left, own>>
  \/ /\ handle = "null"
     /\ Return(t, "idle", exitStatus)
     /\ UNCHANGED <<Quiet, handleVars, pipeVars, snapshot, left, own>>
  \/ /\ handle # "null" /\ Child \notin alive
     /\ Goto(t, "idle", "query")
     /\ own' = [own EXCEPT ![t] = Running]
     /\ UNCHANGED <<Quiet, handleVars, pipeVars, snapshot, left, result>>

WaitReturns(t) == /\ Child \notin alive
                  /\ Goto(t, "wait", "query")
                  /\ UNCHANGED <<Quiet, handleVars, pipeVars, own, snapshot, left, result>>

(* GetExitCodeProcess fails on a handle that is not open. *)
Query(t) == /\ Goto(t, "query", "close")
            /\ exitStatus' = IF handle = "open" THEN code ELSE -1
            /\ own' = [own EXCEPT ![t] = IF @ = NotYet THEN @ ELSE exitStatus']
            /\ UNCHANGED <<Quiet, handle, closed, closeMutex, pipeVars, snapshot, left, result>>

(* Mutant: the handle is closed without close_mutex. *)
CloseUnlocked(t) ==
  /\ Goto(t, "close", "null")
  /\ closeMutex' = t
  /\ handle' = IF handle = "open" THEN "closed" ELSE handle
  /\ UNCHANGED <<Quiet, exitStatus, closed, pipeVars, own, snapshot, left, result>>

CloseHandle(t) == /\ closeMutex = Nobody /\ closeMutex' = t
                  /\ Goto(t, "close", "null")
                  /\ handle' = IF handle = "open" THEN "closed" ELSE handle
                  /\ UNCHANGED <<Quiet, exitStatus, closed, pipeVars, own, snapshot, left, result>>

SetClosed(t) == /\ Goto(t, "null", "join")
                /\ handle' = "null" /\ closed' = TRUE
                /\ closeMutex' = Nobody
                /\ UNCHANGED <<Quiet, exitStatus, pipeVars, own, snapshot, left, result>>

(* Mutant: the threads are not joined. *)
JoinNobody(t) == /\ Goto(t, "join", "stdin")
                 /\ UNCHANGED <<Quiet, handleVars, pipeVars, own, snapshot, left, result>>

(* close_fds: join both threads, close stdin, close the outputs. *)
Join(t) == /\ reading = {}
           /\ Goto(t, "join", "stdin")
           /\ UNCHANGED <<Quiet, handleVars, pipeVars, own, snapshot, left, result>>

CloseStdinFd == /\ stdinMutex = Nobody
                /\ stdinOpen' = FALSE
                /\ UNCHANGED <<handleVars, stdinMutex, outOpen>>

CloseFdsStdin(t) == /\ Goto(t, "stdin", "fds")
                    /\ \/ stdinOpen /\ CloseStdinFd
                       \/ ~stdinOpen /\ UNCHANGED <<handleVars, pipeVars>>
                    /\ UNCHANGED <<Quiet, own, snapshot, left, result>>

(* get_exit_status returns data.exit_status as it is by now,                *)
(* try_get_exit_status what it has got itself.                              *)
CloseFdsOut(t) == /\ \/ closed /\ Return(t, "fds", IF own[t] = NotYet THEN exitStatus ELSE own[t])
                     \/ ~closed /\ Goto(t, "fds", "destroyed") /\ UNCHANGED result
                  /\ outOpen' = FALSE
                  /\ own' = [own EXCEPT ![t] = NotYet]
                  /\ UNCHANGED <<Quiet, handleVars, stdinMutex, stdinOpen, snapshot, left>>

(* The destructor of an object nobody has asked for the status. *)
Destroy(t) == /\ \A u \in Callers : tpc[u] = "idle"
              /\ ~closed
              /\ Goto(t, "idle", "join")
              /\ UNCHANGED <<Quiet, handleVars, pipeVars, own, snapshot, left, result>>

-----------------------------------------------------------------------------
(* kill, write and close_stdin. *)

(* The snapshot of the child's children is taken under close_mutex. *)
KillBegins(t) == /\ closeMutex = Nobody /\ ~closed
                 /\ Goto(t, "idle", "kill")
                 /\ closeMutex' = t
                 /\ snapshot' = [snapshot EXCEPT ![t] = alive \ {Child}]
                 /\ UNCHANGED <<Quiet, handle, exitStatus, closed, pipeVars, own, left, result>>

KillDescendant(t) == /\ tpc[t] = "kill"
                     /\ \E p \in snapshot[t] :
                           /\ Ends({p})
                           /\ snapshot' = [snapshot EXCEPT ![t] = @ \ {p}]
                     /\ UNCHANGED <<spawned, code, written, inPipe, readerVars, handleVars,
                                    pipeVars, tpc, own, left, result>>

(* TerminateProcess(data.handle, 2) does nothing to a process that ended. *)
KillChild(t) == /\ snapshot[t] = {}
                /\ Goto(t, "kill", "idle")
                /\ closeMutex' = Nobody
                /\ IF Child \in alive /\ handle = "open"
                   THEN code' = Terminated /\ Ends({Child})
                   ELSE UNCHANGED <<alive, code, writers, inReaders>>
                /\ UNCHANGED <<spawned, written, inPipe, readerVars, handle, exitStatus, closed,
                               pipeVars, own, snapshot, left, result>>

WriteBegins(t, n) == /\ OpenStdin /\ stdinMutex = Nobody /\ stdinOpen
                     /\ Goto(t, "idle", "write")
                     /\ stdinMutex' = t
                     /\ left' = [left EXCEPT ![t] = n]
                     /\ UNCHANGED <<Quiet, handleVars, stdinOpen, outOpen, own, snapshot, result>>

(* WriteFile blocks until all is written, or until nobody can read it. *)
WriteSome(t) == /\ tpc[t] = "write" /\ left[t] > 0 /\ inReaders # {}
                /\ inPipe < PipeSize /\ inPipe' = inPipe + 1
                /\ left' = [left EXCEPT ![t] = @ - 1]
                /\ UNCHANGED <<childVars, readerVars, handleVars, pipeVars, tpc, own, snapshot, result>>

WriteReturns(t) == /\ left[t] = 0 \/ inReaders = {}
                   /\ Goto(t, "write", "idle")
                   /\ stdinMutex' = Nobody
                   /\ left' = [left EXCEPT ![t] = 0]
                   /\ UNCHANGED <<Quiet, handleVars, stdinOpen, outOpen, own, snapshot, result>>

CloseStdin(t) == /\ tpc[t] = "idle" /\ stdinOpen
                 /\ CloseStdinFd
                 /\ UNCHANGED <<Quiet, callerVars>>

-----------------------------------------------------------------------------
ChildStep == \/ \E p \in alive : Input(p) \/ \E s \in Streams : Output(p, s)
             \/ Spawn \/ DescendantExits
             \/ \E c \in ExitCodes : Exit(c)

ReaderStep(s) == Read(s) \/ StreamCloses(s)

Call(t) == \/ t \in Waiters /\ (GetExitStatus(t) \/ TryGetExitStatus(t) \/ Destroy(t))
           \/ t \in Killers /\ KillBegins(t)
           \/ t \in Writers /\ (CloseStdin(t) \/ \E n \in 1 .. MaxWrite : WriteBegins(t, n))

Proceed(t) == \/ WaitReturns(t) \/ Query(t) \/ CloseHandle(t) \/ SetClosed(t)
              \/ Join(t) \/ CloseFdsStdin(t) \/ CloseFdsOut(t)
              \/ KillDescendant(t) \/ KillChild(t)
              \/ WriteSome(t) \/ WriteReturns(t)

Next == \/ ChildStep
        \/ \E s \in Streams : ReaderStep(s)
        \/ \E t \in Callers : Proceed(t)
        \/ /\ \A t \in Callers : tpc[t] # "destroyed"
           /\ \E t \in Callers : Call(t)

Spec == Init /\ [][Next]_vars

(* Threads run, mutexes are not withheld for ever, and the child and the    *)
(* processes it starts end sooner or later.                                 *)
FairSpec == /\ Spec
            /\ \A t \in Callers : SF_vars(Proceed(t))
            /\ \A s \in Streams : WF_vars(ReaderStep(s))
            /\ WF_vars(\E c \in ExitCodes : Exit(c)) /\ WF_vars(DescendantExits)
-----------------------------------------------------------------------------
Returned(t) == result[t] \notin {NotYet, Running}

(* Whoever is told a status is told the child's, and has been given all its *)
(* output: the streams have ended and their close callbacks been called.    *)
StatusAfterOutput ==
  \A t \in Waiters : Returned(t) =>
     result[t] = code /\ \A s \in Streams : closeCalls[s] = 1 /\ AtEnd(s)

(* kill uses the handle of the process while it is open, a write the handle *)
(* of stdin, and the reading threads those of stdout and stderr.            *)
NoUseAfterClose == \A t \in Callers : /\ tpc[t] = "kill" => handle = "open"
                                      /\ tpc[t] = "write" => stdinOpen
                                      /\ reading # {} => outOpen

(* get_exit_status and the destructor return. *)
StatusCallsReturn ==
  \A t \in Waiters : tpc[t] \in {"wait", "join"} ~> tpc[t] \in {"idle", "destroyed"}
=============================================================================
