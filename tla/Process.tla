------------------------------- MODULE Process -------------------------------
(***************************************************************************)
(* TinyProcessLib::Process on Unix (process_unix.cpp): the life of a child  *)
(* process, the thread that reads its output (async_read), and the calls    *)
(* that other threads make on the Process object.  The module holds the     *)
(* state and the steps; ProcessClients and Task close it with callers.      *)
(*                                                                          *)
(* Pipes are first in, first out in the kernel, so a pipe is the number of  *)
(* chunks put in and taken out.  A pipe has ended for its reader when no    *)
(* process holds its other end.                                             *)
(***************************************************************************)
EXTENDS Integers

CONSTANTS Callers,      (* the threads that use the Process object         *)
          Reader,       (* stdout_stderr_thread, a caller if callbacks call *)
          Streams,      (* the output streams that are read                *)
          OpenStdin,    (* the flag open_stdin                             *)
          Descendants,  (* whether the child may leave a process behind    *)
          MaxOut,       (* chunks a stream may carry in all                *)
          MaxWrite,     (* chunks one call of write may be given           *)
          PipeSize,     (* chunks a pipe holds                             *)
          Nobody        (* the holder of a free mutex                      *)

ASSUME ProcessAssumption == /\ Streams \subseteq {"stdout", "stderr"}
                            /\ OpenStdin \in BOOLEAN /\ Descendants \in BOOLEAN
                            /\ {MaxOut, MaxWrite, PipeSize} \subseteq Nat \ {0}
                            /\ Nobody \notin Callers

VARIABLES
  child,       (* the child, as the kernel keeps it                           *)
  raw,         (* the status waitpid will report                              *)
  reused,      (* whether the kernel has given the child's pid away           *)
  stray,       (* whether a signal went to whoever has the pid now            *)
  alive,       (* of the child and the process it left behind, those running  *)
  writers,     (* writers[s]: the processes that hold the write end of s      *)
  written,     (* written[s]: chunks written to s                             *)
  delivered,   (* delivered[s]: chunks given to the read callback of s        *)
  inReaders,   (* the processes that hold the read end of stdin               *)
  sigpipe,     (* what the program does on SIGPIPE                            *)
  inPipe,      (* chunks in the stdin pipe                                    *)
  reader,      (* where the thread stdout_stderr_thread is                    *)
  calling,     (* whether it is in a callback that may make calls             *)
  reading,     (* the streams whose pollfd is not -1                          *)
  revents,     (* revents[s]: what poll found                                 *)
  toScan,      (* the streams its for statement has still to look at          *)
  closeCalls,  (* closeCalls[s]: calls of on_stdout_close, on_stderr_close    *)
  exitStatus,  (* data.exit_status                                            *)
  closed,      (* the flag closed                                             *)
  closeMutex, stdinMutex, (* the holder of each mutex                         *)
  stdinOpen, outOpen,     (* whether stdin_fd, and stdout_fd/stderr_fd, are set *)
  tpc,         (* tpc[t]: where caller t is                                   *)
  left,        (* left[t]: chunks its write has still to write                *)
  result       (* result[t]: the status its last call for it was told         *)

kernelVars == <<child, raw, reused, stray, alive, writers, written, inReaders, sigpipe>>
readerVars == <<delivered, reader, calling, reading, revents, toScan, closeCalls>>
objectVars == <<exitStatus, closed, closeMutex, stdinMutex, stdinOpen, outOpen>>
callerVars == <<tpc, left, result>>
vars == <<kernelVars, inPipe, readerVars, objectVars, callerVars>>

(* Wait statuses as waitpid reports them: exit(0), exit(2), a signal. *)
ExitCodes == {0, 512}
Signal == 15

(* What is made of them: if(exit_status >= 256) exit_status >>= 8. *)
Sampled == IF raw >= 256 THEN raw \div 256 ELSE raw

(* No status: no call yet. *)
NotYet == -2

TypeOK ==
  /\ child \in {"running", "zombie", "reaped"}
  /\ raw \in ExitCodes \cup {Signal, -1}
  /\ {reused, stray, calling, closed, stdinOpen, outOpen} \subseteq BOOLEAN
  /\ alive \subseteq {"child", "descendant"} /\ inReaders \subseteq alive
  /\ writers \in [Streams -> SUBSET alive]
  /\ written \in [Streams -> 0 .. MaxOut] /\ delivered \in [Streams -> 0 .. MaxOut]
  /\ inPipe \in 0 .. PipeSize /\ sigpipe \in {"default", "ignored"}
  /\ reader \in {"none", "poll", "scan", "done"}
  /\ reading \subseteq Streams /\ toScan \subseteq reading
  /\ revents \in [Streams -> {"none", "in", "hup"}]
  /\ closeCalls \in [Streams -> Nat]
  /\ exitStatus \in {-1, 0, 2, Signal}
  /\ {closeMutex, stdinMutex} \subseteq Callers \cup {Nobody}
  /\ tpc \in [Callers -> {"idle", "wait", "store", "close", "join", "stdin",
                          "fds", "kill", "write", "destroyed", "aborted", "signalled"}]
  /\ left \in [Callers -> 0 .. MaxWrite]
  /\ result \in [Callers -> {NotYet, -1, 0, 2, Signal}]

(* The constructor has opened the pipes, forked and started the reader.  The *)
(* library leaves SIGPIPE alone: it ends the program unless the program      *)
(* ignores it.                                                               *)
Init ==
  /\ child = "running" /\ raw = -1 /\ reused = FALSE /\ stray = FALSE
  /\ alive = {"child"} /\ inReaders = {"child"} /\ inPipe = 0
  /\ writers = [s \in Streams |-> {"child"}]
  /\ written = [s \in Streams |-> 0] /\ delivered = [s \in Streams |-> 0]
  /\ reader = IF Streams = {} THEN "none" ELSE "poll"
  /\ calling = FALSE /\ reading = Streams /\ toScan = {}
  /\ revents = [s \in Streams |-> "none"] /\ closeCalls = [s \in Streams |-> 0]
  /\ exitStatus = -1 /\ closed = FALSE
  /\ closeMutex = Nobody /\ stdinMutex = Nobody
  /\ stdinOpen = OpenStdin /\ outOpen = TRUE
  /\ sigpipe \in {"default", "ignored"}
  /\ tpc = [t \in Callers |-> "idle"] /\ left = [t \in Callers |-> 0]
  /\ result = [t \in Callers |-> NotYet]

-----------------------------------------------------------------------------
(* The child, what it leaves behind, and the kernel. *)

Outside == <<readerVars, objectVars, callerVars>>

Output(p, s) == /\ p \in writers[s]
                /\ written[s] < MaxOut
                /\ written[s] - delivered[s] < PipeSize
                /\ written' = [written EXCEPT ![s] = @ + 1]
                /\ UNCHANGED <<child, raw, reused, stray, alive, writers, inReaders, sigpipe, inPipe,
                               Outside>>

CloseOutput(p, s) == /\ p \in writers[s]
                     /\ writers' = [writers EXCEPT ![s] = @ \ {p}]
                     /\ UNCHANGED <<child, raw, reused, stray, alive, written, inReaders, sigpipe, inPipe,
                                    Outside>>

Input(p) == /\ p \in inReaders /\ inPipe > 0
            /\ inPipe' = inPipe - 1
            /\ UNCHANGED <<kernelVars, Outside>>

(* The child starts a process of its own, which inherits its pipes. *)
Spawn == /\ Descendants
         /\ alive = {"child"}
         /\ alive' = {"child", "descendant"}
         /\ writers' = [s \in Streams |-> IF writers[s] = {} THEN {} ELSE alive']
         /\ inReaders' = IF inReaders = {} THEN {} ELSE alive'
         /\ UNCHANGED <<child, raw, reused, stray, written, sigpipe, inPipe, Outside>>

(* The kernel closes what a process held. *)
Ends(ps) == /\ alive' = alive \ ps
            /\ writers' = [s \in Streams |-> writers[s] \ ps]
            /\ inReaders' = inReaders \ ps

Dies(status) == child' = "zombie" /\ raw' = status

Exit(code) == /\ child = "running"
              /\ Dies(code)
              /\ Ends({"child"})
              /\ UNCHANGED <<reused, stray, written, sigpipe, inPipe, Outside>>

DescendantExits == /\ "descendant" \in alive
                   /\ Ends({"descendant"})
                   /\ UNCHANGED <<child, raw, reused, stray, written, sigpipe, inPipe, Outside>>

(* The pid is also the name of the group that the descendant is in. *)
ReusePid == /\ child = "reaped" /\ ~reused
            /\ "descendant" \notin alive
            /\ reused' = TRUE
            /\ UNCHANGED <<child, raw, stray, alive, writers, written, inReaders, sigpipe, inPipe, Outside>>

-----------------------------------------------------------------------------
(* The thread started by async_read. *)

AtEnd(s) == delivered[s] = written[s] /\ writers[s] = {}

(* At the end of a pipe poll reports POLLHUP, or POLLIN on some systems. *)
Polled(s) == CASE delivered[s] < written[s] -> {"in"}
               [] AtEnd(s)                  -> {"in", "hup"}
               [] OTHER                     -> {"none"}

Poll == /\ reader = "poll" /\ ~calling
        /\ \E e \in [reading -> {"none", "in", "hup"}] :
              /\ \A s \in reading : e[s] \in Polled(s)
              /\ \E s \in reading : e[s] # "none"
              /\ revents' = [s \in Streams |-> IF s \in reading THEN e[s] ELSE "none"]
        /\ reader' = "scan" /\ toScan' = reading
        /\ UNCHANGED <<kernelVars, inPipe, delivered, calling, reading, closeCalls, objectVars,
                       callerVars>>

(* EINTR: the loop runs on what the poll before has found. *)
PollInterrupted == /\ reader = "poll" /\ ~calling
                   /\ reader' = "scan" /\ toScan' = reading
                   /\ UNCHANGED <<kernelVars, inPipe, delivered, calling, reading, revents,
                                  closeCalls, objectVars, callerVars>>

(* Mutant: any_open is not cleared before the streams are looked at. *)
ScanNeverDone(s) == /\ reader = "scan" /\ ~calling /\ s \in toScan
                    /\ "stdout" \in toScan => s = "stdout"
                    /\ toScan' = toScan \ {s}
                    /\ reader' = IF toScan' # {} THEN "scan" ELSE "poll"
                    /\ UNCHANGED <<kernelVars, inPipe, revents, objectVars, callerVars>>

(* stdout's pollfd precedes stderr's; any_open tells whether to go on. *)
ScanEnds(s) == /\ reader = "scan" /\ ~calling /\ s \in toScan
               /\ "stdout" \in toScan => s = "stdout"
               /\ toScan' = toScan \ {s}
               /\ reader' = CASE toScan' # {} -> "scan"
                              [] toScan' = {} /\ reading' # {} -> "poll"
                              [] OTHER -> "done"
               /\ UNCHANGED <<kernelVars, inPipe, revents, objectVars, callerVars>>

(* The callbacks run in the reader's thread; one that makes no calls returns *)
(* at once.                                                                 *)
InCallback == IF Reader \in Callers THEN BOOLEAN ELSE {FALSE}

Read(s) == /\ revents[s] = "in"
           /\ delivered[s] < written[s]
           /\ \E n \in delivered[s] + 1 .. written[s] : delivered' = [delivered EXCEPT ![s] = n]
           /\ calling' \in InCallback
           /\ UNCHANGED <<reading, closeCalls>>
           /\ ScanEnds(s)

(* read returned 0, or POLLHUP without POLLIN. *)
StreamCloses(s) == /\ \/ revents[s] = "in" /\ AtEnd(s)
                      \/ revents[s] = "hup"
                   /\ closeCalls' = [closeCalls EXCEPT ![s] = @ + 1]
                   /\ reading' = reading \ {s}
                   /\ calling' \in InCallback
                   /\ UNCHANGED delivered
                   /\ ScanEnds(s)

(* No event, or the non-blocking read of a stale POLLIN gave EAGAIN. *)
NothingToRead(s) == /\ \/ revents[s] = "none"
                       \/ revents[s] = "in" /\ delivered[s] = written[s] /\ writers[s] # {}
                    /\ UNCHANGED <<delivered, calling, reading, closeCalls>>
                    /\ ScanEnds(s)

CallbackReturns == /\ calling /\ tpc[Reader] = "idle"
                   /\ calling' = FALSE
                   /\ UNCHANGED <<kernelVars, inPipe, delivered, reader, reading, revents, toScan,
                                  closeCalls, objectVars, callerVars>>

ReaderStep == Poll \/ \E s \in Streams : Read(s) \/ StreamCloses(s) \/ NothingToRead(s)

-----------------------------------------------------------------------------
(* The members of Process, each a step or a few of the calling thread t.   *)

Quiet == <<kernelVars, inPipe, readerVars>>

Goto(t, from, to) == tpc[t] = from /\ tpc' = [tpc EXCEPT ![t] = to]

Return(t, from, status) == /\ Goto(t, from, "idle")
                           /\ result' = [result EXCEPT ![t] = status]

(* get_exit_status and try_get_exit_status; while the child runs, waitpid   *)
(* makes the one wait and the other return false, which changes nothing.    *)
GetExitStatus(t) == /\ Goto(t, "idle", "wait")
                    /\ UNCHANGED <<Quiet, objectVars, left, result>>

TryGetExitStatus(t) == child # "running" /\ GetExitStatus(t)

(* waitpid collects the zombie: the pid is free from here on. *)
Reap(t) == /\ child = "zombie" /\ child' = "reaped"
           /\ Goto(t, "wait", "store")
           /\ UNCHANGED <<raw, reused, stray, alive, writers, written, inReaders, sigpipe,
                          inPipe, readerVars, objectVars, left, result>>

(* ECHILD: another call was first, return what it has stored so far. *)
NoChild(t) == /\ child = "reaped"
              /\ Return(t, "wait", exitStatus)
              /\ UNCHANGED <<Quiet, objectVars, left>>

Store(t) == /\ Goto(t, "store", "close")
            /\ exitStatus' = Sampled
            /\ UNCHANGED <<Quiet, closed, closeMutex, stdinMutex, stdinOpen, outOpen, left, result>>

(* Mutant: closed is set without close_mutex. *)
SetClosedUnlocked(t) == /\ Goto(t, "close", "join")
                        /\ closed' = TRUE
                        /\ UNCHANGED <<Quiet, exitStatus, closeMutex, stdinMutex, stdinOpen,
                                       outOpen, left, result>>

SetClosed(t) == /\ Goto(t, "close", "join")
                /\ closeMutex = Nobody
                /\ closed' = TRUE
                /\ UNCHANGED <<Quiet, exitStatus, closeMutex, stdinMutex, stdinOpen, outOpen,
                               left, result>>

(* Mutant: close_fds does not join the reader. *)
JoinNobody(t) == /\ Goto(t, "join", "stdin")
                 /\ UNCHANGED <<Quiet, objectVars, left, result>>

(* close_fds: join the reader, close_stdin, close the output pipes. *)
Join(t) == /\ t # Reader
           /\ reader \in {"none", "done"} /\ ~calling
           /\ Goto(t, "join", "stdin")
           /\ UNCHANGED <<Quiet, objectVars, left, result>>

(* A thread that joins itself gets a system_error, which close_fds, being   *)
(* noexcept, does not let out: the program ends.                            *)
JoinSelf(t) == /\ t = Reader
               /\ Goto(t, "join", "aborted")
               /\ UNCHANGED <<Quiet, objectVars, left, result>>

(* Mutant: close_stdin does not take stdin_mutex. *)
CloseStdinFdUnlocked == /\ stdinOpen' = FALSE
                        /\ UNCHANGED <<exitStatus, closed, closeMutex, stdinMutex, outOpen>>

CloseStdinFd == /\ stdinMutex = Nobody
                /\ stdinOpen' = FALSE
                /\ UNCHANGED <<exitStatus, closed, closeMutex, stdinMutex, outOpen>>

CloseFdsStdin(t) == /\ Goto(t, "stdin", "fds")
                    /\ \/ stdinOpen /\ CloseStdinFd
                       \/ ~stdinOpen /\ UNCHANGED objectVars
                    /\ UNCHANGED <<Quiet, left, result>>

CloseFdsOut(t) == /\ \/ exitStatus # -1 /\ Return(t, "fds", exitStatus)
                     \/ exitStatus = -1 /\ Goto(t, "fds", "destroyed") /\ UNCHANGED result
                  /\ outOpen' = FALSE
                  /\ UNCHANGED <<Quiet, exitStatus, closed, closeMutex, stdinMutex, stdinOpen, left>>

(* kill and signal: the check and the signal are made under close_mutex. *)
KillBegins(t) == /\ closeMutex = Nobody /\ ~closed
                 /\ Goto(t, "idle", "kill")
                 /\ closeMutex' = t
                 /\ UNCHANGED <<Quiet, exitStatus, closed, stdinMutex, stdinOpen, outOpen,
                                left, result>>

(* The signal goes to the process group and to the pid.  A process may     *)
(* survive it; a pid that is nobody's gets nothing.                        *)
KillSends(t) ==
  /\ Goto(t, "kill", "idle")
  /\ closeMutex' = Nobody
  /\ stray' = (stray \/ (child = "reaped" /\ reused))
  /\ \E victims \in SUBSET alive :
        /\ Ends(victims)
        /\ \/ "child" \in victims /\ Dies(Signal)
           \/ "child" \notin victims /\ UNCHANGED <<child, raw>>
  /\ UNCHANGED <<reused, written, sigpipe, inPipe, readerVars, exitStatus, closed, stdinMutex,
                 stdinOpen, outOpen, left, result>>

(* write: stdin_mutex is held until everything is written or it fails. *)
WriteBegins(t, n) == /\ OpenStdin /\ stdinMutex = Nobody /\ stdinOpen
                     /\ Goto(t, "idle", "write")
                     /\ stdinMutex' = t
                     /\ left' = [left EXCEPT ![t] = n]
                     /\ UNCHANGED <<Quiet, exitStatus, closed, closeMutex, stdinOpen, outOpen, result>>

(* A call of ::write takes part of what is left, and blocks if none fits. *)
WriteSome(t) ==
  /\ tpc[t] = "write" /\ left[t] > 0 /\ inReaders # {}
  /\ \E n \in 1 .. left[t] : /\ inPipe + n <= PipeSize
                             /\ inPipe' = inPipe + n
                             /\ left' = [left EXCEPT ![t] = @ - n]
  /\ UNCHANGED <<kernelVars, readerVars, objectVars, tpc, result>>

(* n = 0, or EPIPE, of which a program hears that ignores SIGPIPE. *)
WriteReturns(t) == /\ left[t] = 0 \/ (inReaders = {} /\ sigpipe = "ignored")
                   /\ Goto(t, "write", "idle")
                   /\ stdinMutex' = Nobody
                   /\ left' = [left EXCEPT ![t] = 0]
                   /\ UNCHANGED <<Quiet, exitStatus, closed, closeMutex, stdinOpen, outOpen, result>>

(* A write to a pipe that nobody reads raises SIGPIPE: the program ends. *)
WriteSignalled(t) == /\ left[t] > 0 /\ inReaders = {} /\ sigpipe = "default"
                     /\ Goto(t, "write", "signalled")
                     /\ UNCHANGED <<Quiet, objectVars, left, result>>

CloseStdin(t) == /\ tpc[t] = "idle" /\ stdinOpen
                 /\ CloseStdinFd
                 /\ UNCHANGED <<Quiet, callerVars>>

(* The destructor closes the descriptors and waits for nobody but the      *)
(* reader.                                                                 *)
Destroy(t) == /\ \A u \in Callers : tpc[u] = "idle"
              /\ exitStatus = -1
              /\ Goto(t, "idle", "join")
              /\ UNCHANGED <<Quiet, objectVars, left, result>>

(* What a caller goes on to do once it has made its call. *)
Proceed(t) == \/ Reap(t) \/ NoChild(t) \/ Store(t) \/ SetClosed(t)
              \/ Join(t) \/ JoinSelf(t) \/ CloseFdsStdin(t) \/ CloseFdsOut(t)
              \/ KillSends(t) \/ WriteSome(t) \/ WriteReturns(t) \/ WriteSignalled(t)

(* Whether the program has ended, in the call of one of its threads. *)
Ended == \E t \in Callers : tpc[t] \in {"aborted", "signalled"}
=============================================================================
