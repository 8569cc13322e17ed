--------------------------- MODULE ProcessClients ---------------------------
(***************************************************************************)
(* A Process object used by threads that make any calls in any order, as    *)
(* far as their role goes: the examples and tests of tiny-process-library   *)
(* wait for the status in one thread and kill or write in another.          *)
(***************************************************************************)
EXTENDS Process

CONSTANTS Waiters,  (* callers of get_exit_status and try_get_exit_status *)
          Killers,  (* callers of kill and signal                         *)
          Writers   (* callers of write and close_stdin                   *)

ASSUME RolesAssumption == Waiters \cup Killers \cup Writers = Callers

ChildStep == \/ \E p \in alive : \/ \E s \in Streams : Output(p, s) \/ CloseOutput(p, s)
                                 \/ Input(p)
             \/ Spawn \/ DescendantExits \/ ReusePid
             \/ \E code \in ExitCodes : Exit(code)

(* The reader's thread makes its calls in callbacks. *)
MayCall(t) == /\ \A u \in Callers : tpc[u] # "destroyed"
              /\ t = Reader => calling

Call(t) == \/ t \in Waiters /\ (GetExitStatus(t) \/ TryGetExitStatus(t) \/ Destroy(t))
           \/ t \in Killers /\ KillBegins(t)
           \/ t \in Writers /\ (CloseStdin(t) \/ \E n \in 1 .. MaxWrite : WriteBegins(t, n))

Next == /\ ~Ended
        /\ \/ ChildStep
           \/ PollInterrupted \/ ReaderStep \/ CallbackReturns
           \/ \E t \in Callers : Proceed(t) \/ (MayCall(t) /\ Call(t))

Spec == Init /\ [][Next]_vars

(* Threads run, a poll is not interrupted for ever, and mutexes are not     *)
(* withheld for ever.  The child ends sooner or later; of what it leaves    *)
(* behind nothing is assumed.                                               *)
Fairness == /\ \A t \in Callers : SF_vars(Proceed(t))
            /\ SF_vars(Poll) /\ SF_vars(CallbackReturns)
            /\ \A s \in Streams : WF_vars(Read(s) \/ StreamCloses(s) \/ NothingToRead(s))
            /\ WF_vars(\E code \in ExitCodes : Exit(code))

FairSpec == Spec /\ Fairness
-----------------------------------------------------------------------------
Returned(t) == result[t] # NotYet

(* A call that returns a status returns the child's. *)
StatusIsTheChilds == \A t \in Waiters : Returned(t) => result[t] = Sampled

(* Whether nobody else is asking for the status or was told it. *)
AsksAlone(t) == \A u \in Waiters \ {t} :
  tpc[u] \in {"idle", "kill", "write", "signalled"} /\ ~Returned(u)

(* Whoever is told a status while nobody else asks, callbacks included, is  *)
(* told the child's, and all its output has been passed on by callbacks     *)
(* that have returned.                                                      *)
StatusAfterOutput ==
  \A t \in Waiters : Returned(t) /\ AsksAlone(t) =>
    /\ result[t] = Sampled
    /\ \A s \in Streams : closeCalls[s] = 1 /\ AtEnd(s)
    /\ ~calling

(* No descriptor is used by one thread, nor a callback called, after        *)
(* another thread has closed what it is about.                              *)
NoUseAfterClose == /\ reader \in {"poll", "scan"} \/ calling => outOpen
                   /\ \A t \in Callers : tpc[t] = "write" => stdinOpen

(* A signal goes to the child, to what it has left behind, or to nobody,    *)
(* once closed is set: a kill() on its way when get_exit_status sets it is  *)
(* waited for.  Only between waitpid and the setting of closed can it go to *)
(* a process that has been given the child's pid since.                     *)
SignalsReachTheChild ==
  [][stray' /\ ~stray => \E t \in Waiters : tpc[t] \in {"store", "close"}]_vars

(* Calls for the status and the destructor return once the child and what   *)
(* it has left behind have ended: nothing that they wait for waits for      *)
(* something else, and no end of a stream is overlooked, whatever calls the *)
(* callbacks make.  The program may end before: if a callback asks for the  *)
(* status of a child that has ended, or destroys the object, and if SIGPIPE *)
(* has its default action and a thread writes what nobody will read.        *)
StatusCallsReturn ==
  \A t \in Waiters :
     (tpc[t] \in {"wait", "store", "close", "join", "stdin", "fds"} /\ alive = {})
       ~> tpc[t] \in {"idle", "destroyed"} \/ Ended
=============================================================================
