-------------------------------- MODULE Task --------------------------------
(***************************************************************************)
(* Utilities::Task (task.cpp, task.hpp): run a command as a child process,  *)
(* write the request to its stdin, wait for its exit status and take its    *)
(* stdout for the response, or its stderr for the message of an             *)
(* execution_error.  The steps of Process are those of the module Process,  *)
(* with one caller and both output streams.                                 *)
(*                                                                          *)
(* What the command does with its stdin is the client's choice: it reads a  *)
(* request of known length and answers (the length prefix convert_parameter *)
(* writes), answers every chunk as it comes, reads to the end of the input  *)
(* before it answers, or fails without reading.                             *)
(***************************************************************************)
EXTENDS Process

CONSTANTS Caller,   (* the thread in Task::execute          *)
          Request,  (* chunks in the request                *)
          Commands  (* the kinds of command that may be run *)

(* One thread has the Process, which has both callbacks and a stdin. *)
TaskConstants == /\ Callers = {Caller} /\ Reader # Caller
                 /\ OpenStdin /\ ~Descendants
                 /\ Streams = {"stdout", "stderr"}
                 /\ Request \in 1 .. MaxWrite
                 /\ Commands \subseteq {"framed", "filter", "to end", "failing"}

VARIABLES command,   (* the kind of the command                            *)
          got,       (* chunks of the request the command has read         *)
          step,      (* where the caller is in _run_process                *)
          taken      (* taken[s]: chunks of s the caller has taken at the end *)

taskVars == <<command, got, step, taken>>
allVars == <<vars, taskVars>>

TaskTypeOK == /\ TypeOK
              /\ command \in Commands
              /\ got \in 0 .. Request
              /\ step \in {"write", "writing", "status", "waiting", "done", "failed"}
              /\ taken \in [Streams -> 0 .. MaxOut]

TaskInit == /\ Init
            /\ command \in Commands
            /\ got = 0
            /\ step = "write"
            /\ taken = [s \in Streams |-> 0]

-----------------------------------------------------------------------------
(* The command. *)

EndOfInput == inPipe = 0 /\ ~stdinOpen

Reads == /\ command # "failing"
         /\ Input("child")
         /\ got' = got + 1
         /\ UNCHANGED <<command, step, taken>>

(* When the command has read enough to write the next chunk of its answer. *)
MayAnswer == CASE command = "framed"  -> got = Request
               [] command = "filter"  -> written["stdout"] < got
               [] command = "to end"  -> EndOfInput
               [] command = "failing" -> FALSE

Answers == /\ MayAnswer
           /\ Output("child", "stdout")
           /\ UNCHANGED taskVars

Complains == /\ command = "failing"
             /\ Output("child", "stderr")
             /\ UNCHANGED taskVars

(* A command that succeeds has written its whole answer. *)
Succeeds == /\ MayAnswer \/ (command = "filter" /\ got = Request)
         /\ written["stdout"] = MaxOut
         /\ Exit(0)
         /\ UNCHANGED taskVars

Fails == /\ command = "failing"
         /\ Exit(512)
         /\ UNCHANGED taskVars

CommandStep == Reads \/ Answers \/ Complains \/ Succeeds \/ Fails

-----------------------------------------------------------------------------
(* Task::_run_process *)

(* process.write(in): its result is not looked at. *)
Write == /\ step = "write" /\ step' = "writing"
         /\ WriteBegins(Caller, Request)
         /\ UNCHANGED <<command, got, taken>>

(* Mutant: the write is retried until the command has read the request. *)
AskStatusWhenRead == /\ step = "writing" /\ step' = "waiting"
                     /\ got = Request
                     /\ GetExitStatus(Caller)
                     /\ UNCHANGED <<command, got, taken>>

(* process.get_exit_status(), with stdin still open. *)
AskStatus == /\ step = "writing" /\ step' = "waiting"
             /\ GetExitStatus(Caller)
             /\ UNCHANGED <<command, got, taken>>

(* Mutant: the output is taken as soon as the command has ended. *)
TakeEarly == /\ step = "waiting" /\ child = "reaped"
             /\ step' = IF Sampled = 0 THEN "done" ELSE "failed"
             /\ taken' = delivered
             /\ UNCHANGED <<vars, command, got>>

(* out is made of ssOut, or the message of execution_error of ssErr. *)
Take == /\ step = "waiting" /\ tpc[Caller] = "idle"
        /\ step' = IF result[Caller] = 0 THEN "done" ELSE "failed"
        /\ taken' = delivered
        /\ UNCHANGED <<vars, command, got>>

InCall == Proceed(Caller) /\ UNCHANGED taskVars

ReadsOutput == ReaderStep /\ UNCHANGED taskVars

Interrupted == PollInterrupted /\ UNCHANGED taskVars

TaskNext == /\ ~Ended
            /\ \/ CommandStep
               \/ Write \/ AskStatus \/ Take \/ InCall
               \/ ReadsOutput \/ Interrupted

TaskSpec == TaskInit /\ [][TaskNext]_allVars

(* The threads of the program run, and so does the command. *)
TaskFairness == /\ WF_allVars(CommandStep)
                /\ WF_allVars(Write) /\ WF_allVars(AskStatus) /\ WF_allVars(Take)
                /\ WF_allVars(InCall)
                /\ SF_allVars(Poll /\ UNCHANGED taskVars) /\ WF_allVars(ReadsOutput)

FairTaskSpec == TaskSpec /\ TaskFairness
-----------------------------------------------------------------------------
(* The response is all the command has written to its stdout.  A command    *)
(* that fails makes execute throw, with all the command has written to its  *)
(* stderr; no other command makes it throw.                                 *)
ResponseIsComplete ==
  /\ step = "done" => taken["stdout"] = MaxOut
  /\ step \in {"done", "failed"} => (step = "failed" <=> command = "failing")
  /\ step = "failed" => taken["stderr"] = written["stderr"]

(* execute ends: a request and a response larger than the pipes do not make *)
(* the caller and the command wait for each other.  But a command that      *)
(* fails, having read less of its request than the pipe leaves over, may    *)
(* not make execute throw: in a program that does not ignore SIGPIPE it may *)
(* end the program.                                                         *)
ExecuteEnds ==
  command # "to end" =>
    \/ <>(step \in {"done", "failed"})
    \/ command = "failing" /\ sigpipe = "default" /\ <>Ended
=============================================================================
