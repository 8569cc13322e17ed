---------------------------- MODULE ProcessWinOpen ----------------------------
(***************************************************************************)
(* Process::open on Windows (process_win.cpp): the handles of the pipes of  *)
(* Process objects that several threads open at the same time.  A child     *)
(* inherits every inheritable handle of the program, so open keeps others   *)
(* out with create_process_mutex while its handles are inheritable.         *)
(*                                                                          *)
(* The Handle objects that own the six ends are declared before the lock    *)
(* guard: at the return of open the lock is released first, and only then   *)
(* do they close what they still own.                                       *)
(***************************************************************************)
EXTENDS Integers, FiniteSets

CONSTANTS Processes,   (* the Process objects, each opened by its own thread *)
          Piped,       (* the streams with a callback, or open_stdin         *)
          InheritFds,  (* config.inherit_file_descriptors                    *)
          NoOpener     (* the holder of a free mutex                         *)

ASSUME WinOpenAssumption == /\ Piped \subseteq {"stdin", "stdout", "stderr"}
                            /\ InheritFds \in BOOLEAN
                            /\ NoOpener \notin Processes

VARIABLES mutex,        (* the holder of create_process_mutex                *)
          handles,      (* the ends the program holds                        *)
          inheritable,  (* those of them that are inherited                  *)
          owned,        (* owned[p]: the ends that Handle objects will close *)
          opc,          (* opc[p]: where open is                             *)
          todo,         (* todo[p]: the streams that have no pipe yet        *)
          held,         (* held[p]: the ends that p's child holds            *)
          cpc           (* cpc[p]: where p's child is                        *)

openVars == <<mutex, handles, inheritable, owned, opc, todo, held, cpc>>

(* The end of a stream that the child uses, and the program's. *)
Far(p, s) == <<p, s, "far">>
Near(p, s) == <<p, s, "near">>
PipeEnds == {Far(p, s) : p \in Processes, s \in Piped}
              \cup {Near(p, s) : p \in Processes, s \in Piped}

OpenTypeOK == /\ mutex \in Processes \cup {NoOpener}
              /\ handles \subseteq PipeEnds /\ inheritable \subseteq handles
              /\ owned \in [Processes -> SUBSET PipeEnds]
              /\ opc \in [Processes -> {"lock", "pipe", "inherit", "create", "unlock", "close",
                                        "opened", "failed", "closed"}]
              /\ todo \in [Processes -> SUBSET Piped]
              /\ held \in [Processes -> SUBSET PipeEnds]
              /\ cpc \in [Processes -> {"none", "runs", "exited"}]

OpenInit == /\ mutex = NoOpener
            /\ handles = {} /\ inheritable = {}
            /\ owned = [p \in Processes |-> {}]
            /\ opc = [p \in Processes |-> "lock"]
            /\ todo = [p \in Processes |-> Piped]
            /\ held = [p \in Processes |-> {}]
            /\ cpc = [p \in Processes |-> "none"]

OpenGoto(p, from, to) == opc[p] = from /\ opc' = [opc EXCEPT ![p] = to]

CloseHandles(hs) == handles' = handles \ hs /\ inheritable' = inheritable \ hs

(* stdin's pipe is made first, stderr's last. *)
NextStream(p) == CASE "stdin" \in todo[p]  -> "stdin"
                   [] "stdout" \in todo[p] -> "stdout"
                   [] OTHER                -> "stderr"

(* Mutant: there is no create_process_mutex. *)
NoLock(p) == /\ OpenGoto(p, "lock", IF Piped = {} THEN "create" ELSE "pipe")
             /\ UNCHANGED <<mutex, handles, inheritable, owned, todo, held, cpc>>

Lock(p) == /\ mutex = NoOpener /\ mutex' = p
           /\ OpenGoto(p, "lock", IF Piped = {} THEN "create" ELSE "pipe")
           /\ UNCHANGED <<handles, inheritable, owned, todo, held, cpc>>

(* CreatePipe with bInheritHandle: both ends are inheritable. *)
CreatePipe(p) ==
  LET new == {Near(p, NextStream(p)), Far(p, NextStream(p))}
  IN  /\ OpenGoto(p, "pipe", "inherit")
      /\ handles' = handles \cup new
      /\ inheritable' = inheritable \cup new
      /\ owned' = [owned EXCEPT ![p] = @ \cup new]
      /\ UNCHANGED <<mutex, todo, held, cpc>>

SetHandleInformation(p) ==
  /\ todo' = [todo EXCEPT ![p] = @ \ {NextStream(p)}]
  /\ OpenGoto(p, "inherit", IF todo'[p] = {} THEN "create" ELSE "pipe")
  /\ inheritable' = inheritable \ {Near(p, NextStream(p))}
  /\ UNCHANGED <<mutex, handles, owned, held, cpc>>

(* Handles are inherited if there is a pipe, or if the config says so. *)
CreateProcess(p) ==
  /\ OpenGoto(p, "create", "unlock")
  /\ held' = [held EXCEPT ![p] = IF Piped # {} \/ InheritFds THEN inheritable ELSE {}]
  /\ cpc' = [cpc EXCEPT ![p] = "runs"]
  /\ owned' = [owned EXCEPT ![p] = @ \ {Near(p, s) : s \in Piped}]
  /\ UNCHANGED <<mutex, handles, inheritable, todo>>

(* Mutant: the near ends are detached whether there is a child or not. *)
FailDetached(p) == /\ opc[p] \in {"pipe", "inherit", "create"}
                   /\ opc' = [opc EXCEPT ![p] = "unlock"]
                   /\ owned' = [owned EXCEPT ![p] = @ \ {Near(p, s) : s \in Piped}]
                   /\ UNCHANGED <<mutex, handles, inheritable, todo, held, cpc>>

(* Any of the calls may fail: open returns 0. *)
Fail(p) == /\ opc[p] \in {"pipe", "inherit", "create"}
           /\ opc' = [opc EXCEPT ![p] = "unlock"]
           /\ UNCHANGED <<mutex, handles, inheritable, owned, todo, held, cpc>>

Unlock(p) == /\ OpenGoto(p, "unlock", "close")
             /\ mutex' = NoOpener
             /\ UNCHANGED <<handles, inheritable, owned, todo, held, cpc>>

(* The destructors of the Handle objects. *)
CloseOwned(p) == /\ OpenGoto(p, "close", IF cpc[p] = "none" THEN "failed" ELSE "opened")
                 /\ CloseHandles(owned[p])
                 /\ owned' = [owned EXCEPT ![p] = {}]
                 /\ UNCHANGED <<mutex, todo, held, cpc>>

ChildExits(p) == /\ cpc[p] = "runs" /\ cpc' = [cpc EXCEPT ![p] = "exited"]
                 /\ held' = [held EXCEPT ![p] = {}]
                 /\ UNCHANGED <<mutex, handles, inheritable, owned, opc, todo>>

OpenElsewhere(p, s) == Far(p, s) \in handles \/ \E q \in Processes : Far(p, s) \in held[q]

(* close_fds() waits for the streams to end. *)
CloseFds(p) == /\ \/ OpenGoto(p, "failed", "closed")
                  \/ /\ OpenGoto(p, "opened", "closed")
                     /\ \A s \in Piped \ {"stdin"} : ~OpenElsewhere(p, s)
               /\ CloseHandles({Near(p, s) : s \in Piped})
               /\ UNCHANGED <<mutex, owned, todo, held, cpc>>

OpenStep(p) == \/ Lock(p) \/ CreatePipe(p) \/ SetHandleInformation(p)
               \/ CreateProcess(p) \/ Fail(p) \/ Unlock(p) \/ CloseOwned(p)

OpenNext == \E p \in Processes : OpenStep(p) \/ ChildExits(p) \/ CloseFds(p)

OpenSpec == OpenInit /\ [][OpenNext]_openVars
-----------------------------------------------------------------------------
(* No child holds the program's end of a pipe in use, its own or another's: *)
(* closing stdin reaches the child whose stdin it is.                       *)
NoChildHoldsNearEnds ==
  \A p, q \in Processes, s \in Piped : cpc[p] # "none" => Near(p, s) \notin held[q]

(* Whatever fails, the program holds the near ends of the processes it has  *)
(* opened and of no other, and nothing that is left inheritable.            *)
NoHandleLeak ==
  /\ \A p \in Processes : opc[p] \in {"opened", "failed", "closed"} =>
       {e \in handles : e[1] = p} = IF opc[p] = "opened" THEN {Near(p, s) : s \in Piped} ELSE {}
  /\ (\A p \in Processes : opc[p] \in {"lock", "opened", "failed", "closed"}) => inheritable = {}
=============================================================================
