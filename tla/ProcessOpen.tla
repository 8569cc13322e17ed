----------------------------- MODULE ProcessOpen -----------------------------
(***************************************************************************)
(* Process::open(function) on Unix (process_unix.cpp): pipes, fork, and who *)
(* holds which descriptor afterwards, for Process objects that several      *)
(* threads open at the same time.  open(command) and open(arguments) call   *)
(* it with a function that calls exec, which keeps the descriptors.         *)
(*                                                                          *)
(* A table of descriptors maps each number to the end of a pipe, to a file  *)
(* the program had open before, or to Free.                                 *)
(***************************************************************************)
EXTENDS Integers, FiniteSetsExt

CONSTANTS Processes,   (* the Process objects                              *)
          Piped,       (* the streams with a callback, or open_stdin       *)
          InheritFds,  (* config.inherit_file_descriptors                  *)
          Limit,       (* the descriptors a process may have               *)
          FdMax,       (* the bound of the loop that closes descriptors    *)
          Before       (* the descriptors the program had open before      *)

ASSUME OpenAssumption == /\ Piped \subseteq {"stdin", "stdout", "stderr"}
                         /\ InheritFds \in BOOLEAN
                         /\ Limit \in Nat \ {0} /\ FdMax \in Nat
                         /\ Before \subseteq 0 .. Limit - 1

VARIABLES fds,       (* the program's table                                 *)
          ends,      (* ends[p][s]: the two numbers in stdin_p and so on    *)
          opc,       (* opc[p]: where open is                               *)
          near,      (* near[p][s]: the number in *stdin_fd and so on       *)
          childFds,  (* childFds[p]: the table of p's child                 *)
          cpc,       (* cpc[p]: where p's child is                          *)
          astray     (* the objects of which a write went elsewhere         *)

openVars == <<fds, ends, opc, near, childFds, cpc, astray>>

Descriptors == 0 .. Limit - 1
Free == <<"free">>
Own(fd) == <<"own", fd>>
End(p, s, dir) == <<p, s, dir>>

(* The child's end of a stream and the program's. *)
Far(p, s) == End(p, s, IF s = "stdin" THEN "read" ELSE "write")
Near(p, s) == End(p, s, IF s = "stdin" THEN "write" ELSE "read")

PipeEnds == {End(p, s, dir) : p \in Processes, s \in Piped, dir \in {"read", "write"}}
Tables == [Descriptors -> {Free} \cup {Own(fd) : fd \in Before} \cup PipeEnds]

(* What *stdin_fd holds: new int leaves it uninitialised; reset() unsets it. *)
Uninitialised == -1
Null == -2

Order == <<"stdin", "stdout", "stderr", "fork">>
From(i) == Min({j \in i .. 4 : Order[j] \in Piped \cup {"fork"}})
After(s) == Order[From(1 + CHOOSE i \in 1 .. 3 : Order[i] = s)]

OpenTypeOK == /\ fds \in Tables
              /\ ends \in [Processes -> [Piped -> [{"read", "write"} -> Descriptors]]]
              /\ opc \in [Processes -> {"stdin", "stdout", "stderr", "fork", "forked",
                                        "opened", "failed", "closed"}]
              /\ near \in [Processes -> [Piped -> Descriptors \cup {Uninitialised, Null}]]
              /\ childFds \in [Processes -> Tables]
              /\ cpc \in [Processes -> {"none", "dup", "close", "rest", "runs", "exited"}]
              /\ astray \subseteq Processes

OpenInit == /\ fds = [fd \in Descriptors |-> IF fd \in Before THEN Own(fd) ELSE Free]
            /\ ends = [p \in Processes |-> [s \in Piped |-> [dir \in {"read", "write"} |-> 0]]]
            /\ opc = [p \in Processes |-> Order[From(1)]]
            /\ near = [p \in Processes |-> [s \in Piped |-> Uninitialised]]
            /\ childFds = [p \in Processes |-> [fd \in Descriptors |-> Free]]
            /\ cpc = [p \in Processes |-> "none"]
            /\ astray = {}

Close(table, numbers) == [fd \in Descriptors |-> IF fd \in numbers THEN Free ELSE table[fd]]

Unused(table) == {fd \in Descriptors : table[fd] = Free}

(* The numbers of p's pipes for the streams ss. *)
Numbers(p, ss) == {ends[p][s][dir] : s \in ss, dir \in {"read", "write"}}

-----------------------------------------------------------------------------
(* The thread in open. *)

OpenFails(p) == /\ opc' = [opc EXCEPT ![p] = "failed"]
                /\ UNCHANGED <<ends, near, childFds, cpc, astray>>

(* pipe() takes the two lowest free numbers. *)
Pipe(p, s) ==
  /\ opc[p] = s
  /\ Cardinality(Unused(fds)) >= 2
  /\ LET r == Min(Unused(fds))
         w == Min(Unused(fds) \ {r})
     IN  /\ fds' = [fds EXCEPT ![r] = End(p, s, "read"), ![w] = End(p, s, "write")]
         /\ ends' = [ends EXCEPT ![p][s] = [read |-> r, write |-> w]]
  /\ opc' = [opc EXCEPT ![p] = After(s)]
  /\ UNCHANGED <<near, childFds, cpc, astray>>

(* Mutant: the pipes made before are not closed. *)
PipeFailsOpen(p, s) ==
  /\ opc[p] = s
  /\ Cardinality(Unused(fds)) < 2
  /\ UNCHANGED fds
  /\ OpenFails(p)

PipeFails(p, s) ==
  /\ opc[p] = s
  /\ Cardinality(Unused(fds)) < 2
  /\ fds' = Close(fds, Numbers(p, Piped \cap CASE s = "stdin" -> {}
                                               [] s = "stdout" -> {"stdin"}
                                               [] s = "stderr" -> {"stdin", "stdout"}))
  /\ OpenFails(p)

Fork(p) == /\ opc[p] = "fork"
           /\ opc' = [opc EXCEPT ![p] = "forked"]
           /\ childFds' = [childFds EXCEPT ![p] = fds]
           /\ cpc' = [cpc EXCEPT ![p] = "dup"]
           /\ UNCHANGED <<fds, ends, near, astray>>

ForkFails(p) == /\ opc[p] = "fork"
                /\ fds' = Close(fds, Numbers(p, Piped))
                /\ OpenFails(p)

(* Mutant: the program keeps the child's ends of the pipes. *)
ParentKeepsFar(p) ==
  /\ opc[p] = "forked"
  /\ near' = [near EXCEPT ![p] = [s \in Piped |-> ends[p][s][Near(p, s)[3]]]]
  /\ opc' = [opc EXCEPT ![p] = "opened"]
  /\ UNCHANGED <<fds, ends, childFds, cpc, astray>>

(* The parent's half of open, which sets data.id. *)
ParentKeepsNear(p) ==
  /\ opc[p] = "forked"
  /\ fds' = Close(fds, {ends[p][s][Far(p, s)[3]] : s \in Piped})
  /\ near' = [near EXCEPT ![p] = [s \in Piped |-> ends[p][s][Near(p, s)[3]]]]
  /\ opc' = [opc EXCEPT ![p] = "opened"]
  /\ UNCHANGED <<ends, childFds, cpc, astray>>

-----------------------------------------------------------------------------
(* The child. *)

SetUpStep(p, from, to) == /\ cpc[p] = from /\ cpc' = [cpc EXCEPT ![p] = to]
                          /\ UNCHANGED <<fds, ends, opc, near, astray>>

(* dup2(stream's end, n). *)
Dup(p, table, s, n) ==
  IF s \in Piped THEN [table EXCEPT ![n] = table[ends[p][s][Far(p, s)[3]]]] ELSE table

ChildDups(p) ==
  /\ SetUpStep(p, "dup", "close")
  /\ childFds' = [childFds EXCEPT ![p] =
                    Dup(p, Dup(p, Dup(p, @, "stdin", 0), "stdout", 1), "stderr", 2)]

ChildCloses(p) == /\ SetUpStep(p, "close", "rest")
                  /\ childFds' = [childFds EXCEPT ![p] = Close(@, Numbers(p, Piped))]

ChildClosesRest(p) ==
  /\ SetUpStep(p, "rest", "runs")
  /\ childFds' = [childFds EXCEPT ![p] = IF InheritFds THEN @ ELSE Close(@, 3 .. FdMax - 1)]

ChildExits(p) == /\ SetUpStep(p, "runs", "exited")
                 /\ childFds' = [childFds EXCEPT ![p] = [fd \in Descriptors |-> Free]]

-----------------------------------------------------------------------------
(* The object once open has returned. *)

(* write() asks for open_stdin and stdin_fd only.  A file that is not open *)
(* gives EBADF.                                                             *)
WriteTo(p) ==
  /\ "stdin" \in Piped /\ near[p]["stdin"] # Null
  /\ opc[p] \in {"opened", "failed"}
  /\ \E fd \in IF near[p]["stdin"] = Uninitialised THEN Descriptors ELSE {near[p]["stdin"]} :
        astray' = IF fds[fd] \in {Free, Near(p, "stdin")} THEN astray ELSE astray \cup {p}
  /\ UNCHANGED <<fds, ends, opc, near, childFds, cpc>>

(* Mutant: the number is closed and kept. *)
ResetFdsOnly(p, ss) ==
  /\ fds' = IF opc[p] = "opened" THEN Close(fds, {near[p][s] : s \in ss}) ELSE fds
  /\ UNCHANGED near

(* close_stdin() and close_fds() close a number only if there is a child. *)
Reset(p, ss) ==
  /\ fds' = IF opc[p] = "opened" THEN Close(fds, {near[p][s] : s \in ss}) ELSE fds
  /\ near' = [near EXCEPT ![p] = [s \in Piped |-> IF s \in ss THEN Null ELSE @[s]]]

CloseStdinOf(p) == /\ opc[p] \in {"opened", "failed"}
                   /\ "stdin" \in Piped /\ near[p]["stdin"] # Null
                   /\ Reset(p, {"stdin"})
                   /\ UNCHANGED <<ends, opc, childFds, cpc, astray>>

Held(p, s) == \/ \E fd \in Descriptors : fds[fd] = Far(p, s)
              \/ \E q \in Processes, fd \in Descriptors : childFds[q][fd] = Far(p, s)

(* close_fds() joins the reader first, which reads until the streams end. *)
CloseFds(p) ==
  /\ \/ opc[p] = "failed"
     \/ opc[p] = "opened" /\ \A s \in Piped \ {"stdin"} : ~Held(p, s)
  /\ Reset(p, {s \in Piped : near[p][s] # Null})
  /\ opc' = [opc EXCEPT ![p] = "closed"]
  /\ UNCHANGED <<ends, childFds, cpc, astray>>

OpenStep(p) == \/ \E s \in Piped : Pipe(p, s) \/ PipeFails(p, s)
               \/ Fork(p) \/ ForkFails(p) \/ ParentKeepsNear(p)

ChildSetsUp(p) == ChildDups(p) \/ ChildCloses(p) \/ ChildClosesRest(p)

OpenNext == \E p \in Processes : \/ OpenStep(p)
                                 \/ ChildSetsUp(p) \/ ChildExits(p)
                                 \/ WriteTo(p) \/ CloseStdinOf(p) \/ CloseFds(p)

OpenSpec == OpenInit /\ [][OpenNext]_openVars

(* open() and the child's half of it run; the programs the children run may *)
(* never end.                                                               *)
OpenFairSpec ==
  OpenSpec /\ \A p \in Processes : WF_openVars(OpenStep(p)) /\ WF_openVars(ChildSetsUp(p))
-----------------------------------------------------------------------------
ProgramHoldsItsEnds ==
  /\ \A p \in Processes :
       LET mine == {e \in PipeEnds : e[1] = p /\ \E fd \in Descriptors : fds[fd] = e}
       IN  CASE opc[p] = "opened" -> mine = {Near(p, s) : s \in {s \in Piped : near[p][s] # Null}}
             [] opc[p] \in {"failed", "closed"} -> mine = {}
             [] OTHER -> TRUE
  /\ \A fd \in Before : fds[fd] = Own(fd)

ChildrenHoldTheirEnds ==
  \A p \in Processes, fd \in Descriptors : cpc[p] = "runs" =>
    childFds[p][fd] = IF fd > 2 THEN Free
                      ELSE IF Order[fd + 1] \in Piped THEN Far(p, Order[fd + 1])
                      ELSE IF fd \in Before THEN Own(fd) ELSE Free

(* The program holds its own ends of the pipes of a process that runs, none *)
(* of one that could not be opened or is closed, and still all it had.      *)
(* stdin, stdout and stderr of a child are its ends of the pipes, and those *)
(* of the program where there is no pipe; it holds nothing else, no end of  *)
(* another process's pipes and no file of the program.                      *)
EndsAreHeldByTheirOwners == ProgramHoldsItsEnds /\ ChildrenHoldTheirEnds

(* The streams of a child end when it exits, though another child runs on. *)
StreamsEnd ==
  \A p \in Processes, s \in Piped : cpc[p] = "exited" ~> ~Held(p, s)

(* What is written to a Process that has been opened goes to the stdin of   *)
(* its child, or nowhere: the numbers it keeps are never those of files     *)
(* opened since.  One that could not be opened writes anywhere.             *)
WriteGoesToStdin == \A p \in astray : cpc[p] = "none"
=============================================================================
