----------------------------- MODULE CommandText -----------------------------
(***************************************************************************)
(* The texts Process::open makes of its arguments: join_arguments on        *)
(* Windows (process_win.cpp), the path in the shell's command and the       *)
(* search of PATH where there is no execvpe on Unix (process_unix.cpp); and *)
(* how the C runtime of the child, the shell and POSIX read such texts.     *)
(***************************************************************************)
EXTENDS Naturals, Sequences, SequencesExt, FiniteSetsExt

CONSTANT PathMax   (* PATH_MAX *)

ASSUME PathMaxAssumption == PathMax \in Nat

Blank == " "   (* any of the characters of CharSet::whitespace but the quote *)
Mark == "\""
Backslash == "\\"
Apostrophe == "'"
Colon == ":"

Backslashes(n) == [k \in 1..n |-> Backslash]

-----------------------------------------------------------------------------
(* join_arguments. *)

NeedsQuotes(arg) == arg = <<>> \/ {Blank, Mark} \cap ToSet(arg) # {}

(* What is not a backslash, from i on: the first place, or the end of arg. *)
PastBackslashes(arg, i) == Min({k \in i..Len(arg) + 1 : k = Len(arg) + 1 \/ arg[k] # Backslash})

(* Mutant: backslashes at the end stay as they are. *)
QuotedShort(arg) ==
  LET rest[i \in 1..Len(arg) + 1] ==
        LET j == PastBackslashes(arg, i)
        IN IF j > Len(arg) THEN Backslashes(j - i)
           ELSE Backslashes(IF arg[j] = Mark THEN 2 * (j - i) + 1 ELSE j - i)
                  \o <<arg[j]>> \o rest[j + 1]
  IN <<Mark>> \o rest[1] \o <<Mark>>

(* Backslashes are doubled in front of a quote, which is the one at the end *)
(* or gets another one.                                                     *)
Quoted(arg) ==
  LET rest[i \in 1..Len(arg) + 1] ==
        LET j == PastBackslashes(arg, i)
        IN IF j > Len(arg) THEN Backslashes(2 * (j - i))
           ELSE Backslashes(IF arg[j] = Mark THEN 2 * (j - i) + 1 ELSE j - i)
                  \o <<arg[j]>> \o rest[j + 1]
  IN <<Mark>> \o rest[1] \o <<Mark>>

JoinArguments(args) ==
  FoldLeft(LAMBDA ret, arg : (IF ret = <<>> THEN <<>> ELSE ret \o <<Blank>>)
                               \o (IF NeedsQuotes(arg) THEN Quoted(arg) ELSE arg),
           <<>>, args)

(* The C runtime's argv: a name, in which backslashes mean nothing, up to a *)
(* space outside of quotes; then arguments, where 2n and 2n + 1 backslashes *)
(* before a quote are n, and the quote opens or closes, or is one.          *)
ReadName(s, c) ==
  CASE c = Mark -> [s EXCEPT !.quoted = ~@]
    [] c = Blank /\ ~s.quoted -> [s EXCEPT !.named = TRUE]
    [] OTHER -> [s EXCEPT !.name = Append(@, c)]

ReadArgument(s, c) ==
  CASE c = Backslash -> [s EXCEPT !.slashes = @ + 1, !.inside = TRUE]
    [] c = Mark ->
         [s EXCEPT !.arg = @ \o Backslashes(s.slashes \div 2)
                             \o (IF s.slashes % 2 = 1 THEN <<Mark>> ELSE <<>>),
                   !.quoted = IF s.slashes % 2 = 1 THEN @ ELSE ~@,
                   !.slashes = 0, !.inside = TRUE]
    [] c = Blank /\ ~s.quoted ->
         [s EXCEPT !.args = IF s.inside THEN Append(@, s.arg \o Backslashes(s.slashes)) ELSE @,
                   !.arg = <<>>, !.slashes = 0, !.inside = FALSE]
    [] OTHER ->
         [s EXCEPT !.arg = @ \o Backslashes(s.slashes) \o <<c>>,
                   !.slashes = 0, !.inside = TRUE]

ReadChar(s, c) == IF s.named THEN ReadArgument(s, c) ELSE ReadName(s, c)

Argv(line) ==
  LET start == [name |-> <<>>, named |-> FALSE, args |-> <<>>, arg |-> <<>>,
                quoted |-> FALSE, slashes |-> 0, inside |-> FALSE]
      s == FoldLeft(ReadChar, start, Append(line, Blank))
  IN <<s.name>> \o s.args

-----------------------------------------------------------------------------
(* cd_path_and_command, behind "cd ": the path in apostrophes, and what     *)
(* follows it.                                                              *)

Escaped(path) ==
  FlattenSeq([i \in DOMAIN path |->
    IF path[i] = Apostrophe THEN <<Apostrophe, Backslash, Apostrophe, Apostrophe>> ELSE <<path[i]>>])

CdPath(path) == <<Apostrophe>> \o Escaped(path) \o <<Apostrophe, Blank, "&", "&">>

(* The first word the shell reads. *)
ReadWord(s, c) ==
  CASE s.done -> s
    [] ~s.done /\ s.escaped -> [s EXCEPT !.word = Append(@, c), !.escaped = FALSE]
    [] ~s.done /\ ~s.escaped /\ c = Apostrophe -> [s EXCEPT !.quoted = ~@]
    [] ~s.done /\ ~s.escaped /\ ~s.quoted /\ c = Backslash -> [s EXCEPT !.escaped = TRUE]
    [] ~s.done /\ ~s.escaped /\ ~s.quoted /\ c = Blank -> [s EXCEPT !.done = TRUE]
    [] OTHER -> [s EXCEPT !.word = Append(@, c)]

Word(text) ==
  FoldLeft(ReadWord, [word |-> <<>>, quoted |-> FALSE, escaped |-> FALSE, done |-> FALSE], text).word

-----------------------------------------------------------------------------
(* portable_execvpe: execve is tried in one directory of PATH after the     *)
(* other until it does not return or fails for another reason than that     *)
(* there is nothing to execute.  The file is a name without a slash.        *)
(* outcome[dir] is what execve does: it runs the file, or gives an errno.   *)
(* The directory without a name is the root.                                *)

NotFound == {"EACCES", "ENOENT"}

(* Mutant: what may not be executed ends the search. *)
TryEaccesEnds(s, dir, outcome) ==
  IF s.ended \/ Len(dir) > PathMax THEN s
  ELSE [ended |-> outcome[dir] # "ENOENT", errno |-> outcome[dir],
        eacces |-> s.eacces, dir |-> dir]

Try(s, dir, outcome) ==
  IF s.ended \/ Len(dir) > PathMax THEN s
  ELSE [ended |-> outcome[dir] \notin NotFound, errno |-> outcome[dir],
        eacces |-> s.eacces \/ outcome[dir] = "EACCES", dir |-> dir]

(* Directories end at colons; nothing comes behind a colon at the end. *)
Directories(path) ==
  LET from[i \in 1..Len(path) + 1] ==
        LET colons == {j \in i..Len(path) : path[j] = Colon}
            next == IF colons = {} THEN Len(path) + 1 ELSE Min(colons)
        IN IF i > Len(path) THEN <<>>
           ELSE <<SubSeq(path, i, next - 1)>>
                  \o (IF next = Len(path) + 1 THEN <<>> ELSE from[next + 1])
  IN from[1]

(* The directory that the file was run in, or the errno in the end.  When   *)
(* nothing was tried errno is what it was.                                  *)
Execvpe(path, outcome, errno) ==
  LET s == FoldLeft(LAMBDA t, dir : Try(t, dir, outcome),
                    [ended |-> FALSE, errno |-> errno, eacces |-> FALSE, dir |-> <<>>],
                    Directories(path))
  IN IF s.ended THEN [dir |-> s.dir, errno |-> s.errno]
     ELSE [dir |-> <<>>, errno |-> IF s.eacces THEN "EACCES" ELSE s.errno]
=============================================================================
