------------------------------- MODULE CmdLine -------------------------------
(***************************************************************************)
(* The command line parser (cmd_line_parser.hpp): Combine makes one line of *)
(* main's arguments, ParseArguments parts a line at its flags, ArgFromString *)
(* parts what belongs to one flag into its prefix and its parameters, and   *)
(* the map that comes out is asked for a flag.                              *)
(*                                                                          *)
(* Characters are abstract: what the parser tells apart is a dash, a quote, *)
(* a space and the rest.  A C string is the sequence of what comes before   *)
(* its end.  Where the code reads memory it does not own (`after') or       *)
(* counts on a byte that it wrote past a buffer (`slack'), anything may be  *)
(* found there.                                                             *)
(***************************************************************************)
EXTENDS Integers, Sequences, SequencesExt, FiniteSetsExt

CONSTANTS Dash, Quote, Space, End,
          F, P        (* the letters of the flag of the free parameters    *)

ASSUME CharsAssumption ==
  \A s, t \in 1..6 : s # t =>
     <<Dash, Quote, Space, End, F, P>>[s] # <<Dash, Quote, Space, End, F, P>>[t]

CString(s) == LET n == SelectInSeq(s, LAMBDA c : c = End)
              IN IF n = 0 THEN s ELSE SubSeq(s, 1, n - 1)
Where(s, c) == {i \in DOMAIN s : s[i] = c}
IsFlag(s) == s # <<>> /\ s[1] = Dash
(* Whether position i is outside of quotes. *)
Outside(s, i) == Cardinality({j \in 1..i : s[j] = Quote}) % 2 = 0

NoResult == [throws |-> "nothing", free |-> FALSE, arguments |-> <<>>]
Throws(x) == [NoResult EXCEPT !.throws = x]
-----------------------------------------------------------------------------
(* ArgFromString. *)

(* A quote opens or closes, and a space ends an element, in quotes or not;  *)
(* in quotes it begins one as well.                                         *)
CountElement(s, c) ==
  LET quote == IF c = Quote THEN ~s.quote ELSE s.quote
  IN IF (quote \/ c # Space) /\ ~s.inside
     THEN [quote |-> quote, inside |-> TRUE, elements |-> s.elements + 1]
     ELSE [s EXCEPT !.quote = quote, !.inside = @ /\ c # Space]

Elements(text) ==
  FoldLeft(CountElement, [quote |-> FALSE, inside |-> FALSE, elements |-> 0], text).elements

(* The row of the table for the element that is looked for from position i: *)
(* where it begins, where it ends (exclusive) and where the next is looked  *)
(* for.  An element that the last character begins is left without an end,  *)
(* which then is the one the row was created with.                          *)
Row(text, i) ==
  LET begins == {j \in i..Len(text) : text[j] # Space}
      begin == Min(begins)
      stops == {j \in begin + 1 .. Len(text) :
                  j = Len(text) \/ (text[j] = Space /\ Outside(SubSeq(text, i, j), j - i + 1))}
      stop == Min(stops)
  IN CASE begins = {} -> [begin |-> 1, end |-> 1, next |-> Len(text) + 1]
       [] begins # {} /\ stops = {} -> [begin |-> begin, end |-> 1, next |-> Len(text) + 1]
       [] OTHER -> [begin |-> begin, end |-> IF stop = Len(text) THEN stop + 1 ELSE stop,
                    next |-> stop + 1]

Table(text) ==
  LET row[k \in 1..Elements(text)] == Row(text, IF k = 1 THEN 1 ELSE row[k - 1].next)
  IN row

(* The length of an element is unsigned: one that ends before it begins is  *)
(* larger than any memory.                                                  *)
Fits(row) == row.begin <= row.end
Element(text, row) == SubSeq(text, row.begin, row.end - 1)

Unquote(s) == IF s # <<>> /\ s[1] = Quote /\ Last(s) = Quote THEN SubSeq(s, 2, Len(s) - 1) ELSE s

Leading(s) == IF Where(s, Space) = DOMAIN s THEN Len(s)
              ELSE Min(DOMAIN s \ Where(s, Space)) - 1

(* Leading spaces are cut; of trailing ones, the loop that runs the wrong   *)
(* way cuts the last.                                                       *)
Normalized(str) ==
  SubSeq(str, Leading(str) + 1, IF Last(str) = Space THEN Len(str) - 1 ELSE Len(str))

(* The argument, or what is thrown.  Nothing but spaces leaves no element,  *)
(* and the first is used all the same.                                      *)
ArgFromString(str) ==
  LET table == Table(Normalized(str))
      element == [k \in DOMAIN table |-> Element(Normalized(str), table[k])]
      only == {i \in DOMAIN str : str[i] # Space}
  IN IF only = {} THEN [throws |-> "undefined"]
     ELSE IF only = {Len(str)} THEN [throws |-> "StringIsEmptyException"]
     ELSE IF ~IsFlag(element[1]) THEN [throws |-> "ExcpectedFlagAtBeginingException"]
     ELSE IF \E k \in DOMAIN table : ~Fits(table[k]) THEN [throws |-> "bad_alloc"]
     ELSE [throws |-> "nothing", prefix |-> element[1],
           parameters |-> [k \in 1..Len(table) - 1 |-> Unquote(element[k + 1])]]
-----------------------------------------------------------------------------
(* ParseArguments. *)

Trailing(s) == Leading(Reverse(s))

(* The line without spaces around it, behind "-FP " when it begins with     *)
(* free parameters: `text' from `first' on, `shift' for what bIndex adds to *)
(* indexes that are used from `first', `last' for the last character's      *)
(* index.  The count of characters leaves out trailing spaces only.         *)
Cut(s, after) ==
  LET shift == Leading(s)
      count == Len(s) - Trailing(s)
      FromFirst(n) == [i \in 1..n |-> IF shift + i <= Len(s) THEN s[shift + i]
                                      ELSE IF shift + i = Len(s) + 1 THEN End ELSE after]
  IN IF s[shift + 1] = Dash
     THEN [free |-> FALSE, text |-> FromFirst(shift + count + 1), shift |-> shift, last |-> count]
     ELSE [free |-> TRUE, text |-> <<Dash, F, P, Space>> \o FromFirst(count), shift |-> 0,
           last |-> count + 3]

(* Mutant: a dash is a flag in quotes too. *)
FlagsInQuotes(c) ==
  {i \in Where(c.text, Dash) : i <= c.last + 1 /\ (i = 1 \/ c.text[i - 1] = Space)}

(* Flags are dashes outside of quotes and behind a space. *)
FlagsOf(c) ==
  {i \in Where(c.text, Dash) :
     i <= c.last + 1 /\ Outside(c.text, i) /\ (i = 1 \/ c.text[i - 1] = Space)}

(* One buffer for each flag, up to the next; every buffer is one byte short *)
(* for the end of its string.                                               *)
Buffers(c, slack) ==
  LET at == SetToSortSeq(FlagsOf(c), <)
      from(k) == IF k = 1 THEN 1 ELSE at[k] + c.shift
      to(k) == IF k = Len(at) THEN c.shift + c.last + 1 ELSE from(k + 1) - 1
  IN [k \in DOMAIN at |-> CString(SubSeq(c.text, from(k), to(k)) \o <<slack>>)]

OnlyFree(c) == c.free /\ Cardinality(FlagsOf(c)) = 1

(* Initialize throws when there is nothing but free parameters, outside of  *)
(* any catch block: the program ends.                                       *)
ParseArguments(s, after, slack) ==
  LET c == Cut(s, after)
      buffers == Buffers(c, slack)
      arguments == [k \in DOMAIN buffers |-> ArgFromString(buffers[k])]
      failed == {k \in DOMAIN arguments : arguments[k].throws # "nothing"}
  IN IF Leading(s) = Len(s) THEN Throws("StringIsEmptyException")
     ELSE IF ~Outside(c.text, c.last + 1) THEN Throws("InvalidQuotesException")
     ELSE IF OnlyFree(c) THEN Throws("terminate")
     ELSE IF failed # {} THEN Throws(arguments[Min(failed)].throws)
     ELSE [throws |-> "nothing", free |-> c.free, arguments |-> arguments]
-----------------------------------------------------------------------------
(* Combine. *)

(* Mutant: nothing is added for what is put around the arguments. *)
LengthOfArguments(a) == FoldLeft(LAMBDA n, s : n + Len(s), Len(a), a)

LengthOf(a) == FoldLeft(LAMBDA n, s : n + Len(s) + (IF IsFlag(s) THEN 3 ELSE 0), Len(a), a)

Written(a) ==
  FlattenSeq([i \in DOMAIN a |-> IF IsFlag(a[i]) THEN a[i] \o <<Space>>
                                 ELSE <<Space, Quote>> \o a[i] \o <<Quote, Space>>])

(* What is not written of the memory is not initialised; what is written    *)
(* past it is lost at best.                                                 *)
Combined(a, after) ==
  CString([i \in 1..LengthOf(a) - 1 |-> IF i <= Len(Written(a)) THEN Written(a)[i] ELSE after])
-----------------------------------------------------------------------------
(* What Combine writes beyond the memory it has. *)
Overrun(a) == Len(Written(a)) > LengthOf(a)
-----------------------------------------------------------------------------
(* The arguments of the map, without the free parameters. *)
Mapped(parsed) == IF parsed.free THEN Tail(parsed.arguments) ELSE parsed.arguments

(* operator[] compares with _tccmp, which compares one character. *)
Lookup(parsed, prefix) ==
  LET same == {k \in DOMAIN Mapped(parsed) : Mapped(parsed)[k].prefix[1] = prefix[1]}
  IN IF same = {} THEN <<>> ELSE Mapped(parsed)[Min(same)].prefix
-----------------------------------------------------------------------------
(* What a line says: its words end at spaces outside of quotes, words with  *)
(* a dash are flags, the others parameters of the flag before them, those   *)
(* before any flag free.                                                    *)
Breaks(s) == {i \in Where(s, Space) : Outside(s, i)}
Words(s) ==
  LET begins == {i \in DOMAIN s \ Breaks(s) : i = 1 \/ i - 1 \in Breaks(s)}
      end(i) == Max({j \in i..Len(s) : i..j \cap Breaks(s) = {}})
      at == SetToSortSeq(begins, <)
  IN [k \in DOMAIN at |-> SubSeq(s, at[k], end(at[k]))]
Grouped(words, Plain(_)) ==
  LET ws == IF words # <<>> /\ ~IsFlag(words[1]) THEN <<<<Dash, F, P>>>> \o words ELSE words
      at == SetToSortSeq({i \in DOMAIN ws : IsFlag(ws[i])}, <)
      next(k) == IF k = Len(at) THEN Len(ws) + 1 ELSE at[k + 1]
  IN [k \in DOMAIN at |->
        [throws |-> "nothing", prefix |-> ws[at[k]],
         parameters |-> [i \in 1..next(k) - at[k] - 1 |-> Plain(ws[at[k] + i])]]]
Bare(s) == IF IsPrefix(<<Quote>>, s) /\ IsSuffix(<<Quote>>, s) THEN Front(Tail(s)) ELSE s

(* The conditions under which the parser reads what is written; none of     *)
(* them can be left out.  A space at the beginning shifts the pieces, a     *)
(* quoted space adds an empty parameter, the second of two spaces stays in  *)
(* a prefix, a last word of one character throws, and so does a line with   *)
(* no flag.                                                                 *)
NoLeadingSpace(s) == s = <<>> \/ s[1] # Space
QuotesPaired(s) == Outside(s, Len(s))
NoQuotedSpace(s) == Where(s, Space) \subseteq Breaks(s)
SingleSpaces(s) == \A i, j \in Breaks(s) : j = i + 1 => i..Len(s) \subseteq Breaks(s)
LongWords(s) == \A k \in DOMAIN Words(s) : Len(Words(s)[k]) >= 2
AFlag(s) == \E k \in DOMAIN Words(s) : IsFlag(Words(s)[k])
Regular(s) == /\ NoLeadingSpace(s) /\ QuotesPaired(s) /\ NoQuotedSpace(s)
              /\ SingleSpaces(s) /\ LongWords(s) /\ AFlag(s)

(* Spaces and quotes aside. *)
Essence(s) == SelectSeq(s, LAMBDA c : c \notin {Space, Quote})

(* Arguments of main with a parameter for each flag. *)
Paired(a) == 2 * Cardinality({i \in DOMAIN a : IsFlag(a[i])}) = Len(a) /\ IsFlag(a[1])
=============================================================================
