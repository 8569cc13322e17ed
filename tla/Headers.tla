------------------------------- MODULE Headers -------------------------------
(***************************************************************************)
(* libcurl::Response (libcurl.hpp): how the text of all headers that the    *)
(* callback has collected is made into a map.  Its lines are the status     *)
(* line, a line for each header and an empty line.                          *)
(***************************************************************************)
EXTENDS Strings

Cr == "\r"
Lf == "\n"

(* get_lines: what comes behind the last separator is left out. *)
GetLines(text, separator) == Front(Split(text, separator))

RemoveWhiteSpaceAtFront(str) ==
  LET others == {i \in DOMAIN str : str[i] # " "}
  IN IF others = {} THEN <<>> ELSE Rest(str, Min(others))

(* Mutant: the line is cut at its last separator. *)
ParseHeaderAtLast(line, separator) ==
  LET entry == Max(Found(line, separator, 1))
  IN [key |-> RemoveWhiteSpaceAtFront(SubSeq(line, 1, entry - 1)),
      value |-> RemoveWhiteSpaceAtFront(Rest(line, entry + Len(separator)))]

ParseHeader(line, separator) ==
  LET entry == Min(Found(line, separator, 1))
  IN [key |-> RemoveWhiteSpaceAtFront(SubSeq(line, 1, entry - 1)),
      value |-> RemoveWhiteSpaceAtFront(Rest(line, entry + Len(separator)))]

(* Headers[key] = value: the last line with a key is kept.  A header that  *)
(* has no colon is answered by "throw" where nothing was caught.  Without a *)
(* line the unsigned end of the loop wraps around, and it runs past the     *)
(* list.                                                                    *)
Response(raw) ==
  LET lines == GetLines(StringReplaceAll(raw, <<Cr, Lf>>, <<Lf>>), <<Lf>>)
      headers == SubSeq(lines, 2, Len(lines) - 1)
      pairs == [i \in DOMAIN headers |-> ParseHeader(headers[i], <<":">>)]
      last(key) == Max({i \in DOMAIN pairs : pairs[i].key = key})
  IN IF lines = <<>> THEN [ends |-> "undefined"]
     ELSE IF \E i \in DOMAIN headers : Found(headers[i], <<":">>, 1) = {}
     THEN [ends |-> "terminate"]
     ELSE [ends |-> "well",
           headers |-> [key \in {pairs[i].key : i \in DOMAIN pairs} |-> pairs[last(key)].value]]
=============================================================================
