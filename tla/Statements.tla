----------------------------- MODULE Statements -----------------------------
(***************************************************************************)
(* The statements that sql.hpp and sqlpp.hpp put together of values: a list *)
(* after "in", the call of a procedure, and rows of JSON objects to be      *)
(* inserted.                                                                *)
(*                                                                          *)
(* A text is a sequence of characters, as in Strings; a keyword, a comma    *)
(* with its space and a placeholder stand for one character each.  The      *)
(* marks %b% and %e%, which the rows are put together with, are not, since  *)
(* values may have their characters.  A value that an object does not have  *)
(* is Absent.                                                               *)
(***************************************************************************)
EXTENDS Strings

CONSTANT Absent

Quote1 == "'"
Comma == ","

(* as_sql of a text. *)
AsSql(v) == <<Quote1>> \o v \o <<Quote1>>

(* Mutant: the comma is written before the first as well. *)
CommaFirst(texts) == FlattenSeq([k \in DOMAIN texts |-> <<Comma>> \o texts[k]])

Listed(texts) == FlattenSeq([k \in DOMAIN texts |-> IF k = 1 THEN texts[k]
                                                    ELSE <<Comma>> \o texts[k]])

WhereIn(values) ==
  <<"in", "(">>
    \o (IF values # <<>> THEN Listed([k \in DOMAIN values |-> AsSql(values[k])])
                         ELSE <<"select null">>)
    \o <<")">>

CallSql(values) == <<"call", "(">> \o Listed([k \in DOMAIN values |-> AsSql(values[k])]) \o <<")">>

-----------------------------------------------------------------------------
B == <<"%", "b", "%">>
E == <<"%", "e", "%">>

Joined(text) == StringReplaceAll(text, E \o B, <<Comma>>)
Unmarked(text) == ReplaceTemplates(text, <<[from |-> B, to |-> <<>>], [from |-> E, to |-> <<>>]>>)

(* Only the first column finds the placeholder. *)
WithColumns(columns) ==
  ReplaceTemplates(<<"insert", "%columns%", "values", "%values%", "returning">>,
                   [k \in DOMAIN columns |-> [from |-> <<"%columns%">>, to |-> B \o columns[k] \o E]])

ItemText(columns, item) ==
  FlattenSeq([c \in DOMAIN columns |-> B \o (IF item[c] # Absent THEN item[c] ELSE <<"default">>) \o E])

ValuesText(columns, items) ==
  FlattenSeq([k \in DOMAIN items |-> B \o <<"(">> \o ItemText(columns, items[k]) \o <<")">> \o E])

(* insert_json_into; items that are empty are not refused, as what is       *)
(* constructed then is not thrown.  Values are JSON, quotes included, and   *)
(* so is "default".                                                         *)
InsertJson(columns, items) ==
  Unmarked(Joined(StringReplaceAll(Unmarked(Joined(WithColumns(columns))),
                                   <<"%values%">>, ValuesText(columns, items))))

-----------------------------------------------------------------------------
(* What the statements say to a reader: the texts between quotes and those  *)
(* around them, and the values of each row.                                 *)
Literals(text) ==
  LET pieces == Split(text, <<Quote1>>)
  IN [k \in 1..(Len(pieces) - 1) \div 2 |-> pieces[2 * k]]

Around(text) ==
  LET pieces == Split(text, <<Quote1>>)
  IN [k \in 1..(Len(pieces) + 1) \div 2 |-> pieces[2 * k - 1]]

RowsOf(text) ==
  LET rows == Split(text, <<")">>)
  IN [k \in 1..Len(rows) - 1 |-> Split(Split(rows[k], <<"(">>)[2], <<Comma>>)]
=============================================================================
