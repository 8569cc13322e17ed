------------------------------- MODULE Strings -------------------------------
(***************************************************************************)
(* string_replace_all, string_replace_all_templates and string_split        *)
(* (string.hpp) as functions of their arguments, and what they should give  *)
(* without a cursor.  Patterns and delimiters are not empty: with an empty   *)
(* one find() succeeds where the cursor is and the loops do not end.         *)
(*                                                                          *)
(* Templates are a sequence of [from, to] in the order of the map's keys.   *)
(***************************************************************************)
EXTENDS Naturals, Sequences, SequencesExt, FiniteSetsExt

Matches(s, p, i) == SubSeq(s, i, i + Len(p) - 1) = p

(* find: the places at or behind i where p begins; npos is the empty set.   *)
Found(s, p, i) == {j \in i..Len(s) + 1 - Len(p) : Matches(s, p, j)}
Rest(s, pos) == SubSeq(s, pos, Len(s))

(* Mutant: what comes behind the last match is left out. *)
StringReplaceAllNoRest(s, from, to) ==
  LET buf[pos \in 1..Len(s) + 1] ==
        LET places == Found(s, from, pos) IN
        IF places = {} THEN IF pos = 1 THEN s ELSE <<>>
        ELSE SubSeq(s, pos, Min(places) - 1) \o to \o buf[Min(places) + Len(from)]
  IN buf[1]

(* string_replace_all: what is appended to buf when pos is the cursor. *)
StringReplaceAll(s, from, to) ==
  LET buf[pos \in 1..Len(s) + 1] ==
        LET places == Found(s, from, pos) IN
        IF places = {} THEN Rest(s, pos)
        ELSE SubSeq(s, pos, Min(places) - 1) \o to \o buf[Min(places) + Len(from)]
  IN buf[1]

(* string_replace_all_templates: one replacement after the other. *)
ReplaceTemplates(s, pairs) ==
  FoldLeft(LAMBDA text, pair : StringReplaceAll(text, pair.from, pair.to), s, pairs)

(* string_split: what is pushed to res when pos_start is the cursor. *)
Split(s, delimiter) ==
  LET res[pos \in 1..Len(s) + 1] ==
        LET places == Found(s, delimiter, pos) IN
        IF places = {} THEN <<Rest(s, pos)>>
        ELSE <<SubSeq(s, pos, Min(places) - 1)>> \o res[Min(places) + Len(delimiter)]
  IN res[1]
-----------------------------------------------------------------------------
(* The template that is replaced at each place if all are replaced at once, *)
(* from left to right, the first of those that match; 0 for none.           *)
Made(s, pairs) ==
  LET at(i) == {k \in DOMAIN pairs : i \in Found(s, pairs[k].from, 1)}
      until[i \in 0..Len(s)] ==
        IF i = 0 THEN 0
        ELSE IF i > until[i - 1] /\ at(i) # {} THEN i + Len(pairs[Min(at(i))].from) - 1
        ELSE until[i - 1]
  IN [i \in 1..Len(s) |-> IF at(i) # {} /\ i > until[i - 1] THEN Min(at(i)) ELSE 0]

AtOnce(s, pairs) ==
  LET made == Made(s, pairs)
      covered(i) == \E j \in 1..i : made[j] # 0 /\ i < j + Len(pairs[made[j]].from)
  IN FlattenSeq([i \in 1..Len(s) |->
       IF made[i] # 0 THEN pairs[made[i]].to ELSE IF covered(i) THEN <<>> ELSE <<s[i]>>])

(* Templates that do not get in each other's way: values are not empty and  *)
(* have no character in common with keys, and no two keys overlap in s.     *)
Independent(s, pairs) ==
  /\ \A k, l \in DOMAIN pairs :
        pairs[k].to # <<>> /\ ToSet(pairs[k].to) \cap ToSet(pairs[l].from) = {}
  /\ \A k, l \in DOMAIN pairs : k # l =>
        \A i \in Found(s, pairs[k].from, 1), j \in Found(s, pairs[l].from, 1) :
           i <= j => i + Len(pairs[k].from) <= j
=============================================================================
