---------------------------- MODULE MCAlgorithms ----------------------------
(* Texts of up to five characters, with "%" for what marks a template, and *)
(* parameters of up to three bytes of two values; PATHs of directories whose *)
(* names are one or two characters, or too long; words of four bits, bytes *)
(* of two, and the polynomial x^4 + x + 1; lines of up to six characters;   *)
(* two rows of two columns; two imports of up to three thunks.              *)
EXTENDS Algorithms

Pair(a, b) == [from |-> a, to |-> b]
MCTexts == BoundedSeq({"%", "a", "b"}, 5)
MCTemplates ==
  {<<Pair(a, b)>> : a \in {<<"a">>, <<"a", "a">>, <<"a", "b", "a">>},
                    b \in {<<>>, <<"a">>, <<"b", "a", "a">>}}
    \cup {<<Pair(<<"%", "a">>, v), Pair(<<"%", "b">>, w)>> : v, w \in {<<>>, <<"c">>, <<"%", "b">>}}
    \cup {<<Pair(<<"a", "%">>, <<"c">>), Pair(<<"b", "%">>, <<"c", "d">>)>>}
MCDelimiters == {<<"a">>, <<"a", "a">>, <<"a", "b">>}
MCParameters == BoundedSeq(Bytes, 3)

MCArgumentTexts == BoundedSeq({"a", " ", "\"", "\\"}, 3)
MCArguments == {<<a>> : a \in MCArgumentTexts}
                 \cup {<<<<"a">>, a>> : a \in BoundedSeq({"a", " ", "\"", "\\"}, 5)}
                 \cup {<<a, b, <<"a">>>> : a, b \in BoundedSeq({" ", "\"", "\\"}, 2)}
MCPaths == BoundedSeq({"a", " ", "'", "\\"}, 4)
MCSearchPaths == BoundedSeq({"a", ":"}, 6)
MCErrnos == {"runs", "EACCES", "ENOENT", "ENOEXEC"}
MCHeader(k, v) == [key |-> k, value |-> v]
MCHeaderLines ==
  BoundedSeq({MCHeader(<<k>>, v) : k \in {"a", "b"},
              v \in {<<>>, <<"c">>, <<" ", "c", " ">>, <<"c", ":", "d">>}}, 3)
MCStreams == BoundedSeq(SUBSET {0, 1}, 4)
MCBlockSizes == 1..3

MCLines == BoundedSeq({Dash, Quote, Space, "a"}, 6)
MCAfter == {"-", "'", "_", "a", "0"}
MCEnd == {"0"}
MCWords == {<<"a">>, <<"b">>, <<"a", "b">>}
MCFlags == {<<Dash>> \o p : p \in MCWords}
MCArgvs == {<<f, p>> : f \in MCFlags, p \in MCWords}
             \cup {<<f, p, g, q>> : f, g \in MCFlags, p, q \in MCWords}
             \cup {<<f, g, p, q>> : f, g \in MCFlags, p, q \in MCWords}
             \cup {<<f>> : f \in MCFlags} \cup {<<p>> : p \in MCWords}

MCValues == BoundedSeq({"%", "b", "e"}, 3) \ {<<>>}
MCItem(columns) == [DOMAIN columns -> {<<"v">>, <<"%", "b", "%">>, <<"%">>, Absent}]
MCInserts ==
  {[columns |-> <<<<"x">>>>, items |-> <<<<v>>>>] : v \in MCValues}
    \cup {[columns |-> <<<<"x">>, <<"y">>>>, items |-> i] :
             i \in BoundedSeq(MCItem(<<1, 2>>), 2)}

MCThunks == {<<>>, <<"load", "get", "free">>, <<"ordinal", "get">>, <<"get", "load">>, <<"free", "x">>}
MCImports == [name : {"kernel32", "other"}, characteristics : BOOLEAN, thunks : MCThunks]
MCImages ==
  {[first |-> v[1], second |-> v[2], swapped |-> s, imports |-> i] :
     v \in {<<8, 16>>, <<40, 8>>}, s \in BOOLEAN, i \in BoundedSeq(MCImports, 2)}
MCSectionNames == {<<<<"a">>, <<"b">>>>, <<<<"a", "b">>, <<"a">>>>, <<<<"a">>, <<"a", "b">>, <<"b">>>>}
=============================================================================
