----------------------------- MODULE Algorithms -----------------------------
(***************************************************************************)
(* The functions of the library that keep no state, called once with any of *)
(* the arguments of the instance, and their results compared with what they *)
(* should be: the strings of Strings (string.hpp); the frames of Frame      *)
(* (task.cpp, buffer.hpp), whose command sends its request back and may end *)
(* before it has sent all of it; the texts of Process::open (CommandText);  *)
(* the headers of a response (Headers) and checksums (Crc); command lines   *)
(* (CmdLine), statements of SQL (Statements) and the imports of an image    *)
(* (PortableExecutable).                                                    *)
(***************************************************************************)
EXTENDS Strings, Frame, CommandText, Headers, Crc, CmdLine, Statements, PortableExecutable

CONSTANTS Texts,         (* the texts that are worked on                  *)
          Templates,     (* sequences of [from, to]                       *)
          Delimiters,    (* what texts are split at                       *)
          Parameters,    (* what is sent in frames                        *)
          Arguments,     (* vectors of arguments for a process            *)
          Paths,         (* directories a process is started in           *)
          SearchPaths,   (* values of PATH                                *)
          Errnos,        (* what execve may give, and "runs"              *)
          HeaderLines,   (* sequences of [key, value], as HTTP has them   *)
          Streams,       (* what checksums are made of                    *)
          BlockSizes,    (* the sizes of the buffer it is read through    *)
          Argvs, Lines,  (* arguments of main, and lines to be parsed     *)
          After, Slack,  (* what may be found past strings and buffers    *)
          Inserts,       (* columns and items of [columns, items]         *)
          Images,        (* images of [sections, imports], see Laid       *)
          SectionNames   (* sequences of names of sections                *)

ASSUME AlgorithmsAssumption ==
  /\ <<>> \notin Delimiters
  /\ \A pairs \in Templates :
       LET chars == UNION {ToSet(pairs[k].from) \cup ToSet(pairs[k].to) : k \in DOMAIN pairs}
       IN /\ pairs \in Seq([from : Seq(chars), to : Seq(chars)])
          /\ \A k \in DOMAIN pairs : pairs[k].from # <<>>
  /\ \A p \in Parameters : p \in Seq(Bytes) /\ Len(p) < Weight[Width + 1]
  /\ Streams \subseteq Seq(SUBSET LowByte) /\ BlockSizes \subseteq Nat \ {0}
  /\ \A s \in Texts \cup Delimiters \cup Paths \cup SearchPaths : s \in Seq(ToSet(s))
  /\ \A lines \in HeaderLines :
       LET chars == UNION {ToSet(lines[i].key) \cup ToSet(lines[i].value) : i \in DOMAIN lines}
       IN /\ lines \in Seq([key : Seq(chars), value : Seq(chars)]) /\ {Cr, Lf} \cap chars = {}
          /\ \A i \in DOMAIN lines : /\ ":" \notin ToSet(lines[i].key)
                                     /\ lines[i].key # <<>> => lines[i].key[1] # " "
  /\ \A args \in Arguments : args # <<>> /\ args \in Seq(Seq(UNION {ToSet(a) : a \in ToSet(args)}))
  /\ \A i \in Inserts :
       LET said == UNION {{item[c] : c \in DOMAIN item} : item \in ToSet(i.items)} \ {Absent}
           chars == UNION {ToSet(v) : v \in said \cup ToSet(i.columns)}
       IN /\ i.columns \in Seq(Seq(chars)) /\ i.columns # <<>>
          /\ i.items \in Seq([DOMAIN i.columns -> Seq(chars) \cup {Absent}])

VARIABLES call,     (* the function that was called, or "none"  *)
          given,    (* its arguments                            *)
          result

vars == <<call, given, result>>

Init == call = "none" /\ given = <<>> /\ result = <<>>

Called(name, arguments, value) ==
  call' = name /\ given' = arguments /\ result' = value

StringReplaceAllTemplates == \E s \in Texts, pairs \in Templates :
  Called("replace", [text |-> s, pairs |-> pairs], ReplaceTemplates(s, pairs))

StringSplit == \E s \in Texts, d \in Delimiters :
  Called("split", [text |-> s, delimiter |-> d], Split(s, d))

(* The command sends back the first n bytes of what it got. *)
Execute == \E p \in Parameters, after \in Bytes :
  \E n \in 0..Len(ConvertParameter(p)) :
     Called("execute", [parameter |-> p, answered |-> n],
            ExtractResponse(SubSeq(ConvertParameter(p), 1, n), after))

OpenArguments == \E args \in Arguments :
  Called("join", args, JoinArguments(args))

OpenIn == \E path \in Paths : Called("cd", path, CdPath(path))

(* Directories that are too long are never given to execve. *)
SearchPath == \E path \in SearchPaths :
  \E outcome \in [{d \in ToSet(Directories(path)) : Len(d) <= PathMax} -> Errnos] :
     Called("search", [path |-> path, outcome |-> outcome], Execvpe(path, outcome, "before"))

(* The headers of an answer, of one that comes behind those of an interim   *)
(* answer, or of none.                                                      *)
RawHeaders(lines) ==
  <<"s">> \o <<Cr, Lf>>
    \o FlattenSeq([i \in DOMAIN lines |-> lines[i].key \o <<":">> \o lines[i].value \o <<Cr, Lf>>])
    \o <<Cr, Lf>>

Receive == \E lines \in HeaderLines, interim \in BOOLEAN :
  Called("response", [lines |-> lines, interim |-> interim],
         Response((IF interim THEN RawHeaders(<<>>) ELSE <<>>) \o RawHeaders(lines)))

ReceiveNothing == Called("no response", <<>>, Response(<<>>))

ComputeCrc == \E stream \in Streams, size \in BlockSizes :
  Called("crc", [stream |-> stream, size |-> size], ComputeStream(stream, size))

ParseLine == \E line \in Lines, after \in After, slack \in Slack :
  Called("parse", line, ParseArguments(line, after, slack))

(* What is found is that of every flag that is asked for. *)
CombineAndParse == \E argv \in Argvs, after \in After, slack \in Slack :
  LET parsed == ParseArguments(Combined(argv, after), after, slack)
  IN argv # <<>> /\ Called("combine", argv,
       [overrun |-> Overrun(argv), parsed |-> parsed,
        found |-> IF parsed.throws # "nothing" THEN {}
                  ELSE {Lookup(parsed, argv[k]) : k \in {k \in DOMAIN argv : IsFlag(argv[k])}}])

WriteList == \E values \in Arguments \cup {<<>>} :
  Called("list", values, [within |-> WhereIn(values), call |-> CallSql(values)])

(* The items of insert_json_into_with_callable are those its handler makes. *)
InsertJsonInto == \E i \in Inserts : Called("insert", i, InsertJson(i.columns, i.items))

ReadImage == \E image \in Images : \E file \in {Laid(image)} : \E size \in 0..Len(file) :
    LET read == ParseFile(SubSeq(file, 1, size))
    IN Called("image", [image |-> image, size |-> size],
              [read |-> read, kernel |-> Kernel32(read.imports, Wanted)])

LookForSection == \E names \in SectionNames : \E k \in DOMAIN names :
  Called("section", [names |-> names, name |-> names[k]], FindSection(names, names[k]))

Next ==
  /\ call = "none"
  /\ \/ ParseLine \/ CombineAndParse \/ WriteList \/ InsertJsonInto
     \/ ReadImage \/ LookForSection
     \/ StringReplaceAllTemplates \/ StringSplit \/ Execute
     \/ OpenArguments \/ OpenIn \/ SearchPath
     \/ Receive \/ ReceiveNothing \/ ComputeCrc

Spec == Init /\ [][Next]_vars
-----------------------------------------------------------------------------
(* The pieces of a text that is split, with the delimiter in between, are   *)
(* the text, and none of them reaches over a delimiter.                     *)
IsSplit(text, d, pieces) ==
  LET n == Len(pieces)
  IN /\ FlattenSeq([k \in 1..n |-> IF k = 1 THEN pieces[k] ELSE d \o pieces[k]]) = text
     /\ \A k \in 1..n : Found(IF k < n THEN pieces[k] \o d ELSE pieces[k], d, 1)
                          \subseteq {Len(pieces[k]) + 1}

(* One replacement is made everywhere at once, and so are the templates of  *)
(* a map that do not get in each other's way; of others, what one brings in *)
(* or joins is replaced again by the next.  A text is split into what is    *)
(* between the delimiters.                                                  *)
TextsAreRewritten ==
  /\ call = "replace" /\ (Len(given.pairs) = 1 \/ Independent(given.text, given.pairs))
       => result = AtOnce(given.text, given.pairs)
  /\ call = "split" => IsSplit(given.text, given.delimiter, result)

(* A whole answer comes back as it was sent; of one that breaks off behind  *)
(* the length, the bytes that arrived come back in their places.            *)
EchoComesBack ==
  call = "execute" /\ given.answered >= Width =>
    /\ Len(result) = Len(given.parameter)
    /\ \A k \in 1..given.answered - Width : result[k] = given.parameter[k]

(* A child gets the arguments it was given, and the shell the directory,    *)
(* whatever they are made of.  Only a name of a program that a runtime of C *)
(* reads in another way than arguments, with quotes in it or with spaces    *)
(* and a backslash at its end, may be read differently.                     *)
QuotedIsRead ==
  /\ call = "join" =>
       LET name == given[1]
           plain == Mark \notin ToSet(name)
           spaced == Blank \in ToSet(name) /\ Last(name) = Backslash
       IN plain => /\ Tail(Argv(result)) = Tail(given)
                   /\ ~spaced => Argv(result)[1] = name
  /\ call = "cd" => Word(result) = given

(* With directories that have names, PATH is searched as POSIX has it: the  *)
(* first file that runs, or fails for itself, ends the search, and one that *)
(* may not be executed is told of only if there is no such file.            *)
FirstIsRun(path, outcome, answer) ==
  LET dirs == Split(path, <<Colon>>)
      tried == {k \in DOMAIN dirs : Len(dirs[k]) <= PathMax}
      errno(k) == outcome[dirs[k]]
      ends == {k \in tried : errno(k) \notin NotFound}
  IN <<>> \notin ToSet(dirs) =>
       IF ends # {} THEN answer = [dir |-> dirs[Min(ends)], errno |-> errno(Min(ends))]
       ELSE /\ answer.dir = <<>>
            /\ answer.errno = CASE \E k \in tried : errno(k) = "EACCES" -> "EACCES"
                                 [] tried = {} -> "before"
                                 [] OTHER -> "ENOENT"

(* The search of PATH by portable_execvpe ends as POSIX has it. *)
TheFirstIsRun == call = "search" => FirstIsRun(given.path, given.outcome, result)

(* The headers of an answer are those that were sent, of several with the   *)
(* same name the last one.                                                  *)
HeadersSaid(lines, answer) ==
  LET Trimmed(s) == SubSeq(s, Min({i \in 1..Len(s) + 1 : i = Len(s) + 1 \/ s[i] # Blank}), Len(s))
      same(i) == {j \in DOMAIN lines : lines[j].key = lines[i].key}
  IN /\ answer.ends = "well"
     /\ DOMAIN answer.headers = {lines[i].key : i \in DOMAIN lines}
     /\ \A i \in DOMAIN lines : answer.headers[lines[i].key] = Trimmed(lines[Max(same(i))].value)

(* Whoever asks for the headers of an answer gets those that were sent;     *)
(* those behind an interim answer end the program.                          *)
HeadersAreRead ==
  call = "response" =>
    IF given.interim THEN result.ends = "terminate" ELSE HeadersSaid(given.lines, result)

(* The checksum is the remainder of the polynomial, however the stream is   *)
(* cut into blocks.                                                         *)
SumOfBlocks == call = "crc" => result = Remainder(given.stream)

(* A line without the shapes the parser stumbles over is read as written.   *)
(* Any line that does not begin with a space and is not refused has one     *)
(* argument for each flag and for the free parameters, and no character of  *)
(* it is lost or moved, spaces and quotes aside.                            *)
LinesAreRead ==
  call = "parse" /\ NoLeadingSpace(given) =>
    LET said(a) == a.prefix \o FlattenSeq(a.parameters)
        all == FlattenSeq([k \in DOMAIN result.arguments |-> said(result.arguments[k])])
    IN /\ Regular(given) =>
            result.throws = "nothing" /\ result.arguments = Grouped(Words(given), Bare)
       /\ result.throws = "nothing" =>
            /\ Len(result.arguments) = Len(Grouped(Words(given), LAMBDA w : w))
            /\ Essence(all) = (IF result.free THEN <<Dash, F, P>> ELSE <<>>) \o Essence(given)

(* Arguments of main with a parameter for each flag fit into their line and *)
(* come out of it unchanged, whatever uninitialised memory holds; a flag    *)
(* that is the only one is found.                                           *)
RoundTrip ==
  call = "combine" /\ Paired(given) =>
    /\ ~result.overrun
    /\ result.parsed.throws = "nothing"
    /\ result.parsed.arguments = Grouped(given, LAMBDA s : s)
    /\ Len(given) = 2 => result.found = {given[1]}

(* Values without quotes are read back from a list, with one comma between  *)
(* them, and those without percent signs, commas and parentheses from the   *)
(* rows of an insertion, each in the place of its column.  Of the columns,  *)
(* the statement names the first only, which has no such characters either. *)
StatementsSayTheValues ==
  /\ call = "list" /\ (\A k \in DOMAIN given : Quote1 \notin ToSet(given[k])) =>
       \A text \in {result.within, result.call} :
         /\ Literals(text) = given
         /\ \A k \in 2..Len(given) : Around(text)[k] = <<Comma>>
         /\ given # <<>> => Last(Around(text)[1]) = "("
  /\ call = "insert" =>
       LET value(item, c) == IF item[c] = Absent THEN <<"default">> ELSE item[c]
           plain == /\ ToSet(given.columns[1]) \cap {"%", "%columns%", "%values%", "(", ")"} = {}
                    /\ \A k \in DOMAIN given.items, c \in DOMAIN given.columns :
                         ToSet(value(given.items[k], c)) \cap {"%", Comma, "(", ")"} = {}
       IN plain => /\ RowsOf(result) = [k \in DOMAIN given.items |->
                                          [c \in DOMAIN given.columns |-> value(given.items[k], c)]]
                   /\ IsPrefix(<<"insert">> \o given.columns[1] \o <<"values">>, result)

(* The first section of the name that is looked for is found, unless an     *)
(* earlier one has a longer name that begins with it.                       *)
(* The imports of an image are read as they are laid out, wherever its      *)
(* sections are in memory and in the file, up to the first without          *)
(* Characteristics.  A file that ends too soon is refused, unless nothing   *)
(* is missing but names.  An image whose kernel32 is imported by names only *)
(* can be injected if all three functions are among them; with an ordinal   *)
(* the question throws.                                                     *)
ImportsAreRead ==
  /\ call = "section" =>
       LET first == Min({k \in DOMAIN given.names : given.names[k] = given.name})
       IN \/ result = first
          \/ /\ result \in 1 .. first - 1
             /\ IsStrictPrefix(given.name, given.names[result])
  /\ call = "image" =>
    LET expected == ImportsOf(given.image)
        read == result.read
        whole == given.size = Len(Laid(given.image))
        ordinal == \E k \in DOMAIN expected : /\ expected[k].name = "kernel32"
                                               /\ \E t \in ToSet(expected[k].thunks) : t.snap = "ordinal"
        names(i) == {t.snap : t \in ToSet(i.thunks)}
        Blanked(i, j) == /\ i.name \in {j.name, ""}
                         /\ Len(i.thunks) = Len(j.thunks)
                         /\ \A k \in DOMAIN i.thunks :
                               /\ i.thunks[k].address = j.thunks[k].address
                               /\ i.thunks[k].snap \in {j.thunks[k].snap, ""}
    IN /\ whole => /\ read.error = "nothing" /\ read.imports = expected
                   /\ result.kernel.throws = ordinal
                   /\ ~ordinal => \A f \in Wanted :
                        result.kernel.found[f] # 0 <=>
                          \E i \in ToSet(expected) : i.name = "kernel32" /\ f \in names(i)
       /\ ~whole => \/ read.error = "corrupted"
                    \/ /\ read.error = "nothing" /\ Len(read.imports) = Len(expected)
                       /\ \A k \in DOMAIN expected : Blanked(read.imports[k], expected[k])

=============================================================================
