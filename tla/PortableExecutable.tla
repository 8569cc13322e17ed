------------------------- MODULE PortableExecutable -------------------------
(***************************************************************************)
(* PECOFF::PortableExecutable and Kernel32 (portable_executable.hpp): the   *)
(* imports of a file, and those of them by which a process may be injected. *)
(*                                                                          *)
(* A file is a sequence of cells, each one of the structures that parse     *)
(* reads or a text, Zero one that is all zeros; a position is the number of *)
(* the cells before it.  A text ends at its zero.  Virtual addresses count  *)
(* cells too, and have a width.  What is read of a cell of another kind is  *)
(* "garbage".                                                               *)
(***************************************************************************)
EXTENDS Integers, Sequences, SequencesExt, FiniteSetsExt

CONSTANT AddressBits

ASSUME AddressAssumption == AddressBits \in Nat

Addresses == 2^AddressBits

Zero == [kind |-> "zero"]
Refused(e) == [error |-> e, imports |-> <<>>]

(* Mutant: the address itself is compared. *)
VirtualToRawUnsigned(address, sections) ==
  LET in == {k \in DOMAIN sections : address < sections[k].virtual + sections[k].size}
  IN IF in = {} THEN 0 ELSE (sections[Min(in)].raw + address - sections[Min(in)].virtual) % Addresses

(* Sections are tried in order; unsigned differences wrap around. *)
VirtualToRaw(address, sections) ==
  LET difference(k) == (address - sections[k].virtual) % Addresses
      in == {k \in DOMAIN sections : difference(k) < sections[k].size}
  IN IF in = {} THEN 0 ELSE (sections[Min(in)].raw + difference(Min(in))) % Addresses

(* A descriptor without Characteristics ends the list, whatever else it has. *)
ImportEnds(cell) == cell = Zero \/ (cell.kind = "import" /\ ~cell.characteristics)
ThunkEnds(cell) == cell = Zero \/ (cell.kind = "thunk" /\ ~cell.ordinal /\ cell.data = 0)

(* The cells from a position up to the one that ends the list: a short read *)
(* comes first if there is none.                                            *)
ListAt(file, position, kind) ==
  LET ends == {p \in position + 1 .. Len(file) : IF kind = "import" THEN ImportEnds(file[p])
                                                                    ELSE ThunkEnds(file[p])}
  IN IF ends = {} THEN [error |-> "corrupted", cells |-> <<>>]
     ELSE [error |-> "nothing", cells |-> SubSeq(file, position + 1, Min(ends) - 1)]

(* getline into memory that was reserved: nothing is there if the file ends *)
(* before, and nobody is told.                                              *)
TextAt(file, position) ==
  IF position >= Len(file) THEN "" ELSE
    CASE file[position + 1].kind = "text" -> file[position + 1].text
      [] file[position + 1] = Zero -> ""
      [] OTHER -> "garbage"

Snap(file, sections, cell) ==
  IF cell.kind # "thunk" THEN "garbage"
  ELSE IF cell.ordinal THEN "ordinal"
  ELSE TextAt(file, VirtualToRaw(cell.data, sections))

ReadImport(file, sections, descriptor) ==
  LET thunks == ListAt(file, VirtualToRaw(descriptor.first, sections), "thunk")
  IN [error |-> thunks.error,
      name |-> TextAt(file, VirtualToRaw(descriptor.name, sections)),
      thunks |-> [k \in DOMAIN thunks.cells |->
                    [address |-> (descriptor.first + k - 1) % Addresses,
                     snap |-> Snap(file, sections, thunks.cells[k])]]]

ReadImports(file, pe, sections) ==
  LET list == IF pe.size = 0 THEN [error |-> "nothing", cells |-> <<>>]
              ELSE ListAt(file, VirtualToRaw(pe.imports, sections), "import")
      read == [k \in DOMAIN list.cells |-> ReadImport(file, sections, list.cells[k])]
  IN IF list.error # "nothing" THEN Refused("corrupted")
     ELSE IF \E c \in ToSet(list.cells) : c.kind # "import" THEN Refused("garbage")
     ELSE IF \E k \in DOMAIN read : read[k].error # "nothing" THEN Refused("corrupted")
     ELSE [error |-> "nothing",
           imports |-> [k \in DOMAIN read |-> [name |-> read[k].name, thunks |-> read[k].thunks]]]

(* The headers, each read in full before its magic is looked at. *)
ParseFile(file) ==
  LET dos == file[1]
      pe == file[dos.lfanew + 1]
      first == dos.lfanew + 2
      sections == SubSeq(file, first, first + pe.sections - 1)
  IN IF file = <<>> THEN Refused("corrupted")
     ELSE IF dos.kind # "dos" THEN Refused("IsNotDOS")
     ELSE IF dos.lfanew >= Len(file) THEN Refused("corrupted")
     ELSE IF pe.kind # "pe" THEN Refused("IsNotPE")
     ELSE IF Len(file) < first + pe.sections - 1 THEN Refused("corrupted")
     ELSE IF \E c \in ToSet(sections) : c.kind # "section" THEN Refused("garbage")
     ELSE ReadImports(file, pe, sections)

(* memcmp as far as the name that is looked for goes. *)
FindSection(names, name) ==
  LET found == {k \in DOMAIN names : IsPrefix(name, names[k])}
  IN IF found = {} THEN 0 ELSE Min(found)

(* Kernel32: the addresses of the functions it looks for, 0 if there is     *)
(* none.  std::get throws if one of KERNEL32's thunks is an ordinal.        *)
KernelThunks(imports) ==
  FlattenSeq([k \in DOMAIN imports |->
                IF imports[k].name = "kernel32" THEN imports[k].thunks ELSE <<>>])

Kernel32(imports, functions) ==
  LET thunks == KernelThunks(imports)
      named(f) == {k \in DOMAIN thunks : thunks[k].snap = f}
  IN IF \E k \in DOMAIN thunks : thunks[k].snap = "ordinal"
     THEN [throws |-> TRUE, found |-> [f \in functions |-> 0]]
     ELSE [throws |-> FALSE,
           found |-> [f \in functions |-> IF named(f) = {} THEN 0
                                          ELSE thunks[Max(named(f))].address]]
-----------------------------------------------------------------------------
(* An image: its imports, each with a name, with Characteristics or without *)
(* and with the names of its thunks or "ordinal"; the virtual addresses of  *)
(* two sections, the first with the descriptors, the second with the thunks *)
(* and behind them the texts; and whether the second comes first in the     *)
(* file.                                                                    *)
Wanted == {"load", "get", "free"}

(* Where the thunks of import k begin in the second section; a text for the *)
(* import and for each of its thunks is as far behind all the thunks.       *)
ThunksUpTo(imports, k) == FoldLeft(LAMBDA n, i : n + Len(i.thunks) + 1, 0, SubSeq(imports, 1, k - 1))

Descriptors(image) ==
  LET all == ThunksUpTo(image.imports, Len(image.imports) + 1)
  IN [k \in DOMAIN image.imports |->
        [kind |-> "import", characteristics |-> image.imports[k].characteristics,
         name |-> image.second + all + ThunksUpTo(image.imports, k),
         first |-> image.second + ThunksUpTo(image.imports, k)]]

ThunksAndTexts(image) ==
  LET all == ThunksUpTo(image.imports, Len(image.imports) + 1)
      cells(k) == [t \in DOMAIN image.imports[k].thunks |->
                     [kind |-> "thunk", ordinal |-> image.imports[k].thunks[t] = "ordinal",
                      data |-> IF image.imports[k].thunks[t] = "ordinal" THEN 0
                               ELSE image.second + all + ThunksUpTo(image.imports, k) + t]]
      texts(k) == [t \in DOMAIN image.imports[k].thunks |->
                     [kind |-> "text", text |-> image.imports[k].thunks[t]]]
      name(k) == <<[kind |-> "text", text |-> image.imports[k].name]>>
      Of(Cells(_)) == FlattenSeq([k \in DOMAIN image.imports |-> Cells(k)])
  IN Of(LAMBDA k : cells(k) \o <<Zero>>) \o Of(LAMBDA k : name(k) \o texts(k))

Laid(image) ==
  LET first == Descriptors(image) \o <<Zero>>
      second == ThunksAndTexts(image)
      header(virtual, cells, raw) ==
        [kind |-> "section", virtual |-> virtual, size |-> Len(cells), raw |-> raw]
  IN <<[kind |-> "dos", lfanew |-> 2], Zero,
       [kind |-> "pe", sections |-> 2, imports |-> image.first, size |-> Len(image.imports)],
       header(image.first, first, 5 + (IF image.swapped THEN Len(second) ELSE 0)),
       header(image.second, second, 5 + (IF image.swapped THEN 0 ELSE Len(first)))>>
     \o (IF image.swapped THEN second \o first ELSE first \o second)

(* The imports a loader that stops where parse does finds in it. *)
ImportsOf(image) ==
  LET ends == {k \in DOMAIN image.imports : ~image.imports[k].characteristics}
      count == IF ends = {} THEN Len(image.imports) ELSE Min(ends) - 1
  IN [k \in 1..count |->
        [name |-> image.imports[k].name,
         thunks |-> [t \in DOMAIN image.imports[k].thunks |->
                       [address |-> image.second + ThunksUpTo(image.imports, k) + t - 1,
                        snap |-> image.imports[k].thunks[t]]]]]
=============================================================================
