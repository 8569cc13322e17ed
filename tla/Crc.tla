--------------------------------- MODULE Crc ---------------------------------
(***************************************************************************)
(* CRC32 (crc32.hpp), of words of any width: a table of the remainders of   *)
(* all bytes, and a value that is carried from one block to the next.       *)
(*                                                                          *)
(* A word is the set of the bits that are one, so that ^ is the symmetric   *)
(* difference.                                                              *)
(***************************************************************************)
EXTENDS Naturals, Sequences, SequencesExt, FiniteSetsExt

CONSTANTS WordBits,    (* the bits of a word                            *)
          ByteBits,    (* the bits of a byte                            *)
          Polynomial   (* the polynomial, the highest power in bit zero *)

ASSUME CrcAssumption == /\ WordBits \in Nat /\ ByteBits \in 1..WordBits
                        /\ Polynomial \subseteq 0..WordBits - 1
                        /\ WordBits - 1 \in Polynomial

AllOnes == 0..WordBits - 1
LowByte == 0..ByteBits - 1

(* >> *)
Shifted(value, n) == {k - n : k \in {k \in value : k >= n}}

(* create_crc_table *)
Step(value) == SymDiff(Shifted(value, 1), IF 0 \in value THEN Polynomial ELSE {})
CrcTable ==
  [i \in SUBSET LowByte |->
     FoldLeft(LAMBDA value, j : Step(value), i, [j \in 1..ByteBits |-> j])]

(* Mutant: the byte is not combined with the low bits of the value. *)
ComputeShifted(value, buffer) ==
  FoldLeft(LAMBDA v, byte : SymDiff(Shifted(v, ByteBits), CrcTable[byte]), value, buffer)

(* compute, without the complement of what it returns *)
Compute(value, buffer) ==
  FoldLeft(LAMBDA v, byte : SymDiff(Shifted(v, ByteBits), CrcTable[SymDiff(v \cap LowByte, byte)]),
           value, buffer)

(* compute_stream: blocks as large as the buffer, the last one shorter. *)
ComputeStream(stream, size) ==
  LET blocks == (Len(stream) + size - 1) \div size
      block(k) == SubSeq(stream, (k - 1) * size + 1,
                         IF k * size < Len(stream) THEN k * size ELSE Len(stream))
  IN AllOnes \ FoldLeft(LAMBDA v, k : Compute(v, block(k)), AllOnes, [k \in 1..blocks |-> k])

-----------------------------------------------------------------------------
(* The definition: the bits of the message, the lowest bit of each byte     *)
(* first and WordBits zeros behind, are the coefficients of a polynomial,   *)
(* the first WordBits of them inverted; its remainder is inverted again.    *)
(* A polynomial is the set of the places of its ones.                       *)
Message(stream) == UNION {{(i - 1) * ByteBits + k + 1 : k \in stream[i]} : i \in DOMAIN stream}
Generator == {0} \cup {k + 1 : k \in Polynomial}

Divide(coefficients, i) ==
  IF i \in coefficients THEN SymDiff(coefficients, {i + k : k \in Generator}) ELSE coefficients

Remainder(stream) ==
  LET n == Len(stream) * ByteBits
      rest == FoldLeft(Divide, SymDiff(Message(stream), 1..WordBits), [i \in 1..n |-> i])
  IN {k \in AllOnes : n + k + 1 \notin rest}
=============================================================================
