-------------------------------- MODULE Frame --------------------------------
(***************************************************************************)
(* How Task::execute<string, string> (task.hpp, task.cpp) frames what it     *)
(* sends and reads what comes back: convert_parameter pushes the length of   *)
(* the parameter, as a size_t, and the parameter into a _buffer              *)
(* (buffer.hpp); extract_response takes a length and that many bytes out of  *)
(* another _buffer.  How the command is run in between is in Task.           *)
(*                                                                          *)
(* A buffer is memory: bytes of its own, and whatever lies behind it         *)
(* (`after').                                                                *)
(***************************************************************************)
EXTENDS Naturals, Sequences, SequencesExt

CONSTANTS Base,    (* the number of values of a byte *)
          Width    (* sizeof(size_t)                 *)

ASSUME FrameAssumption == Base \in Nat \ {0, 1} /\ Width \in Nat \ {0}

Bytes == 0..Base - 1

(* A size_t in memory, the lowest byte first; Weight[k] is what the k-th    *)
(* byte counts, Weight[Width + 1] the number of values there are.           *)
Weight[k \in 1..Width + 1] == IF k = 1 THEN 1 ELSE Base * Weight[k - 1]
Encoded(n) == [k \in 1..Width |-> (n \div Weight[k]) % Base]
Decoded(bytes) == FoldLeft(LAMBDA n, k : n + bytes[k] * Weight[k], 0, [k \in 1..Width |-> k])

(* Memory from an offset on: n bytes of the buffer, or of what is behind.   *)
Memory(buffer, offset, n, after) ==
  [k \in 1..n |-> IF offset + k <= Len(buffer) THEN buffer[offset + k] ELSE after]

(* Mutant: the head stays where it is. *)
PushInPlace(buffer, bytes) ==
  [memory |-> [k \in DOMAIN buffer.memory |->
                 IF k \in buffer.head + 1 .. buffer.head + Len(bytes)
                 THEN bytes[k - buffer.head] ELSE buffer.memory[k]],
   head |-> buffer.head]

(* push: bytes are copied to the head, and the head goes behind them. *)
Push(buffer, bytes) ==
  [memory |-> [k \in DOMAIN buffer.memory |->
                 IF k \in buffer.head + 1 .. buffer.head + Len(bytes)
                 THEN bytes[k - buffer.head] ELSE buffer.memory[k]],
   head |-> buffer.head + Len(bytes)]

(* convert_parameter *)
Allocated(size) == [memory |-> [k \in 1..size |-> 0], head |-> 0]
ConvertParameter(parameter) ==
  Push(Push(Allocated(Width + Len(parameter)), Encoded(Len(parameter))), parameter).memory

(* offset<size_t> counts in size_t's. *)
Offset(n) == n * Width

(* extract_response; an answer of no bytes has no memory at all. *)
Undefined == <<"undefined">>
ExtractResponse(out, after) ==
  IF out = <<>> THEN Undefined
  ELSE Memory(out, Offset(1), Decoded(Memory(out, 0, Width, after)), after)
=============================================================================
