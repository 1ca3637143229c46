--------------------------------- MODULE Leb128 ---------------------------------
(***************************************************************************)
(* The loops of uleb128_decode and leb128_decode (include/leb128.hpp), one *)
(* iteration per step: the first collects the blocks of the integer, the   *)
(* second shifts them together.  Module Readers has what they compute in   *)
(* one formula; this module shows that they do.                            *)
(*                                                                         *)
(* Blocks occupy disjoint bits, so |= is an addition.  A signed << that    *)
(* loses bits wraps, as the compilers the project builds with define it.   *)
(***************************************************************************)
EXTENDS Readers

CONSTANT Inputs   \* the byte sequences decoded
ASSUME InputsAssumption == Inputs \subseteq Seq(Nat)

Kinds == {"u8", "u32", "u64"} \cup Signed

VARIABLES
  kind,     \* the instantiation: signed or not, and its T
  input,    \* the bytes from start to end
  ptr,      \* position of the pointer start
  blocks,   \* the vector blocks
  i,        \* index of the block to be shifted in, from 1
  shift,    \* where it goes: i * 7, or the variable shift
  result,
  phase     \* "collect", "combine", "done" or "undefined"

vars == <<kind, input, ptr, blocks, i, shift, result, phase>>

TypeOK ==
  /\ kind \in Kinds /\ input \in Inputs
  /\ ptr \in 1..(Len(input) + 1)
  /\ blocks = SubSeq(input, 1, ptr - 1)
  /\ i \in 1..(Len(blocks) + 1)
  /\ shift = Payload * (i - 1)
  /\ result \in 0..(Modulus(kind) - 1)
  /\ phase \in {"collect", "combine", "done", "undefined"}

Init ==
  /\ kind \in Kinds /\ input \in Inputs
  /\ ptr = 1 /\ blocks = << >>
  /\ i = 1 /\ shift = 0 /\ result = 0
  /\ phase = "collect"

TakeBlock ==
  /\ phase = "collect" /\ ptr <= Len(input)
  /\ blocks' = Append(blocks, input[ptr])
  /\ ptr' = ptr + 1
  /\ phase' = IF Continues(input[ptr]) THEN "collect" ELSE "combine"
  /\ UNCHANGED <<kind, input, i, shift, result>>

EndOfInput ==
  /\ phase = "collect" /\ ptr = Len(input) + 1
  /\ phase' = "combine"
  /\ UNCHANGED <<kind, input, ptr, blocks, i, shift, result>>

(* Mistake: the continuation bit is shifted in with the payload.           *)
ShiftWholeByte ==
  /\ phase = "combine" /\ i <= Len(blocks) /\ shift < ShiftWidth(kind)
  /\ result' = (result + blocks[i] * Power(2, shift)) % Modulus(kind)
  /\ i' = i + 1 /\ shift' = shift + Payload
  /\ UNCHANGED <<kind, input, ptr, blocks, phase>>

ShiftBlock ==
  /\ phase = "combine" /\ i <= Len(blocks) /\ shift < ShiftWidth(kind)
  /\ result' = (result + Bits(blocks[i]) * Power(2, shift)) % Modulus(kind)
  /\ i' = i + 1 /\ shift' = shift + Payload
  /\ UNCHANGED <<kind, input, ptr, blocks, phase>>

ShiftTooFar ==
  /\ phase = "combine" /\ i <= Len(blocks) /\ shift >= ShiftWidth(kind)
  /\ phase' = "undefined"
  /\ UNCHANGED <<kind, input, ptr, blocks, i, shift, result>>

(* The sign bit of the last block is looked at only if it says something   *)
(* about the bits above it; without a block there is no last one.          *)
Finish ==
  /\ phase = "combine" /\ i = Len(blocks) + 1
  /\ IF kind \in Signed /\ blocks = << >>
     THEN phase' = "undefined" /\ UNCHANGED result
     ELSE /\ phase' = "done"
          /\ result' = IF blocks = << >> THEN result
                       ELSE result + Extension(kind, Last(blocks), shift)
  /\ UNCHANGED <<kind, input, ptr, blocks, i, shift>>

Next == TakeBlock \/ EndOfInput \/ ShiftBlock \/ ShiftTooFar \/ Finish

Spec == Init /\ [][Next]_vars

-----------------------------------------------------------------------------
(* The integers of the binary format, which the code cites: "TODO:         *)
(* preallocate, known max size, https://webassembly.github.io/spec/core/   *)
(* binary/values.html#integers" (include/leb128.hpp:26-27).                *)

(* The digits of an encoding: all bytes but the last continue, and there   *)
(* are no more of them than the width needs.                               *)
WellFormed(bytes) ==
  /\ Len(bytes) \in 1..((Width(kind) + Payload - 1) \div Payload)
  /\ \A j \in 1..Len(bytes) : Continues(bytes[j]) <=> j < Len(bytes)

(* The number the digits stand for, the sign bit counting negatively.      *)
Value(bytes) ==
  LET from[j \in 1..(Len(bytes) + 1)] ==
        IF j > Len(bytes) THEN 0 ELSE Bits(bytes[j]) + Carry * from[j + 1]
  IN  IF kind \in Signed /\ Negative(Last(bytes))
      THEN from[1] - Power(2, Payload * Len(bytes)) ELSE from[1]

InRange(v) ==
  LET half == Power(2, Width(kind) - 1)
  IN  IF kind \in Signed THEN v \in (-half)..(half - 1) ELSE v \in 0..(Modulus(kind) - 1)

Encoding(bytes) == WellFormed(bytes) /\ InRange(Value(bytes))

-----------------------------------------------------------------------------
(* Properties.                                                             *)

(* Every encoding the format allows, padded ones included and whatever     *)
(* follows it, is decoded to the number it encodes, and the pointer is     *)
(* left right behind it.                                                   *)
DecodesEncodings ==
  \A n \in 1..Len(input) :
    Encoding(SubSeq(input, 1, n)) =>
      /\ phase # "undefined"
      /\ phase = "done" => ptr = n + 1 /\ result = Value(SubSeq(input, 1, n)) % Modulus(kind)

(* On any bytes at all, the two loops do what Readers says of them.        *)
ComputesReadInt ==
  LET r == ReadInt(kind, input, 1)
  IN  /\ phase = "done" => r = Result(ptr, result, "ok")
      /\ phase = "undefined" => r.st = "undefined" /\ r.p = ptr

(* The loops stay in their types and agree with Readers.                   *)
DecoderInv == TypeOK /\ ComputesReadInt
=============================================================================
