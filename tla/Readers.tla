-------------------------------- MODULE Readers --------------------------------
(***************************************************************************)
(* The readers every decoder of winterp is made of: LEB128 integers        *)
(* (include/leb128.hpp), single bytes and floats (src/leb128.cpp), names.  *)
(*                                                                         *)
(* A reader starts at position p of a section's bytes and returns a record *)
(* [p, v, st]: the position it moved the pointer to, the value, and        *)
(* whether it completed ("ok"), failed an assert ("aborted") or did        *)
(* something undefined ("undefined").  Position p is the C++ pointer       *)
(* start + p - 1; the pointer end is position Len(bytes) + 1.              *)
(*                                                                         *)
(* Integers are residues modulo 2^w, as they are kept in the unions of     *)
(* the code.  The widths are constants, so that TLC can take small ones.   *)
(***************************************************************************)
EXTENDS Arithmetic, SequencesExt, FiniteSetsExt

CONSTANTS
  Payload,   \* payload bits of a LEB128 byte: 7
  W8,        \* bits of uint8_t
  W32,       \* bits of uint32_t and int
  W64        \* bits of uint64_t

ASSUME ReadersAssumption ==
  /\ Payload \in Nat \ {0}
  /\ W8 \in Nat \ {0} /\ W32 \in Nat \ {0} /\ W64 \in Nat \ {0}
  /\ W8 <= W32

Result(p, v, st) == [p |-> p, v |-> v, st |-> st]

(* A byte has Payload bits and the continuation bit.                       *)
Carry == Power(2, Payload)
Continues(b) == b >= Carry
Bits(b) == b % Carry

Signed == {"s32", "s64"}
Width(kind) ==
  CASE kind = "u8" -> W8 [] kind \in {"u32", "s32"} -> W32 [] kind \in {"u64", "s64"} -> W64

(* How many numbers an integer type has.                                   *)
Modulus(kind) == Power(2, Width(kind))

(* Shifts are done in int, or in the type itself if it is wider.           *)
ShiftWidth(kind) == IF kind = "u8" THEN W32 ELSE Width(kind)

(* An integer ends with its first byte without continuation bit, or with   *)
(* the bytes.                                                              *)
Behind(bytes, p) ==
  Min({q \in p..Len(bytes) : ~Continues(bytes[q])} \cup {Len(bytes)}) + 1

(* A block that is shifted by the width or more.                           *)
ShiftsTooFar(kind, blocks) == blocks > 0 /\ (blocks - 1) * Payload >= ShiftWidth(kind)

(* The number that n blocks from p on make.                                *)
Unsigned(bytes, p, n) ==
  SumOf([k \in 1..n |-> Bits(bytes[p + k - 1]) * Power(2, Payload * (k - 1))])

Negative(b) == Bits(b) >= Power(2, Payload - 1)

(* Mistake: the sign of a short encoding is not extended.                  *)
NoExtension(kind, last, shift) == 0

(* ~T(0) << shift, for a last block whose sign bit is set.                 *)
Extension(kind, last, shift) ==
  IF kind \in Signed /\ shift < Width(kind) /\ Negative(last)
  THEN Modulus(kind) - Power(2, shift) ELSE 0

(* uleb128_decode and leb128_decode.  At the end of the bytes there are no *)
(* blocks: the unsigned one yields 0, the signed one reads blocks.back().  *)
FromBlocks(kind, bytes, p, q) ==
  IF ShiftsTooFar(kind, q - p) \/ (q = p /\ kind \in Signed)
  THEN Result(q, 0, "undefined")
  ELSE IF q = p THEN Result(q, 0, "ok")
  ELSE Result(q, (Unsigned(bytes, p, q - p) + Extension(kind, bytes[q - 1], Payload * (q - p)))
                    % Modulus(kind), "ok")

ReadInt(kind, bytes, p) == FromBlocks(kind, bytes, p, Behind(bytes, p))

(* read_float and read_double (n bytes, asserted to be there), read_byte.  *)
ReadRaw(n, bytes, p) ==
  IF Len(bytes) + 1 - p < n THEN Result(p, << >>, "aborted")
  ELSE Result(p + n, SubSeq(bytes, p, p + n - 1), "ok")

(* start == end is the only way for start not to point to a byte.          *)
ReadByte(bytes, p) ==
  IF p \in DOMAIN bytes THEN Result(p + 1, bytes[p], "ok") ELSE Result(p, 0, "aborted")

(* A string of a counted length, taken from the bytes unchecked.           *)
Counted(n, bytes) ==
  IF n.st # "ok" \/ n.p + n.v > Len(bytes) + 1 THEN Result(n.p, << >>, "undefined")
  ELSE Result(n.p + n.v, SubSeq(bytes, n.p, n.p + n.v - 1), "ok")

ReadName(bytes, p) == Counted(ReadInt("u32", bytes, p), bytes)

(* is_valid_heap_type.                                                     *)
HeapTypes == (123..127) \cup (113..116)
ValTypes  == 124..127

(* An assert on what was read.                                            *)
Require(r, condition) == IF r.st = "ok" /\ ~condition THEN [r EXCEPT !.st = "aborted"] ELSE r

(* An integer of one type kept in a variable of a smaller one.             *)
ReadCut(kind, w, bytes, p) == [ReadInt(kind, bytes, p) EXCEPT !.v = @ % Power(2, w)]

(* The types a section may hold: heap types are looked at and kept in one  *)
(* byte, value types whole.                                                *)
OneOf(types, t) == Require(t, t.v \in types)

Read(kind, bytes, p) ==
  CASE kind = "heaptype" -> OneOf(HeapTypes, ReadCut("u32", W8, bytes, p))
    [] kind = "valtype"  -> OneOf(ValTypes, ReadInt("u32", bytes, p))
    [] kind = "u32 cut to 8"  -> ReadCut("u32", W8, bytes, p)
    [] kind = "u64 cut to 32" -> ReadCut("u64", W32, bytes, p)
    [] kind = "byte" -> ReadByte(bytes, p)
    [] kind = "f32"  -> ReadRaw(4, bytes, p)
    [] kind = "f64"  -> ReadRaw(8, bytes, p)
    [] kind = "name" -> ReadName(bytes, p)
    [] OTHER         -> ReadInt(kind, bytes, p)

(* One reader after the other, each appending its value to r.v; what does  *)
(* not complete is the last one.                                           *)
AppendTo(r, x) == Result(x.p, Append(r.v, x.v), x.st)

Advance(r, kind, bytes) == IF r.st # "ok" THEN r ELSE AppendTo(r, Read(kind, bytes, r.p))

Continue(r, kinds, bytes) ==
  LET after[k \in 0..Len(kinds)] == IF k = 0 THEN r ELSE Advance(after[k - 1], kinds[k], bytes)
  IN  after[Len(kinds)]

Times(n, kind) == [j \in 1..n |-> kind]
=============================================================================
