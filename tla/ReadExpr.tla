-------------------------------- MODULE ReadExpr --------------------------------
(***************************************************************************)
(* read_expr (src/instructions.cpp), one instruction per step, on bytes    *)
(* that encode an expression (module BinaryFormat) or on any bytes.        *)
(***************************************************************************)
EXTENDS BinaryFormat

CONSTANT Inputs   \* records [code, bytes]: an expression and bytes to decode

ASSUME InputsAssumption ==
  \A i \in Inputs : i.bytes \in Seq(0..255) /\ IsExpression(i.code)

(* The bytes of the format, and types that hold more than one of them.     *)
ASSUME FormatAssumption == Payload = 7 /\ W8 = 8 /\ W32 <= W64

VARIABLES
  input,   \* the bytes to decode, and the expression they may encode
  s        \* the state of the loop: see StartExpr

vars == <<input, s>>

Init == input \in Inputs /\ s = StartExpr(1)

Iterate == s.st = "reading" /\ s' = Turn(s, input.bytes) /\ UNCHANGED input

Next == Iterate

Spec == Init /\ [][Next]_vars

-----------------------------------------------------------------------------
(* Properties.                                                             *)

Encodes == IsPrefix(Encode(input.code), input.bytes)

TypeOK ==
  /\ s.p \in 1..(Len(input.bytes) + 1)
  /\ s.nesting \in Nat
  /\ Len(s.v) < s.p
  /\ s.st \in {"reading", "ok", "aborted", "undefined"}

(* "Reads all instructions starting from ptr until 0x0b (end code) is read *)
(* and builds the expression vector result" (include/instructions.hpp:274):*)
(* for every expression and whatever bytes follow, the loop goes on to the *)
(* End that closes it and stops there, with the expression's opcodes, each *)
(* with its number of immediates.                                          *)
EndsWithItsExpression ==
  Encodes =>
    /\ s.st \in {"reading", "ok"}
    /\ s.st = "ok" =>
         /\ s.p = Len(Encode(input.code)) + 1
         /\ Len(s.v) = Len(input.code)
         /\ \A i \in DOMAIN s.v : /\ s.v[i].op = input.code[i].op
                                  /\ Len(s.v[i].imms) = Len(input.code[i].imms)

(* The immediates are the ones encoded, but for the sign that indices from *)
(* 64 on get: local.get 64 reads the local 2^32 - 64, although "The        *)
(* parameters of the function are referenced through 0-based local         *)
(* indices" (src/runtime.cpp:971).                                         *)
DecodesImmediates ==
  Encodes /\ s.st = "ok" => s.v = [i \in DOMAIN input.code |-> Kept(input.code[i])]

(* Whatever the bytes, an expression that is read has as many Ends as      *)
(* openers and never more Ends than openers before them, and the byte in   *)
(* front of the pointer is the End that was left out: what the jumps of    *)
(* the interpreter count on.                                               *)
ResultIsBalanced ==
  /\ \A i \in 0..Len(s.v) : Count(s.v, {End}, 1, i) <= Count(s.v, Openers, 1, i)
  /\ s.nesting = Count(s.v, Openers, 1, Len(s.v)) - Count(s.v, {End}, 1, Len(s.v))
  /\ s.st = "ok" => s.nesting = 0 /\ input.bytes[s.p - 1] = End
(* The state has its types, and the loop is in step with the expression.   *)
ReadInv == TypeOK /\ EndsWithItsExpression
=============================================================================
