------------------------------- MODULE MC_Leb128 -------------------------------
(***************************************************************************)
(* LEB128 with two payload bits: bytes 0..7, an 8-bit type of 3 bits, a    *)
(* 32-bit type of 5 and a 64-bit type of 7, neither a multiple of the      *)
(* payload.  All inputs up to MaxLen bytes.                                *)
(***************************************************************************)
EXTENDS Leb128

CONSTANT MaxLen

AllInputs == UNION {[1..n -> 0..(2^(Payload + 1) - 1)] : n \in 0..MaxLen}
=============================================================================
