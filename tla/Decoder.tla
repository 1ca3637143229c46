-------------------------------- MODULE Decoder --------------------------------
(***************************************************************************)
(* Decoding of instructions (src/instructions.cpp): parse_instruction with *)
(* its tables of immediates, and one iteration of the loop of read_expr.   *)
(*                                                                         *)
(* Here an opcode is the number of enum OpCode, and the immediates of an   *)
(* instruction are the residues (of a float: the bytes) in its imms.       *)
(* static_cast<uint8_t>(op) is op % 256: the opcodes made up for the       *)
(* prefix 0xFC end in 0xFF so that they match no range.                    *)
(***************************************************************************)
EXTENDS Readers, Instructions

Openers  == 2..4          \* Block, Loop, If
Else     == 5
End      == 11
BrTable  == 14
Memargs  == 40..62        \* 0x28 .. 0x3E, the loads and stores
Prefix   == 252           \* 0xFC, MemoryInit
DataDrop == 1032703       \* 0xFC1FF
MemCopy  == 1032959       \* 0xFC2FF
MemFill  == 1033215       \* 0xFC3FF

(* The opcodes behind the prefix, by flag.                                 *)
Flagged == [f \in 8..11 |-> <<Prefix, DataDrop, MemCopy, MemFill>>[f - 7]]

(* The immediates of the opcodes that have a fixed list of them.           *)
NoImmediates == 69..196 \cup {0, 1, Else, 15, 26, 27}
OneIndex     == {65, 63, 64, 16, 18, 32, 33, 34, 35, 36, 12, 13, DataDrop}
TwoIndices   == {17, 19, Prefix, MemCopy}

Immediates(op) ==
  CASE op \in NoImmediates          -> << >>
    [] op \in Openers \cup {MemFill} -> <<"byte">>
    [] op \in OneIndex              -> <<"s32">>
    [] op = 66                      -> <<"s64">>
    [] op \in TwoIndices            -> <<"s32", "s32">>
    [] op = 67                      -> <<"f32">>
    [] op = 68                      -> <<"f64">>

HasTable(op) ==
  op \in NoImmediates \cup Openers \cup {MemFill} \cup OneIndex \cup {66, 67, 68} \cup TwoIndices

(* Mistake: a memory index is never expected.                              *)
MemargWithoutIndex(bytes, p) == Continue(Result(p, << >>, "ok"), <<"s32", "s64">>, bytes)

(* parse_memarg: n, from 64 on a memory index x, and the offset m.  n is   *)
(* decoded as a signed number and compared as an unsigned one.             *)
BehindAlignment(n) == IF n.st = "ok" /\ n.v[1] >= 64 THEN <<"s32", "s64">> ELSE <<"s64">>

ParseMemarg(bytes, p) ==
  LET n == Continue(Result(p, << >>, "ok"), <<"s32">>, bytes)
  IN  Continue(n, BehindAlignment(n), bytes)

(* The labels of a br_table and the default one.                           *)
LabelsBehind(n, bytes) ==
  Continue(Result(n.p, << >>, n.st), Times((n.v + 1) % Power(2, W32), "u32"), bytes)

ParseLabels(bytes, p) == LabelsBehind(ReadInt("u32", bytes, p), bytes)

ParseImmediates(op, bytes, p) ==
  IF (op % 256) \in Memargs THEN ParseMemarg(bytes, p)
  ELSE IF op = BrTable THEN ParseLabels(bytes, p)
  ELSE IF HasTable(op) THEN Continue(Result(p, << >>, "ok"), Immediates(op), bytes)
  ELSE Result(p, << >>, "aborted")

(* The opcode, the flag behind a prefix included.                          *)
ParseOpcode(bytes, p) ==
  LET o    == ReadByte(bytes, p)
      flag == ReadInt("u32", bytes, o.p)
  IN  IF o.st # "ok" \/ o.v # Prefix THEN o
      ELSE IF flag.st # "ok" THEN flag
      ELSE IF flag.v \notin DOMAIN Flagged THEN Result(flag.p, 0, "aborted")
      ELSE Result(flag.p, Flagged[flag.v], "ok")

WithImmediates(op, r) == Result(r.p, [op |-> op, imms |-> r.v], r.st)

ParseInstruction(bytes, p) ==
  LET o == ParseOpcode(bytes, p)
  IN  IF o.st # "ok" THEN o
      ELSE IF o.v = End THEN Result(o.p, [op |-> End, imms |-> << >>], "ok")
      ELSE WithImmediates(o.v, ParseImmediates(o.v, bytes, o.p))

-----------------------------------------------------------------------------
(* read_expr: its state is a reader's result with the counter              *)
(* conditional_nesting; st is "reading" until the loop ends.               *)

StartExpr(p) == [p |-> p, v |-> << >>, st |-> "reading", nesting |-> 0]

NestingAfter(op, nesting) ==
  nesting + (IF (op % 256) \in Openers THEN 1 ELSE 0) - (IF op = End THEN 1 ELSE 0)

(* Mistake: the loop ends at the first End.                                *)
FirstEndEnds(op, nesting) == op = End

EndsExpr(op, nesting) == op = End /\ nesting <= 0

(* The next instruction; the End that ends the expression is left out.     *)
Handle(s, r) ==
  IF r.st # "ok" THEN [s EXCEPT !.p = r.p, !.st = r.st]
  ELSE IF EndsExpr(r.v.op, s.nesting) THEN [s EXCEPT !.p = r.p, !.st = "ok"]
  ELSE [s EXCEPT !.p = r.p, !.v = Append(s.v, r.v), !.nesting = NestingAfter(r.v.op, s.nesting)]

Turn(s, bytes) == Handle(s, ParseInstruction(bytes, s.p))

(* The whole of read_expr: a turn consumes a byte or ends the loop.        *)
ReadExpression(bytes, p) ==
  LET after[k \in 0..(Len(bytes) + 2 - p)] ==
        IF k = 0 THEN StartExpr(p)
        ELSE LET s == after[k - 1] IN IF s.st = "reading" THEN Turn(s, bytes) ELSE s
  IN  after[Len(bytes) + 2 - p]
=============================================================================
