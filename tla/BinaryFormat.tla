------------------------------ MODULE BinaryFormat ------------------------------
(***************************************************************************)
(* The binary format of the expressions and modules winterp supports, by   *)
(* the grammar of the specification the code cites (src/instructions.cpp:  *)
(* 116, src/sections.cpp:324).  This is no model of the code: it is what   *)
(* the decoders have to invert.  A module is a function from section ids   *)
(* to sequences of entries, with the fields of include/sections.hpp.       *)
(***************************************************************************)
EXTENDS Decoder

(* Indices, alignments and offsets are unsigned, the operands of const     *)
(* instructions are signed.                                                *)
EncodeUnsigned(n) == IF n < 128 THEN <<n>> ELSE <<128 + (n % 128), n \div 128>>
EncodeSigned(n) ==
  IF n \in -64..63 THEN <<n % 128>> ELSE <<128 + (n % 128), (n \div 128) % 128>>

FormatKinds(instr) ==
  CASE instr.op \in Memargs -> Times(Len(instr.imms) - 1, "u32") \o <<"u64">>
    [] instr.op = 65 -> <<"s32">>
    [] instr.op = 66 -> <<"s64">>
    [] OTHER -> Times(Len(instr.imms), "u32")

EncodeOpcode(op) ==
  LET flags == {f \in DOMAIN Flagged : Flagged[f] = op}
  IN  IF flags = {} THEN <<op>> ELSE <<Prefix>> \o SetToSeq(flags)

EncodeImmediate(kind, v) ==
  IF kind \in Signed THEN EncodeSigned(v) ELSE EncodeUnsigned(v)

EncodeImms(instr) ==
  IF instr.op \in {67, 68} THEN instr.imms[1]
  ELSE FlattenSeq([j \in 1..Len(instr.imms) |->
                     EncodeImmediate(FormatKinds(instr)[j], instr.imms[j])])

(* A br_table says how many labels it has, but for the default one.        *)
Labels(instr)   == IF instr.op = BrTable THEN EncodeUnsigned(Len(instr.imms) - 1) ELSE << >>
Operands(instr) == Labels(instr) \o EncodeImms(instr)

EncodeInstr(instr) == EncodeOpcode(instr.op) \o Operands(instr)

Encode(code) == FlattenSeq([j \in 1..Len(code) |-> EncodeInstr(code[j])]) \o <<End>>

(* The expressions: the immediates an opcode has, of at most two bytes     *)
(* each, and an End for every opener but the last End, which Encode adds.  *)
Index   == 0..(Power(2, 14) - 1)
Operand == (-Power(2, 13))..(Power(2, 13) - 1)

HasImmediates(op, imms) ==
  \/ op \in NoImmediates \cup {End} /\ imms = << >>
  \/ op \in Openers \cup {MemFill} /\ imms \in [1..1 -> 0..127]
  \/ op \in {65, 66} /\ imms \in [1..1 -> Operand]
  \/ op \in OneIndex \ {65} /\ imms \in [1..1 -> Index]
  \/ op \in TwoIndices /\ imms \in [1..2 -> Index]
  \/ op = 67 /\ imms \in [1..1 -> [1..4 -> 0..255]]
  \/ op = 68 /\ imms \in [1..1 -> [1..8 -> 0..255]]
  \/ op \in Memargs /\ imms \in [1..2 -> Index] /\ imms[1] < 64
  \/ op \in Memargs /\ imms \in [1..3 -> Index] /\ imms[1] \in 64..127
  \/ op = BrTable /\ imms \in Seq(Index) /\ Len(imms) - 1 \in Index /\ Len(imms) < Power(2, W32)

IsInstr(i) == i = [op |-> i.op, imms |-> i.imms] /\ HasImmediates(i.op, i.imms)

IsExpression(code) ==
  /\ code \in Seq(Range(code))
  /\ \A i \in Range(code) : IsInstr(i)
  /\ \A k \in 0..Len(code) : Count(code, {End}, 1, k) <= Count(code, Openers, 1, k)
  /\ Count(code, {End}, 1, Len(code)) = Count(code, Openers, 1, Len(code))

(* An unsigned number whose encoding is read as a signed one: 64..127, for *)
(* one, end in a byte with bit 6 set.                                      *)
ReadAsSigned(n, w) ==
  LET bits == 7 * Len(EncodeUnsigned(n))
  IN  (IF bits < w /\ n >= Power(2, bits - 1) THEN n - Power(2, bits) ELSE n) % Power(2, w)

(* What the immediates are kept as: indices, alignments and offsets are    *)
(* all read as if they were signed, block types and labels of br_table are  *)
(* not.                                                                    *)
Kept(instr) ==
  LET kinds == FormatKinds(instr)
      kept(kind, n) == IF kind \in {"u32", "u64"} /\ instr.op \notin Openers \cup {BrTable, MemFill}
                       THEN ReadAsSigned(n, Width(kind)) ELSE n % Modulus(kind)
  IN  IF instr.op \in {67, 68} THEN instr
      ELSE [instr EXCEPT !.imms = [j \in DOMAIN instr.imms |-> kept(kinds[j], instr.imms[j])]]

-----------------------------------------------------------------------------
(* Modules.                                                                *)

ParsedIds == (1..7) \cup (9..11)

EncodeVec(entries) == EncodeUnsigned(Len(entries)) \o FlattenSeq(entries)
EncodeName(name)   == EncodeUnsigned(Len(name)) \o name
EncodeLimits(lim)  ==
  <<lim.flag>> \o EncodeUnsigned(lim.n)
    \o (IF lim.flag \in {1, 5} THEN EncodeUnsigned(lim.max) ELSE << >>)

(* What is imported: a function is its type index; a table has an element  *)
(* type and limits, a memory limits, a global a type and a mutability.     *)
EncodeDescriptor(i) ==
  CASE i.kind = 0 -> EncodeUnsigned(i.index)
    [] i.kind = 1 -> <<112>> \o EncodeLimits(i.limits)
    [] i.kind = 2 -> EncodeLimits(i.limits)
    [] i.kind = 3 -> <<i.valtype, i.mut>>

EncodeEntry(id, e) ==
  CASE id = 1  -> <<96>> \o EncodeName(e.params) \o EncodeName(e.results)
    [] id = 2  -> EncodeName(e.module) \o EncodeName(e.name) \o <<e.kind>> \o EncodeDescriptor(e)
    [] id = 3  -> EncodeUnsigned(e)
    [] id = 4  -> <<e.type>> \o EncodeLimits(e)
    [] id = 5  -> EncodeLimits(e)
    [] id = 6  -> <<e.valtype, e.mut>> \o Encode(e.expr)
    [] id = 7  -> EncodeName(e.name) \o <<e.kind>> \o EncodeUnsigned(e.index)
    [] id = 9  -> <<0>> \o Encode(e.expr)
                    \o EncodeVec([j \in DOMAIN e.funcs |-> EncodeUnsigned(e.funcs[j])])
    [] id = 10 -> EncodeName(
                    EncodeVec([j \in DOMAIN e.locals |->
                                 EncodeUnsigned(e.locals[j].count) \o <<e.locals[j].type>>])
                    \o Encode(e.expr))
    [] id = 11 -> <<0>> \o Encode(e.expr) \o EncodeName(e.bytes)

EncodeSection(id, entries) ==
  IF entries = << >> THEN << >>
  ELSE <<id>> \o EncodeName(EncodeVec([j \in DOMAIN entries |-> EncodeEntry(id, entries[j])]))

Header == <<0, 97, 115, 109, 1, 0, 0, 0>>

(* The sections that may be there, in their order: 12 announces how many   *)
(* data segments follow.  Sections without entries are left out.           *)
Order == <<1, 2, 3, 4, 5, 6, 7, 9, 12, 10, 11>>

SectionOf(m, id) ==
  CASE id # 12       -> EncodeSection(id, m[id])
    [] m[11] # << >> -> <<12>> \o EncodeName(EncodeUnsigned(Len(m[11])))
    [] OTHER         -> << >>

EncodeModule(m, order) == Header \o FlattenSeq([j \in DOMAIN order |-> SectionOf(m, order[j])])

(* Where each of them ends in the file; the header is the one before them. *)
SectionEnds(m, order) ==
  [k \in 0..Len(order) |-> 8 + MapThenSumSet(LAMBDA j : Len(SectionOf(m, order[j])), 1..k)]
=============================================================================
