-------------------------------- MODULE WasmFile --------------------------------
(***************************************************************************)
(* WasmFile::read and the parse functions of the sections                  *)
(* (src/sections.cpp).  A step reads the header, reads a section from the  *)
(* file, or parses one entry of the section that was read.                 *)
(*                                                                         *)
(* A file that ends inside a section's size leaves the variable block of   *)
(* file_uleb128_u32t with its last value: when that value says that        *)
(* another byte follows, the loop never ends ("hangs").  What is read into *)
(* a variable past the end of the file is whatever was there: Garbage.     *)
(* The bytes of a section past the end of the file are zero.               *)
(***************************************************************************)
EXTENDS BinaryFormat

CONSTANTS
  Inputs,    \* a file's bytes, the module it may encode, that module's whole
             \* encoding, the order of its sections, and where they end in it
  Garbage    \* values of an uninitialised byte

ASSUME FilesAssumption ==
  /\ \A i \in Inputs : i.bytes \in Seq(0..255)
  /\ Garbage \subseteq 0..255

VARIABLES
  input,
  pos,       \* position in the file
  id,        \* section_id
  data,      \* section_data
  p,         \* the pointer ptr of the parse function
  left,      \* entries still to be parsed
  module,    \* the vectors of the WasmFile, by section
  phase

vars == <<input, pos, id, data, p, left, module, phase>>

Ended == {"returned 0", "returned 1", "aborted", "undefined"}

Init ==
  /\ input \in Inputs
  /\ pos = 1 /\ id = 0 /\ data = << >> /\ p = 1 /\ left = 0
  /\ module = [i \in ParsedIds |-> << >>]
  /\ phase = "header"

File == input.bytes

-----------------------------------------------------------------------------
(* The entries, as records with the fields of include/sections.hpp that    *)
(* the format knows.  A reader's value is the sequence of all fields read. *)

From(q, kinds) == Continue(Result(q, << >>, "ok"), kinds, data)

(* The assert on the field read last.                                      *)
LastIn(values, r) == Require(r, Last(r.v) \in values)

(* A count kept in an int: a loop up to a negative one does nothing.       *)
Iterations(n, kept) == IF kept = "int" /\ n >= Power(2, W32 - 1) THEN 0 ELSE n

(* Behind a count, kept in an "int" or a "uint32", the kinds of fields as  *)
(* often as it says.                                                       *)
ReadCounted(n, kept, kinds) ==
  IF n.st # "ok" THEN n
  ELSE LET m == Len(kinds)
       IN  Continue(n, [j \in 1..(m * Iterations(Last(n.v), kept)) |-> kinds[((j - 1) % m) + 1]], data)

ReadCode(r) == IF r.st # "ok" THEN r ELSE AppendTo(r, ReadExpression(data, r.p))

(* The entry f makes of the fields, once they are read.                    *)
As(r, f(_)) == IF r.st = "ok" THEN [r EXCEPT !.v = f(r.v)] ELSE r

Behind1(v, j) == SubSeq(v, j + 1, Len(v))

TypeEntry(q) ==
  LET form    == LastIn({96}, From(q, <<"u32 cut to 8">>))
      params  == ReadCounted(Continue(form, <<"u32 cut to 8">>, data), "uint32", <<"heaptype">>)
      number  == LastIn({0, 1}, Continue(params, <<"u32 cut to 8">>, data))
      results == ReadCounted(number, "uint32", <<"heaptype">>)
  IN  As(results, LAMBDA v : [params |-> SubSeq(v, 3, v[2] + 2), results |-> Behind1(v, v[2] + 3)])

(* Whatever is imported, an index is read for it.                          *)
ImportEntry(q) ==
  As(From(q, <<"name", "name", "byte", "u32">>),
     LAMBDA v : [module |-> v[1], name |-> v[2], kind |-> v[3], index |-> v[4]])

FunctionEntry(q) == As(From(q, <<"u32">>), LAMBDA v : v[1])

(* Mistake: only the flag of shared memories announces a maximum.          *)
OnlySharedHasMaximum(flag) == flag = 5

HasMaximum(flag) == flag \in {1, 5}

(* The minimum and, for some flags, the maximum; 0 otherwise.              *)
ReadMaximum(flag, n, kind) ==
  IF n.st # "ok" THEN n
  ELSE IF HasMaximum(flag) THEN Continue(n, <<kind>>, data)
  ELSE [n EXCEPT !.v = Append(@, 0)]

ReadLimits(r, kind) ==
  IF r.st # "ok" THEN r ELSE ReadMaximum(Last(r.v), Continue(r, <<kind>>, data), kind)

TableEntry(q) ==
  LET type == LastIn((0..255) \ {64}, From(q, <<"byte">>))
  IN  As(ReadLimits(Continue(type, <<"byte">>, data), "u64 cut to 32"),
         LAMBDA v : [type |-> v[1], flag |-> v[2], n |-> v[3], max |-> v[4]])

MemoryEntry(q) ==
  As(ReadLimits(From(q, <<"u32 cut to 8">>), "u64"),
     LAMBDA v : [flag |-> v[1], n |-> v[2], max |-> v[3]])

GlobalEntry(q) ==
  As(ReadCode(From(q, <<"valtype", "u8">>)),
     LAMBDA v : [valtype |-> v[1], mut |-> IF v[2] # 0 THEN 1 ELSE 0, expr |-> v[3]])

ExportEntry(q) ==
  As(From(q, <<"name", "u8", "u32">>), LAMBDA v : [name |-> v[1], kind |-> v[2], index |-> v[3]])

ElementEntry(q) ==
  LET offset == ReadCode(LastIn({0}, From(q, <<"byte">>)))
  IN  As(ReadCounted(Continue(offset, <<"u32">>, data), "int", <<"u32">>),
         LAMBDA v : [expr |-> v[2], funcs |-> Behind1(v, 3)])

(* The size of a body is read and not looked at again.                     *)
CodeEntry(q) ==
  As(ReadCode(ReadCounted(From(q, <<"u32", "u32">>), "uint32", <<"u32", "valtype">>)),
     LAMBDA v : [locals |-> [j \in 1..v[2] |-> [count |-> v[2 * j + 1], type |-> v[2 * j + 2]]],
                 expr   |-> Last(v)])

DataEntry(q) ==
  LET offset == ReadCode(LastIn({0}, From(q, <<"u32">>)))
  IN  As(ReadCounted(Continue(offset, <<"u32">>, data), "uint32", <<"byte">>),
         LAMBDA v : [expr |-> v[2], bytes |-> Behind1(v, 3)])

Entry(i, q) ==
  CASE i = 1 -> TypeEntry(q)   [] i = 2  -> ImportEntry(q) [] i = 3  -> FunctionEntry(q)
    [] i = 4 -> TableEntry(q)  [] i = 5  -> MemoryEntry(q) [] i = 6  -> GlobalEntry(q)
    [] i = 7 -> ExportEntry(q) [] i = 9  -> ElementEntry(q) [] i = 10 -> CodeEntry(q)
    [] i = 11 -> DataEntry(q)

-----------------------------------------------------------------------------
(* The header: 8 bytes, of which the first four are looked at.             *)
ReadHeader ==
  /\ phase = "header"
  /\ IF Len(File) >= 8 /\ SubSeq(File, 1, 4) = SubSeq(Header, 1, 4)
     THEN phase' = "section" /\ pos' = 9
     ELSE phase' = "returned 1" /\ pos' = Len(File) + 1
  /\ UNCHANGED <<input, id, data, p, left, module>>

(* Mistake: a section is taken to include the bytes of its size.           *)
SkipFromId(sizeAt, q, n) == sizeAt + n

(* Where the file stands when n bytes from q on were read as data.         *)
SectionEnd(sizeAt, q, n) == q + n

Bytes(q, n) == [j \in 1..n |-> IF q + j - 1 <= Len(File) THEN File[q + j - 1] ELSE 0]

(* The id and the size of the next section, and its bytes.                 *)
ReadSection(i, g) ==
  LET sizeAt == pos + 1
      q      == Behind(File, sizeAt)
      last   == IF sizeAt <= Len(File) THEN File[q - 1] ELSE g
      size   == IF sizeAt <= Len(File) THEN ReadInt("u32", File, sizeAt)
                ELSE Result(sizeAt, g, "ok")
  IN  /\ phase = "section"
      /\ pos <= Len(File) => i = File[pos]
      /\ id' = i
      /\ IF Continues(last) THEN phase' = "hangs" /\ UNCHANGED <<pos, data>>
         ELSE IF size.st # "ok" THEN phase' = size.st /\ UNCHANGED <<pos, data>>
         ELSE /\ phase' = "opened"
              /\ data' = Bytes(size.p, size.v)
              /\ pos' = SectionEnd(sizeAt, size.p, size.v)
      /\ UNCHANGED <<input, p, left, module>>

(* The beginning of a parse function: the count, kept in an int, to which  *)
(* the vector is resized.  Section 12 is not looked into; the ids that no  *)
(* parse function takes fail an assert.                                    *)
OpenSection ==
  LET n == ReadInt("u32", data, 1)
      bad(how) == phase' = how /\ UNCHANGED <<p, left, module>>
  IN  /\ phase = "opened"
      /\ IF id = 12 THEN phase' = "entries" /\ left' = 0 /\ UNCHANGED <<p, module>>
         ELSE IF id \notin ParsedIds \/ (data # << >> /\ n.v >= Power(2, W32 - 1)) THEN bad("aborted")
         ELSE IF data = << >> \/ n.st # "ok" THEN bad("undefined")
         ELSE /\ phase' = "entries"
              /\ p' = n.p /\ left' = n.v
              /\ module' = [module EXCEPT ![id] = << >>]
      /\ UNCHANGED <<input, pos, id, data>>

ParseEntry ==
  /\ phase = "entries" /\ left > 0
  /\ \E r \in {Entry(id, p)} :
       IF r.st = "ok"
       THEN /\ module' = [module EXCEPT ![id] = Append(module[id], r.v)]
            /\ p' = r.p /\ left' = left - 1
            /\ UNCHANGED phase
       ELSE phase' = r.st /\ UNCHANGED <<module, p, left>>
  /\ UNCHANGED <<input, pos, id, data>>

(* Mistake: the end of the file is only noticed by reading past it.        *)
PastEnd(q) == q > Len(File) + 1

AtEnd(q) == q > Len(File)

CloseSection ==
  /\ phase = "entries" /\ left = 0
  /\ phase' = IF AtEnd(pos) THEN "returned 0" ELSE "section"
  /\ UNCHANGED <<input, pos, id, data, p, left, module>>

Next ==
  \/ ReadHeader
  \/ \E i \in Garbage \cup Range(File), g \in Garbage : ReadSection(i, g)
  \/ OpenSection \/ ParseEntry \/ CloseSection

Spec == Init /\ [][Next]_vars

-----------------------------------------------------------------------------
(* Properties.                                                             *)

TypeOK ==
  /\ pos \in Nat /\ id \in 0..255 /\ left \in Nat
  /\ phase # "undefined" => p \in 1..(Len(data) + 1) \/ left = 0
  /\ DOMAIN module = ParsedIds
  /\ phase \in Ended \cup {"header", "section", "opened", "entries", "hangs"}

Complete      == File = input.whole
Cut           == IsPrefix(File, input.whole) /\ ~Complete /\ Len(File) >= 8
OnlyFunctions == \A i \in DOMAIN input.module[2] : input.module[2][i].kind = 0

(* What the vectors should hold of a section.                              *)
Parsed(i) ==
  LET kept(e) == IF i \in {6, 9, 10, 11}
                 THEN [e EXCEPT !.expr = [j \in DOMAIN e.expr |-> Kept(e.expr[j])]] ELSE e
  IN  [j \in DOMAIN input.module[i] |-> kept(input.module[i][j])]

(* A file that encodes a module with at least one section and only         *)
(* function imports is read without an error, whatever the order of its    *)
(* sections, and the vectors hold that module.                             *)
ParsesModule ==
  Complete /\ OnlyFunctions /\ Len(File) > 8 =>
    /\ phase \notin {"aborted", "undefined", "hangs", "returned 1"}
    /\ phase = "returned 0" => module = [i \in ParsedIds |-> Parsed(i)]

(* Where a section starts, the file is read from there on, however the     *)
(* entries of the section before were understood.                          *)
StaysInStep ==
  (Complete \/ Cut) /\ phase = "section" =>
    \E k \in DOMAIN input.ends : pos = input.ends[k] + 1

(* The sections in front of the one where a file is cut off are parsed as  *)
(* if it were whole.                                                       *)
CutKeepsEarlierSections ==
  Cut /\ OnlyFunctions /\ phase \in Ended =>
    \A k \in DOMAIN input.order :
      input.order[k] # 12 /\ input.ends[k] < Len(File)
        => module[input.order[k]] = Parsed(input.order[k])

(* The file ends before the last byte of a section's size.                 *)
EndsInSize ==
  \E k \in DOMAIN input.ends :
    Len(File) \in (input.ends[k] + 1)..(Behind(input.whole, input.ends[k] + 2) - 2)

(* read never returns only on a file that ends inside the size of a        *)
(* section, or right after its id or the header; and where a byte of the   *)
(* size was read that says another one follows, it does not return.        *)
HangsOnlyInSizes ==
  /\ phase = "hangs" => Len(File) = 8 \/ (Cut /\ EndsInSize)
  /\ Cut /\ OnlyFunctions /\ EndsInSize /\ Continues(Last(File)) => phase \notin Ended

(* Imports of another kind are read as if they were functions: up to the  *)
(* first of them the module and the name of an import, and its kind, are   *)
(* the ones in the file.                                                   *)
ImportsUpToFirstOther ==
  Complete =>
    \A k \in DOMAIN module[2] :
      (k <= Len(input.module[2]) /\ \A h \in 1..(k - 1) : input.module[2][h].kind = 0)
        => \A f \in {"module", "name", "kind"} : module[2][k][f] = input.module[2][k][f]
(* What the vectors hold after a whole file.                               *)
ParsesModules == ParsesModule /\ ImportsUpToFirstOther

(* The state has its types, and sections start where they should.          *)
FileInv == TypeOK /\ StaysInStep
=============================================================================
