# A verification of winterp

winterp is a WebAssembly interpreter of about 2,600 lines of C++. This directory holds TLA+
specifications of its core, model-checked with TLC on small instances, and theorems about them
checked by TLAPS. Paths are relative to the root of the repository; line numbers are those of the
commit that is modelled.

## Inventory

| Component | State | Operations | Where |
|---|---|---|---|
| Control scans | the parameters `block`, `pc`, `label`, the local `conditional_nesting` | `skip_control_block`, `branch_block` | `src/runtime.cpp:137-220` |
| Control flow of `execute_block` | local `pc` | if, else, block, loop, br, br_if, br_table, return, unreachable | `src/runtime.cpp:761-1149` |
| Operand stack, calls, variables, globals | `stack`, `globals`, the `params` and `locals` of each call | the other instructions, `execute_function`, `run` | `src/runtime.cpp:63-74, 761-1252` |
| Linear memory, data segments | `memory`, `pages`, `data` | loads, stores, memory.*, data.drop | `src/runtime.cpp:76-135, 640-751, 846-968` |
| Numeric instructions, conversions | none | `handle_numeric_*`, `handle_conversion`, `reinterp`, `clz`, `ctz`, `popcnt` | `src/runtime.cpp:222-638`, `include/bits.hpp` |
| Host import | none | `execute_import` (fd_write) | `src/runtime.cpp:1158-1191` |
| Instantiation | all members of `Runtime` | the constructor | `src/runtime.cpp:12-61` |
| Instruction decoding | input position | `parse_instruction`, `read_expr`, `immediates` | `src/instructions.cpp` |
| LEB128 and byte readers | input position | `uleb128_decode`, `leb128_decode`, `read_*` | `include/leb128.hpp`, `src/leb128.cpp` |
| Section parsing | the vectors of `WasmFile` | `read`, `parse_*` | `src/sections.cpp` |

How they interact: `WasmFile::read` decodes a file into vectors, with every expression as a *flat* list
of instructions (`read_expr`, which is made of the byte readers); the `Runtime` keeps a reference to it,
and its constructor runs the constant expressions of the module through `execute_block`. `run` looks up
an export and calls `execute_function`, which pops the parameters, prepares the locals and calls
`execute_block`; a call instruction calls `execute_function` again, on the C++ stack. All calls share
one operand stack. Jumps have no label stack to consult: each one searches the flat list with a nesting
counter.

Everything runs on one thread, and nothing is persisted: there are no interleavings, messages,
timeouts or crashes to recover from. What is hard here is of another kind:

- the *nesting counters* of the two scans, whose result depends on everything between a jump and
  its target;
- the *implicit typing*: nothing is validated, the operand stack is never unwound, and calls only
  work because each one leaves exactly its results behind;
- *numeric edges*: bounds checks on sums that wrap, products that wrap, copies that overlap, counts of
  shifts, the sign of short LEB128 encodings, floats at the limits of the integer types;
- *files that end early*: reads from the file are not checked, and every parse function trusts that the
  one before left the pointer behind its entry;
- *order of construction*: segments are placed before the globals exist, on one page of memory;
- *asserts as error handling*: a failed assert ends the process, and where there is no assert the
  behavior is undefined.

What makes each component correct: a scan lands where structured code would (scans, control flow);
the stack and the variables have the types that validation assigns at every point, and a callee
leaves its callers' operands alone (calls); no access leaves the vector, what is stored can be loaded,
copies copy, growing keeps bytes (memory); decoding consumes exactly one expression and yields a
well-nested list (decoding); LEB128 yields the encoded value (readers); globals, table and memory
hold what the module declares before the first call (instantiation).

## Modules

| Module | Models | Used by |
|---|---|---|
| `Instructions` | instruction lists; the closed forms of the two scans; what the same jumps mean in structured code | scans, control flow, `Interpreter`, `Decoder` |
| `ControlScan` | the two scan loops, one iteration per step | `ControlScanProofs` |
| `StructuredControl` | abstract specification: execution with a stack of labels | `ControlFlow` (refinement) |
| `ControlFlow` | the pc of `execute_block` | `ControlFlowProofs` |
| `Memory` | linear memory and data segments | `MemoryProofs` |
| `Validation` | reference: the types wasm validation assigns to the operand stack of a body, and what it accepts | `Interpreter` |
| `Interpreter` | `run`, `execute_function`, `execute_import`, `execute_block` with operands, frames, variables, globals | `InterpreterProofs` |
| `Numerics` | the numeric handlers and conversions, bit loops included | `NumericSemantics` |
| `NumericSemantics` | reference: what the wasm specification says of each result | |
| `Arithmetic` | powers and sums | `Readers`, `HostImport` |
| `Readers` | integers, bytes, names: what each reader returns, in closed form | `Leb128`, `Decoder` |
| `Leb128` | the two loops of the LEB128 decoders, one iteration per step | `Leb128Proofs` |
| `Decoder` | `parse_instruction` and its tables of immediates, an iteration of `read_expr` | `BinaryFormat` |
| `BinaryFormat` | reference: the encoding of expressions and modules | `ReadExpr`, `WasmFile` |
| `ReadExpr` | the loop of `read_expr` | `ReadExprProofs` |
| `WasmFile` | `WasmFile::read` and the parse functions of the sections | |
| `Instantiation` | the constructor of `Runtime` | `HostImport` |
| `HostImport` | `execute_import`, called on the memory the constructor has made | `InstantiationProofs` |
| `InstructionTheorems` | lemmas on counting, minima, recursion, powers, sums, digits, joined sequences, the closed forms of the jumps, and the structure of well-nested lists | the modules of proofs but `MemoryProofs` |
| `ControlScanProofs`, `ControlFlowProofs`, `InterpreterProofs`, `MemoryProofs`, `Leb128Proofs`, `ReadExprProofs`, `InstantiationProofs` | proofs | |
| `MC_Codes` | finite sets of instruction lists, by grammar | some `MC_*` modules |
| `MC_*` | constants of the runs | |

Operators whose comment begins "Mistake:" are not part of a specification. Each is a wrong version of
the definition that follows it, and replacing that definition by it must make a property fail; this is
how we know that a property says something about the code.

### Instructions and ControlScan

An instruction is a record of an opcode and its immediates; the model's pc is the C++ pc plus one.
`SkipTarget(c, p)` and `BranchTarget(c, p, k)` say in one formula where `skip_control_block` and
`branch_block` end up: the first Else or End after `p` behind at least as many Elses and Ends as
openers; the (k+1)-th Block or Loop above `p` that no End in between cancels. `SkipDefined` and
`BranchDefined` are false when the loop runs out of the vector.

`ControlScan` has the loops themselves: `CountLabel`, `CancelLabel` and `WalkPast` are the iterations
of `branch_block`, `LandInLoop` and `LeaveBlock` its ending, `SkipPast` an iteration of
`skip_control_block` and `SkipStop` its ending; `LeaveCode` is `block[pc]` with `pc` outside the vector.
That the loops compute the closed forms (`ComputesClosedForm`) is both checked and proved, and is what
allows `ControlFlow` and `Interpreter` to take a jump in one step.

The second half of `Instructions` says what a jump should do: `CloserOf`, `EndOf`, `Enclosing`,
`LabelTarget`. It counts constructs, not Elses, and is independent of the code. `CleanSkip`,
`CleanBranch` and `Benign` describe the jumps no `if` gets in the way of. `WellNested` says that openers
and Ends match and every Else belongs to an `if`; `WellFormedBody` adds that every branch has a label, as
`parse_instruction` reads it. `StackOf` writes a set of nested constructs as a stack.

### ControlFlow and StructuredControl

`ControlFlow` is the control flow of one call: `code`, `pc` and a `status`. Conditions and br_table
indices are chosen freely, so every path is explored; all other instructions advance the pc. It refines
`StructuredControl`, which keeps the stack of labels that the code does not keep, under the mapping
`Labels`: the openers of the constructs the pc lies in, innermost last. The refinement is claimed for the
bodies `BenignBody` describes: no `if` gets in the way of a jump, and no `br_table` index asks for the
default, which the code does not take.

### Memory

`size` is the number of bytes, `memory` the bytes, `pages` and `data` the members of `Runtime`.
`uint32_t` is arithmetic modulo `Space`. `Fetch` picks the next memory instruction with its operands;
one action per instruction executes it. An operand is its sequence of little-endian bytes; as in the
code, its length (the tag), not the opcode, decides how many bytes a full store writes. Bounds checks
are those of the code: `offset + n < size` for writes, `<= size` for reads, none for the rest. What is
outside the vector is "undefined", a failed assert is "aborted". The sign extension of narrow loads is
left out.

### Validation and Interpreter

`Interpreter` has the whole machine except the bytes of memory and the arithmetic: the operand stack of
tagged values, a frame per call (`fn`, `pc`, `params`, `locals`), the globals. Every instruction pops
and pushes as in the code, including the asserts of `pop_stack`, of the variable indices, of
`global.set` and reinterpretations, and of the types of blocks and loops: `Supported` says which of them the
code goes on with. The result of an arithmetic instruction or a load is any value with
the tag the code gives it; division by zero and bad accesses may end the process. Two tags stand for
the four number types (32-bit and 64-bit), and one opcode stands for all instructions of one signature
(`I32Add` for the 32-bit binary operations, `F64Eq` for the 64-bit comparisons, `I32Reinterp` for
`i32.reinterpret_f32` and `f32.reinterpret_i32`...).
`fd_write` takes four operands and pushes one; its memory accesses may end the process.

`Validation` is not a model of the code, which validates nothing ("assumes wasm is well structured",
`src/runtime.cpp:1249`), except for `Effects` and the functions on types that the interpreter reads. It
computes the types validation assigns at each position (`TypesIn`), so that the run can start from valid
modules and compare the code's stack with them. `ValidModule` says what validation accepts of a whole
module. `Runnable`, in `Interpreter`, is what the properties take for granted: a valid module, whose
jumps are `Benign` (those that are not land elsewhere, see below), with constants among `Values`.

### Numerics and NumericSemantics

A behaviour of `Numerics` is one instruction with its operands (`instr`), which ends with a tagged
`result` or a `status` "aborted" or "undefined". Each `handle_numeric_*` function is an action
(`BinopI32`, `UnopF64`...), and so is each kind of conversion; `Clz`, `Ctz` and `Popcnt` are iterations
of the loops in `include/bits.hpp`. Integers are residues modulo `2^W32` and `2^W64`; a float is NaN, or
a sign and a number of halves, of which `P32` or `P64` binary digits are kept (`RoundTo`). That is enough
for everything the code decides itself: which operand `min` returns, how a number is rounded to a whole
one, what a truncation and its casts do at the limits. What C++ leaves undefined (a shift by the width,
the least number divided by -1, a cast out of range) is "undefined".

`NumericSemantics` says what the results should be, in another way than the code computes them: integers
bit by bit, quotients by the inequalities they satisfy, roundings by distances. Where the code departs
from the specification, the property says from which operands on and what it yields instead.

### Readers, Leb128, Decoder, ReadExpr

A reader maps the bytes of a section and a position to a new position, a value and an outcome. Position
`p` is the C++ pointer `start + p - 1`, so that the pointer `end` is `Len(bytes) + 1`. `Readers` has the
closed form of `uleb128_decode` and `leb128_decode` (`ReadInt`: the sum of the blocks, each times a power
of two, plus the sign); `Leb128` has their loops: `TakeBlock`
and `EndOfInput` fill the vector `blocks`, `ShiftBlock` and `ShiftTooFar` are iterations of the second
loop, and `Finish` extends the sign. `ComputesReadInt` says that the two agree, on any bytes.

`Decoder` keeps the opcodes and immediates of `parse_instruction` as tables (`Immediates`, `ParseMemarg`,
`ParseLabels`); `Turn` is one iteration of `read_expr`, with the counter `conditional_nesting`. `ReadExpr` takes
these turns as steps, on encoded expressions and on arbitrary bytes. `BinaryFormat` is the other
direction: how the binary format writes what the decoders read. It writes indices and constants in one or
two bytes, and `IsExpression` says which expressions these are: each opcode has the immediates it takes
(`HasImmediates`), and openers and Ends match. `Kept` says what becomes of the immediates: indices, alignments
and offsets are read as signed numbers. `FormatAssumption` fixes what the format and the code agree on:
7 payload bits in a byte of 8.

### WasmFile

The variables are those of `WasmFile::read`: the position in the file, `section_id`, `section_data`, the
pointer of the parse function, and the vectors that it fills (`module`, by section id). `ReadHeader` and
`ReadSection` read from the file, `OpenSection` the count of a section, `ParseEntry` one entry, and
`CloseSection` looks for the end of the file. `TypeEntry`, `ImportEntry`... are the bodies of the loops
of `parse_type_section` and so on; a field cut to eight bits in the code is cut in the model. What a
failed read leaves in a variable that was never assigned is any byte of `Garbage`. A loop in
`file_uleb128_u32t` that sees the same continuation bit for ever is the phase "hangs".

### Instantiation and HostImport

`Instantiation` is the constructor: `list` is the loop it is in (tables, elements, data, globals), `i` the
entry, `pc` the next instruction of the entry's expression. `Const`, `GlobalGet` and `Add` are what
`execute_block` does with it on the one operand stack there is; `TakeOffset` and `PlaceEntry`, `CopyData`,
`TakeGlobal` use its value. `NextList` ends a loop.

`HostImport` continues with calls of `fd_write` on the memory that was made: `CallImport` pushes the
operands, `WriteChunk` is one iteration over the vectors and `ReturnSuccess` stores the count. This
is the composition of the constructor, memory accesses and the host. A number in memory is `Word` bytes of
`Byte` values; `HostAssumption` says that as many values of a word there are as addresses (`Power(Byte,
Word) = Space`), and that data segments are made of bytes. `WriteChunk` takes both ends of a
vector's bytes as subscripts, as the code does (`Subscripts`; `src/runtime.cpp:1173`): a vector that ends
with the last byte of memory subscripts the one behind it, which is undefined. `VectorsFit` takes no sum
modulo the address space, as the code does: a vector that lies in memory neither begins nor ends outside.

## Runs

Checked with `tlc -config <cfg> <module>`; deadlock is not checked because all of these programs end.

| Run | Module / cfg | Properties | Shows |
|---|---|---|---|
| scan | `MC_ControlScan` | `ScanInv`, `LandsAsStructured`, `ScanEnds` | the loops compute the closed forms on every list of up to 3 instructions of a rich alphabet and up to 5 of a small one, nested or not, and on well-nested lists up to 7; they land where structured code does when no `if` interferes, and err in one direction only when one does; they end |
| flow_all | `MC_ControlFlow_all` | `TypeOK`, `UndefinedOnlyBehindIf`, `BackwardOnlyIntoEnclosingLoop`, `ForwardNeverOvershoots`, `LoopFreeStops` | on every validated body up to 4 to 7 instructions the pc goes back only to the start of a loop it is in; it goes forward to where the structure says if no `if` is in the way, and otherwise a skip stops early, never late, and a branch leaves a block further out, never one further in; the pc leaves the vector only behind an `if`; loop-free bodies stop |
| flow_refine | `MC_ControlFlow_refine` | `ImplementsStructured` | on bodies where no `if` interferes, `ControlFlow` implements `StructuredControl`, liveness included |
| memory | `MC_Memory` | `TypeOK`, `ChecksAreSound`, `StoredCanBeLoaded`, `CopyMovesOrRepeats`, `DroppedSegmentIsDead`, `GrowKeepsBytes` | all sequences of memory instructions with up to two pages: what the bounds checks keep out, that a store of any width changes its bytes and no other, what copies do, what survives growth and data.drop |
| interpreter | `MC_Interpreter` | `StackInv`, `StackAsValidated`, `VarsAsValidated`, `AbortsOnlyOnTraps`, `CalleeKeepsCallerOperands`, `RunEnds` | two functions and fd_write, with recursion up to `MaxDepth`: the stack never falls below what validation says; it is exactly as validated when no jump leaves operands behind; params and locals keep their types; an instruction always finds its operands, and an assert fails only at a trap or for what is not implemented, or because of a tag in a module that is not clean; a call never touches its callers' operands; run ends |
| numerics | `MC_Numerics` | `IntegersAsSpecified`, `ComparisonsDecide`, `FloatsAsSpecified`, `HandlersEnd` | every integer instruction, comparison of integers and floats, sign instruction (abs, neg, copysign), minimum, rounding and conversion against the specification |
| leb128 | `MC_Leb128` | `DecoderInv`, `DecodesEncodings` | every encoding of every number of three widths, padded ones included, is decoded to that number; on any bytes the loops do what `Readers` says, and stop where it says |
| read_expr | `MC_ReadExpr` | `ReadInv`, `DecodesImmediates`, `ResultIsBalanced` | expressions are read to the End that closes them, whatever follows; whatever is read is balanced |
| wasm_file | `MC_WasmFile` | `FileInv`, `ParsesModules`, `CutKeepsEarlierSections`, `HangsOnlyInSizes` | whole files parse to the module they encode, whatever the order of the sections, with sizes of one byte and of two; a file that is cut off keeps the sections before the cut, and reading hangs when, and only when, it ends inside a section's size behind a byte that continues |
| instantiation | `MC_Instantiation` | `ConstructorInv`, `BuiltAsDeclared`, `OffsetsReadNoGlobals`, `HostInv`, `ReportsWhatItWrote` | valid modules that fit are instantiated, and table, memory and globals are what segments and expressions say; fd_write writes what it reports, and fails only at vectors that reach the last byte of memory or beyond |
| nested_else | `MC_ControlFlow_nested_else` | `IfZeroFindsOwnElse` | violation, see below |
| loop | `MC_ControlFlow_loop` | `BranchRestartsLoop` | violation, see below |

### Why the bounds are enough

- Scans and control flow: an `if`-`else` inside the first arm of an `if`-`else` takes 6 instructions; a
  branch two constructs deep behind a completed `if` takes 7. Above that only more of the same is
  nested. The scan run also takes lists that are not nested at all, because the closed forms have to
  hold for whatever the loops meet; the theorem removes this bound altogether.
- Memory: an address space of 12 with pages of 3 bytes and words of 2. Growing from one page to two
  fits, to four pages wraps to size 0; accesses end before, at and after the end of memory and past the
  address space; copies of 0, 2 and 3 bytes overlap from both sides. `PageCounts` bounds growth.
- Interpreter: bodies are grammar-generated from short phrases; each run of calls involves the export, a
  callee with parameters of two types and a local of its own, and the table. Some callees call themselves,
  once or without end, so that recursion returns from some depths and reaches `MaxDepth`. Blocks and `if`s
  yield i32 or f64, and reinterpretations meet right and wrong tags. `MaxDepth` is 3 calls,
  `MaxStack` 6 operands when a jump is taken: beyond these the model ends the process as the host would.
  Valid bodies of this size stay below unless they recurse or leave operands behind in a loop. The code
  after an unconditional jump is empty up to the next Else or End.
- Numerics: words of 4 and 8 bits, with all pairs of the former and 19 words around the limits of the
  latter; floats of 4 and 6 binary digits, so that integers of both widths have neighbours that are no
  floats, with magnitudes around every limit of the integer types.
- Leb128: two payload bits per byte and types of 3, 5 and 7 bits, none a multiple of the payload, as 8,
  32 and 64 are none of 7. All sequences of up to 4 bytes: every encoding of the widest type, and one
  byte more than the narrower types may have.
- ReadExpr and WasmFile: the real 7 payload bits, and a 32-bit type of 10 bits and a 64-bit type of 17,
  so that every integer is one to three bytes long and the last of them is not used up. Expressions have
  an instruction of every kind of immediates, in pairs, and constructs nested twice. Two files are cut off after each
  of their bytes: one with entries of all kinds, and one whose sections are longer than 127 bytes, so that
  it may end inside a size, behind a byte that continues. The sections come in the order of the format,
  backwards, and with the last ones first.
- Instantiation: a page of 12 bytes in an address space of 16, numbers of two four-valued bytes, so that
  offsets end at the page, beyond it, and wrap; up to two tables, segments and globals of each kind,
  which overlap in every way. The vectors of `fd_write` end before, at and behind the last byte. Two calls
  (`MaxCalls`), so that the second one can meet what the first has stored.

### Fairness

`WF_vars(Next)` in `ControlScan`, `ControlFlow`, `StructuredControl`, `Interpreter`, `Numerics`,
`Instantiation` and `HostImport`: the interpreter is sequential code on one thread that waits for
nothing, so while a next step exists it is taken. It does not favour any outcome: conditions stay free,
and the liveness properties hold only where the code has no loop to stay in (`LoopFreeStops`, `RunEnds`)
or the loop bounds itself (`ScanEnds`, `HandlersEnd`). `Memory`, `Leb128`, `ReadExpr` and `WasmFile`
claim no liveness and assume no fairness; that reading a file may go on for ever is a phase of its own
there, so that a safety property can say when.

### Disagreements with the comments and with wasm

Two have a run that finds them violated:

1. `skip_control_block` lowers the nesting at the Else of a nested `if`, so an `if` with a zero
   condition may continue inside its first arm (`IfZeroFindsOwnElse`; `src/runtime.cpp:156, 1090`).
2. `branch_block` raises the nesting at the End of a completed `if`, and no opener lowers it again, so
   `br_if 0` behind an `if` does not restart its loop (`BranchRestartsLoop`; `src/runtime.cpp:194-203`).

The others are stated as what the code does, within a property that holds:

3. `br_table` asserts that the index is at most that of the default (`AbortsOnlyOnTraps`;
   `src/runtime.cpp:1131, 1136`). A block fails an assert unless its type is i32 or
   empty, and a loop unless it is empty (`src/runtime.cpp:1097, 1101`).
4. `memory.copy` upward repeats the whole backward loop n times; with overlap the block is not copied
   but its beginning is repeated (`CopyMovesOrRepeats`; `src/runtime.cpp:886-904`).
5. `memory.grow` computes the size in 32 bits (`GrowKeepsBytes`, `TypeOK` of `Memory`;
   `src/runtime.cpp:862`).
6. 64-bit comparisons leave a 64-bit tag (`Clean` in `StackAsValidated`; `src/runtime.cpp:539`), with which
   `global.set` or a reinterpretation then fails an assert (`AbortsOnlyOnTraps`; `src/runtime.cpp:755, 1020`),
   and
   those of integers a high half that is not initialised, which no consumer of a condition looks at
   (`ComparisonsDecide`).
7. `i64.lt_u` has no case and fails an assert; `i64.shr_s` shifts in zeros; the remainder of the least
   number by -1 is undefined (`IntegersAsSpecified`; `src/runtime.cpp:342-400`).
8. `min` and `max` return the first operand when only the second is NaN, or when both are zeros;
   `f64.nearest` rounds to a float first; truncations out of range wrap or are undefined instead of
   trapping (`FloatsAsSpecified`; `src/runtime.cpp:458-638`).
9. Indices, alignments and offsets from 64 on come out negative, unless their encoding is padded
   (`DecodesImmediates`; `src/instructions.cpp:99`).
10. Imports of tables, memories and globals are read as if they were functions (`ParsesModules`;
    `src/sections.cpp:294`). A file with a header only is read on, into whatever the uninitialised
    section id is (`HangsOnlyInSizes` with `Len(File) = 8`; `src/sections.cpp:330`). A file that ends
    inside a section's size may be read for ever (`src/leb128.cpp:17`).
11. The globals are initialised last, not first as `README.md:84` lists them (`OffsetsReadNoGlobals`;
    `src/runtime.cpp:56`); memory starts with one page whatever the module declares (`FitsOnePage`).
12. `fd_write` writes a newline behind every vector and always reports success (`ReportsWhatItWrote`). A vector that
    ends with the last byte of memory makes it subscript the byte behind (`HostInv`; `src/runtime.cpp:1173`).

## Proofs

Checked with `tlapm <module>`. The only assumptions are the `ASSUME`s on the constants: that `Codes` are
instruction sequences and inputs are sequences of bytes, that the values of operands are natural numbers and
zero is one of them, that the sizes of `Memory` are natural numbers with a page and the data segments
shorter than the address space, that the widths of integers are positive and that of `int`, `W32`, is no
less than that of a byte, that a word in memory has as many values as there are addresses, that the format
has 7 payload bits and `ReadExpr` is given expressions it can write (`FormatAssumption`, `IsExpression`),
and that the vectors of a `WasmFile` are lists of what the parser puts there (`IsWasmFile`): unsigned
indices, limits below 2^32, bytes, and i32 constants as unsigned numbers below 2^32, which is how the code
reads them as offsets. TLC evaluates each of them in the runs. Some theorems have a hypothesis besides, on
the bodies or modules they are about, which is named in their statement; the runs are on bodies and modules
that satisfy it, and where they are not chosen by it TLC evaluates it there (`BodiesWellFormed` in
`MC_ControlFlow`, `ModulesRunnable` in `MC_Interpreter`).

**`ControlScanProofs`.** `ScanInvariant`: `Spec => []ScanInv`, for every set of instruction lists;
`ScanTypeCorrect` and `ScanComputesClosedForm` are read off it. `ComputesClosedForm` is not inductive: it
speaks of the end of the scan only. What makes it so are the two loop invariants. In the upward walk,
`nesting` is the *largest excess* of Ends over labels over all stretches from the current position down
to the branch (`WalkInv`), which is what a counter that never falls below zero computes; and `label`
plus the labels counted so far is the label asked for plus one. In the downward skip, `nesting` is the
*balance* of openers over Elses and Ends since the opener, and no position passed was a stop
(`SkipInv`). `InstructionTheorems` holds the lemmas on `Count` (adding one position at either end of an
interval) and on the closed forms they rest on. `ScansLandAsStructured` says what the closed forms mean in
code that is nested: a scan lands where structured control flow would, unless an `if` is in its way. It
needs no further invariant, but a theory of nesting, the second part of `InstructionTheorems`: `Depth`
is the balance of openers over Ends in a range, a position lies in a construct as long as no prefix from
its opener on has more Ends than openers (`Inside`), and directly in it when they balance (`Directly`).
That turns `CloserOf`, `EndOf` and `Enclosing`, which search for a minimum, into conditions on counters,
which is what the scans compare; two constructs are then disjoint or one encloses the other.

**`ControlFlowProofs`.** `FlowTypeCorrect`: `Spec => []TypeOK` of `ControlFlow`. Its content is the range of
`pc`: wherever a jump is defined it lands in the list or just behind it, where `EndOfCode` takes over.
`TypeOK` is inductive as it stands, from two lemmas: a defined skip lands past the instruction after its
opener (`SkipTargetRange`) and a defined branch past a position that its label counts
(`BranchTargetRange`, by `OneOpener`). Both need that a non-empty set of natural numbers has a minimum
(`MinExists`), which is derived from the strict-subset order on finite sets being well-founded.

On well-formed bodies, nested correctly and with a label for every branch, the same structure lemmas give
three properties more: the code is left only at a branch with an `if` in its way, or one out of the
function (`UndefinedBehindIf`); the pc goes back only to a loop it is in (`BackwardIntoEnclosingLoop`);
and a forward jump lands exactly where structured control flow would, unless an `if` is in its way
(`ForwardStaysBehindEnd`): then a skip stops inside its construct or at the end of it, and a branch leaves a
block that encloses it, at least as far out as its label says. `parse_instruction`
and `read_expr` deliver such bodies from valid modules; that openers and Ends balance is itself proved
(`ReadExprProofs`), that every Else belongs to an `if` is validation's part.

`ExecutesStructured` is the refinement of `StructuredControl`, step by step: `Init` implies its `Init`,
and `[Next]_vars` its `[Next]_vars` under the mapping `Labels`. The mapping is where the work is. The
structured machine pushes and pops its stack, the mapped one is `StackOf(Enclosing(pc))`, computed anew
from the pc; so for each kind of step a lemma says what it does to the set of enclosing constructs (an
opener adds itself, an End or a jump removes those it leaves) and another one what that does to the stack.
The hypothesis is `BenignBody`, for it is false otherwise: see the disagreements above.

**`InterpreterProofs`.** Type soundness of the interpreter, for all runnable modules: the stack is never
lower than validation says (`StackHighEnough`); where no jump leaves operands behind, its tags, those of
all waiting callers included, are the validated ones (`StackHasValidatedTypes`); params and locals
keep their declared types (`VarsHaveDeclaredTypes`); an instruction always finds the operands it takes, and an
assert fails only at a trap or for what the code does not implement, or, in modules that are not clean,
because of a wrong tag (`OnlyTrapsAbort`); and no callee touches what its callers hold
(`CallersKeepOperands`). The hypothesis is that the modules are `Runnable`: the code validates nothing,
and the jumps that an `if` gets in the way of do break these properties.

The invariant is `MachineInv`: every frame is at a position that execution can reach, with variables of
their types; every frame but the last waits at a call of the function of the next one (`Calling`); and
the stack fits what validation accounts for (`Fits`): what each waiting frame keeps below the
arguments of its call, joined (`Held`), and what the last one has at its pc. In a module where no jump
leaves anything behind it fits exactly; in others the stack may be higher, and only the operands at its top
are compared. Three layers lead to it:

1. `TypesIn`, the types along a body, is a recursive function. It is unfolded without induction: its
   recursion has a solution (`RecursionExists`: a least length without one is contradicted), and any two
   solutions agree (a least position where they differ is contradicted), so that the function that the
   definition chooses satisfies it (`TypesUnfolded`). `FlattenSeq`, which joins the parts of the stack, is
   treated alike (`FlattenIs`, `FlattenAppend`).
2. Wherever execution goes from an instruction, validation accounts there for no more than the instruction
   leaves (`Reaches`). For a branch this takes the most: the types below a construct only grow inwards
   (`BasesGrow`, `BaseCovers`), so that what a jump does not unwind can only be too much; and the closed
   form of the jump has to be the validated label, which is where the structure lemmas come in.
3. Every action is of one of four kinds, each with a lemma of its own: the process ends (`Stops`), the last
   frame executes an instruction (`Goes`, `Jumps`), a function is entered (`EnterGood`), or it returns
   (`ReturnGood`). What is left for each instruction is what it takes and gives.

**`MemoryProofs`.** `BoundsInvariant`: the size is the page count times the page size modulo the address
space, and a full-width access is undefined only when its end wraps. `AssertsAreSound` follows;
`GrowthKeepsBytes` uses it to conclude that a size that does not wrap is at least the old one.
`VectorInv` adds that the vector is a function on the addresses below `size` and that the data segments
keep their number: from it `StoresCanBeLoaded` (a store of any width that
the code completes has written its bytes inside the vector, where a load finds them, and has changed no
other byte and not the size) and `DroppedStaysDead` (no instruction fills an empty segment, and
`memory.init` of one writes nothing).

`ContentInv` adds what the vector and the segments hold, bytes: `MemoryTypeCorrect` is `Spec => []TypeOK`.
That `memory.init` and `memory.copy` write bytes depends on what their loops do, and these are folds. A
fold is followed as a function from the iterations to the memories the loop goes through (`Folding`), which
exists by the least number that has none; what holds of the memory after the k-th iteration is then an
argument about the least k where it fails. For the downward loop, the first k bytes have moved
(`Moved`); for the upward one, each of its n passes moves the block up by the distance of the
two (`CopyPass`), which after n passes leaves its beginning, as long as that distance, over and over
(`CopyRepeats`). `CopiesMoveOrRepeat` puts the two together.

**`Leb128Proofs`.** Two theorems, for all bytes, all widths and any number of payload bits, with one
invariant: `LoopInv`. Its part `CollectInv` says what the first loop has seen: all bytes before the
pointer continue, except the last one once the loop is over. `CombineInv` is about
the second loop: after i - 1 blocks the result is the number these blocks make, modulo the type, and the
shift is `Payload * (i - 1)`; at the end the sign is on it, or a shift was too far. `LoopsComputeFormula`
(`DecoderInv`) is that the loops return what `ReadInt` says, which is what all other modules take for a decoder.
The extension of the sign is an *or* in the code and a sum in the formula; `ExtensionFits` shows that the
two do not overlap.

`EncodingsDecoded` (`DecodesEncodings`) is about the format: every number of the type, in every encoding the
format allows it, padded or not, comes out as itself. That the blocks of a number are its digits, and
that the digits put together are the number, is in `InstructionTheorems` (`Digits`), which derives what is needed
of `Power` and `SumOf`, and of quotient and remainder. Both are recursive functions, which are unfolded as
described under `InterpreterProofs`, once for any step: there is a function that follows the step (`Iterates`),
and only one (`Agree`).

**`ReadExprProofs`.** `ExpressionsAreBalanced`: whatever the bytes, a list that `read_expr` returns has
as many Ends as openers, no prefix has more Ends than openers, and it stops behind an End. The counter
of the code sees an opcode as a byte (`static_cast<uint8_t>`), the property the opcode itself:
`SeenAsBytes` shows that the opcodes made up for the prefix `0xFC` make no difference. `PushKeepsBalance` (one
more instruction) does the rest. It is what the closed forms of the scans need of the lists they are
given: the decoder's side of the interface.

`ReadsItsExpression` (`ReadInv`) and `ImmediatesAreDecoded` (`DecodesImmediates`) are about bytes that start with
an encoded expression, of any length, followed by anything, for types of any widths that hold a byte. The
decoder inverts the encoding one layer after the other, and each layer is a lemma of its own:

- an index of one or two bytes, read as unsigned or as signed, and a signed constant (`UnsignedRead`,
  `SignedRead`), from the closed form that `Leb128Proofs` shows the loops to compute;
- a list of readers on joined encodings (`ListRead`): `Continue` is followed reader by reader, along the
  positions where the parts of the joined bytes start (`Starts`);
- the operands of each kind of instruction (`OperandsParse`, one lemma per kind: `IndicesParse`,
  `MemargParses`, `BrTableParses`...), the opcode with or without its prefix (`OpcodeDecoded`), and so the whole
  instruction (`InstrRead`): reading `EncodeInstr(instr)` yields `Kept(instr)` and the position behind it.

The invariant of the loop, `Progress`, then says that there are positions, one for each instruction and
one for the last End (`Walk`), and that the loop is at the one of the instruction it reads next, with
what is kept of those before it (`Along`). It stops at the last End and not at one before, because
the nesting counter is the balance of openers over Ends, which in an expression is positive in front of
every End but the last (`OpenAt`); so `IInv` contains the balance of the first theorem.

The other half of `ReadInv`, `TypeOK`, is about any bytes: no reader moves the pointer back or beyond the
end, whatever lengths the bytes claim (`Stays`, `Collects`), and an instruction takes a byte at least, so
that no more instructions are kept than bytes have been read.

**`InstantiationProofs`.** `OffsetsAreConstant`: a module with an element or data offset that reads a
global is never instantiated. The property is about the end of the constructor; `OffsetInv` says of
every step before that no global exists up to the third list, and that the instructions of the segments'
expressions that have been run so far are none that read one (`PlainSoFar`), because such a read fails
an assert. The theorem is about `HostSpec`: no later call changes it.

`ConstructorIsSound` (`Spec => []ConstructorInv`) and `ConstructsWhatIsDeclared` (`HostSpec =>
[]BuiltAsDeclared`) are about what valid modules come to. Both properties speak of segments and globals
that are complete; the invariant says what has been built of them at every step:

- `TypeInv`, whatever the module: where the constructor is, how many globals there are by then, that the
  table is as long as one of the declared tables at most.
- `StackInv`: in front of an instruction the stack is what the expression has pushed so far (`StackAt`),
  and empty between expressions, although all share it.
- `TableInv`, `MemoryInv`: each position holds what the elements written so far put there (`Put`, with
  the number written of each segment in `ElemsDone` and `DataDone`). The last segment that covers a position
  counts, and the one being written is the last so far, so one more element changes one position
  (`PutMore`).
- `GlobalsInv`: each global has the value of its own expression. The expression may read the globals
  before it; that it still has this value in the end is because globals are only appended (`ValueStable`).
- `RoomInv`: the table has at least its minimum, and a module whose segments fit is not stopped: its
  writes lie inside, and their indices do not wrap.

The calls of `fd_write` have an invariant of their own, `FdWriteInv`, which is about `HostSpec`: memory is
bytes, a page of them (`HostMemory`); the vectors before the counter lay in memory and were written as they
stand there, and what is counted is the sum of their lengths modulo the address space (`WriteInv`). From it,
`FittingVectorsSucceed` (`HostInv`): a call whose vectors lie in memory,
with bytes that end before the last one, is not stopped at one of them; and
`FdWriteReports` (`ReportsWhatItWrote`): what a call that has returned has written, in order, and that the
count is all it stored, where the caller wanted it. The count is stored digit by digit and read as a sum;
that it comes back is the lemma on digits again. The count may lie over the vectors, so both the invariant and
the property read these from the memory before it is stored.

**Only model-checked.** Liveness (`ScanEnds`, `LoopFreeStops`, `RunEnds`, `HandlersEnd`) and the part of
`ImplementsStructured` that is fairness: liveness and ENABLED are out of the prover's reach. The safety
properties of two modules: those of `WasmFile` (`FileInv`, `ParsesModules`, `CutKeepsEarlierSections`,
`HangsOnlyInSizes`), which would take what was done for expressions once more for every kind of entry and
its section, and of `NumericSemantics` (`IntegersAsSpecified`, `ComparisonsDecide`, `FloatsAsSpecified`), which
compare numbers bit by bit over ranges where only finite instances are decided. Induction over data is out of
the prover's reach as a rule; where a machine depends on a recursive definition it was unfolded, as
described above. Encodings of expressions with indices of three to five bytes are not covered by `BinaryFormat`;
that integers of any length are decoded is proved in `Leb128Proofs`. No module declares a RECURSIVE operator.

## Not modelled

- Sums, products, quotients and square roots of floats, which are the hardware's; overflow of `f32.demote` to
  infinity; the bits of reinterpretations, of NaNs, and the sign extension of narrow loads.
- The text `fd_write` prints is modelled as bytes; streams and their buffers are not.
- What happens after undefined behavior: a read or write outside of a vector ends the model. Builds with
  `NDEBUG`, in which failed asserts are undefined behavior instead of the end of the process.
- Tables that hold functions of another type than `call_indirect` names, which the code does not compare.
- Several calls of `run` on one `Runtime`: the operands the first leaves would be below those of the
  second.
- Type entries with 256 parameters and more: the count is cut to eight bits in the model too, but no input is
  that long.
- The tests, which were read for what the program is meant to do.

## Plan

What could come next, in this order:

1. `WasmFile`: that a file's sections stay in step (`FileInv`) needs of the entries only where they end, which
   the lemmas of `ReadExprProofs` on readers that stay in their bytes provide; that modules are parsed as
   written (`ParsesModules`) needs the encoding of each kind of entry inverted, like `OperandsParse`.
2. `Interpreter`: modules whose tables hold functions of other types, several calls of `run`, and an
   abstract machine that unwinds its stack, implemented on clean modules.
3. `Instantiation` from the vectors that `WasmFile` has parsed, as one composition.
