-------------------------------- MODULE Memory --------------------------------
(***************************************************************************)
(* The linear memory of a Runtime and the instructions that touch it       *)
(* (src/runtime.cpp: write_memory, read_memory, handle_load, handle_store, *)
(* and the memory branches of execute_block).                              *)
(*                                                                         *)
(* Addresses and page counts are uint32_t in the code: here they are taken *)
(* modulo Space, and a page has PageSize bytes.  An operand is the         *)
(* sequence of its little-endian bytes: Word of them when its tag is I32   *)
(* or F32, 2 * Word when it is I64 or F64.  write_memory looks at the tag  *)
(* of the operand, not at the opcode, to know how many bytes to write.     *)
(*                                                                         *)
(* A step of execute_block is two steps here: Fetch settles which memory   *)
(* instruction comes next and with which operands, and the action named    *)
(* for it executes it.                                                     *)
(*                                                                         *)
(* A failed assert ends the process ("aborted"); an access outside the     *)
(* vector is undefined behavior ("undefined") and nothing is said of what  *)
(* follows.                                                                *)
(***************************************************************************)
EXTENDS Integers, Sequences, SequencesExt

CONSTANTS
  Space,         \* number of uint32_t values
  PageSize,      \* MEMORY_PAGE_SIZE
  Word,          \* bytes of an I32 or F32
  Bytes,         \* values of a byte
  Operands,      \* operands of the full-width stores
  NarrowWidths,  \* widths of the load8/16/32 and store8/16/32 instructions
  Addrs,         \* address operands
  Offsets,       \* static offsets of loads and stores
  Lengths,       \* operands n of the bulk instructions
  Segments,      \* the data segments of the module
  PageCounts     \* page counts memory.grow is followed to

ASSUME MemoryAssumption ==
  /\ Space \in Nat \ {0} /\ PageSize \in 1..(Space - 1) /\ Word \in Nat \ {0}
  /\ 0 \in Bytes /\ Bytes \subseteq Nat
  /\ Operands \subseteq [1..Word -> Bytes] \cup [1..(2 * Word) -> Bytes]
  /\ NarrowWidths \subseteq 1..Word
  /\ Addrs \subseteq 0..(Space - 1) /\ Offsets \subseteq 0..(Space - 1)
  /\ Lengths \subseteq 0..(Space - 1)
  /\ Segments \in Seq(Seq(Bytes)) /\ \A s \in DOMAIN Segments : Len(Segments[s]) < Space
  /\ PageCounts \subseteq 0..(Space - 1)

VARIABLES
  instr,    \* the instruction fetched, with its operands, or Idle
  memory,   \* the byte vector, a function on addresses
  size,     \* memory.size()
  pages,    \* the member pages
  data,     \* the member data: what is left of each data segment
  result,   \* what the last instruction pushed, << >> if nothing
  status    \* "running", "aborted" or "undefined"

vars == <<instr, memory, size, pages, data, result, status>>

Idle == [op |-> "idle"]

Instrs ==
  [op : {"store"}, i : Addrs, ao : Offsets, v : Operands]
  \cup [op : {"store_narrow"}, i : Addrs, ao : Offsets,
        v : UNION {[1..w -> Bytes] : w \in NarrowWidths}]
  \cup [op : {"load"}, i : Addrs, ao : Offsets, w : {Word, 2 * Word}]
  \cup [op : {"load_narrow"}, i : Addrs, ao : Offsets, w : NarrowWidths]
  \cup [op : {"fill"}, i : Addrs, b : Bytes, n : Lengths]
  \cup [op : {"copy"}, i1 : Addrs, i2 : Addrs, n : Lengths]
  \cup [op : {"init"}, s : DOMAIN Segments, i : Addrs, j : Addrs, n : Lengths]
  \cup [op : {"drop"}, s : DOMAIN Segments]
  \cup [op : {"size"}]
  \cup [op : {"grow"}, g : 0..(Space - 1)]

TypeOK ==
  /\ instr \in Instrs \cup {Idle}
  /\ size \in 0..(Space - 1)
  /\ memory \in [0..(size - 1) -> Bytes]
  /\ pages \in 0..(Space - 1)
  /\ Len(data) = Len(Segments)
  /\ result \in Seq(Nat)
  /\ status \in {"running", "aborted", "undefined"}

(* One zeroed page, whatever the module declares.                          *)
Init ==
  /\ instr = Idle
  /\ size = PageSize
  /\ memory = [a \in 0..(PageSize - 1) |-> 0]
  /\ pages = 1
  /\ data = Segments
  /\ result = << >>
  /\ status = "running"

Fetch ==
  /\ status = "running" /\ instr = Idle
  /\ instr' \in Instrs
  /\ result' = << >>
  /\ UNCHANGED <<memory, size, pages, data, status>>

-----------------------------------------------------------------------------
(* uint32_t addition.                                                      *)
Plus(a, b) == (a + b) % Space

(* Whether the w bytes from address a are elements of the vector.          *)
Inside(a, w) == a + w <= size

\* Mistake: an access is checked at its first byte only.
FirstByteAllowed(a, w) == a < size

(* The asserts of write_memory and read_memory: the sum is a uint32_t, and *)
(* a write must end strictly before the end of memory.                     *)
WriteAllowed(a, w) == Plus(a, w) < size
ReadAllowed(a, w)  == Plus(a, w) <= size

\* Mistake: eight-byte operands are written as four bytes.
PokeOneWord(mem, a, bs) ==
  [x \in DOMAIN mem |->
     IF x \in a..(a + Word - 1) /\ x < a + Len(bs) THEN bs[x - a + 1] ELSE mem[x]]

Poke(mem, a, bs) ==
  [x \in DOMAIN mem |-> IF x \in a..(a + Len(bs) - 1) THEN bs[x - a + 1] ELSE mem[x]]
Peek(mem, a, w) == [k \in 1..w |-> mem[a + k - 1]]

Executing(op) == status = "running" /\ instr.op = op
End(how) == status' = how /\ UNCHANGED <<instr, memory, size, pages, data, result>>
Done == instr' = Idle
(* Bytes are stored in the vector; its size is changed by memory.grow only. *)
SetMemory(mem) ==
  /\ memory' = [a \in DOMAIN memory |-> mem[a]]
  /\ Done
  /\ UNCHANGED <<size, pages, data, result, status>>
Push(v) ==
  result' = v /\ Done /\ UNCHANGED <<memory, size, pages, data, status>>

(* The effective address ao + i is a uint32_t.                             *)
Address == Plus(instr.ao, instr.i)

-----------------------------------------------------------------------------
(* Stores and loads.                                                       *)

(* i32.store, i64.store, f32.store, f64.store.                             *)
WideStore ==
  /\ Executing("store")
  /\ LET allowed == WriteAllowed(Address, Len(instr.v))
         inside  == Inside(Address, Len(instr.v))
     IN  \/ allowed /\ inside /\ SetMemory(Poke(memory, Address, instr.v))
         \/ allowed /\ ~inside /\ End("undefined")
         \/ ~allowed /\ End("aborted")

(* The narrow stores write the low bytes of the operand, unchecked.        *)
NarrowStore ==
  /\ Executing("store_narrow")
  /\ IF Inside(Address, Len(instr.v))
     THEN SetMemory(Poke(memory, Address, instr.v))
     ELSE End("undefined")

WideLoad ==
  /\ Executing("load")
  /\ LET allowed == ReadAllowed(Address, instr.w)
         inside  == Inside(Address, instr.w)
     IN  \/ allowed /\ inside /\ Push(Peek(memory, Address, instr.w))
         \/ allowed /\ ~inside /\ End("undefined")
         \/ ~allowed /\ End("aborted")

(* The bytes a narrow load extends, read unchecked.                        *)
NarrowLoad ==
  /\ Executing("load_narrow")
  /\ IF Inside(Address, instr.w)
     THEN Push(Peek(memory, Address, instr.w))
     ELSE End("undefined")

-----------------------------------------------------------------------------
(* The bulk instructions are loops over handle_load and handle_store of    *)
(* single bytes, at addresses that wrap and that nothing checks.           *)

Touched(i, n) == {Plus(i, j) : j \in 0..(n - 1)}

MemoryFill ==
  /\ Executing("fill")
  /\ LET cells == Touched(instr.i, instr.n)
     IN  IF cells \subseteq DOMAIN memory
         THEN SetMemory([a \in DOMAIN memory |-> IF a \in cells THEN instr.b ELSE memory[a]])
         ELSE End("undefined")

\* Mistake: the backward loop is always taken, and once.
BackwardOrder(i1, i2, n) == [k \in 1..n |-> n - k]

(* The byte indices memory.copy handles, in order.  When the destination   *)
(* is the higher one, every iteration of the outer loop runs the whole     *)
(* backward loop.                                                          *)
CopyOrder(i1, i2, n) ==
  IF i1 <= i2 THEN [k \in 1..n |-> k - 1]
  ELSE [k \in 1..(n * n) |-> n - 1 - ((k - 1) % n)]

CopyBytes(mem, i1, i2, order) ==
  FoldLeft(LAMBDA m, j : [m EXCEPT ![Plus(i1, j)] = m[Plus(i2, j)]], mem, order)

MemoryCopy ==
  /\ Executing("copy")
  /\ LET i1 == instr.i1  i2 == instr.i2  n == instr.n
     IN  IF Touched(i1, n) \cup Touched(i2, n) \subseteq DOMAIN memory
         THEN SetMemory(CopyBytes(memory, i1, i2, CopyOrder(i1, i2, n)))
         ELSE End("undefined")

(* Iteration h asserts that the segment has a byte h + j and then stores   *)
(* it at i + h, unchecked: what comes first decides how the loop ends.     *)
MemoryInit ==
  /\ Executing("init")
  /\ LET segment == data[instr.s]
         short   == {h \in 0..(instr.n - 1) : Plus(h, instr.j) >= Len(segment)}
         outside == {h \in 0..(instr.n - 1) : Plus(instr.i, h) >= size}
     IN  \/ /\ short \cup outside = {}
            /\ SetMemory(Poke(memory, instr.i, [h \in 1..instr.n |-> segment[instr.j + h]]))
         \/ (\E h \in short : \A g \in outside : h <= g) /\ End("aborted")
         \/ (\E h \in outside : \A g \in short : h < g) /\ End("undefined")

\* Mistake: the segment keeps its bytes.
DropNothing == Executing("drop") /\ Done /\ UNCHANGED <<memory, size, pages, data, result, status>>

\* Mistake: the segment leaves the vector, and the later ones change index.
EraseSegment ==
  /\ Executing("drop")
  /\ data' = RemoveAt(data, instr.s)
  /\ Done
  /\ UNCHANGED <<memory, size, pages, result, status>>

DataDrop ==
  /\ Executing("drop")
  /\ data' = [data EXCEPT ![instr.s] = << >>]
  /\ Done
  /\ UNCHANGED <<memory, size, pages, result, status>>

-----------------------------------------------------------------------------
MemorySize == Executing("size") /\ Push(<<pages>>)

\* Mistake: the new size forgets the pages there are.
ResizeToGrowth(p) == ((p - 1) * PageSize) % Space

(* pages * MEMORY_PAGE_SIZE is a product of 32-bit integers.               *)
ResizeTo(p) == (p * PageSize) % Space

(* Growing never fails.  resize keeps the bytes that still fit and zeroes  *)
(* the new ones.  Page counts outside PageCounts are not followed.         *)
MemoryGrow ==
  /\ Executing("grow")
  /\ Plus(pages, instr.g) \in PageCounts
  /\ pages' = Plus(pages, instr.g)
  /\ size' = ResizeTo(pages')
  /\ memory' = [a \in 0..(size' - 1) |-> IF a < size THEN memory[a] ELSE 0]
  /\ result' = <<pages>>
  /\ Done
  /\ UNCHANGED <<data, status>>

Execute ==
  \/ WideStore \/ NarrowStore \/ WideLoad \/ NarrowLoad
  \/ MemoryFill \/ MemoryCopy \/ MemoryInit \/ DataDrop
  \/ MemorySize \/ MemoryGrow

Next == Fetch \/ Execute

Spec == Init /\ [][Next]_vars

-----------------------------------------------------------------------------
(* Properties.                                                             *)

Completes(op) == Executing(op) /\ instr' = Idle

(* The asserts keep every full-width access inside the vector unless the   *)
(* end of the access wraps around the 32-bit address space.                *)
ChecksAreSound ==
  status = "undefined" =>
    \/ instr.op \notin {"store", "load"}
    \/ instr.op = "store" /\ Address + Len(instr.v) >= Space
    \/ instr.op = "load" /\ Address + instr.w >= Space

(* What a store of any width has written, a load of the same width finds   *)
(* there, whole: the check of the load is the weaker one.  No other byte   *)
(* is written, and the memory keeps its size.                              *)
Stores == Completes("store") \/ Completes("store_narrow")

StoredCanBeLoaded ==
  [][Stores =>
       /\ size' = size /\ Address + Len(instr.v) <= size
       /\ Peek(memory', Address, Len(instr.v)) = instr.v
       /\ \A a \in DOMAIN memory :
            a \notin Address..(Address + Len(instr.v) - 1) => memory'[a] = memory[a]]_vars

OverlapsUp == instr.i2 < instr.i1 /\ instr.i1 < instr.i2 + instr.n

(* memory.copy moves the block as it was before, unless the destination    *)
(* overlaps it from above: then the repeated backward loop does what a     *)
(* naive forward loop would do, and repeats the first i1 - i2 bytes of the *)
(* source.  Nothing but the destination changes.                           *)
CopyMovesOrRepeats ==
  [][Completes("copy") =>
       LET source(k) == IF OverlapsUp THEN k % (instr.i1 - instr.i2) ELSE k
       IN  \A a \in DOMAIN memory :
             memory'[a] = IF a - instr.i1 \in 0..(instr.n - 1)
                          THEN memory[instr.i2 + source(a - instr.i1)] ELSE memory[a]]_vars

(* Once data.drop has run on a segment, memory.init writes nothing from    *)
(* it: it does nothing at all or ends the process.                         *)
DroppedSegmentIsDead ==
  [][LET dropped == {s \in DOMAIN data : data[s] = << >>}
     IN  /\ Completes("drop") => data'[instr.s] = << >>
         /\ \A s \in dropped : data'[s] = << >>
         /\ Completes("init") /\ instr.s \in dropped => memory' = memory]_vars

(* Growing keeps every byte, as long as the new size fits a uint32_t.      *)
GrowKeepsBytes ==
  [][Completes("grow") /\ pages' >= pages /\ pages' * PageSize < Space =>
       \A a \in 0..(size - 1) : a < size' /\ memory'[a] = memory[a]]_vars
=============================================================================
