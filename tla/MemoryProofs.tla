------------------------------ MODULE MemoryProofs ------------------------------
(***************************************************************************)
(* What holds of the linear memory for every address space, page size,     *)
(* operand width and data segment.                                         *)
(***************************************************************************)
EXTENDS Memory, FiniteSetTheorems, TLAPS

(* What the bounds checks and memory.grow depend on: the size of the       *)
(* vector is what the last resize made of the page count, and the fetched  *)
(* instruction is one of Instrs.                                           *)
SizeInv ==
  /\ pages \in 0..(Space - 1)
  /\ size = ResizeTo(pages)
  /\ instr \in Instrs \cup {Idle}

BoundsInv == SizeInv /\ ChecksAreSound

(* Addition of addresses stays in the address space, and is addition as    *)
(* long as the sum is in it.                                               *)
LEMMA PlusType ==
  ASSUME NEW a \in Nat, NEW b \in Nat
  PROVE  /\ Plus(a, b) \in 0..(Space - 1)
         /\ a + b < Space => Plus(a, b) = a + b
<1>1. Space \in Nat \ {0}
  BY MemoryAssumption
<1>2. a + b \in Nat
  OBVIOUS
<1> QED
  BY <1>1, <1>2 DEF Plus

(* Memory never grows past the address space.                              *)
LEMMA ResizeType ==
  ASSUME NEW p \in Nat
  PROVE  ResizeTo(p) \in 0..(Space - 1)
<1>1. Space \in Nat \ {0} /\ PageSize \in Nat
  BY MemoryAssumption
<1>2. p * PageSize \in Nat
  BY <1>1
<1> QED
  BY <1>1, <1>2 DEF ResizeTo

(* The operands of a full-width access are addresses, and its width a      *)
(* number.                                                                 *)
LEMMA AccessType ==
  ASSUME instr \in Instrs \cup {Idle}
  PROVE  /\ instr.op = "store" => Address \in 0..(Space - 1) /\ Len(instr.v) \in Nat
         /\ instr.op = "load" => Address \in 0..(Space - 1) /\ instr.w \in Nat
<1>1. Word \in Nat /\ Addrs \subseteq Nat /\ Offsets \subseteq Nat
  BY MemoryAssumption
<1>2. ASSUME instr.op = "store"
      PROVE  Address \in 0..(Space - 1) /\ Len(instr.v) \in Nat
  <2>1. instr \in [op : {"store"}, i : Addrs, ao : Offsets, v : Operands]
    BY <1>2 DEF Instrs, Idle
  <2>2. instr.v \in [1..Word -> Bytes] \cup [1..(2 * Word) -> Bytes]
    BY <2>1, MemoryAssumption
  <2>3. instr.v \in Seq(Bytes)
    BY <2>2, <1>1
  <2>4. Len(instr.v) \in Nat
    BY <2>3
  <2>5. instr.ao \in Nat /\ instr.i \in Nat
    BY <2>1, <1>1
  <2>6. Address \in 0..(Space - 1)
    BY <2>5, PlusType DEF Address
  <2> QED
    BY <2>4, <2>6
<1>3. ASSUME instr.op = "load"
      PROVE  Address \in 0..(Space - 1) /\ instr.w \in Nat
  <2>1. instr \in [op : {"load"}, i : Addrs, ao : Offsets, w : {Word, 2 * Word}]
    BY <1>3 DEF Instrs, Idle
  <2>2. instr.ao \in Nat /\ instr.i \in Nat
    BY <2>1, <1>1
  <2>3. Address \in 0..(Space - 1)
    BY <2>2, PlusType DEF Address
  <2>4. instr.w \in {Word, 2 * Word}
    BY <2>1
  <2>5. instr.w \in Nat
    BY <2>4, <1>1
  <2> QED
    BY <2>3, <2>5
<1> QED
  BY <1>2, <1>3

(* An access that passes its assert and is not inside the vector ends past *)
(* the end of the address space.                                           *)
LEMMA AllowedInside ==
  ASSUME NEW a \in 0..(Space - 1), NEW w \in Nat, size \in Nat,
         WriteAllowed(a, w) \/ ReadAllowed(a, w), ~Inside(a, w)
  PROVE  a + w >= Space
<1>1. Space \in Nat \ {0}
  BY MemoryAssumption
<1>2. CASE a + w < Space
  <2>1. Plus(a, w) = a + w
    BY <1>2, PlusType
  <2> QED
    BY <2>1, <1>1 DEF WriteAllowed, ReadAllowed, Inside
<1>3. CASE a + w >= Space
  BY <1>3
<1> QED
  BY <1>2, <1>3, <1>1

-----------------------------------------------------------------------------
(* The invariant.                                                          *)

(* Initially memory is one page, and nothing has gone wrong.               *)
LEMMA InitBounds == Init => BoundsInv
<1> SUFFICES ASSUME Init PROVE BoundsInv
  OBVIOUS
<1>0. pages = 1 /\ size = PageSize /\ Space \in Nat /\ PageSize \in 1..(Space - 1)
  BY MemoryAssumption DEF Init
<1>1. pages \in 0..(Space - 1) /\ size = ResizeTo(pages)
  <2>1. 1 * PageSize = PageSize /\ PageSize % Space = PageSize
    BY <1>0
  <2> QED
    BY <1>0, <2>1 DEF ResizeTo
<1> QED
  BY <1>1 DEF Init, BoundsInv, SizeInv, ChecksAreSound

(* A fetch changes neither the size nor the status.                        *)
LEMMA FetchBounds == BoundsInv /\ Fetch => BoundsInv'
  BY DEF Fetch, BoundsInv, SizeInv, ChecksAreSound

(* An instruction that completes without a resize leaves the process       *)
(* running.                                                                *)
LEMMA CompletionBounds ==
  ASSUME BoundsInv, status = "running", Done, UNCHANGED <<size, pages, status>>
  PROVE  BoundsInv'
  BY DEF BoundsInv, SizeInv, ChecksAreSound, Done

(* A step that ends the process keeps the invariant if it is an assert     *)
(* that fails, or if the instruction is one that checks nothing.           *)
LEMMA EndBounds ==
  ASSUME BoundsInv, NEW how, End(how),
         how = "aborted" \/ instr.op \notin {"store", "load"}
  PROVE  BoundsInv'
<1>1. UNCHANGED instr /\ UNCHANGED size /\ UNCHANGED pages /\ status' = how
  BY DEF End
<1>2. SizeInv'
  BY <1>1 DEF BoundsInv, SizeInv
<1>3. ChecksAreSound'
  BY <1>1 DEF ChecksAreSound
<1> QED
  BY <1>2, <1>3 DEF BoundsInv

(* A full-width access either completes, or fails its assert, or wraps     *)
(* around the address space.                                               *)
LEMMA AccessBounds ==
  ASSUME BoundsInv, WideStore \/ WideLoad
  PROVE  BoundsInv'
<1>1. /\ instr.op = "store" => Address \in 0..(Space - 1) /\ Len(instr.v) \in Nat
      /\ instr.op = "load" => Address \in 0..(Space - 1) /\ instr.w \in Nat
  BY AccessType DEF BoundsInv, SizeInv
<1>2. size \in Nat
  BY ResizeType DEF BoundsInv, SizeInv
<1>3. ASSUME End("undefined"),
             \/ instr.op = "store" /\ Address + Len(instr.v) >= Space
             \/ instr.op = "load" /\ Address + instr.w >= Space
      PROVE  BoundsInv'
  <2>1. UNCHANGED instr /\ UNCHANGED size /\ UNCHANGED pages /\ Address' = Address
    BY <1>3 DEF End, Address
  <2>2. SizeInv'
    BY <2>1 DEF BoundsInv, SizeInv
  <2>3. ChecksAreSound'
    BY <2>1, <1>3 DEF ChecksAreSound
  <2> QED
    BY <2>2, <2>3 DEF BoundsInv
<1>4. CASE WideStore
  <2>1. instr.op = "store" /\ status = "running"
    BY <1>4 DEF WideStore, Executing
  <2>2. CASE SetMemory(Poke(memory, Address, instr.v))
    BY <2>1, <2>2, CompletionBounds DEF SetMemory
  <2>3. CASE /\ WriteAllowed(Address, Len(instr.v)) /\ ~Inside(Address, Len(instr.v))
             /\ End("undefined")
    BY <2>1, <2>3, <1>1, <1>2, <1>3, AllowedInside
  <2>4. CASE End("aborted")
    BY <2>4, EndBounds
  <2> QED
    BY <1>4, <2>2, <2>3, <2>4 DEF WideStore
<1>5. CASE WideLoad
  <2>1. instr.op = "load" /\ status = "running"
    BY <1>5 DEF WideLoad, Executing
  <2>2. CASE Push(Peek(memory, Address, instr.w))
    BY <2>1, <2>2, CompletionBounds DEF Push
  <2>3. CASE /\ ReadAllowed(Address, instr.w) /\ ~Inside(Address, instr.w)
             /\ End("undefined")
    BY <2>1, <2>3, <1>1, <1>2, <1>3, AllowedInside
  <2>4. CASE End("aborted")
    BY <2>4, EndBounds
  <2> QED
    BY <1>5, <2>2, <2>3, <2>4 DEF WideLoad
<1> QED
  BY <1>4, <1>5

(* The instructions that check nothing.                                    *)
LEMMA UncheckedBounds ==
  ASSUME BoundsInv,
         \/ NarrowStore \/ NarrowLoad \/ MemoryFill \/ MemoryCopy \/ MemoryInit
         \/ DataDrop \/ MemorySize
  PROVE  BoundsInv'
<1>1. status = "running" /\ instr.op \notin {"store", "load"}
  BY DEF NarrowStore, NarrowLoad, MemoryFill, MemoryCopy, MemoryInit, DataDrop, MemorySize,
         Executing
<1>2. \/ \E how \in {"aborted", "undefined"} : End(how)
      \/ Done /\ UNCHANGED <<size, pages, status>>
  BY DEF NarrowStore, NarrowLoad, MemoryFill, MemoryCopy, MemoryInit, DataDrop, MemorySize,
         SetMemory, Push
<1>3. CASE \E how \in {"aborted", "undefined"} : End(how)
  BY <1>1, <1>3, EndBounds
<1>4. CASE Done /\ UNCHANGED <<size, pages, status>>
  BY <1>1, <1>4, CompletionBounds
<1> QED
  BY <1>2, <1>3, <1>4

(* memory.grow sets the size from the new page count.                      *)
LEMMA GrowBounds == BoundsInv /\ MemoryGrow => BoundsInv'
<1> SUFFICES ASSUME BoundsInv, MemoryGrow PROVE BoundsInv'
  OBVIOUS
<1>1. pages' \in 0..(Space - 1) /\ size' = ResizeTo(pages)' /\ instr' = Idle /\ status' = "running"
  BY MemoryAssumption DEF MemoryGrow, ResizeTo, Done, Executing
<1> QED
  BY <1>1 DEF BoundsInv, SizeInv, ChecksAreSound

(* Every step preserves the invariant.                                     *)
LEMMA NextBounds == BoundsInv /\ [Next]_vars => BoundsInv'
<1> SUFFICES ASSUME BoundsInv, [Next]_vars PROVE BoundsInv'
  OBVIOUS
<1>1. CASE UNCHANGED vars
  BY <1>1 DEF vars, BoundsInv, SizeInv, ChecksAreSound, Address
<1>2. CASE Fetch
  BY <1>2, FetchBounds
<1>3. CASE WideStore \/ WideLoad
  BY <1>3, AccessBounds
<1>4. CASE \/ NarrowStore \/ NarrowLoad \/ MemoryFill \/ MemoryCopy \/ MemoryInit
           \/ DataDrop \/ MemorySize
  BY <1>4, UncheckedBounds
<1>5. CASE MemoryGrow
  BY <1>5, GrowBounds
<1> QED
  BY <1>1, <1>2, <1>3, <1>4, <1>5 DEF Next, Execute

(* The size of the vector always is the page count times the page size, as *)
(* far as a uint32_t holds it.                                             *)
THEOREM BoundsInvariant == Spec => []BoundsInv
  BY InitBounds, NextBounds, PTL DEF Spec

(* The asserts of write_memory and read_memory keep a full-width access    *)
(* inside the vector, for every memory size, unless its end wraps around   *)
(* the address space.                                                      *)
THEOREM AssertsAreSound == Spec => []ChecksAreSound
<1>1. BoundsInv => ChecksAreSound
  BY DEF BoundsInv
<1> QED
  BY <1>1, BoundsInvariant, PTL

-----------------------------------------------------------------------------
(* memory.grow.                                                            *)

(* A resize to at least as many pages that fits the address space does not *)
(* shrink the vector.                                                      *)
LEMMA ResizeMonotone ==
  ASSUME NEW p \in Nat, NEW q \in Nat, p <= q, q * PageSize < Space
  PROVE  ResizeTo(p) <= ResizeTo(q)
<1>1. Space \in Nat \ {0} /\ PageSize \in Nat
  BY MemoryAssumption
<1>2. p * PageSize \in Nat /\ q * PageSize \in Nat /\ p * PageSize <= q * PageSize
  BY <1>1
<1>3. ResizeTo(p) = p * PageSize /\ ResizeTo(q) = q * PageSize
  BY <1>1, <1>2 DEF ResizeTo
<1> QED
  BY <1>2, <1>3

(* The step memory.grow takes.                                             *)
LEMMA GrowStep ==
  ASSUME SizeInv, MemoryGrow, pages' >= pages, pages' * PageSize < Space
  PROVE  \A a \in 0..(size - 1) : a < size' /\ memory'[a] = memory[a]
<1>0. PageCounts \subseteq Nat /\ Space \in Nat
  BY MemoryAssumption
<1>1. pages \in Nat /\ pages' \in Nat
  <2>1. pages' \in PageCounts
    BY Zenon DEF MemoryGrow
  <2> QED
    BY <1>0, <2>1 DEF SizeInv
<1>2. size = ResizeTo(pages) /\ size' = ResizeTo(pages')
  BY DEF SizeInv, MemoryGrow
<1>3. ResizeTo(pages) <= ResizeTo(pages')
  BY <1>1, ResizeMonotone
<1>4. ResizeTo(pages) \in 0..(Space - 1) /\ ResizeTo(pages') \in 0..(Space - 1)
  BY <1>1, ResizeType
<1>5. size <= size' /\ size \in Nat /\ size' \in Nat
  BY <1>0, <1>2, <1>3, <1>4
<1> QED
  BY <1>5 DEF MemoryGrow

(* memory.grow keeps the contents of memory as long as the new size fits   *)
(* a uint32_t.                                                             *)
THEOREM GrowthKeepsBytes == Spec => GrowKeepsBytes
<1>1. BoundsInv /\ [Next]_vars =>
        [Completes("grow") /\ pages' >= pages /\ pages' * PageSize < Space =>
           \A a \in 0..(size - 1) : a < size' /\ memory'[a] = memory[a]]_vars
  <2> SUFFICES ASSUME BoundsInv, Next, Completes("grow"),
                      pages' >= pages, pages' * PageSize < Space
               PROVE  \A a \in 0..(size - 1) : a < size' /\ memory'[a] = memory[a]
    BY DEF vars
  <2>1. MemoryGrow
    BY DEF Completes, Executing, Next, Execute, Fetch, Idle, WideStore, WideLoad, NarrowStore,
           NarrowLoad, MemoryFill, MemoryCopy, MemoryInit, DataDrop, MemorySize
  <2> QED
    BY <2>1, GrowStep DEF BoundsInv
<1> QED
  BY <1>1, BoundsInvariant, PTL DEF Spec, GrowKeepsBytes

-----------------------------------------------------------------------------
(* The contents of the vector and of the segments.  The vector has its     *)
(* size; the module's segments are all there, dropped or not.              *)
VectorInv ==
  /\ BoundsInv
  /\ memory = [a \in 0..(size - 1) |-> memory[a]]
  /\ data = [s \in DOMAIN Segments |-> data[s]]

LEMMA InitVector == Init => VectorInv
<1> SUFFICES ASSUME Init PROVE VectorInv
  OBVIOUS
<1>1. memory = [a \in 0..(size - 1) |-> memory[a]]
  BY DEF Init
<1>2. Segments = [s \in DOMAIN Segments |-> Segments[s]]
  BY MemoryAssumption
<1> QED
  BY <1>1, <1>2, InitBounds DEF Init, VectorInv

(* A step stores bytes, or resizes the vector, or drops a segment, or      *)
(* leaves both alone.                                                      *)
LEMMA NextVector == VectorInv /\ [Next]_vars => VectorInv'
<1> SUFFICES ASSUME VectorInv, [Next]_vars PROVE VectorInv'
  OBVIOUS
<1>1. BoundsInv'
  BY NextBounds DEF VectorInv
<1>2. ASSUME NEW mem, SetMemory(mem) PROVE VectorInv'
  <2>1. DOMAIN memory = 0..(size - 1)
    BY DEF VectorInv
  <2>2. /\ memory' = [a \in 0..(size - 1) |-> mem[a]]
        /\ size' = size /\ data' = data
    BY <1>2, <2>1 DEF SetMemory
  <2>3. memory' = [a \in 0..(size' - 1) |-> memory'[a]]
    BY <2>2
  <2> QED
    BY <1>1, <2>2, <2>3 DEF VectorInv
<1>3. ASSUME UNCHANGED <<memory, size, data>> PROVE VectorInv'
  BY <1>1, <1>3 DEF VectorInv
<1>4. CASE UNCHANGED vars \/ Fetch \/ WideLoad \/ NarrowLoad \/ MemorySize
  BY <1>3, <1>4 DEF vars, Fetch, WideLoad, NarrowLoad, MemorySize, Push, End
<1>5. CASE WideStore \/ NarrowStore \/ MemoryFill \/ MemoryCopy \/ MemoryInit
  <2>1. \/ \E mem : SetMemory(mem)
        \/ UNCHANGED <<memory, size, data>>
    BY <1>5 DEF WideStore, NarrowStore, MemoryFill, MemoryCopy, MemoryInit, End
  <2> QED
    BY <1>2, <1>3, <2>1
<1>6. CASE DataDrop
  <2>1. /\ data' = [data EXCEPT ![instr.s] = << >>]
        /\ memory' = memory /\ size' = size
    BY <1>6 DEF DataDrop
  <2>2. data' = [s \in DOMAIN Segments |-> data'[s]]
    BY <2>1 DEF VectorInv
  <2> QED
    BY <1>1, <2>1, <2>2 DEF VectorInv
<1>7. CASE MemoryGrow
  <2>1. memory' = [a \in 0..(size' - 1) |-> memory'[a]] /\ data' = data
    BY <1>7 DEF MemoryGrow
  <2> QED
    BY <1>1, <2>1 DEF VectorInv
<1> QED
  BY <1>4, <1>5, <1>6, <1>7 DEF Next, Execute

(* The action that executes an instruction is the one named for it.        *)
LEMMA Executed ==
  ASSUME Next
  PROVE  /\ Stores => WideStore \/ NarrowStore
         /\ Completes("copy") => MemoryCopy
         /\ Completes("init") => MemoryInit
         /\ Completes("drop") => DataDrop
         /\ DataDrop \/ UNCHANGED data
BY DEF Stores, Completes, Executing, Next, Execute, Fetch, Idle, WideStore, WideLoad, NarrowStore,
       NarrowLoad, MemoryFill, MemoryCopy, MemoryInit, DataDrop, MemorySize, MemoryGrow,
       SetMemory, Push, End

-----------------------------------------------------------------------------
(* What a store has written is whole in the vector, and nothing else is.   *)
LEMMA StoreStep ==
  ASSUME VectorInv, Stores, WideStore \/ NarrowStore
  PROVE  /\ size' = size /\ Address + Len(instr.v) <= size
         /\ Peek(memory', Address, Len(instr.v)) = instr.v
         /\ \A a \in DOMAIN memory :
              a \notin Address..(Address + Len(instr.v) - 1) => memory'[a] = memory[a]
<1> DEFINE n == Len(instr.v)
<1>1. instr.op \in {"store", "store_narrow"} /\ instr' = Idle /\ instr.op # "idle"
  BY DEF Stores, Completes, Executing
<1>2. instr \in [op : {"store"}, i : Addrs, ao : Offsets, v : Operands]
                \cup [op : {"store_narrow"}, i : Addrs, ao : Offsets,
                      v : UNION {[1..w -> Bytes] : w \in NarrowWidths}]
  BY <1>1 DEF VectorInv, BoundsInv, SizeInv, Instrs, Idle
<1>3. /\ Address \in 0..(Space - 1) /\ n \in Nat
      /\ instr.v = [k \in 1..n |-> instr.v[k]]
  <2>1. \/ instr.v \in [1..Word -> Bytes] \cup [1..(2 * Word) -> Bytes] /\ Word \in Nat
        \/ instr.v \in UNION {[1..w -> Bytes] : w \in NarrowWidths} /\ NarrowWidths \subseteq Nat
    BY <1>2, MemoryAssumption
  <2>2. instr.v \in Seq(Bytes)
    BY <2>1
  <2>3. instr.ao \in Nat /\ instr.i \in Nat
    <3>1. instr.ao \in Offsets /\ instr.i \in Addrs
      BY <1>2
    <3>2. Addrs \subseteq Nat /\ Offsets \subseteq Nat
      BY MemoryAssumption
    <3> QED
      BY <3>1, <3>2
  <2>4. Address \in 0..(Space - 1)
    BY <2>3, PlusType DEF Address
  <2> QED
    BY <2>2, <2>4
<1>4. Inside(Address, n) /\ SetMemory(Poke(memory, Address, instr.v))
  <2>1. ~End("aborted") /\ ~End("undefined")
    BY <1>1 DEF End, Idle
  <2> QED
    BY <2>1 DEF WideStore, NarrowStore
<1>5. size' = size /\ size \in Nat /\ DOMAIN memory = 0..(size - 1)
  BY <1>4, ResizeType DEF SetMemory, VectorInv, BoundsInv, SizeInv
<1>6. Address + n <= size
  BY <1>4 DEF Inside
<1>7. \A k \in 1..n : memory'[Address + k - 1] = instr.v[k]
  <2> SUFFICES ASSUME NEW k \in 1..n PROVE memory'[Address + k - 1] = instr.v[k]
    OBVIOUS
  <2> DEFINE x == Address + k - 1
  <2>1. x \in DOMAIN memory /\ x \in Address..(Address + n - 1) /\ x - Address + 1 = k
    BY <1>3, <1>5, <1>6
  <2>2. Poke(memory, Address, instr.v)[x] = instr.v[x - Address + 1]
    BY <2>1 DEF Poke
  <2> QED
    BY <1>4, <2>1, <2>2 DEF SetMemory
<1>8. ASSUME NEW a \in DOMAIN memory, a \notin Address..(Address + n - 1)
      PROVE  memory'[a] = memory[a]
  <2>1. Poke(memory, Address, instr.v)[a] = memory[a]
    BY <1>8 DEF Poke
  <2> QED
    BY <1>4, <1>8, <2>1 DEF SetMemory
<1> QED
  BY <1>3, <1>5, <1>6, <1>7, <1>8 DEF Peek

(* What a store has written is inside the vector, a load finds it, and no  *)
(* other byte has changed, for every memory size, width and address.       *)
THEOREM StoresCanBeLoaded == Spec => StoredCanBeLoaded
<1>1. VectorInv /\ [Next]_vars =>
        [Stores =>
           /\ size' = size /\ Address + Len(instr.v) <= size
           /\ Peek(memory', Address, Len(instr.v)) = instr.v
           /\ \A a \in DOMAIN memory :
                a \notin Address..(Address + Len(instr.v) - 1) => memory'[a] = memory[a]]_vars
  BY Executed, StoreStep
<1> QED
  BY <1>1, InitVector, NextVector, PTL DEF Spec, StoredCanBeLoaded

(* From a dropped segment memory.init takes nothing: unless it is asked    *)
(* for no bytes, its first assert fails.                                   *)
LEMMA InitStep ==
  ASSUME VectorInv, Completes("init"), MemoryInit, data[instr.s] = << >>
  PROVE  memory' = memory
<1>1. instr \in [op : {"init"}, s : DOMAIN Segments, i : Addrs, j : Addrs, n : Lengths]
  <2>1. instr.op = "init" /\ instr \in Instrs \cup {Idle}
    BY DEF Completes, Executing, VectorInv, BoundsInv, SizeInv
  <2> QED
    BY <2>1 DEF Instrs, Idle
<1>2. instr.n \in Nat /\ instr.i \in Nat /\ instr.j \in Nat
  <2>1. Addrs \subseteq Nat /\ Lengths \subseteq Nat
    BY MemoryAssumption
  <2>2. instr.n \in Lengths /\ instr.i \in Addrs /\ instr.j \in Addrs
    BY <1>1
  <2> QED
    BY <2>1, <2>2
<1> DEFINE segment == data[instr.s]
           short   == {h \in 0..(instr.n - 1) : Plus(h, instr.j) >= Len(segment)}
           outside == {h \in 0..(instr.n - 1) : Plus(instr.i, h) >= size}
           bytes   == [h \in 1..instr.n |-> segment[instr.j + h]]
<1>3. short \cup outside = {} /\ SetMemory(Poke(memory, instr.i, bytes))
  <2>1. ~End("aborted") /\ ~End("undefined")
    <3>1. instr.op = "init" /\ instr' = Idle
      BY DEF Completes, Executing
    <3> QED
      BY <3>1 DEF End, Idle
  <2> QED
    BY <2>1 DEF MemoryInit
<1>4. instr.n = 0
  <2> SUFFICES ASSUME instr.n # 0 PROVE FALSE
    OBVIOUS
  <2>1. 0 \in 0..(instr.n - 1)
    BY <1>2
  <2>2. Plus(0, instr.j) \in 0..(Space - 1) /\ Space \in Nat
    BY <1>2, PlusType, MemoryAssumption
  <2>3. 0 \in short
    BY <2>1, <2>2
  <2> QED
    BY <1>3, <2>3
<1>5. Len(bytes) = 0
  BY <1>4
<1>6. \A x \in DOMAIN memory : Poke(memory, instr.i, bytes)[x] = memory[x]
  <2> HIDE DEF bytes
  <2> QED
    BY <1>2, <1>5 DEF Poke, VectorInv
<1>7. memory' = [x \in DOMAIN memory |-> memory[x]]
  <2>1. memory' = [x \in DOMAIN memory |-> Poke(memory, instr.i, bytes)[x]]
    BY <1>3, Zenon DEF SetMemory
  <2> HIDE DEF bytes
  <2> QED
    BY <1>6, <2>1
<1> QED
  BY <1>7 DEF VectorInv

(* A segment that has been dropped stays empty, and memory.init writes     *)
(* nothing from it.                                                        *)
THEOREM DroppedStaysDead == Spec => DroppedSegmentIsDead
<1> DEFINE dropped == {s \in DOMAIN data : data[s] = << >>}
<1>1. VectorInv /\ [Next]_vars =>
        [/\ Completes("drop") => data'[instr.s] = << >>
         /\ \A s \in dropped : data'[s] = << >>
         /\ Completes("init") /\ instr.s \in dropped => memory' = memory]_vars
  <2> SUFFICES ASSUME VectorInv, [Next]_vars, vars' # vars
               PROVE  /\ Completes("drop") => data'[instr.s] = << >>
                      /\ \A s \in dropped : data'[s] = << >>
                      /\ Completes("init") /\ instr.s \in dropped => memory' = memory
    OBVIOUS
  <2>0. Next
    OBVIOUS
  <2>1. ASSUME Completes("drop") PROVE data'[instr.s] = << >>
    <3>1. instr \in [op : {"drop"}, s : DOMAIN Segments]
      <4>1. instr.op = "drop" /\ instr \in Instrs \cup {Idle}
        BY <2>1 DEF Completes, Executing, VectorInv, BoundsInv, SizeInv
      <4> QED
        BY <4>1 DEF Instrs, Idle
    <3>2. DataDrop
      BY <2>0, <2>1, Executed
    <3> QED
      BY <3>1, <3>2 DEF DataDrop, VectorInv
  <2>2. \A s \in dropped : data'[s] = << >>
    <3>1. CASE DataDrop
      BY <3>1 DEF DataDrop
    <3>2. CASE UNCHANGED data
      BY <3>2
    <3> QED
      BY <2>0, <3>1, <3>2, Executed
  <2>3. Completes("init") /\ instr.s \in dropped => memory' = memory
    BY <2>0, Executed, InitStep
  <2> QED
    BY <2>1, <2>2, <2>3
<1> QED
  BY <1>1, InitVector, NextVector, PTL DEF Spec, DroppedSegmentIsDead

-----------------------------------------------------------------------------
(* memory.copy is a fold over the indices it handles.  What a fold         *)
(* computes is a recursive function on sets of positions; it is unfolded   *)
(* here into the memories the loop goes through.                           *)

(* A set of natural numbers that is not empty has a least one.             *)
LEMMA LeastExists ==
  ASSUME NEW S \in SUBSET Nat, S # {}
  PROVE  \E m \in S : \A x \in S : m <= x
<1> DEFINE Below(m) == S \cap (0..m)
           Family == {Below(m) : m \in S}
<1>1. PICK m \in S : \A x \in S : ~(<<Below(x), Below(m)>> \in StrictSubsetOrdering(S))
  <2>1. \A m \in S : Below(m) \in FiniteSubsetsOf(S)
    <3> TAKE m \in S
    <3>1. Below(m) \in SUBSET (0..m) /\ IsFiniteSet(0..m)
      BY FS_Interval
    <3> QED
      BY <3>1, FS_Subset DEF FiniteSubsetsOf
  <2>2. Family \subseteq FiniteSubsetsOf(S) /\ Family # {}
    BY <2>1
  <2>3. IsWellFoundedOn(StrictSubsetOrdering(S), FiniteSubsetsOf(S))
    BY FS_StrictSubsetOrderingWellFounded
  <2>4. \E T \in Family : \A U \in Family : ~(<<U, T>> \in StrictSubsetOrdering(S))
    <3> HIDE DEF Family
    <3> QED
      BY <2>2, <2>3, WFMin
  <2> QED
    BY <2>4
<1>2. \A x \in S : m <= x
  <2> SUFFICES ASSUME NEW x \in S, x < m
               PROVE  FALSE
    OBVIOUS
  <2>1. Below(x) \subseteq Below(m) /\ Below(x) # Below(m)
    <3>1. m \in Below(m) /\ m \notin Below(x)
      OBVIOUS
    <3>2. Below(x) \subseteq Below(m)
      OBVIOUS
    <3> QED
      BY <3>1, <3>2
  <2>2. <<Below(x), Below(m)>> \in StrictSubsetOrdering(S)
    BY <2>1 DEF StrictSubsetOrdering
  <2> QED
    BY <1>1, <2>2
<1> QED
  BY <1>2

(* The largest of some positions.                                          *)
LEMMA MaxIs ==
  ASSUME NEW s \in SUBSET Nat, NEW n \in s, \A x \in s : x <= n
  PROVE  Max(s) = n
<1>1. \A y \in s : n >= y
  OBVIOUS
<1>2. \A x \in s : (\A y \in s : x >= y) => x = n
  OBVIOUS
<1> QED
  BY <1>1, <1>2 DEF Max

(* Some positions up to n have a last one.                                 *)
LEMMA LastExists ==
  ASSUME NEW n \in Nat, NEW s \in SUBSET (1..n), s # {}
  PROVE  Max(s) \in s
<1> DEFINE Gaps == {d \in 0..n : n - d \in s}
<1>1. Gaps \in SUBSET Nat /\ Gaps # {}
  <2>1. PICK x \in s : TRUE
    OBVIOUS
  <2>2. n - x \in Gaps
    BY <2>1
  <2>3. Gaps \in SUBSET Nat
    OBVIOUS
  <2> HIDE DEF Gaps
  <2> QED
    BY <2>2, <2>3
<1>2. PICK d \in Gaps : \A e \in Gaps : d <= e
  <2> HIDE DEF Gaps
  <2> QED
    BY <1>1, LeastExists
<1>3. n - d \in s /\ \A x \in s : x <= n - d
  <2>1. \A x \in s : n - x \in Gaps
    OBVIOUS
  <2> QED
    BY <1>2, <2>1
<1> QED
  BY <1>3, MaxIs

(* Functions that fold h over the positions in a set, the last one last.   *)
Folding(X, n, a, h) ==
  {g \in [SUBSET (1..n) -> X] :
     /\ g[{}] = a
     /\ \A s \in SUBSET (1..n) : s # {} => g[s] = h[Max(s)][g[s \ {Max(s)}]]}

(* There is one.                                                           *)
LEMMA FoldingExists ==
  ASSUME NEW X, NEW n \in Nat, NEW a \in X, NEW h \in [1..n -> [X -> X]]
  PROVE  Folding(X, n, a, h) # {}
<1> DEFINE Bad == {k \in 0..n : Folding(X, k, a, h) = {}}
<1>1. SUFFICES ASSUME n \in Bad PROVE FALSE
  OBVIOUS
<1>2. PICK m \in Bad : \A x \in Bad : m <= x
  <2>1. Bad \in SUBSET Nat /\ Bad # {}
    BY <1>1
  <2> HIDE DEF Bad
  <2> QED
    BY <2>1, LeastExists
<1>3. m \in 0..n /\ Folding(X, m, a, h) = {}
  BY <1>2
<1>4. m # 0
  <2> DEFINE f == [s \in SUBSET (1..0) |-> a]
  <2>1. 1..0 = {}
    OBVIOUS
  <2>2. f \in [SUBSET (1..0) -> X] /\ f[{}] = a
    OBVIOUS
  <2>3. \A s \in SUBSET (1..0) : s = {}
    BY <2>1
  <2>4. f \in Folding(X, 0, a, h)
    <3> HIDE DEF f
    <3> QED
      BY <2>2, <2>3 DEF Folding
  <2> QED
    BY <1>3, <2>4
<1>5. m - 1 \in 0..n /\ m - 1 \notin Bad /\ m \in 1..n /\ m \in Nat
  BY <1>2, <1>3, <1>4
<1>6. PICK g : g \in Folding(X, m - 1, a, h)
  BY <1>5
<1>7. /\ g \in [SUBSET (1..(m - 1)) -> X] /\ g[{}] = a
      /\ \A s \in SUBSET (1..(m - 1)) : s # {} => g[s] = h[Max(s)][g[s \ {Max(s)}]]
  BY <1>6 DEF Folding
<1> DEFINE f == [s \in SUBSET (1..m) |-> IF m \in s THEN h[m][g[s \ {m}]] ELSE g[s]]
<1>8. \A s \in SUBSET (1..m) : /\ s \ {m} \in SUBSET (1..(m - 1))
                               /\ m \notin s => s \in SUBSET (1..(m - 1))
  BY <1>5
<1>9. f \in [SUBSET (1..m) -> X] /\ f[{}] = a
  BY <1>5, <1>7, <1>8
<1>10. ASSUME NEW s \in SUBSET (1..m), s # {}
       PROVE  f[s] = h[Max(s)][f[s \ {Max(s)}]]
  <2>1. CASE m \in s
    <3>1. Max(s) = m
      BY <2>1, MaxIs
    <3>2. f[s \ {m}] = g[s \ {m}]
      OBVIOUS
    <3> QED
      BY <2>1, <3>1, <3>2
  <2>2. CASE m \notin s
    <3>1. s \in SUBSET (1..(m - 1)) /\ f[s] = g[s]
      BY <1>8, <2>2
    <3>2. g[s] = h[Max(s)][g[s \ {Max(s)}]]
      BY <1>7, <1>10, <3>1
    <3>3. f[s \ {Max(s)}] = g[s \ {Max(s)}]
      BY <2>2
    <3> QED
      BY <3>1, <3>2, <3>3
  <2> QED
    BY <2>1, <2>2
<1>11. f \in Folding(X, m, a, h)
  <2> HIDE DEF f
  <2> QED
    BY <1>9, <1>10 DEF Folding
<1> QED
  BY <1>3, <1>11

(* The memory after each of the indices that memory.copy handles.          *)
Copying(f, mem, i1, i2, order, n) ==
  /\ f[0] = mem
  /\ \A k \in 1..n : f[k] = [f[k - 1] EXCEPT ![Plus(i1, order[k])] = f[k - 1][Plus(i2, order[k])]]

(* All that is read is in the memory.                                      *)
Readable(D, B, mem, i2, order, n) ==
  /\ mem \in [D -> B] /\ n \in Nat
  /\ order = [k \in 1..n |-> order[k]]
  /\ \A k \in 1..n : Plus(i2, order[k]) \in D

(* They end with what the fold computes.                                   *)
Copied(f, mem, i1, i2, order, n) ==
  Copying(f, mem, i1, i2, order, n) /\ CopyBytes(mem, i1, i2, order) = f[n]

(* The fold goes through these memories.                                   *)
LEMMA CopyRuns ==
  ASSUME NEW D, NEW B, NEW mem, NEW i1, NEW i2, NEW n, NEW order,
         Readable(D, B, mem, i2, order, n)
  PROVE  \E f : Copied(f, mem, i1, i2, order, n)
<1>0. /\ mem \in [D -> B] /\ n \in Nat /\ DOMAIN order = 1..n
      /\ \A k \in 1..n : Plus(i2, order[k]) \in D
  BY DEF Readable
<1> DEFINE X == [D -> B]
           step(m, j) == [m EXCEPT ![Plus(i1, j)] = m[Plus(i2, j)]]
           h == [k \in 1..n |-> [m \in X |-> step(m, order[k])]]
           Solves(g) == g = [s \in SUBSET (1..n) |->
                               IF s = {} THEN mem ELSE step(g[s \ {Max(s)}], order[Max(s)])]
<1>1. \A m \in X, k \in 1..n : step(m, order[k]) \in X
  BY <1>0
<1>3. h \in [1..n -> [X -> X]] /\ mem \in X
  <2> HIDE DEF X, step
  <2>1. \A k \in 1..n : [m \in X |-> step(m, order[k])] \in [X -> X]
    BY <1>1
  <2> QED
    BY <1>0, <2>1 DEF X
<1>4. \A s \in SUBSET (1..n) : s # {} => Max(s) \in 1..n
  BY <1>0, LastExists
<1>5. PICK g : g \in Folding(X, n, mem, h)
  <2> HIDE DEF X, h
  <2> QED
    BY <1>0, <1>3, FoldingExists
<1>6. Solves(g)
  <2>1. /\ g \in [SUBSET (1..n) -> X] /\ g[{}] = mem
        /\ \A s \in SUBSET (1..n) : s # {} => g[s] = h[Max(s)][g[s \ {Max(s)}]]
    <3> HIDE DEF X, h
    <3> QED
      BY <1>5 DEF Folding
  <2>2. ASSUME NEW s \in SUBSET (1..n), s # {}
        PROVE  g[s] = step(g[s \ {Max(s)}], order[Max(s)])
    <3>1. g[s \ {Max(s)}] \in X /\ Max(s) \in 1..n
      BY <1>4, <2>1, <2>2
    <3> HIDE DEF X, step
    <3> QED
      BY <2>1, <2>2, <3>1
  <2> HIDE DEF X, h, step
  <2> QED
    BY <2>1, <2>2
<1> DEFINE iter == CHOOSE g1 : Solves(g1)
<1>7. Solves(iter)
  <2> HIDE DEF Solves
  <2> QED
    BY <1>6
<1>8. CopyBytes(mem, i1, i2, order) = iter[1..n]
  BY <1>0 DEF CopyBytes, FoldLeft, MapThenFoldSet
<1> DEFINE f == [k \in 0..n |-> iter[1..k]]
<1> HIDE DEF iter
<1>9. f[0] = mem
  <2>1. 1..0 = {} /\ 0 \in 0..n /\ {} \in SUBSET (1..n)
    BY <1>0
  <2> HIDE DEF step
  <2> QED
    BY <1>7, <2>1
<1>10. ASSUME NEW k \in 1..n
       PROVE  f[k] = step(f[k - 1], order[k])
  <2>1. 1..k \in SUBSET (1..n) /\ 1..k # {} /\ k \in 0..n /\ k - 1 \in 0..n /\ k \in Nat
    BY <1>0
  <2>2. Max(1..k) = k
    <3>1. 1..k \in SUBSET Nat /\ k \in 1..k /\ \A x \in 1..k : x <= k
      BY <2>1
    <3> QED
      BY <3>1, MaxIs
  <2>3. (1..k) \ {k} = 1..(k - 1)
    BY <2>1
  <2>4. iter[1..k] = step(iter[(1..k) \ {Max(1..k)}], order[Max(1..k)])
    <3> HIDE DEF step
    <3> QED
      BY <1>7, <2>1
  <2> HIDE DEF step
  <2> QED
    BY <2>1, <2>2, <2>3, <2>4
<1>11. Copying(f, mem, i1, i2, order, n)
  <2> HIDE DEF f
  <2> QED
    BY <1>9, <1>10 DEF Copying
<1>12. f[n] = iter[1..n]
  BY <1>0
<1>13. Copied(f, mem, i1, i2, order, n)
  BY <1>8, <1>11, <1>12 DEF Copied
<1> QED
  BY <1>13

(* Each of them holds bytes.                                               *)
LEMMA CopyTyped ==
  ASSUME NEW D, NEW B, NEW mem, NEW i1, NEW i2, NEW n, NEW order, NEW f,
         Readable(D, B, mem, i2, order, n), Copying(f, mem, i1, i2, order, n)
  PROVE  \A k \in 0..n : f[k] \in [D -> B]
<1>0. /\ mem \in [D -> B] /\ n \in Nat
      /\ \A k \in 1..n : Plus(i2, order[k]) \in D
  BY DEF Readable
<1> DEFINE Bad == {k \in 0..n : f[k] \notin [D -> B]}
<1>1. SUFFICES ASSUME Bad # {} PROVE FALSE
  OBVIOUS
<1>2. PICK m \in Bad : \A x \in Bad : m <= x
  <2>1. Bad \in SUBSET Nat
    BY <1>0
  <2> HIDE DEF Bad
  <2> QED
    BY <1>1, <2>1, LeastExists
<1>3. m \in 0..n /\ f[m] \notin [D -> B]
  BY <1>2
<1>4. m # 0
  BY <1>0, <1>3 DEF Copying
<1>5. m \in 1..n /\ m - 1 \in 0..n /\ m - 1 \notin Bad
  BY <1>0, <1>2, <1>3, <1>4
<1>6. f[m - 1] \in [D -> B]
  BY <1>5
<1>7. f[m] = [f[m - 1] EXCEPT ![Plus(i1, order[m])] = f[m - 1][Plus(i2, order[m])]]
  BY <1>5 DEF Copying
<1>8. f[m - 1][Plus(i2, order[m])] \in B
  BY <1>0, <1>5, <1>6
<1> QED
  BY <1>3, <1>6, <1>7, <1>8

(* A block of bytes that is in the vector does not wrap around the address *)
(* space.                                                                  *)
LEMMA BlockInside ==
  ASSUME NEW i \in 0..(Space - 1), NEW n \in Nat, NEW top \in 0..(Space - 1),
         Touched(i, n) \subseteq 0..(top - 1)
  PROVE  \A j \in 0..(n - 1) : Plus(i, j) = i + j /\ i + j \in 0..(top - 1)
<1>0. Space \in Nat \ {0}
  BY MemoryAssumption
<1>1. \A j \in 0..(n - 1) : Plus(i, j) \in 0..(top - 1)
  BY DEF Touched
<1>2. ASSUME NEW j \in 0..(n - 1), i + j >= Space
      PROVE  FALSE
  <2>1. (Space - 1) - i \in 0..(n - 1)
    BY <1>0, <1>2
  <2>2. Plus(i, (Space - 1) - i) = Space - 1
    <3>1. (Space - 1) - i \in Nat /\ i \in Nat /\ i + ((Space - 1) - i) = Space - 1
      BY <1>0
    <3>2. Space - 1 < Space
      BY <1>0
    <3> QED
      BY <3>1, <3>2, PlusType
  <2> QED
    BY <1>0, <1>1, <2>1, <2>2
<1> QED
  <2> TAKE j \in 0..(n - 1)
  <2>1. i + j < Space
    BY <1>0, <1>2
  <2>2. i \in Nat /\ j \in Nat
    BY <1>0
  <2>3. Plus(i, j) = i + j
    BY <2>1, <2>2, PlusType
  <2> QED
    BY <1>1, <2>3

-----------------------------------------------------------------------------
(* What memory.copy does.                                                  *)

(* What the two kinds of loops have in common: the blocks lie inside the   *)
(* vector.                                                                 *)
Blocks(D, B, mem, i1, i2, n) ==
  /\ D \in SUBSET Nat /\ mem \in [D -> B] /\ n \in Nat /\ i1 \in Nat /\ i2 \in Nat
  /\ \A j \in 0..(n - 1) : /\ Plus(i1, j) = i1 + j /\ i1 + j \in D
                            /\ Plus(i2, j) = i2 + j /\ i2 + j \in D

(* The indices of either kind name bytes in it.                            *)
LEMMA BlocksReadable ==
  ASSUME NEW D, NEW B, NEW mem, NEW i1, NEW i2, NEW n, Blocks(D, B, mem, i1, i2, n)
  PROVE  Readable(D, B, mem, i2, CopyOrder(i1, i2, n), IF i1 <= i2 THEN n ELSE n * n)
<1> DEFINE order == CopyOrder(i1, i2, n)
<1>0. /\ mem \in [D -> B] /\ n \in Nat /\ n * n \in Nat
      /\ \A j \in 0..(n - 1) : Plus(i2, j) \in D
  BY DEF Blocks
<1>1. CASE i1 <= i2
  <2>1. order = [k \in 1..n |-> k - 1]
    BY <1>1 DEF CopyOrder
  <2> HIDE DEF order
  <2>2. order = [k \in 1..n |-> order[k]] /\ \A k \in 1..n : order[k] \in 0..(n - 1)
    BY <1>0, <2>1
  <2>3. \A k \in 1..n : Plus(i2, order[k]) \in D
    BY <1>0, <2>2
  <2> QED
    BY <1>0, <1>1, <2>2, <2>3 DEF Readable, order
<1>2. CASE ~(i1 <= i2)
  <2> DEFINE m == n * n
  <2>1. order = [k \in 1..m |-> n - 1 - ((k - 1) % n)]
    BY <1>2 DEF CopyOrder
  <2>2. \A k \in 1..m : n # 0 /\ (k - 1) % n \in 0..(n - 1)
    BY <1>0
  <2> HIDE DEF order, m
  <2>3. order = [k \in 1..m |-> order[k]] /\ \A k \in 1..m : order[k] \in 0..(n - 1)
    BY <1>0, <2>1, <2>2
  <2>4. \A k \in 1..m : Plus(i2, order[k]) \in D
    BY <1>0, <2>3
  <2> QED
    BY <1>0, <1>2, <2>3, <2>4 DEF Readable, order, m
<1> QED
  BY <1>1, <1>2

(* The memory m is mem with the first k bytes of the block moved.          *)
Moved(m, D, mem, i1, i2, k) ==
  \A a \in D : m[a] = IF a - i1 \in 0..(k - 1) THEN mem[i2 + (a - i1)] ELSE mem[a]

(* The forward loop copies byte by byte: a later byte of the source has    *)
(* not been overwritten, because the destination lies below.               *)
LEMMA CopyForward ==
  ASSUME NEW D, NEW B, NEW mem, NEW i1, NEW i2, NEW n, Blocks(D, B, mem, i1, i2, n), i1 <= i2,
         NEW f, Copying(f, mem, i1, i2, CopyOrder(i1, i2, n), n)
  PROVE  \A k \in 0..n : Moved(f[k], D, mem, i1, i2, k)
<1> DEFINE order == CopyOrder(i1, i2, n)
           Good(k) == Moved(f[k], D, mem, i1, i2, k)
           Bad == {k \in 0..n : ~Good(k)}
<1>0. /\ D \in SUBSET Nat /\ mem \in [D -> B] /\ n \in Nat /\ i1 \in Nat /\ i2 \in Nat
      /\ \A j \in 0..(n - 1) : Plus(i1, j) = i1 + j /\ Plus(i2, j) = i2 + j /\ i2 + j \in D
      /\ order = [k \in 1..n |-> k - 1]
  BY DEF Blocks, CopyOrder
<1>7. \A k \in 0..n : f[k] \in [D -> B]
  <2>1. Readable(D, B, mem, i2, order, n)
    BY BlocksReadable
  <2> QED
    BY <2>1, CopyTyped
<1> HIDE DEF Good, order
<1>1. SUFFICES ASSUME Bad # {} PROVE FALSE
  BY DEF Good
<1>2. PICK m \in Bad : \A x \in Bad : m <= x
  <2>1. Bad \in SUBSET Nat
    BY <1>0
  <2> HIDE DEF Bad
  <2> QED
    BY <1>1, <2>1, LeastExists
<1>3. m \in 0..n /\ ~Good(m)
  BY <1>2
<1>4. m # 0
  BY <1>0, <1>3 DEF Copying, Good, Moved
<1>5. m \in 1..n /\ m - 1 \in 0..n /\ Good(m - 1)
  BY <1>0, <1>2, <1>3, <1>4
<1>6. order[m] = m - 1 /\ m - 1 \in 0..(n - 1)
  BY <1>0, <1>5
<1>8. f[m] = [f[m - 1] EXCEPT ![i1 + (m - 1)] = f[m - 1][i2 + (m - 1)]]
  <2>1. f[m] = [f[m - 1] EXCEPT ![Plus(i1, order[m])] = f[m - 1][Plus(i2, order[m])]]
    BY <1>5 DEF Copying, order
  <2>2. Plus(i1, order[m]) = i1 + (m - 1) /\ Plus(i2, order[m]) = i2 + (m - 1)
    BY <1>0, <1>6
  <2> QED
    BY <2>1, <2>2
<1>9. f[m - 1][i2 + (m - 1)] = mem[i2 + (m - 1)]
  <2>1. i2 + (m - 1) \in D /\ (i2 + (m - 1)) - i1 \notin 0..((m - 1) - 1)
    BY <1>0, <1>5, <1>6
  <2> QED
    BY <1>5, <2>1 DEF Good, Moved
<1>10. ASSUME NEW a \in D
       PROVE  f[m][a] = IF a - i1 \in 0..(m - 1) THEN mem[i2 + (a - i1)] ELSE mem[a]
  <2>0. f[m - 1] \in [D -> B]
    BY <1>5, <1>7
  <2>1. CASE a = i1 + (m - 1)
    <3>1. a - i1 = m - 1 /\ a - i1 \in 0..(m - 1)
      BY <1>0, <1>5, <2>1
    <3> QED
      BY <1>8, <1>9, <2>0, <2>1, <3>1
  <2>2. CASE a # i1 + (m - 1)
    <3>1. f[m][a] = f[m - 1][a]
      BY <1>8, <2>0, <2>2
    <3>2. a - i1 \in 0..(m - 1) <=> a - i1 \in 0..((m - 1) - 1)
      BY <1>0, <1>5, <2>2
    <3> QED
      BY <1>5, <3>1, <3>2 DEF Good, Moved
  <2> QED
    BY <2>1, <2>2
<1> QED
  BY <1>3, <1>10 DEF Good, Moved

(* The remainder in a product and some more.                               *)
LEMMA PassIndex ==
  ASSUME NEW n \in Nat, NEW r \in Nat, NEW q \in 0..(n - 1)
  PROVE  (r * n + q) % n = q
OBVIOUS

(* The memories the backward loops go through.                             *)
CopyingUp(f, D, B, mem, i1, i2, n) ==
  /\ Blocks(D, B, mem, i1, i2, n) /\ i2 < i1
  /\ Copying(f, mem, i1, i2, CopyOrder(i1, i2, n), n * n)

(* One pass of the backward loop, the q highest bytes of it: a byte is     *)
(* read before it is overwritten, as it lies below the one it is copied    *)
(* to.                                                                     *)
LEMMA CopyPass ==
  ASSUME NEW D, NEW B, NEW mem, NEW i1, NEW i2, NEW n, NEW f,
         CopyingUp(f, D, B, mem, i1, i2, n), NEW r \in 0..(n - 1)
  PROVE  \A q \in 0..n : \A a \in D :
           f[r * n + q][a] = IF a - i1 \in (n - q)..(n - 1) THEN f[r * n][i2 + (a - i1)]
                             ELSE f[r * n][a]
<1> DEFINE order == CopyOrder(i1, i2, n)
<1>0. /\ D \in SUBSET Nat /\ mem \in [D -> B] /\ n \in Nat /\ i1 \in Nat /\ i2 \in Nat
      /\ i2 < i1
      /\ \A j \in 0..(n - 1) : /\ Plus(i1, j) = i1 + j /\ i1 + j \in D
                                /\ Plus(i2, j) = i2 + j /\ i2 + j \in D
      /\ order = [k \in 1..(n * n) |-> n - 1 - ((k - 1) % n)]
      /\ Copying(f, mem, i1, i2, order, n * n)
  BY DEF CopyingUp, CopyOrder, Blocks
<1>8. \A k \in 0..(n * n) : f[k] \in [D -> B]
  <2>1. Readable(D, B, mem, i2, order, n * n)
    <3>1. Blocks(D, B, mem, i1, i2, n) /\ ~(i1 <= i2)
      BY <1>0 DEF CopyingUp
    <3>2. Readable(D, B, mem, i2, order, IF i1 <= i2 THEN n ELSE n * n)
      BY <3>1, BlocksReadable
    <3> HIDE DEF order
    <3> QED
      BY <3>1, <3>2
  <2> QED
    BY <1>0, <2>1, CopyTyped
<1> HIDE DEF order
<1> DEFINE Good(q) == \A a \in D :
             f[r * n + q][a] = IF a - i1 \in (n - q)..(n - 1) THEN f[r * n][i2 + (a - i1)]
                               ELSE f[r * n][a]
           Bad == {q \in 0..n : ~Good(q)}
<1> HIDE DEF Good
<1>1. SUFFICES ASSUME Bad # {} PROVE FALSE
  BY DEF Good
<1>2. PICK m \in Bad : \A x \in Bad : m <= x
  <2>1. Bad \in SUBSET Nat
    BY <1>0
  <2> HIDE DEF Bad
  <2> QED
    BY <1>1, <2>1, LeastExists
<1>3. m \in 0..n /\ ~Good(m)
  BY <1>2
<1>4. m # 0
  <2>1. Good(0)
    <3>1. r * n \in Nat /\ r * n + 0 = r * n
      BY <1>0
    <3>2. \A a \in D : a - i1 \notin (n - 0)..(n - 1)
      BY <1>0
    <3> QED
      BY <3>1, <3>2 DEF Good
  <2> QED
    BY <1>3, <2>1
<1>5. m \in 1..n /\ m - 1 \in 0..n /\ m - 1 \in 0..(n - 1) /\ Good(m - 1)
  BY <1>0, <1>2, <1>3, <1>4
<1> DEFINE t == r * n + m
           j == n - m
<1>6. t \in 1..(n * n) /\ t - 1 = r * n + (m - 1) /\ t - 1 \in 0..(n * n)
  <2>1. r * n \in Nat /\ n * n \in Nat /\ r * n + n <= n * n
    <3>1. r + 1 <= n /\ (r + 1) * n = r * n + n
      BY <1>0
    <3>2. (r + 1) * n <= n * n
      BY <1>0, <3>1
    <3> QED
      BY <1>0, <3>1, <3>2
  <2> DEFINE x == r * n
             y == n * n
  <2>2. x \in Nat /\ y \in Nat /\ x + n <= y
    BY <2>1
  <2> HIDE DEF Bad, x, y
  <2>3. x + m \in 1..y /\ (x + m) - 1 = x + (m - 1) /\ (x + m) - 1 \in 0..y
    BY <1>0, <1>5, <2>2
  <2> QED
    BY <2>3 DEF x, y
<1> HIDE DEF t
<1>7. order[t] = j /\ j \in 0..(n - 1)
  <2>1. (t - 1) % n = m - 1
    <3> DEFINE q == m - 1
    <3>1. r \in Nat /\ q \in 0..(n - 1) /\ t - 1 = r * n + q
      BY <1>0, <1>5, <1>6
    <3> HIDE DEF q
    <3>2. (r * n + q) % n = q
      BY <1>0, <3>1, PassIndex
    <3> QED
      BY <3>1, <3>2 DEF q
  <2> QED
    BY <1>0, <1>5, <1>6, <2>1
<1>9. f[t - 1] \in [D -> B]
  BY <1>6, <1>8
<1>10. f[t] = [f[t - 1] EXCEPT ![i1 + j] = f[t - 1][i2 + j]]
  <2>1. f[t] = [f[t - 1] EXCEPT ![Plus(i1, order[t])] = f[t - 1][Plus(i2, order[t])]]
    BY <1>0, <1>6 DEF Copying
  <2>2. Plus(i1, order[t]) = i1 + j /\ Plus(i2, order[t]) = i2 + j
    BY <1>0, <1>7
  <2> QED
    BY <2>1, <2>2
<1>11. f[t - 1][i2 + j] = f[r * n][i2 + j]
  <2>1. i2 + j \in D /\ (i2 + j) - i1 \notin (n - (m - 1))..(n - 1)
    BY <1>0, <1>5, <1>7
  <2> QED
    BY <1>5, <1>6, <2>1 DEF Good
<1>12. ASSUME NEW a \in D
       PROVE  f[t][a] = IF a - i1 \in (n - m)..(n - 1) THEN f[r * n][i2 + (a - i1)]
                        ELSE f[r * n][a]
  <2>1. CASE a = i1 + j
    <3>1. a - i1 = j /\ a - i1 \in (n - m)..(n - 1)
      BY <1>0, <1>5, <1>7, <2>1
    <3> QED
      BY <1>9, <1>10, <1>11, <2>1, <3>1
  <2>2. CASE a # i1 + j
    <3>1. f[t][a] = f[t - 1][a]
      BY <1>9, <1>10, <2>2
    <3>2. a - i1 \in (n - m)..(n - 1) <=> a - i1 \in (n - (m - 1))..(n - 1)
      BY <1>0, <1>5, <2>2
    <3> QED
      BY <1>5, <1>6, <3>1, <3>2 DEF Good
  <2> QED
    BY <2>1, <2>2
<1> QED
  BY <1>3, <1>12 DEF Good, t

(* Remainders repeat.                                                      *)
LEMMA Remainders ==
  ASSUME NEW d \in Nat \ {0}, NEW j \in Nat
  PROVE  /\ j % d \in 0..(d - 1)
         /\ j < d => j % d = j
         /\ j >= d => j % d = (j - d) % d
<1>1. j % d \in 0..(d - 1)
  OBVIOUS
<1>2. ASSUME j < d
      PROVE  j % d = j
  <2>1. j \in 0..(d - 1) /\ 0 * d + j = j
    BY <1>2
  <2> QED
    BY <2>1, PassIndex
<1>3. ASSUME j >= d
      PROVE  j % d = (j - d) % d
  <2> DEFINE k == (j - d) \div d
             q == (j - d) % d
  <2>1. k \in Nat /\ q \in 0..(d - 1) /\ j - d = k * d + q
    BY <1>3
  <2> HIDE DEF k, q
  <2>2. j = (k + 1) * d + q /\ k + 1 \in Nat
    BY <2>1
  <2>3. ((k + 1) * d + q) % d = q
    BY <2>1, <2>2, PassIndex
  <2> QED
    BY <2>2, <2>3 DEF q
<1> QED
  BY <1>1, <1>2, <1>3

(* What has become of the memory after r passes.                           *)
Repeating(f, D, mem, i1, i2, n, r) ==
  /\ \A a \in D : a - i1 \notin 0..(n - 1) => f[r * n][a] = mem[a]
  /\ \A j \in 0..(n - 1) : j < r * (i1 - i2) =>
       f[r * n][i1 + j] = mem[i2 + (j % (i1 - i2))]

(* Every pass of the backward loop moves the block up by the distance of   *)
(* the two, so that after r of them its first r * (i1 - i2) bytes repeat   *)
(* what lies below the destination.                                        *)
LEMMA CopyRepeats ==
  ASSUME NEW D, NEW B, NEW mem, NEW i1, NEW i2, NEW n, NEW f,
         CopyingUp(f, D, B, mem, i1, i2, n)
  PROVE  \A r \in 0..n : Repeating(f, D, mem, i1, i2, n, r)
<1> DEFINE d == i1 - i2
           Outside(r) == \A a \in D : a - i1 \notin 0..(n - 1) => f[r * n][a] = mem[a]
           Repeats(r) == \A j \in 0..(n - 1) : j < r * d => f[r * n][i1 + j] = mem[i2 + (j % d)]
           Bad == {r \in 0..n : ~(Outside(r) /\ Repeats(r))}
<1>0. /\ D \in SUBSET Nat /\ n \in Nat /\ i1 \in Nat /\ i2 \in Nat
      /\ d \in Nat \ {0} /\ i1 = i2 + d
      /\ \A j \in 0..(n - 1) : i1 + j \in D /\ i2 + j \in D
      /\ f[0] = mem
  BY DEF CopyingUp, Blocks, Copying
<1>p. ASSUME NEW r \in 0..(n - 1)
      PROVE  \A q \in 0..n : \A a \in D :
               f[r * n + q][a] = IF a - i1 \in (n - q)..(n - 1) THEN f[r * n][i2 + (a - i1)]
                                 ELSE f[r * n][a]
  BY CopyPass
<1> HIDE DEF Outside, Repeats
<1>1. SUFFICES ASSUME Bad # {} PROVE FALSE
  BY DEF Outside, Repeats, Repeating
<1>2. PICK m \in Bad : \A x \in Bad : m <= x
  <2>1. Bad \in SUBSET Nat
    BY <1>0
  <2> HIDE DEF Bad
  <2> QED
    BY <1>1, <2>1, LeastExists
<1>3. m \in 0..n /\ ~(Outside(m) /\ Repeats(m))
  BY <1>2
<1>4. m # 0
  <2>1. 0 * n = 0 /\ 0 * d = 0 /\ f[0] = mem
    BY <1>0
  <2>2. \A j \in 0..(n - 1) : ~(j < 0)
    BY <1>0
  <2> QED
    BY <1>3, <2>1, <2>2 DEF Outside, Repeats
<1> DEFINE r == m - 1
<1>5. r \in 0..(n - 1) /\ r \in 0..n /\ m = r + 1 /\ Outside(r) /\ Repeats(r)
  <2>1. m - 1 \in 0..n /\ m - 1 \notin Bad /\ m - 1 \in 0..(n - 1) /\ m = (m - 1) + 1
    BY <1>0, <1>2, <1>3, <1>4
  <2> QED
    BY <2>1
<1> HIDE DEF r, Bad
<1>6. m * n = r * n + n /\ m * d = r * d + d
  BY <1>0, <1>5
<1>7. \A a \in D :
        f[m * n][a] = IF a - i1 \in 0..(n - 1) THEN f[r * n][i2 + (a - i1)] ELSE f[r * n][a]
  <2>1. \A q \in 0..n : \A a \in D :
          f[r * n + q][a] = IF a - i1 \in (n - q)..(n - 1) THEN f[r * n][i2 + (a - i1)]
                            ELSE f[r * n][a]
    BY <1>5, <1>p
  <2>2. n \in 0..n /\ n - n = 0
    BY <1>0
  <2> QED
    BY <1>6, <2>1, <2>2
<1>8. Outside(m)
  BY <1>5, <1>7 DEF Outside
<1>9. ASSUME NEW j \in 0..(n - 1), j < m * d
      PROVE  f[m * n][i1 + j] = mem[i2 + (j % d)]
  <2>1. /\ i1 + j \in D /\ i2 + j \in D
        /\ (i1 + j) - i1 = j
    BY <1>0
  <2>2. f[m * n][i1 + j] = f[r * n][i2 + j]
    BY <1>7, <2>1
  <2>0. j \in Nat
    BY <1>0
  <2> HIDE DEF d
  <2>3. CASE j < d
    <3>1. j % d = j
      BY <1>0, <2>0, <2>3, Remainders
    <3>2. (i2 + j) - i1 \notin 0..(n - 1)
      BY <1>0, <2>3
    <3> QED
      BY <1>5, <2>1, <2>2, <3>1, <3>2 DEF Outside
  <2>4. CASE j >= d
    <3>1. j - d \in 0..(n - 1) /\ i2 + j = i1 + (j - d)
      BY <1>0, <2>4
    <3>2. j - d < r * d
      <4>1. r * d \in Nat
        BY <1>0, <1>5
      <4> QED
        BY <1>0, <1>6, <1>9, <4>1
    <3>3. f[r * n][i1 + (j - d)] = mem[i2 + ((j - d) % d)]
      BY <1>5, <3>1, <3>2 DEF Repeats
    <3>4. j % d = (j - d) % d
      BY <1>0, <2>0, <2>4, Remainders
    <3> QED
      BY <2>2, <3>1, <3>3, <3>4
  <2> QED
    BY <1>0, <2>3, <2>4
<1> QED
  BY <1>3, <1>8, <1>9 DEF Repeats

(* n bytes to copy from i2 to i1 in a memory of top bytes.                 *)
Copyable(top, B, mem, i1, i2, n) ==
  /\ top \in 0..(Space - 1) /\ mem \in [0..(top - 1) -> B]
  /\ i1 \in 0..(Space - 1) /\ i2 \in 0..(Space - 1) /\ n \in Nat
  /\ Touched(i1, n) \cup Touched(i2, n) \subseteq 0..(top - 1)

(* The memory copy has the bytes that CopyMovesOrRepeats says.             *)
MovedOrRepeated(copy, top, B, mem, i1, i2, n) ==
  /\ copy \in [0..(top - 1) -> B]
  /\ \A a \in 0..(top - 1) :
       copy[a] = IF a - i1 \in 0..(n - 1)
                 THEN mem[i2 + (IF i2 < i1 /\ i1 < i2 + n THEN (a - i1) % (i1 - i2)
                                ELSE a - i1)]
                 ELSE mem[a]

(* The memory after memory.copy of a block inside the vector.              *)
LEMMA CopyIs ==
  ASSUME NEW top, NEW B, NEW mem, NEW i1, NEW i2, NEW n, Copyable(top, B, mem, i1, i2, n)
  PROVE  MovedOrRepeated(CopyBytes(mem, i1, i2, CopyOrder(i1, i2, n)), top, B, mem, i1, i2, n)
<1> SUFFICES ASSUME top \in 0..(Space - 1), mem \in [0..(top - 1) -> B],
                    i1 \in 0..(Space - 1), i2 \in 0..(Space - 1), n \in Nat,
                    Touched(i1, n) \cup Touched(i2, n) \subseteq 0..(top - 1)
             PROVE  MovedOrRepeated(CopyBytes(mem, i1, i2, CopyOrder(i1, i2, n)),
                                    top, B, mem, i1, i2, n)
  BY DEF Copyable
<1> DEFINE D == 0..(top - 1)
           order == CopyOrder(i1, i2, n)
           copy == CopyBytes(mem, i1, i2, order)
<1>0. /\ Space \in Nat /\ D \in SUBSET Nat /\ i1 \in Nat /\ i2 \in Nat /\ mem \in [D -> B]
      /\ n * n \in Nat
  BY MemoryAssumption
<1>1. Blocks(D, B, mem, i1, i2, n)
  <2>1. Touched(i1, n) \subseteq D /\ Touched(i2, n) \subseteq D
    OBVIOUS
  <2>2. \A j \in 0..(n - 1) : /\ Plus(i1, j) = i1 + j /\ i1 + j \in D
                              /\ Plus(i2, j) = i2 + j /\ i2 + j \in D
    BY <2>1, BlockInside
  <2> QED
    BY <1>0, <2>2 DEF Blocks
<1>r. Readable(D, B, mem, i2, order, IF i1 <= i2 THEN n ELSE n * n)
  BY <1>1, BlocksReadable
<1> HIDE DEF D
<1>2. CASE i1 <= i2
  <2>2. Readable(D, B, mem, i2, order, n)
    BY <1>2, <1>r
  <2> HIDE DEF order
  <2>3. PICK f : Copying(f, mem, i1, i2, order, n) /\ copy = f[n]
    <3>1. \E f : Copied(f, mem, i1, i2, order, n)
      BY <2>2, CopyRuns
    <3> QED
      BY <3>1 DEF Copied
  <2>4. copy \in [D -> B]
    <3>1. \A k \in 0..n : f[k] \in [D -> B]
      BY <2>2, <2>3, CopyTyped
    <3> QED
      BY <2>3, <3>1
  <2>5. \A k \in 0..n : Moved(f[k], D, mem, i1, i2, k)
    <3>1. Copying(f, mem, i1, i2, CopyOrder(i1, i2, n), n)
      BY <2>3 DEF order
    <3> HIDE DEF copy
    <3> QED
      BY <1>1, <1>2, <3>1, CopyForward
  <2>6. \A a \in D : copy[a] = IF a - i1 \in 0..(n - 1) THEN mem[i2 + (a - i1)] ELSE mem[a]
    <3>1. n \in 0..n
      OBVIOUS
    <3>2. Moved(f[n], D, mem, i1, i2, n)
      BY <2>5, <3>1
    <3> QED
      BY <2>3, <3>2 DEF Moved
  <2>7. ~(i2 < i1)
    BY <1>0, <1>2
  <2> QED
    BY <2>4, <2>6, <2>7 DEF D, order, MovedOrRepeated
<1>3. CASE i2 < i1
  <2> DEFINE d == i1 - i2
  <2>2. Readable(D, B, mem, i2, order, n * n)
    BY <1>0, <1>3, <1>r
  <2> HIDE DEF order
  <2>3. PICK f : Copying(f, mem, i1, i2, order, n * n) /\ copy = f[n * n]
    <3>1. \E f : Copied(f, mem, i1, i2, order, n * n)
      BY <2>2, CopyRuns
    <3> QED
      BY <3>1 DEF Copied
  <2>4. copy \in [D -> B]
    <3>1. \A k \in 0..(n * n) : f[k] \in [D -> B]
      BY <2>2, <2>3, CopyTyped
    <3> QED
      BY <1>0, <2>3, <3>1
  <2>5. CopyingUp(f, D, B, mem, i1, i2, n)
    BY <1>1, <1>3, <2>3 DEF CopyingUp, order
  <2>6. Repeating(f, D, mem, i1, i2, n, n)
    <3>1. \A r \in 0..n : Repeating(f, D, mem, i1, i2, n, r)
      BY <2>5, CopyRepeats
    <3> QED
      BY <3>1
  <2>7. /\ \A a \in D : a - i1 \notin 0..(n - 1) => copy[a] = mem[a]
        /\ \A j \in 0..(n - 1) : j < n * d => copy[i1 + j] = mem[i2 + (j % d)]
    BY <2>3, <2>6 DEF Repeating
  <2>8. d \in Nat \ {0} /\ n <= n * d
    <3>1. d \in Nat \ {0}
      BY <1>0, <1>3
    <3> HIDE DEF d
    <3> QED
      BY <3>1
  <2>9. ASSUME NEW a \in D, a - i1 \in 0..(n - 1)
        PROVE  copy[a] = mem[i2 + (IF i1 < i2 + n THEN (a - i1) % d ELSE a - i1)]
    <3> DEFINE j == a - i1
    <3>1. j \in Nat /\ j \in 0..(n - 1) /\ j < n * d /\ i1 + j = a
      <4>1. a \in Nat
        BY <1>0
      <4>2. a - i1 \in Nat /\ a - i1 < n /\ i1 + (a - i1) = a
        BY <1>0, <2>9, <4>1
      <4> HIDE DEF d
      <4> QED
        BY <2>8, <2>9, <4>2
    <3>2. copy[a] = mem[i2 + (j % d)]
      BY <2>7, <3>1
    <3>3. ~(i1 < i2 + n) => j < d
      BY <1>0, <3>1
    <3>4. ~(i1 < i2 + n) => j % d = j
      <4> HIDE DEF j, d
      <4> QED
        BY <2>8, <3>1, <3>3, Remainders
    <3> QED
      BY <3>2, <3>4
  <2> QED
    BY <1>3, <2>4, <2>7, <2>9 DEF D, order, MovedOrRepeated
<1> QED
  BY <1>0, <1>2, <1>3

-----------------------------------------------------------------------------
(* The bytes.                                                              *)

(* What is left of a segment is bytes, and few enough for their indices    *)
(* not to wrap.                                                            *)
SegmentsOK ==
  \A s \in DOMAIN Segments : data[s] \in Seq(Bytes) /\ Len(data[s]) < Space

(* The inductive invariant: what TypeOK says, of the segments as well.     *)
ContentInv == VectorInv /\ TypeOK /\ SegmentsOK

(* The operands of each instruction.                                       *)
LEMMA Fetched ==
  ASSUME instr \in Instrs \cup {Idle}, status = "running"
  PROVE  /\ Executing("store") => Address \in 0..(Space - 1) /\ instr.v \in Seq(Bytes)
         /\ Executing("store_narrow") => Address \in 0..(Space - 1) /\ instr.v \in Seq(Bytes)
         /\ Executing("load") => Address \in 0..(Space - 1) /\ instr.w \in Nat
         /\ Executing("load_narrow") => Address \in 0..(Space - 1) /\ instr.w \in Nat
         /\ Executing("fill") => instr.b \in Bytes
         /\ Executing("copy") => /\ instr.i1 \in 0..(Space - 1) /\ instr.i2 \in 0..(Space - 1)
                                 /\ instr.n \in Nat
         /\ Executing("init") => /\ instr.s \in DOMAIN Segments /\ instr.n \in Nat
                                 /\ instr.i \in 0..(Space - 1) /\ instr.j \in 0..(Space - 1)
         /\ Executing("drop") => instr.s \in DOMAIN Segments
<1>0. /\ Word \in Nat /\ Addrs \subseteq 0..(Space - 1) /\ Offsets \subseteq 0..(Space - 1)
      /\ Lengths \subseteq 0..(Space - 1) /\ Space \in Nat /\ NarrowWidths \subseteq 1..Word
      /\ Operands \subseteq [1..Word -> Bytes] \cup [1..(2 * Word) -> Bytes]
  BY MemoryAssumption
<1>1. ASSUME NEW i \in Addrs, NEW ao \in Offsets
      PROVE  Plus(ao, i) \in 0..(Space - 1)
  BY <1>0, PlusType
<1>2. ASSUME Executing("store")
      PROVE  Address \in 0..(Space - 1) /\ instr.v \in Seq(Bytes)
  <2>1. instr \in [op : {"store"}, i : Addrs, ao : Offsets, v : Operands]
    BY <1>2 DEF Instrs, Idle, Executing
  <2>2. instr.v \in [1..Word -> Bytes] \cup [1..(2 * Word) -> Bytes]
    BY <1>0, <2>1
  <2>3. instr.v \in Seq(Bytes)
    BY <1>0, <2>2
  <2> QED
    BY <1>1, <2>1, <2>3 DEF Address
<1>3. ASSUME Executing("store_narrow")
      PROVE  Address \in 0..(Space - 1) /\ instr.v \in Seq(Bytes)
  <2>1. instr \in [op : {"store_narrow"}, i : Addrs, ao : Offsets,
                   v : UNION {[1..w -> Bytes] : w \in NarrowWidths}]
    BY <1>3 DEF Instrs, Idle, Executing
  <2>2. PICK w \in NarrowWidths : instr.v \in [1..w -> Bytes]
    BY <2>1
  <2>3. instr.v \in Seq(Bytes)
    BY <1>0, <2>2
  <2> QED
    BY <1>1, <2>1, <2>3 DEF Address
<1>4. ASSUME Executing("load")
      PROVE  Address \in 0..(Space - 1) /\ instr.w \in Nat
  <2>1. instr \in [op : {"load"}, i : Addrs, ao : Offsets, w : {Word, 2 * Word}]
    BY <1>4 DEF Instrs, Idle, Executing
  <2>2. instr.i \in Addrs /\ instr.ao \in Offsets /\ instr.w \in {Word, 2 * Word}
    BY <2>1
  <2>3. Word \in Nat /\ 2 * Word \in Nat
    BY <1>0
  <2>4. instr.w = Word \/ instr.w = 2 * Word
    BY <2>2
  <2>5. instr.w \in Nat
    BY <2>3, <2>4
  <2> QED
    BY <1>1, <2>2, <2>5 DEF Address
<1>5. ASSUME Executing("load_narrow")
      PROVE  Address \in 0..(Space - 1) /\ instr.w \in Nat
  <2>1. instr \in [op : {"load_narrow"}, i : Addrs, ao : Offsets, w : NarrowWidths]
    BY <1>5 DEF Instrs, Idle, Executing
  <2>2. instr.i \in Addrs /\ instr.ao \in Offsets /\ instr.w \in NarrowWidths
    BY <2>1
  <2>3. \A w \in NarrowWidths : w \in Nat
    BY <1>0
  <2> QED
    BY <1>1, <2>2, <2>3 DEF Address
<1>6. ASSUME Executing("fill")
      PROVE  instr.b \in Bytes
  <2>1. instr \in [op : {"fill"}, i : Addrs, b : Bytes, n : Lengths]
    BY <1>6 DEF Instrs, Idle, Executing
  <2> QED
    BY <2>1
<1>7. ASSUME Executing("copy")
      PROVE  instr.i1 \in 0..(Space - 1) /\ instr.i2 \in 0..(Space - 1) /\ instr.n \in Nat
  <2>1. instr \in [op : {"copy"}, i1 : Addrs, i2 : Addrs, n : Lengths]
    BY <1>7 DEF Instrs, Idle, Executing
  <2>2. instr.i1 \in Addrs /\ instr.i2 \in Addrs /\ instr.n \in Lengths
    BY <2>1
  <2>3. \A n \in Lengths : n \in Nat
    BY <1>0
  <2>4. Addrs \subseteq 0..(Space - 1)
    BY <1>0
  <2> QED
    BY <2>2, <2>3, <2>4
<1>8. ASSUME Executing("init")
      PROVE  /\ instr.s \in DOMAIN Segments /\ instr.n \in Nat
             /\ instr.i \in 0..(Space - 1) /\ instr.j \in 0..(Space - 1)
  <2>1. instr \in [op : {"init"}, s : DOMAIN Segments, i : Addrs, j : Addrs, n : Lengths]
    BY <1>8 DEF Instrs, Idle, Executing
  <2>2. /\ instr.s \in DOMAIN Segments /\ instr.n \in Lengths
        /\ instr.i \in Addrs /\ instr.j \in Addrs
    BY <2>1
  <2>3. \A n \in Lengths : n \in Nat
    BY <1>0
  <2>4. Addrs \subseteq 0..(Space - 1)
    BY <1>0
  <2> QED
    BY <2>2, <2>3, <2>4
<1>9. ASSUME Executing("drop")
      PROVE  instr.s \in DOMAIN Segments
  <2>1. instr \in [op : {"drop"}, s : DOMAIN Segments]
    BY <1>9 DEF Instrs, Idle, Executing
  <2> QED
    BY <2>1
<1> QED
  BY <1>2, <1>3, <1>4, <1>5, <1>6, <1>7, <1>8, <1>9

(* Initially everything is zero, and the segments are whole.               *)
LEMMA InitContent == Init => ContentInv
<1> SUFFICES ASSUME Init PROVE ContentInv
  OBVIOUS
<1>1. VectorInv /\ Space \in Nat /\ PageSize \in 1..(Space - 1) /\ 0 \in Bytes
  BY InitVector, MemoryAssumption
<1>2. SegmentsOK
  BY MemoryAssumption DEF Init, SegmentsOK
<1>3. TypeOK
  BY <1>1 DEF Init, TypeOK
<1> QED
  BY <1>1, <1>2, <1>3 DEF ContentInv

(* A step that stores bytes.                                               *)
LEMMA StoredContent ==
  ASSUME ContentInv, VectorInv', NEW mem, SetMemory(mem), \A a \in DOMAIN memory : mem[a] \in Bytes
  PROVE  ContentInv'
<1>1. /\ memory' = [a \in DOMAIN memory |-> mem[a]] /\ instr' = Idle
      /\ UNCHANGED <<size, pages, data, result, status>>
  BY DEF SetMemory, Done
<1>2. memory \in [0..(size - 1) -> Bytes]
  BY DEF ContentInv, TypeOK
<1>3. memory' \in [0..(size' - 1) -> Bytes]
  BY <1>1, <1>2
<1> QED
  BY <1>1, <1>3 DEF ContentInv, TypeOK, SegmentsOK

(* A step that leaves the bytes alone.                                     *)
LEMMA KeptContent ==
  ASSUME ContentInv, VectorInv', UNCHANGED <<memory, size, pages, data>>,
         instr' \in Instrs \cup {Idle}, result' \in Seq(Nat),
         status' \in {"running", "aborted", "undefined"}
  PROVE  ContentInv'
BY DEF ContentInv, TypeOK, SegmentsOK

(* Bytes written over the memory.                                          *)
LEMMA PokeTyped ==
  ASSUME memory \in [0..(size - 1) -> Bytes], NEW a \in Nat, NEW bs \in Seq(Bytes), size \in Nat
  PROVE  \A x \in DOMAIN memory : Poke(memory, a, bs)[x] \in Bytes
<1> SUFFICES ASSUME NEW x \in DOMAIN memory
             PROVE  Poke(memory, a, bs)[x] \in Bytes
  OBVIOUS
<1>1. x \in Nat /\ memory[x] \in Bytes
  OBVIOUS
<1>2. x \in a..(a + Len(bs) - 1) => bs[x - a + 1] \in Bytes
  <2>1. x \in a..(a + Len(bs) - 1) => x - a + 1 \in 1..Len(bs)
    BY <1>1
  <2> QED
    BY <2>1
<1> QED
  BY <1>1, <1>2 DEF Poke

(* Bytes read from it.                                                     *)
LEMMA PeekTyped ==
  ASSUME memory \in [0..(size - 1) -> Bytes], NEW a \in Nat, NEW w \in Nat, size \in Nat,
         Inside(a, w)
  PROVE  Peek(memory, a, w) \in Seq(Nat)
<1>1. \A k \in 1..w : a + k - 1 \in 0..(size - 1)
  BY DEF Inside
<1>2. \A k \in 1..w : memory[a + k - 1] \in Nat
  BY <1>1, MemoryAssumption
<1> QED
  BY <1>2 DEF Peek

(* What memory.init stores are bytes of its segment: an index into the     *)
(* segment wraps only behind one that is past its end.                     *)
LEMMA InitBytes ==
  ASSUME ContentInv, Executing("init"),
         {h \in 0..(instr.n - 1) : Plus(h, instr.j) >= Len(data[instr.s])} = {}
  PROVE  [h \in 1..instr.n |-> data[instr.s][instr.j + h]] \in Seq(Bytes)
<1> DEFINE n == instr.n
           j == instr.j
           segment == data[instr.s]
<1>0. /\ n \in Nat /\ j \in 0..(Space - 1) /\ segment \in Seq(Bytes)
      /\ Len(segment) \in Nat /\ Len(segment) < Space /\ Space \in Nat
  <2>1. instr.s \in DOMAIN Segments /\ n \in Nat /\ j \in 0..(Space - 1)
    BY Fetched DEF ContentInv, TypeOK, Executing
  <2> QED
    BY <2>1, MemoryAssumption DEF ContentInv, SegmentsOK
<1>1. \A h \in 0..(n - 1) : Plus(h, j) < Len(segment)
  <2> SUFFICES ASSUME NEW h \in 0..(n - 1)
               PROVE  Plus(h, j) < Len(segment)
    OBVIOUS
  <2>0. h \in Nat /\ j \in Nat
    BY <1>0
  <2>1. Plus(h, j) \in 0..(Space - 1)
    BY <2>0, PlusType
  <2> HIDE DEF segment
  <2>2. ~(Plus(h, j) >= Len(segment))
    BY DEF segment
  <2> QED
    BY <1>0, <2>1, <2>2
<1> HIDE DEF n, j, segment
<1>2. \A h \in 0..(n - 1) : h + j < Len(segment)
  <2> SUFFICES ASSUME NEW h \in 0..(n - 1), h + j >= Len(segment)
               PROVE  FALSE
    BY <1>0
  <2>1. CASE h + j < Space
    <3>1. Plus(h, j) = h + j
      BY <1>0, <2>1, PlusType
    <3> QED
      BY <1>0, <1>1, <3>1
  <2>2. CASE h + j >= Space
    <3>1. (Space - 1) - j \in 0..(n - 1)
      BY <1>0, <2>2
    <3>2. Plus((Space - 1) - j, j) = Space - 1
      <4>1. (Space - 1) - j \in Nat /\ j \in Nat /\ ((Space - 1) - j) + j = Space - 1
        BY <1>0
      <4>2. Space - 1 < Space
        BY <1>0
      <4> QED
        BY <4>1, <4>2, PlusType
    <3> QED
      BY <1>0, <1>1, <3>1, <3>2
  <2> QED
    BY <1>0, <2>1, <2>2
<1>3. \A h \in 1..n : j + h \in 1..Len(segment)
  <2> SUFFICES ASSUME NEW h \in 1..n
               PROVE  j + h \in 1..Len(segment)
    OBVIOUS
  <2>1. h - 1 \in 0..(n - 1)
    BY <1>0
  <2>2. (h - 1) + j < Len(segment)
    BY <1>2, <2>1
  <2> QED
    BY <1>0, <2>1, <2>2
<1>4. \A h \in 1..n : segment[j + h] \in Bytes
  <2>1. \A k \in 1..Len(segment) : segment[k] \in Bytes
    BY <1>0
  <2> QED
    BY <1>3, <2>1
<1>5. [h \in 1..n |-> segment[j + h]] \in Seq(Bytes)
  BY <1>0, <1>4
<1> QED
  BY <1>5 DEF n, j, segment

(* The step memory.copy takes, if it completes.                            *)
LEMMA CopyStep ==
  ASSUME ContentInv, Executing("copy"), MemoryCopy, instr' = Idle
  PROVE  LET source(k) == IF OverlapsUp THEN k % (instr.i1 - instr.i2) ELSE k
             copy == CopyBytes(memory, instr.i1, instr.i2, CopyOrder(instr.i1, instr.i2, instr.n))
         IN  /\ SetMemory(copy)
             /\ \A a \in DOMAIN memory : copy[a] \in Bytes
             /\ \A a \in DOMAIN memory :
                  memory'[a] = IF a - instr.i1 \in 0..(instr.n - 1)
                               THEN memory[instr.i2 + source(a - instr.i1)] ELSE memory[a]
<1> DEFINE i1 == instr.i1
           i2 == instr.i2
           n == instr.n
           copy == CopyBytes(memory, i1, i2, CopyOrder(i1, i2, n))
<1>0. /\ i1 \in 0..(Space - 1) /\ i2 \in 0..(Space - 1) /\ n \in Nat
      /\ size \in 0..(Space - 1) /\ memory \in [0..(size - 1) -> Bytes]
  BY Fetched DEF ContentInv, TypeOK, Executing
<1>1. ~End("undefined")
  BY DEF End, Executing, Idle
<1>2. Touched(i1, n) \cup Touched(i2, n) \subseteq 0..(size - 1) /\ SetMemory(copy)
  BY <1>0, <1>1 DEF MemoryCopy
<1>3. MovedOrRepeated(copy, size, Bytes, memory, i1, i2, n)
  <2>1. Copyable(size, Bytes, memory, i1, i2, n)
    BY <1>0, <1>2 DEF Copyable
  <2> HIDE DEF i1, i2, n
  <2> QED
    BY <2>1, CopyIs
<1>4. memory' = [a \in 0..(size - 1) |-> copy[a]]
  BY <1>0, <1>2 DEF SetMemory
<1>5. OverlapsUp <=> i2 < i1 /\ i1 < i2 + n
  BY DEF OverlapsUp
<1> HIDE DEF copy
<1> QED
  BY <1>0, <1>2, <1>3, <1>4, <1>5 DEF copy, MovedOrRepeated

(* The end of the process changes nothing else.                            *)
LEMMA EndContent ==
  ASSUME ContentInv, VectorInv', NEW how \in {"aborted", "undefined"}, End(how)
  PROVE  ContentInv'
<1>1. /\ UNCHANGED <<memory, size, pages, data>> /\ UNCHANGED <<instr, result>>
      /\ status' \in {"running", "aborted", "undefined"}
  BY DEF End
<1>2. instr' \in Instrs \cup {Idle} /\ result' \in Seq(Nat)
  BY <1>1 DEF ContentInv, TypeOK
<1> QED
  BY <1>1, <1>2, KeptContent

(* What an instruction that leaves memory alone pushes.                    *)
LEMMA PushContent ==
  ASSUME ContentInv, VectorInv', NEW v \in Seq(Nat), Push(v)
  PROVE  ContentInv'
<1>1. UNCHANGED <<memory, size, pages, data>> /\ instr' = Idle /\ result' = v /\ status' = status
  BY DEF Push, Done
<1>2. status' \in {"running", "aborted", "undefined"}
  BY <1>1 DEF ContentInv, TypeOK
<1> QED
  BY <1>1, <1>2, KeptContent

(* The loads and memory.size.                                              *)
LEMMA ReadingContent ==
  ASSUME ContentInv, VectorInv', WideLoad \/ NarrowLoad \/ MemorySize
  PROVE  ContentInv'
<1>0. /\ instr \in Instrs \cup {Idle} /\ size \in Nat /\ memory \in [0..(size - 1) -> Bytes]
      /\ pages \in Nat
  BY MemoryAssumption DEF ContentInv, TypeOK
<1>1. ASSUME Address \in 0..(Space - 1), instr.w \in Nat, Inside(Address, instr.w),
             Push(Peek(memory, Address, instr.w))
      PROVE  ContentInv'
  <2>1. Address \in Nat
    BY <1>1, MemoryAssumption
  <2>2. Peek(memory, Address, instr.w) \in Seq(Nat)
    BY <1>0, <1>1, <2>1, PeekTyped
  <2> QED
    BY <1>1, <2>2, PushContent
<1>2. CASE WideLoad
  <2>1. Executing("load") /\ status = "running"
    BY <1>2 DEF WideLoad, Executing
  <2>2. Address \in 0..(Space - 1) /\ instr.w \in Nat
    BY <1>0, <2>1, Fetched
  <2>3. \/ Inside(Address, instr.w) /\ Push(Peek(memory, Address, instr.w))
        \/ \E how \in {"aborted", "undefined"} : End(how)
    BY <1>2 DEF WideLoad
  <2> QED
    BY <1>1, <2>2, <2>3, EndContent
<1>3. CASE NarrowLoad
  <2>1. Executing("load_narrow") /\ status = "running"
    BY <1>3 DEF NarrowLoad, Executing
  <2>2. Address \in 0..(Space - 1) /\ instr.w \in Nat
    BY <1>0, <2>1, Fetched
  <2>3. \/ Inside(Address, instr.w) /\ Push(Peek(memory, Address, instr.w))
        \/ \E how \in {"aborted", "undefined"} : End(how)
    BY <1>3 DEF NarrowLoad
  <2> QED
    BY <1>1, <2>2, <2>3, EndContent
<1>4. CASE MemorySize
  <2>1. Push(<<pages>>) /\ <<pages>> \in Seq(Nat)
    BY <1>0, <1>4 DEF MemorySize
  <2> QED
    BY <2>1, PushContent
<1> QED
  BY <1>2, <1>3, <1>4

(* The stores, and the bulk instructions but for data.drop.                *)
LEMMA WritingContent ==
  ASSUME ContentInv, VectorInv',
         WideStore \/ NarrowStore \/ MemoryFill \/ MemoryCopy \/ MemoryInit
  PROVE  ContentInv'
<1>0. /\ instr \in Instrs \cup {Idle} /\ size \in Nat /\ memory \in [0..(size - 1) -> Bytes]
      /\ Space \in Nat
  BY MemoryAssumption DEF ContentInv, TypeOK
<1>1. ASSUME NEW a \in 0..(Space - 1), NEW bs \in Seq(Bytes), SetMemory(Poke(memory, a, bs))
      PROVE  ContentInv'
  <2>1. \A x \in DOMAIN memory : Poke(memory, a, bs)[x] \in Bytes
    <3>1. a \in Nat
      BY <1>0
    <3> QED
      BY <1>0, <3>1, PokeTyped
  <2> QED
    BY <1>1, <2>1, StoredContent
<1>2. CASE WideStore
  <2>1. Executing("store") /\ status = "running"
    BY <1>2 DEF WideStore, Executing
  <2>2. Address \in 0..(Space - 1) /\ instr.v \in Seq(Bytes)
    BY <1>0, <2>1, Fetched
  <2>3. \/ SetMemory(Poke(memory, Address, instr.v))
        \/ \E how \in {"aborted", "undefined"} : End(how)
    BY <1>2 DEF WideStore
  <2> QED
    BY <1>1, <2>2, <2>3, EndContent
<1>3. CASE NarrowStore
  <2>1. Executing("store_narrow") /\ status = "running"
    BY <1>3 DEF NarrowStore, Executing
  <2>2. Address \in 0..(Space - 1) /\ instr.v \in Seq(Bytes)
    BY <1>0, <2>1, Fetched
  <2>3. \/ SetMemory(Poke(memory, Address, instr.v))
        \/ \E how \in {"aborted", "undefined"} : End(how)
    BY <1>3 DEF NarrowStore
  <2> QED
    BY <1>1, <2>2, <2>3, EndContent
<1>4. CASE MemoryFill
  <2> DEFINE mem == [a \in DOMAIN memory |->
                       IF a \in Touched(instr.i, instr.n) THEN instr.b ELSE memory[a]]
  <2>1. Executing("fill") /\ status = "running"
    BY <1>4 DEF MemoryFill, Executing
  <2>2. instr.b \in Bytes
    BY <1>0, <2>1, Fetched
  <2>3. SetMemory(mem) \/ \E how \in {"aborted", "undefined"} : End(how)
    BY <1>4 DEF MemoryFill
  <2>4. \A a \in DOMAIN memory : mem[a] \in Bytes
    BY <1>0, <2>2
  <2> HIDE DEF mem
  <2> QED
    BY <2>3, <2>4, StoredContent, EndContent
<1>5. CASE MemoryCopy
  <2> DEFINE copy == CopyBytes(memory, instr.i1, instr.i2,
                               CopyOrder(instr.i1, instr.i2, instr.n))
  <2>1. Executing("copy")
    BY <1>5 DEF MemoryCopy
  <2>2. SetMemory(copy) \/ \E how \in {"aborted", "undefined"} : End(how)
    BY <1>5 DEF MemoryCopy
  <2>3. ASSUME SetMemory(copy) PROVE \A a \in DOMAIN memory : copy[a] \in Bytes
    <3>1. instr' = Idle
      BY <2>3 DEF SetMemory, Done
    <3> QED
      BY <1>5, <2>1, <3>1, CopyStep
  <2> HIDE DEF copy
  <2> QED
    BY <2>2, <2>3, StoredContent, EndContent
<1>6. CASE MemoryInit
  <2> DEFINE bytes == [h \in 1..instr.n |-> data[instr.s][instr.j + h]]
             short == {h \in 0..(instr.n - 1) : Plus(h, instr.j) >= Len(data[instr.s])}
  <2>1. Executing("init") /\ status = "running"
    BY <1>6 DEF MemoryInit, Executing
  <2>2. instr.i \in 0..(Space - 1)
    BY <1>0, <2>1, Fetched
  <2>3. \/ short = {} /\ SetMemory(Poke(memory, instr.i, bytes))
        \/ \E how \in {"aborted", "undefined"} : End(how)
    BY <1>6 DEF MemoryInit
  <2>4. short = {} => bytes \in Seq(Bytes)
    BY <2>1, InitBytes
  <2> HIDE DEF bytes, short
  <2> QED
    BY <1>1, <2>2, <2>3, <2>4, EndContent
<1> QED
  BY <1>2, <1>3, <1>4, <1>5, <1>6

(* data.drop leaves a segment without bytes.                               *)
LEMMA DropContent ==
  ASSUME ContentInv, VectorInv', DataDrop
  PROVE  ContentInv'
<1>1. /\ data' = [data EXCEPT ![instr.s] = << >>] /\ instr' = Idle
      /\ UNCHANGED <<memory, size, pages, result, status>>
  BY DEF DataDrop, Done
<1>2. << >> \in Seq(Bytes) /\ Len(<< >>) < Space
  BY MemoryAssumption
<1>3. data = [s \in DOMAIN Segments |-> data[s]]
  BY DEF ContentInv, VectorInv
<1>4. ASSUME NEW s \in DOMAIN Segments
      PROVE  data'[s] \in Seq(Bytes) /\ Len(data'[s]) < Space
  <2>1. data'[s] = << >> \/ data'[s] = data[s]
    BY <1>1, <1>3
  <2>2. data[s] \in Seq(Bytes) /\ Len(data[s]) < Space
    BY DEF ContentInv, SegmentsOK
  <2> QED
    BY <1>2, <2>1, <2>2
<1>5. SegmentsOK'
  BY <1>4 DEF SegmentsOK
<1>6. Len(data') = Len(Segments)
  <2>1. Segments \in Seq(Seq(Bytes)) /\ data' = [s \in DOMAIN Segments |-> data'[s]]
    BY MemoryAssumption DEF VectorInv
  <2>2. DOMAIN Segments = 1..Len(Segments) /\ Len(Segments) \in Nat
    BY <2>1
  <2> QED
    BY <2>1, <2>2
<1> QED
  BY <1>1, <1>5, <1>6 DEF ContentInv, TypeOK

(* memory.grow makes a vector of its new size.                             *)
LEMMA GrowContent ==
  ASSUME ContentInv, VectorInv', MemoryGrow
  PROVE  ContentInv'
<1>1. /\ memory' = [a \in 0..(size' - 1) |-> IF a < size THEN memory[a] ELSE 0]
      /\ instr' = Idle /\ result' = <<pages>> /\ UNCHANGED <<data, status>>
  BY DEF MemoryGrow, Done
<1>2. size \in Nat /\ memory \in [0..(size - 1) -> Bytes] /\ 0 \in Bytes /\ pages \in Nat
  BY MemoryAssumption DEF ContentInv, TypeOK
<1>3. pages' \in 0..(Space - 1) /\ size' = ResizeTo(pages')
  BY DEF VectorInv, BoundsInv, SizeInv
<1>4. size' \in 0..(Space - 1)
  BY <1>3, MemoryAssumption, ResizeType
<1>5. memory' \in [0..(size' - 1) -> Bytes]
  <2>1. \A a \in 0..(size' - 1) : (IF a < size THEN memory[a] ELSE 0) \in Bytes
    BY <1>2, <1>4
  <2> QED
    BY <1>1, <2>1
<1>6. result' \in Seq(Nat)
  BY <1>1, <1>2
<1> QED
  BY <1>1, <1>3, <1>4, <1>5, <1>6 DEF ContentInv, TypeOK, SegmentsOK

(* Every step keeps the types.                                             *)
LEMMA NextContent == ContentInv /\ [Next]_vars => ContentInv'
<1> SUFFICES ASSUME ContentInv, [Next]_vars PROVE ContentInv'
  OBVIOUS
<1>1. VectorInv'
  BY NextVector DEF ContentInv
<1>2. CASE UNCHANGED vars
  BY <1>1, <1>2 DEF vars, ContentInv, TypeOK, SegmentsOK
<1>3. CASE Fetch
  <2>1. /\ UNCHANGED <<memory, size, pages, data>> /\ instr' \in Instrs \cup {Idle}
        /\ result' = << >> /\ status' = status
    BY <1>3 DEF Fetch
  <2>2. result' \in Seq(Nat) /\ status' \in {"running", "aborted", "undefined"}
    BY <2>1 DEF ContentInv, TypeOK
  <2> QED
    BY <1>1, <2>1, <2>2, KeptContent
<1>4. CASE WideLoad \/ NarrowLoad \/ MemorySize
  BY <1>1, <1>4, ReadingContent
<1>5. CASE WideStore \/ NarrowStore \/ MemoryFill \/ MemoryCopy \/ MemoryInit
  BY <1>1, <1>5, WritingContent
<1>6. CASE DataDrop
  BY <1>1, <1>6, DropContent
<1>7. CASE MemoryGrow
  BY <1>1, <1>7, GrowContent
<1> QED
  BY <1>2, <1>3, <1>4, <1>5, <1>6, <1>7 DEF Next, Execute

(* The memory is bytes and has as many as its size says, the page count    *)
(* and the size are uint32_t, and no segment is ever lost.                 *)
THEOREM MemoryTypeCorrect == Spec => []TypeOK
<1>1. ContentInv => TypeOK
  BY DEF ContentInv
<1> QED
  BY <1>1, InitContent, NextContent, PTL DEF Spec

(* memory.copy moves its block, or repeats the first bytes of the source   *)
(* when the destination overlaps it from above, for every block length,    *)
(* distance and memory size.                                               *)
THEOREM CopiesMoveOrRepeat == Spec => CopyMovesOrRepeats
<1>1. ContentInv /\ [Next]_vars =>
        [Completes("copy") =>
           LET source(k) == IF OverlapsUp THEN k % (instr.i1 - instr.i2) ELSE k
           IN  \A a \in DOMAIN memory :
                 memory'[a] = IF a - instr.i1 \in 0..(instr.n - 1)
                              THEN memory[instr.i2 + source(a - instr.i1)] ELSE memory[a]]_vars
  <2> SUFFICES ASSUME ContentInv, Next, Completes("copy")
               PROVE  LET source(k) == IF OverlapsUp THEN k % (instr.i1 - instr.i2) ELSE k
                      IN  \A a \in DOMAIN memory :
                            memory'[a] = IF a - instr.i1 \in 0..(instr.n - 1)
                                         THEN memory[instr.i2 + source(a - instr.i1)]
                                         ELSE memory[a]
    BY DEF vars
  <2>1. MemoryCopy
    BY Executed
  <2>2. Executing("copy") /\ instr' = Idle
    BY DEF Completes
  <2> QED
    BY <2>1, <2>2, CopyStep
<1> QED
  BY <1>1, InitContent, NextContent, PTL DEF Spec, CopyMovesOrRepeats
=============================================================================
