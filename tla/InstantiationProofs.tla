-------------------------- MODULE InstantiationProofs --------------------------
(***************************************************************************)
(* What holds of the constructor for every WasmFile, memory and call.      *)
(***************************************************************************)
EXTENDS HostImport, InstructionTheorems

(* The first n instructions of an expression read no global; none of its   *)
(* instructions does.                                                      *)
PlainTo(e, n) == \A x \in DOMAIN e : x <= n => e[x].op # "global.get"
Plain(e)      == \A x \in DOMAIN e : e[x].op # "global.get"

AllPlain(segments) == \A k \in DOMAIN segments : Plain(segments[k].expr)

(* A list of segments or globals, the expressions of which are lists too.  *)
Listed(segments) ==
  /\ Len(segments) \in Nat /\ DOMAIN segments = 1..Len(segments)
  /\ \A k \in DOMAIN segments :
       /\ Len(segments[k].expr) \in Nat
       /\ DOMAIN segments[k].expr = 1..Len(segments[k].expr)
       /\ \A x \in DOMAIN segments[k].expr :
            /\ segments[k].expr[x].op = "global.get" => segments[k].expr[x].v \in Nat
            /\ segments[k].expr[x].op = "const" => IsValue(segments[k].expr[x])

(* While the constructor is in a list of segments: those before entry i    *)
(* are plain, and so is what has been run of that one, which is all of it  *)
(* once its offset is taken.                                               *)
PlainSoFar(segments) ==
  /\ \A k \in DOMAIN segments : k < i => Plain(segments[k].expr)
  /\ i \in DOMAIN segments => PlainTo(segments[i].expr, pc - 1)
  /\ i \in DOMAIN segments /\ j # 0 => pc = Len(segments[i].expr) + 1
  /\ i \notin DOMAIN segments => pc = 1 /\ j = 0

(* Up to the third list no global exists, and only plain expressions have  *)
(* come to their end.                                                      *)
OffsetInv ==
  /\ wasm \in Modules
  /\ list \in 1..5 /\ i \in Nat \ {0} /\ pc \in Nat \ {0}
  /\ list <= 3 => globals = << >>
  /\ list = 1 => pc = 1
  /\ list \in {1, 3} => j = 0
  /\ list = 2 => PlainSoFar(wasm.elems)
  /\ list = 3 => PlainSoFar(wasm.data)
  /\ list >= 3 => AllPlain(wasm.elems)
  /\ list >= 4 => AllPlain(wasm.data)
  /\ list <= 4 => status # "constructed"

-----------------------------------------------------------------------------
(* A list has the positions from 1 to its length.                          *)
LEMMA ListDomain ==
  ASSUME NEW s, IsList(s)
  PROVE  Len(s) \in Nat /\ DOMAIN s = 1..Len(s)
<1>1. s \in Seq(Range(s))
  BY DEF IsList
<1> QED
  BY <1>1

(* What the assumption says of a module's lists, by the numbers of their   *)
(* entries.                                                                *)
LEMMA ListedEntries ==
  ASSUME NEW s, IsList(s), \A x \in Range(s) : IsExpr(x.expr)
  PROVE  Listed(s)
<1>1. \A f : \A k \in DOMAIN f : f[k] \in Range(f)
  BY DEF Range
<1>2. ASSUME NEW k \in DOMAIN s
      PROVE  /\ Len(s[k].expr) \in Nat /\ DOMAIN s[k].expr = 1..Len(s[k].expr)
             /\ \A x \in DOMAIN s[k].expr :
                  /\ s[k].expr[x].op = "global.get" => s[k].expr[x].v \in Nat
                  /\ s[k].expr[x].op = "const" => IsValue(s[k].expr[x])
  <2>1. IsExpr(s[k].expr)
    BY <1>1
  <2>2. PICK e : e = s[k].expr
    OBVIOUS
  <2>3. IsList(e) /\ \A x \in DOMAIN e : /\ e[x].op = "const" => IsValue(e[x])
                                         /\ e[x].op = "global.get" => e[x].v \in Nat
    BY <1>1, <2>1, <2>2 DEF IsExpr
  <2> QED
    BY <2>2, <2>3, ListDomain
<1> QED
  BY <1>2, ListDomain DEF Listed

(* The lists and segments of a module have their types.                    *)
LEMMA Segments ==
  ASSUME NEW m \in Modules
  PROVE  /\ Listed(m.elems) /\ Listed(m.data) /\ Listed(m.globals)
         /\ \A k \in DOMAIN m.elems : m.elems[k].funcs \in Seq(Nat) /\ Len(m.elems[k].funcs) \in Nat
         /\ \A k \in DOMAIN m.data : m.data[k].bytes \in Seq(Nat)
         /\ Len(m.tables) \in Nat /\ DOMAIN m.tables = 1..Len(m.tables)
         /\ \A k \in DOMAIN m.tables : {m.tables[k].n, m.tables[k].m} \subseteq 0..(Space - 1)
<1>1. IsWasmFile(m)
  BY InstantiationAssumption
<1>2. \A f : \A k \in DOMAIN f : f[k] \in Range(f)
  BY DEF Range
<1>3. Listed(m.elems) /\ Listed(m.data) /\ Listed(m.globals)
  BY <1>1, ListedEntries DEF IsWasmFile
<1>4. \A k \in DOMAIN m.elems : m.elems[k].funcs \in Seq(Nat)
  BY <1>1, <1>2 DEF IsWasmFile
<1>5. \A k \in DOMAIN m.data : m.data[k].bytes \in Seq(Nat)
  BY <1>1, <1>2 DEF IsWasmFile
<1>6. \A k \in DOMAIN m.tables : {m.tables[k].n, m.tables[k].m} \subseteq 0..(Space - 1)
  BY <1>1, <1>2 DEF IsWasmFile
<1>7. Len(m.tables) \in Nat /\ DOMAIN m.tables = 1..Len(m.tables)
  BY <1>1, ListDomain DEF IsWasmFile
<1> QED
  BY <1>3, <1>4, <1>5, <1>6, <1>7

(* The number of a list tells its name.                                    *)
LEMMA ListNames ==
  ASSUME list \in 1..5
  PROVE  /\ In("tables") => list = 1
         /\ In("elems") => list = 2
         /\ In("data") => list = 3
         /\ In("globals") => list = 4
         /\ list = 2 => Lists[list] = "elems"
         /\ list = 3 => Lists[list] = "data"
BY DEF In, Lists

(* The entry the constructor is at, in a list of segments.                 *)
LEMMA Place ==
  ASSUME OffsetInv
  PROVE  /\ list = 2 => /\ AtEntry <=> i \in DOMAIN wasm.elems
                        /\ AtEntry <=> i <= Len(wasm.elems)
                        /\ ThisEntry = wasm.elems[i]
         /\ list = 3 => /\ AtEntry <=> i \in DOMAIN wasm.data
                        /\ AtEntry <=> i <= Len(wasm.data)
                        /\ ThisEntry = wasm.data[i]
<1>1. Listed(wasm.elems) /\ Listed(wasm.data) /\ i \in Nat \ {0} /\ list \in 1..5
  BY Segments DEF OffsetInv
<1> QED
  BY <1>1, ListNames DEF AtEntry, ThisEntry, Listed

-----------------------------------------------------------------------------
(* How a list of segments is gone through.  The first entry is entered     *)
(* with nothing run.                                                       *)
LEMMA EnterList ==
  ASSUME NEW m, Listed(m), i' = 1, pc' = 1, j' = 0
  PROVE  PlainSoFar(m)'
BY DEF PlainSoFar, PlainTo, Listed

(* An instruction that is no global.get is run.                            *)
LEMMA RunPlain ==
  ASSUME NEW m, Listed(m), PlainSoFar(m), i \in DOMAIN m, pc \in Nat \ {0},
         m[i].expr[pc].op # "global.get", j = 0, UNCHANGED <<i, j>>, pc' = pc + 1
  PROVE  PlainSoFar(m)'
<1>1. PlainTo(m[i].expr, pc)
  <2> SUFFICES ASSUME NEW x \in DOMAIN m[i].expr, x <= pc
               PROVE  m[i].expr[x].op # "global.get"
    BY DEF PlainTo
  <2>1. x \in Nat /\ (x = pc \/ x <= pc - 1)
    BY DEF Listed
  <2> QED
    BY <2>1 DEF PlainSoFar, PlainTo
<1>2. pc' - 1 = pc
  OBVIOUS
<1> QED
  BY <1>1, <1>2 DEF PlainSoFar

(* A segment whose expression has been run to its end is left behind.      *)
LEMMA LeaveEntry ==
  ASSUME NEW m, Listed(m), PlainSoFar(m), i \in DOMAIN m, pc = Len(m[i].expr) + 1, NextEntry
  PROVE  PlainSoFar(m)'
<1>1. Plain(m[i].expr)
  <2>1. PlainTo(m[i].expr, pc - 1)
    BY DEF PlainSoFar
  <2>2. \A x \in DOMAIN m[i].expr : x <= pc - 1
    BY DEF Listed
  <2> QED
    BY <2>1, <2>2 DEF PlainTo, Plain
<1>2. i' = i + 1 /\ pc' = 1 /\ j' = 0
  BY DEF NextEntry
<1>3. \A k \in DOMAIN m : k < i' => Plain(m[k].expr)
  <2> SUFFICES ASSUME NEW k \in DOMAIN m, k < i + 1 PROVE Plain(m[k].expr)
    BY <1>2
  <2>1. k < i \/ k = i
    BY DEF Listed
  <2> QED
    BY <1>1, <2>1 DEF PlainSoFar
<1>4. i' \in DOMAIN m => PlainTo(m[i'].expr, pc' - 1)
  BY <1>2 DEF PlainTo, Listed
<1> QED
  BY <1>2, <1>3, <1>4 DEF PlainSoFar

(* Behind the last entry all segments are plain.                           *)
LEMMA LeaveList ==
  ASSUME NEW m, Listed(m), PlainSoFar(m), i \in Nat, i \notin DOMAIN m, i > Len(m)
  PROVE  AllPlain(m) /\ pc = 1 /\ j = 0
BY DEF AllPlain, PlainSoFar, Listed

-----------------------------------------------------------------------------
(* The steps.  One that changes neither the lists nor the globals, and     *)
(* that does not construct, keeps the invariant.                           *)
LEMMA SamePlace ==
  ASSUME OffsetInv, UNCHANGED <<wasm, globals, list, i, pc, j>>,
         status' = "constructed" => status = "constructed"
  PROVE  OffsetInv'
BY DEF OffsetInv, PlainSoFar

(* A constructor that fails keeps what is known of the offset.             *)
LEMMA FailKeeps ==
  ASSUME OffsetInv, NEW how, how # "constructed", Fail(how)
  PROVE  OffsetInv'
<1>1. UNCHANGED <<wasm, globals, list, i, pc, j>> /\ status' # "constructed"
  BY DEF Fail
<1> QED
  BY <1>1, SamePlace

(* In the lists before and behind the segments there is nothing to keep.   *)
LEMMA Elsewhere ==
  ASSUME OffsetInv, UNCHANGED <<wasm, list>>, status' # "constructed", i' \in Nat \ {0}, pc' \in Nat \ {0},
         (list = 1 /\ pc' = 1 /\ j' = 0 /\ globals' = globals) \/ list = 4
  PROVE  OffsetInv'
BY DEF OffsetInv

(* In a list of segments, one step after the other.                        *)
LEMMA InElems ==
  ASSUME OffsetInv, list = 2, UNCHANGED <<wasm, list, globals, status>>, i' \in Nat \ {0}, pc' \in Nat \ {0},
         NEW m, m = wasm.elems, PlainSoFar(m)'
  PROVE  OffsetInv'
<1>1. PlainSoFar(wasm.elems)'
  BY DEF PlainSoFar
<1> QED
  BY <1>1 DEF OffsetInv

(* So does the step on to the data segments.                               *)
LEMMA InData ==
  ASSUME OffsetInv, list = 3, UNCHANGED <<wasm, list, globals, status>>, i' \in Nat \ {0}, pc' \in Nat \ {0},
         j' = 0, NEW m, m = wasm.data, PlainSoFar(m)'
  PROVE  OffsetInv'
<1>1. PlainSoFar(wasm.data)'
  BY DEF PlainSoFar
<1> QED
  BY <1>1 DEF OffsetInv

(* The instructions: a global.get fails until there are globals.           *)
LEMMA InstructionKeeps ==
  ASSUME OffsetInv, Running, NEW st, Push(st), list <= 3 => Instruction.op # "global.get"
  PROVE  OffsetInv'
<1>1. /\ list \in {2, 3, 4} /\ j = 0 /\ status = "running" /\ AtEntry
      /\ i \in Nat \ {0} /\ pc \in Nat \ {0} /\ wasm \in Modules
  BY ListNames DEF OffsetInv, Running, HasExpr, In
<1>2. pc' = pc + 1 /\ UNCHANGED <<wasm, globals, list, i, j, status>>
  BY DEF Push
<1>3. CASE list = 2
  <2>1. PICK m : m = wasm.elems
    OBVIOUS
  <2>2. Listed(m) /\ PlainSoFar(m) /\ i \in DOMAIN m /\ Instruction = m[i].expr[pc]
    BY <1>1, <1>3, <2>1, Segments, Place DEF OffsetInv, Instruction
  <2>3. PlainSoFar(m)'
    BY <1>1, <1>2, <1>3, <2>2, RunPlain
  <2> QED
    BY <1>1, <1>2, <1>3, <2>1, <2>3, InElems
<1>4. CASE list = 3
  <2>1. PICK m : m = wasm.data
    OBVIOUS
  <2>2. Listed(m) /\ PlainSoFar(m) /\ i \in DOMAIN m /\ Instruction = m[i].expr[pc]
    BY <1>1, <1>4, <2>1, Segments, Place DEF OffsetInv, Instruction
  <2>3. PlainSoFar(m)'
    BY <1>1, <1>2, <1>4, <2>2, RunPlain
  <2> QED
    BY <1>1, <1>2, <1>4, <2>1, <2>3, InData
<1>5. CASE list = 4
  BY <1>1, <1>2, <1>5, Elsewhere
<1> QED
  BY <1>1, <1>3, <1>4, <1>5

LEMMA GlobalGetKeeps ==
  ASSUME OffsetInv, GlobalGet
  PROVE  OffsetInv'
<1>1. CASE ~IsGlobal(Instruction.v)
  BY <1>1, FailKeeps DEF GlobalGet
<1>2. CASE IsGlobal(Instruction.v)
  <2>1. ~(list <= 3)
    <3> SUFFICES ASSUME list <= 3 PROVE FALSE
      OBVIOUS
    <3>1. /\ list \in {2, 3} /\ AtEntry /\ pc <= Len(ThisEntry.expr)
          /\ pc \in Nat \ {0} /\ wasm \in Modules /\ Len(globals) = 0
      BY ListNames DEF OffsetInv, GlobalGet, Running, HasExpr
    <3>2. Instruction.v \in Nat
      <4>1. Listed(wasm.elems) /\ Listed(wasm.data)
        BY <3>1, Segments
      <4>2. CASE list = 2
        BY <3>1, <4>1, <4>2, Place DEF GlobalGet, Instruction, Listed
      <4>3. CASE list = 3
        BY <3>1, <4>1, <4>3, Place DEF GlobalGet, Instruction, Listed
      <4> QED
        BY <3>1, <4>2, <4>3
    <3> QED
      BY <1>2, <3>1, <3>2 DEF IsGlobal
  <2> QED
    BY <1>2, <2>1, InstructionKeeps DEF GlobalGet
<1> QED
  BY <1>1, <1>2

(* The steps of the four lists.                                            *)
LEMMA ReserveKeeps ==
  ASSUME OffsetInv, ReserveTable
  PROVE  OffsetInv'
<1>1. list = 1 /\ status = "running" /\ i \in Nat \ {0}
  BY ListNames DEF OffsetInv, ReserveTable, In
<1>2. CASE ThisEntry.ref # "funcref"
  BY <1>2, FailKeeps DEF ReserveTable
<1>3. CASE ThisEntry.ref = "funcref"
  <2>1. NextEntry /\ globals' = globals
    BY <1>3 DEF ReserveTable
  <2>2. i' \in Nat \ {0} /\ pc' = 1 /\ j' = 0 /\ UNCHANGED <<wasm, list, status>>
    BY <1>1, <2>1 DEF NextEntry
  <2> QED
    BY <1>1, <2>1, <2>2, Elsewhere
<1> QED
  BY <1>2, <1>3

LEMMA ElementsKeep ==
  ASSUME OffsetInv, In("elems"), TakeOffset \/ PlaceEntry \/ EndElement
  PROVE  OffsetInv'
<1>1. list = 2 /\ i \in Nat \ {0} /\ pc \in Nat \ {0} /\ wasm \in Modules
  BY ListNames DEF OffsetInv
<1>2. PICK m : m = wasm.elems
  OBVIOUS
<1>3. AtEntry
  BY DEF TakeOffset, PlaceEntry, EndElement, Evaluated
<1>4. /\ Listed(m) /\ PlainSoFar(m) /\ i \in DOMAIN m /\ ThisEntry = m[i]
      /\ Len(m[i].funcs) \in Nat
  BY <1>1, <1>2, <1>3, Segments, Place DEF OffsetInv
<1>5. CASE TakeOffset
  <2>1. /\ pc = Len(m[i].expr) + 1 /\ j = 0 /\ j' = 1
        /\ UNCHANGED <<wasm, list, globals, status, i, pc>>
    BY <1>4, <1>5 DEF TakeOffset, Evaluated
  <2>2. PlainSoFar(m)'
    BY <1>4, <2>1 DEF PlainSoFar
  <2> QED
    BY <1>1, <1>2, <2>1, <2>2, InElems
<1>6. CASE PlaceEntry /\ EntryIndex(offset, j) >= Len(function_table)
  BY <1>6, FailKeeps DEF PlaceEntry
<1>7. CASE PlaceEntry /\ ~(EntryIndex(offset, j) >= Len(function_table))
  <2>1. j \in 1..Len(m[i].funcs) /\ j' = j + 1 /\ UNCHANGED <<wasm, list, globals, status, i, pc>>
    BY <1>4, <1>7 DEF PlaceEntry
  <2>2. PlainSoFar(m)'
    BY <1>4, <2>1 DEF PlainSoFar
  <2> QED
    BY <1>1, <1>2, <2>1, <2>2, InElems
<1>8. CASE EndElement
  <2>1. j = Len(m[i].funcs) + 1 /\ NextEntry /\ globals' = globals
    BY <1>4, <1>8 DEF EndElement
  <2>2. pc = Len(m[i].expr) + 1
    BY <1>4, <2>1 DEF PlainSoFar
  <2>3. PlainSoFar(m)'
    BY <1>4, <2>1, <2>2, LeaveEntry
  <2>4. i' \in Nat \ {0} /\ pc' = 1 /\ UNCHANGED <<wasm, list, status>>
    BY <1>1, <2>1 DEF NextEntry
  <2> QED
    BY <1>1, <1>2, <2>1, <2>3, <2>4, InElems
<1> QED
  BY <1>5, <1>6, <1>7, <1>8

LEMMA DataKeep ==
  ASSUME OffsetInv, CopyData
  PROVE  OffsetInv'
<1> DEFINE o == Last(stack).v
           outside == o >= Len(memory) \/ o + Len(ThisEntry.bytes) > Len(memory)
<1>1. CASE outside
  BY <1>1, FailKeeps DEF CopyData
<1>2. CASE ~outside
  <2>1. /\ list = 3 /\ i \in Nat \ {0} /\ wasm \in Modules /\ AtEntry
    BY ListNames DEF OffsetInv, CopyData, Evaluated
  <2>2. PICK m : m = wasm.data
    OBVIOUS
  <2>3. Listed(m) /\ PlainSoFar(m) /\ i \in DOMAIN m /\ ThisEntry = m[i]
    BY <2>1, <2>2, Segments, Place DEF OffsetInv
  <2>4. pc = Len(m[i].expr) + 1 /\ NextEntry /\ globals' = globals
    BY <1>2, <2>3 DEF CopyData, Evaluated
  <2>5. PlainSoFar(m)'
    BY <2>3, <2>4, LeaveEntry
  <2>6. i' \in Nat \ {0} /\ pc' = 1 /\ j' = 0 /\ UNCHANGED <<wasm, list, status>>
    BY <2>1, <2>4 DEF NextEntry
  <2> QED
    BY <2>1, <2>2, <2>4, <2>5, <2>6, InData
<1> QED
  BY <1>1, <1>2

LEMMA GlobalKeeps ==
  ASSUME OffsetInv, TakeGlobal
  PROVE  OffsetInv'
<1>1. CASE stack = << >>
  BY <1>1, FailKeeps DEF TakeGlobal
<1>2. CASE stack # << >>
  <2>1. list = 4 /\ status = "running" /\ i \in Nat \ {0} /\ NextEntry
    BY <1>2, ListNames DEF OffsetInv, TakeGlobal, Evaluated, In
  <2>2. i' \in Nat \ {0} /\ pc' = 1 /\ UNCHANGED <<wasm, list, status>>
    BY <2>1 DEF NextEntry
  <2> QED
    BY <2>1, <2>2, Elsewhere
<1> QED
  BY <1>1, <1>2

(* From list to list: the next one is entered with nothing run.            *)
LEMMA NextListKeeps ==
  ASSUME OffsetInv, NextList
  PROVE  OffsetInv'
<1>1. /\ wasm \in Modules /\ list \in 1..4 /\ ~AtEntry /\ i \in Nat \ {0} /\ pc \in Nat \ {0}
      /\ list' = list + 1 /\ i' = 1 /\ UNCHANGED <<wasm, globals, pc, j>>
      /\ status' = IF list = 4 THEN "constructed" ELSE "running"
  BY DEF OffsetInv, NextList
<1>2. PICK m : m = wasm
  OBVIOUS
<1>3. Listed(m.elems) /\ Listed(m.data)
  BY <1>1, <1>2, Segments
<1>4. CASE list = 1
  <2>1. PlainSoFar(m.elems)'
    BY <1>1, <1>3, <1>4, EnterList DEF OffsetInv
  <2>2. PlainSoFar(wasm.elems)'
    BY <1>1, <1>2, <2>1 DEF PlainSoFar
  <2> QED
    BY <1>1, <1>4, <2>2 DEF OffsetInv
<1>5. CASE list = 2
  <2>0. PlainSoFar(m.elems) /\ i \notin DOMAIN m.elems /\ i > Len(m.elems)
    <3>1. i \notin DOMAIN m.elems /\ ~(i <= Len(m.elems)) /\ Len(m.elems) \in Nat
      BY <1>1, <1>2, <1>3, <1>5, Place DEF Listed
    <3> QED
      BY <1>1, <1>2, <1>5, <3>1 DEF OffsetInv
  <2>1. AllPlain(m.elems) /\ pc = 1 /\ j = 0
    BY <1>1, <1>3, <2>0, LeaveList
  <2>2. PlainSoFar(m.data)'
    BY <1>1, <1>3, <2>1, EnterList
  <2>3. PlainSoFar(wasm.data)'
    BY <1>1, <1>2, <2>2 DEF PlainSoFar
  <2> QED
    BY <1>1, <1>2, <1>5, <2>1, <2>3 DEF OffsetInv
<1>6. CASE list = 3
  <2>0. PlainSoFar(m.data) /\ i \notin DOMAIN m.data /\ i > Len(m.data)
    <3>1. i \notin DOMAIN m.data /\ ~(i <= Len(m.data)) /\ Len(m.data) \in Nat
      BY <1>1, <1>2, <1>3, <1>6, Place DEF Listed
    <3> QED
      BY <1>1, <1>2, <1>6, <3>1 DEF OffsetInv
  <2>1. AllPlain(m.data)
    BY <1>1, <1>3, <2>0, LeaveList
  <2> QED
    BY <1>1, <1>2, <1>6, <2>1 DEF OffsetInv
<1>7. CASE list = 4
  BY <1>1, <1>7 DEF OffsetInv
<1> QED
  BY <1>1, <1>4, <1>5, <1>6, <1>7

(* A step of the constructor, and a step of a call of fd_write.            *)
LEMMA ConstructorKeeps ==
  ASSUME OffsetInv, Next
  PROVE  OffsetInv'
<1>1. CASE NextList
  BY <1>1, NextListKeeps
<1>2. CASE ReserveTable
  BY <1>2, ReserveKeeps
<1>3. CASE EmptyExpr
  BY <1>3, FailKeeps DEF EmptyExpr
<1>4. CASE Const
  BY <1>4, InstructionKeeps DEF Const
<1>5. CASE GlobalGet
  BY <1>5, GlobalGetKeeps
<1>6. CASE Add
  <2>1. CASE Len(stack) < 2
    BY <1>6, <2>1, FailKeeps DEF Add
  <2>2. CASE ~(Len(stack) < 2)
    BY <1>6, <2>2, InstructionKeeps DEF Add
  <2> QED
    BY <2>1, <2>2
<1>7. CASE BadOffset
  BY <1>7, FailKeeps DEF BadOffset
<1>8. CASE TakeOffset \/ PlaceEntry \/ EndElement
  <2>1. In("elems")
    BY <1>8 DEF TakeOffset, PlaceEntry, EndElement, Evaluated
  <2> QED
    BY <1>8, <2>1, ElementsKeep
<1>9. CASE CopyData
  BY <1>9, DataKeep
<1>10. CASE TakeGlobal
  BY <1>10, GlobalKeeps
<1> QED
  BY <1>1, <1>2, <1>3, <1>4, <1>5, <1>6, <1>7, <1>8, <1>9, <1>10 DEF Next

LEMMA CallKeeps ==
  ASSUME OffsetInv, CallImport \/ WriteChunk \/ ReturnSuccess
  PROVE  OffsetInv'
<1>1. ASSUME NEW how, how # "constructed", EndCall(how) PROVE OffsetInv'
  BY <1>1, FailKeeps DEF EndCall
<1>2. CASE CallImport
  <2>1. UNCHANGED <<wasm, globals, list, i, pc, j>> /\ status' # "constructed"
    BY <1>2 DEF CallImport
  <2> QED
    BY <2>1, SamePlace
<1>3. CASE WriteChunk
  <2>1. \/ EndCall("aborted") \/ EndCall("undefined")
        \/ UNCHANGED vars
    BY <1>3 DEF WriteChunk
  <2>2. UNCHANGED vars => UNCHANGED <<wasm, globals, list, i, pc, j, status>>
    BY DEF vars
  <2> QED
    BY <1>1, <2>1, <2>2, SamePlace
<1>4. CASE ReturnSuccess
  <2>1. \/ EndCall("aborted") \/ EndCall("undefined")
        \/ UNCHANGED <<wasm, globals, list, i, pc, j>> /\ status' = "returned"
    BY <1>4 DEF ReturnSuccess
  <2> QED
    BY <1>1, <2>1, SamePlace
<1> QED
  BY <1>2, <1>3, <1>4

-----------------------------------------------------------------------------
(* No WasmFile with an offset that reads a global is ever instantiated.    *)
THEOREM OffsetsAreConstant == HostSpec => []OffsetsReadNoGlobals
<1>1. HostInit => OffsetInv
  <2> SUFFICES ASSUME HostInit PROVE OffsetInv
    OBVIOUS
  <2>1. /\ wasm \in Modules /\ globals = << >> /\ list = 1 /\ i = 1 /\ pc = 1 /\ j = 0
        /\ status = "running"
    BY DEF HostInit, Init
  <2> QED
    BY <2>1 DEF OffsetInv
<1>2. OffsetInv /\ [HostNext]_<<vars, hostvars>> => OffsetInv'
  <2> SUFFICES ASSUME OffsetInv, [HostNext]_<<vars, hostvars>> PROVE OffsetInv'
    OBVIOUS
  <2>1. CASE Next
    BY <2>1, ConstructorKeeps
  <2>2. CASE CallImport \/ WriteChunk \/ ReturnSuccess
    BY <2>2, CallKeeps
  <2>3. CASE UNCHANGED vars
    <3>1. UNCHANGED <<wasm, globals, list, i, pc, j, status>>
      BY <2>3 DEF vars
    <3> QED
      BY <3>1, SamePlace
  <2> QED
    BY <2>1, <2>2, <2>3 DEF HostNext
<1>3. OffsetInv => OffsetsReadNoGlobals
  <2> SUFFICES ASSUME OffsetInv, Constructed,
                      NEW s \in Range(wasm.elems) \cup Range(wasm.data), NEW k \in DOMAIN s.expr
               PROVE  s.expr[k].op # "global.get"
    BY DEF OffsetsReadNoGlobals
  <2>1. AllPlain(wasm.elems) /\ AllPlain(wasm.data)
    BY DEF OffsetInv, Constructed
  <2>2. Plain(s.expr)
    BY <2>1 DEF AllPlain, Range
  <2> QED
    BY <2>2 DEF Plain
<1> QED
  BY <1>1, <1>2, <1>3, PTL DEF HostSpec

-----------------------------------------------------------------------------
(* What valid modules come to.  The operand stack while an expression of   *)
(* type t is run, in front of its instruction p.                           *)
Operand(t, v) == [t |-> t, v |-> v]

StackAt(e, t, p, gs) ==
  IF p = 1 THEN << >>
  ELSE IF p = Len(e) + 1 THEN <<Operand(t, ValueOf(e, gs))>>
  ELSE IF p = 2 THEN <<Operand(t, Leaf(e[1], gs))>>
  ELSE <<Operand(t, Leaf(e[1], gs)), Operand(t, Leaf(e[2], gs))>>

(* An instruction that pushes an operand of type t, where there are n      *)
(* globals of the types that m declares.                                   *)
LeafOk(m, x, t, n) ==
  \/ x.op = "const" /\ x.t = t
  \/ x.op = "global.get" /\ x.v < n /\ m.globals[x.v + 1].t = t

(* A valid expression pushes one operand, or two and adds them.            *)
LEMMA ValidShape ==
  ASSUME NEW m, NEW e, NEW t, NEW n, ValidExpr(m, e, t, n)
  PROVE  \/ Len(e) = 1 /\ LeafOk(m, e[1], t, n)
         \/ /\ Len(e) = 3 /\ t = "I32" /\ LeafOk(m, e[1], t, n) /\ LeafOk(m, e[2], t, n)
            /\ e[3].op = "add"
BY DEF ValidExpr, LeafOk

(* Its instructions take the stack from one stage to the next.             *)
LEMMA LeafPushes ==
  ASSUME NEW m, NEW e, NEW t, NEW n, ValidExpr(m, e, t, n), NEW gs,
         NEW p \in 1..Len(e), e[p].op # "add"
  PROVE  /\ LeafOk(m, e[p], t, n)
         /\ Append(StackAt(e, t, p, gs), Operand(t, Leaf(e[p], gs))) = StackAt(e, t, p + 1, gs)
<1>0. ASSUME NEW a, NEW b
      PROVE  Append(<< >>, a) = <<a>> /\ Append(<<a>>, b) = <<a, b>>
  <2>1. Append(<< >>, a) = <<a>>
    OBVIOUS
  <2>2. <<a>> \in Seq({a, b}) /\ Len(<<a>>) = 1 /\ <<a>>[1] = a
    OBVIOUS
  <2>3. Append(<<a>>, b) \in Seq({a, b}) /\ Len(Append(<<a>>, b)) = 2
        /\ Append(<<a>>, b)[1] = a /\ Append(<<a>>, b)[2] = b
    BY <2>2
  <2>4. \A s : s \in Seq({a, b}) /\ Len(s) = 2 => s = <<s[1], s[2]>>
    OBVIOUS
  <2>5. Append(<<a>>, b) = <<a, b>>
    BY <2>3, <2>4, Zenon
  <2> QED
    BY <2>1, <2>5
<1>1. CASE Len(e) = 1 /\ LeafOk(m, e[1], t, n)
  <2>1. p = 1 /\ p + 1 = 2
    BY <1>1
  <2>2. StackAt(e, t, 1, gs) = << >> /\ StackAt(e, t, 2, gs) = <<Operand(t, Leaf(e[1], gs))>>
    BY <1>1 DEF StackAt, ValueOf
  <2> QED
    BY <1>0, <1>1, <2>1, <2>2, Zenon
<1>2. CASE /\ Len(e) = 3 /\ LeafOk(m, e[1], t, n) /\ LeafOk(m, e[2], t, n) /\ e[3].op = "add"
  <2>0. p \in 1..3 /\ p # 3
    BY <1>2
  <2>1. (p = 1 /\ p + 1 = 2) \/ (p = 2 /\ p + 1 = 3)
    BY <2>0
  <2>2. /\ StackAt(e, t, 1, gs) = << >> /\ StackAt(e, t, 2, gs) = <<Operand(t, Leaf(e[1], gs))>>
        /\ StackAt(e, t, 3, gs) = <<Operand(t, Leaf(e[1], gs)), Operand(t, Leaf(e[2], gs))>>
    BY <1>2 DEF StackAt
  <2> QED
    BY <1>0, <1>2, <2>1, <2>2, Zenon
<1> QED
  BY <1>1, <1>2, ValidShape

(* The add of a valid expression finds two operands and adds them.         *)
LEMMA AddAdds ==
  ASSUME NEW m, NEW e, NEW t, NEW n, ValidExpr(m, e, t, n), NEW gs,
         NEW p \in 1..Len(e), e[p].op = "add"
  PROVE  LET st == StackAt(e, t, p, gs)
         IN  /\ Len(st) = 2
             /\ Append(SubSeq(st, 1, Len(st) - 2),
                       Operand("I32", (st[Len(st) - 1].v + st[Len(st)].v) % Space))
                = StackAt(e, t, p + 1, gs)
<1>1. CASE Len(e) = 1 /\ LeafOk(m, e[1], t, n)
  BY <1>1 DEF LeafOk
<1>2. CASE /\ Len(e) = 3 /\ t = "I32" /\ LeafOk(m, e[1], t, n) /\ LeafOk(m, e[2], t, n)
  <2>1. p = 3 /\ p + 1 = 4
    BY <1>2 DEF LeafOk
  <2> DEFINE a == Operand(t, Leaf(e[1], gs))
             b == Operand(t, Leaf(e[2], gs))
  <2>2. /\ StackAt(e, t, 3, gs) = <<a, b>>
        /\ StackAt(e, t, 4, gs) = <<Operand(t, (Leaf(e[1], gs) + Leaf(e[2], gs)) % Space)>>
    BY <1>2 DEF StackAt, ValueOf
  <2>3. a.v = Leaf(e[1], gs) /\ b.v = Leaf(e[2], gs)
    BY DEF Operand
  <2> HIDE DEF a, b
  <2>4. Len(<<a, b>>) = 2 /\ <<a, b>>[1] = a /\ <<a, b>>[2] = b /\ SubSeq(<<a, b>>, 1, 0) = << >>
    OBVIOUS
  <2>5. Append(<< >>, Operand("I32", (a.v + b.v) % Space)) = <<Operand("I32", (a.v + b.v) % Space)>>
    OBVIOUS
  <2>6. 2 - 2 = 0 /\ 2 - 1 = 1
    OBVIOUS
  <2> QED
    BY <1>2, <2>1, <2>2, <2>3, <2>4, <2>5, <2>6, Zenon
<1> QED
  BY <1>1, <1>2, ValidShape

(* When it has been run, one operand is there, of its type and value.      *)
LEMMA EndStack ==
  ASSUME NEW m, NEW e, NEW t, NEW n, ValidExpr(m, e, t, n), NEW gs
  PROVE  /\ Len(e) # 0
         /\ StackAt(e, t, Len(e) + 1, gs) = <<Operand(t, ValueOf(e, gs))>>
BY ValidShape DEF StackAt

(* Its value depends on the globals it may read only.                      *)
LEMMA ValueStable ==
  ASSUME NEW m, NEW e, NEW t, NEW n, ValidExpr(m, e, t, n), NEW gs, NEW hs,
         \A x \in DOMAIN e : e[x].op = "global.get" => e[x].v \in Nat,
         Len(e) \in Nat, DOMAIN e = 1..Len(e),
         \A k \in Nat : k < n => gs[k + 1] = hs[k + 1]
  PROVE  /\ ValueOf(e, gs) = ValueOf(e, hs)
         /\ \A p \in 1..(Len(e) + 1) : StackAt(e, t, p, gs) = StackAt(e, t, p, hs)
<1>1. ASSUME NEW x \in DOMAIN e, LeafOk(m, e[x], t, n)
      PROVE  Leaf(e[x], gs) = Leaf(e[x], hs)
  BY <1>1 DEF LeafOk, Leaf
<1>2. CASE Len(e) = 1 /\ LeafOk(m, e[1], t, n)
  <2>1. Leaf(e[1], gs) = Leaf(e[1], hs)
    BY <1>1, <1>2
  <2> QED
    BY <1>2, <2>1 DEF ValueOf, StackAt
<1>3. CASE Len(e) = 3 /\ LeafOk(m, e[1], t, n) /\ LeafOk(m, e[2], t, n)
  <2>1. Leaf(e[1], gs) = Leaf(e[1], hs) /\ Leaf(e[2], gs) = Leaf(e[2], hs)
    BY <1>1, <1>3
  <2> QED
    BY <1>3, <2>1 DEF ValueOf, StackAt
<1> QED
  BY <1>2, <1>3, ValidShape

(* An offset is one of the addresses.                                      *)
LEMMA OffsetRange ==
  ASSUME NEW m, NEW e, ValidExpr(m, e, "I32", 0), Len(e) \in Nat, DOMAIN e = 1..Len(e),
         \A x \in DOMAIN e : /\ e[x].op = "global.get" => e[x].v \in Nat
                             /\ e[x].op = "const" => IsValue(e[x])
  PROVE  ValueOf(e, << >>) \in 0..(Space - 1)
<1>0. Space \in Nat \ {0}
  BY InstantiationAssumption
<1>1. ASSUME NEW x \in DOMAIN e, LeafOk(m, e[x], "I32", 0)
      PROVE  Leaf(e[x], << >>) \in 0..(Space - 1)
  BY <1>0, <1>1 DEF LeafOk, Leaf, IsValue
<1>2. CASE Len(e) = 1 /\ LeafOk(m, e[1], "I32", 0)
  BY <1>1, <1>2 DEF ValueOf
<1>3. CASE Len(e) = 3 /\ LeafOk(m, e[1], "I32", 0) /\ LeafOk(m, e[2], "I32", 0)
  <2>1. Leaf(e[1], << >>) \in Nat /\ Leaf(e[2], << >>) \in Nat
    BY <1>0, <1>1, <1>3
  <2>2. (Leaf(e[1], << >>) + Leaf(e[2], << >>)) % Space \in 0..(Space - 1)
    BY <1>0, <2>1
  <2> QED
    BY <1>3, <2>2 DEF ValueOf
<1> QED
  BY <1>2, <1>3, ValidShape

-----------------------------------------------------------------------------
(* What writes put at a position when len[k] elements of the k-th have     *)
(* been written.                                                           *)
Covering(writes, len, a) == {k \in DOMAIN writes : a - writes[k].to \in 0..(len[k] - 1)}

Put(writes, len, a) ==
  IF Covering(writes, len, a) = {} THEN 0
  ELSE LET w == writes[Max(Covering(writes, len, a))] IN w.what[a - w.to + 1]

(* The bytes of the last write over an address, by the lengths of the      *)
(* writes.                                                                 *)
LEMMA PutIsPutAt ==
  ASSUME NEW writes, NEW len, \A k \in DOMAIN writes : len[k] = Len(writes[k].what), NEW a
  PROVE  Put(writes, len, a) = PutAt(writes, a)
<1>1. Covering(writes, len, a)
      = {k \in DOMAIN writes : a - writes[k].to \in 0..(Len(writes[k].what) - 1)}
  BY DEF Covering
<1> QED
  BY <1>1 DEF Put, PutAt

(* Nothing written is nothing put.                                         *)
LEMMA PutNothing ==
  ASSUME NEW writes, NEW len, \A k \in DOMAIN writes : len[k] = 0, NEW a
  PROVE  Put(writes, len, a) = 0
<1>1. Covering(writes, len, a) = {}
  BY DEF Covering
<1> QED
  BY <1>1 DEF Put

(* The q-th write is the last one there has been.                          *)
Latest(writes, len, q) ==
  /\ DOMAIN writes \subseteq Nat /\ q \in DOMAIN writes
  /\ \A k \in DOMAIN writes : k > q => len[k] = 0

(* It counts where it covers.                                              *)
LEMMA PutTop ==
  ASSUME NEW writes, NEW len, NEW q, Latest(writes, len, q),
         NEW a, a - writes[q].to \in 0..(len[q] - 1)
  PROVE  Put(writes, len, a) = writes[q].what[a - writes[q].to + 1]
<1> DEFINE S == Covering(writes, len, a)
<1>1. q \in S /\ S \subseteq DOMAIN writes /\ DOMAIN writes \subseteq Nat /\ q \in Nat
  BY DEF Covering, Latest
<1>2. \A k \in S : k <= q
  <2> SUFFICES ASSUME NEW k \in DOMAIN writes, k > q, a - writes[k].to \in 0..(len[k] - 1)
               PROVE  FALSE
    BY <1>1 DEF Covering
  <2>1. len[k] = 0
    BY DEF Latest
  <2> QED
    BY <2>1
<1> HIDE DEF S
<1>3. Max(S) = q
  <2>1. \E x \in S : \A y \in S : x >= y
    BY <1>1, <1>2
  <2>2. Max(S) \in S /\ \A y \in S : Max(S) >= y
    BY <2>1 DEF Max
  <2>3. Max(S) \in Nat /\ Max(S) <= q /\ Max(S) >= q
    BY <1>1, <1>2, <2>2
  <2> QED
    BY <1>1, <2>3
<1> QED
  BY <1>1, <1>3 DEF Put, S

(* It goes on, and no other does.                                          *)
GoesOn(writes, len, len2, q) ==
  /\ Latest(writes, len, q) /\ \A k \in DOMAIN writes : k # q => len2[k] = len[k]
  /\ len[q] \in Nat /\ len2[q] \in Nat /\ len[q] <= len2[q]

(* What it adds is put over what was there; elsewhere nothing changes.     *)
LEMMA PutMore ==
  ASSUME NEW writes, NEW len, NEW len2, NEW q, GoesOn(writes, len, len2, q), NEW a
  PROVE  /\ Latest(writes, len2, q)
         /\ Put(writes, len2, a) = IF a - writes[q].to \in 0..(len2[q] - 1)
                                   THEN writes[q].what[a - writes[q].to + 1]
                                   ELSE Put(writes, len, a)
<1>0. /\ Latest(writes, len, q) /\ \A k \in DOMAIN writes : k # q => len2[k] = len[k]
      /\ len[q] \in Nat /\ len2[q] \in Nat /\ len[q] <= len2[q]
      /\ DOMAIN writes \subseteq Nat /\ q \in DOMAIN writes
  BY DEF GoesOn, Latest
<1>1. Latest(writes, len2, q)
  BY <1>0 DEF Latest
<1>2. CASE a - writes[q].to \in 0..(len2[q] - 1)
  BY <1>1, <1>2, PutTop
<1>3. CASE a - writes[q].to \notin 0..(len2[q] - 1)
  <2>1. a - writes[q].to \notin 0..(len[q] - 1)
    BY <1>0, <1>3
  <2>2. \A k \in DOMAIN writes :
          a - writes[k].to \in 0..(len2[k] - 1) <=> a - writes[k].to \in 0..(len[k] - 1)
    BY <1>0, <1>3, <2>1
  <2>3. Covering(writes, len2, a) = Covering(writes, len, a)
    BY <2>2 DEF Covering
  <2> QED
    BY <1>1, <1>3, <2>3 DEF Put
<1> QED
  BY <1>2, <1>3

-----------------------------------------------------------------------------
(* The types of the constructor's state, whatever the module.              *)
Typed(st) == \E S : st \in Seq(S) /\ \A x \in S : IsValue(x)

TypedGlobals(gs) == \E S : gs \in Seq(S) /\ \A g \in S : IsValue(g.value)

MemoryTyped == memory \in Seq(Nat) /\ Len(memory) = PageSize

(* Where the constructor is, and how many globals there are by then.       *)
PlaceInv ==
  /\ wasm \in Modules /\ list \in 1..5
  /\ i \in Nat \ {0} /\ pc \in Nat \ {0} /\ j \in Nat /\ offset \in Nat
  /\ list <= 4 => i <= Len(wasm[Lists[list]]) + 1 /\ status \in {"running", "aborted", "undefined"}
  /\ list = 5 => status # "running"
  /\ Len(globals) = CASE list < 4 -> 0 [] list = 4 -> i - 1 [] OTHER -> Len(wasm.globals)

(* Once functions run, memory holds what they write.                       *)
DataInv ==
  /\ Typed(stack) /\ TypedGlobals(globals)
  /\ function_table \in Seq(Nat)
  /\ Len(function_table) \in {0} \cup {Max({t.n, t.m}) : t \in Range(wasm.tables)}
  /\ status \in {"running", "constructed"} => MemoryTyped

TypeInv == PlaceInv /\ DataInv

(* The entries of the four lists.                                          *)
LEMMA Entries ==
  ASSUME PlaceInv
  PROVE  /\ In("tables") => list = 1
         /\ In("elems") => list = 2
         /\ In("data") => list = 3
         /\ In("globals") => list = 4
         /\ list = 1 => /\ wasm[Lists[list]] = wasm.tables /\ ThisEntry = wasm.tables[i]
                        /\ AtEntry <=> i \in DOMAIN wasm.tables
         /\ list = 2 => /\ wasm[Lists[list]] = wasm.elems /\ ThisEntry = wasm.elems[i]
                        /\ AtEntry <=> i \in DOMAIN wasm.elems
         /\ list = 3 => /\ wasm[Lists[list]] = wasm.data /\ ThisEntry = wasm.data[i]
                        /\ AtEntry <=> i \in DOMAIN wasm.data
         /\ list = 4 => /\ wasm[Lists[list]] = wasm.globals /\ ThisEntry = wasm.globals[i]
                        /\ AtEntry <=> i \in DOMAIN wasm.globals
<1>1. /\ list = 1 => Lists[list] = "tables"
      /\ list = 2 => Lists[list] = "elems"
      /\ list = 3 => Lists[list] = "data"
      /\ list = 4 => Lists[list] = "globals"
  BY DEF Lists
<1>2. /\ Len(wasm.tables) \in Nat /\ DOMAIN wasm.tables = 1..Len(wasm.tables)
      /\ Len(wasm.elems) \in Nat /\ DOMAIN wasm.elems = 1..Len(wasm.elems)
      /\ Len(wasm.data) \in Nat /\ DOMAIN wasm.data = 1..Len(wasm.data)
      /\ Len(wasm.globals) \in Nat /\ DOMAIN wasm.globals = 1..Len(wasm.globals)
  BY Segments DEF PlaceInv, Listed
<1>3. list \in {1, 2, 3, 4, 5} /\ i \in Nat \ {0}
  BY DEF PlaceInv
<1>4. /\ In("tables") => list = 1
      /\ In("elems") => list = 2
      /\ In("data") => list = 3
      /\ In("globals") => list = 4
  BY <1>1, <1>3 DEF In
<1>5. ASSUME list = 1
      PROVE  /\ wasm[Lists[list]] = wasm.tables /\ ThisEntry = wasm.tables[i]
             /\ AtEntry <=> i \in DOMAIN wasm.tables
  <2>1. wasm[Lists[list]] = wasm.tables
    BY <1>1, <1>5
  <2> QED
    BY <1>2, <1>3, <2>1 DEF AtEntry, ThisEntry
<1>6. ASSUME list = 2
      PROVE  /\ wasm[Lists[list]] = wasm.elems /\ ThisEntry = wasm.elems[i]
             /\ AtEntry <=> i \in DOMAIN wasm.elems
  <2>1. wasm[Lists[list]] = wasm.elems
    BY <1>1, <1>6
  <2> QED
    BY <1>2, <1>3, <2>1 DEF AtEntry, ThisEntry
<1>7. ASSUME list = 3
      PROVE  /\ wasm[Lists[list]] = wasm.data /\ ThisEntry = wasm.data[i]
             /\ AtEntry <=> i \in DOMAIN wasm.data
  <2>1. wasm[Lists[list]] = wasm.data
    BY <1>1, <1>7
  <2> QED
    BY <1>2, <1>3, <2>1 DEF AtEntry, ThisEntry
<1>8. ASSUME list = 4
      PROVE  /\ wasm[Lists[list]] = wasm.globals /\ ThisEntry = wasm.globals[i]
             /\ AtEntry <=> i \in DOMAIN wasm.globals
  <2>1. wasm[Lists[list]] = wasm.globals
    BY <1>1, <1>8
  <2> QED
    BY <1>2, <1>3, <2>1 DEF AtEntry, ThisEntry
<1> QED
  BY <1>4, <1>5, <1>6, <1>7, <1>8

(* The expression that is run.                                             *)
LEMMA RunningExpr ==
  ASSUME PlaceInv, HasExpr, AtEntry
  PROVE  /\ list \in 2..4 /\ status = "running"
         /\ Len(ThisEntry.expr) \in Nat /\ DOMAIN ThisEntry.expr = 1..Len(ThisEntry.expr)
         /\ \A x \in DOMAIN ThisEntry.expr :
              /\ ThisEntry.expr[x].op = "global.get" => ThisEntry.expr[x].v \in Nat
              /\ ThisEntry.expr[x].op = "const" => IsValue(ThisEntry.expr[x])
<1>1. list \in {2, 3, 4} /\ status = "running"
  BY Entries DEF HasExpr, In
<1>2. Listed(wasm.elems) /\ Listed(wasm.data) /\ Listed(wasm.globals)
  BY Segments DEF PlaceInv
<1>3. \/ ThisEntry = wasm.elems[i] /\ i \in DOMAIN wasm.elems
      \/ ThisEntry = wasm.data[i] /\ i \in DOMAIN wasm.data
      \/ ThisEntry = wasm.globals[i] /\ i \in DOMAIN wasm.globals
  BY <1>1, Entries
<1> QED
  BY <1>1, <1>2, <1>3 DEF Listed

(* The empty stack, and no globals.                                        *)
LEMMA TypedEmpty == Typed(<< >>) /\ TypedGlobals(<< >>)
<1>1. << >> \in Seq({})
  OBVIOUS
<1>2. ASSUME NEW T, << >> \in Seq(T), \A x \in T : IsValue(x) /\ IsValue(x.value)
      PROVE  Typed(<< >>) /\ TypedGlobals(<< >>)
  BY <1>2 DEF Typed, TypedGlobals
<1>3. \A x \in {} : IsValue(x) /\ IsValue(x.value)
  OBVIOUS
<1> QED
  BY <1>1, <1>2, <1>3

(* Pushing and popping.                                                    *)
LEMMA TypedPush ==
  ASSUME NEW st, Typed(st), NEW x, IsValue(x)
  PROVE  Typed(Append(st, x)) /\ Len(Append(st, x)) = Len(st) + 1
<1>1. PICK S : st \in Seq(S) /\ \A y \in S : IsValue(y)
  BY DEF Typed
<1>2. st \in Seq(S \cup {x})
  BY <1>1
<1>3. Append(st, x) \in Seq(S \cup {x}) /\ Len(Append(st, x)) = Len(st) + 1
  BY <1>2
<1>4. \A y \in S \cup {x} : IsValue(y)
  BY <1>1
<1> QED
  BY <1>3, <1>4 DEF Typed

(* The top of a typed stack is a value, and the rest is typed.             *)
LEMMA TypedTop ==
  ASSUME NEW st, Typed(st), st # << >>
  PROVE  IsValue(Last(st)) /\ Typed(Front(st))
<1>1. PICK S : st \in Seq(S) /\ \A y \in S : IsValue(y)
  BY DEF Typed
<1>2. Len(st) \in Nat \ {0} /\ Last(st) \in S
  BY <1>1 DEF Last
<1>3. Front(st) \in Seq(S)
  BY <1>1, <1>2 DEF Front
<1> QED
  BY <1>1, <1>2, <1>3 DEF Typed

(* So is every element.                                                    *)
LEMMA TypedElement ==
  ASSUME NEW st, Typed(st)
  PROVE  /\ Len(st) \in Nat /\ DOMAIN st = 1..Len(st)
         /\ \A k \in 1..Len(st) : IsValue(st[k])
<1>1. PICK S : st \in Seq(S) /\ \A y \in S : IsValue(y)
  BY DEF Typed
<1> QED
  BY <1>1

(* An add keeps a stack typed.                                             *)
LEMMA TypedSum ==
  ASSUME NEW st, Typed(st), Len(st) >= 2
  PROVE  Typed(Append(SubSeq(st, 1, Len(st) - 2),
                      [t |-> "I32", v |-> (st[Len(st) - 1].v + st[Len(st)].v) % Space]))
<1> DEFINE x == [t |-> "I32", v |-> (st[Len(st) - 1].v + st[Len(st)].v) % Space]
           rest == SubSeq(st, 1, Len(st) - 2)
<1>1. PICK S : st \in Seq(S) /\ \A y \in S : IsValue(y)
  BY DEF Typed
<1>2. rest \in Seq(S)
  BY <1>1
<1>3. Typed(rest)
  BY <1>1, <1>2 DEF Typed
<1>4. IsValue(x)
  <2>1. Space \in Nat \ {0}
    BY InstantiationAssumption
  <2>2. IsValue(st[Len(st) - 1]) /\ IsValue(st[Len(st)])
    <3>1. Len(st) - 1 \in 1..Len(st) /\ Len(st) \in 1..Len(st)
      BY <1>1
    <3> QED
      BY <3>1, TypedElement
  <2>3. st[Len(st) - 1].v + st[Len(st)].v \in Nat
    BY <2>2 DEF IsValue
  <2> QED
    BY <2>1, <2>3 DEF IsValue
<1> HIDE DEF x, rest
<1> QED
  BY <1>3, <1>4, TypedPush DEF x, rest

(* The steps.  A failed assert changes nothing but the status.             *)
LEMMA FailTypes ==
  ASSUME TypeInv, NEW how \in {"aborted", "undefined"}, Fail(how)
  PROVE  TypeInv'
<1>1. /\ status' = how
      /\ UNCHANGED <<wasm, memory, function_table, globals, stack, list, i, pc, offset, j>>
  BY DEF Fail
<1>2. status' \in {"aborted", "undefined"} /\ status' \notin {"running", "constructed"}
  BY <1>1
<1> QED
  BY <1>1, <1>2 DEF TypeInv, PlaceInv, DataInv

(* On to the next entry: one more global if it was one.                    *)
LEMMA NextEntryPlace ==
  ASSUME PlaceInv, AtEntry, status = "running", NextEntry,
         Len(globals') = IF list = 4 THEN Len(globals) + 1 ELSE Len(globals)
  PROVE  PlaceInv'
<1>1. i' = i + 1 /\ pc' = 1 /\ j' = 0 /\ UNCHANGED <<wasm, list, offset, status>>
  BY DEF NextEntry
<1>2. list \in 1..4
  BY DEF PlaceInv
<1>3. i <= Len(wasm[Lists[list]]) /\ i \in Nat \ {0}
  BY DEF AtEntry, PlaceInv
<1>4. Len(wasm[Lists[list]]) \in Nat
  <2>1. /\ Len(wasm.tables) \in Nat /\ Len(wasm.elems) \in Nat
        /\ Len(wasm.data) \in Nat /\ Len(wasm.globals) \in Nat
    BY Segments DEF PlaceInv, Listed
  <2> QED
    BY <1>2, <2>1, Entries
<1>5. i' \in Nat \ {0} /\ i' <= Len(wasm[Lists[list]]) + 1
  BY <1>1, <1>3, <1>4
<1>6. Len(globals') = CASE list' < 4 -> 0 [] list' = 4 -> i' - 1 [] OTHER -> Len(wasm.globals)
  BY <1>1, <1>2, <1>3 DEF PlaceInv
<1> QED
  BY <1>1, <1>2, <1>5, <1>6 DEF PlaceInv

(* A step that pushes.                                                     *)
LEMMA PushTypes ==
  ASSUME TypeInv, Running, NEW st, Typed(st), Push(st)
  PROVE  TypeInv'
<1>1. /\ stack' = st /\ pc' = pc + 1
      /\ UNCHANGED <<wasm, memory, function_table, globals, list, i, offset, j, status>>
  BY DEF Push
<1>2. PlaceInv'
  BY <1>1 DEF TypeInv, PlaceInv
<1>3. DataInv'
  BY <1>1 DEF TypeInv, DataInv, MemoryTyped
<1> QED
  BY <1>2, <1>3 DEF TypeInv

(* The instructions of an expression.                                      *)
LEMMA InstructionTypes ==
  ASSUME TypeInv, Const \/ GlobalGet \/ Add
  PROVE  TypeInv'
<1>1. Running
  BY DEF Const, GlobalGet, Add
<1>2. /\ Instruction.op = "global.get" => Instruction.v \in Nat
      /\ Instruction.op = "const" => IsValue(Instruction)
  <2>1. HasExpr /\ AtEntry /\ pc <= Len(ThisEntry.expr) /\ pc \in Nat \ {0}
    BY <1>1 DEF Running, TypeInv, PlaceInv
  <2>2. pc \in DOMAIN ThisEntry.expr
    BY <2>1, RunningExpr DEF TypeInv
  <2> QED
    BY <2>1, <2>2, RunningExpr DEF TypeInv, Instruction
<1>3. Typed(stack)
  BY DEF TypeInv, DataInv
<1>4. CASE Const
  <2> DEFINE x == [t |-> Instruction.t, v |-> Instruction.v]
  <2>1. IsValue(x)
    BY <1>2, <1>4 DEF Const, IsValue
  <2>2. Push(Append(stack, x))
    BY <1>4 DEF Const
  <2> HIDE DEF x
  <2>3. Typed(Append(stack, x))
    BY <1>3, <2>1, TypedPush
  <2> QED
    BY <1>1, <2>2, <2>3, PushTypes
<1>5. CASE GlobalGet /\ IsGlobal(Instruction.v)
  <2>1. Push(Append(stack, globals[Instruction.v + 1].value))
    BY <1>5 DEF GlobalGet
  <2>2. IsValue(globals[Instruction.v + 1].value)
    <3>1. Instruction.v \in Nat /\ Instruction.v < Len(globals)
      BY <1>2, <1>5 DEF GlobalGet, IsGlobal
    <3>2. PICK S : globals \in Seq(S) /\ \A g \in S : IsValue(g.value)
      BY DEF TypeInv, DataInv, TypedGlobals
    <3>3. globals[Instruction.v + 1] \in S
      BY <3>1, <3>2
    <3> QED
      BY <3>2, <3>3
  <2>3. Typed(Append(stack, globals[Instruction.v + 1].value))
    BY <1>3, <2>2, TypedPush
  <2> QED
    BY <1>1, <2>1, <2>3, PushTypes
<1>6. CASE GlobalGet /\ ~IsGlobal(Instruction.v)
  BY <1>6, FailTypes DEF GlobalGet
<1>7. CASE Add /\ Len(stack) < 2
  BY <1>7, FailTypes DEF Add
<1>8. CASE Add /\ ~(Len(stack) < 2)
  <2> DEFINE n == Len(stack)
             st == Append(SubSeq(stack, 1, n - 2),
                          [t |-> "I32", v |-> (stack[n - 1].v + stack[n].v) % Space])
  <2>1. Push(st)
    BY <1>8 DEF Add
  <2>2. Typed(st)
    <3>1. Len(stack) >= 2
      BY <1>3, <1>8, TypedElement
    <3> QED
      BY <1>3, <3>1, TypedSum
  <2> HIDE DEF st
  <2> QED
    BY <1>1, <2>1, <2>2, PushTypes
<1> QED
  BY <1>4, <1>5, <1>6, <1>7, <1>8

(* The table is made and filled.                                           *)
LEMMA TableTypes ==
  ASSUME TypeInv, ReserveTable \/ TakeOffset \/ PlaceEntry \/ EndElement
  PROVE  TypeInv'
<1>0. /\ PlaceInv /\ Typed(stack) /\ function_table \in Seq(Nat)
  BY DEF TypeInv, DataInv
<1>1. AtEntry /\ status = "running" /\ list \in {1, 2}
  BY <1>0, Entries DEF ReserveTable, TakeOffset, PlaceEntry, EndElement, Evaluated, In
<1>2. CASE ReserveTable /\ ThisEntry.ref # "funcref"
  BY <1>2, FailTypes DEF ReserveTable
<1>3. CASE ReserveTable /\ ThisEntry.ref = "funcref"
  <2> DEFINE n == Max({ThisEntry.n, ThisEntry.m})
  <2>1. /\ function_table' = Resized(function_table, n)
        /\ NextEntry /\ UNCHANGED <<memory, globals, stack>>
    BY <1>3 DEF ReserveTable
  <2>2. list = 1 /\ ThisEntry = wasm.tables[i] /\ i \in DOMAIN wasm.tables
    BY <1>0, <1>1, <1>3, Entries DEF ReserveTable
  <2>3. {ThisEntry.n, ThisEntry.m} \subseteq 0..(Space - 1) /\ Space \in Nat
    BY <1>0, <2>2, Segments, InstantiationAssumption DEF PlaceInv
  <2>4. n \in Nat
    <3>1. \E x \in {ThisEntry.n, ThisEntry.m} : \A y \in {ThisEntry.n, ThisEntry.m} : x >= y
      BY <2>3
    <3>2. n \in {ThisEntry.n, ThisEntry.m}
      BY <3>1 DEF Max
    <3> QED
      BY <2>3, <3>2
  <2>5. n \in {Max({t.n, t.m}) : t \in Range(wasm.tables)}
    <3>1. ThisEntry \in Range(wasm.tables)
      BY <2>2 DEF Range
    <3> QED
      BY <3>1
  <2> HIDE DEF n
  <2>6. function_table' \in Seq(Nat) /\ Len(function_table') = n
    <3>1. \A k \in 1..n : (IF k <= Len(function_table) THEN function_table[k] ELSE 0) \in Nat
      BY <1>0, <2>4
    <3>2. function_table' = [k \in 1..n |-> IF k <= Len(function_table)
                                            THEN function_table[k] ELSE 0]
      BY <2>1 DEF Resized
    <3> QED
      BY <2>4, <3>1, <3>2
  <2>7. PlaceInv'
    <3>1. Len(globals') = IF list = 4 THEN Len(globals) + 1 ELSE Len(globals)
      BY <2>1, <2>2
    <3> QED
      BY <1>0, <1>1, <2>1, <3>1, NextEntryPlace
  <2>8. DataInv'
    <3>1. UNCHANGED <<wasm, status, memory, globals, stack>>
      BY <2>1 DEF NextEntry
    <3> QED
      BY <2>5, <2>6, <3>1 DEF TypeInv, DataInv, MemoryTyped
  <2> QED
    BY <2>7, <2>8 DEF TypeInv
<1>4. CASE TakeOffset
  <2>1. /\ stack # << >> /\ offset' = Last(stack).v /\ stack' = Front(stack) /\ j' = 1
        /\ UNCHANGED <<wasm, memory, function_table, globals, list, i, pc, status>>
    BY <1>4 DEF TakeOffset, OffsetOk, Popped
  <2>2. IsValue(Last(stack)) /\ Typed(Front(stack))
    BY <1>0, <2>1, TypedTop
  <2>3. PlaceInv'
    BY <2>1, <2>2 DEF TypeInv, PlaceInv, IsValue
  <2>4. DataInv'
    BY <2>1, <2>2 DEF TypeInv, DataInv, MemoryTyped
  <2> QED
    BY <2>3, <2>4 DEF TypeInv
<1>5. CASE PlaceEntry /\ EntryIndex(offset, j) >= Len(function_table)
  BY <1>5, FailTypes DEF PlaceEntry
<1>6. CASE PlaceEntry /\ ~(EntryIndex(offset, j) >= Len(function_table))
  <2>1. /\ function_table' = [function_table EXCEPT ![EntryIndex(offset, j) + 1] = ThisEntry.funcs[j]]
        /\ j \in 1..Len(ThisEntry.funcs) /\ j' = j + 1
        /\ UNCHANGED <<wasm, memory, globals, stack, list, i, pc, offset, status>>
    BY <1>6 DEF PlaceEntry
  <2>2. ThisEntry.funcs[j] \in Nat
    <3>1. list = 2 /\ ThisEntry = wasm.elems[i] /\ i \in DOMAIN wasm.elems
      BY <1>0, <1>1, <1>6, Entries DEF PlaceEntry
    <3>2. ThisEntry.funcs \in Seq(Nat)
      BY <1>0, <3>1, Segments DEF PlaceInv
    <3> QED
      BY <2>1, <3>2
  <2>3. function_table' \in Seq(Nat) /\ Len(function_table') = Len(function_table)
    <3>1. function_table \in [1..Len(function_table) -> Nat] /\ Len(function_table) \in Nat
      BY <1>0
    <3>2. function_table' \in [1..Len(function_table) -> Nat]
      BY <2>1, <2>2, <3>1
    <3> QED
      BY <3>1, <3>2
  <2>4. PlaceInv'
    BY <2>1 DEF TypeInv, PlaceInv
  <2>5. DataInv'
    BY <2>1, <2>3 DEF TypeInv, DataInv, MemoryTyped
  <2> QED
    BY <2>4, <2>5 DEF TypeInv
<1>7. CASE EndElement
  <2>1. NextEntry /\ UNCHANGED <<memory, function_table, globals, stack>> /\ list = 2
    BY <1>0, <1>7, Entries DEF EndElement
  <2>2. PlaceInv'
    <3>1. Len(globals') = IF list = 4 THEN Len(globals) + 1 ELSE Len(globals)
      BY <2>1
    <3> QED
      BY <1>0, <1>1, <2>1, <3>1, NextEntryPlace
  <2>3. DataInv'
    <3>1. UNCHANGED <<wasm, status>>
      BY <2>1 DEF NextEntry
    <3> QED
      BY <2>1, <3>1 DEF TypeInv, DataInv, MemoryTyped
  <2> QED
    BY <2>2, <2>3 DEF TypeInv
<1> QED
  BY <1>2, <1>3, <1>4, <1>5, <1>6, <1>7

(* The memory is filled, and the globals are set.                          *)
LEMMA DataTypes ==
  ASSUME TypeInv, CopyData
  PROVE  TypeInv'
<1> DEFINE o == Last(stack).v
           outside == o >= Len(memory) \/ o + Len(ThisEntry.bytes) > Len(memory)
<1>0. PlaceInv /\ Typed(stack)
  BY DEF TypeInv, DataInv
<1>1. /\ AtEntry /\ status = "running" /\ stack # << >>
      /\ list = 3 /\ ThisEntry = wasm.data[i] /\ i \in DOMAIN wasm.data
  BY <1>0, Entries DEF CopyData, Evaluated, In, OffsetOk
<1>2. CASE outside
  BY <1>2, FailTypes DEF CopyData
<1>3. CASE ~outside
  <2>1. /\ memory' = Overwritten(o, ThisEntry.bytes) /\ stack' = Front(stack) /\ NextEntry
        /\ UNCHANGED <<function_table, globals>>
    BY <1>3 DEF CopyData, Popped
  <2>2. memory \in Seq(Nat) /\ Len(memory) = PageSize
    BY <1>1 DEF TypeInv, DataInv, MemoryTyped
  <2>3. ThisEntry.bytes \in Seq(Nat)
    BY <1>0, <1>1, Segments DEF PlaceInv
  <2>4. MemoryTyped'
    <3> DEFINE new(a) == IF a - o \in DOMAIN ThisEntry.bytes THEN ThisEntry.bytes[a - o]
                         ELSE memory[a]
    <3>1. \A a \in DOMAIN memory : new(a) \in Nat
      BY <2>2, <2>3
    <3>2. memory' = [a \in 1..Len(memory) |-> new(a)]
      BY <2>1, <2>2 DEF Overwritten
    <3> HIDE DEF new
    <3>3. memory' \in [1..Len(memory) -> Nat] /\ Len(memory) \in Nat
      BY <2>2, <3>1, <3>2
    <3>4. memory' \in Seq(Nat) /\ Len(memory') = Len(memory)
      BY <3>3
    <3> QED
      BY <2>2, <3>4 DEF MemoryTyped
  <2>5. PlaceInv'
    <3>1. Len(globals') = IF list = 4 THEN Len(globals) + 1 ELSE Len(globals)
      BY <1>1, <2>1
    <3> QED
      BY <1>0, <1>1, <2>1, <3>1, NextEntryPlace
  <2>6. DataInv'
    <3>1. UNCHANGED <<wasm, status>> /\ Typed(Front(stack))
      BY <1>0, <1>1, <2>1, TypedTop DEF NextEntry
    <3> QED
      BY <2>1, <2>4, <3>1 DEF TypeInv, DataInv
  <2> QED
    BY <2>5, <2>6 DEF TypeInv
<1> QED
  BY <1>2, <1>3

(* Storing a global keeps the types.                                       *)
LEMMA GlobalTypes ==
  ASSUME TypeInv, TakeGlobal
  PROVE  TypeInv'
<1>0. PlaceInv /\ Typed(stack)
  BY DEF TypeInv, DataInv
<1>1. AtEntry /\ status = "running" /\ list = 4
  BY <1>0, Entries DEF TakeGlobal, Evaluated, In
<1>2. CASE stack = << >>
  BY <1>2, FailTypes DEF TakeGlobal
<1>3. CASE stack # << >>
  <2> DEFINE g == [mut |-> ThisEntry.mut, value |-> Last(stack)]
  <2>1. /\ globals' = Append(globals, g) /\ stack' = Front(stack) /\ NextEntry
        /\ UNCHANGED <<memory, function_table>>
    BY <1>3 DEF TakeGlobal, Popped, PushBack
  <2>2. IsValue(g.value) /\ Typed(Front(stack))
    BY <1>0, <1>3, TypedTop
  <2> HIDE DEF g
  <2>3. PICK S : globals \in Seq(S) /\ \A x \in S : IsValue(x.value)
    BY DEF TypeInv, DataInv, TypedGlobals
  <2>4. globals \in Seq(S \cup {g})
    BY <2>3
  <2>5. globals' \in Seq(S \cup {g}) /\ Len(globals') = Len(globals) + 1
    BY <2>1, <2>4
  <2>6. TypedGlobals(globals')
    <3>1. \A x \in S \cup {g} : IsValue(x.value)
      BY <2>2, <2>3
    <3> QED
      BY <2>5, <3>1 DEF TypedGlobals
  <2>7. PlaceInv'
    BY <1>0, <1>1, <2>1, <2>5, NextEntryPlace
  <2>8. DataInv'
    <3>1. UNCHANGED <<wasm, status>>
      BY <2>1 DEF NextEntry
    <3> QED
      BY <2>1, <2>2, <2>6, <3>1 DEF TypeInv, DataInv, MemoryTyped
  <2> QED
    BY <2>7, <2>8 DEF TypeInv
<1> QED
  BY <1>2, <1>3

(* From list to list.                                                      *)
LEMMA NextListTypes ==
  ASSUME TypeInv, NextList
  PROVE  TypeInv'
<1>1. /\ list \in 1..4 /\ ~AtEntry /\ list' = list + 1 /\ i' = 1
      /\ status' = IF list = 4 THEN "constructed" ELSE "running"
      /\ status = "running"
      /\ UNCHANGED <<wasm, memory, function_table, globals, stack, pc, offset, j>>
  BY DEF TypeInv, PlaceInv, NextList
<1>2. /\ wasm \in Modules /\ i \in Nat \ {0} /\ i <= Len(wasm[Lists[list]]) + 1
      /\ ~(i <= Len(wasm[Lists[list]]))
  BY <1>1 DEF TypeInv, PlaceInv, AtEntry
<1>3. /\ Len(wasm.tables) \in Nat /\ Len(wasm.elems) \in Nat
      /\ Len(wasm.data) \in Nat /\ Len(wasm.globals) \in Nat
  BY <1>2, Segments DEF Listed
<1>4. list' <= 4 => 1 <= Len(wasm[Lists[list']]) + 1
  <2>1. list' <= 4 => \/ wasm[Lists[list']] = wasm.elems
                      \/ wasm[Lists[list']] = wasm.data
                      \/ wasm[Lists[list']] = wasm.globals
    BY <1>1 DEF Lists
  <2> QED
    BY <1>3, <2>1
<1>5. Len(globals) = CASE list' < 4 -> 0 [] list' = 4 -> 0 [] OTHER -> Len(wasm.globals)
  <2>1. Len(globals) = CASE list < 4 -> 0 [] list = 4 -> i - 1 [] OTHER -> Len(wasm.globals)
    BY DEF TypeInv, PlaceInv
  <2>2. CASE list = 4
    <3>1. i <= Len(wasm.globals) + 1 /\ ~(i <= Len(wasm.globals))
      BY <1>2, <2>2, Entries DEF TypeInv
    <3> QED
      BY <1>1, <1>2, <1>3, <2>1, <2>2, <3>1
  <2>3. CASE list # 4
    BY <1>1, <2>1, <2>3
  <2> QED
    BY <2>2, <2>3
<1>6. PlaceInv'
  BY <1>1, <1>2, <1>4, <1>5 DEF TypeInv, PlaceInv
<1>7. DataInv'
  BY <1>1 DEF TypeInv, DataInv, MemoryTyped
<1> QED
  BY <1>6, <1>7 DEF TypeInv

(* A step of the constructor.                                              *)
LEMMA ConstructorTypes ==
  ASSUME TypeInv, Next
  PROVE  TypeInv'
<1>1. CASE NextList
  BY <1>1, NextListTypes
<1>2. CASE EmptyExpr \/ BadOffset
  BY <1>2, FailTypes DEF EmptyExpr, BadOffset
<1>3. CASE Const \/ GlobalGet \/ Add
  BY <1>3, InstructionTypes
<1>4. CASE ReserveTable \/ TakeOffset \/ PlaceEntry \/ EndElement
  BY <1>4, TableTypes
<1>5. CASE CopyData
  BY <1>5, DataTypes
<1>6. CASE TakeGlobal
  BY <1>6, GlobalTypes
<1> QED
  BY <1>1, <1>2, <1>3, <1>4, <1>5, <1>6 DEF Next

(* A step of fd_write comes after the last list.                           *)
LEMMA CallTypes ==
  ASSUME TypeInv, CallImport \/ WriteChunk \/ ReturnSuccess
  PROVE  TypeInv' /\ list = 5
<1>0. status \in {"constructed", "returned", "calling"}
  BY DEF CallImport, WriteChunk, ReturnSuccess
<1>1. list = 5
  BY <1>0 DEF TypeInv, PlaceInv
<1>2. ASSUME NEW how \in {"aborted", "undefined"}, EndCall(how) PROVE TypeInv'
  BY <1>2, FailTypes DEF EndCall
<1>3. ASSUME NEW st, Typed(st), stack' = st, status' \in {"calling", "returned"},
             UNCHANGED <<wasm, function_table, globals, list, i, pc, offset, j>>
      PROVE  TypeInv'
  <2>1. status' \notin {"running", "constructed"}
    BY <1>3
  <2>2. PlaceInv'
    BY <1>1, <1>3, <2>1 DEF TypeInv, PlaceInv
  <2>3. DataInv'
    BY <1>3, <2>1 DEF TypeInv, DataInv
  <2> QED
    BY <2>2, <2>3 DEF TypeInv
<1>4. Typed(stack) /\ Typed(<< >>)
  BY TypedEmpty DEF TypeInv, DataInv
<1>5. CASE CallImport
  <2>1. /\ stack' = << >> /\ status' = "calling"
        /\ UNCHANGED <<wasm, function_table, globals, list, i, pc, offset, j>>
    BY <1>5 DEF CallImport
  <2> QED
    BY <1>1, <1>3, <1>4, <2>1
<1>6. CASE WriteChunk
  <2>1. \/ \E how \in {"aborted", "undefined"} : EndCall(how)
        \/ UNCHANGED vars
    BY <1>6 DEF WriteChunk
  <2>2. status = "calling"
    BY <1>6 DEF WriteChunk
  <2>3. ASSUME UNCHANGED vars PROVE TypeInv'
    <3>1. /\ stack' = stack /\ status' = "calling"
          /\ UNCHANGED <<wasm, function_table, globals, list, i, pc, offset, j>>
      BY <2>2, <2>3 DEF vars
    <3> QED
      BY <1>3, <1>4, <3>1
  <2> QED
    BY <1>1, <1>2, <2>1, <2>3
<1>7. CASE ReturnSuccess
  <2> DEFINE x == [t |-> "I32", v |-> 0]
  <2>1. \/ \E how \in {"aborted", "undefined"} : EndCall(how)
        \/ /\ stack' = Append(stack, x) /\ status' = "returned"
           /\ UNCHANGED <<wasm, function_table, globals, list, i, pc, offset, j>>
    BY <1>7 DEF ReturnSuccess
  <2>2. IsValue(x)
    BY InstantiationAssumption DEF IsValue
  <2> HIDE DEF x
  <2>3. Typed(Append(stack, x))
    BY <1>4, <2>2, TypedPush
  <2> QED
    BY <1>1, <1>2, <1>3, <2>1, <2>3
<1> QED
  BY <1>5, <1>6, <1>7

(* Initially memory is zeros, and nothing else is there.                   *)
LEMMA InitTypes == Init => TypeInv /\ MemoryTyped
<1> SUFFICES ASSUME Init PROVE TypeInv /\ MemoryTyped
  OBVIOUS
<1>1. /\ wasm \in Modules /\ memory = [a \in 1..PageSize |-> 0]
      /\ function_table = << >> /\ globals = << >> /\ stack = << >>
      /\ list = 1 /\ i = 1 /\ pc = 1 /\ offset = 0 /\ j = 0 /\ status = "running"
  BY DEF Init
<1>2. PageSize \in Nat
  BY InstantiationAssumption
<1>3. MemoryTyped
  BY <1>1, <1>2 DEF MemoryTyped
<1>5. DataInv
  BY <1>1, <1>3, TypedEmpty DEF DataInv
<1>6. PlaceInv
  <2>1. Len(wasm.tables) \in Nat /\ wasm[Lists[1]] = wasm.tables
    BY <1>1, Segments DEF Lists
  <2> QED
    BY <1>1, <2>1 DEF PlaceInv
<1> QED
  BY <1>3, <1>5, <1>6 DEF TypeInv

-----------------------------------------------------------------------------
(* What the constructor has built so far, of a valid module.               *)
HasEntry == list \in 2..4 /\ AtEntry

ThisType == IF list = 4 THEN ThisEntry.t ELSE "I32"

(* The stack is that of the expression that is run, and empty otherwise.   *)
StackInv ==
  /\ status = "running" =>
       IF HasEntry /\ j = 0 THEN stack = StackAt(ThisEntry.expr, ThisType, pc, globals)
       ELSE stack = << >> /\ (~HasEntry => pc = 1 /\ j = 0)
  /\ j # 0 => list = 2 /\ AtEntry /\ offset = TableWrites(wasm)[i].to
  /\ status = "constructed" => stack = << >>

(* The globals are those of the first expressions.                         *)
GlobalsInv ==
  \A k \in 1..Len(globals) :
    globals[k] = [mut |-> wasm.globals[k].mut,
                  value |-> Operand(wasm.globals[k].t, ValueOf(wasm.globals[k].expr, globals))]

(* How many functions and bytes of each segment have been written.         *)
ElemsDone ==
  [k \in DOMAIN wasm.elems |->
     IF list > 2 \/ (list = 2 /\ k < i) THEN Len(wasm.elems[k].funcs)
     ELSE IF list = 2 /\ k = i /\ j # 0 THEN j - 1 ELSE 0]

DataDone ==
  [k \in DOMAIN wasm.data |->
     IF list > 3 \/ (list = 3 /\ k < i) THEN Len(wasm.data[k].bytes) ELSE 0]

(* The last function written lies in the table.                            *)
TableInv ==
  /\ \A a \in 1..Len(function_table) :
       function_table[a] = Put(TableWrites(wasm), ElemsDone, a - 1)
  /\ j >= 2 => offset + j - 2 < Len(function_table)

MemoryInv ==
  status \in {"running", "constructed"} =>
    \A a \in 1..PageSize : memory[a] = Put(MemoryWrites(wasm), DataDone, a - 1)

(* The table has room for its minimum, and what fits goes through.         *)
RoomInv ==
  /\ Len(wasm.tables) = 1 /\ (list >= 2 \/ i >= 2) => Len(function_table) >= wasm.tables[1].n
  /\ FitsOnePage(wasm) /\ list <= 4 => status = "running"

Built == StackInv /\ GlobalsInv /\ TableInv /\ MemoryInv /\ RoomInv

BuildInv == ValidModule(wasm) => Built

(* The expression at hand is valid, of the type it is taken for.           *)
LEMMA ThisValid ==
  ASSUME TypeInv, ValidModule(wasm), HasEntry
  PROVE  /\ ValidExpr(wasm, ThisEntry.expr, ThisType, Len(globals))
         /\ Len(ThisEntry.expr) \in Nat /\ DOMAIN ThisEntry.expr = 1..Len(ThisEntry.expr)
         /\ \A x \in DOMAIN ThisEntry.expr :
              /\ ThisEntry.expr[x].op = "global.get" => ThisEntry.expr[x].v \in Nat
              /\ ThisEntry.expr[x].op = "const" => IsValue(ThisEntry.expr[x])
<1>1. /\ PlaceInv /\ AtEntry /\ list \in {2, 3, 4} /\ i \in Nat \ {0} /\ wasm \in Modules
      /\ Len(globals) = CASE list < 4 -> 0 [] list = 4 -> i - 1 [] OTHER -> Len(wasm.globals)
  BY DEF TypeInv, PlaceInv, HasEntry
<1>2. Listed(wasm.elems) /\ Listed(wasm.data) /\ Listed(wasm.globals)
  BY <1>1, Segments
<1>3. CASE list = 2
  <2>1. ThisEntry = wasm.elems[i] /\ i \in DOMAIN wasm.elems /\ Len(globals) = 0 /\ ThisType = "I32"
    BY <1>1, <1>3, Entries DEF ThisType
  <2> QED
    BY <1>2, <2>1 DEF Listed, ValidModule
<1>4. CASE list = 3
  <2>1. ThisEntry = wasm.data[i] /\ i \in DOMAIN wasm.data /\ Len(globals) = 0 /\ ThisType = "I32"
    BY <1>1, <1>4, Entries DEF ThisType
  <2> QED
    BY <1>2, <2>1 DEF Listed, ValidModule
<1>5. CASE list = 4
  <2>1. /\ ThisEntry = wasm.globals[i] /\ i \in DOMAIN wasm.globals /\ Len(globals) = i - 1
        /\ ThisType = wasm.globals[i].t
    BY <1>1, <1>5, Entries DEF ThisType
  <2> QED
    BY <1>2, <2>1 DEF Listed, ValidModule
<1> QED
  BY <1>1, <1>3, <1>4, <1>5

(* An instruction of a valid expression never fails.                       *)
LEMMA InstructionRuns ==
  ASSUME TypeInv, ValidModule(wasm), Built, Const \/ GlobalGet \/ Add
  PROVE  /\ HasEntry /\ j = 0 /\ status = "running"
         /\ Push(StackAt(ThisEntry.expr, ThisType, pc + 1, globals))
<1> DEFINE e == ThisEntry.expr
           t == ThisType
<1>1. /\ HasEntry /\ j = 0 /\ status = "running" /\ pc \in 1..Len(e) /\ Instruction = e[pc]
  <2>1. Running /\ pc \in Nat \ {0} /\ PlaceInv
    BY DEF Const, GlobalGet, Add, TypeInv, PlaceInv
  <2>2. HasExpr /\ AtEntry /\ j = 0 /\ pc <= Len(e)
    BY <2>1 DEF Running
  <2>3. list \in 2..4 /\ status = "running" /\ Len(e) \in Nat
    BY <2>1, <2>2, RunningExpr
  <2> QED
    BY <2>1, <2>2, <2>3 DEF HasEntry, Instruction
<1>2. stack = StackAt(e, t, pc, globals)
  BY <1>1 DEF Built, StackInv
<1>3. /\ ValidExpr(wasm, e, t, Len(globals))
      /\ \A x \in DOMAIN e : e[x].op = "global.get" => e[x].v \in Nat
      /\ DOMAIN e = 1..Len(e)
  BY <1>1, ThisValid
<1> HIDE DEF e, t
<1>4. e[pc].op # "add" =>
        /\ LeafOk(wasm, e[pc], t, Len(globals))
        /\ Append(stack, Operand(t, Leaf(e[pc], globals))) = StackAt(e, t, pc + 1, globals)
  BY <1>1, <1>2, <1>3, LeafPushes
<1>5. CASE Const
  <2>1. e[pc].op = "const" /\ Push(Append(stack, [t |-> e[pc].t, v |-> e[pc].v]))
    BY <1>1, <1>5 DEF Const
  <2>2. e[pc].t = t /\ Leaf(e[pc], globals) = e[pc].v
    BY <1>4, <2>1 DEF LeafOk, Leaf
  <2>3. [t |-> e[pc].t, v |-> e[pc].v] = Operand(t, Leaf(e[pc], globals))
    BY <2>2 DEF Operand
  <2> QED
    BY <1>1, <1>4, <2>1, <2>3 DEF e, t
<1>6. CASE GlobalGet
  <2>1. e[pc].op = "global.get" /\ e[pc].op # "add" /\ e[pc].op # "const"
    BY <1>1, <1>6 DEF GlobalGet
  <2> DEFINE v == e[pc].v
  <2>2. v \in Nat /\ v < Len(globals) /\ wasm.globals[v + 1].t = t
    BY <1>1, <1>3, <1>4, <2>1 DEF LeafOk
  <2>3. Push(Append(stack, globals[v + 1].value))
    BY <1>1, <1>6, <2>2 DEF GlobalGet, IsGlobal
  <2>4. globals[v + 1].value = Operand(t, globals[v + 1].value.v)
    <3>1. Len(globals) \in Nat
      BY DEF TypeInv, DataInv, TypedGlobals
    <3>2. v + 1 \in 1..Len(globals)
      BY <2>2, <3>1
    <3> HIDE DEF v
    <3>3. globals[v + 1] =
            [mut |-> wasm.globals[v + 1].mut,
             value |-> Operand(wasm.globals[v + 1].t,
                               ValueOf(wasm.globals[v + 1].expr, globals))]
      BY <3>2 DEF Built, GlobalsInv
    <3>4. globals[v + 1].value = Operand(t, ValueOf(wasm.globals[v + 1].expr, globals))
      BY <2>2, <3>3
    <3>5. globals[v + 1].value.v = ValueOf(wasm.globals[v + 1].expr, globals)
      BY <3>4 DEF Operand
    <3> QED
      BY <3>4, <3>5
  <2>5. Leaf(e[pc], globals) = globals[v + 1].value.v
    BY <2>1 DEF Leaf
  <2> QED
    BY <1>1, <1>4, <2>1, <2>3, <2>4, <2>5 DEF e, t
<1>7. CASE Add
  <2>1. e[pc].op = "add"
    BY <1>1, <1>7 DEF Add
  <2>2. /\ Len(stack) = 2
        /\ Append(SubSeq(stack, 1, Len(stack) - 2),
                  Operand("I32", (stack[Len(stack) - 1].v + stack[Len(stack)].v) % Space))
           = StackAt(e, t, pc + 1, globals)
    BY <1>1, <1>2, <1>3, <2>1, AddAdds
  <2>3. Push(Append(SubSeq(stack, 1, Len(stack) - 2),
                    Operand("I32", (stack[Len(stack) - 1].v + stack[Len(stack)].v) % Space)))
    BY <1>7, <2>2 DEF Add, Operand
  <2> QED
    BY <1>1, <2>2, <2>3 DEF e, t
<1> QED
  BY <1>5, <1>6, <1>7

(* When its expression has been run, the stack holds the value of it.      *)
LEMMA Finished ==
  ASSUME TypeInv, ValidModule(wasm), Built,
         Evaluated("elems") \/ Evaluated("data") \/ Evaluated("globals")
  PROVE  /\ HasEntry /\ status = "running" /\ j = 0
         /\ stack # << >> /\ Front(stack) = << >>
         /\ Last(stack) = Operand(ThisType, ValueOf(ThisEntry.expr, globals))
<1> DEFINE e == ThisEntry.expr
           x == Operand(ThisType, ValueOf(e, globals))
<1>1. HasEntry /\ status = "running" /\ j = 0 /\ pc = Len(e) + 1
  <2>1. PlaceInv
    BY DEF TypeInv
  <2> QED
    BY <2>1, Entries DEF Evaluated, HasEntry, In
<1>2. stack = StackAt(e, ThisType, Len(e) + 1, globals)
  BY <1>1 DEF Built, StackInv
<1>3. stack = <<x>>
  <2>1. ValidExpr(wasm, e, ThisType, Len(globals))
    BY <1>1, ThisValid
  <2> HIDE DEF e
  <2> QED
    BY <1>2, <2>1, EndStack
<1> HIDE DEF x
<1>4. <<x>> # << >> /\ Last(<<x>>) = x /\ Front(<<x>>) = << >>
  BY DEF Last, Front
<1> QED
  BY <1>1, <1>3, <1>4 DEF x

-----------------------------------------------------------------------------
(* What a step leaves alone.                                               *)
LEMMA SameDone ==
  ASSUME UNCHANGED <<wasm, list>>, list = 2 => UNCHANGED <<i, j>>, list = 3 => i' = i
  PROVE  ElemsDone' = ElemsDone /\ DataDone' = DataDone
BY DEF ElemsDone, DataDone

LEMMA SameTable ==
  ASSUME TableInv, UNCHANGED <<wasm, function_table>>, ElemsDone' = ElemsDone,
         j' >= 2 => offset' + j' - 2 < Len(function_table)
  PROVE  TableInv'
<1>1. TableWrites(wasm)' = TableWrites(wasm)
  BY DEF TableWrites
<1> QED
  BY <1>1 DEF TableInv

LEMMA SameMemory ==
  ASSUME MemoryInv, UNCHANGED <<wasm, memory>>, DataDone' = DataDone,
         status' \in {"running", "constructed"} => status \in {"running", "constructed"}
  PROVE  MemoryInv'
<1>1. MemoryWrites(wasm)' = MemoryWrites(wasm)
  BY DEF MemoryWrites
<1> QED
  BY <1>1 DEF MemoryInv

LEMMA SameGlobals ==
  ASSUME GlobalsInv, UNCHANGED <<wasm, globals>>
  PROVE  GlobalsInv'
BY DEF GlobalsInv

LEMMA SameRoom ==
  ASSUME RoomInv, UNCHANGED <<wasm, function_table>>,
         Len(wasm.tables) = 1 /\ (list' >= 2 \/ i' >= 2) => list >= 2 \/ i >= 2,
         FitsOnePage(wasm) /\ list' <= 4 => status' = "running"
  PROVE  RoomInv'
BY DEF RoomInv

(* The next entry, or the next list, is begun on an empty stack.           *)
LEMMA FreshStack ==
  ASSUME stack' = << >>, pc' = 1, j' = 0
  PROVE  StackInv'
BY DEF StackInv, StackAt

(* An entry that is begun on an empty stack, with all that is built as it  *)
(* was.                                                                    *)
LEMMA FreshEntry ==
  ASSUME TypeInv, Built, NextEntry, status = "running", list >= 2,
         stack' = << >>, UNCHANGED <<memory, function_table, globals>>,
         ElemsDone' = ElemsDone, DataDone' = DataDone
  PROVE  Built'
<1>1. pc' = 1 /\ j' = 0 /\ UNCHANGED <<wasm, list, offset, status>>
  BY DEF NextEntry
<1>2. StackInv'
  BY <1>1, FreshStack
<1>3. GlobalsInv'
  BY <1>1, SameGlobals DEF Built
<1>4. TableInv'
  BY <1>1, SameTable DEF Built
<1>5. MemoryInv'
  BY <1>1, SameMemory DEF Built
<1>6. RoomInv'
  BY <1>1, SameRoom DEF Built
<1> QED
  BY <1>2, <1>3, <1>4, <1>5, <1>6 DEF Built

(* Only a module whose segments do not fit is stopped.                     *)
LEMMA FailBuilt ==
  ASSUME TypeInv, Built, NEW how \in {"aborted", "undefined"}, Fail(how),
         ~FitsOnePage(wasm) \/ list = 5
  PROVE  Built'
<1>1. /\ status' = how
      /\ UNCHANGED <<wasm, memory, function_table, globals, stack, list, i, pc, offset, j>>
  BY DEF Fail
<1>2. status' \notin {"running", "constructed"}
  BY <1>1
<1>3. ElemsDone' = ElemsDone /\ DataDone' = DataDone
  BY <1>1, SameDone
<1>4. StackInv'
  <2>1. TableWrites(wasm)' = TableWrites(wasm)
    BY <1>1 DEF TableWrites
  <2>2. AtEntry' = AtEntry
    BY <1>1 DEF AtEntry
  <2> QED
    BY <1>1, <1>2, <2>1, <2>2 DEF Built, StackInv
<1>5. GlobalsInv'
  BY <1>1, SameGlobals DEF Built
<1>6. TableInv'
  <2>1. j' >= 2 => offset' + j' - 2 < Len(function_table)
    BY <1>1 DEF Built, TableInv
  <2> QED
    BY <1>1, <1>3, <2>1, SameTable DEF Built
<1>7. MemoryInv'
  BY <1>2 DEF MemoryInv
<1>8. RoomInv'
  BY <1>1, SameRoom DEF Built
<1> QED
  BY <1>4, <1>5, <1>6, <1>7, <1>8 DEF Built

(* An instruction changes the stack only, to its next stage.               *)
LEMMA InstructionBuilds ==
  ASSUME TypeInv, ValidModule(wasm), Built, Const \/ GlobalGet \/ Add
  PROVE  Built'
<1>1. /\ HasEntry /\ j = 0 /\ status = "running"
      /\ Push(StackAt(ThisEntry.expr, ThisType, pc + 1, globals))
  BY InstructionRuns
<1>2. /\ stack' = StackAt(ThisEntry.expr, ThisType, pc + 1, globals) /\ pc' = pc + 1
      /\ UNCHANGED <<wasm, memory, function_table, globals, list, i, offset, j, status>>
  BY <1>1 DEF Push
<1>3. ElemsDone' = ElemsDone /\ DataDone' = DataDone
  BY <1>2, SameDone
<1>4. StackInv'
  <2>1. HasEntry' = HasEntry /\ ThisType' = ThisType /\ ThisEntry' = ThisEntry
    BY <1>2 DEF HasEntry, AtEntry, ThisType, ThisEntry
  <2>2. StackAt(ThisEntry.expr, ThisType, pc, globals)'
        = StackAt(ThisEntry.expr, ThisType, pc + 1, globals)
    BY <1>2, <2>1 DEF StackAt
  <2> QED
    BY <1>1, <1>2, <2>1, <2>2 DEF StackInv
<1>5. GlobalsInv'
  BY <1>2, SameGlobals DEF Built
<1>6. TableInv'
  BY <1>1, <1>2, <1>3, SameTable DEF Built
<1>7. MemoryInv'
  BY <1>2, <1>3, SameMemory DEF Built
<1>8. RoomInv'
  BY <1>1, <1>2, SameRoom DEF Built
<1> QED
  BY <1>4, <1>5, <1>6, <1>7, <1>8 DEF Built

(* Maxima, and the table is shorter than the address space.                *)
LEMMA MaxOfTwo ==
  ASSUME NEW a \in Nat, NEW b \in Nat
  PROVE  Max({a, b}) \in {a, b} /\ Max({a, b}) >= a /\ Max({a, b}) >= b
<1>1. \E x \in {a, b} : \A y \in {a, b} : x >= y
  OBVIOUS
<1>2. Max({a, b}) \in {a, b} /\ \A y \in {a, b} : Max({a, b}) >= y
  BY <1>1 DEF Max
<1> QED
  BY <1>2

(* The function table is as long as the module says.                       *)
LEMMA TableBound ==
  ASSUME TypeInv
  PROVE  /\ Len(function_table) \in 0..(Space - 1)
         /\ function_table \in [1..Len(function_table) -> Nat]
<1>1. /\ function_table \in Seq(Nat) /\ wasm \in Modules
      /\ Len(function_table) \in {0} \cup {Max({t.n, t.m}) : t \in Range(wasm.tables)}
  BY DEF TypeInv, PlaceInv, DataInv
<1>2. Space \in Nat \ {0}
  BY InstantiationAssumption
<1>3. ASSUME NEW t \in Range(wasm.tables) PROVE Max({t.n, t.m}) \in 0..(Space - 1)
  <2>1. {t.n, t.m} \subseteq 0..(Space - 1)
    BY <1>1, Segments DEF Range
  <2>2. t.n \in 0..(Space - 1) /\ t.m \in 0..(Space - 1)
    BY <2>1
  <2>3. t.n \in Nat /\ t.m \in Nat
    BY <1>2, <2>2
  <2>4. Max({t.n, t.m}) \in {t.n, t.m}
    BY <2>3, MaxOfTwo
  <2> QED
    BY <2>2, <2>4
<1>4. Len(function_table) \in 0..(Space - 1)
  <2>1. CASE Len(function_table) = 0
    BY <1>2, <2>1
  <2>2. CASE Len(function_table) \in {Max({t.n, t.m}) : t \in Range(wasm.tables)}
    <3>1. PICK t \in Range(wasm.tables) : Len(function_table) = Max({t.n, t.m})
      BY <2>2
    <3> QED
      BY <1>3, <3>1
  <2> QED
    BY <1>1, <2>1, <2>2
<1> QED
  BY <1>1, <1>4

(* While tables are made nothing has been written.                         *)
LEMMA NothingWritten ==
  ASSUME TypeInv, list = 1
  PROVE  \A a : Put(TableWrites(wasm), ElemsDone, a) = 0
<1>1. \A k \in DOMAIN TableWrites(wasm) : ElemsDone[k] = 0
  BY DEF TableWrites, ElemsDone
<1> HIDE DEF ElemsDone, TableWrites
<1> QED
  BY <1>1, PutNothing

(* A table of zeros, with room for the minimum.                            *)
LEMMA ReserveBuilds ==
  ASSUME TypeInv, ValidModule(wasm), Built, ReserveTable
  PROVE  Built'
<1>0. PlaceInv /\ wasm \in Modules
  BY DEF TypeInv, PlaceInv
<1>1. /\ list = 1 /\ status = "running" /\ ThisEntry = wasm.tables[i] /\ i \in DOMAIN wasm.tables
  BY <1>0, Entries DEF ReserveTable, In
<1>2. ThisEntry.ref = "funcref" /\ Len(wasm.tables) <= 1
  BY <1>1 DEF ValidModule
<1>3. i = 1 /\ Len(wasm.tables) = 1
  <2>1. Len(wasm.tables) \in Nat /\ DOMAIN wasm.tables = 1..Len(wasm.tables)
    BY <1>0, Segments
  <2>2. i \in 1..Len(wasm.tables)
    BY <1>1, <2>1
  <2>3. ASSUME NEW n \in Nat, n <= 1, i \in 1..n PROVE i = 1 /\ n = 1
    BY <2>3
  <2> QED
    BY <1>2, <2>1, <2>2, <2>3
<1>4. /\ function_table' = Resized(function_table, Max({ThisEntry.n, ThisEntry.m}))
      /\ NextEntry /\ UNCHANGED <<memory, globals, stack>>
  BY <1>2 DEF ReserveTable
<1>5. i' = i + 1 /\ pc' = 1 /\ j' = 0 /\ UNCHANGED <<wasm, list, offset, status>>
  BY <1>4 DEF NextEntry
<1>6. ElemsDone' = ElemsDone /\ DataDone' = DataDone
  BY <1>1, <1>5, SameDone
<1>7. StackInv'
  <2>1. stack = << >>
    BY <1>1 DEF Built, StackInv, HasEntry
  <2> QED
    BY <1>4, <1>5, <2>1, FreshStack
<1>8. GlobalsInv'
  BY <1>4, <1>5, SameGlobals DEF Built
<1>9. /\ Len(function_table') >= wasm.tables[1].n
      /\ \A a \in 1..Len(function_table') : function_table'[a] = 0
  <2> DEFINE n == Max({ThisEntry.n, ThisEntry.m})
  <2>1. ThisEntry.n \in Nat /\ ThisEntry.m \in Nat
    <3>1. Space \in Nat \ {0}
      BY InstantiationAssumption
    <3>2. {ThisEntry.n, ThisEntry.m} \subseteq 0..(Space - 1)
      BY <1>0, <1>1, Segments
    <3> QED
      BY <3>1, <3>2
  <2>2. n \in Nat /\ n >= ThisEntry.n
    BY <2>1, MaxOfTwo
  <2> HIDE DEF n
  <2>3. \A a \in 1..Len(function_table) : function_table[a] = 0
    BY <1>1, NothingWritten DEF Built, TableInv
  <2>4. function_table' = [k \in 1..n |-> IF k <= Len(function_table) THEN function_table[k] ELSE 0]
    BY <1>4 DEF Resized, n
  <2>5. Len(function_table) \in Nat
    BY TableBound
  <2>6. \A k \in 1..n : function_table'[k] = 0
    BY <2>3, <2>4, <2>5
  <2>7. Len(function_table') = n
    BY <2>2, <2>4
  <2> QED
    BY <1>1, <1>3, <2>2, <2>6, <2>7
<1>10. TableInv'
  <2>1. \A a : Put(TableWrites(wasm)', ElemsDone', a) = 0
    <3>1. TableWrites(wasm)' = TableWrites(wasm)
      BY <1>5 DEF TableWrites
    <3> QED
      BY <1>1, <1>6, <3>1, NothingWritten
  <2> QED
    BY <1>5, <1>9, <2>1 DEF TableInv
<1>11. MemoryInv'
  BY <1>4, <1>5, <1>6, SameMemory DEF Built
<1>12. RoomInv'
  BY <1>1, <1>5, <1>9 DEF RoomInv
<1> QED
  BY <1>7, <1>8, <1>10, <1>11, <1>12 DEF Built

(* A segment, and where its functions go.                                  *)
LEMMA ThisElement ==
  ASSUME TypeInv, ValidModule(wasm), In("elems"), AtEntry
  PROVE  /\ list = 2 /\ status = "running" /\ HasEntry
         /\ i \in DOMAIN wasm.elems /\ ThisEntry = wasm.elems[i] /\ globals = << >>
         /\ ThisEntry.funcs \in Seq(Nat)
         /\ TableWrites(wasm)[i].what = ThisEntry.funcs
         /\ TableWrites(wasm)[i].to = ValueOf(ThisEntry.expr, << >>)
         /\ TableWrites(wasm)[i].to \in 0..(Space - 1)
<1>1. /\ PlaceInv /\ wasm \in Modules /\ list = 2 /\ status = "running"
      /\ i \in DOMAIN wasm.elems /\ ThisEntry = wasm.elems[i]
  BY Entries DEF TypeInv, PlaceInv, In
<1>2. globals = << >>
  <2>1. Len(globals) = 0
    BY <1>1 DEF PlaceInv
  <2>2. PICK S : globals \in Seq(S)
    BY DEF TypeInv, DataInv, TypedGlobals
  <2> QED
    BY <2>1, <2>2
<1>3. /\ TableWrites(wasm)[i].what = ThisEntry.funcs
      /\ TableWrites(wasm)[i].to = ValueOf(ThisEntry.expr, << >>)
  BY <1>1 DEF TableWrites
<1>4. ThisEntry.funcs \in Seq(Nat)
  BY <1>1, Segments
<1>5. HasEntry
  BY <1>1 DEF HasEntry
<1>6. ValueOf(ThisEntry.expr, << >>) \in 0..(Space - 1)
  <2>1. PICK e : e = ThisEntry.expr
    OBVIOUS
  <2>2. /\ ValidExpr(wasm, e, "I32", 0) /\ Len(e) \in Nat /\ DOMAIN e = 1..Len(e)
        /\ \A x \in DOMAIN e : /\ e[x].op = "global.get" => e[x].v \in Nat
                               /\ e[x].op = "const" => IsValue(e[x])
    <3>1. ThisType = "I32" /\ Len(globals) = 0
      BY <1>1, <1>2 DEF ThisType
    <3>2. /\ ValidExpr(wasm, ThisEntry.expr, ThisType, Len(globals))
          /\ Len(ThisEntry.expr) \in Nat /\ DOMAIN ThisEntry.expr = 1..Len(ThisEntry.expr)
          /\ \A x \in DOMAIN ThisEntry.expr :
               /\ ThisEntry.expr[x].op = "global.get" => ThisEntry.expr[x].v \in Nat
               /\ ThisEntry.expr[x].op = "const" => IsValue(ThisEntry.expr[x])
      BY <1>5, ThisValid
    <3> QED
      BY <2>1, <3>1, <3>2
  <2>3. ValueOf(e, << >>) \in 0..(Space - 1)
    BY <2>2, OffsetRange
  <2> QED
    BY <2>1, <2>3
<1> QED
  BY <1>1, <1>2, <1>3, <1>4, <1>5, <1>6

(* Taking the offset keeps what has been built so far.                     *)
LEMMA OffsetBuilds ==
  ASSUME TypeInv, ValidModule(wasm), Built, TakeOffset
  PROVE  Built'
<1>1. /\ Evaluated("elems") /\ In("elems") /\ AtEntry
      /\ offset' = Last(stack).v /\ stack' = Front(stack) /\ j' = 1
      /\ UNCHANGED <<wasm, memory, function_table, globals, list, i, pc, status>>
  BY DEF TakeOffset, Evaluated, Popped
<1>2. /\ list = 2 /\ status = "running" /\ HasEntry /\ globals = << >>
      /\ TableWrites(wasm)[i].to = ValueOf(ThisEntry.expr, << >>)
  BY <1>1, ThisElement
<1>3. /\ j = 0 /\ Front(stack) = << >>
      /\ Last(stack) = Operand(ThisType, ValueOf(ThisEntry.expr, globals))
  BY <1>1, Finished
<1>4. offset' = TableWrites(wasm)[i].to
  BY <1>1, <1>2, <1>3 DEF Operand
<1>5. ElemsDone' = ElemsDone /\ DataDone' = DataDone
  <2>1. DataDone' = DataDone
    BY <1>1, <1>2 DEF DataDone
  <2>2. wasm' = wasm /\ list' = list /\ i' = i /\ j = 0 /\ j' = 1
    BY <1>1, <1>3
  <2>3. ElemsDone' = ElemsDone
    BY <2>2 DEF ElemsDone
  <2> QED
    BY <2>1, <2>3
<1>6. StackInv'
  <2>1. TableWrites(wasm)' = TableWrites(wasm)
    BY <1>1 DEF TableWrites
  <2>2. HasEntry' /\ AtEntry' /\ list' = 2
    BY <1>1, <1>2 DEF HasEntry, AtEntry
  <2> QED
    BY <1>1, <1>2, <1>3, <1>4, <2>1, <2>2 DEF StackInv
<1>7. GlobalsInv'
  BY <1>1, SameGlobals DEF Built
<1>8. TableInv'
  BY <1>1, <1>5, SameTable DEF Built
<1>9. MemoryInv'
  BY <1>1, <1>5, SameMemory DEF Built
<1>10. RoomInv'
  BY <1>1, <1>2, SameRoom DEF Built
<1> QED
  BY <1>6, <1>7, <1>8, <1>9, <1>10 DEF Built

(* A function goes where its segment puts it, in the table if the segment  *)
(* fits.                                                                   *)
LEMMA PlaceBuilds ==
  ASSUME TypeInv, ValidModule(wasm), Built, PlaceEntry
  PROVE  Built'
<1> DEFINE len == Len(function_table)
           w == TableWrites(wasm)
<1>1. In("elems") /\ AtEntry /\ j \in 1..Len(ThisEntry.funcs)
  BY DEF PlaceEntry
<1>2. /\ list = 2 /\ status = "running" /\ HasEntry
      /\ i \in DOMAIN wasm.elems /\ ThisEntry.funcs \in Seq(Nat)
      /\ w[i].what = ThisEntry.funcs /\ w[i].to \in 0..(Space - 1)
  BY <1>1, ThisElement
<1>3. /\ Len(ThisEntry.funcs) \in Nat /\ j \in Nat \ {0} /\ Space \in Nat \ {0}
      /\ len \in 0..(Space - 1) /\ function_table \in [1..len -> Nat]
  BY <1>1, <1>2, TableBound, InstantiationAssumption
<1>4. offset = w[i].to /\ offset \in 0..(Space - 1)
  BY <1>2, <1>3 DEF Built, StackInv
<1>5. offset + j - 1 < Space
  <2>1. j >= 2 => offset + j - 2 < len
    BY DEF Built, TableInv
  <2>2. CASE j = 1
    BY <1>3, <1>4, <2>2
  <2>3. CASE j >= 2
    BY <1>3, <1>4, <2>1, <2>3
  <2> QED
    BY <1>3, <2>2, <2>3
<1> HIDE DEF len, w
<1>6. EntryIndex(offset, j) = offset + j - 1 /\ offset + j - 1 \in Nat
  <2>1. ASSUME NEW x \in Nat, x < Space PROVE x % Space = x
    BY <1>3, <2>1
  <2>2. offset + j - 1 \in Nat
    BY <1>3, <1>4
  <2> QED
    BY <1>5, <2>1, <2>2 DEF EntryIndex
<1>7. CASE offset + j - 1 >= len
  <2>1. ~FitsOnePage(wasm)
    <3> SUFFICES ASSUME FitsOnePage(wasm) PROVE FALSE
      OBVIOUS
    <3>1. Len(wasm.tables) = 1 /\ w[i].to + Len(w[i].what) <= wasm.tables[1].n
      BY <1>2 DEF FitsOnePage, w
    <3>2. len >= wasm.tables[1].n
      BY <1>2, <3>1 DEF Built, RoomInv, len
    <3>3. wasm.tables[1].n \in Nat
      <4>1. wasm \in Modules
        BY DEF TypeInv, PlaceInv
      <4>2. Len(wasm.tables) \in Nat /\ DOMAIN wasm.tables = 1..Len(wasm.tables)
            /\ \A k \in DOMAIN wasm.tables : {wasm.tables[k].n, wasm.tables[k].m} \subseteq 0..(Space - 1)
        BY <4>1, Segments
      <4>3. 1 \in DOMAIN wasm.tables
        BY <3>1, <4>2
      <4> QED
        BY <1>3, <4>2, <4>3
    <3>4. Len(w[i].what) \in Nat /\ j <= Len(w[i].what)
      BY <1>1, <1>2, <1>3
    <3>5. ASSUME NEW n \in Nat, offset + n <= wasm.tables[1].n, j <= n PROVE FALSE
      BY <1>3, <1>4, <1>7, <3>2, <3>3, <3>5
    <3> QED
      BY <1>4, <3>1, <3>4, <3>5
  <2> QED
    BY <1>6, <1>7, <2>1, FailBuilt DEF PlaceEntry, len
<1>8. CASE ~(offset + j - 1 >= len)
  <2>1. /\ function_table' = [function_table EXCEPT ![offset + j] = ThisEntry.funcs[j]]
        /\ j' = j + 1
        /\ UNCHANGED <<wasm, memory, globals, stack, list, i, pc, offset, status>>
    <3>1. (offset + j - 1) + 1 = offset + j
      BY <1>3, <1>4
    <3> QED
      BY <1>6, <1>8, <3>1 DEF PlaceEntry, len
  <2>2. offset + j - 1 < len /\ offset + j \in 1..len
    BY <1>3, <1>4, <1>8
  <2>3. w' = w /\ DataDone' = DataDone
    BY <1>2, <2>1 DEF w, TableWrites, DataDone
  <2>4. /\ \A k \in DOMAIN w : k # i => ElemsDone'[k] = ElemsDone[k]
        /\ ElemsDone[i] = j - 1 /\ ElemsDone'[i] = j
        /\ Latest(w, ElemsDone, i)
    <3>1. DOMAIN w = DOMAIN wasm.elems /\ DOMAIN wasm.elems \subseteq Nat
      <4>1. Listed(wasm.elems)
        BY Segments DEF TypeInv, PlaceInv
      <4> QED
        BY <4>1 DEF w, TableWrites, Listed
    <3>2. i \in DOMAIN w /\ ElemsDone[i] = j - 1 /\ ElemsDone'[i] = j
      <4>1. i \in DOMAIN wasm.elems /\ i \in Nat /\ list = 2
        BY <1>2, <3>1
      <4>2. ElemsDone[i] = j - 1
        BY <1>3, <4>1 DEF ElemsDone
      <4>3. ElemsDone'[i] = j
        <5>1. ElemsDone' = [k \in DOMAIN wasm.elems |->
                IF k < i THEN Len(wasm.elems[k].funcs) ELSE IF k = i /\ j' # 0 THEN j' - 1 ELSE 0]
          <6>1. wasm' = wasm /\ list' = 2 /\ i' = i
            BY <2>1, <4>1
          <6> QED
            BY <6>1 DEF ElemsDone
        <5> QED
          BY <1>3, <2>1, <4>1, <5>1
      <4> QED
        BY <1>3, <3>1, <4>1, <4>2, <4>3
    <3>3. \A k \in DOMAIN w : k # i => ElemsDone'[k] = ElemsDone[k]
      BY <1>2, <2>1, <3>1 DEF ElemsDone
    <3>4. \A k \in DOMAIN w : k > i => ElemsDone[k] = 0
      BY <1>2, <3>1, <3>2 DEF ElemsDone
    <3> QED
      BY <3>1, <3>2, <3>3, <3>4 DEF Latest
  <2>5. TableInv'
    <3>1. ASSUME NEW a \in 1..len PROVE function_table'[a] = Put(w, ElemsDone', a - 1)
      <4>1. Put(w, ElemsDone', a - 1) = IF (a - 1) - w[i].to \in 0..(j - 1)
                                        THEN w[i].what[(a - 1) - w[i].to + 1]
                                        ELSE Put(w, ElemsDone, a - 1)
        <5>1. PICK writes, d, d2, q, b : writes = w /\ d = ElemsDone /\ d2 = ElemsDone' /\ q = i /\ b = a - 1
          OBVIOUS
        <5>2. /\ Latest(writes, d, q) /\ \A k \in DOMAIN writes : k # q => d2[k] = d[k]
              /\ d[q] = j - 1 /\ d2[q] = j
          BY <2>4, <5>1
        <5>3. GoesOn(writes, d, d2, q)
          <6>1. d[q] \in Nat /\ d2[q] \in Nat /\ d[q] <= d2[q]
            BY <1>3, <5>2
          <6> QED
            BY <5>2, <6>1 DEF GoesOn
        <5>4. Latest(writes, d2, q) /\ Put(writes, d2, b) =
                IF b - writes[q].to \in 0..(d2[q] - 1) THEN writes[q].what[b - writes[q].to + 1]
                ELSE Put(writes, d, b)
          BY <5>3, PutMore
        <5> QED
          BY <5>1, <5>2, <5>4
      <4>2. function_table[a] = Put(w, ElemsDone, a - 1)
        BY <3>1 DEF Built, TableInv, len, w
      <4>3. CASE a = offset + j
        <5>1. (a - 1) - w[i].to = j - 1 /\ (j - 1) + 1 = j /\ j - 1 \in 0..(j - 1)
          BY <1>3, <1>4, <4>3
        <5>2. Put(w, ElemsDone', a - 1) = w[i].what[j]
          BY <4>1, <5>1
        <5>3. function_table'[a] = ThisEntry.funcs[j]
          BY <1>3, <2>1, <4>3
        <5> QED
          BY <1>2, <5>2, <5>3
      <4>4. CASE a # offset + j
        <5>1. function_table'[a] = function_table[a]
          BY <1>3, <2>1, <4>4
        <5>2. CASE (a - 1) - w[i].to \in 0..(j - 1)
          <6>1. (a - 1) - w[i].to \in 0..(ElemsDone[i] - 1)
            <7>1. offset \in Nat /\ a \in Nat /\ (a - 1) - offset \in 0..(j - 1)
              BY <1>3, <1>4, <5>2
            <7>2. (a - 1) - offset \in 0..((j - 1) - 1)
              BY <1>3, <4>4, <7>1
            <7> QED
              BY <1>4, <2>4, <7>2
          <6>2. Put(w, ElemsDone, a - 1) = w[i].what[(a - 1) - w[i].to + 1]
            BY <2>4, <6>1, PutTop
          <6> QED
            BY <4>1, <4>2, <5>1, <5>2, <6>2
        <5> QED
          BY <4>1, <4>2, <5>1, <5>2
      <4> QED
        BY <4>3, <4>4
    <3>2. Len(function_table') = len
      BY <1>3, <2>1
    <3>3. offset' + j' - 2 < len
      BY <1>3, <1>4, <2>1, <2>2
    <3> QED
      BY <2>3, <3>1, <3>2, <3>3 DEF TableInv, w
  <2>6. StackInv'
    <3>1. TableWrites(wasm)' = TableWrites(wasm)
      BY <2>3 DEF w
    <3>2. HasEntry' /\ AtEntry'
      BY <1>1, <1>2, <2>1 DEF HasEntry, AtEntry
    <3>3. stack = << >>
      BY <1>2, <1>3 DEF Built, StackInv
    <3>4. j' # 0
      BY <1>3, <2>1
    <3> QED
      BY <1>2, <1>4, <2>1, <3>1, <3>2, <3>3, <3>4 DEF StackInv, w
  <2>7. GlobalsInv'
    BY <2>1, SameGlobals DEF Built
  <2>8. MemoryInv'
    BY <2>1, <2>3, SameMemory DEF Built
  <2>9. RoomInv'
    <3>1. Len(function_table') = Len(function_table)
      BY <1>3, <2>1 DEF len
    <3> QED
      BY <1>2, <2>1, <3>1 DEF Built, RoomInv
  <2> QED
    BY <2>5, <2>6, <2>7, <2>8, <2>9 DEF Built
<1> QED
  BY <1>7, <1>8

(* A segment is left behind with all its functions written.                *)
LEMMA ElementEndBuilds ==
  ASSUME TypeInv, ValidModule(wasm), Built, EndElement
  PROVE  Built'
<1>1. /\ In("elems") /\ AtEntry /\ j = Len(ThisEntry.funcs) + 1
      /\ NextEntry /\ UNCHANGED <<memory, function_table, globals, stack>>
  BY DEF EndElement
<1>2. /\ list = 2 /\ status = "running" /\ HasEntry /\ ThisEntry = wasm.elems[i]
      /\ ThisEntry.funcs \in Seq(Nat)
  BY <1>1, ThisElement
<1>3. Len(ThisEntry.funcs) \in Nat
  BY <1>2
<1>4. j # 0 /\ stack = << >>
  <2>1. j # 0
    BY <1>1, <1>3
  <2> QED
    BY <1>2, <2>1 DEF Built, StackInv
<1>5. i' = i + 1 /\ j' = 0 /\ UNCHANGED <<wasm, list>>
  BY <1>1 DEF NextEntry
<1>6. DataDone' = DataDone
  BY <1>2, <1>5 DEF DataDone
<1>7. ElemsDone' = ElemsDone
  <2>1. DOMAIN wasm.elems \subseteq Nat /\ i \in Nat
    <3>1. Listed(wasm.elems) /\ i \in Nat
      BY Segments DEF TypeInv, PlaceInv
    <3> QED
      BY <3>1 DEF Listed
  <2>2. ASSUME NEW k \in DOMAIN wasm.elems
        PROVE  (IF k < i + 1 THEN Len(wasm.elems[k].funcs) ELSE 0)
               = IF k < i THEN Len(wasm.elems[k].funcs) ELSE IF k = i /\ j # 0 THEN j - 1 ELSE 0
    <3>1. CASE k = i
      BY <1>1, <1>2, <1>3, <1>4, <2>1, <3>1
    <3>2. CASE k # i
      BY <2>1, <3>2
    <3> QED
      BY <3>1, <3>2
  <2>3. ElemsDone = [k \in DOMAIN wasm.elems |->
          IF k < i THEN Len(wasm.elems[k].funcs) ELSE IF k = i /\ j # 0 THEN j - 1 ELSE 0]
    BY <1>2 DEF ElemsDone
  <2>4. ElemsDone' = [k \in DOMAIN wasm.elems |-> IF k < i + 1 THEN Len(wasm.elems[k].funcs) ELSE 0]
    BY <1>2, <1>5 DEF ElemsDone
  <2> QED
    BY <2>2, <2>3, <2>4
<1> QED
  BY <1>1, <1>2, <1>4, <1>6, <1>7, FreshEntry

(* A data segment, and where its bytes go.                                 *)
LEMMA ThisData ==
  ASSUME TypeInv, ValidModule(wasm), In("data"), AtEntry
  PROVE  /\ list = 3 /\ status = "running" /\ HasEntry /\ ThisType = "I32"
         /\ i \in DOMAIN wasm.data /\ ThisEntry = wasm.data[i] /\ globals = << >>
         /\ ThisEntry.bytes \in Seq(Nat)
         /\ MemoryWrites(wasm)[i].what = ThisEntry.bytes
         /\ MemoryWrites(wasm)[i].to = ValueOf(ThisEntry.expr, << >>)
         /\ MemoryWrites(wasm)[i].to \in 0..(Space - 1)
<1>1. /\ PlaceInv /\ wasm \in Modules /\ list = 3 /\ status = "running"
      /\ i \in DOMAIN wasm.data /\ ThisEntry = wasm.data[i]
  BY Entries DEF TypeInv, PlaceInv, In
<1>2. globals = << >>
  <2>1. Len(globals) = 0
    BY <1>1 DEF PlaceInv
  <2>2. PICK S : globals \in Seq(S)
    BY DEF TypeInv, DataInv, TypedGlobals
  <2> QED
    BY <2>1, <2>2
<1>3. /\ MemoryWrites(wasm)[i].what = ThisEntry.bytes
      /\ MemoryWrites(wasm)[i].to = ValueOf(ThisEntry.expr, << >>)
  BY <1>1 DEF MemoryWrites
<1>4. ThisEntry.bytes \in Seq(Nat)
  BY <1>1, Segments
<1>5. HasEntry /\ ThisType = "I32"
  BY <1>1 DEF HasEntry, ThisType
<1>6. ValueOf(ThisEntry.expr, << >>) \in 0..(Space - 1)
  <2>1. PICK e : e = ThisEntry.expr
    OBVIOUS
  <2>2. /\ ValidExpr(wasm, e, "I32", 0) /\ Len(e) \in Nat /\ DOMAIN e = 1..Len(e)
        /\ \A x \in DOMAIN e : /\ e[x].op = "global.get" => e[x].v \in Nat
                               /\ e[x].op = "const" => IsValue(e[x])
    <3>1. Len(globals) = 0
      BY <1>2
    <3>2. /\ ValidExpr(wasm, ThisEntry.expr, ThisType, Len(globals))
          /\ Len(ThisEntry.expr) \in Nat /\ DOMAIN ThisEntry.expr = 1..Len(ThisEntry.expr)
          /\ \A x \in DOMAIN ThisEntry.expr :
               /\ ThisEntry.expr[x].op = "global.get" => ThisEntry.expr[x].v \in Nat
               /\ ThisEntry.expr[x].op = "const" => IsValue(ThisEntry.expr[x])
      BY <1>5, ThisValid
    <3> QED
      BY <1>5, <2>1, <3>1, <3>2
  <2>3. ValueOf(e, << >>) \in 0..(Space - 1)
    BY <2>2, OffsetRange
  <2> QED
    BY <2>1, <2>3
<1> QED
  BY <1>1, <1>2, <1>3, <1>4, <1>5, <1>6

(* A data segment is copied to where it goes, if it fits.                  *)
LEMMA CopyBuilds ==
  ASSUME TypeInv, ValidModule(wasm), Built, CopyData
  PROVE  Built'
<1> DEFINE w == MemoryWrites(wasm)
           bytes == ThisEntry.bytes
           o == Last(stack).v
<1>1. In("data") /\ AtEntry /\ Evaluated("data")
  BY DEF CopyData, Evaluated
<1>2. /\ list = 3 /\ status = "running" /\ HasEntry
      /\ i \in DOMAIN wasm.data /\ bytes \in Seq(Nat) /\ globals = << >> /\ ThisType = "I32"
      /\ w[i].what = bytes /\ w[i].to = ValueOf(ThisEntry.expr, << >>) /\ w[i].to \in 0..(Space - 1)
  BY <1>1, ThisData
<1>3. o = w[i].to /\ Front(stack) = << >>
  <2>1. Last(stack) = Operand(ThisType, ValueOf(ThisEntry.expr, globals)) /\ Front(stack) = << >>
    BY <1>1, Finished
  <2> QED
    BY <1>2, <2>1 DEF Operand
<1>4. /\ memory \in [1..PageSize -> Nat] /\ Len(memory) = PageSize /\ PageSize \in Nat
      /\ Len(bytes) \in Nat /\ DOMAIN bytes = 1..Len(bytes) /\ o \in Nat
  <2>1. PageSize \in Nat /\ Space \in Nat
    BY InstantiationAssumption
  <2> QED
    BY <1>2, <1>3, <2>1 DEF TypeInv, DataInv, MemoryTyped
<1> HIDE DEF w, bytes, o
<1>5. CASE o >= Len(memory) \/ o + Len(bytes) > Len(memory)
  <2>1. ~FitsOnePage(wasm)
    <3> SUFFICES ASSUME FitsOnePage(wasm) PROVE FALSE
      OBVIOUS
    <3>1. w[i].to < PageSize /\ w[i].to + Len(w[i].what) <= PageSize
      BY <1>2 DEF FitsOnePage, w
    <3>2. ASSUME NEW n \in Nat, o < PageSize, o + n <= PageSize,
                 o >= PageSize \/ o + n > PageSize
          PROVE  FALSE
      BY <1>4, <3>2
    <3> QED
      BY <1>2, <1>3, <1>4, <1>5, <3>1, <3>2
  <2> QED
    BY <1>5, <2>1, FailBuilt DEF CopyData, o, bytes
<1>6. CASE ~(o >= Len(memory) \/ o + Len(bytes) > Len(memory))
  <2>1. /\ memory' = Overwritten(o, bytes) /\ stack' = Front(stack)
        /\ NextEntry /\ UNCHANGED <<function_table, globals>>
    BY <1>6 DEF CopyData, Popped, o, bytes
  <2>2. i' = i + 1 /\ pc' = 1 /\ j' = 0 /\ UNCHANGED <<wasm, list, offset, status>>
    BY <2>1 DEF NextEntry
  <2>3. w' = w /\ ElemsDone' = ElemsDone
    BY <1>2, <2>2 DEF w, MemoryWrites, ElemsDone
  <2>4. /\ \A k \in DOMAIN w : k # i => DataDone'[k] = DataDone[k]
        /\ DataDone[i] = 0 /\ DataDone'[i] = Len(bytes)
        /\ Latest(w, DataDone, i)
    <3>1. DOMAIN w = DOMAIN wasm.data /\ DOMAIN wasm.data \subseteq Nat
      <4>1. Listed(wasm.data)
        BY Segments DEF TypeInv, PlaceInv
      <4> QED
        BY <4>1 DEF w, MemoryWrites, Listed
    <3>2. i \in DOMAIN w /\ i \in Nat /\ Len(wasm.data[i].bytes) = Len(bytes)
      <4>1. wasm.data[i].bytes = bytes
        BY <1>1, ThisData DEF bytes
      <4> QED
        BY <1>2, <3>1, <4>1
    <3>3. DataDone = [k \in DOMAIN w |-> IF k < i THEN Len(wasm.data[k].bytes) ELSE 0]
      BY <1>2, <3>1 DEF DataDone
    <3>4. DataDone' = [k \in DOMAIN w |-> IF k < i + 1 THEN Len(wasm.data[k].bytes) ELSE 0]
      BY <1>2, <2>2, <3>1 DEF DataDone
    <3>5. DataDone[i] = 0 /\ DataDone'[i] = Len(bytes)
      BY <3>2, <3>3, <3>4
    <3>6. \A k \in DOMAIN w : k # i => DataDone'[k] = DataDone[k]
      BY <3>1, <3>2, <3>3, <3>4
    <3>7. \A k \in DOMAIN w : k > i => DataDone[k] = 0
      BY <3>1, <3>2, <3>3
    <3> QED
      BY <3>1, <3>2, <3>5, <3>6, <3>7 DEF Latest
  <2>5. MemoryInv'
    <3>1. ASSUME NEW a \in 1..PageSize PROVE memory'[a] = Put(w, DataDone', a - 1)
      <4>1. PICK writes, d, d2, q, b : writes = w /\ d = DataDone /\ d2 = DataDone' /\ q = i /\ b = a - 1
        OBVIOUS
      <4>2. /\ Latest(writes, d, q) /\ \A k \in DOMAIN writes : k # q => d2[k] = d[k]
            /\ d[q] = 0 /\ d2[q] = Len(bytes)
        BY <2>4, <4>1
      <4>3. GoesOn(writes, d, d2, q)
        <5>1. d[q] \in Nat /\ d2[q] \in Nat /\ d[q] <= d2[q]
          BY <1>4, <4>2
        <5> QED
          BY <4>2, <5>1 DEF GoesOn
      <4>4. Latest(writes, d2, q) /\ Put(writes, d2, b) =
              IF b - writes[q].to \in 0..(d2[q] - 1) THEN writes[q].what[b - writes[q].to + 1]
              ELSE Put(writes, d, b)
        BY <4>3, PutMore
      <4>5. Put(w, DataDone', a - 1) =
              IF (a - 1) - o \in 0..(Len(bytes) - 1) THEN bytes[(a - 1) - o + 1]
              ELSE Put(w, DataDone, a - 1)
        BY <1>2, <1>3, <4>1, <4>2, <4>4
      <4>6. memory[a] = Put(w, DataDone, a - 1)
        BY <1>2, <3>1 DEF Built, MemoryInv, w
      <4>7. memory'[a] = IF a - o \in 1..Len(bytes) THEN bytes[a - o] ELSE memory[a]
        BY <1>4, <2>1, <3>1 DEF Overwritten
      <4>8. /\ a - o \in 1..Len(bytes) <=> (a - 1) - o \in 0..(Len(bytes) - 1)
            /\ (a - 1) - o + 1 = a - o
        BY <1>4, <3>1
      <4> QED
        BY <4>5, <4>6, <4>7, <4>8
    <3>2. ASSUME NEW a \in 1..PageSize PROVE memory'[a] = Put(MemoryWrites(wasm)', DataDone', a - 1)
      BY <2>3, <3>1, <3>2 DEF w
    <3> QED
      BY <3>2 DEF MemoryInv
  <2>6. StackInv'
    BY <1>3, <2>1, <2>2, FreshStack
  <2>7. GlobalsInv'
    BY <2>1, <2>2, SameGlobals DEF Built
  <2>8. TableInv'
    BY <2>1, <2>2, <2>3, SameTable DEF Built
  <2>9. RoomInv'
    BY <1>2, <2>1, <2>2, SameRoom DEF Built
  <2> QED
    BY <2>5, <2>6, <2>7, <2>8, <2>9 DEF Built
<1> QED
  BY <1>5, <1>6

(* A global is given the value of its expression; those before it keep     *)
(* theirs.                                                                 *)
LEMMA GlobalBuilds ==
  ASSUME TypeInv, ValidModule(wasm), Built, TakeGlobal
  PROVE  Built'
<1> DEFINE n == Len(globals)
           g == [mut |-> ThisEntry.mut, value |-> Last(stack)]
<1>1. Evaluated("globals") /\ In("globals") /\ AtEntry
  BY DEF TakeGlobal, Evaluated
<1>2. /\ list = 4 /\ status = "running" /\ HasEntry /\ i \in Nat \ {0}
      /\ ThisEntry = wasm.globals[i] /\ ThisType = wasm.globals[i].t
      /\ n = i - 1 /\ wasm \in Modules /\ i \in DOMAIN wasm.globals
  BY <1>1, Entries DEF TypeInv, PlaceInv, In, HasEntry, ThisType
<1>3. /\ stack # << >> /\ Front(stack) = << >>
      /\ Last(stack) = Operand(ThisType, ValueOf(ThisEntry.expr, globals))
  BY <1>1, Finished
<1>4. /\ globals' = Append(globals, g) /\ stack' = Front(stack)
      /\ NextEntry /\ UNCHANGED <<memory, function_table>>
  BY <1>3 DEF TakeGlobal, Popped, PushBack
<1>5. i' = i + 1 /\ pc' = 1 /\ j' = 0 /\ UNCHANGED <<wasm, list, offset, status>>
  BY <1>4 DEF NextEntry
<1>6. g = [mut |-> wasm.globals[i].mut,
           value |-> Operand(wasm.globals[i].t, ValueOf(wasm.globals[i].expr, globals))]
  BY <1>2, <1>3
<1> HIDE DEF g
<1>7. /\ Len(globals') = n + 1 /\ globals'[n + 1] = g /\ n \in Nat
      /\ \A k \in 1..n : globals'[k] = globals[k]
  <2>1. PICK S : globals \in Seq(S)
    BY DEF TypeInv, DataInv, TypedGlobals
  <2>2. globals \in Seq(S \cup {g})
    BY <2>1
  <2> QED
    BY <1>4, <2>2
<1>8. GlobalsInv'
  <2> SUFFICES ASSUME NEW k \in 1..(n + 1)
               PROVE  globals'[k] =
                        [mut |-> wasm.globals[k].mut,
                         value |-> Operand(wasm.globals[k].t, ValueOf(wasm.globals[k].expr, globals'))]
    BY <1>5, <1>7 DEF GlobalsInv
  <2>1. k \in Nat \ {0} /\ k \in DOMAIN wasm.globals
    <3>1. DOMAIN wasm.globals = 1..Len(wasm.globals) /\ Len(wasm.globals) \in Nat
      BY <1>2, Segments DEF Listed
    <3> QED
      BY <1>2, <1>7, <3>1
  <2>2. ValueOf(wasm.globals[k].expr, globals) = ValueOf(wasm.globals[k].expr, globals')
    <3>1. PICK m, e, t, r, gs, hs : /\ m = wasm /\ e = wasm.globals[k].expr
                                    /\ t = wasm.globals[k].t /\ r = k - 1
                                    /\ gs = globals /\ hs = globals'
      OBVIOUS
    <3>2. ValidExpr(m, e, t, r)
      BY <2>1, <3>1 DEF ValidModule
    <3>3. /\ Len(e) \in Nat /\ DOMAIN e = 1..Len(e)
          /\ \A x \in DOMAIN e : e[x].op = "global.get" => e[x].v \in Nat
      <4>1. Listed(wasm.globals)
        BY <1>2, Segments
      <4> QED
        BY <2>1, <3>1, <4>1 DEF Listed
    <3>4. \A q \in Nat : q < r => gs[q + 1] = hs[q + 1]
      BY <1>7, <2>1, <3>1
    <3>5. ValueOf(e, gs) = ValueOf(e, hs)
      BY <3>2, <3>3, <3>4, ValueStable
    <3> QED
      BY <3>1, <3>5
  <2>3. globals'[k] =
          [mut |-> wasm.globals[k].mut,
           value |-> Operand(wasm.globals[k].t, ValueOf(wasm.globals[k].expr, globals))]
    <3>1. CASE k \in 1..n
      BY <1>7, <3>1 DEF Built, GlobalsInv
    <3>2. CASE k = n + 1
      <4>1. k = i
        BY <1>2, <1>7, <3>2
      <4> QED
        BY <1>6, <1>7, <3>2, <4>1
    <3> QED
      BY <1>7, <3>1, <3>2
  <2> QED
    BY <2>2, <2>3
<1>9. ElemsDone' = ElemsDone /\ DataDone' = DataDone
  BY <1>2, <1>5, SameDone
<1>10. StackInv'
  BY <1>3, <1>4, <1>5, FreshStack
<1>11. TableInv'
  BY <1>4, <1>5, <1>9, SameTable DEF Built
<1>12. MemoryInv'
  BY <1>4, <1>5, <1>9, SameMemory DEF Built
<1>13. RoomInv'
  BY <1>2, <1>4, <1>5, SameRoom DEF Built
<1> QED
  BY <1>8, <1>10, <1>11, <1>12, <1>13 DEF Built

(* A list is left behind with all its entries done.                        *)
LEMMA NextListBuilds ==
  ASSUME TypeInv, ValidModule(wasm), Built, NextList
  PROVE  Built'
<1>1. /\ PlaceInv /\ wasm \in Modules /\ list \in 1..4 /\ i \in Nat \ {0} /\ ~AtEntry
      /\ status = "running" /\ list' = list + 1 /\ i' = 1
      /\ status' = IF list = 4 THEN "constructed" ELSE "running"
      /\ UNCHANGED <<wasm, memory, function_table, globals, stack, pc, offset, j>>
  BY DEF TypeInv, PlaceInv, NextList
<1>2. stack = << >> /\ pc = 1 /\ j = 0
  BY <1>1 DEF Built, StackInv, HasEntry
<1>3. StackInv'
  BY <1>1, <1>2, FreshStack
<1>4. GlobalsInv'
  BY <1>1, SameGlobals DEF Built
<1>5. ElemsDone' = ElemsDone
  <2>1. Len(wasm.elems) \in Nat /\ DOMAIN wasm.elems = 1..Len(wasm.elems)
    BY <1>1, Segments DEF Listed
  <2>2. CASE list = 1
    <3>1. ElemsDone = [k \in DOMAIN wasm.elems |-> 0]
      BY <2>2 DEF ElemsDone
    <3>2. ElemsDone' = [k \in DOMAIN wasm.elems |-> 0]
      <4>1. wasm' = wasm /\ list' = 2 /\ i' = 1 /\ j' = 0
        BY <1>1, <1>2, <2>2
      <4>2. \A k \in DOMAIN wasm.elems : ~(k < 1)
        BY <2>1
      <4> QED
        BY <4>1, <4>2 DEF ElemsDone
    <3> QED
      BY <3>1, <3>2
  <2>3. CASE list = 2
    <3>1. \A k \in DOMAIN wasm.elems : k < i
      <4>1. i \notin 1..Len(wasm.elems)
        BY <1>1, <2>1, <2>3, Entries
      <4> QED
        BY <1>1, <2>1, <4>1
    <3>2. ElemsDone = [k \in DOMAIN wasm.elems |-> Len(wasm.elems[k].funcs)]
      BY <2>3, <3>1 DEF ElemsDone
    <3>3. ElemsDone' = [k \in DOMAIN wasm.elems |-> Len(wasm.elems[k].funcs)]
      BY <1>1, <2>3 DEF ElemsDone
    <3> QED
      BY <3>2, <3>3
  <2>4. CASE list \in 3..4
    BY <1>1, <2>4 DEF ElemsDone
  <2> QED
    BY <1>1, <2>2, <2>3, <2>4
<1>6. DataDone' = DataDone
  <2>1. Len(wasm.data) \in Nat /\ DOMAIN wasm.data = 1..Len(wasm.data)
    BY <1>1, Segments DEF Listed
  <2>2. CASE list \in 1..2
    <3>1. DataDone = [k \in DOMAIN wasm.data |-> 0]
      BY <2>2 DEF DataDone
    <3>2. DataDone' = [k \in DOMAIN wasm.data |-> 0]
      <4>1. wasm' = wasm /\ list' \in 2..3 /\ i' = 1
        BY <1>1, <2>2
      <4>2. \A k \in DOMAIN wasm.data : ~(k < 1)
        BY <2>1
      <4> QED
        BY <4>1, <4>2 DEF DataDone
    <3> QED
      BY <3>1, <3>2
  <2>3. CASE list = 3
    <3>1. \A k \in DOMAIN wasm.data : k < i
      <4>1. i \notin 1..Len(wasm.data)
        BY <1>1, <2>1, <2>3, Entries
      <4> QED
        BY <1>1, <2>1, <4>1
    <3>2. DataDone = [k \in DOMAIN wasm.data |-> Len(wasm.data[k].bytes)]
      BY <2>3, <3>1 DEF DataDone
    <3>3. DataDone' = [k \in DOMAIN wasm.data |-> Len(wasm.data[k].bytes)]
      BY <1>1, <2>3 DEF DataDone
    <3> QED
      BY <3>2, <3>3
  <2>4. CASE list = 4
    BY <1>1, <2>4 DEF DataDone
  <2> QED
    BY <1>1, <2>2, <2>3, <2>4
<1>7. TableInv'
  BY <1>1, <1>2, <1>5, SameTable DEF Built
<1>8. MemoryInv'
  BY <1>1, <1>6, SameMemory DEF Built
<1>9. RoomInv'
  <2>1. Len(wasm.tables) = 1 /\ list = 1 => i >= 2
    <3>1. Len(wasm.tables) \in Nat /\ DOMAIN wasm.tables = 1..Len(wasm.tables)
      BY <1>1, Segments
    <3>2. list = 1 => i \notin 1..Len(wasm.tables)
      BY <1>1, <3>1, Entries
    <3> QED
      BY <1>1, <3>1, <3>2
  <2>2. list' <= 4 => status' = "running"
    BY <1>1
  <2>3. Len(wasm.tables) = 1 /\ (list' >= 2 \/ i' >= 2) => list >= 2 \/ i >= 2
    BY <1>1, <2>1
  <2> QED
    BY <1>1, <2>2, <2>3, SameRoom DEF Built
<1> QED
  BY <1>3, <1>4, <1>7, <1>8, <1>9 DEF Built

(* What a valid module never meets.                                        *)
LEMMA NoBadExpr ==
  ASSUME TypeInv, ValidModule(wasm), Built
  PROVE  ~EmptyExpr /\ ~BadOffset
<1>1. ASSUME EmptyExpr PROVE FALSE
  <2>1. HasEntry /\ ThisEntry.expr = << >>
    BY <1>1, RunningExpr DEF EmptyExpr, HasEntry, TypeInv
  <2>2. ValidExpr(wasm, ThisEntry.expr, ThisType, Len(globals))
    BY <2>1, ThisValid
  <2>3. Len(ThisEntry.expr) # 0
    BY <2>2, EndStack
  <2> QED
    BY <2>1, <2>3
<1>2. ASSUME BadOffset PROVE FALSE
  <2>1. Evaluated("elems") \/ Evaluated("data")
    BY <1>2 DEF BadOffset
  <2>2. list \in {2, 3}
    BY <2>1, Entries DEF Evaluated, TypeInv
  <2>3. stack # << >> /\ Last(stack) = Operand(ThisType, ValueOf(ThisEntry.expr, globals))
    BY <2>1, Finished
  <2>4. Last(stack).t = "I32"
    BY <2>2, <2>3 DEF ThisType, Operand
  <2> QED
    BY <1>2, <2>3, <2>4 DEF BadOffset, OffsetOk
<1> QED
  BY <1>1, <1>2

(* A step of the constructor, and a step of fd_write.                      *)
LEMMA ConstructorBuilds ==
  ASSUME TypeInv, BuildInv, Next
  PROVE  BuildInv'
<1>1. wasm' = wasm
  BY DEF Next, NextList, ReserveTable, EmptyExpr, Const, GlobalGet, Add, BadOffset, TakeOffset,
         PlaceEntry, EndElement, CopyData, TakeGlobal, Fail, NextEntry, Push
<1> SUFFICES ASSUME ValidModule(wasm) PROVE Built'
  BY <1>1 DEF BuildInv
<1>2. Built /\ TypeInv'
  BY ConstructorTypes DEF BuildInv
<1>3. CASE NextList
  BY <1>2, <1>3, NextListBuilds
<1>4. CASE ReserveTable
  BY <1>2, <1>4, ReserveBuilds
<1>5. CASE EmptyExpr \/ BadOffset
  BY <1>2, <1>5, NoBadExpr
<1>6. CASE Const \/ GlobalGet \/ Add
  BY <1>2, <1>6, InstructionBuilds
<1>7. CASE TakeOffset
  BY <1>2, <1>7, OffsetBuilds
<1>8. CASE PlaceEntry
  BY <1>2, <1>8, PlaceBuilds
<1>9. CASE EndElement
  BY <1>2, <1>9, ElementEndBuilds
<1>10. CASE CopyData
  BY <1>2, <1>10, CopyBuilds
<1>11. CASE TakeGlobal
  BY <1>2, <1>11, GlobalBuilds
<1> QED
  BY <1>3, <1>4, <1>5, <1>6, <1>7, <1>8, <1>9, <1>10, <1>11 DEF Next

(* The steps of fd_write keep what the constructor built.                  *)
LEMMA CallBuilds ==
  ASSUME TypeInv, BuildInv, CallImport \/ WriteChunk \/ ReturnSuccess
  PROVE  BuildInv'
<1>1. list = 5 /\ j \in Nat
  BY CallTypes DEF TypeInv, PlaceInv
<1>2. ASSUME NEW how \in {"aborted", "undefined"}, EndCall(how) PROVE BuildInv'
  <2>1. Fail(how) /\ wasm' = wasm
    BY <1>2 DEF EndCall, Fail
  <2> QED
    BY <1>1, <2>1, FailBuilt DEF BuildInv
<1>3. ASSUME status' \in {"calling", "returned"},
             UNCHANGED <<wasm, function_table, globals, list, i, pc, offset, j>>
      PROVE  BuildInv'
  <2> SUFFICES ASSUME ValidModule(wasm) PROVE Built'
    BY <1>3 DEF BuildInv
  <2>1. Built /\ status' \notin {"running", "constructed"}
    BY <1>3 DEF BuildInv
  <2>2. j = 0
    BY <1>1, <2>1 DEF Built, StackInv
  <2>3. StackInv'
    BY <1>3, <2>1, <2>2 DEF StackInv
  <2>4. GlobalsInv'
    BY <1>3, <2>1, SameGlobals DEF Built
  <2>5. TableInv'
    <3>1. ElemsDone' = ElemsDone
      BY <1>3, SameDone
    <3> QED
      BY <1>3, <2>1, <2>2, <3>1, SameTable DEF Built
  <2>6. MemoryInv'
    BY <2>1 DEF MemoryInv
  <2>7. RoomInv'
    BY <1>1, <1>3, <2>1, SameRoom DEF Built
  <2> QED
    BY <2>3, <2>4, <2>5, <2>6, <2>7 DEF Built
<1>4. CASE CallImport
  <2>1. /\ status' \in {"calling", "returned"}
        /\ UNCHANGED <<wasm, function_table, globals, list, i, pc, offset, j>>
    BY <1>4 DEF CallImport
  <2> QED
    BY <1>3, <2>1
<1>5. CASE WriteChunk
  <2>1. \/ \E how \in {"aborted", "undefined"} : EndCall(how)
        \/ UNCHANGED vars /\ status = "calling"
    BY <1>5 DEF WriteChunk
  <2>2. UNCHANGED vars => UNCHANGED <<wasm, function_table, globals, list, i, pc, offset, j, status>>
    BY DEF vars
  <2> QED
    BY <1>2, <1>3, <2>1, <2>2
<1>6. CASE ReturnSuccess
  <2>1. \/ \E how \in {"aborted", "undefined"} : EndCall(how)
        \/ /\ status' \in {"calling", "returned"}
           /\ UNCHANGED <<wasm, function_table, globals, list, i, pc, offset, j>>
    BY <1>6 DEF ReturnSuccess
  <2> QED
    BY <1>2, <1>3, <2>1
<1> QED
  BY <1>4, <1>5, <1>6

(* Initially nothing is built, and memory is zeros.                        *)
LEMMA InitBuilds == Init => BuildInv
<1> SUFFICES ASSUME Init, ValidModule(wasm) PROVE Built
  BY DEF BuildInv
<1>0. /\ wasm \in Modules /\ memory = [a \in 1..PageSize |-> 0]
      /\ function_table = << >> /\ globals = << >> /\ stack = << >>
      /\ list = 1 /\ i = 1 /\ pc = 1 /\ offset = 0 /\ j = 0 /\ status = "running"
  BY DEF Init
<1>1. StackInv
  BY <1>0 DEF StackInv, HasEntry
<1>2. GlobalsInv
  BY <1>0 DEF GlobalsInv
<1>3. TableInv
  BY <1>0 DEF TableInv
<1>4. MemoryInv
  <2>1. \A k \in DOMAIN MemoryWrites(wasm) : DataDone[k] = 0
    BY <1>0 DEF MemoryWrites, DataDone
  <2> HIDE DEF MemoryWrites, DataDone
  <2>2. \A a : Put(MemoryWrites(wasm), DataDone, a) = 0
    BY <2>1, PutNothing
  <2> QED
    BY <1>0, <2>2 DEF MemoryInv
<1>5. RoomInv
  BY <1>0 DEF RoomInv
<1> QED
  BY <1>1, <1>2, <1>3, <1>4, <1>5 DEF Built

(* A step in which nothing changes.                                        *)
LEMMA StutterKeeps ==
  ASSUME TypeInv, BuildInv, UNCHANGED vars
  PROVE  TypeInv' /\ BuildInv'
<1>1. UNCHANGED <<wasm, memory, function_table, globals, stack, list, i, pc, offset, j, status>>
  BY DEF vars
<1>2. TypeInv'
  BY <1>1 DEF TypeInv, PlaceInv, DataInv, MemoryTyped
<1>3. BuildInv'
  <2> SUFFICES ASSUME ValidModule(wasm) PROVE Built'
    BY <1>1 DEF BuildInv
  <2>1. Built
    BY DEF BuildInv
  <2>2. ElemsDone' = ElemsDone /\ DataDone' = DataDone
    BY <1>1, SameDone
  <2>3. StackInv'
    <3>1. /\ HasEntry' = HasEntry /\ AtEntry' = AtEntry
          /\ ThisEntry' = ThisEntry /\ ThisType' = ThisType
      BY <1>1 DEF HasEntry, AtEntry, ThisEntry, ThisType
    <3>2. TableWrites(wasm)' = TableWrites(wasm)
      BY <1>1 DEF TableWrites
    <3>3. StackAt(ThisEntry.expr, ThisType, pc, globals)' = StackAt(ThisEntry.expr, ThisType, pc, globals)
      BY <1>1, <3>1 DEF StackAt
    <3> QED
      BY <1>1, <2>1, <3>1, <3>2, <3>3 DEF Built, StackInv
  <2>4. GlobalsInv'
    BY <1>1, <2>1, SameGlobals DEF Built
  <2>5. TableInv'
    <3>1. j' >= 2 => offset' + j' - 2 < Len(function_table)
      BY <1>1, <2>1 DEF Built, TableInv
    <3> QED
      BY <1>1, <2>1, <2>2, <3>1, SameTable DEF Built
  <2>6. MemoryInv'
    BY <1>1, <2>1, <2>2, SameMemory DEF Built
  <2>7. RoomInv'
    BY <1>1, <2>1, SameRoom DEF Built, RoomInv
  <2> QED
    BY <2>3, <2>4, <2>5, <2>6, <2>7 DEF Built
<1> QED
  BY <1>2, <1>3

-----------------------------------------------------------------------------
(* Only functions write to memory once it is filled.                       *)
LEMMA MemoryKeepsType ==
  ASSUME TypeInv, MemoryTyped, Next
  PROVE  MemoryTyped'
<1>1. memory' = memory \/ CopyData
  BY DEF Next, NextList, ReserveTable, EmptyExpr, Const, GlobalGet, Add, BadOffset, TakeOffset,
         PlaceEntry, EndElement, TakeGlobal, Fail, Push
<1>2. CASE memory' = memory
  BY <1>2 DEF MemoryTyped
<1>3. CASE CopyData /\ memory' # memory
  <2>1. status' = "running"
    BY <1>3 DEF CopyData, Evaluated, In, Fail, NextEntry
  <2>2. TypeInv'
    BY <1>3, DataTypes
  <2> QED
    BY <2>1, <2>2 DEF TypeInv, DataInv
<1> QED
  BY <1>1, <1>2, <1>3

(* What the invariants say of a state of the constructor.                  *)
LEMMA Sound ==
  ASSUME TypeInv, MemoryTyped, BuildInv
  PROVE  ConstructorInv
<1>1. TypeOK
  <2>1. /\ list \in 1..5 /\ i \in Nat \ {0} /\ wasm \in Modules
        /\ list <= 4 => i <= Len(wasm[Lists[list]]) + 1
        /\ Len(globals) = CASE list < 4 -> 0 [] list = 4 -> i - 1 [] OTHER -> Len(wasm.globals)
    BY DEF TypeInv, PlaceInv
  <2>2. list <= 4 => Len(wasm[Lists[list]]) \in Nat
    <3>1. /\ Len(wasm.tables) \in Nat /\ Len(wasm.elems) \in Nat
          /\ Len(wasm.data) \in Nat /\ Len(wasm.globals) \in Nat
      BY <2>1, Segments DEF Listed
    <3> QED
      BY <2>1, <3>1, Entries DEF TypeInv
  <2>3. list <= 4 => i \in 1..(Len(wasm[Lists[list]]) + 1)
    BY <2>1, <2>2
  <2>4. \A k \in DOMAIN stack : IsValue(stack[k])
    BY TypedElement DEF TypeInv, DataInv
  <2>5. /\ function_table \in Seq(Nat)
        /\ Len(function_table) \in {0} \cup {Max({t.n, t.m}) : t \in Range(wasm.tables)}
    BY DEF TypeInv, DataInv
  <2> QED
    BY <2>1, <2>3, <2>4, <2>5 DEF TypeOK, MemoryTyped
<1>2. InstantiatesValid
  BY DEF InstantiatesValid, BuildInv, Built, RoomInv
<1>3. ExpressionsAreSeparate
  <2> SUFFICES ASSUME ValidModule(wasm), Constructed \/ (status = "running" /\ (pc = 1 \/ j > 0))
               PROVE  stack = << >>
    BY DEF ExpressionsAreSeparate
  <2>1. StackInv /\ j \in Nat
    BY DEF BuildInv, Built, TypeInv, PlaceInv
  <2>2. CASE Constructed
    BY <2>1, <2>2 DEF Constructed, StackInv
  <2>3. CASE status = "running" /\ HasEntry /\ j = 0
    <3>1. pc = 1
      BY <2>3 DEF Constructed
    <3> QED
      BY <2>1, <2>3, <3>1 DEF StackInv, StackAt
  <2>4. CASE status = "running" /\ ~(HasEntry /\ j = 0)
    BY <2>1, <2>4 DEF StackInv
  <2> QED
    BY <2>2, <2>3, <2>4
<1> QED
  BY <1>1, <1>2, <1>3 DEF ConstructorInv

(* The state of the constructor has its types, no assert and no write out  *)
(* of bounds stops a valid module whose segments fit, and no expression    *)
(* finds operands of another one.                                          *)
THEOREM ConstructorIsSound == Spec => []ConstructorInv
<1>1. Init => TypeInv /\ MemoryTyped /\ BuildInv
  BY InitTypes, InitBuilds
<1>2. TypeInv /\ MemoryTyped /\ BuildInv /\ [Next]_vars => (TypeInv /\ MemoryTyped /\ BuildInv)'
  <2> SUFFICES ASSUME TypeInv, MemoryTyped, BuildInv, [Next]_vars
               PROVE  (TypeInv /\ MemoryTyped /\ BuildInv)'
    OBVIOUS
  <2>1. CASE Next
    BY <2>1, ConstructorTypes, MemoryKeepsType, ConstructorBuilds
  <2>2. CASE UNCHANGED vars
    BY <2>2, StutterKeeps DEF MemoryTyped, vars
  <2> QED
    BY <2>1, <2>2
<1>3. TypeInv /\ MemoryTyped /\ BuildInv => ConstructorInv
  BY Sound
<1> QED
  BY <1>1, <1>2, <1>3, PTL DEF Spec

(* The globals, the table and the memory of a constructed module.          *)
LEMMA BuiltIsDeclared ==
  ASSUME TypeInv, BuildInv
  PROVE  BuiltAsDeclared
<1> SUFFICES ASSUME Constructed, ValidModule(wasm)
             PROVE  BuiltAsDeclared
  BY DEF BuiltAsDeclared, TableOfSegments, MemoryOfSegments, GlobalsOfExpressions
<1>1. /\ list = 5 /\ wasm \in Modules /\ Len(globals) = Len(wasm.globals)
      /\ GlobalsInv /\ TableInv /\ MemoryInv /\ MemoryTyped
  BY DEF Constructed, TypeInv, PlaceInv, DataInv, BuildInv, Built
<1>2. \A a : Put(TableWrites(wasm), ElemsDone, a) = PutAt(TableWrites(wasm), a)
  <2>1. PICK writes, len : writes = TableWrites(wasm) /\ len = ElemsDone
    OBVIOUS
  <2>2. \A k \in DOMAIN writes : len[k] = Len(writes[k].what)
    BY <1>1, <2>1 DEF TableWrites, ElemsDone
  <2>3. \A a : Put(writes, len, a) = PutAt(writes, a)
    BY <2>2, PutIsPutAt
  <2> QED
    BY <2>1, <2>3
<1>3. \A a : Put(MemoryWrites(wasm), DataDone, a) = PutAt(MemoryWrites(wasm), a)
  <2>1. PICK writes, len : writes = MemoryWrites(wasm) /\ len = DataDone
    OBVIOUS
  <2>2. \A k \in DOMAIN writes : len[k] = Len(writes[k].what)
    BY <1>1, <2>1 DEF MemoryWrites, DataDone
  <2>3. \A a : Put(writes, len, a) = PutAt(writes, a)
    BY <2>2, PutIsPutAt
  <2> QED
    BY <2>1, <2>3
<1>4. TableOfSegments
  <2>1. function_table = [k \in 1..Len(function_table) |-> function_table[k]]
    BY TableBound
  <2>2. \A k \in 1..Len(function_table) : function_table[k] = PutAt(TableWrites(wasm), k - 1)
    BY <1>1, <1>2 DEF TableInv
  <2> QED
    BY <2>1, <2>2 DEF TableOfSegments
<1>5. MemoryOfSegments
  <2>1. Len(memory) = PageSize /\ memory = [k \in 1..PageSize |-> memory[k]]
    BY <1>1 DEF MemoryTyped
  <2>2. \A k \in 1..PageSize : memory[k] = PutAt(MemoryWrites(wasm), k - 1)
    BY <1>1, <1>3 DEF MemoryInv, Constructed
  <2> QED
    BY <2>1, <2>2 DEF MemoryOfSegments
<1>6. GlobalsOfExpressions
  <2>1. DOMAIN wasm.globals = 1..Len(globals)
    BY <1>1, Segments DEF Listed
  <2>2. globals = [k \in 1..Len(globals) |-> globals[k]]
    BY DEF TypeInv, DataInv, TypedGlobals
  <2>3. \A k \in 1..Len(globals) :
          globals[k] = [mut |-> wasm.globals[k].mut,
                        value |-> [t |-> wasm.globals[k].t,
                                   v |-> ValueOf(wasm.globals[k].expr, globals)]]
    BY <1>1 DEF GlobalsInv, Operand
  <2> QED
    BY <2>1, <2>2, <2>3 DEF GlobalsOfExpressions
<1> QED
  BY <1>4, <1>5, <1>6 DEF BuiltAsDeclared

(* A valid module that has been constructed has the table and the memory   *)
(* its segments write, the last one of those that overlap on top, and      *)
(* globals of the values of their expressions: calls of fd_write included. *)
THEOREM ConstructsWhatIsDeclared == HostSpec => []BuiltAsDeclared
<1>1. HostInit => TypeInv /\ BuildInv
  BY InitTypes, InitBuilds DEF HostInit
<1>2. TypeInv /\ BuildInv /\ [HostNext]_<<vars, hostvars>> => (TypeInv /\ BuildInv)'
  <2> SUFFICES ASSUME TypeInv, BuildInv, [HostNext]_<<vars, hostvars>>
               PROVE  (TypeInv /\ BuildInv)'
    OBVIOUS
  <2>1. CASE Next
    BY <2>1, ConstructorTypes, ConstructorBuilds
  <2>2. CASE CallImport \/ WriteChunk \/ ReturnSuccess
    BY <2>2, CallTypes, CallBuilds
  <2>3. CASE UNCHANGED vars
    BY <2>3, StutterKeeps
  <2> QED
    BY <2>1, <2>2, <2>3 DEF HostNext
<1>3. TypeInv /\ BuildInv => BuiltAsDeclared
  BY BuiltIsDeclared
<1> QED
  BY <1>1, <1>2, <1>3, PTL DEF HostSpec
-----------------------------------------------------------------------------
(* fd_write.  Memory holds bytes, and a number is composed of Word of them.*)
HostMemory == memory \in Seq(0..(Byte - 1)) /\ Len(memory) = PageSize

(* A sequence is a function on the positions up to its length.             *)
LEMMA SeqIsFunction ==
  ASSUME NEW S, NEW q \in Seq(S)
  PROVE  Len(q) \in Nat /\ DOMAIN q = 1..Len(q) /\ \A k \in 1..Len(q) : q[k] \in S
OBVIOUS

(* A function on 1..n is a sequence of length n.                           *)
LEMMA FunctionIsSeq ==
  ASSUME NEW S, NEW n \in Nat, NEW q \in [1..n -> S]
  PROVE  q \in Seq(S) /\ Len(q) = n
OBVIOUS

(* A word of the memory is below Space.                                    *)
LEMMA WordType ==
  ASSUME HostMemory, NEW a \in Nat, Within(a, Word)
  PROVE  WordAt(memory, a) \in 0..(Space - 1)
<1> DEFINE d == [b \in 1..Word |-> memory[a + b]]
<1>1. Byte \in Nat \ {0} /\ Word \in Nat /\ Power(Byte, Word) = Space
  BY HostAssumption
<1>2. Digits(Byte, d, Word)
  <2>1. \A b \in 1..Word : a + b \in 1..Len(memory)
    BY <1>1, SeqIsFunction DEF Within, HostMemory
  <2>2. \A q \in 1..Len(memory) : memory[q] \in 0..(Byte - 1)
    BY SeqIsFunction DEF HostMemory
  <2> QED
    BY <1>1, <2>1, <2>2 DEF Digits
<1>3. WordAt(memory, a) = Composed(Byte, d, Word)
  BY DEF WordAt, Composed
<1> HIDE DEF d
<1> QED
  BY <1>1, <1>2, <1>3, ComposedRange

(* A sequence of remainders is one of integers.                            *)
LEMMA SeqInts ==
  ASSUME NEW n \in Int, NEW q \in Seq(0..(n - 1))
  PROVE  q \in Seq(Int)
<1>1. q \in [1..Len(q) -> Int] /\ Len(q) \in Nat
  <2> DEFINE S == 0..(n - 1)
  <2>1. S \subseteq Int /\ q \in Seq(S)
    OBVIOUS
  <2> HIDE DEF S
  <2> QED
    BY <2>1
<1> QED
  BY <1>1, FunctionIsSeq

(* The length of a line: the bytes and the newline.                        *)
LEMMA LineLength ==
  ASSUME NEW q \in Seq(Int), NEW b \in Nat, NEW n \in Nat, b + n <= Len(q), NEW x \in Int
  PROVE  Len(SubSeq(q, b + 1, b + n) \o <<x>>) - 1 = n
OBVIOUS

(* What is written can be read back, and the rest stays.                   *)
LEMMA PokeWrites ==
  ASSUME HostMemory, NEW a \in Nat, Within(a, Word), NEW v \in 0..(Space - 1), NEW mem, mem = Poke(a, v)
  PROVE  /\ mem \in Seq(0..(Byte - 1)) /\ Len(mem) = Len(memory)
         /\ WordAt(mem, a) = v
         /\ \A p \in DOMAIN memory : p - a \notin 1..Word => mem[p] = memory[p]
<1> DEFINE new(p) == IF p - a \in 1..Word THEN DigitOf(Byte, v, p - a - 1) ELSE memory[p]
           d == [b \in 1..Word |-> mem[a + b]]
<1>1. Byte \in Nat \ {0} /\ Word \in Nat /\ Power(Byte, Word) = Space /\ Space \in Nat \ {0}
  BY HostAssumption, InstantiationAssumption
<1>2. DOMAIN memory = 1..Len(memory) /\ Len(memory) \in Nat
  BY SeqIsFunction DEF HostMemory
<1>3. mem = [p \in 1..Len(memory) |-> new(p)]
  BY <1>2 DEF Poke, DigitOf
<1>4. \A p \in 1..Len(memory) : new(p) \in 0..(Byte - 1)
  <2> SUFFICES ASSUME NEW p \in 1..Len(memory), p - a \in 1..Word
               PROVE  DigitOf(Byte, v, p - a - 1) \in 0..(Byte - 1)
    BY SeqIsFunction DEF HostMemory
  <2>1. p - a - 1 \in Nat /\ v \in Int
    BY <1>1, <1>2
  <2>2. Power(Byte, p - a - 1) \in Nat \ {0}
    BY <1>1, <2>1, PowerPositive
  <2> DEFINE y == v \div Power(Byte, p - a - 1)
  <2>3. y \in Int
    BY <2>1, <2>2, DivMod
  <2>4. DigitOf(Byte, v, p - a - 1) = y % Byte
    BY DEF DigitOf
  <2> HIDE DEF y
  <2> QED
    BY <1>1, <2>3, <2>4, DivMod
<1>5. mem \in Seq(0..(Byte - 1)) /\ Len(mem) = Len(memory)
  <2> HIDE DEF new
  <2>1. mem \in [1..Len(memory) -> 0..(Byte - 1)]
    BY <1>3, <1>4
  <2> QED
    BY <1>2, <2>1, FunctionIsSeq
<1>6. \A b \in 1..Word : d[b] = DigitOf(Byte, v, b - 1)
  <2> TAKE b \in 1..Word
  <2>1. a + b \in 1..Len(memory) /\ (a + b) - a = b /\ (a + b) - a - 1 = b - 1
    BY <1>1, <1>2 DEF Within
  <2>2. mem[a + b] = new(a + b)
    <3> HIDE DEF new
    <3> QED
      BY <1>3, <2>1
  <2> QED
    BY <2>1, <2>2
<1>7. WordAt(mem, a) = v
  <2>1. WordAt(mem, a) = Composed(Byte, d, Word)
    BY DEF WordAt, Composed
  <2> HIDE DEF d
  <2>2. Composed(Byte, d, Word) = v % Power(Byte, Word)
    BY <1>1, <1>6, v \in Int, DigitsCompose
  <2>3. v % Space = v
    BY <1>1, ModSmall
  <2> QED
    BY <1>1, <2>1, <2>2, <2>3
<1> QED
  BY <1>2, <1>3, <1>5, <1>7

(* The segments fill memory with bytes.                                    *)
LEMMA ConstructorKeepsBytes ==
  ASSUME HostMemory, PlaceInv, Next
  PROVE  HostMemory'
<1>1. CASE memory' = memory
  BY <1>1 DEF HostMemory
<1>2. CASE memory' # memory
  <2>1. CopyData /\ memory' # memory
    BY <1>2 DEF Next, NextList, ReserveTable, EmptyExpr, Const, GlobalGet, Add, BadOffset, TakeOffset,
                PlaceEntry, EndElement, TakeGlobal, Fail, Push
  <2> DEFINE o == Last(stack).v
             bytes == ThisEntry.bytes
  <2>2. memory' = Overwritten(o, bytes) /\ list = 3 /\ AtEntry
    <3>1. In("data") /\ AtEntry
      BY <2>1 DEF CopyData, Evaluated
    <3>2. list = 3
      BY <3>1, Entries
    <3> QED
      BY <2>1, <3>1, <3>2 DEF CopyData, Fail
  <2>3. bytes \in Seq(0..(Byte - 1))
    <3>1. \A k \in DOMAIN wasm.data : wasm.data[k].bytes \in Seq(0..(Byte - 1))
      BY HostAssumption DEF Range, PlaceInv
    <3>2. ThisEntry = wasm.data[i] /\ i \in DOMAIN wasm.data
      BY <2>2, Entries
    <3> QED
      BY <3>1, <3>2
  <2> DEFINE new(a) == IF a - o \in DOMAIN bytes THEN bytes[a - o] ELSE memory[a]
  <2>4. Len(memory) \in Nat /\ \A a \in 1..Len(memory) : new(a) \in 0..(Byte - 1)
    <3> HIDE DEF bytes
    <3>1. \A k \in DOMAIN bytes : bytes[k] \in 0..(Byte - 1)
      BY <2>3, SeqIsFunction
    <3>2. Len(memory) \in Nat /\ \A a \in 1..Len(memory) : memory[a] \in 0..(Byte - 1)
      BY SeqIsFunction DEF HostMemory
    <3> QED
      BY <3>1, <3>2
  <2>5. memory' = [a \in 1..Len(memory) |-> new(a)]
    BY <2>2, SeqIsFunction DEF Overwritten, HostMemory
  <2> HIDE DEF new
  <2>6. memory' \in [1..Len(memory) -> 0..(Byte - 1)]
    BY <2>4, <2>5
  <2>7. memory' \in Seq(0..(Byte - 1)) /\ Len(memory') = Len(memory)
    BY <2>4, <2>6, FunctionIsSeq
  <2> QED
    BY <2>7 DEF HostMemory
<1> QED
  BY <1>1, <1>2

(* The constructor runs before any call, and stops in one of these states. *)
LEMMA ConstructorRuns ==
  ASSUME Next
  PROVE  status = "running" /\ status' \in {"running", "constructed", "aborted", "undefined"}
<1>1. ASSUME NEW how \in {"aborted", "undefined"}, Fail(how) PROVE status' \in {"aborted", "undefined"}
  BY <1>1 DEF Fail
<1>2. NextEntry => status' = status
  BY DEF NextEntry
<1>3. CASE NextList
  BY <1>3 DEF NextList
<1>4. CASE ReserveTable
  BY <1>1, <1>2, <1>4 DEF ReserveTable, In
<1>5. CASE EmptyExpr \/ BadOffset
  BY <1>1, <1>5 DEF EmptyExpr, BadOffset, HasExpr, Evaluated, In
<1>6. CASE Const \/ GlobalGet \/ Add
  BY <1>1, <1>6 DEF Const, GlobalGet, Add, Running, HasExpr, In, Push
<1>7. CASE TakeOffset \/ PlaceEntry
  BY <1>1, <1>7 DEF TakeOffset, PlaceEntry, Evaluated, In
<1>8. CASE EndElement \/ CopyData \/ TakeGlobal
  BY <1>1, <1>2, <1>8 DEF EndElement, CopyData, TakeGlobal, Evaluated, In
<1> QED
  BY <1>3, <1>4, <1>5, <1>6, <1>7, <1>8 DEF Next

(* Where the latest call is.                                               *)
CallInv ==
  /\ call \in Calls \cup {NoCall} /\ calls \in Nat
  /\ calls = 0 => status \notin {"calling", "returned"} /\ call = NoCall
  /\ calls > 0 => status \in {"calling", "returned", "aborted", "undefined"}
  /\ at \in 0..call.len /\ written \in 0..(Space - 1)
  /\ Len(out) = at

(* What it has done: the vectors before the counter lay in memory and have *)
(* been written, and their bytes counted.  One that does not stops it.     *)
WriteInv ==
  /\ status = "calling" =>
       /\ \A m \in 0..(at - 1) : Fits(m)
       /\ out = [m \in 1..at |-> Text(m - 1)]
       /\ written = SumOf([m \in 1..at |-> Len(out[m].bytes) - 1]) % Space
  /\ FittingVectorsAreWritten

FdWriteInv == HostMemory /\ CallInv /\ WriteInv

(* The operands are uint32_t.                                              *)
LEMMA CallTyped ==
  ASSUME CallInv
  PROVE  /\ call.fd \in Nat /\ call.iovs \in 0..(Space - 1) /\ call.len \in 0..(Space - 1)
         /\ call.nwritten \in 0..(Space - 1)
         /\ call.iovs \in Nat /\ call.len \in Nat /\ call.nwritten \in Nat
<1>1. Space \in Nat \ {0}
  BY InstantiationAssumption
<1>2. CASE call \in Calls
  <2>1. call \in [fd : Nat, iovs : 0..(Space - 1), len : 0..(Space - 1), nwritten : 0..(Space - 1)]
    BY <1>2, HostAssumption
  <2> QED
    BY <1>1, <2>1
<1>3. CASE call = NoCall
  BY <1>1, <1>3 DEF NoCall
<1> QED
  BY <1>2, <1>3 DEF CallInv

(* Addresses below the size of memory do not wrap.                         *)
LEMMA PlusSmall ==
  ASSUME NEW a \in Nat, NEW b \in Nat, a + b < Space
  PROVE  Plus(a, b) = a + b
<1>1. Space \in Nat \ {0}
  BY InstantiationAssumption
<1>2. a + b \in 0..(Space - 1)
  BY <1>1
<1> DEFINE c == a + b
<1>3. c % Space = c
  <2> HIDE DEF c
  <2> QED
    BY <1>1, <1>2, ModSmall DEF c
<1> QED
  BY <1>3 DEF Plus

(* The addresses of the next vector, after vectors that fit, are the ones  *)
(* meant, as long as the vector itself lies in memory.                     *)
LEMMA Addresses ==
  ASSUME FdWriteInv, status = "calling"
  PROVE  /\ VectorAt(at) \in Nat /\ BaseAt(at) = VectorAt(at)
         /\ Word \in Nat \ {0} /\ Len(memory) \in Nat /\ Len(memory) < Space
         /\ Within(VectorAt(at), Word) => LenAt(at) = VectorAt(at) + Word
<1>1. /\ Space \in Nat \ {0} /\ PageSize \in 1..(Space - 1) /\ Word \in Nat \ {0}
      /\ Len(memory) = PageSize /\ at \in Nat /\ call.iovs \in 0..(Space - 1)
  BY InstantiationAssumption, HostAssumption, CallTyped DEF FdWriteInv, HostMemory, CallInv
<1> DEFINE w == 2 * Word
<1>2. w \in Nat /\ w * at \in Nat /\ VectorAt(at) = call.iovs + w * at
  BY <1>1 DEF VectorAt
<1>3. VectorAt(at) < Space
  <2>1. CASE at = 0
    BY <1>1, <1>2, <2>1
  <2>2. CASE at # 0
    <3>1. Fits(at - 1)
      BY <1>1, <2>2 DEF FdWriteInv, WriteInv
    <3>2. call.iovs + w * (at - 1) + w <= Len(memory)
      BY <3>1 DEF Fits, VectorAt
    <3>3. w * (at - 1) + w = w * at /\ w * (at - 1) \in Int
      <4> HIDE DEF w
      <4> QED
        BY <1>1, <1>2
    <3>4. \A c, x, y, z, p, q \in Int : x + y + z <= p /\ p = q /\ q <= c - 1 /\ y + z = w * at => x + w * at < c
      <4> HIDE DEF w
      <4> QED
        BY <1>2
    <3>5. PageSize \in Int /\ PageSize <= Space - 1 /\ Len(memory) \in Int
      BY <1>1
    <3> HIDE DEF w
    <3> QED
      BY <1>1, <1>2, <3>2, <3>3, <3>4, <3>5
  <2> QED
    BY <2>1, <2>2
<1>4. BaseAt(at) = VectorAt(at)
  <2>1. BaseAt(at) = Plus(call.iovs, w * at)
    BY DEF BaseAt
  <2> HIDE DEF w
  <2> QED
    BY <1>1, <1>2, <1>3, <2>1, PlusSmall
<1>5. Within(VectorAt(at), Word) => LenAt(at) = VectorAt(at) + Word
  <2> HIDE DEF w
  <2> SUFFICES ASSUME Within(VectorAt(at), Word) PROVE LenAt(at) = VectorAt(at) + Word
    OBVIOUS
  <2>1. VectorAt(at) + Word < Space /\ VectorAt(at) \in Nat
    <3>1. \A x, y, z, c \in Nat : x + y <= z /\ z < c => x + y < c
      OBVIOUS
    <3>2. VectorAt(at) \in Nat /\ Len(memory) \in Nat /\ Len(memory) < Space
      <4>1. \A x, y, c \in Nat : x + y \in Nat
        OBVIOUS
      <4>2. call.iovs \in Nat /\ PageSize \in Nat /\ PageSize < Space
        BY <1>1
      <4> QED
        BY <1>1, <1>2, <4>1, <4>2
    <3> QED
      BY <1>1, <3>1, <3>2 DEF Within
  <2> QED
    BY <1>1, <1>4, <2>1, PlusSmall DEF LenAt
<1> QED
  BY <1>1, <1>2, <1>4, <1>5

(* Vectors that fit pass all checks.                                       *)
LEMMA FittingPasses ==
  ASSUME FdWriteInv, status = "calling", Fits(at)
  PROVE  /\ ReadAllowed(BaseAt(at)) /\ Within(BaseAt(at), Word)
         /\ ReadAllowed(LenAt(at)) /\ Within(LenAt(at), Word)
         /\ Subscripts(WordAt(memory, BaseAt(at)), WordAt(memory, LenAt(at)))
<1> DEFINE a == VectorAt(at)
<1>1. /\ a \in Nat /\ BaseAt(at) = a /\ Word \in Nat \ {0} /\ Len(memory) \in Nat
      /\ Len(memory) < Space
      /\ Within(a, Word) => LenAt(at) = a + Word
  BY Addresses
<1>2. a + 2 * Word <= Len(memory)
  BY DEF Fits
<1>3. Space \in Nat
  BY InstantiationAssumption
<1> HIDE DEF a
<1>4. Within(a, Word) /\ Within(a + Word, Word) /\ LenAt(at) = a + Word
  <2>1. \A x, y, z \in Nat : x + 2 * y <= z => x + y <= z /\ (x + y) + y <= z
    OBVIOUS
  <2>2. Within(a, Word) /\ Within(a + Word, Word)
    BY <1>1, <1>2, <2>1 DEF Within
  <2> QED
    BY <1>1, <2>2
<1>5. Plus(a, Word) = a + Word /\ Plus(a + Word, Word) = (a + Word) + Word
  <2>1. a + Word \in Nat /\ a + Word < Space /\ (a + Word) + Word < Space
    <3>1. \A x, y, z, c \in Nat : x + 2 * y <= z /\ z < c => x + y \in Nat /\ x + y < c /\ (x + y) + y < c
      OBVIOUS
    <3> QED
      BY <1>1, <1>2, <1>3, <3>1
  <2> QED
    BY <1>1, <2>1, PlusSmall
<1>6. ReadAllowed(a) /\ ReadAllowed(a + Word)
  BY <1>1, <1>2, <1>5 DEF ReadAllowed
<1> QED
  BY <1>1, <1>4, <1>6 DEF a, Fits, Subscripts

(* A step of the loop stops the call, at a vector that does not fit, or    *)
(* writes one that does.                                                   *)
LEMMA WriteChunkIs ==
  ASSUME FdWriteInv, WriteChunk
  PROVE  \/ ~Fits(at) /\ (EndCall("aborted") \/ EndCall("undefined"))
         \/ /\ Fits(at) /\ UNCHANGED <<vars, call, calls>>
            /\ out' = Append(out, Text(at))
            /\ written' = Plus(written, Len(Text(at).bytes) - 1) /\ at' = at + 1
            /\ Len(Text(at).bytes) - 1 \in Nat
<1> DEFINE a == VectorAt(at)
           base == WordAt(memory, BaseAt(at))
           len == WordAt(memory, LenAt(at))
<1>0. status = "calling" /\ HostMemory
  BY DEF WriteChunk, FdWriteInv
<1>1. /\ a \in Nat /\ BaseAt(at) = a /\ Word \in Nat \ {0} /\ Len(memory) \in Nat
      /\ Within(a, Word) => LenAt(at) = a + Word
  BY <1>0, Addresses
<1>2. \/ EndCall("aborted") \/ EndCall("undefined")
      \/ /\ Within(BaseAt(at), Word) /\ Within(LenAt(at), Word) /\ Subscripts(base, len)
         /\ out' = Append(out, Chunk(at)) /\ written' = Total(len) /\ at' = at + 1
         /\ UNCHANGED <<vars, call, calls>>
  BY DEF WriteChunk
<1>3. CASE EndCall("aborted") \/ EndCall("undefined")
  <2>1. ~Fits(at)
    <3> SUFFICES ASSUME Fits(at) PROVE FALSE
      OBVIOUS
    <3>1. /\ ReadAllowed(BaseAt(at)) /\ Within(BaseAt(at), Word)
          /\ ReadAllowed(LenAt(at)) /\ Within(LenAt(at), Word) /\ Subscripts(base, len)
      BY <1>0, FittingPasses
    <3>2. UNCHANGED <<vars, call, calls>> /\ at' = at + 1
      BY <3>1 DEF WriteChunk
    <3>3. at' = at /\ at \in Nat
      BY <1>3, CallTyped DEF EndCall, hostvars, FdWriteInv, CallInv
    <3> QED
      BY <3>2, <3>3
  <2> QED
    BY <1>3, <2>1
<1>4. CASE ~(EndCall("aborted") \/ EndCall("undefined"))
  <2>1. /\ Within(a, Word) /\ LenAt(at) = a + Word /\ Within(a + Word, Word) /\ Subscripts(base, len)
        /\ out' = Append(out, Chunk(at)) /\ written' = Total(len) /\ at' = at + 1
        /\ UNCHANGED <<vars, call, calls>>
    BY <1>1, <1>2, <1>4
  <2>2. base \in Nat /\ len \in Nat
    <3>1. a + Word \in Nat /\ Space \in Nat
      BY <1>1, InstantiationAssumption
    <3> HIDE DEF a
    <3>2. WordAt(memory, a) \in 0..(Space - 1) /\ WordAt(memory, a + Word) \in 0..(Space - 1)
      BY <1>0, <1>1, <2>1, <3>1, WordType
    <3> QED
      BY <1>1, <2>1, <3>1, <3>2
  <2>3. Fits(at)
    <3>1. a + 2 * Word <= Len(memory)
      BY <1>1, <2>1 DEF Within
    <3> QED
      BY <1>1, <2>1, <3>1 DEF Fits, Subscripts
  <2>4. Chunk(at) = Text(at)
    BY <1>1, <2>1 DEF Chunk, Text
  <2>5. Len(Text(at).bytes) - 1 = len
    <3>1. Text(at).bytes = SubSeq(memory, base + 1, base + len) \o <<Newline>>
      BY <1>1, <2>1 DEF Text
    <3>2. memory \in Seq(Int)
      BY <1>0, SeqInts, HostAssumption DEF HostMemory
    <3>3. base + len <= Len(memory)
      BY <1>1, <2>1, <2>2 DEF Subscripts
    <3> HIDE DEF base, len
    <3>4. Newline \in Int
      BY DEF Newline
    <3> QED
      BY <2>2, <3>1, <3>2, <3>3, <3>4, LineLength
  <2> QED
    BY <2>1, <2>2, <2>3, <2>4, <2>5 DEF Total
<1> QED
  BY <1>3, <1>4

(* Nothing written has no bytes.                                           *)
LEMMA NothingSummed ==
  ASSUME NEW lines
  PROVE  SumOf([m \in 1..0 |-> Len(lines[m].bytes) - 1]) = 0
<1> DEFINE F == [m \in 1..0 |-> Len(lines[m].bytes) - 1]
<1>1. FirstTerms(F, 0) = F
  BY DEF FirstTerms
<1> HIDE DEF F
<1>2. SumOf(F) = 0
  BY <1>1, SumEmpty
<1> QED
  BY <1>2 DEF F

(* The line of a vector that fits has as many bytes as the vector says.    *)
LEMMA FittingText ==
  ASSUME HostMemory, CallInv, NEW m \in Nat, Fits(m)
  PROVE  Len(Text(m).bytes) - 1 \in Nat
<1> DEFINE a == VectorAt(m)
           base == WordAt(memory, a)
           len == WordAt(memory, a + Word)
<1>1. Word \in Nat \ {0} /\ Byte \in Int /\ Space \in Nat /\ call.iovs \in Nat
  BY HostAssumption, InstantiationAssumption, CallTyped
<1>2. a \in Nat /\ a + Word \in Nat
  <2>1. 2 * Word * m \in Nat
    BY <1>1
  <2> QED
    BY <1>1, <2>1 DEF VectorAt
<1>3. Within(a, Word) /\ Within(a + Word, Word)
  <2>1. \A x, y \in Nat : \A z \in Int : x + 2 * y <= z => x + y <= z /\ (x + y) + y <= z
    OBVIOUS
  <2>2. Len(memory) \in Nat
    BY SeqIsFunction DEF HostMemory
  <2> HIDE DEF a
  <2> QED
    BY <1>1, <1>2, <2>1, <2>2 DEF Within, Fits, a
<1>4. base \in Nat /\ len \in Nat
  <2> HIDE DEF a
  <2>1. WordAt(memory, a) \in 0..(Space - 1) /\ WordAt(memory, a + Word) \in 0..(Space - 1)
    BY <1>2, <1>3, WordType
  <2> QED
    BY <1>1, <2>1
<1>5. Text(m).bytes = SubSeq(memory, base + 1, base + len) \o <<Newline>> /\ base + len <= Len(memory)
  <2>1. base + len < Len(memory) /\ Len(memory) \in Nat
    BY SeqIsFunction DEF Fits, HostMemory
  <2>2. base + len <= Len(memory)
    <3> HIDE DEF base, len
    <3> QED
      BY <1>4, <2>1
  <2> QED
    BY <2>2 DEF Text
<1>6. memory \in Seq(Int) /\ Newline \in Int
  BY <1>1, SeqInts DEF HostMemory, Newline
<1> HIDE DEF base, len
<1> QED
  BY <1>4, <1>5, <1>6, LineLength

(* The bytes of the first n lines of a list.                               *)
Bytes(lines, n) == SumOf([m \in 1..n |-> Len(lines[m].bytes) - 1])

(* What one more line adds to the number of bytes.                         *)
LEMMA OneMoreLine ==
  ASSUME NEW n \in Nat, NEW lines, NEW old, \A m \in 1..n : old[m] = lines[m],
         \A m \in 1..(n + 1) : Len(lines[m].bytes) - 1 \in Nat
  PROVE  /\ Bytes(old, n) \in Int
         /\ Bytes(lines, n + 1) = Bytes(old, n) + (Len(lines[n + 1].bytes) - 1)
<1> DEFINE F == [m \in 1..(n + 1) |-> Len(lines[m].bytes) - 1]
<1>1. Bytes(old, n) = SumOf(FirstTerms(F, n))
  <2>1. \A m \in 1..n : F[m] = Len(old[m].bytes) - 1
    OBVIOUS
  <2> HIDE DEF F
  <2> QED
    BY <2>1 DEF Bytes, FirstTerms
<1>2. Bytes(lines, n + 1) = SumOf(FirstTerms(F, n + 1))
  <2>1. \A m \in 1..(n + 1) : F[m] = Len(lines[m].bytes) - 1
    OBVIOUS
  <2> HIDE DEF F
  <2> QED
    BY <2>1 DEF Bytes, FirstTerms
<1>3. Terms(F, n + 1)
  BY DEF Terms
<1>4. F[n + 1] = Len(lines[n + 1].bytes) - 1
  <2>1. n + 1 \in 1..(n + 1)
    OBVIOUS
  <2> QED
    BY <2>1
<1> HIDE DEF F
<1> QED
  BY <1>1, <1>2, <1>3, <1>4, SumStep

(* What appending to a list does.                                          *)
LEMMA ListExtended ==
  ASSUME NEW S, NEW q \in Seq(S), NEW x \in S
  PROVE  /\ Append(q, x) \in Seq(S) /\ Len(Append(q, x)) = Len(q) + 1
         /\ Append(q, x)[Len(q) + 1] = x
         /\ \A m \in 1..Len(q) : Append(q, x)[m] = q[m]
OBVIOUS

(* A step of the loop, and the end of a call.                              *)
LEMMA LoopKeeps ==
  ASSUME FdWriteInv, WriteChunk
  PROVE  FdWriteInv'
<1>1. CASE ~Fits(at) /\ (EndCall("aborted") \/ EndCall("undefined"))
  <2>1. /\ status' \in {"aborted", "undefined"} /\ status = "calling" /\ at < call.len
        /\ UNCHANGED <<memory, call, calls, at, written, out>>
    BY <1>1 DEF EndCall, Fail, hostvars, WriteChunk
  <2>2. calls # 0
    BY <2>1 DEF FdWriteInv, CallInv
  <2>3. HostMemory'
    BY <2>1 DEF FdWriteInv, HostMemory
  <2>4. CallInv'
    BY <2>1, <2>2 DEF FdWriteInv, CallInv
  <2>5. ~VectorsFit'
    <3>1. at \in 0..(call.len - 1)
      BY <2>1, CallTyped DEF FdWriteInv, CallInv
    <3>2. ~VectorsFit
      BY <1>1, <3>1 DEF VectorsFit
    <3> QED
      BY <2>1, <3>2 DEF VectorsFit, Fits, VectorAt
  <2> QED
    BY <2>1, <2>3, <2>4, <2>5 DEF FdWriteInv, WriteInv, FittingVectorsAreWritten
<1>2. CASE /\ Fits(at) /\ UNCHANGED <<vars, call, calls>>
           /\ out' = Append(out, Text(at))
           /\ written' = Plus(written, Len(Text(at).bytes) - 1) /\ at' = at + 1
           /\ Len(Text(at).bytes) - 1 \in Nat
  <2>1. UNCHANGED <<memory, status, call, calls>> /\ status = "calling" /\ at < call.len
    BY <1>2 DEF vars, WriteChunk
  <2>2. /\ call.len \in Nat /\ at \in Nat /\ written \in Nat /\ Space \in Nat \ {0}
        /\ at' \in 0..call.len /\ Len(out) = at
    BY <1>2, <2>1, CallTyped, InstantiationAssumption DEF FdWriteInv, CallInv
  <2>3. HostMemory'
    BY <2>1 DEF FdWriteInv, HostMemory
  <2>4. \A m : Text(m)' = Text(m) /\ Fits(m)' = Fits(m)
    BY <2>1 DEF Text, Fits, VectorAt
  <2> DEFINE T == {Text(m) : m \in Nat}
  <2>5. out = [m \in 1..at |-> Text(m - 1)] /\ written = Bytes(out, at) % Space
        /\ \A m \in 0..(at - 1) : Fits(m)
    BY <2>1 DEF FdWriteInv, WriteInv, Bytes
  <2>6. out \in Seq(T) /\ Text(at) \in T
    <3>1. \A m \in 1..at : m - 1 \in Nat
      BY <2>2
    <3>2. out \in [1..at -> T]
      BY <2>5, <3>1
    <3> HIDE DEF T
    <3>3. out \in Seq(T)
      BY <2>2, <3>2, FunctionIsSeq
    <3> QED
      BY <2>2, <3>3 DEF T
  <2>7. /\ out' \in Seq(T) /\ Len(out') = at + 1
        /\ out'[at + 1] = Text(at) /\ \A m \in 1..at : out'[m] = out[m]
    <3> HIDE DEF T
    <3> QED
      BY <1>2, <2>2, <2>6, ListExtended
  <2>8. \A m \in 1..(at + 1) : out'[m] = Text(m - 1)
    <3> TAKE m \in 1..(at + 1)
    <3>1. CASE m = at + 1
      BY <2>2, <2>7, <3>1
    <3>2. CASE m # at + 1
      <4>1. m \in 1..at
        BY <2>2, <3>2
      <4> QED
        BY <2>5, <2>7, <4>1
    <3> QED
      BY <3>1, <3>2
  <2>9. out' = [m \in 1..(at + 1) |-> Text(m - 1)]
    <3>1. DOMAIN out' = 1..(at + 1) /\ out' = [m \in DOMAIN out' |-> out'[m]]
      BY <2>7
    <3> QED
      BY <2>8, <3>1
  <2>10. Bytes(out, at) \in Int /\ Bytes(out', at + 1) = Bytes(out, at) + (Len(Text(at).bytes) - 1)
    <3>1. \A m \in 1..(at + 1) : Len(out'[m].bytes) - 1 \in Nat
      <4> SUFFICES ASSUME NEW m \in 1..(at + 1) PROVE Len(out'[m].bytes) - 1 \in Nat
        OBVIOUS
      <4>1. CASE m = at + 1
        BY <1>2, <2>7, <4>1
      <4>2. CASE m # at + 1
        <5>1. m - 1 \in 0..(at - 1) /\ m - 1 \in Nat
          BY <2>2, <4>2
        <5>2. Fits(m - 1)
          BY <2>5, <5>1
        <5>3. Len(Text(m - 1).bytes) - 1 \in Nat
          BY <5>1, <5>2, FittingText DEF FdWriteInv
        <5> QED
          BY <2>8, <5>3
      <4> QED
        BY <4>1, <4>2
    <3>2. PICK lines, old : lines = out' /\ old = out
      OBVIOUS
    <3>3. (\A m \in 1..at : old[m] = lines[m]) /\ \A m \in 1..(at + 1) : Len(lines[m].bytes) - 1 \in Nat
      BY <2>7, <3>1, <3>2
    <3>4. /\ Bytes(old, at) \in Int
          /\ Bytes(lines, at + 1) = Bytes(old, at) + (Len(lines[at + 1].bytes) - 1)
      BY <2>2, <3>3, OneMoreLine
    <3> QED
      BY <2>7, <3>2, <3>4
  <2>11. written' = Bytes(out', at + 1) % Space
    <3> DEFINE x == Bytes(out, at)
               y == Len(Text(at).bytes) - 1
    <3>1. written' = ((x % Space) + y) % Space /\ x \in Int /\ y \in Int
      BY <1>2, <2>5, <2>10 DEF Plus
    <3>2. Bytes(out', at + 1) = x + y
      BY <2>10
    <3> HIDE DEF x, y
    <3>3. (((x % Space) + y) % Space) = ((x + y) % Space)
      BY <2>2, <3>1, ModPlus
    <3> QED
      BY <3>1, <3>2, <3>3
  <2>12. written' \in 0..(Space - 1)
    <3>1. Bytes(out', at + 1) \in Int
      BY <1>2, <2>10
    <3> DEFINE x == Bytes(out', at + 1)
    <3> HIDE DEF x
    <3>2. x \in Int /\ written' = x % Space
      BY <2>11, <3>1 DEF x
    <3> QED
      BY <2>2, <3>2, DivMod
  <2>13. CallInv'
    BY <1>2, <2>1, <2>2, <2>7, <2>12 DEF FdWriteInv, CallInv
  <2>14. WriteInv'
    <3>1. \A m \in 0..(at' - 1) : Fits(m)
      BY <1>2, <2>2, <2>5
    <3>2. out' = [m \in 1..at' |-> Text(m - 1)]
      BY <1>2, <2>9
    <3>3. written' = Bytes(out, at)' % Space
      BY <1>2, <2>11 DEF Bytes
    <3> QED
      BY <2>1, <2>4, <3>1, <3>2, <3>3 DEF WriteInv, FittingVectorsAreWritten, Bytes
  <2> QED
    BY <2>3, <2>13, <2>14 DEF FdWriteInv
<1> QED
  BY <1>1, <1>2, WriteChunkIs

(* A call that returns has written all vectors and stores their bytes.     *)
LEMMA ReturnIs ==
  ASSUME FdWriteInv, ReturnSuccess
  PROVE  /\ status = "calling" /\ at = call.len
         /\ UNCHANGED <<call, calls, at, written, out>>
         /\ \/ status' \in {"aborted", "undefined"} /\ UNCHANGED memory
            \/ /\ status' = "returned" /\ memory' = Poke(call.nwritten, written)
               /\ Within(call.nwritten, Word)
<1>1. EndCall("aborted") \/ EndCall("undefined") =>
        status' \in {"aborted", "undefined"} /\ UNCHANGED <<memory, call, calls, at, written, out>>
  BY DEF EndCall, Fail, hostvars
<1> QED
  BY <1>1 DEF ReturnSuccess, hostvars

(* Writing the count and returning keeps the invariant of fd_write.        *)
LEMMA ReturnKeeps ==
  ASSUME FdWriteInv, ReturnSuccess
  PROVE  FdWriteInv'
<1>1. /\ status = "calling" /\ at = call.len
      /\ UNCHANGED <<call, calls, at, written, out>>
      /\ status' \in {"aborted", "undefined", "returned"}
  BY ReturnIs
<1>2. calls # 0
  BY <1>1 DEF FdWriteInv, CallInv
<1>3. CallInv'
  BY <1>1, <1>2 DEF FdWriteInv, CallInv
<1>4. WriteInv'
  <2>1. ~(at' < call'.len)
    BY <1>1, CallTyped DEF FdWriteInv
  <2> QED
    BY <1>1, <2>1 DEF WriteInv, FittingVectorsAreWritten
<1>5. HostMemory'
  <2>1. CASE memory' = memory
    BY <2>1 DEF FdWriteInv, HostMemory
  <2>2. CASE memory' = Poke(call.nwritten, written) /\ Within(call.nwritten, Word)
    <3>1. call.nwritten \in Nat /\ written \in 0..(Space - 1) /\ HostMemory
      BY CallTyped DEF FdWriteInv, CallInv
    <3>2. memory' \in Seq(0..(Byte - 1)) /\ Len(memory') = Len(memory)
      BY <2>2, <3>1, PokeWrites
    <3> QED
      BY <3>1, <3>2 DEF HostMemory
  <2> QED
    BY <2>1, <2>2, ReturnIs
<1> QED
  BY <1>3, <1>4, <1>5 DEF FdWriteInv

(* A call starts in it.                                                    *)
LEMMA CallStarts ==
  ASSUME FdWriteInv, CallImport
  PROVE  FdWriteInv'
<1>1. /\ call' \in Calls /\ calls' = calls + 1 /\ status' = "calling"
      /\ at' = 0 /\ written' = 0 /\ out' = << >> /\ memory' = memory
  BY DEF CallImport
<1>2. Space \in Nat \ {0} /\ calls \in Nat
  BY InstantiationAssumption DEF FdWriteInv, CallInv
<1>3. call'.len \in Nat
  BY <1>1, <1>2, HostAssumption
<1>4. HostMemory'
  BY <1>1 DEF FdWriteInv, HostMemory
<1>5. CallInv'
  BY <1>1, <1>2, <1>3 DEF CallInv
<1>6. WriteInv'
  <2>1. out' = [m \in 1..0 |-> Text(m - 1)']
    BY <1>1
  <2>2. SumOf([m \in 1..0 |-> Len(out'[m].bytes) - 1]) = 0
    BY NothingSummed
  <2>3. 0 % Space = 0
    BY <1>2
  <2>4. \A m \in 0..(0 - 1) : FALSE
    OBVIOUS
  <2> QED
    BY <1>1, <2>1, <2>2, <2>3, <2>4 DEF WriteInv, FittingVectorsAreWritten
<1> QED
  BY <1>4, <1>5, <1>6 DEF FdWriteInv

(* So every step keeps it, those of the constructor included.              *)
LEMMA FdWriteKeeps ==
  ASSUME FdWriteInv, TypeInv, [HostNext]_<<vars, hostvars>>
  PROVE  FdWriteInv'
<1>1. CASE Next /\ UNCHANGED hostvars
  <2>1. /\ status = "running" /\ status' \in {"running", "constructed", "aborted", "undefined"}
        /\ UNCHANGED <<call, calls, at, written, out>>
    BY <1>1, ConstructorRuns DEF hostvars
  <2>2. calls = 0
    BY <2>1 DEF FdWriteInv, CallInv
  <2>3. HostMemory'
    BY <1>1, ConstructorKeepsBytes DEF FdWriteInv, TypeInv
  <2>4. CallInv'
    BY <2>1, <2>2 DEF FdWriteInv, CallInv
  <2>5. WriteInv'
    BY <2>1, <2>2 DEF WriteInv, FittingVectorsAreWritten
  <2> QED
    BY <2>3, <2>4, <2>5 DEF FdWriteInv
<1>2. CASE UNCHANGED <<vars, hostvars>>
  <2>1. UNCHANGED <<memory, status, call, calls, at, written, out>>
    BY <1>2 DEF vars, hostvars
  <2>2. HostMemory'
    BY <2>1 DEF FdWriteInv, HostMemory
  <2>3. CallInv'
    BY <2>1 DEF FdWriteInv, CallInv
  <2>4. WriteInv'
    <3>1. \A m : Text(m)' = Text(m) /\ Fits(m)' = Fits(m)
      BY <2>1 DEF Text, Fits, VectorAt
    <3>2. VectorsFit' = VectorsFit
      BY <2>1, <3>1 DEF VectorsFit
    <3> QED
      BY <2>1, <3>1, <3>2 DEF FdWriteInv, WriteInv, FittingVectorsAreWritten
  <2> QED
    BY <2>2, <2>3, <2>4 DEF FdWriteInv
<1> QED
  BY <1>1, <1>2, CallStarts, LoopKeeps, ReturnKeeps DEF HostNext

(* Every step of the constructor and the host keeps the types.             *)
LEMMA HostTypes ==
  ASSUME TypeInv, [HostNext]_<<vars, hostvars>>
  PROVE  TypeInv'
<1>1. CASE Next
  BY <1>1, ConstructorTypes
<1>2. CASE CallImport \/ WriteChunk \/ ReturnSuccess
  BY <1>2, CallTypes
<1>3. CASE UNCHANGED vars
  BY <1>3 DEF vars, TypeInv, PlaceInv, DataInv, MemoryTyped
<1> QED
  BY <1>1, <1>2, <1>3 DEF HostNext

(* The invariant of fd_write holds at the start.                           *)
LEMMA FdWriteInit == HostInit => FdWriteInv
<1> SUFFICES ASSUME HostInit PROVE FdWriteInv
  OBVIOUS
<1>1. /\ memory = [a \in 1..PageSize |-> 0] /\ status = "running"
      /\ call = NoCall /\ calls = 0 /\ at = 0 /\ written = 0 /\ out = << >>
  BY DEF HostInit, Init
<1>2. Space \in Nat \ {0} /\ PageSize \in Nat /\ Byte \in Nat \ {0}
  BY InstantiationAssumption, HostAssumption
<1>3. HostMemory
  <2>1. 0 \in 0..(Byte - 1)
    BY <1>2
  <2> DEFINE S == 0..(Byte - 1)
  <2> HIDE DEF S
  <2>2. memory \in [1..PageSize -> S]
    BY <1>1, <2>1 DEF S
  <2>3. memory \in Seq(S) /\ Len(memory) = PageSize
    BY <1>2, <2>2, FunctionIsSeq
  <2> QED
    BY <2>3 DEF HostMemory, S
<1>4. CallInv
  BY <1>1, <1>2 DEF CallInv, NoCall
<1>5. WriteInv
  BY <1>1 DEF WriteInv, FittingVectorsAreWritten
<1> QED
  BY <1>3, <1>4, <1>5 DEF FdWriteInv

(* For every memory and all operands: a call of fd_write whose vectors     *)
(* lie in memory writes them all, and memory goes on to hold bytes.        *)
THEOREM FittingVectorsSucceed == HostSpec => []HostInv
<1>1. HostInit => FdWriteInv /\ TypeInv
  BY FdWriteInit, InitTypes DEF HostInit
<1>2. FdWriteInv /\ TypeInv /\ [HostNext]_<<vars, hostvars>> => (FdWriteInv /\ TypeInv)'
  BY FdWriteKeeps, HostTypes
<1>3. FdWriteInv => HostInv
  BY DEF FdWriteInv, HostMemory, CallInv, WriteInv, HostInv, HostTypeOK
<1> QED
  BY <1>1, <1>2, <1>3, PTL DEF HostSpec

(* And it reports the number of bytes it wrote, and changes nothing else.  *)
THEOREM FdWriteReports == HostSpec => ReportsWhatItWrote
<1>1. HostInit => FdWriteInv /\ TypeInv
  BY FdWriteInit, InitTypes DEF HostInit
<1>2. FdWriteInv /\ TypeInv /\ [HostNext]_<<vars, hostvars>> => (FdWriteInv /\ TypeInv)'
  BY FdWriteKeeps, HostTypes
<1> DEFINE Done == status = "calling" /\ (memory' # memory \/ status' = "returned")
           Report == /\ VectorsFit
                     /\ out = [m \in 1..call.len |-> Text(m - 1)]
                     /\ WordAt(memory', call.nwritten)
                          = SumOf([m \in 1..call.len |-> Len(out[m].bytes) - 1]) % Space
                     /\ \A p \in DOMAIN memory :
                          p - call.nwritten \notin 1..Word => memory'[p] = memory[p]
<1>3. FdWriteInv /\ TypeInv /\ [HostNext]_<<vars, hostvars>> => [Done => Report]_<<vars, hostvars>>
  <2> SUFFICES ASSUME FdWriteInv, [HostNext]_<<vars, hostvars>>, Done PROVE Report
    OBVIOUS
  <2>1. ReturnSuccess
    <3>1. ~Next
      BY ConstructorRuns
    <3>2. ~CallImport
      BY DEF CallImport
    <3>3. ~WriteChunk
      <4> SUFFICES ASSUME WriteChunk PROVE FALSE
        OBVIOUS
      <4>1. EndCall("aborted") \/ EndCall("undefined") \/ UNCHANGED <<memory, status>>
        BY WriteChunkIs DEF vars
      <4> QED
        BY <4>1 DEF EndCall, Fail
    <3>4. ~UNCHANGED <<vars, hostvars>>
      BY DEF vars
    <3> QED
      BY <3>1, <3>2, <3>3, <3>4 DEF HostNext
  <2>2. /\ at = call.len /\ memory' = Poke(call.nwritten, written) /\ Within(call.nwritten, Word)
    BY <2>1, ReturnIs
  <2>3. call.nwritten \in Nat /\ written \in 0..(Space - 1) /\ HostMemory
    BY CallTyped DEF FdWriteInv, CallInv
  <2>4. /\ WordAt(memory', call.nwritten) = written
        /\ \A p \in DOMAIN memory : p - call.nwritten \notin 1..Word => memory'[p] = memory[p]
    BY <2>2, <2>3, PokeWrites
  <2>5. /\ \A m \in 0..(call.len - 1) : Fits(m)
        /\ out = [m \in 1..call.len |-> Text(m - 1)]
        /\ written = SumOf([m \in 1..call.len |-> Len(out[m].bytes) - 1]) % Space
    BY <2>2 DEF FdWriteInv, WriteInv
  <2> QED
    BY <2>4, <2>5 DEF VectorsFit
<1> QED
  BY <1>1, <1>2, <1>3, PTL DEF HostSpec, ReportsWhatItWrote
=============================================================================
