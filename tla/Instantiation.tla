----------------------------- MODULE Instantiation -----------------------------
(***************************************************************************)
(* The constructor Runtime::Runtime (src/runtime.cpp:12-61): the memory,   *)
(* the function table, the active segments, the globals, in this order,    *)
(* each from the list of the same name in the WasmFile.  An offset or an   *)
(* initial value is an expression that execute_block runs on the empty     *)
(* operand stack of the new Runtime, one instruction per step.             *)
(***************************************************************************)
EXTENDS Integers, Sequences, SequencesExt, FiniteSetsExt

CONSTANTS
  Modules,    \* WasmFiles: records of the lists below, and memory
  Space,      \* number of uint32_t values
  PageSize    \* MEMORY_PAGE_SIZE

IsList(s) == s \in Seq(Range(s))

(* An I32 is below Space; values of the other types are not looked into.   *)
IsValue(x) == x.v \in Nat /\ (x.t = "I32" => x.v < Space)

IsExpr(e) ==
  /\ IsList(e)
  /\ \A x \in Range(e) : /\ x.op = "const" => IsValue(x)
                         /\ x.op = "global.get" => x.v \in Nat

(* The parser's vectors, of unsigned numbers and of bytes.                 *)
IsWasmFile(m) ==
  /\ IsList(m.tables) /\ \A t \in Range(m.tables) : {t.n, t.m} \subseteq 0..(Space - 1)
  /\ IsList(m.elems) /\ \A s \in Range(m.elems) : IsExpr(s.expr) /\ s.funcs \in Seq(Nat)
  /\ IsList(m.data) /\ \A s \in Range(m.data) : IsExpr(s.expr) /\ s.bytes \in Seq(Nat)
  /\ IsList(m.globals) /\ \A g \in Range(m.globals) : IsExpr(g.expr)

ASSUME InstantiationAssumption ==
  /\ Space \in Nat \ {0} /\ PageSize \in 1..(Space - 1)
  /\ \A m \in Modules : IsWasmFile(m)

\* Mistake: the order of README.md:84.
GlobalsFirst == <<"globals", "data", "tables", "elems">>

Lists == <<"tables", "elems", "data", "globals">>

VARIABLES
  wasm,            \* the WasmFile, as parsed
  memory,          \* the bytes, positions from 1
  function_table,
  globals,
  stack,
  list,            \* number of the list the constructor is in
  i,               \* its entry the constructor is at
  pc,              \* next instruction of that entry's expression
  offset,          \* where the entries of an element segment go
  j,               \* next of them, 0 while the expression is run
  status

vars == <<wasm, memory, function_table, globals, stack, list, i, pc, offset, j, status>>

Init ==
  /\ wasm \in Modules
  /\ memory = [a \in 1..PageSize |-> 0]
  /\ function_table = << >> /\ globals = << >> /\ stack = << >>
  /\ list = 1 /\ i = 1 /\ pc = 1 /\ offset = 0 /\ j = 0
  /\ status = "running"

In(name)    == status = "running" /\ list <= 4 /\ Lists[list] = name
AtEntry     == i <= Len(wasm[Lists[list]])
ThisEntry   == wasm[Lists[list]][i]
HasExpr     == In("elems") \/ In("data") \/ In("globals")
Fail(how)   == status' = how
               /\ UNCHANGED <<wasm, memory, function_table, globals, stack, list, i, pc, offset, j>>

(* On to the next entry.                                                   *)
NextEntry == i' = i + 1 /\ pc' = 1 /\ j' = 0 /\ UNCHANGED <<wasm, list, offset, status>>

NextList ==
  /\ status = "running" /\ list <= 4 /\ ~AtEntry
  /\ list' = list + 1 /\ i' = 1
  /\ status' = IF list = 4 THEN "constructed" ELSE "running"
  /\ UNCHANGED <<wasm, memory, function_table, globals, stack, pc, offset, j>>

\* Mistake: the slots of a table are added to the ones there are.
Added(table, n) == table \o [k \in 1..n |-> 0]

(* vector::resize: new slots are function 0.                               *)
Resized(table, n) == [k \in 1..n |-> IF k <= Len(table) THEN table[k] ELSE 0]

(* All tables share one function_table.                                    *)
ReserveTable ==
  /\ In("tables") /\ AtEntry
  /\ IF ThisEntry.ref # "funcref" THEN Fail("aborted")
     ELSE /\ function_table' = Resized(function_table, Max({ThisEntry.n, ThisEntry.m}))
          /\ NextEntry
          /\ UNCHANGED <<memory, globals, stack>>

-----------------------------------------------------------------------------
(* The expressions: constants, globals and additions.                      *)

Running == HasExpr /\ AtEntry /\ j = 0 /\ pc <= Len(ThisEntry.expr)
Instruction == ThisEntry.expr[pc]

Push(st) ==
  /\ stack' = st /\ pc' = pc + 1
  /\ UNCHANGED <<wasm, memory, function_table, globals, list, i, offset, j, status>>

EmptyExpr == HasExpr /\ AtEntry /\ ThisEntry.expr = << >> /\ Fail("aborted")

Const ==
  /\ Running /\ Instruction.op = "const"
  /\ Push(Append(stack, [t |-> Instruction.t, v |-> Instruction.v]))

IsGlobal(x) == x < Len(globals)

GlobalGet ==
  /\ Running /\ Instruction.op = "global.get"
  /\ IF IsGlobal(Instruction.v)
     THEN Push(Append(stack, globals[Instruction.v + 1].value)) ELSE Fail("aborted")

Add ==
  /\ Running /\ Instruction.op = "add"
  /\ IF Len(stack) < 2 THEN Fail("aborted")
     ELSE LET n == Len(stack)
          IN  Push(Append(SubSeq(stack, 1, n - 2),
                          [t |-> "I32", v |-> (stack[n - 1].v + stack[n].v) % Space]))

-----------------------------------------------------------------------------
(* What is done with the value an expression leaves.                       *)

Evaluated(name) ==
  In(name) /\ AtEntry /\ j = 0 /\ ThisEntry.expr # << >> /\ pc = Len(ThisEntry.expr) + 1

Popped == Front(stack)

OffsetOk == stack # << >> /\ Last(stack).t = "I32"

BadOffset == (Evaluated("elems") \/ Evaluated("data")) /\ ~OffsetOk /\ Fail("aborted")

TakeOffset ==
  /\ Evaluated("elems") /\ OffsetOk
  /\ offset' = Last(stack).v /\ stack' = Popped /\ j' = 1
  /\ UNCHANGED <<wasm, memory, function_table, globals, list, i, pc, status>>

\* Mistake: the first function goes behind the offset.
IndexBehind(o, k) == (o + k) % Space
EntryIndex(o, k) == (o + k - 1) % Space

PlaceEntry ==
  /\ In("elems") /\ AtEntry /\ j \in 1..Len(ThisEntry.funcs)
  /\ IF EntryIndex(offset, j) >= Len(function_table) THEN Fail("undefined")
     ELSE /\ function_table' = [function_table EXCEPT ![EntryIndex(offset, j) + 1] = ThisEntry.funcs[j]]
          /\ j' = j + 1
          /\ UNCHANGED <<wasm, memory, globals, stack, list, i, pc, offset, status>>

EndElement ==
  /\ In("elems") /\ AtEntry /\ j = Len(ThisEntry.funcs) + 1
  /\ NextEntry /\ UNCHANGED <<memory, function_table, globals, stack>>

Overwritten(o, bytes) ==
  [a \in DOMAIN memory |-> IF a - o \in DOMAIN bytes THEN bytes[a - o] ELSE memory[a]]

(* memcpy of the whole segment to &memory[offset].                         *)
CopyData ==
  /\ Evaluated("data") /\ OffsetOk
  /\ LET o == Last(stack).v
     IN  IF o >= Len(memory) \/ o + Len(ThisEntry.bytes) > Len(memory) THEN Fail("undefined")
         ELSE /\ memory' = Overwritten(o, ThisEntry.bytes)
              /\ stack' = Popped
              /\ NextEntry
              /\ UNCHANGED <<function_table, globals>>

PushBack(g) == Append(globals, g)

TakeGlobal ==
  /\ Evaluated("globals")
  /\ IF stack = << >> THEN Fail("aborted")
     ELSE /\ globals' = PushBack([mut |-> ThisEntry.mut, value |-> Last(stack)])
          /\ stack' = Popped
          /\ NextEntry
          /\ UNCHANGED <<memory, function_table>>

Next ==
  \/ NextList \/ ReserveTable
  \/ EmptyExpr \/ Const \/ GlobalGet \/ Add
  \/ BadOffset \/ TakeOffset \/ PlaceEntry \/ EndElement \/ CopyData \/ TakeGlobal

(* A constructor runs to its end: sequential code.                         *)
Spec == Init /\ [][Next]_vars /\ WF_vars(Next)

-----------------------------------------------------------------------------
(* What instantiation should come to.                                      *)

Constructed == status = "constructed"

(* An expression of a module that validation accepts, of type t: it reads  *)
(* globals below n.                                                        *)
ValidExpr(m, e, t, n) ==
  LET leaf(x) == \/ x.op = "const" /\ x.t = t
                 \/ x.op = "global.get" /\ x.v < n /\ m.globals[x.v + 1].t = t
  IN  \/ Len(e) = 1 /\ leaf(e[1])
      \/ Len(e) = 3 /\ t = "I32" /\ leaf(e[1]) /\ leaf(e[2]) /\ e[3].op = "add"

(* Its value, from those of the globals gs.                                *)
Leaf(x, gs) == IF x.op = "const" THEN x.v ELSE gs[x.v + 1].value.v
ValueOf(e, gs) ==
  IF Len(e) = 1 THEN Leaf(e[1], gs) ELSE (Leaf(e[1], gs) + Leaf(e[2], gs)) % Space

(* Globals are of the type they say; an offset reads no global, as only an *)
(* imported one could be there before the segments.                        *)
ValidModule(m) ==
  /\ \A k \in DOMAIN m.globals : ValidExpr(m, m.globals[k].expr, m.globals[k].t, k - 1)
  /\ \A k \in DOMAIN m.elems : ValidExpr(m, m.elems[k].expr, "I32", 0)
  /\ \A k \in DOMAIN m.data  : ValidExpr(m, m.data[k].expr, "I32", 0)
  /\ Len(m.tables) <= 1 /\ \A k \in DOMAIN m.tables : m.tables[k].ref = "funcref"

(* What is written where, by the segments of the table and of the memory.  *)
TableWrites(m) ==
  [k \in DOMAIN m.elems |-> [to |-> ValueOf(m.elems[k].expr, << >>), what |-> m.elems[k].funcs]]
MemoryWrites(m) ==
  [k \in DOMAIN m.data |-> [to |-> ValueOf(m.data[k].expr, << >>), what |-> m.data[k].bytes]]

(* The segments lie inside the table the module declares, and inside the   *)
(* first page.                                                             *)
FitsOnePage(m) ==
  /\ \A k \in DOMAIN m.elems :
       LET w == TableWrites(m)[k] IN Len(m.tables) = 1 /\ w.to + Len(w.what) <= m.tables[1].n
  /\ \A k \in DOMAIN m.data :
       LET w == MemoryWrites(m)[k] IN w.to < PageSize /\ w.to + Len(w.what) <= PageSize

(* What writes put at a position, counted from 0: the last one that covers *)
(* it counts.                                                              *)
PutAt(writes, a) ==
  LET covering == {k \in DOMAIN writes : a - writes[k].to \in 0..(Len(writes[k].what) - 1)}
  IN  IF covering = {} THEN 0
      ELSE LET w == writes[Max(covering)] IN w.what[a - w.to + 1]

-----------------------------------------------------------------------------
(* Properties.                                                             *)

TypeOK ==
  /\ memory \in Seq(Nat) /\ Len(memory) = PageSize
  /\ function_table \in Seq(Nat)
  /\ Len(function_table) \in {0} \cup {Max({t.n, t.m}) : t \in Range(wasm.tables)}
  /\ Len(globals) = CASE list < 4 -> 0 [] list = 4 -> i - 1 [] OTHER -> Len(wasm.globals)
  /\ \A k \in DOMAIN stack : IsValue(stack[k])
  /\ list \in 1..5 /\ (list <= 4 => i \in 1..(Len(wasm[Lists[list]]) + 1))

(* A valid module whose segments fit is instantiated: no assert and no     *)
(* write out of bounds is in its way, at any step.                         *)
InstantiatesValid == ValidModule(wasm) /\ FitsOnePage(wasm) /\ list <= 4 => status = "running"

(* Where no segment goes, a slot of the table is function 0; where several *)
(* do, the last one counts.  The table has room for the maximum.           *)
TableOfSegments ==
  Constructed /\ ValidModule(wasm) =>
    function_table = [k \in 1..Len(function_table) |-> PutAt(TableWrites(wasm), k - 1)]

(* The same of the memory.                                                 *)
MemoryOfSegments ==
  Constructed /\ ValidModule(wasm) =>
    memory = [k \in 1..Len(memory) |-> PutAt(MemoryWrites(wasm), k - 1)]

(* Each global has the value of its own expression, whatever globals that  *)
(* expression reads.                                                       *)
GlobalsOfExpressions ==
  Constructed /\ ValidModule(wasm) =>
    globals = [k \in DOMAIN wasm.globals |->
                 [mut |-> wasm.globals[k].mut,
                  value |-> [t |-> wasm.globals[k].t, v |-> ValueOf(wasm.globals[k].expr, globals)]]]

(* What a module that has been instantiated comes to.                      *)
BuiltAsDeclared == TableOfSegments /\ MemoryOfSegments /\ GlobalsOfExpressions

(* No expression of a valid module finds operands of another one below its *)
(* own, and none are left when functions start to run.                     *)
ExpressionsAreSeparate ==
  ValidModule(wasm) /\ (Constructed \/ (status = "running" /\ (pc = 1 \/ j > 0))) => stack = << >>

(* The state has its types, and nothing is in the way of a valid module.   *)
ConstructorInv == TypeOK /\ InstantiatesValid /\ ExpressionsAreSeparate

(* "The runtime starts with initialising the globals, locals, memory and   *)
(* function table" (README.md:84), but the globals come last: no module    *)
(* with an offset that reads a global is ever instantiated.                *)
OffsetsReadNoGlobals ==
  Constructed =>
    \A s \in Range(wasm.elems) \cup Range(wasm.data) :
      \A k \in DOMAIN s.expr : s.expr[k].op # "global.get"
=============================================================================
