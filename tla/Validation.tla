------------------------------ MODULE Validation ------------------------------
(***************************************************************************)
(* Valid modules, and the operand types that validation assigns to every   *)
(* position of a function body.  winterp validates nothing: this is what   *)
(* it takes for granted ("assumes wasm is well structured",                *)
(* src/runtime.cpp:1249), and the reference its operand stack is compared  *)
(* with.                                                                   *)
(*                                                                         *)
(* A module m is a record of the parts of a WasmFile the interpreter uses: *)
(* type_section, function_section, codes, imports (how many), globals,     *)
(* table (the function table after instantiation) and main (the index its  *)
(* one export names).  Of the four number types, I32 stands for the 32-bit *)
(* and F64 for the 64-bit ones.                                            *)
(***************************************************************************)
EXTENDS Instructions, SequencesExt

Tag == {"I32", "F64"}

(* What each opcode of DataOps takes from the stack and leaves there.      *)
Effects ==
  [ I32Const   |-> [takes |-> <<>>,                    gives |-> <<"I32">>],
    F64Const   |-> [takes |-> <<>>,                    gives |-> <<"F64">>],
    I32Add     |-> [takes |-> <<"I32", "I32">>,        gives |-> <<"I32">>],
    F64Eq      |-> [takes |-> <<"F64", "F64">>,        gives |-> <<"I32">>],
    F64Convert |-> [takes |-> <<"I32">>,               gives |-> <<"F64">>],
    I32Reinterp |-> [takes |-> <<"I32">>,              gives |-> <<"I32">>],
    I32Load    |-> [takes |-> <<"I32">>,               gives |-> <<"I32">>],
    F64Store   |-> [takes |-> <<"I32", "F64">>,        gives |-> <<>>],
    MemoryFill |-> [takes |-> <<"I32", "I32", "I32">>, gives |-> <<>>] ]

(* The one import winterp knows.                                           *)
FdWrite == [params |-> <<"I32", "I32", "I32", "I32">>, results |-> <<"I32">>]

(* Functions are numbered with the imports first.                          *)
TypeOfFunction(m, x) ==
  IF x < m.imports THEN FdWrite
  ELSE m.type_section[m.function_section[x - m.imports + 1] + 1]

ParamsOf(m, f)  == m.type_section[m.function_section[f] + 1].params
ResultsOf(m, f) == m.type_section[m.function_section[f] + 1].results
VarsOf(m, f)    == ParamsOf(m, f) \o m.codes[f].locals

(* A construct yields nothing (0x40, no immediate here), an i32 (0x7f,     *)
(* immediate 1) or an operand of another type (0x7c, immediate 2, f64,     *)
(* which stands for the other two as well).                                *)
BlockResults(i) ==
  CASE i.imms = <<1>> -> <<"I32">>
    [] i.imms = <<2>> -> <<"F64">>
    [] OTHER          -> <<>>

(* What instruction i of function f does to the types T on the stack.      *)
EffectOf(m, f, i, T) ==
  LET x == i.imms[1] IN
  CASE i.op \in DataOps     -> Effects[i.op]
    [] i.op = "Drop"        -> [takes |-> IF T = <<>> THEN <<"I32">> ELSE <<Last(T)>>, gives |-> <<>>]
    [] i.op = "Select"      -> [takes |-> <<"I32", "I32", "I32">>, gives |-> <<"I32">>]
    [] i.op = "LocalGet"    -> [takes |-> <<>>, gives |-> <<VarsOf(m, f)[x + 1]>>]
    [] i.op = "LocalSet"    -> [takes |-> <<VarsOf(m, f)[x + 1]>>, gives |-> <<>>]
    [] i.op = "LocalTee"    -> [takes |-> <<VarsOf(m, f)[x + 1]>>,
                                gives |-> <<VarsOf(m, f)[x + 1]>>]
    [] i.op = "GlobalGet"   -> [takes |-> <<>>, gives |-> <<m.globals[x + 1].t>>]
    [] i.op = "GlobalSet"   -> [takes |-> <<m.globals[x + 1].t>>, gives |-> <<>>]
    [] i.op = "Call"        -> [takes |-> TypeOfFunction(m, x).params,
                                gives |-> TypeOfFunction(m, x).results]
    [] i.op = "CallIndirect" -> [takes |-> m.type_section[x + 1].params \o <<"I32">>,
                                 gives |-> m.type_section[x + 1].results]
    [] i.op \in {"If", "BrIf", "BrTable"} -> [takes |-> <<"I32">>, gives |-> <<>>]
    [] OTHER                -> [takes |-> <<>>, gives |-> <<>>]

Apply(e, T) == SubSeq(T, 1, Len(T) - Len(e.takes)) \o e.gives

(* The opener of the construct whose Else or End is at q.                  *)
OpenerOf(c, q) == CHOOSE o \in OpsAt(c, BlockOps, 1, q - 1) : q \in {CloserOf(c, o), EndOf(c, o)}

(* The types on the stack of function f at each position, as seen from the *)
(* bottom of its own part of the stack.                                    *)
TypesIn(m, f) ==
  LET c == m.codes[f].expr
      T[p \in 1..(Len(c) + 1)] ==
        IF p = 1 THEN <<>>
        ELSE LET i == c[p - 1]
             IN CASE i.op = "Else" -> T[OpenerOf(c, p - 1) + 1]
                  [] i.op = "End"  -> LET o == OpenerOf(c, p - 1)
                                      IN  T[o + 1] \o BlockResults(c[o])
                  [] OTHER -> Apply(EffectOf(m, f, i, T[p - 1]), T[p - 1])
  IN  T

(* What a branch to label k carries, and where it leaves the stack.        *)
LabelTypes(m, f, p, k) ==
  LET c == m.codes[f].expr
  IN  IF k = Cardinality(Enclosing(c, p)) THEN ResultsOf(m, f)
      ELSE LET o == LabelOpener(c, p, k)
           IN  IF c[o].op = "Loop" THEN <<>> ELSE BlockResults(c[o])
LabelBase(m, f, p, k) ==
  LET c == m.codes[f].expr
  IN  IF k = Cardinality(Enclosing(c, p)) THEN <<>>
      ELSE TypesIn(m, f)[LabelOpener(c, p, k) + 1]

(* Instructions no execution reaches by falling through.                   *)
Dead(c, p) == p > 1 /\ c[p - 1].op \in {"Br", "BrTable", "Return", "Unreachable"}

(* Indices are within bounds, and only mutable globals are set.            *)
IndicesValid(m, f) ==
  \A p \in 1..Len(m.codes[f].expr) :
    LET i == m.codes[f].expr[p] IN
    /\ i.op \in {"LocalGet", "LocalSet", "LocalTee"} => i.imms[1] < Len(VarsOf(m, f))
    /\ i.op = "GlobalGet" => i.imms[1] < Len(m.globals)
    /\ i.op = "GlobalSet" => i.imms[1] < Len(m.globals) /\ m.globals[i.imms[1] + 1].mut
    /\ i.op = "Call" => i.imms[1] < m.imports + Len(m.codes)
    /\ i.op = "CallIndirect" => i.imms[1] < Len(m.type_section)

(* Validation of one function.  Code that cannot be reached is taken to be *)
(* empty: wasm would check it against an operand stack of any shape.       *)
ValidFunction(m, f) ==
  LET c == m.codes[f].expr
      T == TypesIn(m, f)
      Base(p) == IF Enclosing(c, p) = {} THEN <<>> ELSE T[Max(Enclosing(c, p)) + 1]
      OnTop(ts, p) == IsSuffix(ts, T[p]) /\ Len(T[p]) >= Len(Base(p)) + Len(ts)
      Carried(p, k) == LabelTypes(m, f, p, k) \o EffectOf(m, f, c[p], T[p]).takes
  IN
  /\ WellNested(c) /\ LabelsValid(c) /\ IndicesValid(m, f)
  /\ \A o \in OpsAt(c, {"If"}, 1, Len(c)) : c[o].imms # <<>> => c[CloserOf(c, o)].op = "Else"
  /\ \A p \in 1..Len(c) :
       IF Dead(c, p) THEN c[p].op \in {"Else", "End"}
       ELSE /\ OnTop(EffectOf(m, f, c[p], T[p]).takes, p)
            /\ c[p].op = "Drop" => Len(T[p]) > Len(Base(p))
            /\ c[p].op \in BranchOps =>
                 \A j \in DOMAIN c[p].imms : OnTop(Carried(p, c[p].imms[j]), p)
            /\ c[p].op \in {"Else", "End"} =>
                 T[p] = Base(p) \o BlockResults(c[OpenerOf(c, p)])
            /\ c[p].op = "Return" => OnTop(ResultsOf(m, f), p)
  /\ ~Dead(c, Len(c) + 1) => T[Len(c) + 1] = ResultsOf(m, f)

(* No branch or return leaves an operand behind: winterp, which does not   *)
(* unwind the stack, and a machine that does agree on these.               *)
LeavesNothing(m, f) ==
  LET c == m.codes[f].expr  T == TypesIn(m, f) IN
  \A p \in 1..Len(c) : ~Dead(c, p) =>
    /\ c[p].op = "Return" => T[p] = ResultsOf(m, f)
    /\ c[p].op \in BranchOps => \A j \in DOMAIN c[p].imms :
         Apply(EffectOf(m, f, c[p], T[p]), T[p])
           = LabelBase(m, f, p, c[p].imms[j]) \o LabelTypes(m, f, p, c[p].imms[j])

(* Every function in the table has the type of every call_indirect, which  *)
(* the interpreter does not check.                                         *)
TableAgrees(m) ==
  \A f \in DOMAIN m.codes : \A p \in DOMAIN m.codes[f].expr :
    LET i == m.codes[f].expr[p] IN
    i.op = "CallIndirect" =>
      \A s \in DOMAIN m.table : TypeOfFunction(m, m.table[s]) = m.type_section[i.imms[1] + 1]

(* Every instruction of f that is read with an immediate has one.          *)
ImmediatesPresent(m, f) ==
  \A p \in DOMAIN m.codes[f].expr :
    LET i == m.codes[f].expr[p] IN
    i.op \in BranchOps \cup {"I32Const", "F64Const", "LocalGet", "LocalSet", "LocalTee",
                             "GlobalGet", "GlobalSet", "Call", "CallIndirect"} => i.imms # <<>>

(* What the code takes for granted of a whole module.                      *)
ValidModule(m) ==
  LET functions == 0..(m.imports + Len(m.codes) - 1) IN
  /\ m.type_section \in Seq([params : Seq(Tag), results : Seq(Tag)])
  /\ m.function_section \in Seq(0..(Len(m.type_section) - 1))
  /\ m.codes \in Seq([locals : Seq(Tag), expr : Seq(Instr)])
  /\ Len(m.codes) = Len(m.function_section)
  /\ m.imports \in Nat /\ m.main \in functions /\ m.table \in Seq(functions)
  /\ m.globals \in Seq([t : Tag, mut : BOOLEAN])
  /\ TableAgrees(m)
  /\ \A f \in DOMAIN m.codes : ImmediatesPresent(m, f) /\ ValidFunction(m, f)

Uses(m, ops) == \E f \in DOMAIN m.codes : OpsAt(m.codes[f].expr, ops, 1, Len(m.codes[f].expr)) # {}
=============================================================================
