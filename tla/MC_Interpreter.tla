---------------------------- MODULE MC_Interpreter ----------------------------
(***************************************************************************)
(* Modules for the runs of Interpreter.  Function 0 is fd_write, function  *)
(* 1 is the export (no params, no results) and function 2 the callee       *)
(* ((i32, f64) -> i32, one f64 local), which is also the table's only      *)
(* entry.  Bodies are all valid ones made of a few phrases: the export's   *)
(* with a few small callees, and the callee's, which may call itself, with *)
(* one export that calls above an operand of its own and one that calls    *)
(* through the table.                                                      *)
(***************************************************************************)
EXTENDS Interpreter, MC_Codes

Module(main, callee) ==
  [ type_section |-> << [params |-> <<>>, results |-> <<>>],
                        [params |-> <<"I32", "F64">>, results |-> <<"I32">>] >>,
    function_section |-> <<0, 1>>,
    codes |-> << [locals |-> <<"I32">>, expr |-> main], [locals |-> <<"F64">>, expr |-> callee] >>,
    imports |-> 1,
    globals |-> << [t |-> "I32", mut |-> TRUE] >>,
    table |-> <<2>>,
    main |-> 1 ]

One  == J("I32Const", <<1>>)
Flt  == J("F64Const", <<0>>)
Ops(op, x) == J(op, <<x>>)

Either == <<One, I("I32Load")>>       \* an operand that may be 0 or 1

(* Straight code of the export: calls, operands left for later, variables. *)
CallPhrases ==
  { <<One>>, <<One, Flt, Ops("Call", 2)>>, <<I("Drop")>>, <<Ops("GlobalSet", 0)>>,
    <<Ops("LocalGet", 0)>>, <<Ops("LocalSet", 0)>>, <<I("Return")>>,
    <<One, Flt, Ops("LocalGet", 0), Ops("CallIndirect", 1)>> }
(* Whole statements.                                                       *)
Statements ==
  { <<One, One, One, One, Ops("Call", 0), Ops("LocalSet", 0)>>, <<One, Flt, I("F64Store")>>,
    <<One, One>> \o Either \o <<I("Select"), Ops("GlobalSet", 0)>>, <<I("Nop")>>,
    <<One, One, I("I32Add"), I("Drop")>>, <<Ops("GlobalGet", 0), One, One, I("MemoryFill")>> }
(* Control, with operands that jumps may leave behind.                     *)
JumpPhrases ==
  { <<One>>, <<I("Drop")>>, <<Ops("Br", 0)>>, <<Ops("Br", 1)>>, Either \o <<Ops("BrIf", 0)>>,
    Either \o <<J("BrTable", <<0, 0>>)>>, <<I("Unreachable")>> }
JumpOpens == { <<I("Block")>>, <<I("Loop")>>, <<J("Block", <<1>>)>>, <<J("Loop", <<1>>)>>,
               Either \o <<I("If")>> }
JumpIfs   == { Either \o <<J("If", <<1>>)>> }

CalleePhrases ==
  { <<Ops("LocalGet", 0)>>, <<Ops("LocalGet", 1), Ops("LocalSet", 2)>>, <<Ops("LocalTee", 0)>>,
    <<I("Return")>>, <<I("Drop")>>, <<Ops("Br", 0)>>, <<Ops("LocalGet", 2), Flt, I("F64Eq")>>,
    <<I("F64Convert"), Ops("LocalSet", 1)>> }
CalleeOpens == { <<I("Block")>>, <<J("Block", <<1>>)>> }
CalleeIfs   == { <<Ops("LocalGet", 0), J("If", <<1>>)>> }

(* Blocks and ifs that yield an f64, and reinterpreted operands.           *)
TypedPhrases == { <<Flt>>, <<I("Drop")>>, <<One, I("I32Reinterp")>>, <<Ops("Br", 0)>> }
TypedOpens == { <<J("Block", <<2>>)>>, <<I("Block")>> }
TypedIfs   == { Either \o <<J("If", <<2>>)>> }

(* Callees that call themselves: with their own params or smaller ones,    *)
(* the result of one call as the argument of another, and an operand of    *)
(* theirs below it.                                                        *)
Again == Ops("Call", 2)
RecursivePhrases ==
  { <<Ops("LocalGet", 0)>>, <<Ops("LocalGet", 0), Ops("LocalGet", 1), Again>>,
    <<J("I32Const", <<0>>), Ops("LocalGet", 1), Again>>, <<Ops("LocalGet", 2), Again>>, <<I("I32Add")>>, <<I("Return")>> }
RecursiveIfs == { <<Ops("LocalGet", 0), J("If", <<1>>)>> }
(* The comparison's tag reaches the assert of a reinterpretation.          *)
TagPhrases == { <<Flt, Flt, I("F64Eq")>>, <<I("I32Reinterp")>>, <<Ops("LocalTee", 0)>>, <<I("Drop")>> }

SmallCallees == { <<Ops("LocalGet", 0)>>, <<I("Unreachable")>>, <<One, Ops("LocalTee", 0), One, I("Return")>> }
SmallMains ==
  { <<One, One, Flt, Ops("Call", 2), I("Drop"), I("Drop")>>,
    <<One, Flt, Ops("LocalGet", 0), Ops("CallIndirect", 1), Ops("GlobalSet", 0)>> }

Good(f, m) == TableAgrees(m) /\ ValidFunction(m, f) /\ Benign(m.codes[f].expr)

Mains ==
  {c \in Phrased(CallPhrases, {}, {}, 4)
           \cup Phrased(Statements, {Either \o <<I("If")>>}, {Either \o <<I("If")>>}, 3)
           \cup Phrased(JumpPhrases, JumpOpens, JumpIfs, 4)
           \cup Phrased({<<One>>, <<I("Drop")>>}, {<<I("Block")>>}, JumpIfs, 6)
           \cup Phrased(TypedPhrases, TypedOpens, {}, 4)
           \cup Phrased({<<Flt>>, <<I("Drop")>>}, {}, TypedIfs, 6)
           \cup Phrased({<<One>>, <<One, Flt, Ops("Call", 2)>>, <<I("Drop")>>, <<Ops("Br", 0)>>},
                        {<<I("Block")>>, <<J("Block", <<1>>)>>}, {}, 5) :
     Good(1, Module(c, <<One>>))}
Callees ==
  {c \in Phrased(CalleePhrases, CalleeOpens, CalleeIfs, 4)
           \cup Phrased(RecursivePhrases, {}, RecursiveIfs, 5)
           \cup Phrased(TagPhrases, {}, {}, 4) :
     Good(2, Module(<<I("Nop")>>, c))}

ValidModules ==
  {Module(a, b) : a \in Mains, b \in SmallCallees}
    \cup {Module(a, b) : a \in SmallMains, b \in Callees}

(* What the theorems of InterpreterProofs ask of the modules.              *)
ASSUME ModulesRunnable == \A m \in Modules : Runnable(m)
=============================================================================
