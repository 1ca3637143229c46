------------------------------ MODULE MC_WasmFile ------------------------------
(***************************************************************************)
(* Small modules with entries of every kind, whole and cut off after any   *)
(* byte, one of them with sections whose sizes take two bytes; the         *)
(* sections in several orders.  Integers have the widths of MC_ReadExpr.   *)
(***************************************************************************)
EXTENDS WasmFile

I(op, imms) == [op |-> op, imms |-> imms]
Const(n) == <<I(65, <<n>>)>>

Nothing == [i \in ParsedIds |-> << >>]
With(m, i, entries) == [m EXCEPT ![i] = entries]

Import(kind, index) == [module |-> <<119>>, name |-> <<102, 100>>, kind |-> kind, index |-> index]
Desc(i, field, value) == [f \in DOMAIN i \cup {field} |-> IF f = field THEN value ELSE i[f]]
Limits(flag, n, max) == [flag |-> flag, n |-> n, max |-> max]
TableOf(lim) == [type |-> 112, flag |-> lim.flag, n |-> lim.n, max |-> lim.max]

(* A nested body, whose first End is not its last one, and locals.         *)
Nested == <<I(32, <<0>>), I(4, <<64>>), I(16, <<0>>), I(End, << >>)>> \o Const(11)
Codes  == <<[locals |-> <<[count |-> 2, type |-> 127], [count |-> 1, type |-> 124]>>, expr |-> Nested],
            [locals |-> << >>, expr |-> << >>]>>

Types == <<[params |-> <<127, 126>>, results |-> <<127>>], [params |-> << >>, results |-> << >>]>>

AllKinds ==
  [Nothing EXCEPT
     ![1] = Types, ![2] = <<Import(0, 0), Import(0, 1)>>, ![3] = <<0, 1>>,
     ![4] = <<TableOf(Limits(1, 2, 3))>>, ![5] = <<Limits(0, 1, 0)>>,
     ![6] = <<[valtype |-> 127, mut |-> 1, expr |-> Const(-1)]>>,
     ![7] = <<[name |-> <<114>>, kind |-> 0, index |-> 2]>>,
     ![9] = <<[expr |-> Const(1), funcs |-> <<2, 200>>]>>,
     ![10] = Codes, ![11] = <<[expr |-> Const(4), bytes |-> <<11, 0>>]>>]

(* Sections of more than 127 bytes: a size of one byte that continues and  *)
(* another one.                                                            *)
Run(n, byte) == [j \in 1..n |-> byte]
Long ==
  [Nothing EXCEPT
     ![2] = <<[Import(0, 0) EXCEPT !.name = Run(130, 97)]>>,
     ![7] = <<[name |-> Run(150, 98), kind |-> 0, index |-> 0]>>]

Small == {With(With(Nothing, 5, <<Limits(f, n, IF f \in {1, 5} THEN 300 ELSE 0)>>), 3, <<130>>) :
            f \in {0, 1, 4, 5}, n \in {0, 1, 300}}
Whole == {AllKinds, Long, With(Nothing, 10, Codes), With(Nothing, 1, Types)} \cup Small

(* An import of another kind than a function, before a function.           *)
Others ==
  {With(AllKinds, 2, <<i, Import(0, 1)>>) :
     i \in { Desc(Import(1, 0), "limits", Limits(0, 1, 0)), Desc(Import(2, 0), "limits", Limits(1, 1, 2)),
             Desc([module |-> << >>, name |-> <<109>>, kind |-> 3, mut |-> 1], "valtype", 127) }}

Input(m, order) ==
  [module |-> m, order |-> order, whole |-> EncodeModule(m, order), ends |-> SectionEnds(m, order)]
File1(i, n) == [module |-> i.module, order |-> i.order, whole |-> i.whole, ends |-> i.ends,
                bytes |-> SubSeq(i.whole, 1, n)]

(* The sections in the order of the format, and in two others.             *)
Orders == {Order, Reverse(Order), SubSeq(Order, 5, Len(Order)) \o SubSeq(Order, 1, 4)}
Inputs1(ms) == {Input(m, order) : m \in ms, order \in Orders}

Files(ms) == {File1(i, Len(i.whole)) : i \in Inputs1(ms)}
Cuts(ms)  == UNION {{File1(i, n) : n \in 0..Len(i.whole)} : i \in Inputs1(ms)}

NotWasm == [File1(Input(Nothing, Order), 0) EXCEPT !.bytes = <<127, 69, 76, 70, 1, 0, 0, 0, 1>>]

AllInputs   == Files(Whole \cup Others \cup {Nothing}) \cup Cuts({AllKinds, Long})
                 \cup {NotWasm}
=============================================================================
