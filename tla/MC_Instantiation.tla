---------------------------- MODULE MC_Instantiation ----------------------------
(***************************************************************************)
(* Modules with up to two tables, segments and globals, around the limits  *)
(* of a page of twelve bytes and of tables of up to three slots; modules   *)
(* whose page holds two vectors of four bytes and four bytes to write,     *)
(* and two calls of fd_write.                                              *)
(***************************************************************************)
EXTENDS HostImport

C(t, v) == [op |-> "const", t |-> t, v |-> v]
G(x)    == [op |-> "global.get", v |-> x]
Plus1(a, b) == <<a, b, [op |-> "add"]>>

UpTo(n, S) == UNION {[1..k -> S] : k \in 0..n}

Tables == { [ref |-> "funcref", n |-> 2, m |-> 3], [ref |-> "funcref", n |-> 1, m |-> 0],
            [ref |-> "externref", n |-> 1, m |-> 1] }

Offsets == { <<C("I32", 0)>>, <<C("I32", 1)>>, <<C("I32", 11)>>, Plus1(C("I32", 1), C("I32", 1)),
             Plus1(C("I32", 15), C("I32", 2)), <<C("I64", 0)>>, <<G(0)>>, << >>,
             <<C("I32", 2), C("I32", 1)>> }

Elems == [expr : Offsets, funcs : {<<5>>, <<6, 7>>}]
Data  == [expr : Offsets, bytes : {<< >>, <<3, 2>>}]

GlobalExprs == { [t |-> "I32", expr |-> <<C("I32", 3)>>], [t |-> "I64", expr |-> <<C("I64", 1)>>],
                 [t |-> "I32", expr |-> <<G(0)>>], [t |-> "I32", expr |-> Plus1(G(0), C("I32", 6))],
                 [t |-> "I32", expr |-> <<G(1)>>], [t |-> "I32", expr |-> << >>] }
Globals == {[mut |-> m, t |-> g.t, expr |-> g.expr] : m \in {FALSE, TRUE}, g \in GlobalExprs}

Module(ts, es, ds, gs) == [tables |-> ts, elems |-> es, data |-> ds, globals |-> gs]

T1 == <<CHOOSE t \in Tables : t.n = 2>>
G1 == <<CHOOSE g \in Globals : g.expr = <<C("I32", 3)>>>>

(* Pages with two vectors of an address and a length each.                 *)
Number(v) == <<v % Byte, v \div Byte>>
Vectors   == {Number(8) \o Number(3), Number(11) \o Number(1), Number(11) \o Number(0),
              Number(0) \o Number(4), Number(11) \o Number(3)}
Page(v, w) == <<[expr |-> <<C("I32", 0)>>, bytes |-> v \o w \o <<1, 2, 3, 1>>]>>

AllCalls ==
  {[fd |-> 1, iovs |-> a, len |-> n, nwritten |-> c] : a \in {0, 4, 8}, n \in 0..2, c \in {4, 6, 9, 10}}
    \cup {[fd |-> 2, iovs |-> a, len |-> 1, nwritten |-> c] : a \in {0, 9, 11, 14}, c \in {0, 15}}
    \cup {[fd |-> 1, iovs |-> 14, len |-> 0, nwritten |-> 9]}

HostModules == {Module(<< >>, << >>, Page(v, w), << >>) : v \in Vectors, w \in Vectors}

AllModules ==
  HostModules
    \cup {Module(ts, es, << >>, G1) : ts \in UpTo(2, Tables), es \in UpTo(1, Elems)}
    \cup {Module(T1, es, << >>, << >>) : es \in UpTo(2, Elems)}
    \cup {Module(<< >>, << >>, ds, G1) : ds \in UpTo(2, Data)}
    \cup {Module(T1, << >>, << >>, gs) : gs \in UpTo(2, Globals)}
    \cup {Module(T1, es, ds, gs) : es \in UpTo(1, {e \in Elems : e.funcs = <<5>>}),
                                   ds \in UpTo(1, {d \in Data : d.bytes = <<3, 2>>}),
                                   gs \in UpTo(1, {g \in Globals : g.mut})}
=============================================================================
