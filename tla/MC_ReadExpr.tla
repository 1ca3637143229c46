------------------------------ MODULE MC_ReadExpr ------------------------------
(***************************************************************************)
(* read_expr on the encodings of small expressions, each followed by what  *)
(* might come next in a section, and on all short strings of telling       *)
(* bytes.  The 32-bit type has 10 bits: an integer takes up to two bytes,  *)
(* and of the second one three bits count.                                 *)
(***************************************************************************)
EXTENDS ReadExpr

CONSTANTS RawBytes, MaxRaw

I(op, imms) == [op |-> op, imms |-> imms]

(* An instruction of every kind of immediates, with values of one and of   *)
(* two bytes, with and without a set sign bit, and bytes that look like an *)
(* End or a Block.                                                         *)
Simple ==
  { I(1, << >>), I(106, << >>), I(65, <<-1>>), I(65, <<11>>), I(65, <<64>>), I(65, <<-300>>),
    I(66, <<2>>), I(66, <<-64>>), I(66, <<8000>>),
    I(67, <<<<11, 11, 2, 0>>>>), I(68, <<<<0, 0, 11, 4, 0, 0, 2, 128>>>>),
    I(16, <<11>>), I(16, <<64>>), I(32, <<63>>), I(33, <<200>>), I(36, <<0>>), I(17, <<2, 0>>),
    I(14, <<0>>), I(14, <<64, 1>>), I(14, <<11, 2, 3>>), I(12, <<1>>),
    I(40, <<2, 0>>), I(41, <<3, 70>>), I(54, <<2, 300>>), I(60, <<64, 11, 2>>), I(58, <<65, 1, 64>>),
    I(63, <<0>>), I(64, <<0>>), I(Prefix, <<1, 0>>), I(DataDrop, <<1>>),
    I(MemCopy, <<0, 0>>), I(MemFill, <<0>>) }

Few == { I(1, << >>), I(65, <<11>>), I(16, <<64>>), I(14, <<2, 11>>), I(40, <<2, 11>>) }

Body == {<< >>} \cup {<<x>> : x \in Few}

Block(b)   == {<<I(op, <<64>>)>> \o b \o <<I(End, << >>)>> : op \in {2, 3}}
Cond(a, b) == <<I(4, <<127>>)>> \o a \o <<I(Else, << >>)>> \o b \o <<I(End, << >>)>>
Nested == UNION {Block(b) : b \in Body} \cup {Cond(a, b) : a \in Body, b \in Body}

Expressions ==
  {<< >>} \cup {<<x>> : x \in Simple} \cup {<<x, y>> : x \in Simple, y \in Simple}
    \cup Nested \cup {n \o <<x>> : n \in Nested, x \in Few}
    \cup UNION {Block(n) : n \in Nested}
    \cup {Cond(<<I(1, << >>)>>, n) : n \in Nested}

Tails == {<< >>, <<End>>, <<2, 64, End>>, <<0, 11, 1>>}

Encoded == {[code |-> e, bytes |-> Encode(e) \o t] : e \in Expressions, t \in Tails}
(* With prefixes, flags there are none for, and integers that do not end.  *)
Prefixed == {<<Prefix, f>> \o t : f \in {0, 7, 8, 9, 10, 11, 12, 136}, t \in Tails}

Raw == {[code |-> << >>, bytes |-> b] :
          b \in Prefixed \cup UNION {[1..n -> RawBytes] : n \in 0..MaxRaw}}

AllInputs == Encoded \cup Raw
=============================================================================
