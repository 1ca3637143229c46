-------------------------- MODULE InterpreterProofs --------------------------
(***************************************************************************)
(* For all runnable modules, of any size: the operand stack and the        *)
(* variables of the interpreter have the types that validation assigns to  *)
(* them, and no assert fails but those that stand for a trap.              *)
(*                                                                         *)
(* The proof has three layers.  TypesIn is a recursion over the positions  *)
(* of a function body; the first layer unfolds it, position by position.   *)
(* The second follows the control: wherever execution goes from a position *)
(* (Reaches), validation accounts for no more operands than the            *)
(* instruction leaves, although the code's jumps do not unwind the stack.  *)
(* The third puts the calls together: each call that waits for another one *)
(* keeps what its own types say is below the arguments (Waiting, Held), so *)
(* what the whole stack must hold is what all of them keep and what the    *)
(* innermost one has (Validated).  Every action is then one of four kinds: *)
(* it stops, moves within a function, enters one, or returns.              *)
(***************************************************************************)
EXTENDS Interpreter, InstructionTheorems, SequenceTheorems

-----------------------------------------------------------------------------
(* Sequences.                                                              *)

(* The entries of a sequence are in its set.                               *)
LEMMA ElementAt ==
  ASSUME NEW S, NEW s \in Seq(S)
  PROVE  /\ DOMAIN s = 1..Len(s) /\ Len(s) \in Nat
         /\ \A i \in DOMAIN s : s[i] \in S
         /\ \A i \in 1..Len(s) : s[i] \in S
OBVIOUS

(* A sequence without its last n entries.                                  *)
LEMMA Shortened ==
  ASSUME NEW S, NEW s \in Seq(S), NEW n \in Nat
  PROVE  /\ SubSeq(s, 1, Len(s) - n) \in Seq(S)
         /\ n <= Len(s) => /\ Len(SubSeq(s, 1, Len(s) - n)) = Len(s) - n
                           /\ \A i \in 1..(Len(s) - n) : SubSeq(s, 1, Len(s) - n)[i] = s[i]
         /\ n = 0 => SubSeq(s, 1, Len(s) - n) = s
<1>1. Len(s) \in Nat /\ Len(s) - n \in Int /\ 1 \in Int /\ \A i \in 1..(Len(s) - n) : i \in 1..Len(s)
  OBVIOUS
<1>2. \A i \in 1..(Len(s) - n) : s[i] \in S
  BY <1>1
<1>3. /\ SubSeq(s, 1, Len(s) - n) \in Seq(S)
      /\ Len(SubSeq(s, 1, Len(s) - n)) = IF 1 <= Len(s) - n THEN (Len(s) - n) - 1 + 1 ELSE 0
      /\ \A i \in 1..((Len(s) - n) - 1 + 1) : SubSeq(s, 1, Len(s) - n)[i] = s[1 + i - 1]
  BY <1>1, <1>2, SubSeqProperties
<1>4. n <= Len(s) => /\ Len(SubSeq(s, 1, Len(s) - n)) = Len(s) - n
                     /\ \A i \in 1..(Len(s) - n) : SubSeq(s, 1, Len(s) - n)[i] = s[i]
  <2>1. \A i \in Int : 1 + i - 1 = i
    OBVIOUS
  <2>2. (Len(s) - n) - 1 + 1 = Len(s) - n
    BY <1>1
  <2> QED
    BY <1>1, <1>3, <2>1, <2>2
<1>5. n = 0 => SubSeq(s, 1, Len(s) - n) = s
  <2>1. n = 0 => Len(s) - n = Len(s)
    BY <1>1
  <2> QED
    BY <2>1, SubSeqFull
<1> QED
  BY <1>3, <1>4, <1>5

(* What a suffix is, entry by entry and as a concatenation.                *)
LEMMA SuffixIs ==
  ASSUME NEW S, NEW s \in Seq(S), NEW t \in Seq(S), IsSuffix(s, t)
  PROVE  /\ Len(s) <= Len(t)
         /\ \A i \in 1..Len(s) : s[i] = t[Len(t) - Len(s) + i]
         /\ t = SubSeq(t, 1, Len(t) - Len(s)) \o s
<1> DEFINE a == Len(s)
           b == Len(t)
           r == Reverse(s)
           q == Reverse(t)
<1>1. a \in Nat /\ b \in Nat
  OBVIOUS
<1>2. /\ r \in Seq(S) /\ Len(r) = a /\ \A i \in 1..a : r[i] = s[(a - i) + 1]
      /\ q \in Seq(S) /\ Len(q) = b /\ \A i \in 1..b : q[i] = t[(b - i) + 1]
  BY DEF Reverse
<1>3. a <= b /\ SubSeq(r, 1, a) = SubSeq(q, 1, a)
  BY <1>2 DEF IsSuffix, IsPrefix
<1>4. \A i \in 1..a : r[i] = q[i]
  <2>1. /\ \A i \in 1..a : SubSeq(r, 1, a)[i] = r[i]
        /\ \A i \in 1..a : SubSeq(q, 1, a)[i] = q[i]
    <3>1. \A i \in 1..a : r[i] \in S /\ q[i] \in S
      BY <1>1, <1>2, <1>3
    <3> HIDE DEF r, q, a, b
    <3>2. /\ \A i \in 1..(a - 1 + 1) : SubSeq(r, 1, a)[i] = r[1 + i - 1]
          /\ \A i \in 1..(a - 1 + 1) : SubSeq(q, 1, a)[i] = q[1 + i - 1]
      BY <1>1, <3>1, SubSeqProperties
    <3>3. a - 1 + 1 = a /\ \A i \in 1..a : 1 + i - 1 = i
      BY <1>1
    <3> QED
      BY <3>2, <3>3
  <2> QED
    BY <1>3, <2>1
<1>5. \A i \in 1..a : s[i] = t[b - a + i]
  <2> TAKE i \in 1..a
  <2>1. (a - i) + 1 \in 1..a /\ (a - i) + 1 \in 1..b
    BY <1>1, <1>3
  <2>2. (a - ((a - i) + 1)) + 1 = i /\ (b - ((a - i) + 1)) + 1 = b - a + i
    BY <1>1
  <2>3. r[(a - i) + 1] = s[i] /\ q[(a - i) + 1] = t[b - a + i]
    BY <1>2, <2>1, <2>2
  <2> QED
    BY <1>4, <2>1, <2>3
<1>6. t = SubSeq(t, 1, b - a) \o s
  <2> DEFINE u == SubSeq(t, 1, b - a)
  <2>1. u \in Seq(S) /\ Len(u) = b - a /\ \A i \in 1..(b - a) : u[i] = t[i]
    BY <1>1, <1>3, Shortened
  <2> HIDE DEF u
  <2>2. /\ u \o s \in Seq(S) /\ Len(u \o s) = b
        /\ \A i \in 1..b : (u \o s)[i] = IF i <= b - a THEN u[i] ELSE s[i - (b - a)]
    <3>1. Len(u) + Len(s) = b
      BY <1>1, <2>1
    <3> QED
      BY <2>1, <3>1, ConcatProperties
  <2>3. \A i \in 1..b : (u \o s)[i] = t[i]
    <3> TAKE i \in 1..b
    <3>1. CASE i <= b - a
      BY <2>1, <2>2, <3>1, <1>1
    <3>2. CASE ~(i <= b - a)
      <4>1. i - (b - a) \in 1..a /\ b - a + (i - (b - a)) = i
        BY <1>1, <3>2
      <4> QED
        BY <1>5, <2>2, <3>2, <4>1
    <3> QED
      BY <3>1, <3>2
  <2> QED
    BY <2>2, <2>3, SeqEqual DEF u
<1> QED
  BY <1>3, <1>5, <1>6

(* The sequence in front of a suffix.                                      *)
LEMMA CutSuffix ==
  ASSUME NEW S, NEW s \in Seq(S), NEW t \in Seq(S)
  PROVE  SubSeq(s \o t, 1, Len(s \o t) - Len(t)) = s
<1> DEFINE u == s \o t
           v == SubSeq(u, 1, Len(u) - Len(t))
<1>1. Len(s) \in Nat /\ Len(t) \in Nat
  OBVIOUS
<1>2. /\ u \in Seq(S) /\ Len(u) = Len(s) + Len(t)
      /\ \A i \in 1..(Len(s) + Len(t)) : u[i] = IF i <= Len(s) THEN s[i] ELSE t[i - Len(s)]
  BY ConcatProperties
<1> HIDE DEF u
<1>3. Len(t) <= Len(u) /\ Len(u) - Len(t) = Len(s)
  BY <1>1, <1>2
<1>4. v \in Seq(S) /\ Len(v) = Len(s) /\ \A i \in 1..Len(s) : v[i] = u[i]
  BY <1>1, <1>2, <1>3, Shortened
<1> HIDE DEF v
<1>5. \A i \in 1..Len(s) : i \in 1..(Len(s) + Len(t)) /\ i <= Len(s)
  BY <1>1
<1>6. \A i \in 1..Len(s) : v[i] = s[i]
  BY <1>2, <1>4, <1>5
<1>7. v = s
  BY <1>4, <1>6, SeqEqual
<1> QED
  BY <1>7 DEF v, u

(* Cutting a concatenation cuts its second part.                           *)
LEMMA CutConcat ==
  ASSUME NEW S, NEW s \in Seq(S), NEW t \in Seq(S), NEW n \in Nat, n <= Len(t)
  PROVE  SubSeq(s \o t, 1, Len(s \o t) - n) = s \o SubSeq(t, 1, Len(t) - n)
<1> DEFINE k == SubSeq(t, 1, Len(t) - n)
           w == s \o t
           v == SubSeq(w, 1, Len(w) - n)
           z == s \o k
<1>1. Len(s) \in Nat /\ Len(t) \in Nat
  OBVIOUS
<1>2. k \in Seq(S) /\ Len(k) = Len(t) - n /\ \A i \in 1..(Len(t) - n) : k[i] = t[i]
  BY Shortened
<1> HIDE DEF k
<1>3. /\ w \in Seq(S) /\ Len(w) = Len(s) + Len(t)
      /\ \A i \in 1..(Len(s) + Len(t)) : w[i] = IF i <= Len(s) THEN s[i] ELSE t[i - Len(s)]
  BY ConcatProperties
<1>4. /\ z \in Seq(S) /\ Len(z) = Len(s) + Len(k)
      /\ \A i \in 1..(Len(s) + Len(k)) : z[i] = IF i <= Len(s) THEN s[i] ELSE k[i - Len(s)]
  BY <1>2, ConcatProperties
<1> HIDE DEF w, z
<1>5. n <= Len(w) /\ Len(w) - n = Len(s) + Len(k)
  BY <1>1, <1>2, <1>3
<1>6. v \in Seq(S) /\ Len(v) = Len(s) + Len(k) /\ \A i \in 1..(Len(s) + Len(k)) : v[i] = w[i]
  BY <1>3, <1>5, Shortened
<1> HIDE DEF v
<1>7. \A i \in 1..(Len(s) + Len(k)) : v[i] = z[i]
  <2> TAKE i \in 1..(Len(s) + Len(k))
  <2>1. i \in 1..(Len(s) + Len(t)) /\ i \in Int /\ Len(k) \in Int
    BY <1>1, <1>2
  <2>2. CASE i <= Len(s)
    BY <1>3, <1>4, <1>6, <2>1, <2>2
  <2>3. CASE ~(i <= Len(s))
    <3>1. i - Len(s) \in 1..(Len(t) - n)
      BY <1>1, <1>2, <2>3
    <3> QED
      BY <1>2, <1>3, <1>4, <1>6, <2>1, <2>3, <3>1
  <2> QED
    BY <2>2, <2>3
<1>8. v = z
  BY <1>4, <1>6, <1>7, SeqEqual
<1> QED
  BY <1>8 DEF v, z, w, k

(* Cutting twice is cutting once.                                          *)
LEMMA CutTwice ==
  ASSUME NEW S, NEW s \in Seq(S), NEW a \in Nat, NEW b \in Nat, b + a <= Len(s)
  PROVE  LET t == SubSeq(s, 1, Len(s) - a) IN
         /\ t \in Seq(S) /\ Len(t) = Len(s) - a /\ b <= Len(t)
         /\ SubSeq(t, 1, Len(t) - b) = SubSeq(s, 1, Len(s) - (b + a))
<1> DEFINE t == SubSeq(s, 1, Len(s) - a)
           u == SubSeq(t, 1, Len(t) - b)
           w == SubSeq(s, 1, Len(s) - (b + a))
           n == Len(s)
<1>1. n \in Nat
  OBVIOUS
<1>2. t \in Seq(S) /\ Len(t) = n - a /\ \A i \in 1..(n - a) : t[i] = s[i]
  <2>1. a <= Len(s)
    BY <1>1
  <2> QED
    BY <2>1, Shortened
<1>3. w \in Seq(S) /\ Len(w) = n - (b + a) /\ \A i \in 1..(n - (b + a)) : w[i] = s[i]
  <2>1. b + a \in Nat
    OBVIOUS
  <2> QED
    BY <2>1, Shortened
<1> HIDE DEF t
<1>4. b <= Len(t)
  BY <1>1, <1>2
<1>5. u \in Seq(S) /\ Len(u) = Len(t) - b /\ \A i \in 1..(Len(t) - b) : u[i] = t[i]
  BY <1>2, <1>4, Shortened
<1> HIDE DEF u, w, n
<1>6. Len(t) - b = n - (b + a)
  BY <1>1, <1>2
<1>7. \A i \in 1..(n - (b + a)) : i \in 1..(n - a)
  BY <1>1
<1>8. \A i \in 1..Len(w) : u[i] = w[i]
  BY <1>2, <1>3, <1>5, <1>6, <1>7
<1>9. u = w
  BY <1>3, <1>5, <1>6, <1>8, SeqEqual
<1> QED
  BY <1>2, <1>4, <1>9 DEF t, u, w, n

(* A prefix is kept by what only shortens the stack and adds to it.        *)
LEMMA PrefixKept ==
  ASSUME NEW X, NEW s \in Seq(X), NEW x \in Seq(X), NEW n \in Nat, NEW h \in Nat,
         n <= Len(s), h <= Len(s) - n
  PROVE  LET t == SubSeq(s, 1, Len(s) - n) \o x
         IN  Len(t) >= h /\ SubSeq(t, 1, h) = SubSeq(s, 1, h)
<1> DEFINE a == SubSeq(s, 1, Len(s) - n)
           t == a \o x
<1>1. a \in Seq(X) /\ Len(a) = Len(s) - n /\ \A i \in 1..(Len(s) - n) : a[i] = s[i]
  BY Shortened
<1> HIDE DEF a
<1>2. /\ t \in Seq(X) /\ Len(t) = Len(a) + Len(x)
      /\ \A i \in 1..(Len(a) + Len(x)) : t[i] = IF i <= Len(a) THEN a[i] ELSE x[i - Len(a)]
  BY <1>1, ConcatProperties
<1> HIDE DEF t
<1>3. Len(s) \in Nat /\ Len(x) \in Nat /\ h <= Len(a) /\ h <= Len(t) /\ h <= Len(s)
  BY <1>1, <1>2
<1>4. \A i \in 1..h : t[i] = s[i]
  <2> TAKE i \in 1..h
  <2>1. i \in 1..(Len(a) + Len(x)) /\ i <= Len(a) /\ i \in 1..(Len(s) - n)
    BY <1>1, <1>3
  <2> QED
    BY <1>1, <1>2, <2>1
<1>5. SubSeq(t, 1, h) = [i \in 1..h |-> t[i]] /\ SubSeq(s, 1, h) = [i \in 1..h |-> s[i]]
  <2>1. \A u \in Seq(X) : h <= Len(u) => SubSeq(u, 1, h) = [i \in 1..h |-> u[i]]
    OBVIOUS
  <2> QED
    BY <1>2, <1>3, <2>1
<1> QED
  BY <1>3, <1>4, <1>5 DEF t, a

-----------------------------------------------------------------------------
(* The parts of a valid module.                                            *)

FunctionType == [params : Seq(Tag), results : Seq(Tag)]

Code(m, f) == m.codes[f].expr

(* The type of function f, after the imports.                              *)
LEMMA TypeAt ==
  ASSUME NEW m, ValidModule(m), NEW f \in 1..Len(m.codes)
  PROVE  m.type_section[m.function_section[f] + 1] \in FunctionType
<1> DEFINE ts == m.type_section
           fs == m.function_section
<1>1. ts \in Seq(FunctionType) /\ fs \in Seq(0..(Len(ts) - 1)) /\ Len(m.codes) = Len(fs)
  BY DEF ValidModule, FunctionType
<1> HIDE DEF ts, fs
<1>2. fs[f] \in 0..(Len(ts) - 1)
  BY <1>1
<1>3. fs[f] + 1 \in 1..Len(ts)
  BY <1>1, <1>2, ElementAt
<1>4. ts[fs[f] + 1] \in FunctionType
  BY <1>1, <1>3
<1> QED
  BY <1>4 DEF ts, fs

(* What the parts of a function of a valid module are.                     *)
LEMMA FunctionParts ==
  ASSUME NEW m, ValidModule(m), NEW f \in DOMAIN m.codes
  PROVE  /\ Code(m, f) \in Seq(Instr) /\ m.codes[f].locals \in Seq(Tag)
         /\ ParamsOf(m, f) \in Seq(Tag) /\ ResultsOf(m, f) \in Seq(Tag)
         /\ VarsOf(m, f) \in Seq(Tag)
         /\ Len(VarsOf(m, f)) = Len(ParamsOf(m, f)) + Len(m.codes[f].locals)
         /\ WellNested(Code(m, f)) /\ WellFormedBody(Code(m, f)) /\ LabelsValid(Code(m, f))
         /\ IndicesValid(m, f) /\ ImmediatesPresent(m, f) /\ ValidFunction(m, f)
<1> DEFINE S == [locals : Seq(Tag), expr : Seq(Instr)]
<1>1. /\ m.codes \in Seq(S) /\ ImmediatesPresent(m, f) /\ ValidFunction(m, f)
  BY DEF ValidModule
<1>2. f \in 1..Len(m.codes) /\ m.codes[f] \in S
  <2> HIDE DEF S
  <2> QED
    BY <1>1, ElementAt
<1>3. Code(m, f) \in Seq(Instr) /\ m.codes[f].locals \in Seq(Tag)
  BY <1>2 DEF Code
<1>4. ParamsOf(m, f) \in Seq(Tag) /\ ResultsOf(m, f) \in Seq(Tag)
  BY <1>2, TypeAt DEF ParamsOf, ResultsOf, FunctionType
<1>5. VarsOf(m, f) \in Seq(Tag) /\ Len(VarsOf(m, f)) = Len(ParamsOf(m, f)) + Len(m.codes[f].locals)
  BY <1>3, <1>4, ConcatProperties DEF VarsOf
<1>6. WellNested(Code(m, f)) /\ LabelsValid(Code(m, f)) /\ IndicesValid(m, f)
  BY <1>1 DEF ValidFunction, Code
<1>7. WellFormedBody(Code(m, f))
  <2>1. DOMAIN Code(m, f) = 1..Len(Code(m, f))
    BY <1>3
  <2> QED
    BY <1>1, <1>6, <2>1 DEF WellFormedBody, ImmediatesPresent, Code
<1> QED
  BY <1>1, <1>3, <1>4, <1>5, <1>6, <1>7

(* The type of any function that an index names.                           *)
LEMMA CalleeType ==
  ASSUME NEW m, ValidModule(m), NEW x \in 0..(m.imports + Len(m.codes) - 1)
  PROVE  /\ TypeOfFunction(m, x) \in FunctionType
         /\ x \in Nat /\ m.imports \in Nat
         /\ ~(x < m.imports) =>
              /\ x - m.imports + 1 \in DOMAIN m.codes
              /\ TypeOfFunction(m, x).params = ParamsOf(m, x - m.imports + 1)
              /\ TypeOfFunction(m, x).results = ResultsOf(m, x - m.imports + 1)
<1>1. m.imports \in Nat /\ Len(m.codes) \in Nat /\ DOMAIN m.codes = 1..Len(m.codes)
  <2> DEFINE S == [locals : Seq(Tag), expr : Seq(Instr)]
  <2>1. m.codes \in Seq(S) /\ m.imports \in Nat
    BY DEF ValidModule
  <2> HIDE DEF S
  <2> QED
    BY <2>1, ElementAt
<1>2. CASE x < m.imports
  <2>1. TypeOfFunction(m, x) = FdWrite
    BY <1>2 DEF TypeOfFunction
  <2>2. <<"I32", "I32", "I32", "I32">> \in Seq(Tag) /\ <<"I32">> \in Seq(Tag)
    BY DEF Tag
  <2> QED
    BY <1>1, <1>2, <2>1, <2>2 DEF FdWrite, FunctionType
<1>3. CASE ~(x < m.imports)
  <2> DEFINE f == x - m.imports + 1
  <2>1. f \in 1..Len(m.codes) /\ f \in DOMAIN m.codes
    BY <1>1, <1>3
  <2>3. m.type_section[m.function_section[f] + 1] \in FunctionType
    BY <2>1, TypeAt
  <2>4. TypeOfFunction(m, x) = m.type_section[m.function_section[f] + 1]
    BY <1>3 DEF TypeOfFunction
  <2> QED
    BY <1>1, <2>1, <2>3, <2>4 DEF ParamsOf, ResultsOf
<1> QED
  BY <1>2, <1>3

-----------------------------------------------------------------------------
(* What instructions do to the types.                                      *)

Effect == [takes : Seq(Tag), gives : Seq(Tag)]

(* The effects of the opcodes on data are effects.                         *)
LEMMA EffectsTyped ==
  \A op \in DataOps : Effects[op] \in Effect
<1>1. <<>> \in Seq(Tag) /\ <<"I32">> \in Seq(Tag) /\ <<"F64">> \in Seq(Tag)
      /\ <<"I32", "I32">> \in Seq(Tag) /\ <<"F64", "F64">> \in Seq(Tag)
      /\ <<"I32", "F64">> \in Seq(Tag) /\ <<"I32", "I32", "I32">> \in Seq(Tag)
  BY DEF Tag
<1>2. /\ Effects["I32Const"]   = [takes |-> <<>>, gives |-> <<"I32">>]
      /\ Effects["F64Const"]   = [takes |-> <<>>, gives |-> <<"F64">>]
      /\ Effects["I32Add"]     = [takes |-> <<"I32", "I32">>, gives |-> <<"I32">>]
      /\ Effects["F64Eq"]      = [takes |-> <<"F64", "F64">>, gives |-> <<"I32">>]
      /\ Effects["F64Convert"] = [takes |-> <<"I32">>, gives |-> <<"F64">>]
      /\ Effects["I32Reinterp"] = [takes |-> <<"I32">>, gives |-> <<"I32">>]
      /\ Effects["I32Load"]    = [takes |-> <<"I32">>, gives |-> <<"I32">>]
      /\ Effects["F64Store"]   = [takes |-> <<"I32", "F64">>, gives |-> <<>>]
      /\ Effects["MemoryFill"] = [takes |-> <<"I32", "I32", "I32">>, gives |-> <<>>]
  BY DEF Effects
<1>3. \A t \in Seq(Tag), g \in Seq(Tag) : [takes |-> t, gives |-> g] \in Effect
  BY DEF Effect
<1> QED
  BY <1>1, <1>2, <1>3 DEF DataOps

(* The immediates of instruction i of function f are what it needs.        *)
ImmediateOK(m, f, i) ==
  LET x == i.imms[1] IN
  /\ i \in Instr
  /\ i.op \in BranchOps => i.imms # <<>>
  /\ i.op \in {"I32Const", "F64Const"} => x \in Nat
  /\ i.op \in {"LocalGet", "LocalSet", "LocalTee"} =>
       x \in Nat /\ x + 1 \in 1..Len(VarsOf(m, f)) /\ VarsOf(m, f)[x + 1] \in Tag
  /\ i.op \in {"GlobalGet", "GlobalSet"} =>
       x \in Nat /\ x + 1 \in 1..Len(m.globals) /\ m.globals[x + 1] \in [t : Tag, mut : BOOLEAN]
  /\ i.op = "GlobalSet" => m.globals[x + 1].mut
  /\ i.op = "Call" => x \in 0..(m.imports + Len(m.codes) - 1)
  /\ i.op = "CallIndirect" => x \in Nat /\ m.type_section[x + 1] \in FunctionType

(* Those of a valid body are.                                              *)
LEMMA ImmediatesValid ==
  ASSUME NEW m, ValidModule(m), NEW f \in DOMAIN m.codes, NEW p \in 1..Len(Code(m, f))
  PROVE  ImmediateOK(m, f, Code(m, f)[p])
<1> DEFINE c == Code(m, f)
           i == c[p]
           x == i.imms[1]
<1>1. /\ c \in Seq(Instr) /\ VarsOf(m, f) \in Seq(Tag)
      /\ IndicesValid(m, f) /\ ImmediatesPresent(m, f)
  BY FunctionParts
<1>2. i \in Instr /\ i.imms \in Seq(Nat) /\ p \in DOMAIN c
  <2>1. i \in Instr /\ p \in DOMAIN c
    BY <1>1
  <2> QED
    BY <2>1 DEF Instr
<1>3. i.op \in BranchOps \cup {"I32Const", "F64Const", "LocalGet", "LocalSet", "LocalTee",
                               "GlobalGet", "GlobalSet", "Call", "CallIndirect"} => i.imms # <<>>
  BY <1>1, <1>2 DEF ImmediatesPresent, Code
<1>4. i.imms # <<>> => x \in Nat
  BY <1>2
<1>5. /\ i.op \in {"LocalGet", "LocalSet", "LocalTee"} => x < Len(VarsOf(m, f))
      /\ i.op = "GlobalGet" => x < Len(m.globals)
      /\ i.op = "GlobalSet" => x < Len(m.globals) /\ m.globals[x + 1].mut
      /\ i.op = "Call" => x < m.imports + Len(m.codes)
      /\ i.op = "CallIndirect" => x < Len(m.type_section)
  BY <1>1 DEF IndicesValid, Code
<1>6. /\ m.type_section \in Seq(FunctionType) /\ m.globals \in Seq([t : Tag, mut : BOOLEAN])
      /\ m.imports \in Nat /\ Len(m.codes) \in Nat
  BY DEF ValidModule, FunctionType
<1> HIDE DEF x, i, c
<1>7. i.op \in {"LocalGet", "LocalSet", "LocalTee"} =>
        x \in Nat /\ x + 1 \in 1..Len(VarsOf(m, f)) /\ VarsOf(m, f)[x + 1] \in Tag
  BY <1>1, <1>3, <1>4, <1>5
<1>8. i.op \in {"GlobalGet", "GlobalSet"} =>
        x \in Nat /\ x + 1 \in 1..Len(m.globals) /\ m.globals[x + 1] \in [t : Tag, mut : BOOLEAN]
  <2> DEFINE S == [t : Tag, mut : BOOLEAN]
             gs == m.globals
  <2>1. gs \in Seq(S) /\ Len(gs) \in Nat
    BY <1>6
  <2>2. i.op \in {"GlobalGet", "GlobalSet"} => x \in Nat /\ x + 1 \in 1..Len(gs)
    BY <1>3, <1>4, <1>5, <2>1
  <2> HIDE DEF S, gs
  <2>3. x + 1 \in 1..Len(gs) => gs[x + 1] \in S
    BY <2>1, ElementAt
  <2> QED
    BY <2>2, <2>3 DEF S, gs
<1>9. i.op = "CallIndirect" => x \in Nat /\ m.type_section[x + 1] \in FunctionType
  BY <1>3, <1>4, <1>5, <1>6
<1>10. i.op = "Call" => x \in 0..(m.imports + Len(m.codes) - 1)
  BY <1>3, <1>4, <1>5, <1>6
<1> QED
  BY <1>2, <1>3, <1>4, <1>5, <1>7, <1>8, <1>9, <1>10 DEF ImmediateOK, x, i, c

(* What an instruction of a valid body takes and gives are types.          *)
LEMMA EffectTyped ==
  ASSUME NEW m, ValidModule(m), NEW f \in DOMAIN m.codes, NEW p \in 1..Len(Code(m, f)),
         NEW T \in Seq(Tag)
  PROVE  EffectOf(m, f, Code(m, f)[p], T) \in Effect
<1> DEFINE i == Code(m, f)[p]
           x == i.imms[1]
<1>2. /\ i \in Instr /\ i.op \in OpCode
      /\ i.op \in {"LocalGet", "LocalSet", "LocalTee"} => VarsOf(m, f)[x + 1] \in Tag
      /\ i.op \in {"GlobalGet", "GlobalSet"} => m.globals[x + 1] \in [t : Tag, mut : BOOLEAN]
      /\ i.op = "Call" => x \in 0..(m.imports + Len(m.codes) - 1)
      /\ i.op = "CallIndirect" => m.type_section[x + 1] \in FunctionType
  <2>1. i \in Instr
    BY ImmediatesValid DEF ImmediateOK
  <2>2. i.op \in OpCode
    BY <2>1 DEF Instr
  <2> QED
    BY <2>1, <2>2, ImmediatesValid DEF ImmediateOK
<1>4. <<>> \in Seq(Tag) /\ <<"I32">> \in Seq(Tag) /\ <<"F64">> \in Seq(Tag)
      /\ <<"I32", "I32">> \in Seq(Tag) /\ <<"F64", "F64">> \in Seq(Tag)
      /\ <<"I32", "F64">> \in Seq(Tag) /\ <<"I32", "I32", "I32">> \in Seq(Tag)
  BY DEF Tag
<1>5. CASE i.op \in DataOps
  <2>1. Effects[i.op] \in Effect
    BY <1>5, EffectsTyped
  <2>2. EffectOf(m, f, i, T) = Effects[i.op]
    <3> HIDE DEF i
    <3> QED
      BY <1>5 DEF EffectOf, DataOps
  <2> QED
    BY <2>1, <2>2
<1>6. CASE i.op = "Drop"
  <2>1. (IF T = <<>> THEN <<"I32">> ELSE <<Last(T)>>) \in Seq(Tag)
    <3>1. T # <<>> => Last(T) \in Tag
      BY DEF Last
    <3> QED
      BY <1>4, <3>1
  <2>2. EffectOf(m, f, i, T) = [takes |-> IF T = <<>> THEN <<"I32">> ELSE <<Last(T)>>, gives |-> <<>>]
    BY <1>6 DEF EffectOf, DataOps
  <2> QED
    BY <1>4, <2>1, <2>2 DEF Effect
<1>7. CASE i.op = "Select"
  BY <1>4, <1>7 DEF EffectOf, DataOps, Effect
<1>8. CASE i.op \in {"LocalGet", "LocalSet", "LocalTee"}
  <2>1. <<VarsOf(m, f)[x + 1]>> \in Seq(Tag)
    BY <1>2, <1>8
  <2> QED
    BY <1>4, <1>8, <2>1 DEF EffectOf, DataOps, Effect
<1>9. CASE i.op \in {"GlobalGet", "GlobalSet"}
  <2>1. <<m.globals[x + 1].t>> \in Seq(Tag)
    BY <1>2, <1>9
  <2> QED
    BY <1>4, <1>9, <2>1 DEF EffectOf, DataOps, Effect
<1>10. CASE i.op = "Call"
  <2>1. TypeOfFunction(m, x) \in FunctionType
    BY <1>2, <1>10, CalleeType
  <2> QED
    BY <1>10, <2>1 DEF EffectOf, DataOps, Effect, FunctionType
<1>11. CASE i.op = "CallIndirect"
  <2>1. m.type_section[x + 1] \in FunctionType
    BY <1>2, <1>11
  <2>2. m.type_section[x + 1].params \o <<"I32">> \in Seq(Tag)
    BY <1>4, <2>1, ConcatProperties DEF FunctionType
  <2> QED
    BY <1>11, <2>1, <2>2 DEF EffectOf, DataOps, Effect, FunctionType
<1>12. CASE i.op \in {"If", "BrIf", "BrTable"}
  BY <1>4, <1>12 DEF EffectOf, DataOps, Effect
<1>13. CASE i.op \in {"Nop", "Br", "Block", "Loop", "Unreachable", "Else", "End", "Return"}
  BY <1>4, <1>13 DEF EffectOf, DataOps, Effect
<1> QED
  BY <1>2, <1>5, <1>6, <1>7, <1>8, <1>9, <1>10, <1>11, <1>12, <1>13
     DEF OpCode, BlockOps, BranchOps, PlainOps

(* The opener of a construct at its Else or End: the construct that the    *)
(* position lies directly in.                                              *)
LEMMA OpenerIs ==
  ASSUME NEW c \in Seq(Instr), WellNested(c), NEW q \in 1..Len(c), c[q].op \in {"Else", "End"}
  PROVE  LET o == OpenerOf(c, q) IN
         /\ o \in 1..(q - 1) /\ o \in 1..Len(c) /\ c[o].op \in BlockOps /\ Directly(c, o, q)
         /\ c[q].op = "Else" => c[o].op = "If" /\ CloserOf(c, o) = q
         /\ c[q].op = "End" => EndOf(c, o) = q
         /\ o \in Enclosing(c, q) /\ Max(Enclosing(c, q)) = o
<1> DEFINE S == {x \in OpsAt(c, BlockOps, 1, q - 1) : q \in {CloserOf(c, x), EndOf(c, x)}}
<1>1. Len(c) \in Nat /\ q \in Nat /\ \A x \in 1..(q - 1) : x \in 1..Len(c)
  OBVIOUS
<1>2. \E o \in 1..(q - 1) :
        /\ Directly(c, o, q) /\ c[o].op \in BlockOps
        /\ c[q].op = "Else" => c[o].op = "If" /\ CloserOf(c, o) = q
        /\ c[q].op = "End" => EndOf(c, o) = q
  <2>1. CASE c[q].op = "Else"
    BY <2>1, ElseOwner DEF BlockOps
  <2>2. CASE c[q].op = "End"
    BY <2>2, EndOwner DEF Directly, Inside
  <2> QED
    BY <2>1, <2>2
<1>3. PICK o \in 1..(q - 1) :
        /\ Directly(c, o, q) /\ c[o].op \in BlockOps
        /\ c[q].op = "Else" => c[o].op = "If" /\ CloserOf(c, o) = q
        /\ c[q].op = "End" => EndOf(c, o) = q
  BY <1>2
<1>4. o \in S
  BY <1>1, <1>3 DEF OpsAt
<1>5. ASSUME NEW x \in S
      PROVE  x = o
  <2>1. x \in 1..Len(c) /\ c[x].op \in BlockOps /\ (q = CloserOf(c, x) \/ q = EndOf(c, x))
    BY <1>1 DEF OpsAt
  <2>2. Directly(c, x, q)
    BY <2>1, CloserDirectly, EndIs
  <2> QED
    BY <1>1, <1>3, <2>2, DirectlyUnique
<1>6. OpenerOf(c, q) = o
  <2>1. OpenerOf(c, q) = CHOOSE x \in S : TRUE
    BY DEF OpenerOf
  <2> HIDE DEF S
  <2> QED
    BY <1>4, <1>5, <2>1
<1>7. o \in Enclosing(c, q) /\ \A x \in Enclosing(c, q) : x <= o
  <2>1. q \in 1..(Len(c) + 1)
    BY <1>1
  <2> QED
    BY <1>3, <2>1, Innermost
<1>8. Max(Enclosing(c, q)) = o
  <2>1. \A x \in Enclosing(c, q) : x \in Int
    BY <1>1 DEF Enclosing, OpsAt
  <2> DEFINE En == Enclosing(c, q)
  <2> HIDE DEF En
  <2>2. o \in En /\ (\A y \in En : o >= y) /\ \A x \in En : (\A y \in En : x >= y) => x = o
    BY <1>7, <2>1 DEF En
  <2>3. Max(En) = o
    BY <2>2 DEF Max
  <2> QED
    BY <2>3 DEF En
<1> QED
  BY <1>1, <1>3, <1>6, <1>7, <1>8

-----------------------------------------------------------------------------
(* The recursion of TypesIn, unfolded.                                     *)

TypesAt(m, f, g, p) ==
  LET c == Code(m, f)  q == p - 1 IN
  IF p = 1 THEN <<>>
  ELSE IF c[q].op = "Else" THEN g[OpenerOf(c, q) + 1]
  ELSE IF c[q].op = "End" THEN g[OpenerOf(c, q) + 1] \o BlockResults(c[OpenerOf(c, q)])
  ELSE Apply(EffectOf(m, f, c[q], g[q]), g[q])

Typings(m, f, n) ==
  {g \in [1..n -> Seq(Tag)] : \A p \in 1..n : g[p] = TypesAt(m, f, g, p)}

(* Applying an effect to types gives types, so many of them.               *)
LEMMA ApplyTyped ==
  ASSUME NEW e \in Effect, NEW T \in Seq(Tag)
  PROVE  /\ Apply(e, T) \in Seq(Tag)
         /\ Len(e.takes) <= Len(T) =>
              /\ Len(SubSeq(T, 1, Len(T) - Len(e.takes))) = Len(T) - Len(e.takes)
              /\ Len(Apply(e, T)) = Len(T) - Len(e.takes) + Len(e.gives)
<1>1. Len(e.takes) \in Nat /\ e.gives \in Seq(Tag) /\ Len(e.gives) \in Nat /\ Len(T) \in Nat
  BY DEF Effect
<1>2. /\ SubSeq(T, 1, Len(T) - Len(e.takes)) \in Seq(Tag)
      /\ Len(e.takes) <= Len(T) =>
           Len(SubSeq(T, 1, Len(T) - Len(e.takes))) = Len(T) - Len(e.takes)
  BY <1>1, Shortened
<1> QED
  BY <1>1, <1>2, ConcatProperties, ZenonT(30) DEF Apply

(* What a construct yields are types.                                      *)
LEMMA BlockResultsTyped ==
  ASSUME NEW i
  PROVE  BlockResults(i) \in Seq(Tag)
<1>1. <<>> \in Seq(Tag) /\ <<"I32">> \in Seq(Tag) /\ <<"F64">> \in Seq(Tag)
  BY DEF Tag
<1> QED
  BY <1>1 DEF BlockResults

(* The types at a position depend on those at earlier ones only.           *)
LEMMA TypesAtLocal ==
  ASSUME NEW m, ValidModule(m), NEW f \in DOMAIN m.codes, NEW p \in 1..(Len(Code(m, f)) + 1),
         NEW g, NEW h, \A i \in 1..(p - 1) : g[i] = h[i] /\ g[i] \in Seq(Tag)
  PROVE  TypesAt(m, f, g, p) = TypesAt(m, f, h, p) /\ TypesAt(m, f, g, p) \in Seq(Tag)
<1> DEFINE c == Code(m, f)
           q == p - 1
<1>1. c \in Seq(Instr) /\ WellNested(c) /\ Len(c) \in Nat
  BY FunctionParts
<1>2. CASE p = 1
  BY <1>2 DEF TypesAt
<1>3. CASE p # 1
  <2>1. q \in 1..Len(c) /\ q \in 1..(p - 1) /\ g[q] = h[q] /\ g[q] \in Seq(Tag)
    BY <1>1, <1>3
  <2>2. CASE c[q].op \in {"Else", "End"}
    <3> DEFINE o == OpenerOf(c, q)
    <3>1. o \in 1..(q - 1)
      BY <1>1, <2>1, <2>2, OpenerIs
    <3> HIDE DEF o
    <3>2. o + 1 \in 1..(p - 1)
      BY <3>1
    <3>3. g[o + 1] = h[o + 1] /\ g[o + 1] \in Seq(Tag)
      BY <3>2
    <3>4. g[o + 1] \o BlockResults(c[o]) \in Seq(Tag)
      BY <3>3, BlockResultsTyped, ConcatProperties
    <3> QED
      BY <1>3, <2>2, <3>3, <3>4 DEF TypesAt, o
  <2>3. CASE c[q].op \notin {"Else", "End"}
    <3>1. Apply(EffectOf(m, f, c[q], g[q]), g[q]) \in Seq(Tag)
      BY <2>1, EffectTyped, ApplyTyped
    <3> QED
      BY <1>3, <2>1, <2>3, <3>1 DEF TypesAt
  <2> QED
    BY <2>2, <2>3
<1> QED
  BY <1>2, <1>3

(* A function with the recursion of TypesIn exists.                        *)
LEMMA TypingExists ==
  ASSUME NEW m, ValidModule(m), NEW f \in DOMAIN m.codes
  PROVE  Typings(m, f, Len(Code(m, f)) + 1) # {}
<1> DEFINE n == Len(Code(m, f)) + 1
           Has(k) == Typings(m, f, k) # {}
           Bad == {k \in 1..n : ~Has(k)}
           b == Min(Bad)
<1>0. n \in Nat /\ n \in 1..n
  <2>1. Code(m, f) \in Seq(Instr)
    BY FunctionParts
  <2> QED
    BY <2>1
<1> HIDE DEF Has
<1>1. SUFFICES ASSUME n \in Bad PROVE FALSE
  BY <1>0 DEF Has
<1>2. b \in Bad /\ \A x \in Bad : b <= x
  <2>1. Bad \in SUBSET Nat /\ Bad # {}
    BY <1>1
  <2> HIDE DEF Bad
  <2> QED
    BY <2>1, MinExists
<1>3. b \in 1..n /\ ~Has(b)
  BY <1>2
<1> HIDE DEF b
<1>4. PICK g : /\ \A p \in 1..(b - 1) : g[p] \in Seq(Tag) /\ g[p] = TypesAt(m, f, g, p)
  <2>1. CASE b = 1
    BY <2>1
  <2>2. CASE b # 1
    <3>1. b - 1 \in 1..n /\ Has(b - 1)
      BY <1>0, <1>2, <1>3, <2>2
    <3> QED
      BY <3>1 DEF Has, Typings
  <2> QED
    BY <2>1, <2>2
<1> DEFINE h == [p \in 1..b |-> IF p = b THEN TypesAt(m, f, g, b) ELSE g[p]]
<1>5. \A p \in 1..(b - 1) : p \in 1..b /\ p # b /\ \A i \in 1..(p - 1) : i \in 1..(b - 1) /\ i \in 1..b /\ i # b
  BY <1>0, <1>3
<1>6. \A p \in 1..b : p = b \/ p \in 1..(b - 1)
  BY <1>0, <1>3
<1>7. b \in 1..(Len(Code(m, f)) + 1) /\ \A p \in 1..b : p \in 1..(Len(Code(m, f)) + 1)
  BY <1>0, <1>3
<1>8. \A p \in 1..(b - 1) : h[p] = g[p]
  BY <1>5
<1>9. \A p \in 1..b : TypesAt(m, f, g, p) = TypesAt(m, f, h, p) /\ TypesAt(m, f, g, p) \in Seq(Tag)
  <2> TAKE p \in 1..b
  <2>1. \A i \in 1..(p - 1) : i \in 1..(b - 1)
    BY <1>3
  <2>2. \A i \in 1..(p - 1) : g[i] = h[i] /\ g[i] \in Seq(Tag)
    BY <1>4, <1>8, <2>1
  <2> HIDE DEF h
  <2> QED
    BY <1>7, <2>2, TypesAtLocal
<1>10. h \in Typings(m, f, b)
  <2>1. \A p \in 1..b : h[p] \in Seq(Tag) /\ h[p] = TypesAt(m, f, h, p)
    <3> TAKE p \in 1..b
    <3>1. h[p] = TypesAt(m, f, g, p)
      BY <1>4, <1>6, <1>8
    <3> HIDE DEF h
    <3> QED
      BY <1>9, <3>1
  <2>2. h \in [1..b -> Seq(Tag)]
    BY <2>1
  <2> HIDE DEF h
  <2> QED
    BY <2>1, <2>2 DEF Typings
<1> QED
  BY <1>3, <1>10 DEF Has

(* TypesIn satisfies its own recursion.                                    *)
LEMMA TypesUnfolded ==
  ASSUME NEW m, ValidModule(m), NEW f \in DOMAIN m.codes
  PROVE  TypesIn(m, f) \in Typings(m, f, Len(Code(m, f)) + 1)
<1> DEFINE c == Code(m, f)
           n == Len(c) + 1
           Solves(g) ==
             g = [p \in 1..n |->
                    IF p = 1 THEN <<>>
                    ELSE LET i == c[p - 1]
                         IN CASE i.op = "Else" -> g[OpenerOf(c, p - 1) + 1]
                              [] i.op = "End"  -> LET o == OpenerOf(c, p - 1)
                                                  IN  g[o + 1] \o BlockResults(c[o])
                              [] OTHER -> Apply(EffectOf(m, f, i, g[p - 1]), g[p - 1])]
<1>0. n \in Nat /\ \A p \in 1..n : \A i \in 1..(p - 1) : i \in 1..n
  <2>1. c \in Seq(Instr)
    BY FunctionParts
  <2> QED
    BY <2>1
<1>1. TypesIn(m, f) = CHOOSE g : Solves(g)
  BY DEF TypesIn, Code
<1>2. \A g : Solves(g) <=> g = [p \in 1..n |-> TypesAt(m, f, g, p)]
  <2> TAKE g
  <2>1. \A p \in 1..n :
          (IF p = 1 THEN <<>>
           ELSE LET i == c[p - 1]
                IN CASE i.op = "Else" -> g[OpenerOf(c, p - 1) + 1]
                     [] i.op = "End"  -> LET o == OpenerOf(c, p - 1)
                                         IN  g[o + 1] \o BlockResults(c[o])
                     [] OTHER -> Apply(EffectOf(m, f, i, g[p - 1]), g[p - 1]))
          = TypesAt(m, f, g, p)
    BY DEF TypesAt
  <2> QED
    BY <2>1
<1> HIDE DEF Solves
<1>3. PICK g \in Typings(m, f, n) : TRUE
  BY TypingExists
<1>4. g \in [1..n -> Seq(Tag)] /\ \A p \in 1..n : g[p] = TypesAt(m, f, g, p)
  BY <1>3 DEF Typings
<1>5. Solves(g)
  <2>1. g = [p \in 1..n |-> TypesAt(m, f, g, p)]
    BY <1>4
  <2> QED
    BY <1>2, <2>1
<1>6. ASSUME NEW h, Solves(h)
      PROVE  h = g
  <2>1. h = [p \in 1..n |-> TypesAt(m, f, h, p)]
    BY <1>2, <1>6
  <2>2. \A p \in 1..n : h[p] = TypesAt(m, f, h, p)
    BY <2>1
  <2> DEFINE Bad == {p \in 1..n : h[p] # g[p]}
             b == Min(Bad)
  <2>3. Bad = {}
    <3>1. SUFFICES ASSUME Bad # {} PROVE FALSE
      OBVIOUS
    <3>2. b \in Bad /\ \A x \in Bad : b <= x
      <4>1. Bad \in SUBSET Nat
        OBVIOUS
      <4> HIDE DEF Bad
      <4> QED
        BY <3>1, <4>1, MinExists
    <3> HIDE DEF b
    <3>3. \A i \in 1..(b - 1) : i \in 1..n /\ i < b
      BY <1>0, <3>2
    <3>4. \A i \in 1..(b - 1) : g[i] = h[i] /\ g[i] \in Seq(Tag)
      <4> TAKE i \in 1..(b - 1)
      <4>1. i \notin Bad
        BY <3>2, <3>3
      <4> QED
        BY <1>4, <3>3, <4>1
    <3>5. TypesAt(m, f, g, b) = TypesAt(m, f, h, b)
      BY <3>2, <3>4, TypesAtLocal
    <3> QED
      BY <1>4, <2>2, <3>2, <3>5
  <2>4. \A p \in 1..n : h[p] = g[p]
    BY <2>3
  <2>5. h = [p \in 1..n |-> h[p]] /\ g = [p \in 1..n |-> g[p]]
    BY <1>4, <2>1
  <2> QED
    BY <2>4, <2>5
<1>7. (CHOOSE h : Solves(h)) = g
  BY <1>5, <1>6
<1> QED
  BY <1>1, <1>3, <1>7

EffectAt(m, f, p) == EffectOf(m, f, Code(m, f)[p], TypesIn(m, f)[p])

(* The types below the innermost construct around p.                       *)
BaseAt(m, f, p) ==
  IF Enclosing(Code(m, f), p) = {} THEN <<>>
  ELSE TypesIn(m, f)[Max(Enclosing(Code(m, f), p)) + 1]

(* The recursion of TypesIn, position by position.                         *)
LEMMA TypesFollow ==
  ASSUME NEW m, ValidModule(m), NEW f \in DOMAIN m.codes
  PROVE  LET c == Code(m, f)  T == TypesIn(m, f) IN
         /\ c \in Seq(Instr) /\ Len(c) \in Nat
         /\ T[1] = <<>>
         /\ \A p \in 1..(Len(c) + 1) : T[p] \in Seq(Tag)
         /\ \A p \in 1..Len(c) :
              /\ T[p] \in Seq(Tag) /\ T[p + 1] \in Seq(Tag) /\ EffectAt(m, f, p) \in Effect
              /\ c[p].op = "Else" => T[p + 1] = T[OpenerOf(c, p) + 1]
              /\ c[p].op = "End" => T[p + 1] = T[OpenerOf(c, p) + 1] \o BlockResults(c[OpenerOf(c, p)])
              /\ c[p].op \notin {"Else", "End"} => T[p + 1] = Apply(EffectAt(m, f, p), T[p])
<1> DEFINE c == Code(m, f)
           T == TypesIn(m, f)
<1>1. c \in Seq(Instr) /\ Len(c) \in Nat
  BY FunctionParts
<1>2. T \in [1..(Len(c) + 1) -> Seq(Tag)] /\ \A p \in 1..(Len(c) + 1) : T[p] = TypesAt(m, f, T, p)
  BY TypesUnfolded DEF Typings
<1> HIDE DEF T
<1>3. T[1] = <<>>
  <2>1. 1 \in 1..(Len(c) + 1)
    BY <1>1
  <2>2. T[1] = TypesAt(m, f, T, 1)
    BY <1>2, <2>1
  <2> QED
    BY <2>2 DEF TypesAt
<1>4. ASSUME NEW p \in 1..Len(c)
      PROVE  /\ T[p] \in Seq(Tag) /\ T[p + 1] \in Seq(Tag) /\ EffectOf(m, f, c[p], T[p]) \in Effect
             /\ c[p].op = "Else" => T[p + 1] = T[OpenerOf(c, p) + 1]
             /\ c[p].op = "End" => T[p + 1] = T[OpenerOf(c, p) + 1] \o BlockResults(c[OpenerOf(c, p)])
             /\ c[p].op \notin {"Else", "End"} => T[p + 1] = Apply(EffectOf(m, f, c[p], T[p]), T[p])
  <2>1. p \in 1..(Len(c) + 1) /\ p + 1 \in 1..(Len(c) + 1) /\ (p + 1) - 1 = p /\ p + 1 # 1
    BY <1>1
  <2>2. T[p + 1] = TypesAt(m, f, T, p + 1) /\ T[p] \in Seq(Tag) /\ T[p + 1] \in Seq(Tag)
    BY <1>2, <2>1
  <2>3. EffectOf(m, f, c[p], T[p]) \in Effect
    BY <2>2, EffectTyped
  <2> QED
    BY <2>1, <2>2, <2>3 DEF TypesAt
<1> QED
  BY <1>1, <1>2, <1>3, <1>4 DEF T, EffectAt

(* What validation asks of a position that execution reaches.              *)
LEMMA ValidAt ==
  ASSUME NEW m, ValidModule(m), NEW f \in DOMAIN m.codes, NEW p \in 1..Len(Code(m, f)),
         ~Dead(Code(m, f), p)
  PROVE  LET c == Code(m, f)  T == TypesIn(m, f)[p]  e == EffectAt(m, f, p)
         IN /\ IsSuffix(e.takes, T) /\ Len(BaseAt(m, f, p)) + Len(e.takes) <= Len(T)
            /\ c[p].op = "Drop" => Len(BaseAt(m, f, p)) < Len(T)
            /\ c[p].op \in BranchOps => \A j \in DOMAIN c[p].imms :
                 Len(BaseAt(m, f, p)) + Len(LabelTypes(m, f, p, c[p].imms[j]) \o e.takes) <= Len(T)
            /\ c[p].op \in {"Else", "End"} => T = BaseAt(m, f, p) \o BlockResults(c[OpenerOf(c, p)])
            /\ c[p].op = "Return" => Len(BaseAt(m, f, p)) + Len(ResultsOf(m, f)) <= Len(T)
<1> DEFINE c == Code(m, f)
           T == TypesIn(m, f)
           Base == BaseAt(m, f, p)
<1>1. ValidFunction(m, f)
  BY FunctionParts
<1>2. \A a, b : Len(a) >= b <=> b <= Len(a)
  OBVIOUS
<1> QED
  BY <1>1 DEF ValidFunction, Code, EffectAt, BaseAt

(* What validation asks of the end of a body, of an If without Else, and   *)
(* of code that is not reached.                                            *)
LEMMA ValidWhole ==
  ASSUME NEW m, ValidModule(m), NEW f \in DOMAIN m.codes
  PROVE  LET c == Code(m, f) IN
         /\ ~Dead(c, Len(c) + 1) => TypesIn(m, f)[Len(c) + 1] = ResultsOf(m, f)
         /\ \A o \in 1..Len(c) : c[o].op = "If" /\ c[CloserOf(c, o)].op # "Else" => c[o].imms = <<>>
         /\ \A p \in 1..Len(c) : Dead(c, p) => c[p].op \in {"Else", "End"}
<1>1. ValidFunction(m, f)
  BY FunctionParts
<1> QED
  BY <1>1 DEF ValidFunction, Code, OpsAt

(* A set of positions has a last one.                                      *)
LEMMA MaxExists ==
  ASSUME NEW n \in Nat, NEW S \in SUBSET (1..n), S # {}
  PROVE  Max(S) \in S /\ \A x \in S : x <= Max(S)
<1> DEFINE R == {n - x : x \in S}
           r == Min(R)
<1>1. R \in SUBSET Nat /\ R # {}
  OBVIOUS
<1>2. r \in R /\ \A x \in R : r <= x
  <2> HIDE DEF R
  <2> QED
    BY <1>1, MinExists
<1>3. PICK m \in S : r = n - m
  BY <1>2
<1>4. \A x \in S : x <= m
  <2> TAKE x \in S
  <2>1. n - x \in R
    OBVIOUS
  <2>2. r <= n - x /\ r = n - m /\ x \in Int /\ m \in Int
    BY <1>2, <1>3, <2>1
  <2> HIDE DEF R, r
  <2> QED
    BY <2>2
<1>5. Max(S) = m
  <2>1. \A x \in S : x \in Int
    OBVIOUS
  <2>2. (\A y \in S : m >= y) /\ \A x \in S : (\A y \in S : x >= y) => x = m
    BY <1>4, <2>1
  <2> QED
    BY <2>2 DEF Max
<1> QED
  BY <1>4, <1>5

(* Constructs only add to the types they start from.                       *)
LEMMA BasesGrow ==
  ASSUME NEW m, ValidModule(m), NEW f \in DOMAIN m.codes, NEW p \in 1..Len(Code(m, f)),
         Code(m, f)[p].op \in BlockOps, NEW o \in Enclosing(Code(m, f), p)
  PROVE  Len(TypesIn(m, f)[o + 1]) <= Len(TypesIn(m, f)[p + 1])
<1> DEFINE c == Code(m, f)
           T == TypesIn(m, f)
           Bad == {x \in 1..Len(c) : c[x].op \in BlockOps
                     /\ \E q \in Enclosing(c, x) : ~(Len(T[q + 1]) <= Len(T[x + 1]))}
           b == Min(Bad)
<1>1. /\ c \in Seq(Instr) /\ Len(c) \in Nat /\ WellNested(c)
      /\ \A x \in 1..Len(c) : T[x] \in Seq(Tag) /\ T[x + 1] \in Seq(Tag)
      /\ \A x \in 1..Len(c) : Len(T[x]) \in Nat /\ Len(T[x + 1]) \in Nat
  <2>1. c \in Seq(Instr) /\ Len(c) \in Nat /\ WellNested(c)
    BY FunctionParts, TypesFollow
  <2>2. \A x \in 1..Len(c) : T[x] \in Seq(Tag) /\ T[x + 1] \in Seq(Tag)
    BY TypesFollow
  <2>3. \A s \in Seq(Tag) : Len(s) \in Nat
    OBVIOUS
  <2> QED
    BY <2>1, <2>2, <2>3
<1> HIDE DEF T
<1>2. SUFFICES ASSUME Bad # {} PROVE FALSE
  BY DEF T
<1>3. b \in Bad /\ \A x \in Bad : b <= x
  <2>1. Bad \in SUBSET Nat
    BY <1>1
  <2> HIDE DEF Bad
  <2> QED
    BY <1>2, <2>1, MinExists
<1> HIDE DEF b
<1>4. PICK q \in Enclosing(c, b) : ~(Len(T[q + 1]) <= Len(T[b + 1]))
  BY <1>3
<1>5. /\ b \in 1..Len(c) /\ c[b].op \in BlockOps /\ b \in 1..(Len(c) + 1) /\ b \in Nat
      /\ b \notin {} /\ ~Dead(c, b)
  <2>1. b \in 1..Len(c) /\ c[b].op \in BlockOps
    BY <1>3
  <2>2. c[b].op \notin {"Else", "End"}
    BY <2>1 DEF BlockOps
  <2>3. Dead(c, b) => c[b].op \in {"Else", "End"}
    BY <2>1, ValidWhole
  <2> QED
    BY <1>1, <2>1, <2>2, <2>3
<1> DEFINE d == Max(Enclosing(c, b))
<1>6. /\ Enclosing(c, b) \in SUBSET (1..(b - 1)) /\ b - 1 \in Nat
      /\ \A x \in Enclosing(c, b) : x \in Int /\ x < b /\ x \in 1..Len(c) /\ c[x].op \in BlockOps
  BY <1>1, <1>5, EnclosingFacts
<1>7. d \in Enclosing(c, b) /\ \A x \in Enclosing(c, b) : x <= d
  BY <1>4, <1>6, MaxExists
<1>8. Len(T[d + 1]) <= Len(T[b + 1])
  <2>1. BaseAt(m, f, b) = T[d + 1]
    BY <1>4 DEF BaseAt, T
  <2> DEFINE e == EffectAt(m, f, b)
  <2>2. Len(T[d + 1]) + Len(e.takes) <= Len(T[b])
    <3>1. Len(BaseAt(m, f, b)) + Len(e.takes) <= Len(T[b])
      BY <1>5, ValidAt DEF T
    <3> HIDE DEF d, e
    <3> QED
      BY <2>1, <3>1
  <2>3. T[b + 1] = Apply(e, T[b]) /\ e \in Effect
    <3>1. c[b].op \notin {"Else", "End"}
      BY <1>5 DEF BlockOps
    <3> QED
      BY <1>5, <3>1, TypesFollow, ZenonT(30) DEF T
  <2>4. Len(e.takes) \in Nat /\ Len(e.gives) \in Nat /\ Len(T[b]) \in Nat /\ Len(T[d + 1]) \in Nat
    <3>1. d \in 1..Len(c)
      BY <1>6, <1>7
    <3> HIDE DEF d
    <3> QED
      BY <1>1, <1>5, <2>3, <3>1, SMTT(30) DEF Effect
  <2>5. Len(T[b + 1]) = Len(T[b]) - Len(e.takes) + Len(e.gives)
    <3> HIDE DEF e, d
    <3>1. Len(e.takes) <= Len(T[b])
      <4>1. \A x, y, z \in Nat : x + y <= z => y <= z
        OBVIOUS
      <4> QED
        BY <2>2, <2>4, <4>1
    <3>2. T[b] \in Seq(Tag)
      BY <1>1, <1>5
    <3> QED
      BY <2>3, <3>1, <3>2, ApplyTyped
  <2>6. \A x, y, z, u \in Nat : x + y <= z => x <= z - y + u
    OBVIOUS
  <2> HIDE DEF e, d
  <2> QED
    BY <2>2, <2>4, <2>5, <2>6
<1> HIDE DEF d
<1>9. q # d
  BY <1>4, <1>8
<1>10. q < d /\ q \in Enclosing(c, d)
  <2>1. q < d
    BY <1>4, <1>6, <1>7, <1>9
  <2>2. {x \in Enclosing(c, b) : x < d} = Enclosing(c, d)
    BY <1>1, <1>5, <1>7, EnclosingOuter
  <2> QED
    BY <1>4, <2>1, <2>2
<1>11. d \notin Bad /\ d \in 1..Len(c) /\ c[d].op \in BlockOps
  BY <1>3, <1>5, <1>6, <1>7, SMTT(30)
<1>12. Len(T[q + 1]) <= Len(T[d + 1])
  BY <1>10, <1>11
<1>13. Len(T[q + 1]) \in Nat /\ Len(T[d + 1]) \in Nat /\ Len(T[b + 1]) \in Nat
  BY <1>1, <1>4, <1>5, <1>6, <1>11
<1> QED
  BY <1>4, <1>8, <1>12, <1>13

(* The innermost construct starts from no less than those around it.       *)
LEMMA BaseCovers ==
  ASSUME NEW m, ValidModule(m), NEW f \in DOMAIN m.codes, NEW p \in 1..Len(Code(m, f)),
         NEW o \in Enclosing(Code(m, f), p)
  PROVE  Len(TypesIn(m, f)[o + 1]) <= Len(BaseAt(m, f, p))
<1> DEFINE c == Code(m, f)
           T == TypesIn(m, f)
           d == Max(Enclosing(c, p))
<1>1. c \in Seq(Instr) /\ Len(c) \in Nat /\ WellNested(c) /\ p \in 1..(Len(c) + 1)
      /\ \A x \in 1..Len(c) : Len(T[x + 1]) \in Nat
  BY FunctionParts, TypesFollow
<1>2. /\ Enclosing(c, p) \in SUBSET (1..(p - 1)) /\ p - 1 \in Nat
      /\ \A x \in Enclosing(c, p) : x \in Int /\ x < p /\ x \in 1..Len(c) /\ c[x].op \in BlockOps
  BY <1>1, EnclosingFacts
<1>3. d \in Enclosing(c, p) /\ \A x \in Enclosing(c, p) : x <= d
  BY <1>2, MaxExists
<1>4. BaseAt(m, f, p) = T[d + 1]
  BY DEF BaseAt
<1> HIDE DEF d, T
<1>5. CASE o = d
  <2>1. Len(T[d + 1]) \in Nat
    BY <1>1, <1>2, <1>3
  <2> QED
    BY <1>4, <1>5, <2>1 DEF T
<1>6. CASE o # d
  <2>1. o < d
    BY <1>2, <1>3, <1>6
  <2>2. {x \in Enclosing(c, p) : x < d} = Enclosing(c, d)
    BY <1>1, <1>3, EnclosingOuter
  <2>3. o \in Enclosing(c, d) /\ d \in 1..Len(c) /\ c[d].op \in BlockOps
    BY <1>2, <1>3, <2>1, <2>2
  <2> QED
    BY <1>4, <2>3, BasesGrow DEF T
<1> QED
  BY <1>5, <1>6

-----------------------------------------------------------------------------
(* Where execution goes from an instruction.                               *)

(* The types after the instruction at p has taken its operands and given   *)
(* its results.                                                            *)
After(m, f, p) == Apply(EffectAt(m, f, p), TypesIn(m, f)[p])

(* Execution may go on from p at t: validation accounts for no more        *)
(* operands there than there are, and for exactly these if no jump leaves  *)
(* any behind.                                                             *)
Reaches(m, f, p, t) ==
  LET c == Code(m, f)  T == TypesIn(m, f)[t] IN
  /\ t \in 1..(Len(c) + 1) /\ ~Dead(c, t)
  /\ Len(T) <= Len(After(m, f, p))
  /\ LeavesNothing(m, f) => T = After(m, f, p)

(* What a position that is reached has on the stack.                       *)
LEMMA TypesFit ==
  ASSUME NEW m, ValidModule(m), NEW f \in DOMAIN m.codes, NEW p \in 1..Len(Code(m, f)),
         ~Dead(Code(m, f), p)
  PROVE  LET T == TypesIn(m, f)[p]  e == EffectAt(m, f, p) IN
         /\ T \in Seq(Tag) /\ e.takes \in Seq(Tag) /\ e.gives \in Seq(Tag)
         /\ Len(T) \in Nat /\ Len(e.takes) \in Nat /\ Len(e.gives) \in Nat
         /\ Len(e.takes) <= Len(T)
         /\ \A i \in 1..Len(e.takes) : T[Len(T) - Len(e.takes) + i] = e.takes[i]
         /\ T = SubSeq(T, 1, Len(T) - Len(e.takes)) \o e.takes
         /\ After(m, f, p) \in Seq(Tag)
         /\ Len(After(m, f, p)) = Len(T) - Len(e.takes) + Len(e.gives)
         /\ After(m, f, p) = SubSeq(T, 1, Len(T) - Len(e.takes)) \o e.gives
<1> DEFINE T == TypesIn(m, f)[p]
           e == EffectAt(m, f, p)
<1>1. T \in Seq(Tag) /\ e \in Effect
  BY TypesFollow
<1>2. e.takes \in Seq(Tag) /\ e.gives \in Seq(Tag)
  BY <1>1 DEF Effect
<1>3. Len(T) \in Nat /\ Len(e.takes) \in Nat /\ Len(e.gives) \in Nat
  BY <1>1, <1>2
<1>4. IsSuffix(e.takes, T)
  BY ValidAt
<1>5. /\ Len(e.takes) <= Len(T)
      /\ \A i \in 1..Len(e.takes) : e.takes[i] = T[Len(T) - Len(e.takes) + i]
      /\ T = SubSeq(T, 1, Len(T) - Len(e.takes)) \o e.takes
  <2> HIDE DEF T, e
  <2> QED
    BY <1>1, <1>2, <1>4, SuffixIs
<1>6. /\ After(m, f, p) \in Seq(Tag) /\ Len(After(m, f, p)) = Len(T) - Len(e.takes) + Len(e.gives)
      /\ After(m, f, p) = SubSeq(T, 1, Len(T) - Len(e.takes)) \o e.gives
  <2>1. After(m, f, p) = Apply(e, T)
    BY DEF After
  <2> HIDE DEF T, e
  <2> QED
    BY <1>1, <1>5, <2>1, ApplyTyped DEF Apply
<1> QED
  BY <1>1, <1>2, <1>3, <1>5, <1>6

(* An instruction that takes and gives nothing.                            *)
LEMMA NoEffect ==
  ASSUME NEW m, ValidModule(m), NEW f \in DOMAIN m.codes, NEW p \in 1..Len(Code(m, f)),
         Code(m, f)[p].op \in {"Nop", "Br", "Block", "Loop", "Unreachable", "Else", "End", "Return"}
  PROVE  /\ EffectAt(m, f, p) = [takes |-> <<>>, gives |-> <<>>]
         /\ After(m, f, p) = TypesIn(m, f)[p]
<1> DEFINE T == TypesIn(m, f)[p]
<1>1. EffectAt(m, f, p) = [takes |-> <<>>, gives |-> <<>>]
  BY DEF EffectAt, EffectOf, DataOps
<1>2. T \in Seq(Tag)
  BY TypesFollow
<1>3. SubSeq(T, 1, Len(T) - 0) = T /\ T \o <<>> = T
  <2> HIDE DEF T
  <2> QED
    BY <1>2, Shortened, ConcatEmptySeq
<1>4. Len(<<>>) = 0
  OBVIOUS
<1> QED
  BY <1>1, <1>3, <1>4 DEF After, Apply

(* An instruction that takes a condition or an index.                      *)
LEMMA IfEffect ==
  ASSUME NEW m, ValidModule(m), NEW f \in DOMAIN m.codes, NEW p \in 1..Len(Code(m, f)),
         Code(m, f)[p].op \in {"If", "BrIf", "BrTable"}
  PROVE  EffectAt(m, f, p) = [takes |-> <<"I32">>, gives |-> <<>>]
BY DEF EffectAt, EffectOf, DataOps

(* Falling through, past an End included.                                  *)
LEMMA FallsThrough ==
  ASSUME NEW m, ValidModule(m), NEW f \in DOMAIN m.codes, NEW p \in 1..Len(Code(m, f)),
         ~Dead(Code(m, f), p),
         Code(m, f)[p].op \notin {"Else", "Br", "BrTable", "Return", "Unreachable"}
  PROVE  Reaches(m, f, p, p + 1)
<1> DEFINE c == Code(m, f)
           T == TypesIn(m, f)
<1>1. c \in Seq(Instr) /\ Len(c) \in Nat /\ WellNested(c) /\ T[p + 1] \in Seq(Tag)
  BY FunctionParts, TypesFollow
<1>2. p + 1 \in 1..(Len(c) + 1) /\ ~Dead(c, p + 1)
  BY <1>1 DEF Dead
<1>3. T[p + 1] = After(m, f, p)
  <2>1. CASE c[p].op = "End"
    <3> DEFINE o == OpenerOf(c, p)
    <3>1. T[p + 1] = T[o + 1] \o BlockResults(c[o])
      BY <2>1, TypesFollow
    <3>2. T[p] = BaseAt(m, f, p) \o BlockResults(c[o])
      BY <2>1, ValidAt
    <3>3. o \in Enclosing(c, p) /\ Max(Enclosing(c, p)) = o
      BY <1>1, <2>1, OpenerIs
    <3>4. BaseAt(m, f, p) = T[o + 1]
      <4> HIDE DEF o
      <4> QED
        BY <3>3 DEF BaseAt
    <3> QED
      BY <2>1, <3>1, <3>2, <3>4, NoEffect
  <2>2. CASE c[p].op # "End"
    <3>1. c[p].op \notin {"Else", "End"}
      BY <2>2
    <3>2. \A x \in 1..Len(c) : c[x].op \notin {"Else", "End"} => T[x + 1] = Apply(EffectAt(m, f, x), T[x])
      BY TypesFollow, ZenonT(30)
    <3> HIDE DEF T, c
    <3>3. T[p + 1] = Apply(EffectAt(m, f, p), T[p])
      BY <3>1, <3>2 DEF c
    <3> QED
      BY <3>3 DEF T, After
  <2> QED
    BY <2>1, <2>2
<1>4. Len(T[p + 1]) <= Len(After(m, f, p))
  <2>1. Len(T[p + 1]) \in Nat
    BY <1>1
  <2> QED
    BY <1>3, <2>1
<1> QED
  BY <1>2, <1>3, <1>4 DEF Reaches

(* An If with a zero condition goes on behind its Else or End, an Else     *)
(* behind the End of its if.                                               *)
LEMMA IfSkips ==
  ASSUME NEW m, ValidModule(m), NEW f \in DOMAIN m.codes, NEW p \in 1..Len(Code(m, f)),
         ~Dead(Code(m, f), p), Code(m, f)[p].op \in {"If", "Else"}, Benign(Code(m, f))
  PROVE  SkipDefined(Code(m, f), p) /\ Reaches(m, f, p, SkipTarget(Code(m, f), p))
<1> DEFINE c == Code(m, f)
           T == TypesIn(m, f)
           q == CloserOf(c, p)
<1>1. c \in Seq(Instr) /\ Len(c) \in Nat /\ WellNested(c)
  BY FunctionParts, TypesFollow
<1>2. Closers(c, p) # {} /\ CleanSkip(c, p)
  <2>1. c[p].op \in BlockOps \cup {"Else"}
    BY DEF BlockOps
  <2> QED
    BY <1>1, <2>1, HasCloser DEF Benign
<1>3. SkipDefined(c, p) /\ SkipTarget(c, p) = q + 1
  BY <1>1, <1>2, SkipReachesCloser
<1>4. q \in (p + 1)..Len(c) /\ c[q].op \in {"Else", "End"}
  BY <1>1, <1>2, CloserIs
<1>5. q \in 1..Len(c) /\ q + 1 \in 1..(Len(c) + 1) /\ (q + 1) - 1 = q
  BY <1>1, <1>4
<1> HIDE DEF q
<1>6. ~Dead(c, q + 1)
  BY <1>4, <1>5 DEF Dead
<1>7. T[q + 1] = After(m, f, p)
  <2>1. CASE c[p].op = "If"
    <3> DEFINE o == OpenerOf(c, q)
    <3>1. Directly(c, p, q) /\ Directly(c, o, q)
      <4>1. c[p].op \in BlockOps
        BY <2>1 DEF BlockOps
      <4> QED
        BY <1>1, <1>4, <1>5, <4>1, CloserDirectly, OpenerIs DEF q
    <3>2. o = p
      BY <1>5, <3>1, DirectlyUnique
    <3>3. T[p + 1] = After(m, f, p) /\ T[p + 1] \in Seq(Tag)
      BY <2>1, TypesFollow, ZenonT(30) DEF After
    <3>4. CASE c[q].op = "Else"
      <4>1. T[q + 1] = T[o + 1]
        BY <1>5, <3>4, TypesFollow
      <4> QED
        BY <3>2, <3>3, <4>1
    <3>5. CASE c[q].op = "End"
      <4>1. T[q + 1] = T[o + 1] \o BlockResults(c[o])
        BY <1>5, <3>5, TypesFollow
      <4>2. c[p].imms = <<>>
        BY <2>1, <3>5, ValidWhole DEF q
      <4>3. BlockResults(c[p]) = <<>>
        <5>1. <<1>> # <<>> /\ <<2>> # <<>>
          OBVIOUS
        <5> QED
          BY <4>2, <5>1 DEF BlockResults
      <4> HIDE DEF T, o
      <4>4. T[p + 1] \o <<>> = T[p + 1]
        BY <3>3, ConcatEmptySeq
      <4> QED
        BY <3>2, <3>3, <4>1, <4>3, <4>4 DEF T
    <3> QED
      BY <1>4, <3>4, <3>5
  <2>2. CASE c[p].op = "Else"
    <3> DEFINE o == OpenerOf(c, p)
    <3>1. /\ o \in 1..Len(c) /\ c[o].op = "If" /\ CloserOf(c, o) = p
          /\ o \in Enclosing(c, p) /\ Max(Enclosing(c, p)) = o
      BY <1>1, <2>2, OpenerIs
    <3>2. EndOf(c, o) = q
      BY <2>2, <3>1 DEF EndOf, q
    <3>3. c[q].op = "End" /\ Directly(c, o, q)
      <4>1. c[o].op \in BlockOps
        BY <3>1 DEF BlockOps
      <4> QED
        BY <1>1, <3>1, <3>2, <4>1, EndIs
    <3>4. OpenerOf(c, q) = o
      <4>1. Directly(c, OpenerOf(c, q), q)
        BY <1>1, <1>4, <1>5, OpenerIs
      <4> QED
        BY <1>5, <3>3, <4>1, DirectlyUnique
    <3>5. T[q + 1] = T[o + 1] \o BlockResults(c[o])
      <4>1. T[q + 1] = T[OpenerOf(c, q) + 1] \o BlockResults(c[OpenerOf(c, q)])
        BY <1>5, <3>3, TypesFollow
      <4> QED
        BY <3>4, <4>1
    <3>6. T[p] = BaseAt(m, f, p) \o BlockResults(c[o])
      BY <2>2, ValidAt
    <3>7. BaseAt(m, f, p) = T[o + 1]
      <4> HIDE DEF o
      <4> QED
        BY <3>1 DEF BaseAt
    <3> QED
      BY <2>2, <3>5, <3>6, <3>7, NoEffect
  <2> QED
    BY <2>1, <2>2
<1>8. Len(T[q + 1]) <= Len(After(m, f, p))
  <2>1. Len(T[q + 1]) \in Nat
    BY <1>5, TypesFollow
  <2> QED
    BY <1>7, <2>1
<1> QED
  BY <1>3, <1>5, <1>6, <1>7, <1>8 DEF Reaches

(* A branch goes where the types of its label are.                         *)
LEMMA BranchReaches ==
  ASSUME NEW m, ValidModule(m), NEW f \in DOMAIN m.codes, NEW p \in 1..Len(Code(m, f)),
         ~Dead(Code(m, f), p), Code(m, f)[p].op \in BranchOps, Benign(Code(m, f)),
         NEW j \in DOMAIN Code(m, f)[p].imms
  PROVE  /\ BranchDefined(Code(m, f), p, Code(m, f)[p].imms[j])
         /\ Reaches(m, f, p, BranchTarget(Code(m, f), p, Code(m, f)[p].imms[j]))
<1> DEFINE c == Code(m, f)
           T == TypesIn(m, f)
           k == c[p].imms[j]
           o == LabelOpener(c, p, k)
           t == BranchTarget(c, p, k)
           R == IF c[o].op = "Loop" THEN <<>> ELSE BlockResults(c[o])
           takes == EffectAt(m, f, p).takes
<1>1. c \in Seq(Instr) /\ Len(c) \in Nat /\ WellNested(c) /\ p \in Nat \ {0}
  BY FunctionParts, TypesFollow
<1>2. k \in Nat
  <2>1. c[p] \in Instr
    BY <1>1
  <2>2. c[p].imms \in Seq(Nat)
    BY <2>1 DEF Instr
  <2> QED
    BY <2>2, ElementAt
<1>3. CleanBranch(c, p, k)
  BY DEF Benign
<1> HIDE DEF k
<1>4. k < Cardinality(Enclosing(c, p))
  BY <1>3 DEF CleanBranch
<1>5. BranchDefined(c, p, k) /\ t = LabelTarget(c, p, k) /\ c[o].op \in LabelOps
  BY <1>1, <1>2, <1>3, CleanBranchLands
<1>6. o \in Enclosing(c, p)
  BY <1>1, <1>2, <1>4, LabelOpenerIs
<1>7. o \in 1..Len(c) /\ c[o].op \in BlockOps
  <2>1. p \in 1..(Len(c) + 1)
    BY <1>1
  <2> HIDE DEF o
  <2> QED
    BY <1>1, <1>6, <2>1, EnclosingFacts
<1>8. /\ Cardinality(Enclosing(c, p)) \in Nat
      /\ k # Cardinality(Enclosing(c, p)) /\ ~(k >= Cardinality(Enclosing(c, p)))
  <2>1. p \in 1..(Len(c) + 1)
    BY <1>1
  <2>2. Enclosing(c, p) \in SUBSET (1..p) /\ p \in Nat
    BY <1>1, <2>1, EnclosingFacts
  <2>3. Cardinality(Enclosing(c, p)) \in Nat
    BY <2>2, PositionsFinite
  <2> QED
    BY <1>2, <1>4, <2>3
<1>9. t = IF c[o].op = "Loop" THEN o + 1 ELSE EndOf(c, o) + 1
  BY <1>5, <1>8 DEF LabelTarget
<1>10. LabelTypes(m, f, p, k) = R /\ LabelBase(m, f, p, k) = T[o + 1]
  BY <1>8 DEF LabelTypes, LabelBase, Code
<1>11. R \in Seq(Tag) /\ T[o + 1] \in Seq(Tag)
  <2>1. <<>> \in Seq(Tag) /\ BlockResults(c[o]) \in Seq(Tag)
    BY BlockResultsTyped
  <2> HIDE DEF o
  <2> QED
    BY <1>7, <2>1, TypesFollow
<1> HIDE DEF o
<1>12. t \in 1..(Len(c) + 1) /\ ~Dead(c, t) /\ T[t] = T[o + 1] \o R
  <2>1. CASE c[o].op = "Loop"
    <3>1. t = o + 1 /\ t \in 1..(Len(c) + 1) /\ t - 1 = o
      BY <1>1, <1>7, <1>9, <2>1
    <3>2. ~Dead(c, t)
      BY <2>1, <3>1 DEF Dead
    <3>3. T[o + 1] \o <<>> = T[o + 1]
      <4> HIDE DEF T
      <4> QED
        BY <1>11, ConcatEmptySeq
    <3> QED
      BY <2>1, <3>1, <3>2, <3>3
  <2>2. CASE c[o].op # "Loop"
    <3> DEFINE q == EndOf(c, o)
    <3>1. q \in (o + 1)..Len(c) /\ c[q].op = "End" /\ Directly(c, o, q)
      BY <1>1, <1>7, EndIs
    <3>2. t = q + 1 /\ q \in 1..Len(c) /\ t \in 1..(Len(c) + 1) /\ t - 1 = q
      BY <1>1, <1>7, <1>9, <2>2, <3>1
    <3> HIDE DEF q
    <3>3. ~Dead(c, t)
      BY <3>1, <3>2 DEF Dead
    <3>4. OpenerOf(c, q) = o
      <4>1. Directly(c, OpenerOf(c, q), q)
        BY <1>1, <3>1, <3>2, OpenerIs
      <4> QED
        BY <3>1, <3>2, <4>1, DirectlyUnique
    <3>5. T[q + 1] = T[OpenerOf(c, q) + 1] \o BlockResults(c[OpenerOf(c, q)])
      BY <3>1, <3>2, TypesFollow
    <3> QED
      BY <2>2, <3>2, <3>3, <3>4, <3>5
  <2> QED
    BY <2>1, <2>2
<1> HIDE DEF t, R
<1>13. /\ After(m, f, p) \in Seq(Tag) /\ takes \in Seq(Tag) /\ T[p] \in Seq(Tag)
       /\ Len(After(m, f, p)) = Len(T[p]) - Len(takes)
  <2>1. EffectAt(m, f, p).gives = <<>>
    BY IfEffect, NoEffect DEF BranchOps
  <2>2. Len(<<>>) = 0
    OBVIOUS
  <2>3. /\ After(m, f, p) \in Seq(Tag) /\ takes \in Seq(Tag) /\ T[p] \in Seq(Tag)
        /\ Len(After(m, f, p)) = Len(T[p]) - Len(takes) + 0 /\ Len(T[p]) \in Nat /\ Len(takes) \in Nat
    BY <2>1, <2>2, TypesFit
  <2> HIDE DEF T, takes
  <2> QED
    BY <2>3
<1>14. Len(BaseAt(m, f, p)) + Len(R \o takes) <= Len(T[p])
  <2>1. Len(BaseAt(m, f, p)) + Len(LabelTypes(m, f, p, k) \o takes) <= Len(T[p])
    BY ValidAt DEF k
  <2> QED
    BY <1>10, <2>1
<1>15. Len(T[o + 1]) <= Len(BaseAt(m, f, p))
  BY <1>6, BaseCovers
<1>16. BaseAt(m, f, p) \in Seq(Tag)
  <2>1. Enclosing(c, p) # {}
    BY <1>6
  <2>2. p \in 1..(Len(c) + 1)
    BY <1>1
  <2>3. Enclosing(c, p) \in SUBSET (1..p) /\ p \in Nat /\ \A x \in Enclosing(c, p) : x \in 1..Len(c)
    BY <1>1, <2>2, EnclosingFacts
  <2>4. Max(Enclosing(c, p)) \in 1..Len(c)
    BY <2>1, <2>3, MaxExists
  <2>5. BaseAt(m, f, p) = T[Max(Enclosing(c, p)) + 1]
    BY <2>1 DEF BaseAt
  <2>6. \A x \in 1..Len(c) : T[x + 1] \in Seq(Tag)
    BY TypesFollow
  <2> HIDE DEF T
  <2> QED
    BY <2>4, <2>5, <2>6
<1>17. Len(T[t]) <= Len(After(m, f, p))
  <2> DEFINE B == BaseAt(m, f, p)
             A == After(m, f, p)
             O == T[o + 1]
  <2>1. /\ Len(B) \in Nat /\ Len(A) \in Nat /\ Len(O) \in Nat /\ Len(R) \in Nat
        /\ Len(takes) \in Nat /\ Len(T[p]) \in Nat
    <3> HIDE DEF T, takes, B, A, O
    <3>1. \A s \in Seq(Tag) : Len(s) \in Nat
      OBVIOUS
    <3> QED
      BY <1>11, <1>13, <1>16, <3>1 DEF O, A, B
  <2>2. Len(R \o takes) = Len(R) + Len(takes) /\ Len(O \o R) = Len(O) + Len(R)
    BY <1>11, <1>13, ConcatProperties
  <2>3. \A a, b, n, r, u, v \in Nat : b + (r + u) <= v /\ n <= b /\ a = v - u => n + r <= a
    OBVIOUS
  <2> HIDE DEF T, takes, B, A, O
  <2>4. Len(B) + (Len(R) + Len(takes)) <= Len(T[p]) /\ Len(O) <= Len(B) /\ Len(A) = Len(T[p]) - Len(takes)
    BY <1>13, <1>14, <1>15, <2>2 DEF A, B, O
  <2>5. Len(O) + Len(R) <= Len(A)
    BY <2>1, <2>3, <2>4
  <2> QED
    BY <1>12, <2>2, <2>5 DEF O, A
<1>18. LeavesNothing(m, f) => T[t] = After(m, f, p)
  <2>1. LeavesNothing(m, f) =>
          Apply(EffectOf(m, f, c[p], T[p]), T[p]) = LabelBase(m, f, p, k) \o LabelTypes(m, f, p, k)
    BY DEF LeavesNothing, Code, k
  <2> QED
    BY <1>10, <1>12, <2>1 DEF After, EffectAt
<1> QED
  BY <1>5, <1>12, <1>17, <1>18 DEF Reaches, k, t

(* Concatenation of types is associative.                                  *)
LEMMA JoinTags ==
  \A s, t, u \in Seq(Tag) : (s \o t) \o u = s \o (t \o u)
BY ConcatAssociative

(* The cut of a concatenation, for types.                                  *)
LEMMA CutTags ==
  \A s, t \in Seq(Tag) : \A n \in Nat : n <= Len(t) =>
    SubSeq(s \o t, 1, Len(s \o t) - n) = s \o SubSeq(t, 1, Len(t) - n)
BY CutConcat, SMTT(30)

-----------------------------------------------------------------------------
(* Tags of operands.                                                       *)

(* The tags of operands are types, one for each.                           *)
LEMMA TagsAre ==
  ASSUME NEW s \in Seq(Operand)
  PROVE  /\ Tags(s) \in Seq(Tag) /\ Len(Tags(s)) = Len(s) /\ Len(s) \in Nat
         /\ \A i \in 1..Len(s) : s[i] \in Operand /\ Tags(s)[i] = s[i].t
<1>1. Len(s) \in Nat /\ DOMAIN s = 1..Len(s) /\ \A i \in 1..Len(s) : s[i] \in Operand
  BY ElementAt
<1>2. Tags(s) = [i \in 1..Len(s) |-> s[i].t]
  BY <1>1 DEF Tags
<1>3. \A i \in 1..Len(s) : s[i].t \in Tag
  BY <1>1 DEF Operand
<1>4. [i \in 1..Len(s) |-> s[i].t] \in Seq(Tag)
  BY <1>1, <1>3, IsASeq
<1> QED
  BY <1>1, <1>2, <1>4

(* Tags of a concatenation.                                                *)
LEMMA TagsConcat ==
  ASSUME NEW s \in Seq(Operand), NEW t \in Seq(Operand)
  PROVE  Tags(s \o t) = Tags(s) \o Tags(t)
<1> DEFINE u == s \o t
           a == Tags(s)
           b == Tags(t)
<1>1. /\ Len(s) \in Nat /\ Len(t) \in Nat
      /\ a \in Seq(Tag) /\ Len(a) = Len(s) /\ \A i \in 1..Len(s) : a[i] = s[i].t
      /\ b \in Seq(Tag) /\ Len(b) = Len(t) /\ \A i \in 1..Len(t) : b[i] = t[i].t
  BY TagsAre
<1>2. /\ u \in Seq(Operand) /\ Len(u) = Len(s) + Len(t)
      /\ \A i \in 1..(Len(s) + Len(t)) : u[i] = IF i <= Len(s) THEN s[i] ELSE t[i - Len(s)]
  BY ConcatProperties
<1>3. Tags(u) \in Seq(Tag) /\ Len(Tags(u)) = Len(u) /\ \A i \in 1..Len(u) : Tags(u)[i] = u[i].t
  BY <1>2, TagsAre
<1> HIDE DEF a, b
<1>4. /\ a \o b \in Seq(Tag) /\ Len(a \o b) = Len(a) + Len(b)
      /\ \A i \in 1..(Len(a) + Len(b)) : (a \o b)[i] = IF i <= Len(a) THEN a[i] ELSE b[i - Len(a)]
  <2>1. a \in Seq(Tag) /\ b \in Seq(Tag)
    BY <1>1
  <2> QED
    BY <2>1, ConcatProperties
<1> HIDE DEF u
<1>5. \A i \in 1..Len(u) : Tags(u)[i] = (a \o b)[i]
  <2> TAKE i \in 1..Len(u)
  <2>1. i \in 1..(Len(s) + Len(t)) /\ i \in 1..(Len(a) + Len(b))
    BY <1>1, <1>2
  <2>2. CASE i <= Len(s)
    <3>1. i \in 1..Len(s)
      BY <1>1, <2>1, <2>2
    <3> QED
      BY <1>1, <1>2, <1>3, <1>4, <2>1, <2>2, <3>1
  <2>3. CASE ~(i <= Len(s))
    <3>1. i - Len(s) \in 1..Len(t)
      BY <1>1, <2>1, <2>3
    <3> QED
      BY <1>1, <1>2, <1>3, <1>4, <2>1, <2>3, <3>1
  <2> QED
    BY <2>2, <2>3
<1>6. Len(Tags(u)) = Len(a \o b)
  BY <1>1, <1>2, <1>3, <1>4
<1>7. Tags(u) = a \o b
  BY <1>3, <1>4, <1>5, <1>6, SeqEqual
<1> QED
  BY <1>7 DEF u, a, b

(* Tags of what is left below some operands.                               *)
LEMMA TagsShortened ==
  ASSUME NEW s \in Seq(Operand), NEW n \in Nat, n <= Len(s)
  PROVE  Tags(SubSeq(s, 1, Len(s) - n)) = SubSeq(Tags(s), 1, Len(Tags(s)) - n)
<1> DEFINE u == SubSeq(s, 1, Len(s) - n)
           a == Tags(s)
           w == SubSeq(a, 1, Len(a) - n)
<1>1. Len(s) \in Nat /\ a \in Seq(Tag) /\ Len(a) = Len(s) /\ \A i \in 1..Len(s) : a[i] = s[i].t
  BY TagsAre
<1>2. u \in Seq(Operand) /\ Len(u) = Len(s) - n /\ \A i \in 1..(Len(s) - n) : u[i] = s[i]
  BY Shortened
<1>3. Tags(u) \in Seq(Tag) /\ Len(Tags(u)) = Len(u) /\ \A i \in 1..Len(u) : Tags(u)[i] = u[i].t
  BY <1>2, TagsAre
<1> HIDE DEF a, u
<1>4. w \in Seq(Tag) /\ Len(w) = Len(s) - n /\ \A i \in 1..(Len(s) - n) : w[i] = a[i]
  BY <1>1, Shortened
<1> HIDE DEF w
<1>5. \A i \in 1..(Len(s) - n) : i \in 1..Len(s)
  BY <1>1
<1>6. \A i \in 1..Len(Tags(u)) : Tags(u)[i] = w[i]
  BY <1>1, <1>2, <1>3, <1>4, <1>5
<1>7. Tags(u) = w
  BY <1>2, <1>3, <1>4, <1>6, SeqEqual
<1> QED
  BY <1>7 DEF u, a, w

-----------------------------------------------------------------------------
(* What the calls own of the stack.                                        *)

Frame == [fn : Nat, pc : Nat, params : Seq(Operand), locals : Seq(Operand)]

(* A call that waits keeps what is left below the arguments.               *)
Waiting(m, r) ==
  LET T == TypesIn(m, r.fn)[r.pc]
  IN  SubSeq(T, 1, Len(T) - Len(EffectAt(m, r.fn, r.pc).takes))

Held(m, fs) == FlattenSeq([k \in 1..Len(fs) |-> Waiting(m, fs[k])])

(* The pc is where execution can be, and the variables have their types.   *)
FrameOK(m, r) ==
  /\ r \in Frame /\ r.fn \in DOMAIN m.codes
  /\ r.pc \in 1..(Len(Code(m, r.fn)) + 1) /\ ~Dead(Code(m, r.fn), r.pc)
  /\ Len(r.params) = Len(ParamsOf(m, r.fn)) /\ Len(r.locals) = Len(m.codes[r.fn].locals)
  /\ Clean(m) => Tags(r.params \o r.locals) = VarsOf(m, r.fn)

(* The types at the pc of a call, and what a waiting call keeps, are       *)
(* types.                                                                  *)
LEMMA WaitingTyped ==
  ASSUME NEW m, ValidModule(m), NEW r, FrameOK(m, r)
  PROVE  /\ TypesIn(m, r.fn)[r.pc] \in Seq(Tag)
         /\ r.pc <= Len(Code(m, r.fn)) => Waiting(m, r) \in Seq(Tag)
<1> DEFINE T == TypesIn(m, r.fn)[r.pc]
           e == EffectAt(m, r.fn, r.pc)
<1>1. T \in Seq(Tag)
  BY TypesFollow DEF FrameOK
<1>2. ASSUME r.pc <= Len(Code(m, r.fn))
      PROVE  Waiting(m, r) \in Seq(Tag)
  <2>1. r.pc \in 1..Len(Code(m, r.fn))
    <3>1. Len(Code(m, r.fn)) \in Nat
      BY TypesFollow DEF FrameOK
    <3> QED
      BY <1>2, <3>1 DEF FrameOK
  <2>2. e \in Effect
    BY <2>1, TypesFollow DEF FrameOK
  <2>3. Len(e.takes) \in Nat
    BY <2>2 DEF Effect
  <2> HIDE DEF T, e
  <2>4. SubSeq(T, 1, Len(T) - Len(e.takes)) \in Seq(Tag)
    BY <1>1, <2>3, Shortened
  <2> QED
    BY <2>4 DEF Waiting, T, e
<1> QED
  BY <1>1, <1>2

(* One more waiting call.                                                  *)
LEMMA HeldAppend ==
  ASSUME NEW m, NEW fs, NEW r, Len(fs) \in Nat,
         \A k \in 1..Len(fs) : Waiting(m, fs[k]) \in Seq(Tag), Waiting(m, r) \in Seq(Tag),
         NEW gs, Len(gs) = Len(fs) + 1, \A k \in 1..Len(fs) : gs[k] = fs[k], gs[Len(fs) + 1] = r
  PROVE  Held(m, fs) \in Seq(Tag) /\ Held(m, gs) = Held(m, fs) \o Waiting(m, r)
<1> DEFINE n == Len(fs)
           s == [k \in 1..n |-> Waiting(m, fs[k])]
           t == [k \in 1..(n + 1) |-> Waiting(m, gs[k])]
           e == Waiting(m, r)
<1>1. s \in Seq(Seq(Tag)) /\ Len(s) = n
  <2> HIDE DEF n
  <2>1. s \in Seq(Seq(Tag))
    BY IsASeq DEF n
  <2>2. Len(s) = n
    BY <2>1, LenProperties DEF n
  <2> QED
    BY <2>1, <2>2
<1>2. t = Append(s, e)
  <2> DEFINE a == Append(s, e)
  <2>1. a \in Seq(Seq(Tag)) /\ Len(a) = n + 1 /\ (\A k \in 1..n : a[k] = s[k]) /\ a[n + 1] = e
    BY <1>1, AppendProperties
  <2>2. \A k \in 1..(n + 1) : k \in 1..n \/ k = n + 1
    OBVIOUS
  <2>3. \A k \in 1..(n + 1) : t[k] = a[k]
    <3> TAKE k \in 1..(n + 1)
    <3>1. CASE k \in 1..n
      <4>1. t[k] = Waiting(m, fs[k]) /\ s[k] = Waiting(m, fs[k])
        BY <3>1
      <4> QED
        BY <2>1, <3>1, <4>1
    <3>2. CASE k = n + 1
      BY <2>1, <3>2
    <3> QED
      BY <2>2, <3>1, <3>2
  <2>4. a = [k \in 1..(n + 1) |-> a[k]]
    <3> HIDE DEF a, n
    <3> QED
      BY <2>1, LenProperties
  <2>5. t = [k \in 1..(n + 1) |-> t[k]]
    OBVIOUS
  <2> HIDE DEF a, t
  <2>6. t = a
    BY <2>3, <2>4, <2>5
  <2> QED
    BY <2>6 DEF a
<1>3. Held(m, fs) = FlattenSeq(s) /\ Held(m, gs) = FlattenSeq(t)
  BY DEF Held
<1> HIDE DEF s, t, e
<1>4. FlattenSeq(s) \in Seq(Tag) /\ FlattenSeq(Append(s, e)) = FlattenSeq(s) \o e
  BY <1>1, FlattenAppend DEF e
<1> QED
  BY <1>2, <1>3, <1>4 DEF e

(* What waiting calls keep are types; no calls keep nothing.               *)
LEMMA HeldTyped ==
  ASSUME NEW m, NEW fs, Len(fs) \in Nat, \A k \in 1..Len(fs) : Waiting(m, fs[k]) \in Seq(Tag)
  PROVE  Held(m, fs) \in Seq(Tag) /\ (Len(fs) = 0 => Held(m, fs) = <<>>)
<1> DEFINE n == Len(fs)
           s == [k \in 1..n |-> Waiting(m, fs[k])]
<1>1. s \in Seq(Seq(Tag)) /\ Len(s) = n
  <2> HIDE DEF n
  <2>1. s \in Seq(Seq(Tag))
    BY IsASeq DEF n
  <2>2. Len(s) = n
    BY <2>1, LenProperties DEF n
  <2> QED
    BY <2>1, <2>2
<1>2. Held(m, fs) = FlattenSeq(s)
  BY DEF Held
<1>3. <<>> \in Seq(Tag)
  OBVIOUS
<1>4. n = 0 => FlattenSeq(s) = <<>>
  <2> HIDE DEF s
  <2>1. n = 0 => s = <<>>
    BY <1>1, EmptySeq
  <2>2. n = 0 => FlattenSeq(s) = s
    BY <1>1 DEF FlattenSeq
  <2> QED
    BY <2>1, <2>2
<1> HIDE DEF s
<1>5. FlattenSeq(s) \in Seq(Tag)
  BY <1>1, <1>3, FlattenAppend
<1> QED
  BY <1>2, <1>4, <1>5

-----------------------------------------------------------------------------
(* The whole stack.                                                        *)

TopOf(fs) == fs[Len(fs)]

Callers(fs) == SubSeq(fs, 1, Len(fs) - 1)

(* r waits at its call of function f.                                      *)
Calling(m, r, f) ==
  /\ r.pc \in 1..Len(Code(m, r.fn)) /\ Code(m, r.fn)[r.pc].op \in {"Call", "CallIndirect"}
  /\ EffectAt(m, r.fn, r.pc).gives = ResultsOf(m, f)

Calls(m, fs) ==
  /\ fs \in Seq(Frame)
  /\ \A k \in 1..Len(fs) : FrameOK(m, fs[k])
  /\ \A k \in 1..(Len(fs) - 1) : Calling(m, fs[k], fs[k + 1].fn)
  /\ fs # <<>> => ResultsOf(m, fs[1].fn) = TypeOfFunction(m, m.main).results

(* What validation accounts for on the stack of a running machine.         *)
Validated(m, fs) == Held(m, Callers(fs)) \o TypesIn(m, TopOf(fs).fn)[TopOf(fs).pc]

Fits(m, st, fs) ==
  /\ Len(Validated(m, fs)) <= Len(st)
  /\ Clean(m) => Tags(st) = Validated(m, fs)

Running(m, st, fs) == st \in Seq(Operand) /\ fs # <<>> /\ Calls(m, fs) /\ Fits(m, st, fs)

(* What is known of the calls: the innermost one, those that wait, and     *)
(* what they own of the stack.                                             *)
LEMMA CallsParts ==
  ASSUME NEW m, ValidModule(m), NEW fs, Calls(m, fs), fs # <<>>
  PROVE  /\ Len(fs) \in Nat \ {0} /\ Len(fs) \in 1..Len(fs) /\ Len(fs) - 1 \in Nat
         /\ TopOf(fs) \in Frame /\ FrameOK(m, TopOf(fs)) /\ TopOf(fs).fn \in DOMAIN m.codes
         /\ TypesIn(m, TopOf(fs).fn)[TopOf(fs).pc] \in Seq(Tag)
         /\ Callers(fs) \in Seq(Frame) /\ Len(Callers(fs)) = Len(fs) - 1
         /\ \A k \in 1..(Len(fs) - 1) :
              k \in 1..Len(fs) /\ Callers(fs)[k] = fs[k] /\ Waiting(m, fs[k]) \in Seq(Tag)
         /\ Held(m, Callers(fs)) \in Seq(Tag)
         /\ Validated(m, fs) \in Seq(Tag)
         /\ Len(Validated(m, fs))
              = Len(Held(m, Callers(fs))) + Len(TypesIn(m, TopOf(fs).fn)[TopOf(fs).pc])
<1> DEFINE n == Len(fs)
           F == Callers(fs)
           r == TopOf(fs)
           T == TypesIn(m, r.fn)[r.pc]
           H == Held(m, F)
<1>1. fs \in Seq(Frame)
  BY DEF Calls
<1>2. n \in Nat \ {0} /\ n \in 1..n /\ n - 1 \in Nat /\ \A k \in 1..(n - 1) : k \in 1..n
  <2>1. n \in Nat /\ n # 0
    BY <1>1, EmptySeq
  <2>2. \A x \in Nat : x # 0 => x \in 1..x /\ x - 1 \in Nat /\ \A k \in 1..(x - 1) : k \in 1..x
    OBVIOUS
  <2> HIDE DEF n
  <2> QED
    BY <2>1, <2>2
<1>3. F \in Seq(Frame) /\ Len(F) = n - 1 /\ \A k \in 1..(n - 1) : F[k] = fs[k]
  <2>1. 1 \in Nat /\ 1 <= n
    BY <1>2
  <2> QED
    BY <1>1, <2>1, Shortened DEF Callers
<1>4. r \in Frame /\ FrameOK(m, r) /\ r.fn \in DOMAIN m.codes
  <2>1. FrameOK(m, r)
    BY <1>2 DEF Calls, TopOf
  <2> QED
    BY <2>1 DEF FrameOK
<1>5. T \in Seq(Tag)
  BY <1>4, WaitingTyped
<1>6. \A k \in 1..(n - 1) : Waiting(m, fs[k]) \in Seq(Tag)
  <2> TAKE k \in 1..(n - 1)
  <2>1. FrameOK(m, fs[k]) /\ fs[k].pc \in 1..Len(Code(m, fs[k].fn))
    BY <1>2 DEF Calls, Calling
  <2>2. fs[k].pc <= Len(Code(m, fs[k].fn))
    BY <2>1
  <2> QED
    BY <2>1, <2>2, WaitingTyped
<1>7. H \in Seq(Tag)
  <2>1. Len(F) \in Nat /\ \A k \in 1..Len(F) : Waiting(m, F[k]) \in Seq(Tag)
    BY <1>2, <1>3, <1>6
  <2> QED
    BY <2>1, HeldTyped
<1>8. Validated(m, fs) = H \o T
  BY DEF Validated
<1> HIDE DEF n, F, r, T, H
<1>9. H \o T \in Seq(Tag) /\ Len(H \o T) = Len(H) + Len(T)
  BY <1>5, <1>7, ConcatProperties
<1> QED
  BY <1>2, <1>3, <1>4, <1>5, <1>6, <1>7, <1>8, <1>9 DEF n, F, r, T, H

(* The operands that the instruction at the top takes are there, above     *)
(* those the waiting calls hold.                                           *)
Supplied(m, st, fs) ==
  LET e == EffectAt(m, TopOf(fs).fn, TopOf(fs).pc)  n == Len(e.takes)
      T == TypesIn(m, TopOf(fs).fn)[TopOf(fs).pc]
  IN /\ e \in Effect /\ n \in Nat /\ n <= Len(st) /\ Len(st) \in Nat
     /\ Len(Held(m, Callers(fs))) \in Nat /\ Len(T) \in Nat /\ n <= Len(T)
     /\ Len(Held(m, Callers(fs))) + Len(T) <= Len(st)
     /\ Len(Held(m, Callers(fs))) <= Len(st) - n
     /\ \A i \in 1..n : Len(st) - n + i \in 1..Len(st) /\ st[Len(st) - n + i] \in Operand
     /\ Clean(m) => \A i \in 1..n : st[Len(st) - n + i].t = e.takes[i]

(* They are there.                                                         *)
LEMMA StackParts ==
  ASSUME NEW m, ValidModule(m), NEW st, NEW fs, Running(m, st, fs),
         TopOf(fs).pc \in 1..Len(Code(m, TopOf(fs).fn))
  PROVE  Supplied(m, st, fs)
<1> DEFINE f == TopOf(fs).fn
           p == TopOf(fs).pc
           T == TypesIn(m, f)[p]
           e == EffectAt(m, f, p)
           n == Len(e.takes)
           H == Held(m, Callers(fs))
           V == Validated(m, fs)
<1>1. st \in Seq(Operand) /\ fs # <<>> /\ Calls(m, fs) /\ Len(V) <= Len(st) /\ (Clean(m) => Tags(st) = V)
  BY DEF Running, Fits
<1>2. /\ FrameOK(m, TopOf(fs)) /\ f \in DOMAIN m.codes /\ T \in Seq(Tag) /\ H \in Seq(Tag)
      /\ V \in Seq(Tag) /\ Len(V) = Len(H) + Len(T)
  BY <1>1, CallsParts
<1>3. ~Dead(Code(m, f), p)
  BY <1>2 DEF FrameOK
<1>4. /\ e \in Effect /\ n \in Nat /\ n <= Len(T) /\ e.takes \in Seq(Tag) /\ Len(T) \in Nat
      /\ \A i \in 1..n : T[Len(T) - n + i] = e.takes[i]
  <2>1. p \in 1..Len(Code(m, f))
    OBVIOUS
  <2>2. e \in Effect
    BY <1>2, <2>1, TypesFollow
  <2> HIDE DEF f, p
  <2>3. /\ n \in Nat /\ n <= Len(T) /\ e.takes \in Seq(Tag) /\ Len(T) \in Nat
        /\ \A i \in 1..n : T[Len(T) - n + i] = e.takes[i]
    <3>1. f \in DOMAIN m.codes
      BY <1>2
    <3> HIDE DEF T, e
    <3>2. /\ T \in Seq(Tag) /\ e.takes \in Seq(Tag) /\ Len(T) \in Nat /\ Len(e.takes) \in Nat
          /\ Len(e.takes) <= Len(T)
          /\ \A i \in 1..Len(e.takes) : T[Len(T) - Len(e.takes) + i] = e.takes[i]
      BY <1>3, <2>1, <3>1, TypesFit, ZenonT(30) DEF T, e
    <3> QED
      BY <3>2
  <2> QED
    BY <2>2, <2>3
<1>5. V = H \o T
  BY DEF Validated
<1> HIDE DEF f, p, T, e, H, V
<1>6. Len(H) \in Nat /\ Len(st) \in Nat /\ \A i \in 1..Len(st) : st[i] \in Operand
  BY <1>1, <1>2
<1>7. \A a, b, c, d \in Nat : a + b <= c /\ d <= b => d <= c /\ a <= c - d
  OBVIOUS
<1>8. Len(H) + Len(T) <= Len(st)
  BY <1>1, <1>2
<1>9. n <= Len(st) /\ Len(H) <= Len(st) - n
  BY <1>4, <1>6, <1>7, <1>8
<1>10. \A i \in 1..n : Len(st) - n + i \in 1..Len(st) /\ st[Len(st) - n + i] \in Operand
  <2>1. \A i \in 1..n : Len(st) - n + i \in 1..Len(st)
    BY <1>4, <1>6, <1>9
  <2> QED
    BY <1>6, <2>1
<1>11. ASSUME Clean(m)
       PROVE  \A i \in 1..n : st[Len(st) - n + i].t = e.takes[i]
  <2> TAKE i \in 1..n
  <2>1. Tags(st) = V /\ Len(Tags(st)) = Len(st) /\ \A j \in 1..Len(st) : Tags(st)[j] = st[j].t
    BY <1>1, <1>11, TagsAre
  <2>2. Len(st) = Len(H) + Len(T)
    BY <1>2, <2>1
  <2> DEFINE j == Len(T) - n + i
  <2>3. j \in 1..Len(T) /\ Len(H) + j \in 1..(Len(H) + Len(T)) /\ ~(Len(H) + j <= Len(H))
        /\ (Len(H) + j) - Len(H) = j /\ Len(st) - n + i = Len(H) + j
    <3>1. \A a, b, x, s \in Nat : x <= b /\ s = a + b =>
            \A k \in 1..x : LET y == b - x + k IN
              y \in 1..b /\ a + y \in 1..(a + b) /\ ~(a + y <= a) /\ (a + y) - a = y
              /\ s - x + k = a + y
      OBVIOUS
    <3> HIDE DEF n
    <3> QED
      BY <1>4, <1>6, <2>2, <3>1
  <2> HIDE DEF j
  <2>4. (H \o T)[Len(H) + j] = T[j]
    BY <1>2, <2>3, ConcatProperties
  <2>5. T[j] = e.takes[i]
    BY <1>4 DEF j
  <2> QED
    BY <1>5, <1>10, <2>1, <2>3, <2>4, <2>5
<1> QED
  BY <1>4, <1>6, <1>8, <1>9, <1>10, <1>11 DEF Supplied, f, p, T, e, H, n

(* The innermost call moves.                                               *)
LEMMA Replaced ==
  ASSUME NEW m, ValidModule(m), NEW fs, Calls(m, fs), fs # <<>>,
         NEW q, FrameOK(m, q), q.fn = TopOf(fs).fn
  PROVE  LET gs == [fs EXCEPT ![Len(fs)] = q] IN
         Calls(m, gs) /\ gs # <<>> /\ Callers(gs) = Callers(fs) /\ TopOf(gs) = q
<1> DEFINE n == Len(fs)
           gs == [fs EXCEPT ![n] = q]
<1>1. /\ n \in Nat \ {0} /\ n \in 1..n /\ \A k \in 1..(n - 1) : k \in 1..n
      /\ fs \in Seq(Frame) /\ fs \in [1..n -> Frame] /\ q \in Frame
  BY CallsParts DEF Calls, FrameOK
<1> DEFINE G == [k \in 1..n |-> IF k = n THEN q ELSE fs[k]]
<1>2. gs = G
  BY <1>1
<1>3. G \in Seq(Frame) /\ Len(G) = n /\ \A k \in 1..n : G[k] = IF k = n THEN q ELSE fs[k]
  <2>1. G \in [1..n -> Frame]
    BY <1>1
  <2>2. \A S, N : N \in Nat => \A g \in [1..N -> S] : g \in Seq(S) /\ Len(g) = N
    OBVIOUS
  <2> QED
    BY <1>1, <2>1, <2>2
<1>4. /\ \A k \in 1..n : FrameOK(m, fs[k])
      /\ \A k \in 1..(n - 1) : Calling(m, fs[k], fs[k + 1].fn)
      /\ ResultsOf(m, fs[1].fn) = TypeOfFunction(m, m.main).results
  BY DEF Calls
<1>5. fs[n].fn = q.fn
  BY DEF TopOf
<1> HIDE DEF G, n
<1>6. \A k \in 1..n : G[k].fn = fs[k].fn /\ FrameOK(m, G[k])
  BY <1>3, <1>4, <1>5
<1>7. \A k \in 1..(n - 1) : G[k] = fs[k] /\ k \in 1..n /\ k + 1 \in 1..n
  BY <1>1, <1>3
<1>8. \A k \in 1..(n - 1) : Calling(m, G[k], G[k + 1].fn)
  BY <1>4, <1>6, <1>7
<1>9. 1 \in 1..n
  BY <1>1
<1>10. Calls(m, G)
  BY <1>3, <1>4, <1>6, <1>8, <1>9 DEF Calls
<1>11. G # <<>> /\ TopOf(G) = q
  BY <1>1, <1>3 DEF TopOf
<1>12. Callers(G) = Callers(fs)
  <2>1. \A k \in 1..(n - 1) : G[k] = fs[k]
    BY <1>7
  <2>2. Callers(G) = SubSeq(G, 1, n - 1) /\ Callers(fs) = SubSeq(fs, 1, n - 1)
    BY <1>3 DEF Callers, n
  <2> QED
    BY <1>1, <1>3, <2>1, <2>2
<1> QED
  BY <1>2, <1>10, <1>11, <1>12 DEF n

(* The innermost call goes on where its instruction leads.                 *)
LEMMA Advances ==
  ASSUME NEW m, ValidModule(m), NEW fs, Calls(m, fs), fs # <<>>,
         TopOf(fs).pc \in 1..Len(Code(m, TopOf(fs).fn)),
         NEW q, FrameOK(m, q), q.fn = TopOf(fs).fn, Reaches(m, q.fn, TopOf(fs).pc, q.pc),
         NEW st \in Seq(Operand),
         Len(Held(m, Callers(fs))) + Len(After(m, q.fn, TopOf(fs).pc)) <= Len(st),
         Clean(m) => Tags(st) = Held(m, Callers(fs)) \o After(m, q.fn, TopOf(fs).pc)
  PROVE  Running(m, st, [fs EXCEPT ![Len(fs)] = q])
<1> DEFINE gs == [fs EXCEPT ![Len(fs)] = q]
           H == Held(m, Callers(fs))
           A == After(m, q.fn, TopOf(fs).pc)
           T == TypesIn(m, q.fn)[q.pc]
<1>1. Calls(m, gs) /\ gs # <<>> /\ Callers(gs) = Callers(fs) /\ TopOf(gs) = q
  BY Replaced
<1>2. Validated(m, gs) = H \o T
  BY <1>1 DEF Validated
<1>3. Len(Validated(m, gs)) = Len(H) + Len(T) /\ Len(H) \in Nat
  <2> HIDE DEF gs
  <2>1. Held(m, Callers(gs)) \in Seq(Tag)
        /\ Len(Validated(m, gs))
             = Len(Held(m, Callers(gs))) + Len(TypesIn(m, TopOf(gs).fn)[TopOf(gs).pc])
    BY <1>1, CallsParts, Zenon
  <2> QED
    BY <1>1, <2>1
<1>4. q.fn \in DOMAIN m.codes
  BY DEF FrameOK
<1>5. Len(T) <= Len(A) /\ (LeavesNothing(m, q.fn) => T = A)
  BY DEF Reaches
<1>6. Clean(m) => LeavesNothing(m, q.fn)
  BY <1>4 DEF Clean
<1>7. Len(T) \in Nat /\ Len(A) \in Nat
  <2>1. T \in Seq(Tag)
    BY WaitingTyped
  <2>2. TopOf(fs).pc \in 1..Len(Code(m, q.fn)) /\ ~Dead(Code(m, q.fn), TopOf(fs).pc)
    <3>1. FrameOK(m, TopOf(fs))
      BY CallsParts
    <3> QED
      BY <3>1 DEF FrameOK
  <2>3. A \in Seq(Tag)
    <3> HIDE DEF A
    <3> QED
      BY <1>4, <2>2, TypesFit, Zenon DEF A
  <2> QED
    BY <2>1, <2>3
<1>8. Len(st) \in Nat
  OBVIOUS
<1> HIDE DEF gs, H, A, T
<1>9. Len(Validated(m, gs)) <= Len(st)
  <2>1. Len(H) + Len(A) <= Len(st)
    BY DEF H, A
  <2> QED
    BY <1>3, <1>5, <1>7, <1>8, <2>1
<1>10. Clean(m) => Tags(st) = Validated(m, gs)
  BY <1>2, <1>5, <1>6 DEF H, A
<1> QED
  BY <1>1, <1>9, <1>10 DEF Running, Fits, gs

(* An instruction takes its operands, gives its results, and leads to the  *)
(* pc of q.                                                                *)
LEMMA LocalRuns ==
  ASSUME NEW m, ValidModule(m), NEW st, NEW fs, Running(m, st, fs),
         TopOf(fs).pc \in 1..Len(Code(m, TopOf(fs).fn)),
         NEW x \in Seq(Operand),
         Len(x) = Len(EffectAt(m, TopOf(fs).fn, TopOf(fs).pc).gives),
         Clean(m) => Tags(x) = EffectAt(m, TopOf(fs).fn, TopOf(fs).pc).gives,
         NEW q, FrameOK(m, q), q.fn = TopOf(fs).fn, Reaches(m, q.fn, TopOf(fs).pc, q.pc)
  PROVE  Running(m, SubSeq(st, 1, Len(st) - Len(EffectAt(m, TopOf(fs).fn, TopOf(fs).pc).takes)) \o x,
                 [fs EXCEPT ![Len(fs)] = q])
<1> DEFINE f == TopOf(fs).fn
           p == TopOf(fs).pc
           T == TypesIn(m, f)[p]
           e == EffectAt(m, f, p)
           n == Len(e.takes)
           H == Held(m, Callers(fs))
           S == SubSeq(st, 1, Len(st) - n)
           A == After(m, f, p)
           W == SubSeq(T, 1, Len(T) - n)
<1>1. st \in Seq(Operand) /\ fs # <<>> /\ Calls(m, fs) /\ Fits(m, st, fs)
  BY DEF Running
<1>2. /\ f \in DOMAIN m.codes /\ p \in 1..Len(Code(m, f)) /\ ~Dead(Code(m, f), p)
      /\ H \in Seq(Tag)
  <2>1. FrameOK(m, TopOf(fs)) /\ H \in Seq(Tag)
    BY <1>1, CallsParts
  <2> QED
    BY <2>1 DEF FrameOK
<1>3. /\ n \in Nat /\ n <= Len(st) /\ Len(st) \in Nat /\ Len(H) \in Nat /\ Len(T) \in Nat /\ n <= Len(T)
      /\ Len(H) + Len(T) <= Len(st)
  BY StackParts DEF Supplied
<1>4. /\ T \in Seq(Tag) /\ e.takes \in Seq(Tag) /\ e.gives \in Seq(Tag) /\ Len(e.gives) \in Nat
      /\ A \in Seq(Tag) /\ Len(A) = Len(T) - n + Len(e.gives) /\ A = W \o e.gives
  <2> HIDE DEF f, p
  <2> QED
    BY <1>2, TypesFit
<1>5. S \in Seq(Operand) /\ Len(S) = Len(st) - n
  <2> HIDE DEF n
  <2> QED
    BY <1>1, <1>3, Shortened
<1>6. S \o x \in Seq(Operand) /\ Len(S \o x) = Len(S) + Len(x)
  <2> HIDE DEF S
  <2> QED
    BY <1>5, ConcatProperties
<1>7. Len(x) = Len(e.gives) /\ (Clean(m) => Tags(x) = e.gives)
  OBVIOUS
<1>8. Len(H) + Len(A) <= Len(S \o x)
  <2> HIDE DEF S, H, A, T, e, n
  <2> QED
    BY <1>3, <1>4, <1>5, <1>6, <1>7
<1>9. ASSUME Clean(m)
      PROVE  Tags(S \o x) = H \o A
  <2>1. Tags(st) = H \o T
    BY <1>1, <1>9 DEF Fits, Validated
  <2>2. Tags(S) = SubSeq(Tags(st), 1, Len(Tags(st)) - n)
    <3> HIDE DEF n
    <3> QED
      BY <1>1, <1>3, TagsShortened
  <2> HIDE DEF H, T, e
  <2>3. SubSeq(H \o T, 1, Len(H \o T) - n) = H \o W
    <3> HIDE DEF n
    <3> QED
      BY <1>2, <1>3, <1>4, CutTags
  <2> HIDE DEF S
  <2>4. Tags(S \o x) = Tags(S) \o Tags(x)
    BY <1>5, TagsConcat
  <2>5. W \in Seq(Tag)
    <3> HIDE DEF n
    <3> QED
      BY <1>3, <1>4, Shortened
  <2> HIDE DEF W, n
  <2>6. (H \o W) \o e.gives = H \o (W \o e.gives)
    <3>1. e.gives \in Seq(Tag)
      BY <1>4
    <3> QED
      BY <1>2, <2>5, <3>1, JoinTags
  <2> QED
    BY <1>4, <1>7, <1>9, <2>1, <2>2, <2>3, <2>4, <2>6
<1> HIDE DEF S
<1>10. Running(m, S \o x, [fs EXCEPT ![Len(fs)] = q])
  BY <1>1, <1>6, <1>8, <1>9, Advances
<1> QED
  BY <1>10 DEF S

(* A call is added at the top.                                             *)
LEMMA CallsPushed ==
  ASSUME NEW m, ValidModule(m), NEW fs, Calls(m, fs), fs # <<>>,
         NEW q, FrameOK(m, q), Calling(m, TopOf(fs), q.fn)
  PROVE  LET gs == Append(fs, q) IN
         /\ Calls(m, gs) /\ gs # <<>> /\ Callers(gs) = fs /\ TopOf(gs) = q
         /\ Held(m, fs) = Held(m, Callers(fs)) \o Waiting(m, TopOf(fs))
<1> DEFINE n == Len(fs)
           gs == Append(fs, q)
           F == Callers(fs)
           r == TopOf(fs)
<1>1. /\ n \in Nat \ {0} /\ n - 1 \in Nat /\ n \in 1..n /\ F \in Seq(Frame) /\ Len(F) = n - 1
      /\ \A k \in 1..(n - 1) : k \in 1..n /\ F[k] = fs[k] /\ Waiting(m, fs[k]) \in Seq(Tag)
      /\ FrameOK(m, r)
  BY CallsParts
<1>2. /\ fs \in Seq(Frame) /\ \A k \in 1..n : FrameOK(m, fs[k])
      /\ \A k \in 1..(n - 1) : Calling(m, fs[k], fs[k + 1].fn)
      /\ ResultsOf(m, fs[1].fn) = TypeOfFunction(m, m.main).results
  BY DEF Calls
<1>3. q \in Frame /\ r = fs[n]
  BY DEF FrameOK, TopOf
<1>4. /\ gs \in Seq(Frame) /\ Len(gs) = n + 1 /\ \A k \in 1..n : gs[k] = fs[k]
      /\ gs[n + 1] = q
  BY <1>2, <1>3, AppendProperties
<1>5. Waiting(m, r) \in Seq(Tag)
  <2>1. r.pc \in 1..Len(Code(m, r.fn))
    BY DEF Calling
  <2>2. r.pc <= Len(Code(m, r.fn))
    BY <2>1
  <2> QED
    BY <1>1, <2>2, WaitingTyped
<1> HIDE DEF n, gs, F, r
<1>6. Held(m, fs) = Held(m, F) \o Waiting(m, r)
  <2>1. /\ Len(F) \in Nat /\ n = Len(F) + 1 /\ fs[Len(F) + 1] = r
        /\ \A k \in 1..Len(F) : Waiting(m, F[k]) \in Seq(Tag)
        /\ \A k \in 1..Len(F) : fs[k] = F[k]
    BY <1>1, <1>3
  <2> QED
    BY <1>5, <2>1, HeldAppend DEF n
<1>7. Callers(gs) = fs
  <2>1. Callers(gs) = SubSeq(gs, 1, n)
    BY <1>1, <1>4 DEF Callers
  <2>2. SubSeq(gs, 1, n) = fs
    <3>1. n = Len(fs)
      BY DEF n
    <3> QED
      BY <1>1, <1>2, <1>4, <3>1
  <2> QED
    BY <2>1, <2>2
<1>8. TopOf(gs) = q /\ gs # <<>>
  BY <1>1, <1>4 DEF TopOf
<1>9. Calls(m, gs)
  <2>1. \A k \in 1..(n + 1) : k \in 1..n \/ k = n + 1
    BY <1>1
  <2>2. \A k \in 1..Len(gs) : FrameOK(m, gs[k])
    BY <1>2, <1>4, <2>1
  <2>3. \A k \in 1..n : Calling(m, gs[k], gs[k + 1].fn)
    <3> TAKE k \in 1..n
    <3>1. CASE k = n
      BY <1>1, <1>3, <1>4, <3>1 DEF r
    <3>2. CASE k # n
      <4>1. k \in 1..(n - 1) /\ k + 1 \in 1..n
        BY <1>1, <3>2
      <4> QED
        BY <1>2, <1>4, <4>1
    <3> QED
      BY <3>1, <3>2
  <2>4. 1 \in 1..n /\ Len(gs) - 1 = n
    BY <1>1, <1>4
  <2> QED
    BY <1>2, <1>4, <2>2, <2>3, <2>4 DEF Calls
<1> QED
  BY <1>6, <1>7, <1>8, <1>9 DEF gs, F, r

(* A function is entered, its arguments and what else the call takes off   *)
(* the stack.                                                              *)
LEMMA PushRuns ==
  ASSUME NEW m, ValidModule(m), NEW st, NEW fs, Running(m, st, fs),
         TopOf(fs).pc \in 1..Len(Code(m, TopOf(fs).fn)),
         NEW q, FrameOK(m, q), q.pc = 1, Calling(m, TopOf(fs), q.fn)
  PROVE  Running(m, SubSeq(st, 1, Len(st) - Len(EffectAt(m, TopOf(fs).fn, TopOf(fs).pc).takes)),
                 Append(fs, q))
<1> DEFINE f == TopOf(fs).fn
           p == TopOf(fs).pc
           T == TypesIn(m, f)[p]
           e == EffectAt(m, f, p)
           n == Len(e.takes)
           H == Held(m, Callers(fs))
           R == SubSeq(st, 1, Len(st) - n)
           W == Waiting(m, TopOf(fs))
           gs == Append(fs, q)
<1>1. st \in Seq(Operand) /\ fs # <<>> /\ Calls(m, fs) /\ Fits(m, st, fs)
  BY DEF Running
<1>2. H \in Seq(Tag) /\ T \in Seq(Tag) /\ FrameOK(m, TopOf(fs))
  BY <1>1, CallsParts
<1>3. /\ n \in Nat /\ n <= Len(st) /\ Len(st) \in Nat /\ Len(H) \in Nat /\ Len(T) \in Nat /\ n <= Len(T)
      /\ Len(H) + Len(T) <= Len(st)
  BY StackParts DEF Supplied
<1>4. Calls(m, gs) /\ gs # <<>> /\ Callers(gs) = fs /\ TopOf(gs) = q /\ Held(m, fs) = H \o W
  BY <1>1, CallsPushed
<1>5. TypesIn(m, q.fn)[q.pc] = <<>>
  <2>1. q.fn \in DOMAIN m.codes
    BY DEF FrameOK
  <2> QED
    BY <2>1, TypesFollow, ZenonT(30)
<1>6. W = SubSeq(T, 1, Len(T) - n)
  BY DEF Waiting
<1>7. W \in Seq(Tag) /\ Len(W) = Len(T) - n
  <2> HIDE DEF n, T
  <2> QED
    BY <1>2, <1>3, <1>6, Shortened
<1>8. R \in Seq(Operand) /\ Len(R) = Len(st) - n
  <2> HIDE DEF n
  <2> QED
    BY <1>1, <1>3, Shortened
<1> HIDE DEF H, W, T, gs
<1>9. H \o W \in Seq(Tag) /\ Len(H \o W) = Len(H) + Len(W)
  BY <1>2, <1>7, ConcatProperties
<1>10. Validated(m, gs) = H \o W
  <2>1. Validated(m, gs) = (H \o W) \o <<>>
    BY <1>4, <1>5 DEF Validated
  <2>2. \A s \in Seq(Tag) : s \o <<>> = s
    BY ConcatEmptySeq
  <2> QED
    BY <1>9, <2>1, <2>2
<1>11. Len(H \o W) <= Len(R)
  <2> HIDE DEF n, R
  <2> QED
    BY <1>3, <1>7, <1>8, <1>9
<1>12. ASSUME Clean(m)
       PROVE  Tags(R) = H \o W
  <2>1. Tags(st) = H \o T
    BY <1>1, <1>12 DEF Fits, Validated, H, T
  <2>2. Tags(R) = SubSeq(Tags(st), 1, Len(Tags(st)) - n)
    <3> HIDE DEF n
    <3> QED
      BY <1>1, <1>3, TagsShortened
  <2> HIDE DEF e, R
  <2>3. SubSeq(H \o T, 1, Len(H \o T) - n) = H \o W
    <3> HIDE DEF n
    <3> QED
      BY <1>2, <1>3, <1>6, CutTags
  <2> QED
    BY <2>1, <2>2, <2>3
<1>13. Running(m, R, gs)
  <2> HIDE DEF R
  <2> QED
    BY <1>4, <1>8, <1>10, <1>11, <1>12 DEF Running, Fits
<1> QED
  BY <1>13 DEF gs

(* The innermost call ends.                                                *)
LEMMA CallsPopped ==
  ASSUME NEW m, ValidModule(m), NEW fs, Calls(m, fs), fs # <<>>, Callers(fs) # <<>>
  PROVE  LET F == Callers(fs)  r == TopOf(F) IN
         /\ Calls(m, F) /\ Calling(m, r, TopOf(fs).fn)
         /\ Held(m, F) = Held(m, Callers(F)) \o Waiting(m, r)
<1> DEFINE n == Len(fs)
           F == Callers(fs)
           r == TopOf(F)
<1>1. /\ n \in Nat \ {0} /\ n - 1 \in Nat /\ n \in 1..n /\ F \in Seq(Frame) /\ Len(F) = n - 1
      /\ \A k \in 1..(n - 1) : k \in 1..n /\ F[k] = fs[k] /\ Waiting(m, fs[k]) \in Seq(Tag)
  BY CallsParts
<1>2. /\ fs \in Seq(Frame) /\ \A k \in 1..n : FrameOK(m, fs[k])
      /\ \A k \in 1..(n - 1) : Calling(m, fs[k], fs[k + 1].fn)
      /\ ResultsOf(m, fs[1].fn) = TypeOfFunction(m, m.main).results
  BY DEF Calls
<1>3. n - 1 # 0
  <2>1. Len(F) # 0
    BY <1>1, EmptySeq
  <2> QED
    BY <1>1, <2>1
<1>4. r = F[n - 1] /\ TopOf(fs) = fs[n]
  BY <1>1 DEF TopOf
<1>5. F # <<>>
  OBVIOUS
<1> HIDE DEF n, F, r
<1>6. /\ 1 \in 1..(n - 1) /\ n - 1 \in 1..(n - 1) /\ (n - 1) + 1 = n
      /\ \A k \in 1..((n - 1) - 1) : k \in 1..(n - 1) /\ k + 1 \in 1..(n - 1)
  <2>1. \A x \in Nat : x # 0 => /\ 1 \in 1..x /\ x \in 1..x
                                 /\ \A k \in 1..(x - 1) : k \in 1..x /\ k + 1 \in 1..x
    OBVIOUS
  <2> QED
    BY <1>1, <1>3, <2>1
<1>7. Calls(m, F)
  BY <1>1, <1>2, <1>6 DEF Calls
<1>8. Calling(m, r, TopOf(fs).fn)
  BY <1>1, <1>2, <1>4, <1>6
<1>9. Held(m, F) = Held(m, Callers(F)) \o Waiting(m, r)
  <2> DEFINE C == Callers(F)
  <2>1. /\ Len(F) - 1 \in Nat /\ Len(C) = Len(F) - 1
        /\ \A k \in 1..(Len(F) - 1) : C[k] = F[k] /\ Waiting(m, F[k]) \in Seq(Tag)
    <3> HIDE DEF C
    <3> QED
      BY <1>5, <1>7, CallsParts, Zenon DEF C
  <2> HIDE DEF C
  <2>2. Waiting(m, r) \in Seq(Tag)
    BY <1>1, <1>4, <1>6
  <2>3. /\ Len(C) \in Nat /\ Len(F) = Len(C) + 1 /\ F[Len(C) + 1] = r
        /\ \A k \in 1..Len(C) : Waiting(m, C[k]) \in Seq(Tag) /\ F[k] = C[k]
    BY <1>1, <1>4, <2>1
  <2> QED
    BY <2>2, <2>3, HeldAppend DEF C
<1> QED
  BY <1>7, <1>8, <1>9 DEF F, r

(* The caller goes on behind its call, with the results on the stack.      *)
LEMMA ReturnRuns ==
  ASSUME NEW m, ValidModule(m), NEW st, NEW fs, Running(m, st, fs), Callers(fs) # <<>>,
         LET T == TypesIn(m, TopOf(fs).fn)[TopOf(fs).pc]  x == ResultsOf(m, TopOf(fs).fn)
         IN  Len(x) <= Len(T) /\ (Clean(m) => T = x)
  PROVE  LET F == Callers(fs) IN
         Running(m, st, [F EXCEPT ![Len(F)] = [TopOf(F) EXCEPT !.pc = @ + 1]])
<1> DEFINE F == Callers(fs)
           r == TopOf(F)
           f == r.fn
           p == r.pc
           q == [r EXCEPT !.pc = @ + 1]
           T == TypesIn(m, TopOf(fs).fn)[TopOf(fs).pc]
           x == ResultsOf(m, TopOf(fs).fn)
           H == Held(m, Callers(F))
           W == Waiting(m, r)
           A == After(m, f, p)
<1>1. st \in Seq(Operand) /\ fs # <<>> /\ Calls(m, fs) /\ Fits(m, st, fs)
  BY DEF Running
<1>2. Calls(m, F) /\ Calling(m, r, TopOf(fs).fn) /\ Held(m, F) = H \o W
  BY <1>1, CallsPopped
<1>3. /\ T \in Seq(Tag) /\ Held(m, F) \in Seq(Tag)
      /\ Len(Validated(m, fs)) = Len(Held(m, F)) + Len(T) /\ Validated(m, fs) = Held(m, F) \o T
      /\ TopOf(fs).fn \in DOMAIN m.codes
  BY <1>1, CallsParts DEF Validated
<1>4. /\ FrameOK(m, r) /\ H \in Seq(Tag) /\ f \in DOMAIN m.codes
  <2>1. F # <<>>
    OBVIOUS
  <2> HIDE DEF F
  <2> QED
    BY <1>2, <2>1, CallsParts
<1>5. /\ p \in 1..Len(Code(m, f)) /\ Code(m, f)[p].op \in {"Call", "CallIndirect"}
      /\ EffectAt(m, f, p).gives = x /\ ~Dead(Code(m, f), p)
  BY <1>2, <1>4 DEF Calling, FrameOK
<1>6. x \in Seq(Tag)
  BY <1>3, FunctionParts
<1>7. A = W \o x
  <2> HIDE DEF f, p, A
  <2>1. A = SubSeq(TypesIn(m, f)[p], 1, Len(TypesIn(m, f)[p]) - Len(EffectAt(m, f, p).takes)) \o EffectAt(m, f, p).gives
    BY <1>4, <1>5, TypesFit DEF A, f
  <2> QED
    BY <1>5, <2>1 DEF Waiting, f, p
<1>8. W \in Seq(Tag)
  <2>1. r.pc <= Len(Code(m, r.fn))
    BY <1>5
  <2> HIDE DEF r
  <2> QED
    BY <1>4, <2>1, WaitingTyped
<1>9. Reaches(m, f, p, p + 1)
  <2> HIDE DEF f, p
  <2> QED
    BY <1>4, <1>5, FallsThrough DEF f
<1>10. /\ r \in Frame /\ q = [r EXCEPT !.pc = p + 1] /\ q \in Frame /\ q.fn = f /\ q.pc = p + 1
       /\ q.params = r.params /\ q.locals = r.locals
  <2>1. r \in Frame
    BY <1>4 DEF FrameOK
  <2> HIDE DEF r
  <2> QED
    BY <2>1 DEF Frame
<1>11. FrameOK(m, q)
  <2>1. p + 1 \in 1..(Len(Code(m, f)) + 1) /\ ~Dead(Code(m, f), p + 1)
    BY <1>9 DEF Reaches
  <2> HIDE DEF q, r
  <2> QED
    BY <1>4, <1>10, <2>1 DEF FrameOK
<1> HIDE DEF T, W, H, x
<1>12. /\ H \o (W \o x) = Held(m, F) \o x /\ Len(Held(m, F)) = Len(H) + Len(W)
       /\ Len(W \o x) = Len(W) + Len(x)
  <2>1. (H \o W) \o x = H \o (W \o x)
    BY <1>4, <1>6, <1>8, JoinTags
  <2>2. Len(H \o W) = Len(H) + Len(W)
    BY <1>4, <1>8, ConcatProperties
  <2>3. Len(W \o x) = Len(W) + Len(x)
    BY <1>6, <1>8, ConcatProperties
  <2> QED
    BY <1>2, <2>1, <2>2, <2>3
<1>13. Len(x) <= Len(T) /\ (Clean(m) => T = x)
  BY DEF T, x
<1>14. Len(H) + Len(A) <= Len(st)
  <2>1. Len(Validated(m, fs)) <= Len(st)
    BY <1>1 DEF Fits
  <2> DEFINE h == Len(H)  w == Len(W)  a == Len(x)  t == Len(T)  s == Len(st)
  <2>2. h \in Nat /\ w \in Nat /\ a \in Nat /\ t \in Nat /\ s \in Nat
    BY <1>1, <1>3, <1>4, <1>6, <1>8
  <2>3. Len(A) = w + a /\ (h + w) + t <= s /\ a <= t
    BY <1>3, <1>7, <1>12, <1>13, <2>1
  <2> HIDE DEF h, w, a, t, s
  <2>4. h + (w + a) <= s
    BY <2>2, <2>3
  <2> QED
    BY <2>3, <2>4 DEF h, s
<1>15. Clean(m) => Tags(st) = H \o A
  BY <1>1, <1>3, <1>7, <1>12, <1>13 DEF Fits
<1>16. Running(m, st, [F EXCEPT ![Len(F)] = q])
  <2>1. F # <<>>
    OBVIOUS
  <2> HIDE DEF F
  <2>2. r = TopOf(F) /\ f = r.fn /\ p = r.pc
    OBVIOUS
  <2>3. Len(Held(m, Callers(F))) + Len(After(m, q.fn, TopOf(F).pc)) <= Len(st)
    BY <1>10, <1>14 DEF H
  <2>4. Clean(m) => Tags(st) = Held(m, Callers(F)) \o After(m, q.fn, TopOf(F).pc)
    BY <1>10, <1>15 DEF H
  <2>5. TopOf(F).pc \in 1..Len(Code(m, TopOf(F).fn)) /\ q.fn = TopOf(F).fn /\ Reaches(m, q.fn, TopOf(F).pc, q.pc)
    BY <1>5, <1>9, <1>10
  <2> HIDE DEF q
  <2> QED
    BY <1>1, <1>2, <1>11, <2>1, <2>3, <2>4, <2>5, Advances
<1> QED
  BY <1>16

-----------------------------------------------------------------------------
(* The invariant.                                                          *)

Statuses == {"ready", "running", "finished", "aborted", "undefined", "exhausted"}

GlobalsOK(m, gl) ==
  /\ gl \in Seq(Operand) /\ Len(gl) = Len(m.globals)
  /\ \A g \in 1..Len(gl) : gl[g].t = m.globals[g].t

(* The inductive invariant.                                                *)
MachineInv ==
  /\ module \in Modules /\ status \in Statuses
  /\ stack \in Seq(Operand) /\ GlobalsOK(module, globals)
  /\ Calls(module, frames)
  /\ status = "ready" => stack = <<>> /\ frames = <<>>
  /\ status = "running" => Running(module, stack, frames)
  /\ status = "finished" /\ Clean(module) =>
       Tags(stack) = TypeOfFunction(module, module.main).results
  /\ AbortsOnlyOnTraps

(* What a step leaves alone.                                               *)
Kept ==
  frames # <<>> =>
    LET h == Len(Held(module, Callers(frames)))
    IN  Len(stack') >= h /\ SubSeq(stack', 1, h) = SubSeq(stack, 1, h)

Good == MachineInv' /\ Kept

AllRunnable == \A m \in Modules : Runnable(m)

Effective == EffectAt(module, Top.fn, Top.pc)

Taken == Len(Effective.takes)

(* Where an assert may fail.                                               *)
Traps == \/ TrapOrTodo
         \/ ~Clean(module) /\ At({"GlobalSet", "I32Reinterp"})

(* The frame moved to p.                                                   *)
LEMMA Moved ==
  ASSUME NEW m, NEW r, FrameOK(m, r), NEW p,
         p \in 1..(Len(Code(m, r.fn)) + 1), ~Dead(Code(m, r.fn), p)
  PROVE  LET q == [r EXCEPT !.pc = p] IN FrameOK(m, q) /\ q.fn = r.fn /\ q.pc = p
<1> DEFINE q == [r EXCEPT !.pc = p]
<1>1. r \in Frame /\ p \in Nat
  BY DEF FrameOK
<1>2. q \in Frame /\ q.fn = r.fn /\ q.pc = p /\ q.params = r.params /\ q.locals = r.locals
  BY <1>1 DEF Frame
<1> HIDE DEF q
<1> QED
  BY <1>2 DEF FrameOK, q

(* Where a running machine is.                                             *)
LEMMA AtWork ==
  ASSUME AllRunnable, MachineInv, status = "running"
  PROVE  /\ ValidModule(module) /\ Running(module, stack, frames) /\ frames # <<>>
         /\ Top = TopOf(frames) /\ Expr = Code(module, Top.fn)
         /\ Top.fn \in DOMAIN module.codes /\ Benign(Expr) /\ Len(Expr) \in Nat
         /\ FrameOK(module, Top) /\ ~Dead(Expr, Top.pc)
         /\ Calls(module, frames) /\ Top.pc \in 1..(Len(Expr) + 1)
         /\ Len(frames) \in Nat \ {0}
<1>1. ValidModule(module) /\ Runnable(module)
  BY DEF AllRunnable, MachineInv, Runnable
<1>2. Running(module, stack, frames) /\ frames # <<>> /\ Calls(module, frames)
  BY DEF MachineInv, Running
<1>3. Top = TopOf(frames) /\ Expr = Code(module, Top.fn)
  BY DEF Top, TopOf, Expr, Code
<1>4. FrameOK(module, Top) /\ Len(frames) \in Nat \ {0}
  BY <1>1, <1>2, <1>3, CallsParts
<1>5. Top.fn \in DOMAIN module.codes /\ ~Dead(Expr, Top.pc) /\ Top.pc \in 1..(Len(Expr) + 1)
  BY <1>3, <1>4 DEF FrameOK
<1>6. Benign(Expr)
  BY <1>1, <1>5 DEF Runnable, Expr
<1>7. Len(Expr) \in Nat
  BY <1>1, <1>3, <1>5, FunctionParts
<1> QED
  BY <1>1, <1>2, <1>3, <1>4, <1>5, <1>6, <1>7

(* What it is about to execute.                                            *)
LEMMA AtInstruction ==
  ASSUME AllRunnable, MachineInv, NEW ops, On(ops)
  PROVE  /\ Top.pc \in 1..Len(Expr) /\ Instruction = Expr[Top.pc] /\ Instruction.op \in ops
         /\ Instruction \in Instr
         /\ Effective = EffectOf(module, Top.fn, Instruction, TypesIn(module, Top.fn)[Top.pc])
         /\ Effective \in Effect
         /\ Taken \in Nat /\ Taken <= Len(stack) /\ Len(stack) \in Nat
         /\ Len(Held(module, Callers(frames))) \in Nat
         /\ Len(Held(module, Callers(frames))) <= Len(stack) - Taken
         /\ \A i \in 1..Taken : Len(stack) - Taken + i \in 1..Len(stack)
                                /\ stack[Len(stack) - Taken + i] \in Operand
         /\ Clean(module) => \A i \in 1..Taken : stack[Len(stack) - Taken + i].t = Effective.takes[i]
<1>1. status = "running" /\ Top.pc <= Len(Expr) /\ Instruction.op \in ops
  BY DEF On, At
<1>2. /\ ValidModule(module) /\ Running(module, stack, frames)
      /\ Top = TopOf(frames) /\ Expr = Code(module, Top.fn)
      /\ Top.fn \in DOMAIN module.codes /\ Len(Expr) \in Nat
      /\ Top.pc \in 1..(Len(Expr) + 1)
  BY <1>1, AtWork
<1>3. Top.pc \in 1..Len(Expr) /\ Instruction = Expr[Top.pc]
  <2>1. \A n \in Nat : \A p \in 1..(n + 1) : p <= n => p \in 1..n
    OBVIOUS
  <2> QED
    BY <1>1, <1>2, <2>1 DEF Instruction
<1>4. Instruction \in Instr
  BY <1>2, <1>3, FunctionParts, ElementAt
<1>5. Effective = EffectOf(module, Top.fn, Instruction, TypesIn(module, Top.fn)[Top.pc])
  BY <1>2, <1>3 DEF Effective, EffectAt
<1>6. LET e == EffectAt(module, TopOf(frames).fn, TopOf(frames).pc)  n == Len(e.takes)
      IN /\ e \in Effect /\ n \in Nat /\ n <= Len(stack) /\ Len(stack) \in Nat
         /\ Len(Held(module, Callers(frames))) \in Nat
         /\ Len(Held(module, Callers(frames))) <= Len(stack) - n
         /\ \A i \in 1..n : Len(stack) - n + i \in 1..Len(stack) /\ stack[Len(stack) - n + i] \in Operand
         /\ Clean(module) => \A i \in 1..n : stack[Len(stack) - n + i].t = e.takes[i]
  <2>1. TopOf(frames).pc \in 1..Len(Code(module, TopOf(frames).fn))
    BY <1>2, <1>3
  <2> DEFINE f == TopOf(frames).fn
             p == TopOf(frames).pc
             e == EffectAt(module, f, p)
             T == TypesIn(module, f)[p]
             n == Len(e.takes)
             h == Len(Held(module, Callers(frames)))
  <2>2. /\ e \in Effect /\ n \in Nat /\ n <= Len(stack) /\ Len(stack) \in Nat
        /\ h \in Nat /\ Len(T) \in Nat /\ n <= Len(T)
        /\ h + Len(T) <= Len(stack)
        /\ h <= Len(stack) - n
        /\ \A i \in 1..n : Len(stack) - n + i \in 1..Len(stack) /\ stack[Len(stack) - n + i] \in Operand
        /\ Clean(module) => \A i \in 1..n : stack[Len(stack) - n + i].t = e.takes[i]
    <3>1. Supplied(module, stack, frames)
      BY <1>2, <2>1, StackParts
    <3> QED
      BY <3>1 DEF Supplied
  <2> QED
    BY <2>2
<1> QED
  BY <1>1, <1>2, <1>3, <1>4, <1>5, <1>6 DEF Effective, Taken

-----------------------------------------------------------------------------
(* The kinds of steps.                                                     *)

(* Whether an assert may fail depends on the module, the stack and the     *)
(* frames.                                                                 *)
LEMMA TrapsKept ==
  ASSUME module' = module, stack' = stack, frames' = frames
  PROVE  (Traps' <=> Traps) /\ (TakesItsOperands' <=> TakesItsOperands)
<1>1. /\ Top' = Top /\ Expr' = Expr
  BY DEF Top, Expr
<1>2. Instruction' = Instruction
  BY <1>1 DEF Instruction
<1>3. Imm' = Imm /\ Popped(1)' = Popped(1)
  BY <1>2 DEF Imm, Popped
<1>4. \A ops : At(ops)' <=> At(ops)
  BY <1>1, <1>2 DEF At
<1>5. \A x : Names(x)' <=> Names(x)
  BY <1>3, <1>4 DEF Names
<1>6. TrapOrTodo' <=> TrapOrTodo
  BY <1>2, <1>3, <1>4, <1>5 DEF TrapOrTodo
<1> QED
  BY <1>1, <1>2, <1>4, <1>6 DEF Traps, TakesItsOperands

(* An assert can only fail on an instruction.                              *)
LEMMA TrapsAt ==
  ASSUME Traps
  PROVE  At({Instruction.op})
BY DEF Traps, TrapOrTodo, Names, At

(* The process ends: by undefined behavior, for want of memory, or by an   *)
(* assert that the property allows.                                        *)
LEMMA Stops ==
  ASSUME AllRunnable, MachineInv, NEW how \in {"aborted", "undefined", "exhausted"}, Stop(how),
         status = "ready" \/ status = "running",
         how = "aborted" => frames = <<>> \/ Traps
  PROVE  Good
<1>1. module' = module /\ stack' = stack /\ frames' = frames /\ globals' = globals /\ status' = how
  BY DEF Stop
<1>2. AbortsOnlyOnTraps'
  <2> SUFFICES ASSUME how = "aborted", frames # <<>>
               PROVE  Traps /\ TakesItsOperands
    BY <1>1, TrapsKept DEF AbortsOnlyOnTraps, Traps
  <2>1. Traps /\ status = "running"
    BY DEF MachineInv
  <2>2. On({Instruction.op})
    BY <2>1, TrapsAt DEF On
  <2>3. Taken <= Len(stack)
        /\ Effective = EffectOf(module, Top.fn, Instruction, TypesIn(module, Top.fn)[Top.pc])
        /\ Taken \in Nat /\ Len(stack) \in Nat
    BY <2>2, AtInstruction
  <2> QED
    BY <2>1, <2>3 DEF TakesItsOperands, Taken
<1>3. MachineInv'
  BY <1>1, <1>2 DEF MachineInv, Statuses
<1>4. Kept
  <2> SUFFICES ASSUME frames # <<>>
               PROVE  LET h == Len(Held(module, Callers(frames))) IN Len(stack) >= h
    BY <1>1 DEF Kept
  <2>1. status = "running"
    BY DEF MachineInv
  <2>2. ValidModule(module) /\ Running(module, stack, frames) /\ Calls(module, frames)
    BY <2>1, AtWork
  <2>3. /\ Held(module, Callers(frames)) \in Seq(Tag)
        /\ TypesIn(module, TopOf(frames).fn)[TopOf(frames).pc] \in Seq(Tag)
        /\ Len(Validated(module, frames)) = Len(Held(module, Callers(frames)))
              + Len(TypesIn(module, TopOf(frames).fn)[TopOf(frames).pc])
    BY <2>2, CallsParts
  <2>4. Len(Validated(module, frames)) <= Len(stack) /\ stack \in Seq(Operand)
    BY <2>2 DEF Running, Fits
  <2>5. \A a, b, c \in Nat : a + b <= c => c >= a
    OBVIOUS
  <2> QED
    BY <2>3, <2>4, <2>5
<1> QED
  BY <1>3, <1>4 DEF Good

(* A machine that goes on running, with at least as much of the stack as   *)
(* the instruction leaves.                                                 *)
LEMMA Runs ==
  ASSUME AllRunnable, MachineInv, status = "running", Running(module, stack', frames'),
         module' = module, status' = "running", GlobalsOK(module, globals'), Kept
  PROVE  Good
<1>1. stack' \in Seq(Operand) /\ Calls(module, frames')
  BY DEF Running
<1>2. MachineInv'
  BY <1>1 DEF MachineInv, Statuses, AbortsOnlyOnTraps
<1> QED
  BY <1>2 DEF Good

(* Pushing an operand appends it and its tag.                              *)
LEMMA AppendIs ==
  ASSUME NEW s \in Seq(Operand), NEW v \in Operand
  PROVE  /\ Append(s, v) = s \o <<v>> /\ <<v>> \in Seq(Operand) /\ Len(<<v>>) = 1
         /\ Tags(<<v>>) = <<v.t>>
<1>1. Append(s, v) = s \o <<v>>
  BY AppendIsConcat
<1>2. <<v>> \in Seq(Operand) /\ Len(<<v>>) = 1
  OBVIOUS
<1>3. Tags(<<v>>) = <<v.t>>
  BY <1>2 DEF Tags
<1> QED
  BY <1>1, <1>2, <1>3

(* The innermost call executes an instruction, and stays in its function.  *)
LEMMA Goes ==
  ASSUME AllRunnable, MachineInv, NEW ops, On(ops),
         NEW x \in Seq(Operand), Len(x) = Len(Effective.gives),
         Clean(module) => Tags(x) = Effective.gives,
         NEW q, FrameOK(module, q), q.fn = Top.fn, Reaches(module, Top.fn, Top.pc, q.pc),
         stack' = Below(Taken) \o x, frames' = [frames EXCEPT ![Len(frames)] = q],
         module' = module, status' = "running", GlobalsOK(module, globals')
  PROVE  Good
<1>1. /\ ValidModule(module) /\ Running(module, stack, frames) /\ status = "running"
      /\ Top = TopOf(frames) /\ Expr = Code(module, Top.fn)
  BY AtWork DEF On
<1>2. /\ Top.pc \in 1..Len(Expr) /\ Taken \in Nat /\ Taken <= Len(stack)
      /\ Len(Held(module, Callers(frames))) \in Nat
      /\ Len(Held(module, Callers(frames))) <= Len(stack) - Taken
  BY AtInstruction
<1>3. Running(module, stack', frames')
  <2>1. Effective = EffectAt(module, TopOf(frames).fn, TopOf(frames).pc)
    BY <1>1 DEF Effective
  <2>2. /\ Len(x) = Len(EffectAt(module, TopOf(frames).fn, TopOf(frames).pc).gives)
        /\ Clean(module) => Tags(x) = EffectAt(module, TopOf(frames).fn, TopOf(frames).pc).gives
        /\ Reaches(module, q.fn, TopOf(frames).pc, q.pc) /\ q.fn = TopOf(frames).fn
        /\ TopOf(frames).pc \in 1..Len(Code(module, TopOf(frames).fn))
    BY <1>1, <1>2, <2>1
  <2>3. Running(module, SubSeq(stack, 1, Len(stack)
                          - Len(EffectAt(module, TopOf(frames).fn, TopOf(frames).pc).takes)) \o x,
                [frames EXCEPT ![Len(frames)] = q])
    BY <1>1, <2>2, LocalRuns
  <2> QED
    BY <2>1, <2>3 DEF Below, Taken
<1>4. stack \in Seq(Operand)
  BY DEF MachineInv
<1>5. Kept
  BY <1>2, <1>4, PrefixKept DEF Kept, Below
<1> QED
  BY <1>1, <1>3, <1>5, Runs

(* ... and changes its pc only.                                            *)
LEMMA Jumps ==
  ASSUME AllRunnable, MachineInv, NEW ops, On(ops),
         NEW x \in Seq(Operand), Len(x) = Len(Effective.gives),
         Clean(module) => Tags(x) = Effective.gives,
         NEW p, Reaches(module, Top.fn, Top.pc, p), JumpTo(p, Below(Taken) \o x)
  PROVE  Good
<1> DEFINE q == [Top EXCEPT !.pc = p]
<1>1. /\ status = "running" /\ FrameOK(module, Top) /\ Expr = Code(module, Top.fn)
      /\ Top.fn \in DOMAIN module.codes /\ Len(frames) \in Nat
      /\ Calls(module, frames) /\ frames # <<>> /\ ValidModule(module)
  BY AtWork DEF On
<1>2. p \in 1..(Len(Code(module, Top.fn)) + 1) /\ ~Dead(Code(module, Top.fn), p)
  BY DEF Reaches
<1>3. FrameOK(module, q) /\ q.fn = Top.fn /\ q.pc = p
  BY <1>1, <1>2, Moved
<1>4. frames' = [frames EXCEPT ![Len(frames)] = q]
  BY DEF JumpTo, Goto, Top
<1>5. /\ stack' = Below(Taken) \o x /\ module' = module /\ status' = "running"
      /\ GlobalsOK(module, globals')
  BY <1>1 DEF JumpTo, MachineInv
<1> HIDE DEF q
<1> QED
  BY <1>3, <1>4, <1>5, Goes

(* ... and gives nothing.                                                  *)
LEMMA JumpsBare ==
  ASSUME AllRunnable, MachineInv, NEW ops, On(ops), Effective.gives = <<>>,
         NEW p, Reaches(module, Top.fn, Top.pc, p), JumpTo(p, Below(Taken))
  PROVE  Good
<1>1. Taken \in Nat /\ Taken <= Len(stack)
  BY AtInstruction
<1>2. Below(Taken) \in Seq(Operand)
  <2>1. stack \in Seq(Operand)
    BY DEF MachineInv
  <2> QED
    BY <1>1, <2>1, Shortened DEF Below
<1>3. Below(Taken) \o <<>> = Below(Taken)
  BY <1>2, ConcatEmptySeq
<1>4. <<>> \in Seq(Operand) /\ Tags(<<>>) = <<>>
  BY DEF Tags
<1>5. JumpTo(p, Below(Taken) \o <<>>)
  BY <1>3
<1> QED
  BY <1>4, <1>5, Jumps

(* Stepping to the next instruction is a jump to where execution falls     *)
(* through.                                                                *)
LEMMA StepJumps ==
  ASSUME AllRunnable, MachineInv, NEW ops, On(ops), NEW st, Step(st),
         Instruction.op \notin {"Else", "Br", "BrTable", "Return", "Unreachable"}
  PROVE  JumpTo(Top.pc + 1, st) /\ Reaches(module, Top.fn, Top.pc, Top.pc + 1)
<1>1. JumpTo(Top.pc + 1, st)
  BY DEF Step, JumpTo
<1>2. /\ ValidModule(module) /\ Top.fn \in DOMAIN module.codes /\ Expr = Code(module, Top.fn)
      /\ ~Dead(Expr, Top.pc)
  BY AtWork DEF On
<1>3. Top.pc \in 1..Len(Expr) /\ Instruction = Expr[Top.pc]
  BY AtInstruction
<1> QED
  BY <1>1, <1>2, <1>3, FallsThrough

(* Two ways to leave the operands and fall through.                        *)
LEMMA StepsWith ==
  ASSUME AllRunnable, MachineInv, NEW ops, On(ops), NEW v \in Operand,
         Len(Effective.gives) = 1, Clean(module) => Effective.gives = <<v.t>>,
         Step(Append(Below(Taken), v)),
         Instruction.op \notin {"Else", "Br", "BrTable", "Return", "Unreachable"}
  PROVE  Good
<1>1. Taken \in Nat /\ Taken <= Len(stack)
  BY AtInstruction
<1>2. Below(Taken) \in Seq(Operand)
  <2>1. stack \in Seq(Operand)
    BY DEF MachineInv
  <2> QED
    BY <1>1, <2>1, Shortened DEF Below
<1>3. /\ Append(Below(Taken), v) = Below(Taken) \o <<v>> /\ <<v>> \in Seq(Operand) /\ Len(<<v>>) = 1
      /\ Tags(<<v>>) = <<v.t>>
  BY <1>2, AppendIs
<1>4. /\ JumpTo(Top.pc + 1, Append(Below(Taken), v))
      /\ Reaches(module, Top.fn, Top.pc, Top.pc + 1)
  BY StepJumps
<1>5. JumpTo(Top.pc + 1, Below(Taken) \o <<v>>)
  BY <1>3, <1>4
<1> QED
  BY <1>3, <1>4, <1>5, Jumps

(* An instruction that gives nothing and falls through.                    *)
LEMMA StepsBare ==
  ASSUME AllRunnable, MachineInv, NEW ops, On(ops), Effective.gives = <<>>, Step(Below(Taken)),
         Instruction.op \notin {"Else", "Br", "BrTable", "Return", "Unreachable"}
  PROVE  Good
BY StepJumps, JumpsBare

(* An instruction that takes nothing leaves the whole stack.               *)
LEMMA NoneTaken ==
  ASSUME AllRunnable, MachineInv, Taken = 0
  PROVE  Below(Taken) = stack
<1>1. stack \in Seq(Operand)
  BY DEF MachineInv
<1> QED
  BY <1>1, Shortened DEF Below

(* The operands an instruction pops are there, with the types it takes.    *)
LEMMA PoppedAre ==
  ASSUME AllRunnable, MachineInv, NEW ops, On(ops), NEW k \in 1..Taken
  PROVE  /\ Popped(k) \in Operand
         /\ Clean(module) => Popped(k).t = Effective.takes[Taken + 1 - k]
<1>1. /\ Taken \in Nat /\ Taken <= Len(stack) /\ Len(stack) \in Nat
      /\ \A i \in 1..Taken : stack[Len(stack) - Taken + i] \in Operand
      /\ Clean(module) => \A i \in 1..Taken : stack[Len(stack) - Taken + i].t = Effective.takes[i]
  BY AtInstruction
<1> DEFINE i == Taken + 1 - k
<1>2. i \in 1..Taken /\ Len(stack) - Taken + i = Len(stack) + 1 - k
  <2>1. \A n, l \in Nat : \A j \in 1..n : n + 1 - j \in 1..n /\ l - n + (n + 1 - j) = l + 1 - j
    OBVIOUS
  <2> QED
    BY <1>1, <2>1
<1> HIDE DEF i
<1>3. Popped(k) = stack[Len(stack) - Taken + i]
  BY <1>2 DEF Popped
<1> QED
  BY <1>1, <1>2, <1>3 DEF i

(* No assert of pop_stack fails.                                           *)
LEMMA NoUnderflow ==
  ASSUME AllRunnable, MachineInv, NEW ops, On(ops)
  PROVE  ~(Len(stack) < Taken) /\ ~Underflow(Taken)
<1>1. Taken \in Nat /\ Taken <= Len(stack) /\ Len(stack) \in Nat
  BY AtInstruction
<1>2. ~(Len(stack) < Taken)
  BY <1>1
<1> QED
  BY <1>2 DEF Underflow

(* What validation knows of the instruction at the top.                    *)
LEMMA Immediates ==
  ASSUME AllRunnable, MachineInv, NEW ops, On(ops)
  PROVE  /\ ValidModule(module) /\ Top.fn \in DOMAIN module.codes
         /\ Instruction.op \in BranchOps => Instruction.imms # <<>>
         /\ Instruction.op \in {"I32Const", "F64Const"} => Imm \in Values
         /\ Instruction.op \in {"LocalGet", "LocalSet", "LocalTee"} =>
              /\ Imm \in Nat /\ Imm + 1 \in 1..Len(VarsOf(module, Top.fn))
              /\ VarsOf(module, Top.fn)[Imm + 1] \in Tag
         /\ Instruction.op \in {"GlobalGet", "GlobalSet"} =>
              /\ Imm \in Nat /\ Imm + 1 \in 1..Len(module.globals)
              /\ module.globals[Imm + 1].t \in Tag
         /\ Instruction.op = "GlobalSet" => module.globals[Imm + 1].mut
         /\ Instruction.op = "Call" => Imm \in 0..(module.imports + Len(module.codes) - 1)
         /\ Instruction.op = "CallIndirect" =>
              Imm \in Nat /\ module.type_section[Imm + 1] \in FunctionType
<1>1. /\ ValidModule(module) /\ Top.fn \in DOMAIN module.codes /\ Expr = Code(module, Top.fn)
  BY AtWork DEF On
<1>2. Top.pc \in 1..Len(Expr) /\ Instruction = Expr[Top.pc]
  BY AtInstruction
<1>3. Instruction = Code(module, Top.fn)[Top.pc] /\ Top.pc \in 1..Len(Code(module, Top.fn))
  BY <1>1, <1>2
<1>4. Instruction.op \in {"I32Const", "F64Const"} => Imm \in Values
  <2>1. Runnable(module)
    BY DEF AllRunnable, MachineInv
  <2>2. Top.pc \in DOMAIN Expr
    <3>1. Expr \in Seq(Instr)
      BY <1>1, FunctionParts
    <3> QED
      BY <1>2, <3>1
  <2> QED
    BY <1>1, <1>2, <2>1, <2>2 DEF Runnable, Imm, Expr
<1>5. ImmediateOK(module, Top.fn, Instruction)
  BY <1>1, <1>3, ImmediatesValid
<1> QED
  BY <1>1, <1>4, <1>5 DEF ImmediateOK, Imm

-----------------------------------------------------------------------------
(* Instructions on operands.                                               *)

(* A zero has the type it is made for.                                     *)
LEMMA ZeroTyped ==
  \A t \in Tag : Zero(t) \in Operand /\ Zero(t).t = t
BY InterpreterAssumption DEF Zero, Operand

(* The constants.                                                          *)
LEMMA ConstGood ==
  ASSUME AllRunnable, MachineInv, Const
  PROVE  Good
<1> DEFINE ops == {"I32Const", "F64Const"}
           tag == IF Instruction.op = "I32Const" THEN "I32" ELSE "F64"
           v == [t |-> tag, v |-> Imm]
<1>1. On(ops) /\ Step(Append(stack, v))
  BY DEF Const
<1>2. Instruction.op \in ops
  BY <1>1, AtInstruction
<1>3. Effective = [takes |-> <<>>, gives |-> <<tag>>]
  <2>1. Effective = Effects[Instruction.op]
    BY <1>1, <1>2, AtInstruction DEF EffectOf, DataOps
  <2> QED
    BY <1>2, <2>1 DEF Effects
<1>4. Taken = 0 /\ Len(Effective.gives) = 1 /\ Effective.gives = <<v.t>>
  BY <1>3 DEF Taken
<1>5. v \in Operand
  <2>1. Imm \in Values
    BY <1>1, <1>2, Immediates
  <2> QED
    BY <2>1 DEF Operand, Tag
<1>6. Below(Taken) = stack
  BY <1>4, NoneTaken
<1>7. Step(Append(Below(Taken), v))
  BY <1>1, <1>6
<1>8. Instruction.op \notin {"Else", "Br", "BrTable", "Return", "Unreachable"}
  BY <1>2
<1> HIDE DEF v, ops
<1> QED
  BY <1>1, <1>4, <1>5, <1>7, <1>8, StepsWith

(* Numeric and memory instructions; a clean module has no comparison whose *)
(* result keeps a 64-bit tag.                                              *)
LEMMA ComputeGood ==
  ASSUME AllRunnable, MachineInv, Compute
  PROVE  Good
<1> DEFINE ops == DataOps \ {"I32Const", "F64Const", "I32Reinterp"}
           op == Instruction.op
           e == Effects[op]
<1>1. On(ops) /\ op \in ops
  BY AtInstruction DEF Compute
<1>2. Effective = e
  <2>1. op \in DataOps
    BY <1>1
  <2>2. Effective = EffectOf(module, Top.fn, Instruction, TypesIn(module, Top.fn)[Top.pc])
    BY <1>1, AtInstruction
  <2> QED
    BY <2>1, <2>2 DEF EffectOf, DataOps
<1>3. Len(e.takes) = Taken
  BY <1>2 DEF Taken
<1>4. op \notin {"Else", "Br", "BrTable", "Return", "Unreachable"}
  BY <1>1 DEF DataOps
<1>5. ~Underflow(Taken)
  BY <1>1, NoUnderflow
<1>6. e.gives = <<>> \/ (Len(e.gives) = 1 /\ e.gives = <<e.gives[1]>> /\ e.gives[1] \in Tag)
  BY <1>1 DEF DataOps, Effects, Tag
<1>7. CASE e.gives = <<>> /\ Step(Below(Taken))
  BY <1>1, <1>2, <1>4, <1>7, StepsBare
<1>8. ASSUME e.gives # <<>>, NEW v \in Values,
             Step(Append(Below(Taken), [t |-> ResultTag(op), v |-> v]))
      PROVE  Good
  <2> DEFINE w == [t |-> ResultTag(op), v |-> v]
  <2>1. ResultTag(op) \in Tag
    BY <1>6, <1>8 DEF ResultTag, Tag
  <2>2. w \in Operand /\ w.t = ResultTag(op)
    BY <2>1 DEF Operand
  <2>3. ASSUME Clean(module)
        PROVE  Effective.gives = <<w.t>>
    <3>1. op # "F64Eq"
      <4>1. ~Uses(module, {"F64Eq"})
        BY <2>3 DEF Clean
      <4>2. Top.fn \in DOMAIN module.codes /\ Top.pc \in 1..Len(Expr) /\ Instruction = Expr[Top.pc]
        BY <1>1, AtInstruction, Immediates
      <4>3. OpsAt(Expr, {"F64Eq"}, 1, Len(Expr)) = {}
        BY <4>1, <4>2 DEF Uses, Expr
      <4> QED
        BY <4>2, <4>3 DEF OpsAt
    <3>2. ResultTag(op) = e.gives[1]
      BY <3>1 DEF ResultTag
    <3> QED
      BY <1>2, <1>6, <1>8, <2>2, <3>2
  <2>4. Len(Effective.gives) = 1
    BY <1>2, <1>6, <1>8
  <2>5. Step(Append(Below(Taken), w))
    BY <1>8
  <2> HIDE DEF w, ops, e
  <2> QED
    BY <1>1, <1>4, <2>2, <2>3, <2>4, <2>5, StepsWith
<1> QED
  BY <1>3, <1>5, <1>7, <1>8 DEF Compute

(* Their traps.                                                            *)
LEMMA ComputeTrapsGood ==
  ASSUME AllRunnable, MachineInv, ComputeTraps
  PROVE  Good
<1>1. /\ On({"I32Add", "I32Load", "F64Store", "MemoryFill"}) /\ status = "running"
      /\ Stop("aborted") \/ Stop("undefined")
  BY DEF ComputeTraps, On
<1>2. Traps
  BY <1>1 DEF On, At, Traps, TrapOrTodo
<1> QED
  BY <1>1, <1>2, Stops

(* The reinterpretations: on clean modules the tag is the right one.       *)
LEMMA ReinterpGood ==
  ASSUME AllRunnable, MachineInv, Reinterp
  PROVE  Good
<1> DEFINE v == Popped(1)
<1>1. On({"I32Reinterp"}) /\ status = "running"
  BY DEF Reinterp, On
<1>2. Instruction.op = "I32Reinterp"
  BY <1>1, AtInstruction
<1>3. Effective = [takes |-> <<"I32">>, gives |-> <<"I32">>]
  <2>1. Effective = Effects["I32Reinterp"]
    BY <1>1, <1>2, AtInstruction DEF EffectOf, DataOps
  <2> QED
    BY <2>1 DEF Effects
<1>4. Taken = 1 /\ Effective.gives = <<"I32">> /\ Len(Effective.gives) = 1
  BY <1>3 DEF Taken
<1>5. v \in Operand /\ (Clean(module) => v.t = "I32")
  <2>1. 1 \in 1..Taken /\ Taken + 1 - 1 = 1
    BY <1>4
  <2> QED
    BY <1>1, <1>3, <2>1, PoppedAre
<1>6. CASE v.t # "I32" /\ Stop("aborted")
  <2>1. Traps
    BY <1>1, <1>5, <1>6 DEF On, At, Traps
  <2> QED
    BY <1>1, <1>6, <2>1, Stops
<1>7. CASE v.t = "I32" /\ Step(stack)
  <2>1. stack = Append(Below(Taken), v)
    <3>1. stack \in Seq(Operand) /\ Len(stack) >= 1
      BY <1>1, <1>4, AtInstruction DEF MachineInv
    <3>2. Below(Taken) = SubSeq(stack, 1, Len(stack) - 1) /\ v = stack[Len(stack)]
      BY <1>4, <3>1 DEF Below, Popped
    <3> HIDE DEF v
    <3> QED
      BY <3>1, <3>2
  <2>2. Step(Append(Below(Taken), v)) /\ Effective.gives = <<v.t>>
    BY <1>4, <1>7, <2>1
  <2> HIDE DEF v
  <2> QED
    BY <1>1, <1>2, <1>4, <1>5, <2>2, StepsWith
<1> QED
  BY <1>1, <1>4, <1>6, <1>7, NoUnderflow DEF Reinterp

(* Drop.                                                                   *)
LEMMA DropGood ==
  ASSUME AllRunnable, MachineInv, Drop
  PROVE  Good
<1>1. On({"Drop"}) /\ (Underflow(1) \/ Step(Below(1)))
  BY DEF Drop
<1>2. Instruction.op = "Drop"
  BY <1>1, AtInstruction
<1>3. Effective.gives = <<>> /\ Taken = 1
  <2> DEFINE T == TypesIn(module, Top.fn)[Top.pc]
  <2>1. Effective = [takes |-> IF T = <<>> THEN <<"I32">> ELSE <<Last(T)>>, gives |-> <<>>]
    BY <1>1, <1>2, AtInstruction DEF EffectOf, DataOps
  <2> HIDE DEF T
  <2> QED
    BY <2>1 DEF Taken
<1>4. Step(Below(Taken))
  BY <1>1, <1>3, NoUnderflow
<1> QED
  BY <1>1, <1>2, <1>3, <1>4, StepsBare

(* Select: whichever operand it keeps is an i32.                           *)
LEMMA SelectGood ==
  ASSUME AllRunnable, MachineInv, Select
  PROVE  Good
<1> DEFINE v == IF Popped(1).v # 0 THEN Popped(3) ELSE Popped(2)
<1>1. On({"Select"}) /\ (Underflow(3) \/ Step(Append(Below(3), v)))
  BY DEF Select
<1>2. Instruction.op = "Select"
  BY <1>1, AtInstruction
<1>3. Effective = [takes |-> <<"I32", "I32", "I32">>, gives |-> <<"I32">>]
  BY <1>1, <1>2, AtInstruction DEF EffectOf, DataOps
<1>4. Taken = 3 /\ Effective.gives = <<"I32">> /\ Len(Effective.gives) = 1
  BY <1>3 DEF Taken
<1>5. \A k \in 2..3 : /\ Popped(k) \in Operand
                      /\ Clean(module) => Popped(k).t = "I32"
  <2> TAKE k \in 2..3
  <2>1. k \in 1..Taken /\ Taken + 1 - k \in 1..3
    BY <1>4
  <2>2. Effective.takes[Taken + 1 - k] = "I32"
    BY <1>3, <2>1
  <2> QED
    BY <1>1, <2>1, <2>2, PoppedAre
<1>6. v \in Operand /\ (Clean(module) => Effective.gives = <<v.t>>)
  BY <1>4, <1>5
<1>7. Step(Append(Below(Taken), v))
  BY <1>1, <1>4, NoUnderflow
<1> HIDE DEF v
<1> QED
  BY <1>1, <1>2, <1>4, <1>6, <1>7, StepsWith

(* Nop and End.                                                            *)
LEMMA Skip1Good ==
  ASSUME AllRunnable, MachineInv, Skip1
  PROVE  Good
<1>1. On({"Nop", "End"}) /\ Step(stack)
  BY DEF Skip1
<1>2. Instruction.op \in {"Nop", "End"}
  BY <1>1, AtInstruction
<1>3. Effective = [takes |-> <<>>, gives |-> <<>>]
  BY <1>1, <1>2, AtInstruction DEF EffectOf, DataOps
<1>4. Effective.gives = <<>> /\ Taken = 0
  BY <1>3 DEF Taken
<1>5. Step(Below(Taken))
  BY <1>1, <1>4, NoneTaken
<1> QED
  BY <1>1, <1>2, <1>4, <1>5, StepsBare

-----------------------------------------------------------------------------
(* Variables.                                                              *)

(* The variable an index names, and its type.                              *)
LEMMA VarThere ==
  ASSUME NEW m, ValidModule(m), NEW r, FrameOK(m, r), NEW x \in Nat,
         x + 1 \in 1..Len(VarsOf(m, r.fn))
  PROVE  /\ HasVar(r, x) /\ VarIn(r, x) \in Operand
         /\ Clean(m) => VarIn(r, x).t = VarsOf(m, r.fn)[x + 1]
<1> DEFINE s == r.params \o r.locals
           a == Len(r.params)
           b == Len(r.locals)
<1>1. /\ r.params \in Seq(Operand) /\ r.locals \in Seq(Operand) /\ a \in Nat /\ b \in Nat
      /\ Clean(m) => Tags(s) = VarsOf(m, r.fn)
  BY DEF FrameOK, Frame
<1>2. Len(VarsOf(m, r.fn)) = a + b
  BY FunctionParts DEF FrameOK
<1>3. s \in Seq(Operand) /\ Len(s) = a + b
  BY <1>1, ConcatProperties
<1> HIDE DEF s, a, b
<1>4. HasVar(r, x)
  <2>1. x < a \/ x - a < b
    BY <1>1, <1>2
  <2> QED
    BY <2>1 DEF HasVar, a, b
<1>5. VarIn(r, x) = s[x + 1] /\ x + 1 \in 1..Len(s)
  BY <1>2, <1>3 DEF VarIn, s
<1>6. s[x + 1] \in Operand /\ Tags(s)[x + 1] = s[x + 1].t
  BY <1>3, <1>5, TagsAre
<1> QED
  BY <1>1, <1>4, <1>5, <1>6

(* Assigning a value of its type.                                          *)
LEMMA VarSet ==
  ASSUME NEW m, ValidModule(m), NEW r, FrameOK(m, r), NEW x \in Nat,
         x + 1 \in 1..Len(VarsOf(m, r.fn)), NEW v \in Operand,
         Clean(m) => v.t = VarsOf(m, r.fn)[x + 1]
  PROVE  LET q == SetVar(r, x, v) IN FrameOK(m, q) /\ q.fn = r.fn /\ q.pc = r.pc
<1> DEFINE q == SetVar(r, x, v)
           a == Len(r.params)
           b == Len(r.locals)
           s == r.params \o r.locals
           t == q.params \o q.locals
<1>1. /\ r \in Frame /\ r.params \in Seq(Operand) /\ r.locals \in Seq(Operand)
      /\ a \in Nat /\ b \in Nat /\ (Clean(m) => Tags(s) = VarsOf(m, r.fn))
      /\ r.params \in [1..a -> Operand] /\ r.locals \in [1..b -> Operand]
  BY DEF FrameOK, Frame
<1>2. x < a + b
  <2>1. Len(VarsOf(m, r.fn)) = a + b
    BY FunctionParts DEF FrameOK
  <2> HIDE DEF a, b
  <2> QED
    BY <1>1, <2>1
<1> DEFINE p == [r.params EXCEPT ![x + 1] = v]
           l == [r.locals EXCEPT ![x - a + 1] = v]
<1>3. q = IF x < a THEN [r EXCEPT !.params = p] ELSE [r EXCEPT !.locals = l]
  BY DEF SetVar
<1>4. ASSUME x < a
      PROVE  /\ p \in Seq(Operand) /\ Len(p) = a /\ x + 1 \in 1..a
             /\ \A i \in 1..a : p[i] = IF i = x + 1 THEN v ELSE r.params[i]
  BY <1>1, <1>4, ExceptSeq
<1>5. ASSUME ~(x < a)
      PROVE  /\ l \in Seq(Operand) /\ Len(l) = b /\ x - a + 1 \in 1..b
             /\ \A i \in 1..b : l[i] = IF i = x - a + 1 THEN v ELSE r.locals[i]
  <2>1. x - a + 1 \in 1..b
    <3> HIDE DEF a, b
    <3> QED
      BY <1>1, <1>2, <1>5
  <2> QED
    <3> DEFINE y == x - a + 1
    <3>1. y \in 1..Len(r.locals)
      BY <2>1
    <3> HIDE DEF y
    <3>2. LET e == [r.locals EXCEPT ![y] = v] IN
          e \in Seq(Operand) /\ Len(e) = Len(r.locals) /\ \A i \in 1..Len(r.locals) : e[i] = IF i = y THEN v ELSE r.locals[i]
      BY <1>1, <3>1, ExceptSeq
    <3> QED
      BY <2>1, <3>2 DEF y
<1> HIDE DEF p, l
<1>6. /\ q.fn = r.fn /\ q.pc = r.pc /\ q \in Frame
      /\ q.params = IF x < a THEN p ELSE r.params
      /\ q.locals = IF x < a THEN r.locals ELSE l
  BY <1>1, <1>3, <1>4, <1>5 DEF Frame
<1> HIDE DEF q
<1>7. /\ q.params \in Seq(Operand) /\ Len(q.params) = a
      /\ q.locals \in Seq(Operand) /\ Len(q.locals) = b
  BY <1>1, <1>4, <1>5, <1>6
<1>8. /\ s \in Seq(Operand) /\ Len(s) = a + b
      /\ \A i \in 1..(a + b) : s[i] = IF i <= a THEN r.params[i] ELSE r.locals[i - a]
  BY <1>1, ConcatProperties
<1>9. /\ t \in Seq(Operand) /\ Len(t) = a + b
      /\ \A i \in 1..(a + b) : t[i] = IF i <= a THEN q.params[i] ELSE q.locals[i - a]
  <2> HIDE DEF a, b
  <2> QED
    BY <1>1, <1>7, ConcatProperties
<1> HIDE DEF s, t, a, b
<1>10. \A i \in 1..(a + b) : t[i] = IF i = x + 1 THEN v ELSE s[i]
  <2> TAKE i \in 1..(a + b)
  <2>1. CASE i <= a
    <3>1. i \in 1..a
      BY <1>1, <2>1
    <3>2. x < a \/ i # x + 1
      BY <1>1, <2>1
    <3> QED
      BY <1>4, <1>6, <1>8, <1>9, <2>1, <3>1, <3>2
  <2>2. CASE ~(i <= a)
    <3>1. i - a \in 1..b /\ (i - a = x - a + 1 <=> i = x + 1)
      BY <1>1, <2>2
    <3>2. x < a => i # x + 1
      BY <1>1, <2>2
    <3> QED
      BY <1>5, <1>6, <1>8, <1>9, <2>2, <3>1, <3>2
  <2> QED
    BY <2>1, <2>2
<1>11. ASSUME Clean(m)
       PROVE  Tags(t) = VarsOf(m, r.fn)
  <2>1. /\ Tags(s) \in Seq(Tag) /\ Len(Tags(s)) = a + b
        /\ \A i \in 1..(a + b) : Tags(s)[i] = s[i].t
    BY <1>8, TagsAre
  <2>2. /\ Tags(t) \in Seq(Tag) /\ Len(Tags(t)) = a + b
        /\ \A i \in 1..(a + b) : Tags(t)[i] = t[i].t
    BY <1>9, TagsAre
  <2>3. Tags(s) = VarsOf(m, r.fn)
    BY <1>1, <1>11
  <2>4. \A i \in 1..(a + b) : Tags(t)[i] = Tags(s)[i]
    <3> TAKE i \in 1..(a + b)
    <3>1. CASE i = x + 1
      BY <1>10, <1>11, <2>2, <2>3, <3>1
    <3>2. CASE i # x + 1
      BY <1>10, <2>1, <2>2, <3>2
    <3> QED
      BY <3>1, <3>2
  <2> QED
    BY <1>1, <2>1, <2>2, <2>3, <2>4, SeqEqual
<1>12. FrameOK(m, q)
  BY <1>6, <1>7, <1>11 DEF FrameOK, t, a, b
<1> QED
  BY <1>6, <1>12 DEF q

(* What the instructions on params and locals take and give.               *)
LEMMA LocalEffect ==
  ASSUME AllRunnable, MachineInv, NEW ops, On(ops), ops \subseteq {"LocalGet", "LocalSet", "LocalTee"}
  PROVE  LET w == <<VarsOf(module, Top.fn)[Imm + 1]>>  op == Instruction.op IN
         /\ op \in {"LocalGet", "LocalSet", "LocalTee"}
         /\ Effective.takes = IF op = "LocalGet" THEN <<>> ELSE w
         /\ Effective.gives = IF op = "LocalSet" THEN <<>> ELSE w
<1>1. Instruction.op \in {"LocalGet", "LocalSet", "LocalTee"}
  BY AtInstruction
<1>2. Effective = EffectOf(module, Top.fn, Instruction, TypesIn(module, Top.fn)[Top.pc])
  BY AtInstruction
<1> QED
  BY <1>1, <1>2 DEF EffectOf, DataOps, Imm

(* LocalGet finds its variable, with its declared type.                    *)
LEMMA LocalGetGood ==
  ASSUME AllRunnable, MachineInv, LocalGet
  PROVE  Good
<1> DEFINE w == VarsOf(module, Top.fn)[Imm + 1]
           v == VarIn(Top, Imm)
<1>1. On({"LocalGet"})
  BY DEF LocalGet
<1>2. Instruction.op = "LocalGet"
  BY <1>1, AtInstruction
<1>3. Effective.takes = <<>> /\ Effective.gives = <<w>>
  BY <1>1, <1>2, LocalEffect
<1>4. Taken = 0 /\ Len(Effective.gives) = 1
  BY <1>3 DEF Taken
<1>5. HasVar(Top, Imm) /\ v \in Operand /\ (Clean(module) => v.t = w)
  <2>1. ValidModule(module) /\ FrameOK(module, Top)
    BY <1>1, AtWork DEF On
  <2>2. Imm \in Nat /\ Imm + 1 \in 1..Len(VarsOf(module, Top.fn))
    BY <1>1, <1>2, Immediates
  <2> QED
    BY <2>1, <2>2, VarThere
<1>6. Step(Append(Below(Taken), v))
  BY <1>4, <1>5, NoneTaken DEF LocalGet
<1>7. Clean(module) => Effective.gives = <<v.t>>
  BY <1>3, <1>5
<1> HIDE DEF v
<1> QED
  BY <1>1, <1>2, <1>4, <1>5, <1>6, <1>7, StepsWith

(* LocalSet and LocalTee.                                                  *)
LEMMA AssignGood ==
  ASSUME AllRunnable, MachineInv, NEW ops, On(ops), ops \subseteq {"LocalSet", "LocalTee"},
         NEW x \in Seq(Operand), Len(x) = Len(Effective.gives),
         Clean(module) => Tags(x) = Effective.gives, AssignTop(Below(Taken) \o x)
  PROVE  Good
<1> DEFINE s == SetVar(Top, Imm, Popped(1))
           q == [s EXCEPT !.pc = Top.pc + 1]
<1>1. /\ ValidModule(module) /\ FrameOK(module, Top) /\ Top.fn \in DOMAIN module.codes
      /\ Expr = Code(module, Top.fn) /\ ~Dead(Expr, Top.pc) /\ status = "running"
  BY AtWork DEF On
<1>2. Top.pc \in 1..Len(Expr) /\ Instruction = Expr[Top.pc] /\ Instruction.op \in {"LocalSet", "LocalTee"}
  BY AtInstruction
<1>3. Effective.takes = <<VarsOf(module, Top.fn)[Imm + 1]>>
  BY <1>2, LocalEffect
<1>4. 1 \in 1..Taken /\ Taken + 1 - 1 = 1
  BY <1>3 DEF Taken
<1>5. Popped(1) \in Operand /\ (Clean(module) => Popped(1).t = VarsOf(module, Top.fn)[Imm + 1])
  BY <1>3, <1>4, PoppedAre
<1>6. Imm \in Nat /\ Imm + 1 \in 1..Len(VarsOf(module, Top.fn))
  BY <1>2, Immediates
<1>7. FrameOK(module, s) /\ s.fn = Top.fn /\ s.pc = Top.pc
  BY <1>1, <1>5, <1>6, VarSet
<1>8. Reaches(module, Top.fn, Top.pc, Top.pc + 1)
  BY <1>1, <1>2, FallsThrough
<1>9. FrameOK(module, q) /\ q.fn = Top.fn /\ q.pc = Top.pc + 1
  <2>1. Top.pc + 1 \in 1..(Len(Code(module, s.fn)) + 1) /\ ~Dead(Code(module, s.fn), Top.pc + 1)
    BY <1>7, <1>8 DEF Reaches
  <2> HIDE DEF s
  <2> QED
    BY <1>7, <2>1, Moved
<1>10. /\ stack' = Below(Taken) \o x /\ frames' = [frames EXCEPT ![Len(frames)] = q]
       /\ module' = module /\ status' = "running" /\ globals' = globals
  BY <1>1, <1>7 DEF AssignTop
<1>11. GlobalsOK(module, globals')
  BY <1>10 DEF MachineInv
<1> HIDE DEF q
<1> QED
  BY <1>8, <1>9, <1>10, <1>11, Goes

(* LocalSet.                                                               *)
LEMMA LocalSetGood ==
  ASSUME AllRunnable, MachineInv, LocalSet
  PROVE  Good
<1>1. On({"LocalSet"})
  BY DEF LocalSet
<1>2. Instruction.op = "LocalSet"
  BY <1>1, AtInstruction
<1>3. Effective.gives = <<>> /\ Taken = 1
  <2>1. Effective.takes = <<VarsOf(module, Top.fn)[Imm + 1]>> /\ Effective.gives = <<>>
    BY <1>1, <1>2, LocalEffect
  <2> QED
    BY <2>1 DEF Taken
<1>4. HasVar(Top, Imm)
  <2>1. ValidModule(module) /\ FrameOK(module, Top)
    BY <1>1, AtWork DEF On
  <2>2. Imm \in Nat /\ Imm + 1 \in 1..Len(VarsOf(module, Top.fn))
    BY <1>1, <1>2, Immediates
  <2> QED
    BY <2>1, <2>2, VarThere
<1>5. AssignTop(Below(Taken))
  BY <1>1, <1>3, <1>4, NoUnderflow DEF LocalSet
<1>6. Below(Taken) \in Seq(Operand)
  <2>1. stack \in Seq(Operand) /\ Taken \in Nat
    BY <1>3 DEF MachineInv
  <2> QED
    BY <2>1, Shortened DEF Below
<1>7. AssignTop(Below(Taken) \o <<>>) /\ <<>> \in Seq(Operand) /\ Tags(<<>>) = <<>>
  <2>1. Below(Taken) \o <<>> = Below(Taken)
    BY <1>6, ConcatEmptySeq
  <2> QED
    BY <1>5, <2>1 DEF Tags
<1> QED
  BY <1>1, <1>3, <1>7, AssignGood

(* LocalTee leaves the operand where it is.                                *)
LEMMA LocalTeeGood ==
  ASSUME AllRunnable, MachineInv, LocalTee
  PROVE  Good
<1> DEFINE w == VarsOf(module, Top.fn)[Imm + 1]
           v == Popped(1)
<1>1. On({"LocalTee"})
  BY DEF LocalTee
<1>2. Instruction.op = "LocalTee"
  BY <1>1, AtInstruction
<1>3. Effective.gives = <<w>> /\ Effective.takes = <<w>> /\ Taken = 1
  BY <1>1, <1>2, LocalEffect DEF Taken
<1>4. HasVar(Top, Imm)
  <2>1. ValidModule(module) /\ FrameOK(module, Top)
    BY <1>1, AtWork DEF On
  <2>2. Imm \in Nat /\ Imm + 1 \in 1..Len(VarsOf(module, Top.fn))
    BY <1>1, <1>2, Immediates
  <2> QED
    BY <2>1, <2>2, VarThere
<1>5. AssignTop(stack)
  BY <1>1, <1>3, <1>4, NoUnderflow DEF LocalTee
<1>6. v \in Operand /\ (Clean(module) => v.t = w)
  <2>1. 1 \in 1..Taken /\ Taken + 1 - 1 = 1
    BY <1>3
  <2> QED
    BY <1>1, <1>3, <2>1, PoppedAre
<1>7. <<v>> \in Seq(Operand) /\ Len(<<v>>) = 1 /\ Tags(<<v>>) = <<v.t>>
  BY <1>6 DEF Tags
<1>8. stack = Below(Taken) \o <<v>>
  <2>1. stack \in Seq(Operand) /\ Len(stack) >= 1
    BY <1>1, <1>3, AtInstruction DEF MachineInv
  <2>2. Below(Taken) = SubSeq(stack, 1, Len(stack) - 1) /\ v = stack[Len(stack)]
    BY <1>3, <2>1 DEF Below, Popped
  <2> HIDE DEF v
  <2> QED
    BY <2>1, <2>2
<1>9. AssignTop(Below(Taken) \o <<v>>)
  BY <1>5, <1>8
<1> HIDE DEF v
<1> QED
  BY <1>1, <1>3, <1>6, <1>7, <1>9, AssignGood

(* GlobalGet.                                                              *)
LEMMA GlobalGetGood ==
  ASSUME AllRunnable, MachineInv, GlobalGet
  PROVE  Good
<1> DEFINE v == globals[Imm + 1]
<1>1. On({"GlobalGet"})
  BY DEF GlobalGet
<1>2. Instruction.op = "GlobalGet"
  BY <1>1, AtInstruction
<1>3. Effective = [takes |-> <<>>, gives |-> <<module.globals[Imm + 1].t>>]
  BY <1>1, <1>2, AtInstruction DEF EffectOf, DataOps, Imm
<1>4. Taken = 0 /\ Len(Effective.gives) = 1
  BY <1>3 DEF Taken
<1>5. /\ Imm \in Nat /\ Imm < Len(globals) /\ v \in Operand /\ v.t = module.globals[Imm + 1].t
  <2>1. Imm \in Nat /\ Imm + 1 \in 1..Len(module.globals)
    BY <1>1, <1>2, Immediates
  <2>2. /\ globals \in Seq(Operand) /\ Len(globals) = Len(module.globals) /\ Len(globals) \in Nat
        /\ \A g \in 1..Len(globals) : globals[g].t = module.globals[g].t
    BY DEF MachineInv, GlobalsOK
  <2>3. Imm < Len(globals)
    BY <2>1, <2>2
  <2> QED
    BY <2>1, <2>2, <2>3
<1>6. Step(Append(Below(Taken), v))
  <2>1. ~(Imm >= Len(globals))
    BY <1>5 DEF MachineInv, GlobalsOK
  <2> QED
    BY <1>4, <2>1, NoneTaken DEF GlobalGet
<1>7. Effective.gives = <<v.t>>
  BY <1>3, <1>5
<1> HIDE DEF v
<1> QED
  BY <1>1, <1>2, <1>4, <1>5, <1>6, <1>7, StepsWith

(* GlobalSet: on clean modules the tags that the assert compares agree.    *)
LEMMA GlobalSetGood ==
  ASSUME AllRunnable, MachineInv, GlobalSet
  PROVE  Good
<1> DEFINE v == Popped(1)
           w == module.globals[Imm + 1].t
           q == [Top EXCEPT !.pc = Top.pc + 1]
<1>1. On({"GlobalSet"}) /\ status = "running"
  BY DEF GlobalSet, On
<1>2. Instruction.op = "GlobalSet"
  BY <1>1, AtInstruction
<1>3. Effective = [takes |-> <<w>>, gives |-> <<>>]
  BY <1>1, <1>2, AtInstruction DEF EffectOf, DataOps, Imm
<1>4. Taken = 1 /\ Effective.gives = <<>>
  BY <1>3 DEF Taken
<1>5. v \in Operand /\ (Clean(module) => v.t = w)
  <2>1. 1 \in 1..Taken /\ Taken + 1 - 1 = 1
    BY <1>4
  <2> QED
    BY <1>1, <1>3, <2>1, PoppedAre
<1>6. /\ Imm \in Nat /\ Imm + 1 \in 1..Len(module.globals) /\ module.globals[Imm + 1].mut
      /\ globals \in Seq(Operand) /\ Len(globals) = Len(module.globals) /\ Len(globals) \in Nat
      /\ \A g \in 1..Len(globals) : globals[g].t = module.globals[g].t
  BY <1>1, <1>2, Immediates DEF MachineInv, GlobalsOK
<1>7. Imm < Len(globals) /\ Imm + 1 \in 1..Len(globals)
  BY <1>6
<1>8. Clean(module) => Settable(Imm, v)
  BY <1>5, <1>6, <1>7 DEF Settable
<1>9. CASE Stop("aborted") /\ ~Settable(Imm, v)
  <2>1. Traps
    BY <1>1, <1>8, <1>9 DEF On, At, Traps
  <2> QED
    BY <1>1, <1>9, <2>1, Stops
<1>10. CASE /\ Settable(Imm, v) /\ stack' = Below(1) /\ Goto(Top.pc + 1)
            /\ globals' = [globals EXCEPT ![Imm + 1] = v]
            /\ UNCHANGED <<module, status>>
  <2>1. GlobalsOK(module, globals')
    <3>1. v.t = w
      BY <1>6, <1>7, <1>10 DEF Settable
    <3> HIDE DEF v
    <3>2. globals' \in Seq(Operand) /\ Len(globals') = Len(globals)
          /\ \A g \in 1..Len(globals) : globals'[g] = IF g = Imm + 1 THEN v ELSE globals[g]
      BY <1>5, <1>6, <1>7, <1>10, ExceptSeq
    <3> QED
      BY <1>6, <3>1, <3>2 DEF GlobalsOK
  <2>2. /\ ValidModule(module) /\ FrameOK(module, Top) /\ Top.fn \in DOMAIN module.codes
        /\ Expr = Code(module, Top.fn) /\ ~Dead(Expr, Top.pc)
    BY <1>1, AtWork
  <2>3. Top.pc \in 1..Len(Expr) /\ Instruction = Expr[Top.pc]
    BY <1>1, AtInstruction
  <2>4. Reaches(module, Top.fn, Top.pc, Top.pc + 1)
    BY <1>2, <2>2, <2>3, FallsThrough
  <2>5. FrameOK(module, q) /\ q.fn = Top.fn /\ q.pc = Top.pc + 1
    <3>1. Top.pc + 1 \in 1..(Len(Code(module, Top.fn)) + 1) /\ ~Dead(Code(module, Top.fn), Top.pc + 1)
      BY <2>4 DEF Reaches
    <3> QED
      BY <2>2, <3>1, Moved
  <2>6. frames' = [frames EXCEPT ![Len(frames)] = q]
    BY <1>10 DEF Goto, Top
  <2>7. stack' = Below(Taken) \o <<>> /\ <<>> \in Seq(Operand) /\ Tags(<<>>) = <<>>
    <3>1. Below(Taken) \in Seq(Operand)
      <4>1. stack \in Seq(Operand) /\ Taken \in Nat
        BY <1>4 DEF MachineInv
      <4> QED
        BY <4>1, Shortened DEF Below
    <3>2. Below(Taken) \o <<>> = Below(Taken)
      BY <3>1, ConcatEmptySeq
    <3> QED
      BY <1>4, <1>10, <3>2 DEF Tags
  <2>8. module' = module /\ status' = "running"
    BY <1>1, <1>10
  <2> HIDE DEF q
  <2> QED
    BY <1>1, <1>4, <2>1, <2>4, <2>5, <2>6, <2>7, <2>8, Goes
<1> QED
  BY <1>1, <1>4, <1>9, <1>10, NoUnderflow DEF GlobalSet

-----------------------------------------------------------------------------
(* Control.                                                                *)

(* If with a zero condition, and Else.                                     *)
LEMMA SkipGood ==
  ASSUME AllRunnable, MachineInv, NEW ops, On(ops), ops \subseteq {"If", "Else"},
         Effective.gives = <<>>, SkipWith(Below(Taken))
  PROVE  Good
<1>1. /\ ValidModule(module) /\ Top.fn \in DOMAIN module.codes /\ Expr = Code(module, Top.fn)
      /\ ~Dead(Expr, Top.pc) /\ Benign(Expr) /\ status = "running"
  BY AtWork DEF On
<1>2. Top.pc \in 1..Len(Expr) /\ Instruction = Expr[Top.pc] /\ Instruction.op \in {"If", "Else"}
  BY AtInstruction
<1>3. SkipDefined(Expr, Top.pc) /\ Reaches(module, Top.fn, Top.pc, SkipTarget(Expr, Top.pc))
  BY <1>1, <1>2, IfSkips
<1>4. JumpTo(SkipTarget(Expr, Top.pc), Below(Taken))
  BY <1>3 DEF SkipWith
<1> QED
  BY <1>3, <1>4, JumpsBare

(* A branch lands where the types of its label are.                        *)
LEMMA BranchGood ==
  ASSUME AllRunnable, MachineInv, NEW ops, On(ops), ops \subseteq BranchOps,
         Effective.gives = <<>>, NEW j \in DOMAIN Instruction.imms,
         BranchWith(Instruction.imms[j], Below(Taken))
  PROVE  Good
<1> DEFINE k == Instruction.imms[j]
<1>1. /\ ValidModule(module) /\ Top.fn \in DOMAIN module.codes /\ Expr = Code(module, Top.fn)
      /\ ~Dead(Expr, Top.pc) /\ Benign(Expr) /\ status = "running"
  BY AtWork DEF On
<1>2. Top.pc \in 1..Len(Expr) /\ Instruction = Expr[Top.pc] /\ Instruction.op \in BranchOps
  BY AtInstruction
<1>3. BranchDefined(Expr, Top.pc, k) /\ Reaches(module, Top.fn, Top.pc, BranchTarget(Expr, Top.pc, k))
  BY <1>1, <1>2, BranchReaches
<1> HIDE DEF k
<1>4. JumpTo(BranchTarget(Expr, Top.pc, k), Below(Taken)) \/ Stop("exhausted")
  BY <1>3 DEF BranchWith, k
<1>5. CASE JumpTo(BranchTarget(Expr, Top.pc, k), Below(Taken))
  BY <1>3, <1>5, JumpsBare
<1>6. CASE Stop("exhausted")
  BY <1>1, <1>6, Stops
<1> QED
  BY <1>4, <1>5, <1>6

(* What the control instructions take.                                     *)
LEMMA ControlEffect ==
  ASSUME AllRunnable, MachineInv, NEW ops, On(ops),
         ops \subseteq {"If", "BrIf", "BrTable", "Else", "Loop", "Block", "Br"}
  PROVE  /\ Effective.gives = <<>>
         /\ Instruction.op \in {"If", "BrIf", "BrTable"} => Taken = 1 /\ Effective.takes = <<"I32">>
         /\ Instruction.op \in {"Else", "Loop", "Block", "Br"} => Taken = 0 /\ Below(Taken) = stack
<1>1. Instruction.op \in {"If", "BrIf", "BrTable", "Else", "Loop", "Block", "Br"}
  BY AtInstruction
<1>2. Effective = EffectOf(module, Top.fn, Instruction, TypesIn(module, Top.fn)[Top.pc])
  BY AtInstruction
<1>3. Effective = IF Instruction.op \in {"If", "BrIf", "BrTable"} THEN [takes |-> <<"I32">>, gives |-> <<>>]
                  ELSE [takes |-> <<>>, gives |-> <<>>]
  BY <1>1, <1>2 DEF EffectOf, DataOps
<1>4. Effective.gives = <<>>
  BY <1>3
<1>5. Instruction.op \in {"If", "BrIf", "BrTable"} => Taken = 1 /\ Effective.takes = <<"I32">>
  BY <1>3 DEF Taken
<1>6. Instruction.op \in {"Else", "Loop", "Block", "Br"} => Taken = 0
  BY <1>3 DEF Taken
<1> QED
  BY <1>4, <1>5, <1>6, NoneTaken

(* If.                                                                     *)
LEMMA IfGood ==
  ASSUME AllRunnable, MachineInv, If
  PROVE  Good
<1>1. On({"If"})
  BY DEF If
<1>2. Instruction.op = "If"
  BY <1>1, AtInstruction
<1>3. Effective.gives = <<>> /\ Taken = 1
  BY <1>1, <1>2, ControlEffect
<1>4. Step(Below(Taken)) \/ SkipWith(Below(Taken))
  BY <1>1, <1>3, NoUnderflow DEF If
<1>5. CASE Step(Below(Taken))
  BY <1>1, <1>2, <1>3, <1>5, StepsBare
<1>6. CASE SkipWith(Below(Taken))
  BY <1>1, <1>3, <1>6, SkipGood
<1> QED
  BY <1>4, <1>5, <1>6

(* Else, reached at the end of the first branch.                           *)
LEMMA ElseGood ==
  ASSUME AllRunnable, MachineInv, Else
  PROVE  Good
<1>1. On({"Else"}) /\ SkipWith(stack)
  BY DEF Else
<1>2. Instruction.op = "Else"
  BY <1>1, AtInstruction
<1>3. Effective.gives = <<>> /\ Below(Taken) = stack
  BY <1>1, <1>2, ControlEffect
<1> QED
  BY <1>1, <1>3, SkipGood

(* Block and Loop.                                                         *)
LEMMA LabelGood ==
  ASSUME AllRunnable, MachineInv, Label
  PROVE  Good
<1>1. On(LabelOps) /\ status = "running" /\ LabelOps = {"Block", "Loop"}
  BY DEF Label, On, LabelOps
<1>2. CASE ~Supported(Instruction) /\ Stop("aborted")
  <2>1. Traps
    BY <1>1, <1>2 DEF On, Traps, TrapOrTodo
  <2> QED
    BY <1>1, <1>2, <2>1, Stops
<1>3. CASE Step(stack)
  <2>1. Instruction.op \in {"Block", "Loop"}
    BY <1>1, AtInstruction
  <2>2. Effective.gives = <<>> /\ Below(Taken) = stack
    BY <1>1, <2>1, ControlEffect
  <2> QED
    BY <1>1, <1>3, <2>1, <2>2, StepsBare
<1> QED
  BY <1>2, <1>3 DEF Label

(* Br.                                                                     *)
LEMMA BrGood ==
  ASSUME AllRunnable, MachineInv, Br
  PROVE  Good
<1>1. On({"Br"}) /\ BranchWith(Instruction.imms[1], stack)
  BY DEF Br, Imm
<1>2. Instruction.op = "Br" /\ Instruction \in Instr
  BY <1>1, AtInstruction
<1>3. Effective.gives = <<>> /\ Below(Taken) = stack
  BY <1>1, <1>2, ControlEffect
<1>4. Instruction.imms # <<>>
  BY <1>1, <1>2, Immediates DEF BranchOps
<1>5. 1 \in DOMAIN Instruction.imms
  BY <1>2, <1>4 DEF Instr
<1> QED
  BY <1>1, <1>3, <1>5, BranchGood DEF BranchOps

(* BrIf.                                                                   *)
LEMMA BrIfGood ==
  ASSUME AllRunnable, MachineInv, BrIf
  PROVE  Good
<1>1. On({"BrIf"})
  BY DEF BrIf
<1>2. Instruction.op = "BrIf" /\ Instruction \in Instr
  BY <1>1, AtInstruction
<1>3. Effective.gives = <<>> /\ Taken = 1
  BY <1>1, <1>2, ControlEffect
<1>4. Step(Below(Taken)) \/ BranchWith(Instruction.imms[1], Below(Taken))
  BY <1>1, <1>3, NoUnderflow DEF BrIf, Imm
<1>5. CASE Step(Below(Taken))
  BY <1>1, <1>2, <1>3, <1>5, StepsBare
<1>6. CASE BranchWith(Instruction.imms[1], Below(Taken))
  <2>1. Instruction.imms # <<>>
    BY <1>1, <1>2, Immediates DEF BranchOps
  <2>2. 1 \in DOMAIN Instruction.imms
    BY <1>2, <2>1 DEF Instr
  <2> QED
    BY <1>1, <1>3, <1>6, <2>2, BranchGood DEF BranchOps
<1> QED
  BY <1>4, <1>5, <1>6

(* BrTable: an index up to the default names a label.                      *)
LEMMA BrTableGood ==
  ASSUME AllRunnable, MachineInv, BrTable
  PROVE  Good
<1> DEFINE x == Popped(1).v
<1>1. On({"BrTable"})
  BY DEF BrTable
<1>2. Instruction.op = "BrTable" /\ Instruction \in Instr
  BY <1>1, AtInstruction
<1>3. Effective.gives = <<>> /\ Taken = 1
  BY <1>1, <1>2, ControlEffect
<1>4. \/ x >= Len(Instruction.imms) /\ Stop("aborted")
      \/ x < Len(Instruction.imms) /\ BranchWith(Instruction.imms[x + 1], Below(Taken))
  BY <1>1, <1>3, NoUnderflow DEF BrTable
<1>5. CASE x >= Len(Instruction.imms) /\ Stop("aborted")
  <2>1. Traps /\ status = "running"
    BY <1>1, <1>5 DEF On, Traps, TrapOrTodo
  <2> QED
    BY <1>5, <2>1, Stops
<1>6. CASE x < Len(Instruction.imms) /\ BranchWith(Instruction.imms[x + 1], Below(Taken))
  <2>1. x \in Nat
    <3>1. Popped(1) \in Operand
      BY <1>1, <1>3, PoppedAre
    <3> QED
      BY <3>1, InterpreterAssumption DEF Operand
  <2> HIDE DEF x
  <2>2. x + 1 \in DOMAIN Instruction.imms
    BY <1>2, <1>6, <2>1 DEF Instr
  <2> QED
    BY <1>1, <1>3, <1>6, <2>2, BranchGood DEF BranchOps
<1> QED
  BY <1>4, <1>5, <1>6

(* Unreachable.                                                            *)
LEMMA UnreachableGood ==
  ASSUME AllRunnable, MachineInv, Unreachable
  PROVE  Good
<1>1. Traps /\ status = "running" /\ Stop("aborted")
  BY DEF Unreachable, On, At, Traps, TrapOrTodo
<1> QED
  BY <1>1, Stops

-----------------------------------------------------------------------------
(* Returns.                                                                *)

(* Where a function returns, its results are on top.                       *)
LEMMA ResultsThere ==
  ASSUME AllRunnable, MachineInv, status = "running",
         Top.pc > Len(Expr) \/ On({"Return"})
  PROVE  LET T == TypesIn(module, Top.fn)[Top.pc]  x == ResultsOf(module, Top.fn)
         IN  Len(x) <= Len(T) /\ (Clean(module) => T = x)
<1> DEFINE m == module
           f == Top.fn
           p == Top.pc
           T == TypesIn(m, f)[p]
           x == ResultsOf(m, f)
<1>1. /\ ValidModule(m) /\ f \in DOMAIN m.codes /\ Expr = Code(m, f) /\ Len(Expr) \in Nat
      /\ ~Dead(Expr, p) /\ p \in 1..(Len(Expr) + 1)
  BY AtWork
<1>2. CASE p > Len(Expr)
  <2>1. p = Len(Expr) + 1
    BY <1>1, <1>2
  <2>2. T = x
    BY <1>1, <2>1, ValidWhole
  <2>3. x \in Seq(Tag)
    BY <1>1, FunctionParts
  <2>4. Len(x) <= Len(x)
    BY <2>3
  <2> QED
    BY <2>2, <2>4
<1>3. CASE On({"Return"})
  <2>1. p \in 1..Len(Expr) /\ Expr[p].op = "Return"
    BY <1>3, AtInstruction
  <2>2. Len(BaseAt(m, f, p)) + Len(x) <= Len(T)
    <3> HIDE DEF m, f, p
    <3> QED
      BY <1>1, <2>1, ValidAt
  <2>3. T \in Seq(Tag) /\ x \in Seq(Tag)
    BY <1>1, FunctionParts, TypesFollow
  <2>4. BaseAt(m, f, p) \in Seq(Tag)
    <3>1. \A q \in 1..(Len(Expr) + 1) : TypesIn(m, f)[q] \in Seq(Tag)
      BY <1>1, TypesFollow
    <3> DEFINE S == Enclosing(Code(m, f), p)
    <3>2. S \in SUBSET (1..(p - 1)) /\ p - 1 \in Nat
      BY <2>1 DEF Enclosing, OpsAt
    <3>3. ASSUME S # {}
          PROVE  Max(S) + 1 \in 1..(Len(Expr) + 1)
      <4>1. Max(S) \in 1..(p - 1)
        BY <3>2, <3>3, MaxExists
      <4> QED
        BY <1>1, <4>1
    <3> QED
      BY <3>1, <3>3 DEF BaseAt
  <2>5. Len(x) <= Len(T)
    <3>1. \A a, b, c \in Nat : a + b <= c => b <= c
      OBVIOUS
    <3> QED
      BY <2>2, <2>3, <2>4, <3>1
  <2>6. Clean(m) => T = x
    <3>1. Clean(m) => LeavesNothing(m, f)
      BY <1>1 DEF Clean
    <3>2. LeavesNothing(m, f) => TypesIn(m, f)[p] = ResultsOf(m, f)
      BY <1>1, <2>1 DEF LeavesNothing, Code
    <3> QED
      BY <3>1, <3>2
  <2> QED
    BY <2>5, <2>6
<1> QED
  BY <1>2, <1>3

(* Return, and the end of a body: the caller resumes, or run is over with  *)
(* the results of the export.                                              *)
LEMMA ReturnGood ==
  ASSUME AllRunnable, MachineInv, Return
  PROVE  Good
<1> DEFINE F == Callers(frames)
           T == TypesIn(module, Top.fn)[Top.pc]
           x == ResultsOf(module, Top.fn)
           H == Held(module, F)
<1>1. status = "running" /\ (Top.pc > Len(Expr) \/ On({"Return"})) /\ Resume(stack, F)
  BY DEF Return, Callers
<1>2. /\ ValidModule(module) /\ Running(module, stack, frames) /\ Calls(module, frames)
      /\ Top = TopOf(frames) /\ frames # <<>> /\ Len(frames) \in Nat \ {0}
  BY <1>1, AtWork
<1>3. Len(x) <= Len(T) /\ (Clean(module) => T = x)
  BY <1>1, ResultsThere
<1>4. /\ H \in Seq(Tag) /\ T \in Seq(Tag) /\ Len(Validated(module, frames)) = Len(H) + Len(T)
      /\ Validated(module, frames) = H \o T /\ F \in Seq(Frame) /\ Len(F) = Len(frames) - 1
  BY <1>2, CallsParts DEF Validated
<1>5. stack' = stack /\ module' = module /\ globals' = globals
  BY <1>1 DEF Resume
<1>6. Kept
  <2>1. Len(H) + Len(T) <= Len(stack) /\ Len(stack) \in Nat
    BY <1>2, <1>4 DEF Running, Fits
  <2>2. Len(H) <= Len(stack)
    <3>1. \A a, b, c \in Nat : a + b <= c => a <= c
      OBVIOUS
    <3> QED
      BY <1>4, <2>1, <3>1
  <2> QED
    BY <1>4, <1>5, <2>1, <2>2 DEF Kept
<1>7. CASE F = <<>>
  <2>1. frames' = <<>> /\ status' = "finished"
    BY <1>1, <1>7 DEF Resume
  <2>2. ASSUME Clean(module)
        PROVE  Tags(stack) = TypeOfFunction(module, module.main).results
    <3>1. Tags(stack) = H \o x
      BY <1>2, <1>3, <1>4, <2>2 DEF Running, Fits
    <3>2. H = <<>>
      <4>1. Len(F) = 0 /\ Len(F) \in Nat /\ \A k \in 1..Len(F) : Waiting(module, F[k]) \in Seq(Tag)
        BY <1>7
      <4> HIDE DEF F
      <4> QED
        BY <4>1, HeldTyped
    <3>3. x \in Seq(Tag)
      BY <1>3, <1>4, <2>2
    <3>4. <<>> \o x = x
      BY <3>3, ConcatEmptySeq
    <3>5. x = TypeOfFunction(module, module.main).results
      <4>1. Len(frames) = 1
        <5>1. Len(F) = 0
          BY <1>7
        <5> HIDE DEF F
        <5> QED
          BY <1>2, <1>4, <5>1
      <4>2. Top = frames[1]
        BY <4>1 DEF Top
      <4> QED
        BY <1>2, <4>2 DEF Calls
    <3> QED
      BY <3>1, <3>2, <3>4, <3>5
  <2>3. Calls(module, <<>>)
    BY DEF Calls
  <2>4. MachineInv'
    BY <1>5, <2>1, <2>2, <2>3 DEF MachineInv, Statuses, AbortsOnlyOnTraps
  <2> QED
    BY <1>6, <2>4 DEF Good
<1>8. CASE F # <<>>
  <2>1. /\ frames' = [F EXCEPT ![Len(F)].pc = @ + 1] /\ status' = "running"
    BY <1>1, <1>8 DEF Resume
  <2>2. frames' = [F EXCEPT ![Len(F)] = [TopOf(F) EXCEPT !.pc = @ + 1]]
    BY <2>1 DEF TopOf
  <2>3. Running(module, stack, [F EXCEPT ![Len(F)] = [TopOf(F) EXCEPT !.pc = @ + 1]])
    BY <1>2, <1>3, <1>8, ReturnRuns
  <2>4. Running(module, stack', frames')
    BY <1>5, <2>2, <2>3
  <2>5. GlobalsOK(module, globals')
    BY <1>5 DEF MachineInv
  <2> QED
    BY <1>1, <1>5, <1>6, <2>1, <2>4, <2>5, Runs
<1> QED
  BY <1>7, <1>8

-----------------------------------------------------------------------------
(* Calls.                                                                  *)

(* The frame of a function that is entered.                                *)
LEMMA Entered ==
  ASSUME ValidModule(module), NEW f \in DOMAIN module.codes,
         NEW args \in Seq(Operand), Len(args) = Len(ParamsOf(module, f)),
         Clean(module) => Tags(args) = ParamsOf(module, f)
  PROVE  FrameOK(module, [fn |-> f, pc |-> 1, params |-> args, locals |-> FreshLocals(f)])
<1> DEFINE L == module.codes[f].locals
           l == FreshLocals(f)
           q == [fn |-> f, pc |-> 1, params |-> args, locals |-> l]
<1>1. /\ L \in Seq(Tag) /\ ParamsOf(module, f) \in Seq(Tag) /\ Code(module, f) \in Seq(Instr)
  BY FunctionParts
<1>2. l \in Seq(Operand) /\ Len(l) = Len(L) /\ \A j \in 1..Len(L) : l[j].t = L[j]
  <2>1. l = [j \in 1..Len(L) |-> Zero(L[j])]
    BY <1>1 DEF FreshLocals
  <2>2. \A j \in 1..Len(L) : Zero(L[j]) \in Operand /\ Zero(L[j]).t = L[j]
    BY <1>1, ZeroTyped
  <2> HIDE DEF L, l
  <2> QED
    BY <1>1, <2>1, <2>2
<1> HIDE DEF l, L
<1>3. Tags(l) = L
  <2>1. /\ Tags(l) \in Seq(Tag) /\ Len(Tags(l)) = Len(l)
        /\ \A i \in 1..Len(l) : Tags(l)[i] = l[i].t
    BY <1>2, TagsAre
  <2> QED
    BY <1>1, <1>2, <2>1, SeqEqual
<1>4. Tags(args \o l) = Tags(args) \o Tags(l)
  BY <1>2, TagsConcat
<1>5. Clean(module) => Tags(args \o l) = VarsOf(module, f)
  BY <1>3, <1>4 DEF VarsOf, L
<1>6. f \in Nat
  <2>1. module.codes \in Seq([locals : Seq(Tag), expr : Seq(Instr)])
    BY DEF ValidModule
  <2> QED
    BY <2>1
<1>7. 1 \in 1..(Len(Code(module, f)) + 1) /\ ~Dead(Code(module, f), 1)
  BY <1>1 DEF Dead
<1>8. q \in Frame
  BY <1>2, <1>6 DEF Frame
<1>9. q.fn = f /\ q.pc = 1 /\ q.params = args /\ q.locals = l
  OBVIOUS
<1> HIDE DEF q
<1>10. FrameOK(module, q)
  BY <1>2, <1>5, <1>7, <1>8, <1>9 DEF FrameOK, L
<1> QED
  BY <1>10 DEF q, l

(* The arguments are the operands the call takes.                          *)
LEMMA ArgumentsAre ==
  ASSUME NEW s \in Seq(Operand), NEW n \in Nat, n <= Len(s)
  PROVE  /\ Arguments(s, n) \in Seq(Operand) /\ Len(Arguments(s, n)) = n
         /\ \A i \in 1..n : Arguments(s, n)[i] = s[Len(s) - n + i]
<1>1. Len(s) \in Nat
  OBVIOUS
<1>2. \A i \in 1..n : Len(s) - n + i \in 1..Len(s)
  BY <1>1
<1>3. Arguments(s, n) = [i \in 1..n |-> s[Len(s) - n + i]]
  <2>1. Arguments(s, n) = [i \in 1..(Len(s) - (Len(s) - n + 1) + 1) |-> s[i + (Len(s) - n + 1) - 1]]
    BY DEF Arguments
  <2>2. Len(s) - (Len(s) - n + 1) + 1 = n /\ \A i \in 1..n : i + (Len(s) - n + 1) - 1 = Len(s) - n + i
    BY <1>1
  <2> QED
    BY <2>1, <2>2
<1>4. \A i \in 1..n : s[Len(s) - n + i] \in Operand
  BY <1>2
<1> HIDE DEF Arguments
<1> QED
  BY <1>3, <1>4

(* A call of function x, with d operands taken before its arguments.       *)
LEMMA EnterGood ==
  ASSUME AllRunnable, MachineInv, NEW ops, On(ops), ops \subseteq {"Call", "CallIndirect"},
         NEW x \in 0..(module.imports + Len(module.codes) - 1), NEW rest \in Seq(Tag),
         Effective.takes = TypeOfFunction(module, x).params \o rest,
         Effective.gives = TypeOfFunction(module, x).results,
         Names(x), Enter(x, SubSeq(stack, 1, Len(stack) - Len(rest)))
  PROVE  Good
<1> DEFINE m == module
           d == Len(rest)
           st == SubSeq(stack, 1, Len(stack) - d)
           f == x - m.imports + 1
           P == TypeOfFunction(m, x).params
           n == Len(P)
           args == Arguments(st, n)
           q == [fn |-> f, pc |-> 1, params |-> args, locals |-> FreshLocals(f)]
<1>1. /\ ValidModule(m) /\ Running(m, stack, frames) /\ status = "running" /\ Top = TopOf(frames)
      /\ Expr = Code(m, Top.fn) /\ Calls(m, frames) /\ frames # <<>> /\ stack \in Seq(Operand)
  BY AtWork DEF On, MachineInv
<1>2. /\ Top.pc \in 1..Len(Expr) /\ Instruction = Expr[Top.pc]
      /\ Instruction.op \in {"Call", "CallIndirect"}
      /\ Taken \in Nat /\ Taken <= Len(stack) /\ Len(stack) \in Nat
      /\ Len(Held(m, Callers(frames))) \in Nat
      /\ Len(Held(m, Callers(frames))) <= Len(stack) - Taken
      /\ Clean(m) => \A i \in 1..Taken : stack[Len(stack) - Taken + i].t = Effective.takes[i]
  BY AtInstruction
<1>3. /\ TypeOfFunction(m, x) \in FunctionType
      /\ x \in Nat /\ m.imports \in Nat
      /\ ~(x < m.imports) =>
              /\ f \in DOMAIN m.codes
              /\ P = ParamsOf(m, f)
              /\ TypeOfFunction(m, x).results = ResultsOf(m, f)
  BY <1>1, CalleeType
<1>4. P \in Seq(Tag)
  BY <1>3 DEF FunctionType
<1> HIDE DEF P
<1>5. /\ d \in Nat /\ n \in Nat /\ Taken = n + d
      /\ \A i \in 1..n : Effective.takes[i] = P[i]
  <2>1. /\ Len(P \o rest) = Len(P) + Len(rest)
        /\ \A i \in 1..(Len(P) + Len(rest)) : (P \o rest)[i] = IF i <= Len(P) THEN P[i] ELSE rest[i - Len(P)]
    BY <1>4, ConcatProperties
  <2>2. \A a, b \in Nat : \A i \in 1..a : i \in 1..(a + b) /\ i <= a
    OBVIOUS
  <2>3. Effective.takes = P \o rest
    BY DEF P
  <2>4. d \in Nat /\ n \in Nat
    BY <1>4
  <2> QED
    BY <2>1, <2>2, <2>3, <2>4 DEF Taken
<1>6. /\ st \in Seq(Operand) /\ Len(st) = Len(stack) - d /\ n <= Len(st)
      /\ SubSeq(st, 1, Len(st) - n) = Below(Taken)
  <2> HIDE DEF d, n
  <2>1. n + d <= Len(stack) /\ Len(stack) - Taken = Len(stack) - (n + d)
    BY <1>2, <1>5
  <2> QED
    BY <1>1, <1>5, <2>1, CutTwice DEF Below
<1> HIDE DEF st
<1>7. Enter(x, st)
  BY DEF st
<1>8. CASE x < m.imports /\ RunImport(st)
  <2>1. TypeOfFunction(m, x) = FdWrite
    BY <1>8 DEF TypeOfFunction
  <2>2. n = 4 /\ Effective.gives = <<"I32">>
    BY <2>1 DEF FdWrite, P
  <2> DEFINE v == Zero("I32")
  <2>3. v \in Operand /\ v.t = "I32"
    BY ZeroTyped DEF Tag
  <2>4. CASE Resume(Append(SubSeq(st, 1, Len(st) - 4), v), frames)
    <3>1. /\ stack' = Append(Below(Taken), v) /\ status' = "running"
          /\ frames' = [frames EXCEPT ![Len(frames)].pc = @ + 1]
          /\ module' = module /\ globals' = globals
      BY <1>1, <1>6, <2>2, <2>4 DEF Resume
    <3>2. Goto(Top.pc + 1)
      BY <3>1 DEF Goto, Top
    <3>3. Step(Append(Below(Taken), v))
      BY <1>1, <3>1, <3>2 DEF Step
    <3> HIDE DEF v
    <3> QED
      BY <1>2, <2>2, <2>3, <3>3, StepsWith
  <2>5. CASE Stop("aborted") \/ Stop("undefined")
    <3>1. Traps
      BY <1>8 DEF Traps, TrapOrTodo
    <3> QED
      BY <1>1, <2>5, <3>1, Stops
  <2> QED
    BY <1>8, <2>4, <2>5 DEF RunImport
<1>9. CASE Stop("undefined") \/ Stop("exhausted")
  BY <1>1, <1>9, Stops
<1>13. ASSUME Stop("aborted"), m.codes[f].expr = <<>>
       PROVE  Good
  <2>1. Traps
    BY <1>13 DEF Traps, TrapOrTodo
  <2> QED
    BY <1>1, <1>13, <2>1, Stops
<1>10. ASSUME ~(x < m.imports), stack' = SubSeq(st, 1, Len(st) - n), frames' = Append(frames, q),
              status' = "running", UNCHANGED <<module, globals>>
       PROVE  Good
  <2>1. f \in DOMAIN m.codes /\ P = ParamsOf(m, f) /\ Effective.gives = ResultsOf(m, f)
    BY <1>3, <1>10
  <2>2. /\ args \in Seq(Operand) /\ Len(args) = n
        /\ \A i \in 1..n : args[i] = st[Len(st) - n + i]
    <3> HIDE DEF n
    <3> QED
      BY <1>5, <1>6, ArgumentsAre
  <2>3. ASSUME Clean(m)
        PROVE  Tags(args) = P
    <3> HIDE DEF args, n, d, m
    <3>1. /\ Tags(args) \in Seq(Tag) /\ Len(Tags(args)) = n
          /\ \A i \in 1..n : Tags(args)[i] = args[i].t
      BY <2>2, TagsAre
    <3>2. \A i \in 1..n : args[i].t = P[i]
      <4> TAKE i \in 1..n
      <4>1. i \in 1..Taken /\ Len(st) - n + i = Len(stack) - Taken + i
            /\ Len(st) - n + i \in 1..(Len(stack) - d)
        <5>1. \A a, b, t, l \in Nat : t = a + b /\ t <= l =>
                \A j \in 1..a : /\ j \in 1..t /\ (l - b) - a + j = l - t + j
                               /\ (l - b) - a + j \in 1..(l - b)
          OBVIOUS
        <5> QED
          BY <1>2, <1>5, <1>6, <5>1
      <4>2. st[Len(st) - n + i] = stack[Len(st) - n + i]
        <5>1. \A j \in 1..(Len(stack) - d) : st[j] = stack[j]
          <6>1. d <= Len(stack)
            BY <1>2, <1>5
          <6> QED
            BY <1>1, <1>5, <6>1, Shortened DEF st
        <5> QED
          BY <4>1, <5>1
      <4>3. args[i] = stack[Len(stack) - Taken + i]
        BY <2>2, <4>1, <4>2
      <4>4. stack[Len(stack) - Taken + i].t = Effective.takes[i]
        BY <1>2, <2>3, <4>1 DEF m
      <4> QED
        BY <1>5, <4>3, <4>4
    <3> QED
      BY <1>4, <3>1, <3>2, SeqEqual DEF n
  <2>4. FrameOK(m, q)
    <3> HIDE DEF args
    <3> QED
      BY <1>1, <2>1, <2>2, <2>3, Entered
  <2>5. q.pc = 1 /\ q.fn = f
    OBVIOUS
  <2>6. Calling(m, TopOf(frames), q.fn)
    BY <1>1, <1>2, <2>1, <2>5 DEF Calling, Effective
  <2>7. Running(m, stack', frames')
    <3>1. Effective = EffectAt(m, TopOf(frames).fn, TopOf(frames).pc)
      BY <1>1 DEF Effective
    <3>2. stack' = SubSeq(stack, 1, Len(stack) - Len(EffectAt(m, TopOf(frames).fn, TopOf(frames).pc).takes))
      BY <1>6, <1>10, <3>1 DEF Below, Taken
    <3>3. TopOf(frames).pc \in 1..Len(Code(m, TopOf(frames).fn))
      BY <1>1, <1>2
    <3> HIDE DEF q
    <3> QED
      BY <1>1, <1>10, <2>4, <2>5, <2>6, <3>2, <3>3, PushRuns
  <2>8. Kept
    <3>1. stack' = Below(Taken) \o <<>>
      <4>1. Below(Taken) \in Seq(Operand)
        BY <1>1, <1>2, Shortened DEF Below
      <4>2. Below(Taken) \o <<>> = Below(Taken)
        BY <4>1, ConcatEmptySeq
      <4> QED
        BY <1>6, <1>10, <4>2
    <3>2. <<>> \in Seq(Operand)
      OBVIOUS
    <3> QED
      BY <1>1, <1>2, <3>1, <3>2, PrefixKept DEF Kept, Below
  <2>9. GlobalsOK(module, globals')
    BY <1>10 DEF MachineInv
  <2> QED
    BY <1>1, <1>10, <2>7, <2>8, <2>9, Runs
<1>11. f \in DOMAIN m.codes => ~(x < m.imports)
  <2>1. m.codes \in Seq([locals : Seq(Tag), expr : Seq(Instr)])
    BY <1>1 DEF ValidModule
  <2>2. f \in DOMAIN m.codes => f >= 1
    BY <2>1
  <2> QED
    BY <1>3, <2>2
<1>12. f \in DOMAIN m.codes => n = Len(ParamsOf(m, f))
  BY <1>3, <1>11
<1> HIDE DEF f, n
<1>14. Len(st) \in Nat /\ ~(Len(st) < n)
  BY <1>5, <1>6
<1> QED
  BY <1>7, <1>8, <1>9, <1>10, <1>11, <1>12, <1>13, <1>14 DEF Enter, f

(* Call.                                                                   *)
LEMMA CallGood ==
  ASSUME AllRunnable, MachineInv, Call
  PROVE  Good
<1>1. On({"Call"}) /\ Enter(Imm, stack)
  BY DEF Call
<1>2. Instruction.op = "Call"
  BY <1>1, AtInstruction
<1>3. Imm \in 0..(module.imports + Len(module.codes) - 1) /\ ValidModule(module)
  BY <1>1, <1>2, Immediates
<1>4. Effective = [takes |-> TypeOfFunction(module, Imm).params,
                   gives |-> TypeOfFunction(module, Imm).results]
  BY <1>1, <1>2, AtInstruction DEF EffectOf, DataOps, Imm
<1>5. TypeOfFunction(module, Imm).params \in Seq(Tag)
  BY <1>3, CalleeType DEF FunctionType
<1>6. Effective.takes = TypeOfFunction(module, Imm).params \o <<>>
  BY <1>4, <1>5, ConcatEmptySeq
<1>7. Effective.gives = TypeOfFunction(module, Imm).results
  BY <1>4
<1>8. <<>> \in Seq(Tag) /\ SubSeq(stack, 1, Len(stack) - Len(<<>>)) = stack
  <2>1. stack \in Seq(Operand) /\ Len(<<>>) = 0
    BY DEF MachineInv
  <2> QED
    BY <2>1, Shortened
<1>9. Enter(Imm, SubSeq(stack, 1, Len(stack) - Len(<<>>)))
  BY <1>1, <1>8
<1>10. Names(Imm)
  BY <1>1 DEF Names, On
<1> QED
  BY <1>1, <1>3, <1>6, <1>7, <1>8, <1>9, <1>10, EnterGood

(* CallIndirect: the function in the table has the type the call is        *)
(* validated with, which the code does not check.                          *)
LEMMA CallIndirectGood ==
  ASSUME AllRunnable, MachineInv, CallIndirect
  PROVE  Good
<1> DEFINE type == module.type_section[Imm + 1]
           s == Popped(1).v + 1
           x == module.table[s]
           rest == <<"I32">>
<1>1. On({"CallIndirect"})
  BY DEF CallIndirect
<1>2. Instruction.op = "CallIndirect"
  BY <1>1, AtInstruction
<1>3. /\ ValidModule(module) /\ Top.fn \in DOMAIN module.codes
      /\ Imm \in Nat /\ type \in FunctionType
  BY <1>1, <1>2, Immediates
<1>4. Effective = [takes |-> type.params \o rest, gives |-> type.results]
  BY <1>1, <1>2, AtInstruction DEF EffectOf, DataOps, Imm
<1>5. rest \in Seq(Tag) /\ Len(rest) = 1
  BY DEF Tag
<1>6. Taken \in Nat /\ Len(stack) \in Nat /\ Taken <= Len(stack) /\ 1 <= Taken /\ 1 \in 1..Taken
  <2>1. Taken \in Nat /\ Len(stack) \in Nat /\ Taken <= Len(stack)
    BY <1>1, AtInstruction
  <2>2. type.params \in Seq(Tag)
    BY <1>3 DEF FunctionType
  <2> HIDE DEF type, rest
  <2>3. Len(type.params \o rest) = Len(type.params) + 1
    BY <1>5, <2>2, ConcatProperties, SMTT(30)
  <2>4. Taken = Len(type.params) + 1
    BY <1>4, <2>3 DEF Taken
  <2>5. Len(type.params) \in Nat
    BY <2>2
  <2> QED
    BY <2>1, <2>4, <2>5
<1>7. CASE Popped(1).v >= Len(module.table) /\ Stop("aborted")
  <2>1. Traps /\ status = "running"
    BY <1>1, <1>7 DEF On, Traps, TrapOrTodo
  <2> QED
    BY <1>7, <2>1, Stops
<1>8. CASE Popped(1).v < Len(module.table) /\ Enter(x, Below(1))
  <2>1. module.table \in Seq(0..(module.imports + Len(module.codes) - 1)) /\ TableAgrees(module)
    BY <1>3 DEF ValidModule
  <2>2. s \in DOMAIN module.table
    <3>1. Popped(1).v \in Nat
      <4>1. Popped(1) \in Operand
        BY <1>1, <1>6, PoppedAre
      <4> QED
        BY <4>1, InterpreterAssumption DEF Operand
    <3> QED
      BY <1>8, <2>1, <3>1
  <2>3. x \in 0..(module.imports + Len(module.codes) - 1)
    BY <2>1, <2>2, ElementAt
  <2>4. TypeOfFunction(module, x) = type
    <3>1. Expr = Code(module, Top.fn) /\ Top.pc \in 1..Len(Expr) /\ Instruction = Expr[Top.pc]
      BY <1>1, AtInstruction, AtWork DEF On
    <3>2. Top.pc \in DOMAIN Expr
      <4>1. Expr \in Seq(Instr)
        BY <1>3, <3>1, FunctionParts
      <4> QED
        BY <3>1, <4>1
    <3> QED
      BY <1>2, <1>3, <2>1, <2>2, <3>1, <3>2 DEF TableAgrees, Imm, Expr
  <2>5. /\ Effective.takes = TypeOfFunction(module, x).params \o rest
        /\ Effective.gives = TypeOfFunction(module, x).results
    BY <1>4, <2>4
  <2>6. Enter(x, SubSeq(stack, 1, Len(stack) - Len(rest)))
    BY <1>5, <1>8 DEF Below
  <2>7. Names(x)
    BY <1>1, <1>8 DEF Names, On
  <2> HIDE DEF x, rest
  <2> QED
    BY <1>1, <1>5, <2>3, <2>5, <2>6, <2>7, EnterGood
<1>9. ~Underflow(1)
  BY <1>6 DEF Underflow
<1> QED
  BY <1>7, <1>8, <1>9 DEF CallIndirect

(* run(): the export is entered with an empty stack.                       *)
LEMMA RunGood ==
  ASSUME AllRunnable, MachineInv, Run
  PROVE  Good
<1> DEFINE m == module
           x == m.main
           f == x - m.imports + 1
           n == Len(ParamsOf(m, f))
           args == Arguments(stack, n)
           q == [fn |-> f, pc |-> 1, params |-> args, locals |-> FreshLocals(f)]
<1>1. /\ status = "ready" /\ stack = <<>> /\ frames = <<>> /\ ValidModule(m)
      /\ x \in 0..(m.imports + Len(m.codes) - 1) /\ stack \in Seq(Operand)
  BY DEF Run, MachineInv, AllRunnable, Runnable, ValidModule
<1>2. /\ x \in Nat /\ m.imports \in Nat
      /\ ~(x < m.imports) => f \in DOMAIN m.codes /\ TypeOfFunction(m, x).results = ResultsOf(m, f)
  BY <1>1, CalleeType
<1>3. Len(stack) = 0
  BY <1>1
<1>4. CASE Stop("aborted") \/ Stop("undefined") \/ Stop("exhausted")
  BY <1>1, <1>4, Stops
<1>5. ~(Len(stack) >= 4)
  BY <1>3
<1>6. ASSUME f \in DOMAIN m.codes, Len(stack) >= n, stack' = SubSeq(stack, 1, Len(stack) - n),
             frames' = Append(frames, q), status' = "running", UNCHANGED <<module, globals>>
      PROVE  Good
  <2>1. f \in Nat /\ ~(x < m.imports)
    <3>1. m.codes \in Seq([locals : Seq(Tag), expr : Seq(Instr)])
      BY <1>1 DEF ValidModule
    <3>2. f >= 1 /\ f \in Nat
      BY <1>6, <3>1
    <3> QED
      BY <1>2, <3>2
  <2>2. ParamsOf(m, f) \in Seq(Tag)
    BY <1>1, <1>6, FunctionParts
  <2>3. n = 0 /\ ParamsOf(m, f) = <<>>
    <3>1. n \in Nat
      BY <2>2
    <3>2. n = 0
      BY <1>3, <1>6, <3>1
    <3> QED
      BY <2>2, <3>2, EmptySeq
  <2>4. args \in Seq(Operand) /\ Len(args) = n
    <3>1. n \in Nat /\ n <= Len(stack)
      BY <1>3, <2>3
    <3> HIDE DEF n
    <3> QED
      BY <1>1, <3>1, ArgumentsAre
  <2>5. Tags(args) = ParamsOf(m, f)
    <3>1. args = <<>>
      BY <2>3, <2>4, EmptySeq
    <3> QED
      BY <2>3, <3>1 DEF Tags
  <2>6. FrameOK(m, q)
    <3> HIDE DEF args, f
    <3> QED
      BY <1>1, <1>6, <2>4, <2>5, Entered
  <2>7. q.fn = f /\ q.pc = 1
    OBVIOUS
  <2>8. q \in Frame
    BY <2>6 DEF FrameOK
  <2> HIDE DEF q
  <2>9. frames' = <<q>>
    BY <1>1, <1>6
  <2>10. Calls(m, <<q>>)
    <3>1. <<q>> \in Seq(Frame) /\ Len(<<q>>) = 1 /\ <<q>>[1] = q /\ <<q>> # <<>>
      BY <2>8
    <3>2. ResultsOf(m, q.fn) = TypeOfFunction(m, m.main).results
      BY <1>2, <2>1, <2>7
    <3>3. \A k \in 1..1 : k = 1
      OBVIOUS
    <3>4. 1..(1 - 1) = {}
      OBVIOUS
    <3> QED
      BY <2>6, <3>1, <3>2, <3>3, <3>4 DEF Calls
  <2>11. Callers(<<q>>) = <<>> /\ TopOf(<<q>>) = q
    BY DEF Callers, TopOf
  <2>12. Held(m, <<>>) = <<>>
    <3>1. Len(<<>>) = 0 /\ Len(<<>>) \in Nat /\ \A k \in 1..Len(<<>>) : Waiting(m, <<>>[k]) \in Seq(Tag)
      OBVIOUS
    <3> QED
      BY <3>1, HeldTyped
  <2>13. TypesIn(m, q.fn)[q.pc] = <<>>
    <3> HIDE DEF f
    <3> QED
      BY <1>1, <1>6, <2>7, TypesFollow, ZenonT(30)
  <2>14. Validated(m, <<q>>) = <<>>
    BY <2>11, <2>12, <2>13 DEF Validated
  <2>15. stack' = <<>>
    BY <1>1, <1>3, <1>6, <2>3
  <2>16. Running(m, stack', frames')
    <3>1. Fits(m, <<>>, <<q>>)
      BY <2>14 DEF Fits, Tags
    <3> QED
      BY <2>9, <2>10, <2>15, <3>1 DEF Running
  <2>17. MachineInv'
    <3>1. stack' \in Seq(Operand) /\ Calls(m, frames') /\ m' = m /\ globals' = globals /\ status' = "running"
      <4>1. <<>> \in Seq(Operand)
        OBVIOUS
      <4> QED
        BY <1>6, <2>9, <2>10, <2>15, <4>1
    <3> QED
      BY <2>16, <3>1 DEF MachineInv, Statuses, AbortsOnlyOnTraps
  <2> QED
    BY <1>1, <2>17 DEF Good, Kept
<1>7. CASE RunImport(stack)
  BY <1>4, <1>5, <1>7 DEF RunImport
<1> HIDE DEF f, n
<1> QED
  BY <1>4, <1>6, <1>7 DEF Run, Enter, f, n

(* The machine that the constructor leaves.                                *)
LEMMA InitGood ==
  ASSUME AllRunnable, Init
  PROVE  MachineInv
<1>1. ValidModule(module)
  BY DEF AllRunnable, Runnable, Init
<1>2. GlobalsOK(module, globals)
  <2> DEFINE G == module.globals
  <2>1. G \in Seq([t : Tag, mut : BOOLEAN]) /\ globals = [g \in DOMAIN G |-> Zero(G[g].t)]
    BY <1>1 DEF ValidModule, Init
  <2> HIDE DEF G
  <2>2. globals = [g \in 1..Len(G) |-> Zero(G[g].t)] /\ Len(G) \in Nat
    BY <2>1
  <2>3. \A g \in 1..Len(G) : Zero(G[g].t) \in Operand /\ Zero(G[g].t).t = G[g].t
    <3>1. \A g \in 1..Len(G) : G[g].t \in Tag
      <4>1. \A g \in 1..Len(G) : G[g] \in [t : Tag, mut : BOOLEAN]
        BY <2>1, ElementAt
      <4> QED
        BY <4>1
    <3> QED
      BY <3>1, ZeroTyped
  <2>4. globals \in Seq(Operand) /\ Len(globals) = Len(G) /\ \A g \in 1..Len(G) : globals[g].t = G[g].t
    BY <2>2, <2>3
  <2> QED
    BY <2>4 DEF GlobalsOK, G
<1>3. Calls(module, <<>>)
  BY DEF Calls
<1> QED
  BY <1>2, <1>3 DEF Init, MachineInv, Statuses, AbortsOnlyOnTraps

(* Every action.                                                           *)
LEMMA NextGood ==
  ASSUME AllRunnable, MachineInv, Next
  PROVE  Good
BY RunGood, CallGood, CallIndirectGood, ReturnGood, ConstGood, ComputeGood, ComputeTrapsGood,
   ReinterpGood, DropGood, SelectGood, Skip1Good, LocalGetGood, LocalSetGood, LocalTeeGood, GlobalGetGood,
   GlobalSetGood, IfGood, ElseGood, LabelGood, BrGood, BrIfGood, BrTableGood, UnreachableGood
   DEF Next

(* The invariant of the machine.                                           *)
LEMMA MachineInvariant ==
  ASSUME AllRunnable
  PROVE  Spec => []MachineInv
<1>1. Init => MachineInv
  BY InitGood
<1>2. MachineInv /\ [Next]_vars => MachineInv'
  <2> SUFFICES ASSUME MachineInv, [Next]_vars
               PROVE  MachineInv'
    OBVIOUS
  <2>1. CASE Next
    BY <2>1, NextGood DEF Good
  <2>2. CASE UNCHANGED vars
    <3>1. AbortsOnlyOnTraps' <=> AbortsOnlyOnTraps
      BY <2>2, TrapsKept DEF vars, AbortsOnlyOnTraps, Traps
    <3> QED
      BY <2>2, <3>1 DEF vars, MachineInv
  <2> QED
    BY <2>1, <2>2
<1> QED
  BY <1>1, <1>2, PTL DEF Spec

-----------------------------------------------------------------------------
(* The types that the properties speak of are those of the invariant.      *)

(* ... as seen from the calls.                                             *)
LEMMA TypesOfCallsAre ==
  ASSUME AllRunnable, MachineInv, frames # <<>>
  PROVE  /\ TypesOfCalls(Len(frames) - 1) = Held(module, Callers(frames))
         /\ TypesOfCalls(Len(frames)) = Validated(module, frames)
<1> DEFINE n == Len(frames)
           m == module
           F == Callers(frames)
           s == [k \in 1..(n - 1) |-> OwnTypes(k)]
           t == [k \in 1..n |-> OwnTypes(k)]
           T == TypesIn(m, TopOf(frames).fn)[TopOf(frames).pc]
<1>1. ValidModule(m) /\ Calls(m, frames)
  BY DEF AllRunnable, Runnable, MachineInv
<1>2. /\ n \in Nat \ {0} /\ n - 1 \in Nat /\ n \in 1..n /\ T \in Seq(Tag) /\ Len(F) = n - 1
      /\ \A k \in 1..(n - 1) : k \in 1..n /\ F[k] = frames[k] /\ Waiting(m, frames[k]) \in Seq(Tag)
  BY <1>1, CallsParts
<1>3. \A k \in 1..(n - 1) : OwnTypes(k) = Waiting(m, F[k])
  <2> TAKE k \in 1..(n - 1)
  <2>1. k # n /\ F[k] = frames[k]
    BY <1>2
  <2> QED
    BY <2>1 DEF OwnTypes, Waiting, EffectAt, Code
<1>4. OwnTypes(n) = T
  BY DEF OwnTypes, TopOf
<1>5. s = [k \in 1..Len(F) |-> Waiting(m, F[k])]
  BY <1>2, <1>3
<1>6. TypesOfCalls(n - 1) = Held(m, F)
  BY <1>5 DEF TypesOfCalls, Held
<1>7. s \in Seq(Seq(Tag)) /\ Len(s) = n - 1
  <2>1. \A k \in 1..(n - 1) : OwnTypes(k) \in Seq(Tag)
    BY <1>2, <1>3
  <2> HIDE DEF n
  <2> QED
    BY <1>2, <2>1
<1>8. t = Append(s, T)
  <2>1. /\ Append(s, T) \in Seq(Seq(Tag)) /\ Len(Append(s, T)) = n
        /\ \A k \in 1..n : Append(s, T)[k] = IF k = n THEN T ELSE s[k]
    <3> HIDE DEF s, T, n
    <3> QED
      BY <1>2, <1>7
  <2>2. \A k \in 1..n : t[k] = IF k = n THEN T ELSE s[k]
    <3> TAKE k \in 1..n
    <3>1. CASE k = n
      BY <1>4, <3>1
    <3>2. CASE k # n
      <4>1. k \in 1..(n - 1)
        BY <1>2, <3>2
      <4> QED
        BY <3>2, <4>1
    <3> QED
      BY <3>1, <3>2
  <2>3. t \in Seq(Seq(Tag)) /\ Len(t) = n
    <3>1. \A k \in 1..n : OwnTypes(k) \in Seq(Tag)
      <4> TAKE k \in 1..n
      <4>1. k = n \/ k \in 1..(n - 1)
        BY <1>2
      <4> QED
        BY <1>2, <1>3, <1>4, <4>1
    <3> HIDE DEF n
    <3> QED
      BY <1>2, <3>1
  <2> HIDE DEF t, s, T, n
  <2> QED
    BY <2>1, <2>2, <2>3, SeqEqual
<1>9. FlattenSeq(t) = FlattenSeq(s) \o T
  <2> HIDE DEF s, t, T
  <2> QED
    BY <1>2, <1>7, <1>8, FlattenAppend
<1> QED
  BY <1>6, <1>9 DEF TypesOfCalls, Validated

-----------------------------------------------------------------------------
(* What holds of every execution.                                          *)

(* The stack and the frames have their types, and the stack is never lower *)
(* than validation says, although branches and returns do not unwind it.   *)
THEOREM StackHighEnough ==
  ASSUME AllRunnable
  PROVE  Spec => []StackInv
<1>1. MachineInv => StackInv
  <2> SUFFICES ASSUME MachineInv
               PROVE  StackInv
    OBVIOUS
  <2>1. Calls(module, frames) /\ frames \in Seq(Frame)
    BY DEF MachineInv, Calls
  <2>2. \A k \in DOMAIN frames : FrameOK(module, frames[k])
    BY <2>1 DEF Calls
  <2>3. \A k \in DOMAIN frames :
          LET r == frames[k] IN
          /\ r.fn \in DOMAIN module.codes
          /\ r.pc \in 1..(Len(module.codes[r.fn].expr) + 1)
          /\ r.params \in Seq(Operand) /\ Len(r.params) = Len(ParamsOf(module, r.fn))
          /\ r.locals \in Seq(Operand) /\ Len(r.locals) = Len(module.codes[r.fn].locals)
    <3> TAKE k \in DOMAIN frames
    <3>1. FrameOK(module, frames[k])
      BY <2>2
    <3> QED
      BY <3>1 DEF FrameOK, Frame, Code
  <2>4. TypeOK
    BY <2>3 DEF MachineInv, GlobalsOK, TypeOK, Statuses, Running
  <2>5. CoversValidated
    <3> SUFFICES ASSUME status = "running"
                 PROVE  Len(stack) >= Len(TypesOfCalls(Len(frames)))
      BY DEF CoversValidated
    <3>1. Running(module, stack, frames)
      BY DEF MachineInv
    <3>2. frames # <<>> /\ Len(Validated(module, frames)) <= Len(stack) /\ stack \in Seq(Operand)
      BY <3>1 DEF Running, Fits
    <3>3. TypesOfCalls(Len(frames)) = Validated(module, frames)
      BY <3>2, TypesOfCallsAre
    <3>4. Validated(module, frames) \in Seq(Tag)
      <4>1. ValidModule(module)
        BY DEF AllRunnable, Runnable, MachineInv
      <4> QED
        BY <2>1, <3>2, <4>1, CallsParts
    <3> QED
      BY <3>2, <3>3, <3>4
  <2> QED
    BY <2>4, <2>5 DEF StackInv
<1> QED
  BY <1>1, MachineInvariant, PTL

(* On clean modules the stack has exactly the validated types, those of    *)
(* the waiting callers included, and in the end the results of the export. *)
THEOREM StackHasValidatedTypes ==
  ASSUME AllRunnable
  PROVE  Spec => []StackAsValidated
<1>1. MachineInv => StackAsValidated
  <2> SUFFICES ASSUME MachineInv, Clean(module)
               PROVE  /\ status = "running" => Tags(stack) = TypesOfCalls(Len(frames))
                      /\ status = "finished" =>
                           Tags(stack) = TypeOfFunction(module, module.main).results
    BY DEF StackAsValidated
  <2>1. ASSUME status = "running"
        PROVE  Tags(stack) = TypesOfCalls(Len(frames))
    <3>1. Running(module, stack, frames)
      BY <2>1 DEF MachineInv
    <3>2. frames # <<>> /\ Tags(stack) = Validated(module, frames)
      BY <3>1 DEF Running, Fits
    <3> QED
      BY <3>2, TypesOfCallsAre
  <2>2. status = "finished" => Tags(stack) = TypeOfFunction(module, module.main).results
    BY DEF MachineInv
  <2> QED
    BY <2>1, <2>2
<1> QED
  BY <1>1, MachineInvariant, PTL

(* On clean modules params and locals keep their declared types.           *)
THEOREM VarsHaveDeclaredTypes ==
  ASSUME AllRunnable
  PROVE  Spec => []VarsAsValidated
<1>1. MachineInv => VarsAsValidated
  BY DEF MachineInv, VarsAsValidated, Calls, FrameOK
<1> QED
  BY <1>1, MachineInvariant, PTL

(* In a function, run aborts on traps and unfinished code only, always     *)
(* with the operands of the instruction on the stack; a wrong tag ends it  *)
(* in modules that are not clean only.                                     *)
THEOREM OnlyTrapsAbort ==
  ASSUME AllRunnable
  PROVE  Spec => []AbortsOnlyOnTraps
<1>1. MachineInv => AbortsOnlyOnTraps
  BY DEF MachineInv
<1> QED
  BY <1>1, MachineInvariant, PTL

(* A call never touches what its callers hold below its arguments.         *)
THEOREM CallersKeepOperands ==
  ASSUME AllRunnable
  PROVE  Spec => CalleeKeepsCallerOperands
<1> DEFINE Keeps ==
      frames # <<>> =>
       LET held == Len(TypesOfCalls(Len(frames) - 1))
       IN  /\ Len(stack') >= held
           /\ SubSeq(stack', 1, held) = SubSeq(stack, 1, held)
<1>1. ASSUME MachineInv, [Next]_vars
      PROVE  [Keeps]_vars
  <2>1. CASE Next
    <3>1. Kept
      BY <1>1, <2>1, NextGood DEF Good
    <3>2. Keeps
      BY <1>1, <3>1, TypesOfCallsAre DEF Kept
    <3> QED
      BY <3>2
  <2> QED
    BY <1>1, <2>1
<1> HIDE DEF Keeps
<1>2. Spec => [][Keeps]_vars
  BY <1>1, MachineInvariant, PTL DEF Spec
<1> QED
  BY <1>2 DEF CalleeKeepsCallerOperands, Keeps
=============================================================================
