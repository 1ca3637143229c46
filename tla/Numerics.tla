-------------------------------- MODULE Numerics --------------------------------
(***************************************************************************)
(* The numeric instructions and conversions (src/runtime.cpp:222-638,      *)
(* include/bits.hpp): each handler is one action, and the loops of clz,    *)
(* ctz and popcnt take one iteration per step.                             *)
(*                                                                         *)
(* An integer is its residue modulo 2^w, w being W32 or W64.  A float is   *)
(* NaN, or a sign and a magnitude h counted in halves; Infinite is the     *)
(* magnitude of the infinities.  The type float keeps the P32 highest bits *)
(* of a magnitude, double P64 of them.  Sums, products, quotients and      *)
(* roots are the hardware's and are left out.  What C++ leaves undefined   *)
(* ends the model ("undefined").                                           *)
(***************************************************************************)
EXTENDS Integers, FiniteSets, FiniteSetsExt

CONSTANTS
  W32, W64,        \* bits of uint32_t and uint64_t
  P32, P64,        \* bits of the significands of float and double
  Words32, Words64,\* operands of the binary instructions
  Halves,          \* magnitudes of floats
  Infinite,
  NaN

ASSUME NumericsAssumption ==
  /\ W32 \in Nat \ {0} /\ W64 \in Nat \ 0..W32 /\ P32 \in Nat \ {0} /\ P64 \in Nat \ 0..P32
  /\ Words32 \subseteq 0..(2^W32 - 1) /\ Words64 \subseteq 0..(2^W64 - 1)
  /\ Halves \subseteq 0..(2^(W64 + 2) - 1) /\ Infinite \in Nat /\ Infinite >= 2^(W64 + 2)

DivRem      == {"div_s", "div_u", "rem_s", "rem_u"}
Shifts      == {"shl", "shr_s", "shr_u"}
Rotations   == {"rotl", "rotr"}
Compare     == {"eq", "ne", "lt_s", "lt_u", "gt_s", "gt_u", "le_s", "le_u", "ge_s", "ge_u"}
Binops      == {"add", "mul", "sub", "and", "or", "xor"} \cup DivRem \cup Shifts \cup Rotations \cup Compare
Counts      == {"clz", "ctz", "popcnt"}
FCompare    == {"eq", "ne", "lt", "gt", "le", "ge"}
FBinops     == {"min", "max", "copysign"} \cup FCompare
FUnops      == {"abs", "neg", "ceil", "floor", "trunc", "nearest"}

F(neg, h)  == [neg |-> neg, h |-> h]

(* A magnitude cut to p bits: to the nearest, of two to the even one.      *)
RoundTo(p, h) ==
  LET cut  == Min({k \in 0..(W64 + 1) : h < 2^(p + k)})
      unit == 2^cut
      q    == h \div unit
      up   == 2 * (h % unit) > unit \/ (2 * (h % unit) = unit /\ q % 2 = 1)
  IN  IF h = Infinite THEN h ELSE (q + IF up THEN 1 ELSE 0) * unit

Precision(w) == IF w = W32 THEN P32 ELSE P64
Narrowed(w, f) == IF f = NaN THEN f ELSE F(f.neg, RoundTo(Precision(w), f.h))

(* The floats of a width.                                                  *)
Floats(w) ==
  {NaN} \cup [neg : BOOLEAN, h : {h \in Halves \cup {Infinite} : RoundTo(Precision(w), h) = h}]

VARIABLES
  instr,     \* the instruction, with its operands
  x,         \* the variable x of the counting loops
  n,         \* their counter
  result,    \* its tag and value
  status

vars == <<instr, x, n, result, status>>

None == [t |-> "None", v |-> NaN]

Instrs ==
  [fn : {"binop"}, w : {W32}, op : Binops, a : Words32, b : Words32]
    \cup [fn : {"binop"}, w : {W64}, op : Binops, a : Words64, b : Words64]
    \cup [fn : {"unop"}, w : {W32}, op : {"eqz"} \cup Counts, a : Words32]
    \cup [fn : {"unop"}, w : {W64}, op : {"eqz"} \cup Counts, a : Words64]
    \cup UNION {[fn : {"fbinop"}, w : {w}, op : FBinops, a : Floats(w), b : Floats(w)]
                 \cup [fn : {"funop"}, w : {w}, op : FUnops, a : Floats(w)]
                 \cup [fn : {"trunc_s", "trunc_u"}, from : {w}, to : {W32, W64}, a : Floats(w)]
                   : w \in {W32, W64}}
    \cup [fn : {"extend_s", "extend_u"}, a : Words32]
    \cup [fn : {"wrap"}, a : Words64]
    \cup [fn : {"convert_s", "convert_u"}, from : {W32}, to : {W32, W64}, a : Words32]
    \cup [fn : {"convert_s", "convert_u"}, from : {W64}, to : {W32, W64}, a : Words64]
    \cup [fn : {"demote"}, a : Floats(W64)] \cup [fn : {"promote"}, a : Floats(W32)]

Init ==
  /\ instr \in Instrs
  /\ x = 0 /\ n = 0 /\ result = None
  /\ status = "ready"

Is(fn) == status = "ready" /\ instr.fn = fn
IsA(fn, w) == Is(fn) /\ instr.w = w

Stop(how)  == status' = how /\ UNCHANGED <<instr, x, n, result>>
Done(t, v) == status' = "done" /\ result' = [t |-> t, v |-> v] /\ UNCHANGED <<instr, x, n>>

-----------------------------------------------------------------------------
(* Integers.                                                               *)

\* Mistake: the cast to the signed type is left out.
AsUnsigned(w, v) == v

(* static_cast to the signed type, and back.                               *)
AsSigned(w, v) == IF v < 2^(w - 1) THEN v ELSE v - 2^w
Bool(p) == IF p THEN 1 ELSE 0
Abs(v)  == IF v < 0 THEN -v ELSE v

BitSet(w, v)   == {k \in 0..(w - 1) : (v \div 2^k) % 2 = 1}
OfBits(bits)   == MapThenSumSet(LAMBDA k : 2^k, bits)
BitOr(w, u, v) == OfBits(BitSet(w, u) \cup BitSet(w, v))

\* Mistake: the quotient is rounded down.
FloorQuotient(u, v) == (IF v > 0 THEN u ELSE -u) \div (IF v > 0 THEN v ELSE -v)

(* Division of C++: towards zero.                                          *)
Quotient(u, v) ==
  LET q == Abs(u) \div Abs(v) IN IF (u < 0) = (v < 0) THEN q ELSE -q

Compared(w, op, a, b) ==
  LET s == AsSigned(w, a)
      t == AsSigned(w, b)
  IN  CASE op = "eq" -> a = b    [] op = "ne" -> a # b
        [] op = "lt_u" -> a < b  [] op = "lt_s" -> s < t
        [] op = "gt_u" -> a > b  [] op = "gt_s" -> s > t
        [] op = "le_u" -> a <= b [] op = "le_s" -> s <= t
        [] op = "ge_u" -> a >= b [] op = "ge_s" -> s >= t

(* >> of an unsigned and of a signed number.                               *)
UnsignedShift(w, a, b) == a \div 2^b
SignedShift(w, a, b) == (AsSigned(w, a) \div 2^b) % 2^w

(* b & 0x3F, whatever the width.                                           *)
RotateCount(b) == b % W64

(* What an operator of C++ yields, where it is defined.                    *)
Computed(w, op, a, b) ==
  LET s == AsSigned(w, a)
      t == AsSigned(w, b)
      r == RotateCount(b)
      shl(k) == (a * 2^k) % 2^w
      shr(k) == a \div 2^k
  IN  CASE op = "add" -> (a + b) % 2^w
        [] op = "sub" -> (a - b) % 2^w
        [] op = "mul" -> (a * b) % 2^w
        [] op = "div_u" -> a \div b
        [] op = "rem_u" -> a % b
        [] op = "div_s" -> Quotient(s, t) % 2^w
        [] op = "rem_s" -> (s - t * Quotient(s, t)) % 2^w
        [] op = "and" -> OfBits(BitSet(w, a) \cap BitSet(w, b))
        [] op = "or"  -> BitOr(w, a, b)
        [] op = "xor" -> OfBits((BitSet(w, a) \cup BitSet(w, b)) \ (BitSet(w, a) \cap BitSet(w, b)))
        [] op = "shl" -> shl(b)
        [] op = "shr_u" -> shr(b)
        [] op = "shr_s" -> SignedShift(w, a, b)
        [] op = "rotl" -> BitOr(w, shl(r), shr(w - r))
        [] op = "rotr" -> BitOr(w, shr(r), shl(w - r))
        [] op \in Compare -> Bool(Compared(w, op, a, b))

(* INT_MIN / -1 and INT_MIN % -1, and counts that are not below the width. *)
IsUndefined(w, op, a, b) ==
  \/ op \in {"div_s", "rem_s"} /\ a = 2^(w - 1) /\ b = 2^w - 1
  \/ op \in Shifts /\ b >= w
  \/ op \in Rotations /\ RotateCount(b) \notin 1..(w - 1)

DividesByZero(op, b) == op \in DivRem /\ b = 0

BinopI32 ==
  LET op == instr.op
  IN  /\ IsA("binop", W32)
      /\ IF DividesByZero(op, instr.b) THEN Stop("aborted")
         ELSE IF IsUndefined(W32, op, instr.a, instr.b) THEN Stop("undefined")
         ELSE Done("I32", Computed(W32, op, instr.a, instr.b))

(* The comparisons write the low half of a result that is not initialized; *)
(* gt_s has two cases and lt_u none; shr_s shifts unsigned numbers.        *)
BinopI64 ==
  LET op == instr.op
  IN  /\ IsA("binop", W64)
      /\ IF DividesByZero(op, instr.b) \/ op = "lt_u" THEN Stop("aborted")
         ELSE IF IsUndefined(W64, op, instr.a, instr.b) THEN Stop("undefined")
         ELSE \E high \in 0..(2^(W64 - W32) - 1) :
                CASE op \in Compare -> Done("I64", Bool(Compared(W64, op, instr.a, instr.b)) + high * 2^W32)
                  [] op = "shr_s"   -> Done("I64", UnsignedShift(W64, instr.a, instr.b))
                  [] OTHER          -> Done("I64", Computed(W64, op, instr.a, instr.b))

(* The unary instructions: clz and ctz know 0, popcnt has a loop for it.   *)
Unop(w, tag) ==
  /\ IsA("unop", w)
  /\ CASE instr.op = "eqz" -> Done(tag, Bool(instr.a = 0))
       [] instr.op \in {"clz", "ctz"} /\ instr.a = 0 -> Done(tag, w)
       [] OTHER -> status' = "counting" /\ x' = instr.a /\ n' = 0 /\ UNCHANGED <<instr, result>>

UnopI32 == Unop(W32, "I32")
UnopI64 == Unop(W64, "I64")

Return == Done(IF instr.w = W32 THEN "I32" ELSE "I64", n)
Iterate(y, m) == x' = y /\ n' = m /\ UNCHANGED <<instr, result, status>>

Counting(op) == status = "counting" /\ instr.op = op

(* The highest bit looked at is W - 1 - n.                                 *)
Clz ==
  /\ Counting("clz")
  /\ IF instr.w - 1 - n \in BitSet(instr.w, x) THEN Return ELSE Iterate(x, n + 1)

\* Mistake: the number is not shifted.
CtzInPlace ==
  /\ Counting("ctz")
  /\ IF x % 2 = 1 THEN Return ELSE Iterate(x, IF n < W64 THEN n + 1 ELSE n)

Ctz ==
  /\ Counting("ctz")
  /\ IF x % 2 = 1 THEN Return ELSE Iterate(x \div 2, n + 1)

Popcnt ==
  /\ Counting("popcnt")
  /\ IF x = 0 THEN Return ELSE Iterate(x \div 2, n + (x % 2))

-----------------------------------------------------------------------------
(* Floats.                                                                 *)

Amount(f)   == IF f.neg THEN -f.h ELSE f.h
IsNaN(f)    == f = NaN
Less(f, g)  == ~IsNaN(f) /\ ~IsNaN(g) /\ Amount(f) < Amount(g)
Equal(f, g) == ~IsNaN(f) /\ ~IsNaN(g) /\ Amount(f) = Amount(g)

(* std::min and std::max: the first operand, unless the second is better.  *)
StdMin(f, g) == IF Less(g, f) THEN g ELSE f
StdMax(f, g) == IF Less(f, g) THEN g ELSE f

\* Mistake: at most is not more, whatever the operands.
ComparedByNegation(op, f, g) ==
  CASE op = "eq" -> Equal(f, g)  [] op = "ne" -> ~Equal(f, g)
    [] op = "lt" -> Less(f, g)   [] op = "gt" -> Less(g, f)
    [] op = "le" -> ~Less(g, f)  [] op = "ge" -> ~Less(f, g)

FCompared(op, f, g) ==
  CASE op = "eq" -> Equal(f, g) [] op = "ne" -> ~Equal(f, g)
    [] op = "lt" -> Less(f, g)  [] op = "gt" -> Less(g, f)
    [] op = "le" -> Less(f, g) \/ Equal(f, g)
    [] op = "ge" -> Less(g, f) \/ Equal(f, g)

(* The sign of a NaN is not kept in the model: it is any.                  *)
Signs(f) == IF IsNaN(f) THEN BOOLEAN ELSE {f.neg}

FComputed(op, f, g, neg) ==
  CASE op = "min" -> StdMin(f, g)
    [] op = "max" -> StdMax(f, g)
    [] op = "copysign" -> IF IsNaN(f) THEN f ELSE F(neg, f.h)

(* The tag of a comparison is that of an integer as wide as the floats.    *)
FBinop(w, tag, ctag) ==
  /\ IsA("fbinop", w)
  /\ IF instr.op \in FCompare THEN Done(ctag, Bool(FCompared(instr.op, instr.a, instr.b)))
     ELSE \E neg \in Signs(instr.b) : Done(tag, FComputed(instr.op, instr.a, instr.b, neg))

FBinopF32 == FBinop(W32, "F32", "I32")
FBinopF64 == FBinop(W64, "F64", "I64")

(* Whole magnitudes are the even ones.                                     *)
Down(f) == IF f.h = Infinite THEN f ELSE F(f.neg, f.h - (f.h % 2))
Up(f)   == IF f.h = Infinite THEN f ELSE F(f.neg, f.h + (f.h % 2))
\* Mistake: halves are rounded away from zero.
RoundAway(f) == Up(f)
Rint(f) == IF f.h = Infinite THEN f ELSE F(f.neg, 2 * ((f.h + Bool(f.h % 4 = 3)) \div 2))

FUnopOf(op, f) ==
  IF IsNaN(f) THEN f
  ELSE CASE op = "abs"     -> F(FALSE, f.h)
         [] op = "neg"     -> F(~f.neg, f.h)
         [] op = "ceil"    -> IF f.neg THEN Down(f) ELSE Up(f)
         [] op = "floor"   -> IF f.neg THEN Up(f) ELSE Down(f)
         [] op = "trunc"   -> Down(f)
         [] op = "nearest" -> Rint(f)

FUnopF32 == IsA("funop", W32) /\ Done("F32", FUnopOf(instr.op, instr.a))

(* rintf takes a float: a double is narrowed first.                        *)
FUnopF64 ==
  /\ IsA("funop", W64)
  /\ Done("F64", FUnopOf(instr.op, IF instr.op = "nearest" THEN Narrowed(W32, instr.a) ELSE instr.a))

-----------------------------------------------------------------------------
(* Conversions.                                                            *)

Extended(a) == AsSigned(W32, a) % 2^W64

Wrap   == Is("wrap") /\ Done("I32", instr.a % 2^W32)
Extend == \/ Is("extend_s") /\ Done("I64", Extended(instr.a))
          \/ Is("extend_u") /\ Done("I64", instr.a)

FTag(w) == IF w = W32 THEN "F32" ELSE "F64"
Convert ==
  LET v == IF instr.fn = "convert_s" THEN AsSigned(instr.from, instr.a) ELSE instr.a
  IN  /\ Is("convert_s") \/ Is("convert_u")
      /\ Done(FTag(instr.to), Narrowed(instr.to, F(v < 0, 2 * Abs(v))))

Demote  == Is("demote") /\ Done("F32", Narrowed(W32, instr.a))
Promote == Is("promote") /\ Done("F64", instr.a)

(* Whether a whole float has a place in int64_t or uint64_t.               *)
Fits64(signed, v) == IF signed THEN v \in -(2^(W64 - 1))..(2^(W64 - 1) - 1) ELSE v \in 0..(2^W64 - 1)

(* Floats are cast to 64 bits, and then cut to the type that is asked for. *)
Truncate ==
  LET v == Amount(Down(instr.a)) \div 2
  IN  /\ Is("trunc_s") \/ Is("trunc_u")
      /\ IF IsNaN(instr.a) THEN Stop("undefined")
         ELSE IF instr.a.h = Infinite \/ ~Fits64(instr.fn = "trunc_s", v) THEN Stop("undefined")
         ELSE Done(IF instr.to = W32 THEN "I32" ELSE "I64", v % 2^instr.to)

Next ==
  \/ BinopI32 \/ BinopI64 \/ UnopI32 \/ UnopI64 \/ Clz \/ Ctz \/ Popcnt
  \/ FBinopF32 \/ FBinopF64 \/ FUnopF32 \/ FUnopF64
  \/ Wrap \/ Extend \/ Convert \/ Demote \/ Promote \/ Truncate

(* A handler runs to its end: sequential code.                             *)
Spec == Init /\ [][Next]_vars /\ WF_vars(Next)
=============================================================================
