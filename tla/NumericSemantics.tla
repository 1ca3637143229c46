---------------------------- MODULE NumericSemantics ----------------------------
(***************************************************************************)
(* What the numeric instructions should yield, by the specification that   *)
(* src/runtime.cpp:796-797 names, and how far module Numerics agrees.      *)
(* Results are described by what is true of them, bit by bit or by         *)
(* inequalities, and not by how the code computes them.                    *)
(***************************************************************************)
EXTENDS Numerics

(* v is what op makes of a and b, where it makes anything.                 *)
Bit(v, k) == (v \div 2^k) % 2

IsBinop(w, op, a, b, v) ==
  LET s     == AsSigned(w, a)
      t     == AsSigned(w, b)
      c     == b % w
      bits(f(_)) == \A k \in 0..(w - 1) : Bit(v, k) = f(k)
      mod(u) == (v - u) % 2^w = 0
      rest(q) == s - q * t
  IN  /\ v \in 0..(2^w - 1)
      /\ CASE op = "add" -> mod(a + b) [] op = "sub" -> mod(a - b) [] op = "mul" -> mod(a * b)
           [] op = "div_u" -> a - v * b \in 0..(b - 1)
           [] op = "rem_u" -> v < b /\ \E q \in 0..a : a = q * b + v
           [] op = "div_s" -> LET q == AsSigned(w, v)
                              IN  Abs(rest(q)) < Abs(t) /\ (rest(q) # 0 => (rest(q) < 0) = (s < 0))
           [] op = "rem_s" -> LET r == AsSigned(w, v)
                              IN  /\ Abs(r) < Abs(t) /\ (r # 0 => (r < 0) = (s < 0))
                                  /\ \E q \in -(2^w)..(2^w) : s = q * t + r
           [] op = "and" -> bits(LAMBDA k : Bit(a, k) * Bit(b, k))
           [] op = "or"  -> bits(LAMBDA k : Max({Bit(a, k), Bit(b, k)}))
           [] op = "xor" -> bits(LAMBDA k : (Bit(a, k) + Bit(b, k)) % 2)
           [] op = "shl" -> bits(LAMBDA k : IF k < c THEN 0 ELSE Bit(a, k - c))
           [] op = "shr_u" -> bits(LAMBDA k : IF k + c < w THEN Bit(a, k + c) ELSE 0)
           [] op = "shr_s" -> bits(LAMBDA k : Bit(a, Min({k + c, w - 1})))
           [] op = "rotl" -> bits(LAMBDA k : Bit(a, (k - c) % w))
           [] op = "rotr" -> bits(LAMBDA k : Bit(a, (k + c) % w))

Traps(w, op, a, b) ==
  op \in DivRem /\ (b = 0 \/ (op = "div_s" /\ a = 2^(w - 1) /\ b = 2^w - 1))

IsUnop(w, op, a, v) ==
  CASE op = "eqz" -> v = Bool(a = 0)
    [] op = "clz" -> v \in 0..w /\ (\A k \in (w - v)..(w - 1) : Bit(a, k) = 0) /\ (v < w => Bit(a, w - 1 - v) = 1)
    [] op = "ctz" -> v \in 0..w /\ (\A k \in 0..(v - 1) : Bit(a, k) = 0) /\ (v < w => Bit(a, v) = 1)
    [] op = "popcnt" -> v = Cardinality({k \in 0..(w - 1) : Bit(a, k) = 1})

(* Minimum and maximum: NaN if there is one, and -0 is below +0.           *)
LeastOf(f, g) ==
  IF f = NaN \/ g = NaN THEN NaN
  ELSE CHOOSE m \in {f, g} :
         \A o \in {f, g} : Amount(m) < Amount(o) \/ (Amount(m) = Amount(o) /\ (o.neg => m.neg))
Negated(f) == IF f = NaN THEN f ELSE F(~f.neg, f.h)

(* r is the float of a precision nearest to a magnitude, of two the one    *)
(* whose significand ends in 0.                                            *)
Representable(p, h) == h = Infinite \/ \E e \in 0..(W64 + 1) : h % 2^e = 0 /\ h \div 2^e < 2^p
IsNearest(p, h, r) ==
  /\ Representable(p, r)
  /\ \A s \in 0..(2 * h) :
       Representable(p, s) => \/ Abs(r - h) < Abs(s - h)
                              \/ r = s
                              \/ Abs(r - h) = Abs(s - h) /\ Representable(p - 1, r)

(* r is f rounded to a whole number in some direction.                     *)
IsRounded(op, f, r) ==
  /\ r.neg = f.neg
  /\ IF f.h = Infinite THEN r.h = Infinite
     ELSE /\ r.h % 2 = 0
          /\ CASE op = "ceil"  -> Amount(r) - Amount(f) \in 0..1
               [] op = "floor" -> Amount(f) - Amount(r) \in 0..1
               [] op = "trunc" -> f.h - r.h \in 0..1
               [] op = "nearest" -> Abs(f.h - r.h) <= 1 /\ (f.h % 2 = 1 => r.h % 4 = 0)

-----------------------------------------------------------------------------
(* Properties.                                                             *)

Value == result.v
IsDone == status = "done"
Integer64Compare == instr.fn = "binop" /\ instr.w = W64 /\ instr.op \in Compare

TypeOK ==
  /\ x \in 0..(2^W64 - 1) /\ n \in 0..W64
  /\ status \in {"ready", "counting", "done", "aborted", "undefined"}
  /\ status = "counting" => x <= instr.a
  /\ IsDone =>
       CASE result.t = "I32" -> Value \in 0..(2^W32 - 1)
         [] result.t = "I64" -> Value \in 0..(2^W64 - 1)
         [] OTHER -> Value = NaN \/ Narrowed(IF result.t = "F32" THEN W32 ELSE W64, Value) = Value

(* An integer instruction that does not trap yields what the specification *)
(* says, but for counts that C++ has no shift by, the remainder by -1 of   *)
(* the least number, and i64.shr_s of a negative one: zeros are shifted in.*)
HasShift(w, op, b) == (op \in Shifts => b < w) /\ (op \in Rotations => b % W64 \in 1..(w - 1))
Overflows(w, op, a, b) == op \in {"div_s", "rem_s"} /\ a = 2^(w - 1) /\ AsSigned(w, b) = -1

BinopsAsSpecified ==
  status # "ready" /\ instr.fn = "binop" /\ instr.op \notin Compare =>
    /\ /\ HasShift(instr.w, instr.op, instr.b)
       /\ ~Overflows(instr.w, instr.op, instr.a, instr.b) /\ ~Traps(instr.w, instr.op, instr.a, instr.b)
       => IsDone
    /\ IsDone =>
         IF instr.w = W64 /\ instr.op = "shr_s" /\ instr.a >= 2^(W64 - 1)
         THEN IsBinop(W64, "shr_u", instr.a, instr.b, Value)
         ELSE IsBinop(instr.w, instr.op, instr.a, instr.b, Value)

(* What if, select and br_if look at is right in every comparison of       *)
(* integers: the low half, whatever is in the high half of the result of   *)
(* an i64 comparison.                                                      *)
IntegersDecide ==
  IsDone /\ instr.fn = "binop" /\ instr.op \in Compare =>
    LET sign(v) == (v + 2^(instr.w - 1)) % 2^instr.w
        order(a, b) == CASE instr.op \in {"lt_s", "lt_u"} -> a < b [] instr.op \in {"gt_s", "gt_u"} -> b < a
                         [] instr.op \in {"le_s", "le_u"} -> ~(b < a) [] instr.op \in {"ge_s", "ge_u"} -> ~(a < b)
                         [] instr.op = "eq" -> a = b [] instr.op = "ne" -> a # b
    IN  Value % 2^W32 =
          Bool(IF instr.op \in {"lt_s", "gt_s", "le_s", "ge_s"}
               THEN order(sign(instr.a), sign(instr.b)) ELSE order(instr.a, instr.b))

(* A comparison of floats is decided by their signs first, zeros being     *)
(* equal, and fails if there is a NaN, except that NaN is unequal to all.  *)
FloatsDecide ==
  IsDone /\ instr.fn = "fbinop" /\ instr.op \in FCompare =>
    LET precedes(f, g) == \/ f.neg /\ ~g.neg /\ {f.h, g.h} # {0}
                          \/ ~f.neg /\ ~g.neg /\ f.h < g.h
                          \/ f.neg /\ g.neg /\ g.h < f.h
        same(f, g) == f = g \/ {f.h, g.h} = {0}
        holds(f, g) ==
          CASE instr.op = "eq" -> same(f, g)     [] instr.op = "ne" -> ~same(f, g)
            [] instr.op = "lt" -> precedes(f, g) [] instr.op = "le" -> precedes(f, g) \/ same(f, g)
            [] instr.op = "gt" -> precedes(g, f) [] instr.op = "ge" -> precedes(g, f) \/ same(f, g)
    IN  Value = Bool(IF NaN \in {instr.a, instr.b} THEN instr.op = "ne" ELSE holds(instr.a, instr.b))

(* Every comparison decides as it should.                                  *)
ComparisonsDecide == IntegersDecide /\ FloatsDecide

(* The process ends on an assert where the specification traps, and where  *)
(* i64.lt_u has no case; a trap never yields a result.                     *)
AbortsAreTraps ==
  /\ status = "aborted" =>
       instr.fn = "binop" /\ (Traps(instr.w, instr.op, instr.a, instr.b) \/ (instr.w = W64 /\ instr.op = "lt_u"))
  /\ instr.fn = "binop" /\ Traps(instr.w, instr.op, instr.a, instr.b) => ~IsDone

(* Counting zeros and ones comes to what the bits say, 0 included.         *)
CountsAsSpecified == IsDone /\ instr.fn = "unop" => IsUnop(instr.w, instr.op, instr.a, Value)

(* The integer instructions, with their traps.                             *)
IntegersAsSpecified == TypeOK /\ BinopsAsSpecified /\ AbortsAreTraps /\ CountsAsSpecified

(* Minima and maxima are those of the specification, unless the second     *)
(* operand alone is NaN, or both are zeros: then the first one is taken.   *)
MinMaxAsSpecified ==
  IsDone /\ instr.fn = "fbinop" /\ instr.op \in {"min", "max"} =>
    IF (instr.a # NaN /\ instr.b = NaN) \/ (instr.a # NaN /\ instr.b # NaN /\ instr.a.h = 0 /\ instr.b.h = 0)
    THEN Value = instr.a
    ELSE Value = IF instr.op = "min" THEN LeastOf(instr.a, instr.b)
                 ELSE Negated(LeastOf(Negated(instr.a), Negated(instr.b)))

(* What is only about signs leaves magnitudes and NaN alone, and yields    *)
(* the number or its negation, zeros included: abs the one that is not     *)
(* below zero, neg the other one, copysign the one with the sign of b.     *)
SignsAsSpecified ==
  IsDone /\ instr.fn \in {"funop", "fbinop"} /\ instr.op \in {"abs", "neg", "copysign"} =>
    IF instr.a = NaN THEN Value = NaN
    ELSE /\ Value \in {instr.a, Negated(instr.a)}
         /\ instr.op = "abs" => ~Value.neg
         /\ instr.op = "neg" => Value # instr.a
         /\ instr.op = "copysign" /\ instr.b # NaN => Value.neg = instr.b.neg

(* Rounding yields the whole number asked for, ties of nearest going to    *)
(* the even one; f64.nearest does so of the number narrowed to a float.    *)
RoundsAsSpecified ==
  IsDone /\ instr.fn = "funop" /\ instr.op \in {"ceil", "floor", "trunc", "nearest"} /\ instr.a # NaN =>
    \/ IsRounded(instr.op, instr.a, Value)
    \/ /\ instr.w = W64 /\ instr.op = "nearest" /\ ~Representable(P32, instr.a.h)
       /\ \E r \in Halves : IsNearest(P32, instr.a.h, r) /\ IsRounded("nearest", F(instr.a.neg, r), Value)

(* Integers are widened and cut bit by bit; they are converted to the      *)
(* nearest float, and so are doubles, while a float is itself as a double. *)
(* A float that lies in the range of the integer asked for is cut to a     *)
(* whole number.  Others are no traps: they wrap around or are undefined.  *)
ConversionsAsSpecified ==
  /\ IsDone /\ instr.fn = "convert_s" =>
       IsNearest(Precision(instr.to), 2 * Abs(AsSigned(instr.from, instr.a)), Value.h)
         /\ (Value.neg <=> instr.a >= 2^(instr.from - 1))
  /\ IsDone /\ instr.fn = "convert_u" => IsNearest(Precision(instr.to), 2 * instr.a, Value.h) /\ ~Value.neg
  /\ IsDone /\ instr.fn \in {"demote", "promote"} =>
       IF instr.a = NaN THEN Value = NaN
       ELSE /\ Value.neg = instr.a.neg
            /\ IsNearest(IF instr.fn = "demote" THEN P32 ELSE P64, instr.a.h, Value.h)
            /\ instr.fn = "promote" => Value.h = instr.a.h
  /\ IsDone /\ instr.fn \in {"wrap", "extend_u"} =>
       \A k \in 0..(W64 - 1) : Bit(Value, k) = IF k < W32 THEN Bit(instr.a, k) ELSE 0
  /\ IsDone /\ instr.fn = "extend_s" => AsSigned(W64, Value) = AsSigned(W32, instr.a)
  /\ status # "ready" /\ instr.fn \in {"trunc_s", "trunc_u"} /\ instr.a # NaN /\ instr.a.h # Infinite =>
       \A v \in IF instr.fn = "trunc_u" THEN 0..(2^instr.to - 1) ELSE -(2^(instr.to - 1))..(2^(instr.to - 1) - 1) :
         IsRounded("trunc", instr.a, F(instr.a.neg, 2 * Abs(v))) /\ (v # 0 => (v < 0) = instr.a.neg)
           => IsDone /\ (Value - v) % 2^instr.to = 0

(* Floats, and the ways from and to them.                                  *)
FloatsAsSpecified == MinMaxAsSpecified /\ SignsAsSpecified /\ RoundsAsSpecified /\ ConversionsAsSpecified

(* The loops over the bits end.                                            *)
HandlersEnd == <>(status \notin {"ready", "counting"})
=============================================================================
