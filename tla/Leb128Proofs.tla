------------------------------ MODULE Leb128Proofs ------------------------------
(***************************************************************************)
(* For all inputs and all widths: the LEB128 loops consume exactly one     *)
(* integer, compute what module Readers says, and invert the encodings of  *)
(* the binary format.                                                      *)
(***************************************************************************)
EXTENDS Leb128, InstructionTheorems

(* All bytes before the pointer continue, except the one that made the     *)
(* loop end.                                                               *)
CollectInv ==
  /\ input \in Seq(Nat)
  /\ ptr \in 1..(Len(input) + 1)
  /\ phase = "collect" => \A q \in 1..(ptr - 1) : Continues(input[q])
  /\ phase \in {"combine", "done", "undefined"} =>
       /\ \A q \in 1..(ptr - 2) : Continues(input[q])
       /\ ptr = Len(input) + 1 \/ (ptr > 1 /\ ~Continues(input[ptr - 1]))
  /\ phase \in {"collect", "combine", "done", "undefined"}

(* The loop reaches the position Behind names.                             *)
LEMMA CollectedOne ==
  ASSUME CollectInv, phase \in {"combine", "done", "undefined"}
  PROVE  ptr = Behind(input, 1)
<1> DEFINE S == {q \in 1..Len(input) : ~Continues(input[q])} \cup {Len(input)}
<1>1. S \in SUBSET Int /\ ptr - 1 \in Int /\ Len(input) \in Nat
  BY DEF CollectInv
<1>2. ptr - 1 \in S
  BY DEF CollectInv
<1>3. \A x \in S : ptr - 1 <= x
  BY DEF CollectInv
<1>4. Min(S) = ptr - 1
  <2> HIDE DEF S
  <2> QED BY <1>1, <1>2, <1>3, MinIs
<1>5. Behind(input, 1) = Min(S) + 1
  BY DEF Behind
<1> QED
  <2> HIDE DEF S
  <2> QED BY <1>1, <1>4, <1>5 DEF CollectInv

-----------------------------------------------------------------------------
(* The widths.                                                             *)

(* Widths and moduli are positive, and shifts are as wide as the type at   *)
(* least.                                                                  *)
LEMMA WidthType ==
  ASSUME NEW k \in Kinds
  PROVE  /\ Width(k) \in Nat \ {0} /\ ShiftWidth(k) \in Nat \ {0} /\ Width(k) <= ShiftWidth(k)
         /\ Modulus(k) \in Nat \ {0}
<1>1. Width(k) \in Nat \ {0} /\ ShiftWidth(k) \in Nat \ {0} /\ Width(k) <= ShiftWidth(k)
  BY ReadersAssumption DEF Kinds, Signed, Width, ShiftWidth
<1>2. Modulus(k) \in Nat \ {0}
  BY <1>1, PowerPositive DEF Modulus
<1> QED
  BY <1>1, <1>2

(* A byte's payload is below the weight of its continuation bit.           *)
LEMMA BitsType ==
  ASSUME NEW b \in Nat
  PROVE  Carry \in Nat \ {0} /\ Bits(b) \in 0..(Carry - 1)
<1>1. Carry \in Nat \ {0}
  BY ReadersAssumption, PowerPositive DEF Carry
<1> QED
  BY <1>1, DivMod DEF Bits

(* The weight of block k, from 0, and of the one after it.                 *)
LEMMA WeightStep ==
  ASSUME NEW k \in Nat
  PROVE  /\ Payload * k \in Nat /\ Payload * (k + 1) = Payload * k + Payload
         /\ Power(2, Payload * k) \in Nat \ {0}
         /\ Power(2, Payload * (k + 1)) = Carry * Power(2, Payload * k)
<1>1. Payload \in Nat /\ Payload * k \in Nat /\ Payload * (k + 1) = Payload * k + Payload
  BY ReadersAssumption
<1>2. Power(2, Payload * k + Payload) = Power(2, Payload * k) * Power(2, Payload)
  BY <1>1, PowerPlus
<1>3. Power(2, Payload * k) \in Nat \ {0} /\ Power(2, Payload) \in Nat \ {0}
  BY <1>1, PowerPositive
<1>4. \A x, y \in Nat : x * y = y * x
  OBVIOUS
<1> QED
  BY <1>1, <1>2, <1>3, <1>4 DEF Carry

-----------------------------------------------------------------------------
(* The number the blocks make.                                             *)

(* There are n bytes from p on.                                            *)
HasBytes(bytes, p, n) == p \in Nat /\ n \in Nat /\ \A k \in 1..n : bytes[p + k - 1] \in Nat

(* No blocks.                                                              *)
LEMMA UnsignedEmpty ==
  ASSUME NEW bytes, NEW p
  PROVE  Unsigned(bytes, p, 0) = 0
<1> DEFINE F == [k \in 1..0 |-> Bits(bytes[p + k - 1]) * Power(2, Payload * (k - 1))]
<1>1. FirstTerms(F, 0) = F
  BY DEF FirstTerms
<1>2. Unsigned(bytes, p, 0) = SumOf(F)
  BY DEF Unsigned
<1> HIDE DEF F
<1> QED
  BY <1>1, <1>2, SumEmpty

(* One block more.                                                         *)
LEMMA UnsignedStep ==
  ASSUME NEW bytes, NEW p, NEW n \in Nat, HasBytes(bytes, p, n + 1)
  PROVE  /\ Unsigned(bytes, p, n) \in Int
         /\ Unsigned(bytes, p, n + 1)
              = Unsigned(bytes, p, n) + Bits(bytes[p + n]) * Power(2, Payload * n)
<1> DEFINE F == [k \in 1..(n + 1) |-> Bits(bytes[p + k - 1]) * Power(2, Payload * (k - 1))]
<1>1. ASSUME NEW m \in 0..(n + 1) PROVE Unsigned(bytes, p, m) = SumOf(FirstTerms(F, m))
  <2>1. \A k \in 1..m : F[k] = Bits(bytes[p + k - 1]) * Power(2, Payload * (k - 1))
    OBVIOUS
  <2> HIDE DEF F
  <2> QED
    BY <2>1 DEF Unsigned, FirstTerms
<1>2. Terms(F, n + 1)
  <2>1. ASSUME NEW k \in 1..(n + 1) PROVE F[k] \in Int
    <3>1. Bits(bytes[p + k - 1]) \in Int
      BY BitsType DEF HasBytes
    <3>2. Power(2, Payload * (k - 1)) \in Int
      BY WeightStep, k - 1 \in Nat
    <3> QED
      BY <3>1, <3>2
  <2> QED
    BY <2>1 DEF Terms
<1>3. F[n + 1] = Bits(bytes[p + n]) * Power(2, Payload * n)
  <2>1. p + (n + 1) - 1 = p + n /\ (n + 1) - 1 = n /\ n + 1 \in 1..(n + 1)
    BY DEF HasBytes
  <2> QED
    BY <2>1
<1> HIDE DEF F
<1> QED
  BY <1>1, <1>2, <1>3, SumStep

(* The blocks occupy the bits below the next block.                        *)
LEMMA UnsignedRange ==
  ASSUME NEW bytes, NEW p, NEW n \in Nat, HasBytes(bytes, p, n)
  PROVE  Unsigned(bytes, p, n) \in 0..(Power(2, Payload * n) - 1)
<1> DEFINE S == {k \in Nat : k <= n => Unsigned(bytes, p, k) \in 0..(Power(2, Payload * k) - 1)}
<1>1. 0 \in S
  <2>2. Unsigned(bytes, p, 0) = 0
    BY UnsignedEmpty
  <2>3. Power(2, Payload * 0) = 1
    BY PowerStep, ReadersAssumption
  <2> QED
    BY <2>2, <2>3
<1>2. ASSUME NEW k \in Nat, k \in S PROVE k + 1 \in S
  <2> SUFFICES ASSUME k + 1 <= n
               PROVE  Unsigned(bytes, p, k + 1) \in 0..(Power(2, Payload * (k + 1)) - 1)
    OBVIOUS
  <2> DEFINE u == Unsigned(bytes, p, k)
             b == Bits(bytes[p + k])
             w == Power(2, Payload * k)
  <2>1. u \in 0..(w - 1)
    BY <1>2
  <2>2. HasBytes(bytes, p, k + 1)
    <3>1. \A j \in 1..(k + 1) : j \in 1..n
      BY DEF HasBytes
    <3> QED
      BY <3>1 DEF HasBytes
  <2>3. Unsigned(bytes, p, k + 1) = u + b * w
    BY <2>2, UnsignedStep
  <2>4. b \in 0..(Carry - 1) /\ Carry \in Nat
    <3>1. bytes[p + (k + 1) - 1] \in Nat /\ p + (k + 1) - 1 = p + k
      BY <2>2 DEF HasBytes
    <3> QED
      BY <3>1, BitsType
  <2>5. w \in Nat \ {0} /\ Power(2, Payload * (k + 1)) = Carry * w
    BY WeightStep
  <2>6. \A c, x, y, z \in Nat : x < z /\ y < c => x + y * z \in 0..(c * z - 1)
    <3> SUFFICES ASSUME NEW c \in Nat, NEW x \in Nat, NEW y \in Nat, NEW z \in Nat, x < z, y < c
                 PROVE  x + y * z \in 0..(c * z - 1)
      OBVIOUS
    <3>1. y * z \in Nat /\ c * z \in Nat /\ (y + 1) * z <= c * z /\ (y + 1) * z = y * z + z
      OBVIOUS
    <3> QED
      BY <3>1
  <2> HIDE DEF u, b, w
  <2>7. u \in Nat /\ b \in Nat /\ w \in Nat /\ u < w /\ b < Carry
    BY <2>1, <2>4, <2>5
  <2>8. u + b * w \in 0..(Carry * w - 1)
    BY <2>4, <2>6, <2>7
  <2> QED
    BY <2>3, <2>5, <2>8
<1>3. Nat \subseteq S
  <2> HIDE DEF S
  <2> QED
    BY <1>1, <1>2, Induction
<1> QED
  BY <1>3

-----------------------------------------------------------------------------
(* The loops.                                                              *)

(* A byte of the input.                                                    *)
LEMMA InputBytes ==
  ASSUME input \in Inputs
  PROVE  /\ input \in Seq(Nat) /\ Len(input) \in Nat
         /\ \A n \in 0..Len(input) : HasBytes(input, 1, n)
<1>1. input \in Seq(Nat) /\ Len(input) \in Nat
  BY InputsAssumption
<1>2. \A k \in 1..Len(input) : input[k] \in Nat
  BY <1>1
<1> QED
  BY <1>1, <1>2 DEF HasBytes

(* What the second loop has shifted together, and how it ends.             *)
CombineInv ==
  /\ i \in 1..ptr /\ shift = Payload * (i - 1)
  /\ i > 1 => Payload * (i - 2) < ShiftWidth(kind)
  /\ phase = "collect" => i = 1
  /\ phase \in {"collect", "combine"} => result = Unsigned(input, 1, i - 1) % Modulus(kind)
  /\ phase = "done" =>
       /\ i = ptr
       /\ ptr = 1 => kind \notin Signed /\ result = 0
       /\ ptr > 1 => result = (Unsigned(input, 1, ptr - 1)
                                + Extension(kind, input[ptr - 1], shift)) % Modulus(kind)
  /\ phase = "undefined" => (i < ptr /\ shift >= ShiftWidth(kind)) \/ (ptr = 1 /\ kind \in Signed)

LoopInv == TypeOK /\ CollectInv /\ CombineInv

(* The last two numbers added do not overlap, so nothing is lost.          *)
LEMMA ExtensionFits ==
  ASSUME NEW k \in Kinds, NEW n \in Nat, NEW u \in 0..(Power(2, n) - 1), NEW b
  PROVE  /\ Extension(k, b, n) \in Nat
         /\ (u % Modulus(k)) + Extension(k, b, n) \in 0..(Modulus(k) - 1)
         /\ (u + Extension(k, b, n)) % Modulus(k) = (u % Modulus(k)) + Extension(k, b, n)
<1> DEFINE m == Modulus(k)
           e == Extension(k, b, n)
<1>1. m \in Nat \ {0} /\ Width(k) \in Nat
  BY WidthType
<1>2. u \in Nat /\ (u % m) \in 0..(m - 1)
  <2>1. Power(2, n) \in Nat
    BY PowerPositive
  <2>2. u \in Nat
    BY <2>1
  <2>3. (u % m) \in 0..(m - 1)
    <3> HIDE DEF m
    <3>1. u \in Int /\ m \in Nat \ {0}
      BY <1>1, <2>2
    <3> QED
      BY <3>1, DivMod
  <2> QED
    BY <2>2, <2>3
<1>3. CASE e = 0
  BY <1>1, <1>2, <1>3
<1>4. CASE e # 0
  <2>1. n < Width(k) /\ e = m - Power(2, n)
    BY <1>4 DEF Extension
  <2>2. Power(2, n) \in Nat \ {0} /\ Power(2, n) <= m
    BY <1>1, <2>1, PowerPositive, PowerMonotone DEF Modulus
  <2>3. u < m /\ e \in Nat /\ u + e \in 0..(m - 1)
    BY <1>1, <1>2, <2>1, <2>2
  <2>4. u \in 0..(m - 1)
    BY <1>1, <1>2, <2>3
  <2>5. u % m = u /\ (u + e) % m = u + e
    <3> HIDE DEF m, e
    <3> QED
      BY <1>1, <2>3, <2>4, ModSmall
  <2> QED
    BY <2>3, <2>5
<1> QED
  BY <1>3, <1>4

(* The loops start in their invariant.                                     *)
LEMMA InitLoop == Init => LoopInv
<1> SUFFICES ASSUME Init PROVE LoopInv
  OBVIOUS
<1>1. input \in Seq(Nat) /\ Len(input) \in Nat /\ kind \in Kinds
  BY InputsAssumption DEF Init
<1>2. Modulus(kind) \in Nat \ {0} /\ Payload \in Nat
  BY <1>1, WidthType, ReadersAssumption
<1>3. Unsigned(input, 1, 0) = 0
  BY UnsignedEmpty
<1>4. SubSeq(input, 1, 0) = << >>
  BY <1>1
<1>5. 0 % Modulus(kind) = 0
  BY <1>2
<1>6. TypeOK
  BY <1>1, <1>2, <1>4 DEF Init, TypeOK
<1>7. CollectInv
  BY <1>1 DEF Init, CollectInv
<1>8. CombineInv
  BY <1>1, <1>2, <1>3, <1>5 DEF Init, CombineInv
<1> QED
  BY <1>6, <1>7, <1>8 DEF LoopInv

(* Both loops keep it.                                                     *)
LEMMA NextLoop == LoopInv /\ [Next]_vars => LoopInv'
<1> SUFFICES ASSUME LoopInv, [Next]_vars PROVE LoopInv'
  OBVIOUS
<1>0. TypeOK /\ CollectInv /\ CombineInv
  BY DEF LoopInv
<1>1. /\ input \in Inputs /\ input \in Seq(Nat) /\ Len(input) \in Nat /\ kind \in Kinds
      /\ \A n \in 0..Len(input) : HasBytes(input, 1, n)
  BY <1>0, InputBytes DEF TypeOK
<1>2. Modulus(kind) \in Nat \ {0} /\ Payload \in Nat \ {0} /\ ShiftWidth(kind) \in Nat
  BY <1>1, WidthType, ReadersAssumption
<1>3. CASE TakeBlock
  <2>1. /\ ptr \in 1..Len(input) /\ ptr' = ptr + 1 /\ blocks' = Append(blocks, input[ptr])
        /\ i' = i /\ shift' = shift /\ result' = result /\ kind' = kind /\ input' = input
        /\ phase = "collect" /\ phase' \in {"collect", "combine"}
    BY <1>0, <1>3 DEF TakeBlock, TypeOK
  <2>2. blocks' = SubSeq(input', 1, ptr' - 1)
    BY <1>0, <1>1, <2>1 DEF TypeOK
  <2>3. Len(blocks') = ptr /\ Len(blocks) = ptr - 1
    BY <1>0, <1>1, <2>1, <2>2 DEF TypeOK
  <2>4. TypeOK'
    BY <1>0, <1>1, <2>1, <2>2, <2>3 DEF TypeOK
  <2>5. CollectInv'
    BY <1>0, <1>3 DEF TakeBlock, CollectInv
  <2>6. CombineInv'
    BY <1>0, <2>1 DEF CombineInv
  <2> QED
    BY <2>4, <2>5, <2>6 DEF LoopInv
<1>4. CASE EndOfInput
  <2>1. TypeOK'
    BY <1>0, <1>4 DEF EndOfInput, TypeOK
  <2>2. CollectInv'
    BY <1>0, <1>4 DEF EndOfInput, CollectInv
  <2>3. CombineInv'
    BY <1>0, <1>4 DEF EndOfInput, CombineInv
  <2> QED
    BY <2>1, <2>2, <2>3 DEF LoopInv
<1>5. CASE ShiftBlock
  <2>1. /\ phase = "combine" /\ i <= Len(blocks) /\ shift < ShiftWidth(kind)
        /\ result' = (result + Bits(blocks[i]) * Power(2, shift)) % Modulus(kind)
        /\ i' = i + 1 /\ shift' = shift + Payload
        /\ kind' = kind /\ input' = input /\ ptr' = ptr /\ blocks' = blocks /\ phase' = phase
    BY <1>5 DEF ShiftBlock
  <2>2. /\ ptr \in 1..(Len(input) + 1) /\ Len(blocks) = ptr - 1
        /\ \A k \in 1..(ptr - 1) : blocks[k] = input[k]
    BY <1>0, <1>1 DEF TypeOK
  <2>3. i \in 1..(ptr - 1) /\ i \in 1..Len(input) /\ blocks[i] = input[i] /\ i - 1 \in Nat
    <3>1. i \in 1..(Len(blocks) + 1)
      BY <1>0 DEF TypeOK
    <3> QED
      BY <1>1, <2>1, <2>2, <3>1
  <2> DEFINE u == Unsigned(input, 1, i - 1)
             x == Bits(blocks[i]) * Power(2, shift)
  <2>4. result = u % Modulus(kind) /\ shift = Payload * (i - 1)
    BY <1>0, <2>1 DEF CombineInv
  <2>5. u \in Int /\ Unsigned(input, 1, i) = u + x
    <3>1. (i - 1) + 1 = i /\ 1 + (i - 1) = i /\ HasBytes(input, 1, (i - 1) + 1)
      BY <1>1, <2>3
    <3> QED
      BY <2>3, <2>4, <3>1, UnsignedStep
  <2>6. x \in Int
    <3>1. Bits(blocks[i]) \in Int
      <4>1. blocks[i] \in Nat
        BY <1>1, <2>3
      <4> QED
        BY <4>1, BitsType
    <3>2. Power(2, shift) \in Int
      BY <2>3, <2>4, WeightStep
    <3> QED
      BY <3>1, <3>2
  <2>7. result' = Unsigned(input, 1, i) % Modulus(kind) /\ result' \in 0..(Modulus(kind) - 1)
    <3> HIDE DEF u, x
    <3>1. result' = (u + x) % Modulus(kind)
      BY <1>2, <2>4, <2>5, <2>6, <2>1, ModPlus DEF x
    <3>2. (u + x) \in Int
      BY <2>5, <2>6
    <3> QED
      BY <1>2, <2>5, <3>1, <3>2, DivMod
  <2>8. shift' = Payload * (i' - 1)
    BY <2>1, <2>3, <2>4, WeightStep
  <2>9. TypeOK'
    BY <1>0, <2>1, <2>2, <2>3, <2>7, <2>8 DEF TypeOK, Modulus
  <2>10. CollectInv'
    BY <1>0, <1>5 DEF ShiftBlock, CollectInv
  <2>11. CombineInv'
    BY <1>0, <2>1, <2>2, <2>3, <2>4, <2>7, <2>8 DEF CombineInv
  <2> QED
    BY <2>9, <2>10, <2>11 DEF LoopInv
<1>6. CASE ShiftTooFar
  <2>1. TypeOK'
    BY <1>0, <1>6 DEF ShiftTooFar, TypeOK
  <2>2. CollectInv'
    BY <1>0, <1>6 DEF ShiftTooFar, CollectInv
  <2>3. Len(blocks) = ptr - 1
    BY <1>0, <1>1 DEF TypeOK
  <2>4. CombineInv'
    <3>1. i < ptr /\ shift >= ShiftWidth(kind) /\ phase' = "undefined"
      BY <1>0, <1>6, <2>3 DEF ShiftTooFar, TypeOK
    <3> QED
      BY <1>0, <1>6, <3>1 DEF ShiftTooFar, CombineInv
  <2> QED
    BY <2>1, <2>2, <2>4 DEF LoopInv
<1>7. CASE Finish
  <2>1. /\ phase = "combine" /\ i = ptr /\ ptr \in 1..(Len(input) + 1)
        /\ kind' = kind /\ input' = input /\ ptr' = ptr /\ blocks' = blocks
        /\ i' = i /\ shift' = shift
        /\ blocks = << >> <=> ptr = 1
        /\ Len(blocks) = ptr - 1
        /\ \A k \in 1..(ptr - 1) : blocks[k] = input[k]
    <3>1. /\ ptr \in 1..(Len(input) + 1) /\ blocks = SubSeq(input, 1, ptr - 1)
      BY <1>0 DEF TypeOK
    <3>2. /\ Len(blocks) = ptr - 1 /\ \A k \in 1..(ptr - 1) : blocks[k] = input[k]
          /\ blocks \in Seq(Nat)
      BY <1>1, <3>1
    <3>3. blocks = << >> <=> ptr = 1
      BY <1>1, <3>1, <3>2
    <3> QED
      BY <1>7, <3>1, <3>2, <3>3 DEF Finish
  <2>2. result = Unsigned(input, 1, ptr - 1) % Modulus(kind) /\ shift = Payload * (ptr - 1)
    BY <1>0, <2>1 DEF CombineInv
  <2>3. CASE kind \in Signed /\ blocks = << >>
    <3>1. phase' = "undefined" /\ result' = result
      BY <1>7, <2>3 DEF Finish
    <3>2. TypeOK'
      BY <1>0, <2>1, <3>1 DEF TypeOK
    <3>3. CollectInv'
      BY <1>0, <2>1, <3>1 DEF CollectInv
    <3>4. CombineInv'
      BY <1>0, <2>1, <2>3, <3>1 DEF CombineInv
    <3> QED
      BY <3>2, <3>3, <3>4 DEF LoopInv
  <2>4. CASE ~(kind \in Signed /\ blocks = << >>)
    <3>1. phase' = "done" /\ result' = IF blocks = << >> THEN result
                                       ELSE result + Extension(kind, Last(blocks), shift)
      BY <1>7, <2>4 DEF Finish
    <3>2. CASE ptr = 1
      <4>1. result' = 0
        BY <1>2, <2>1, <2>2, <3>1, <3>2, UnsignedEmpty
      <4>2. TypeOK'
        BY <1>0, <1>2, <2>1, <3>1, <4>1 DEF TypeOK, Modulus
      <4>3. CollectInv'
        BY <1>0, <2>1, <3>1 DEF CollectInv
      <4>4. CombineInv'
        BY <1>0, <2>1, <2>4, <3>1, <3>2, <4>1 DEF CombineInv
      <4> QED
        BY <4>2, <4>3, <4>4 DEF LoopInv
    <3>3. CASE ptr # 1
      <4>1. Last(blocks) = input[ptr - 1]
        BY <2>1, <3>3 DEF Last
      <4>2. Unsigned(input, 1, ptr - 1) \in 0..(Power(2, shift) - 1) /\ shift \in Nat
        <5>1. ptr - 1 \in Nat /\ HasBytes(input, 1, ptr - 1)
          BY <1>1, <2>1
        <5> QED
          BY <2>2, <5>1, UnsignedRange, WeightStep
      <4>3. result' = (Unsigned(input, 1, ptr - 1) + Extension(kind, input[ptr - 1], shift)) % Modulus(kind)
            /\ result' \in 0..(Modulus(kind) - 1)
        BY <1>1, <2>1, <2>2, <3>1, <3>3, <4>1, <4>2, ExtensionFits
      <4>4. TypeOK'
        BY <1>0, <2>1, <3>1, <4>3 DEF TypeOK, Modulus
      <4>5. CollectInv'
        BY <1>0, <2>1, <3>1 DEF CollectInv
      <4>6. CombineInv'
        BY <1>0, <2>1, <3>1, <3>3, <4>3 DEF CombineInv, Modulus, Extension
      <4> QED
        BY <4>4, <4>5, <4>6 DEF LoopInv
    <3> QED
      BY <3>2, <3>3
  <2> QED
    BY <2>3, <2>4
<1>8. CASE UNCHANGED vars
  BY <1>0, <1>8 DEF vars, LoopInv, TypeOK, CollectInv, CombineInv
<1> QED
  BY <1>3, <1>4, <1>5, <1>6, <1>7, <1>8 DEF Next

(* The invariant says what the properties ask for.                         *)
LEMMA LoopComputes == LoopInv => ComputesReadInt
<1> SUFFICES ASSUME LoopInv PROVE ComputesReadInt
  OBVIOUS
<1>0. TypeOK /\ CollectInv /\ CombineInv
  BY DEF LoopInv
<1>1. /\ input \in Seq(Nat) /\ Len(input) \in Nat /\ kind \in Kinds
      /\ ptr \in 1..(Len(input) + 1)
      /\ i \in 1..ptr /\ shift = Payload * (i - 1)
  BY <1>0, InputBytes DEF TypeOK, CombineInv
<1>2. Payload \in Nat \ {0} /\ ShiftWidth(kind) \in Nat \ {0} /\ Modulus(kind) \in Nat \ {0}
  BY <1>1, WidthType, ReadersAssumption
<1>3. phase \in {"done", "undefined"} => ReadInt(kind, input, 1) = FromBlocks(kind, input, 1, ptr)
  BY <1>0, CollectedOne DEF ReadInt
<1>4. CASE phase = "done"
  <2>1. i = ptr
    BY <1>0, <1>4 DEF CombineInv
  <2>2. ~ShiftsTooFar(kind, ptr - 1)
    <3>1. ptr > 1 => Payload * (ptr - 2) < ShiftWidth(kind)
      BY <1>0, <2>1 DEF CombineInv
    <3>2. (ptr - 1) - 1 = ptr - 2 /\ (ptr - 2) * Payload = Payload * (ptr - 2)
      BY <1>1, <1>2
    <3> QED
      BY <1>1, <1>2, <3>1, <3>2 DEF ShiftsTooFar
  <2>3. CASE ptr = 1
    <3>1. kind \notin Signed /\ result = 0
      BY <1>0, <1>4, <2>3 DEF CombineInv
    <3>2. FromBlocks(kind, input, 1, ptr) = Result(ptr, 0, "ok")
      BY <2>2, <2>3, <3>1 DEF FromBlocks
    <3> QED
      BY <1>3, <1>4, <3>1, <3>2 DEF ComputesReadInt
  <2>4. CASE ptr > 1
    <3>1. result = (Unsigned(input, 1, ptr - 1) + Extension(kind, input[ptr - 1], shift)) % Modulus(kind)
      BY <1>0, <1>4, <2>4 DEF CombineInv
    <3>2. FromBlocks(kind, input, 1, ptr) = Result(ptr, result, "ok")
      BY <1>1, <2>1, <2>2, <2>4, <3>1 DEF FromBlocks
    <3> QED
      BY <1>3, <1>4, <3>2 DEF ComputesReadInt
  <2> QED
    BY <1>1, <2>3, <2>4
<1>5. CASE phase = "undefined"
  <2>1. (i < ptr /\ shift >= ShiftWidth(kind)) \/ (ptr = 1 /\ kind \in Signed)
    BY <1>0, <1>5 DEF CombineInv
  <2>2. ShiftsTooFar(kind, ptr - 1) \/ (ptr = 1 /\ kind \in Signed)
    <3> SUFFICES ASSUME i < ptr, shift >= ShiftWidth(kind) PROVE ShiftsTooFar(kind, ptr - 1)
      BY <2>1
    <3>1. i - 1 \in Nat /\ ptr - 2 \in Nat /\ i - 1 <= ptr - 2 /\ (ptr - 1) - 1 = ptr - 2
      BY <1>1
    <3>2. Payload * (i - 1) <= (ptr - 2) * Payload
      <4>1. \A a, b, c \in Nat : a <= b => c * a <= b * c
        OBVIOUS
      <4> QED
        BY <1>2, <3>1, <4>1
    <3>3. (ptr - 2) * Payload >= ShiftWidth(kind)
      <4>1. (ptr - 2) * Payload \in Nat /\ Payload * (i - 1) \in Nat
        BY <1>2, <3>1
      <4> QED
        BY <1>1, <1>2, <3>2, <4>1
    <3> QED
      BY <1>1, <3>1, <3>3 DEF ShiftsTooFar
  <2>3. FromBlocks(kind, input, 1, ptr) = Result(ptr, 0, "undefined")
    BY <2>2 DEF FromBlocks
  <2> QED
    BY <1>3, <1>5, <2>3 DEF ComputesReadInt, Result
<1> QED
  BY <1>4, <1>5 DEF ComputesReadInt

(* For every width and all inputs: the loops stay in their types, the      *)
(* shifts lose no bit that belongs to the type, and the result is the one  *)
(* module Readers has in one formula.                                      *)
THEOREM LoopsComputeFormula == Spec => []DecoderInv
<1>1. LoopInv => DecoderInv
  BY LoopComputes DEF LoopInv, DecoderInv
<1> QED
  BY <1>1, InitLoop, NextLoop, PTL DEF Spec

-----------------------------------------------------------------------------
(* Encodings.                                                              *)

Horner(bytes, f) ==
  f = [j \in 1..(Len(bytes) + 1) |->
         IF j > Len(bytes) THEN 0 ELSE Bits(bytes[j]) + Carry * f[j + 1]]

(* A function with Horner's equations exists.                              *)
LEMMA HornerExists ==
  ASSUME NEW bytes \in Seq(Nat)
  PROVE  \E f : Horner(bytes, f)
<1> DEFINE n == Len(bytes)
           h == [k \in Nat \ {0} |-> [x \in Int |-> IF k <= n THEN Bits(bytes[n + 1 - k]) + Carry * x
                                                    ELSE x]]
<1>1. n \in Nat /\ \A k \in 1..n : n + 1 - k \in 1..n /\ Bits(bytes[n + 1 - k]) \in Int
  <2>1. n \in Nat
    OBVIOUS
  <2>2. ASSUME NEW k \in 1..n PROVE n + 1 - k \in 1..n /\ bytes[n + 1 - k] \in Nat
    OBVIOUS
  <2>3. \A b \in Nat : Bits(b) \in Int
    BY BitsType
  <2> QED
    BY <2>1, <2>2, <2>3
<1>2. Carry \in Int
  BY BitsType, 0 \in Nat
<1>3. Iterable(Int, 0, h)
  <2>1. ASSUME NEW k \in Nat \ {0} PROVE h[k] \in [Int -> Int]
    BY <1>1, <1>2
  <2> QED
    BY <2>1 DEF Iterable
<1>4. PICK g : Iteration(Int, 0, h, n, g)
  <2> HIDE DEF h
  <2> QED
    BY <1>1, <1>3, Iterates
<1>5. ASSUME NEW k \in 1..n PROVE g[k] = Bits(bytes[n + 1 - k]) + Carry * g[k - 1]
  <2>1. g[k - 1] \in Int /\ k \in Nat \ {0} /\ g[k] = h[k][g[k - 1]]
    <3> HIDE DEF h, n
    <3>1. n \in Nat /\ k - 1 \in 0..n /\ k \in Nat \ {0}
      BY <1>1
    <3> QED
      BY <1>4, <3>1 DEF Iteration
  <2>2. h[k] = [x \in Int |-> Bits(bytes[n + 1 - k]) + Carry * x]
    BY <2>1
  <2> QED
    BY <2>1, <2>2
<1>6. g[0] = 0
  BY <1>4 DEF Iteration
<1> HIDE DEF h
<1> DEFINE f == [j \in 1..(n + 1) |-> g[n + 1 - j]]
<1>7. ASSUME NEW j \in 1..(n + 1)
      PROVE  f[j] = IF j > n THEN 0 ELSE Bits(bytes[j]) + Carry * f[j + 1]
  <2>1. CASE j = n + 1
    BY <1>1, <1>6, <2>1
  <2>2. CASE j # n + 1
    <3>1. /\ n + 1 - j \in 1..n /\ n + 1 - (n + 1 - j) = j /\ (n + 1 - j) - 1 = n + 1 - (j + 1)
          /\ j + 1 \in 1..(n + 1) /\ ~(j > n)
      BY <1>1, <2>2
    <3> QED
      BY <1>5, <3>1
  <2> QED
    BY <2>1, <2>2
<1>8. f = [j \in 1..(n + 1) |-> IF j > n THEN 0 ELSE Bits(bytes[j]) + Carry * f[j + 1]]
  <2> HIDE DEF n
  <2> QED
    BY <1>7
<1> QED
  BY <1>8 DEF Horner

(* The digits, from the last to the first or from the first to the last.   *)
LEMMA HornerIsSum ==
  ASSUME NEW bytes \in Seq(Nat), NEW f, Horner(bytes, f)
  PROVE  f[1] = Unsigned(bytes, 1, Len(bytes))
<1> DEFINE n == Len(bytes)
           w(k) == Power(2, Payload * k)
           u(k) == Unsigned(bytes, 1, k)
           S == {k \in Nat : k <= n => f[n + 1 - k] \in Int /\ u(n) = u(n - k) + w(n - k) * f[n + 1 - k]}
<1>1. n \in Nat /\ \A k \in 0..n : HasBytes(bytes, 1, k) /\ u(k) \in Int /\ w(k) \in Nat
  <2>1. n \in Nat /\ \A k \in 1..n : bytes[k] \in Nat
    OBVIOUS
  <2>2. \A k \in 0..n : HasBytes(bytes, 1, k)
    BY <2>1 DEF HasBytes
  <2>3. ASSUME NEW k \in 0..n PROVE u(k) \in Int /\ w(k) \in Nat
    <3>1. k \in Nat /\ HasBytes(bytes, 1, k)
      BY <2>1, <2>2
    <3>2. w(k) \in Nat
      BY <3>1, WeightStep
    <3> QED
      BY <3>1, <3>2, UnsignedRange
  <2> QED
    BY <2>1, <2>2, <2>3
<1>2. Carry \in Nat
  BY BitsType, 0 \in Nat
<1>3. 0 \in S
  <2>1. f[n + 1] = 0
    BY <1>1 DEF Horner
  <2>2. u(n) \in Int /\ w(n) \in Nat
    BY <1>1
  <2> HIDE DEF u, w, n
  <2> QED
    BY <1>1, <2>1, <2>2
<1>4. ASSUME NEW k \in Nat, k \in S PROVE k + 1 \in S
  <2> SUFFICES ASSUME k + 1 <= n
               PROVE  f[n - k] \in Int /\ u(n) = u(n - (k + 1)) + w(n - (k + 1)) * f[n - k]
    BY <1>1, n + 1 - (k + 1) = n - k
  <2> DEFINE m == n - (k + 1)
             b == Bits(bytes[m + 1])
             x == f[n + 1 - k]
  <2>1. /\ m \in Nat /\ m \in 0..n /\ m + 1 = n - k /\ m + 1 \in 1..n /\ (n - k) + 1 = n + 1 - k
        /\ n - k \in 1..(n + 1) /\ ~(n - k > n)
    BY <1>1
  <2>2. x \in Int /\ u(n) = u(m + 1) + w(m + 1) * x
    BY <1>1, <1>4, <2>1
  <2>3. b \in Int
    BY <2>1, BitsType
  <2>4. f[n - k] = b + Carry * x
    BY <2>1 DEF Horner
  <2>5. u(m + 1) = u(m) + b * w(m)
    <3>1. HasBytes(bytes, 1, m + 1) /\ 1 + m = m + 1
      BY <1>1, <2>1
    <3> QED
      BY <2>1, <3>1, UnsignedStep
  <2>6. w(m + 1) = Carry * w(m)
    BY <2>1, WeightStep
  <2>7. u(m) \in Int /\ w(m) \in Nat
    BY <1>1, <2>1
  <2>8. \A c, p, q, r, s \in Int : (p + q * r) + (c * r) * s = p + r * (q + c * s)
    OBVIOUS
  <2>9. u(n) = u(m) + w(m) * (b + Carry * x)
    <3> HIDE DEF u, w, b, x, m
    <3> QED
      BY <1>2, <2>2, <2>3, <2>5, <2>6, <2>7, <2>8
  <2>10. f[n - k] \in Int
    <3> HIDE DEF b, x
    <3> QED
      BY <1>2, <2>2, <2>3, <2>4
  <2> QED
    BY <2>4, <2>9, <2>10
<1>5. n \in S
  <2> HIDE DEF S
  <2> QED
    BY <1>1, <1>3, <1>4, Induction
<1>6. f[1] \in Int /\ u(n) = u(0) + w(0) * f[1]
  <2>1. n - n = 0 /\ n + 1 - n = 1
    BY <1>1
  <2> QED
    BY <1>1, <1>5, <2>1
<1>7. u(0) = 0 /\ w(0) = 1
  <2>1. w(0) = 1
    BY PowerStep, ReadersAssumption
  <2> QED
    BY <2>1, UnsignedEmpty
<1> QED
  BY <1>6, <1>7

(* Unsigned looks at the blocks only.                                      *)
LEMMA UnsignedSame ==
  ASSUME NEW c, NEW d, NEW p, NEW n, \A k \in 1..n : c[p + k - 1] = d[p + k - 1]
  PROVE  Unsigned(c, p, n) = Unsigned(d, p, n)
BY DEF Unsigned

(* What the format says a number is.                                       *)
LEMMA ValueIs ==
  ASSUME NEW bytes \in Seq(Nat)
  PROVE  Value(bytes) =
           IF kind \in Signed /\ Negative(Last(bytes))
           THEN Unsigned(bytes, 1, Len(bytes)) - Power(2, Payload * Len(bytes))
           ELSE Unsigned(bytes, 1, Len(bytes))
<1> DEFINE f == CHOOSE x : Horner(bytes, x)
<1>1. Horner(bytes, f)
  BY HornerExists
<1>2. Value(bytes) = IF kind \in Signed /\ Negative(Last(bytes))
                     THEN f[1] - Power(2, Payload * Len(bytes)) ELSE f[1]
  BY DEF Value, Horner
<1> HIDE DEF f
<1> QED
  BY <1>1, <1>2, HornerIsSum

(* The extension is the difference, modulo the size of the type: where the *)
(* blocks leave bits above them, or else all of it is above the type.      *)
LEMMA ExtensionIs ==
  ASSUME NEW k \in Kinds, NEW n \in Nat, NEW u \in Int, NEW last
  PROVE  (u + Extension(k, last, n)) % Modulus(k)
           = (IF k \in Signed /\ Negative(last) THEN u - Power(2, n) ELSE u) % Modulus(k)
<1> DEFINE m == Modulus(k)
           w == Power(2, n)
<1>1. m \in Nat \ {0} /\ w \in Nat /\ Width(k) \in Nat
  BY WidthType, PowerPositive
<1>2. CASE ~(k \in Signed /\ Negative(last))
  BY <1>2 DEF Extension
<1>3. CASE k \in Signed /\ Negative(last) /\ n < Width(k)
  <2>1. Extension(k, last, n) = m - w
    BY <1>3 DEF Extension
  <2>2. (u + (m - w)) % m = (u - w) % m
    <3> HIDE DEF m, w
    <3> DEFINE v == u - w
    <3>1. u + (m - w) = v + m * 1 /\ v \in Int /\ m \in Nat \ {0}
      BY <1>1
    <3>2. PICK q \in Int : q = 1
      OBVIOUS
    <3> HIDE DEF v
    <3>3. ((v + m * q) % m) = (v % m)
      BY <3>1, ModMultiple
    <3>4. u + (m - w) = v + m * q
      BY <3>1, <3>2
    <3> QED
      BY <3>3, <3>4 DEF v
  <2> QED
    BY <1>3, <2>1, <2>2
<1>4. CASE k \in Signed /\ Negative(last) /\ ~(n < Width(k))
  <2>1. Extension(k, last, n) = 0
    BY <1>4 DEF Extension
  <2>2. PICK q \in Int : w = m * q
    <3>1. n - Width(k) \in Nat /\ Width(k) + (n - Width(k)) = n
      BY <1>1, <1>4
    <3>2. w = m * Power(2, n - Width(k))
      BY <1>1, <3>1, PowerPlus DEF Modulus
    <3>3. Power(2, n - Width(k)) \in Int
      BY <3>1, PowerPositive
    <3> QED
      BY <3>2, <3>3
  <2>3. u % m = (u - w) % m
    <3> HIDE DEF m, w
    <3>1. u = (u - w) + m * q /\ u - w \in Int
      BY <1>1, <2>2
    <3> QED
      BY <1>1, <3>1, ModMultiple
  <2> QED
    BY <1>4, <2>1, <2>3
<1> QED
  BY <1>2, <1>3, <1>4

(* An encoding's last block lies, with a bit at least, within the width.   *)
LEMMA LastBlockFits ==
  ASSUME NEW w \in Nat \ {0}, NEW p \in Nat \ {0}, NEW n \in 1..((w + p - 1) \div p)
  PROVE  p * (n - 1) < w
<1> DEFINE x == w + p - 1
           c == x \div p
<1>1. x \in Int
  OBVIOUS
<1>2. (x % p) \in 0..(p - 1) /\ c \in Int /\ x = p * c + (x % p)
  <2> HIDE DEF x
  <2> QED
    BY <1>1, DivMod
<1>3. n \in Nat /\ n <= c /\ n >= 1
  <2>1. n \in 1..c
    OBVIOUS
  <2> HIDE DEF c
  <2> QED
    BY <1>2, <2>1
<1>4. \A a, b, d \in Int : b <= d /\ a > 0 => a * b <= a * d
  OBVIOUS
<1>5. p * n <= p * c /\ p * n \in Int /\ p * c \in Int
  <2> HIDE DEF c
  <2> QED
    BY <1>2, <1>3, <1>4
<1>6. p * (n - 1) = p * n - p
  BY <1>3
<1> HIDE DEF c
<1>7. p * c <= x
  <2> HIDE DEF x
  <2> QED
    BY <1>1, <1>2, <1>5
<1> QED
  BY <1>5, <1>6, <1>7

(* The invariant says that an encoding is decoded.                         *)
LEMMA LoopDecodes == LoopInv => DecodesEncodings
<1> SUFFICES ASSUME LoopInv, NEW n \in 1..Len(input), Encoding(SubSeq(input, 1, n))
             PROVE  /\ phase # "undefined"
                    /\ phase = "done" =>
                         ptr = n + 1 /\ result = Value(SubSeq(input, 1, n)) % Modulus(kind)
  BY DEF DecodesEncodings
<1> DEFINE sub == SubSeq(input, 1, n)
<1>0. TypeOK /\ CollectInv /\ CombineInv
  BY DEF LoopInv
<1>1. input \in Seq(Nat) /\ Len(input) \in Nat /\ kind \in Kinds /\ n \in Nat
  BY <1>0, InputBytes DEF TypeOK
<1>2. sub \in Seq(Nat) /\ Len(sub) = n /\ \A j \in 1..n : sub[j] = input[j]
  BY <1>1
<1>3. Payload \in Nat \ {0} /\ Width(kind) \in Nat \ {0} /\ Width(kind) <= ShiftWidth(kind)
      /\ ShiftWidth(kind) \in Nat
  BY <1>1, WidthType, ReadersAssumption
<1>4. /\ n \in 1..((Width(kind) + Payload - 1) \div Payload)
      /\ \A j \in 1..n : Continues(input[j]) <=> j < n
  <2>1. WellFormed(sub)
    BY DEF Encoding
  <2> HIDE DEF sub
  <2> QED
    BY <1>2, <2>1 DEF WellFormed
<1>5. Payload * (n - 1) < ShiftWidth(kind)
  <2>1. Payload * (n - 1) < Width(kind)
    BY <1>3, <1>4, LastBlockFits
  <2> QED
    BY <1>1, <1>3, <2>1
<1>6. phase \in {"combine", "done", "undefined"} => ptr = n + 1
  <2> SUFFICES ASSUME phase \in {"combine", "done", "undefined"} PROVE ptr = n + 1
    OBVIOUS
  <2>1. /\ ptr \in 1..(Len(input) + 1) /\ \A q \in 1..(ptr - 2) : Continues(input[q])
        /\ ptr = Len(input) + 1 \/ (ptr > 1 /\ ~Continues(input[ptr - 1]))
    BY <1>0 DEF CollectInv
  <2>2. ~(n <= ptr - 2)
    BY <1>1, <1>4, <2>1
  <2>3. ~(ptr - 1 < n)
    <3> SUFFICES ASSUME ptr - 1 < n PROVE FALSE
      OBVIOUS
    <3>1. ptr > 1 /\ ~Continues(input[ptr - 1]) /\ ptr - 1 \in 1..n
      BY <1>1, <2>1
    <3> QED
      BY <1>4, <3>1
  <2> QED
    BY <1>1, <2>1, <2>2, <2>3
<1>7. phase # "undefined"
  <2> SUFFICES ASSUME phase = "undefined" PROVE FALSE
    OBVIOUS
  <2>1. ptr = n + 1 /\ i \in 1..ptr /\ shift = Payload * (i - 1)
        /\ ((i < ptr /\ shift >= ShiftWidth(kind)) \/ (ptr = 1 /\ kind \in Signed))
    BY <1>0, <1>6 DEF CombineInv
  <2>2. i - 1 \in Nat /\ n - 1 \in Nat /\ i - 1 <= n - 1 /\ shift >= ShiftWidth(kind)
    BY <1>1, <2>1
  <2>3. \A a, b, c \in Nat : a <= b => c * a <= c * b
    OBVIOUS
  <2>4. Payload * (i - 1) <= Payload * (n - 1) /\ Payload * (i - 1) \in Nat /\ Payload * (n - 1) \in Nat
    BY <1>3, <2>2, <2>3
  <2> QED
    BY <1>3, <1>5, <2>1, <2>2, <2>4
<1>8. ASSUME phase = "done"
      PROVE  ptr = n + 1 /\ result = Value(sub) % Modulus(kind)
  <2>1. ptr = n + 1 /\ ptr > 1 /\ ptr - 1 = n /\ i = ptr /\ shift = Payload * (i - 1)
    BY <1>0, <1>1, <1>6, <1>8 DEF CombineInv
  <2>2. result = (Unsigned(input, 1, n) + Extension(kind, input[n], Payload * n)) % Modulus(kind)
    BY <1>0, <1>8, <2>1 DEF CombineInv
  <2>3. Unsigned(sub, 1, n) = Unsigned(input, 1, n)
    <3>1. \A k \in 1..n : 1 + k - 1 = k
      BY <1>1
    <3> HIDE DEF sub
    <3> QED
      BY <1>2, <3>1, UnsignedSame
  <2>4. Last(sub) = input[n]
    <3> HIDE DEF sub
    <3> QED
      BY <1>2 DEF Last
  <2> DEFINE u == Unsigned(input, 1, n)
  <2>5. u \in Int
    <3>1. HasBytes(input, 1, n) /\ Power(2, Payload * n) \in Nat
      BY <1>0, <1>1, InputBytes, WeightStep DEF TypeOK
    <3> QED
      BY <1>1, <3>1, UnsignedRange
  <2>6. Value(sub) = IF kind \in Signed /\ Negative(input[n]) THEN u - Power(2, Payload * n) ELSE u
    <3> HIDE DEF sub
    <3> QED
      BY <1>2, <2>3, <2>4, ValueIs
  <2>7. (u + Extension(kind, input[n], Payload * n)) % Modulus(kind) = Value(sub) % Modulus(kind)
    <3>1. Payload * n \in Nat
      BY <1>1, <1>3
    <3> HIDE DEF sub, u
    <3> QED
      BY <1>1, <2>5, <2>6, <3>1, ExtensionIs
  <2> QED
    BY <2>1, <2>2, <2>7
<1> QED
  BY <1>7, <1>8

(* For every width and all inputs: an encoding of the binary format,       *)
(* padded or not and whatever follows it, is decoded to the number it      *)
(* encodes, and no shift on the way is undefined.                          *)
THEOREM EncodingsDecoded == Spec => []DecodesEncodings
BY InitLoop, NextLoop, LoopDecodes, PTL DEF Spec
=============================================================================
