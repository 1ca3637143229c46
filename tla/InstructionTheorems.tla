-------------------------- MODULE InstructionTheorems --------------------------
(***************************************************************************)
(* Facts the proofs of several modules rest on: about the operators of     *)
(* module Instructions, for every instruction list (how the counts change  *)
(* when a range grows by one instruction, how the positions the code's     *)
(* counters select relate to the structure), about the powers and sums of  *)
(* module Arithmetic, about remainders, and about numbers and their digits.*)
(***************************************************************************)
EXTENDS Instructions, Arithmetic, SequencesExt, SequenceTheorems, FiniteSetTheorems, TLAPS

-----------------------------------------------------------------------------
(* Counting opcodes in a range.                                            *)

(* A count over a range of positions is a natural number.                  *)
LEMMA CountType ==
  ASSUME NEW c, NEW ops, NEW a \in Int, NEW b \in Int
  PROVE  IsFiniteSet(OpsAt(c, ops, a, b)) /\ Count(c, ops, a, b) \in Nat
<1>1. OpsAt(c, ops, a, b) \in SUBSET (a..b)
  BY DEF OpsAt
<1>2. IsFiniteSet(OpsAt(c, ops, a, b))
  BY <1>1, FS_Interval, FS_Subset
<1> QED
  BY <1>2, FS_CardinalityType DEF Count

(* The empty range holds nothing.                                          *)
LEMMA CountEmpty ==
  ASSUME NEW c, NEW ops, NEW a \in Int, NEW b \in Int, b < a
  PROVE  Count(c, ops, a, b) = 0
<1>1. OpsAt(c, ops, a, b) = {}
  BY DEF OpsAt
<1> QED
  BY <1>1, FS_EmptySet DEF Count

(* One more instruction at the upper end of the range (a step of           *)
(* skip_control_block).                                                    *)
LEMMA CountAbove ==
  ASSUME NEW c, NEW ops, NEW a \in Int, NEW b \in Int, a <= b + 1
  PROVE  Count(c, ops, a, b + 1) =
           IF c[b + 1].op \in ops THEN Count(c, ops, a, b) + 1
           ELSE Count(c, ops, a, b)
<1> DEFINE S == OpsAt(c, ops, a, b)
<1>1. IsFiniteSet(S)
  BY CountType
<1>4. b + 1 \notin S
  BY DEF OpsAt
<1>2. CASE c[b + 1].op \in ops
  <2>1. OpsAt(c, ops, a, b + 1) = S \cup {b + 1}
    BY <1>2 DEF OpsAt
  <2> QED
    BY <1>1, <1>2, <1>4, <2>1, FS_AddElement DEF Count
<1>3. CASE c[b + 1].op \notin ops
  <2>1. OpsAt(c, ops, a, b + 1) = S
    BY <1>3 DEF OpsAt
  <2> QED
    BY <1>3, <2>1 DEF Count
<1> QED
  BY <1>2, <1>3

(* One more instruction at the lower end of the range (a step of the walk  *)
(* of branch_block).                                                       *)
LEMMA CountBelow ==
  ASSUME NEW c, NEW ops, NEW a \in Int, NEW b \in Int, a <= b
  PROVE  Count(c, ops, a, b) =
           IF c[a].op \in ops THEN Count(c, ops, a + 1, b) + 1
           ELSE Count(c, ops, a + 1, b)
<1> DEFINE S == OpsAt(c, ops, a + 1, b)
<1>1. IsFiniteSet(S)
  BY CountType
<1>4. a \notin S
  BY DEF OpsAt
<1>2. CASE c[a].op \in ops
  <2>1. OpsAt(c, ops, a, b) = S \cup {a}
    BY <1>2 DEF OpsAt
  <2> QED
    BY <1>1, <1>2, <1>4, <2>1, FS_AddElement DEF Count
<1>3. CASE c[a].op \notin ops
  <2>1. OpsAt(c, ops, a, b) = S
    BY <1>3 DEF OpsAt
  <2> QED
    BY <1>3, <2>1 DEF Count
<1> QED
  BY <1>2, <1>3

(* More opcodes count at least as much.                                    *)
LEMMA CountMonotone ==
  ASSUME NEW c, NEW ops1, NEW ops2, ops1 \subseteq ops2,
         NEW a \in Int, NEW b \in Int
  PROVE  Count(c, ops1, a, b) <= Count(c, ops2, a, b)
<1>1. OpsAt(c, ops1, a, b) \in SUBSET OpsAt(c, ops2, a, b)
  BY DEF OpsAt
<1> QED
  BY <1>1, CountType, FS_Subset DEF Count

-----------------------------------------------------------------------------
(* Minima.                                                                 *)

(* An element below all others is the minimum.                             *)
LEMMA MinIs ==
  ASSUME NEW S \in SUBSET Int, NEW m \in S, \A x \in S : m <= x
  PROVE  Min(S) = m
<1>1. \A y \in S : (\A x \in S : y =< x) => y = m
  OBVIOUS
<1>2. \E y \in S : \A x \in S : y =< x
  OBVIOUS
<1> QED
  BY <1>1, <1>2 DEF Min

(* A non-empty set of natural numbers has a minimum: of its initial        *)
(* segments, which are finite, one has no strict subset among them.        *)
LEMMA MinExists ==
  ASSUME NEW S \in SUBSET Nat, S # {}
  PROVE  Min(S) \in S /\ \A x \in S : Min(S) <= x
<1> DEFINE Below(m) == S \cap (0..m)
           Family == {Below(m) : m \in S}
<1>1. PICK m \in S : \A x \in S : ~(<<Below(x), Below(m)>> \in StrictSubsetOrdering(S))
  <2>1. \A m \in S : Below(m) \in FiniteSubsetsOf(S)
    <3> TAKE m \in S
    <3>1. Below(m) \in SUBSET (0..m) /\ IsFiniteSet(0..m)
      BY FS_Interval
    <3> QED
      BY <3>1, FS_Subset DEF FiniteSubsetsOf
  <2>2. Family \subseteq FiniteSubsetsOf(S) /\ Family # {}
    BY <2>1
  <2>3. IsWellFoundedOn(StrictSubsetOrdering(S), FiniteSubsetsOf(S))
    BY FS_StrictSubsetOrderingWellFounded
  <2>4. \E T \in Family : \A U \in Family : ~(<<U, T>> \in StrictSubsetOrdering(S))
    <3> HIDE DEF Family
    <3> QED
      BY <2>2, <2>3, WFMin
  <2> QED
    BY <2>4
<1>2. \A x \in S : m <= x
  <2> SUFFICES ASSUME NEW x \in S, x < m
               PROVE  FALSE
    OBVIOUS
  <2>1. Below(x) \subseteq Below(m) /\ Below(x) # Below(m)
    <3>1. m \in Below(m) /\ m \notin Below(x)
      OBVIOUS
    <3>2. Below(x) \subseteq Below(m)
      OBVIOUS
    <3> QED
      BY <3>1, <3>2
  <2>2. <<Below(x), Below(m)>> \in StrictSubsetOrdering(S)
    BY <2>1 DEF StrictSubsetOrdering
  <2> QED
    BY <1>1, <2>2
<1>3. Min(S) = m
  BY <1>2, MinIs
<1> QED
  BY <1>2, <1>3

-----------------------------------------------------------------------------
(* Recursion.                                                              *)

(* Induction, over the set of numbers that have a property.                *)
LEMMA Induction ==
  ASSUME NEW S, 0 \in S, \A k \in Nat : k \in S => k + 1 \in S
  PROVE  Nat \subseteq S
<1> SUFFICES ASSUME Nat \ S # {} PROVE FALSE
  OBVIOUS
<1>1. PICK m \in Nat \ S : \A x \in Nat \ S : m <= x
  BY MinExists
<1>2. m - 1 \in Nat /\ m - 1 \notin Nat \ S
  BY <1>1
<1> QED
  BY <1>1, <1>2

(* What determines the next value determines them all.                     *)
Alike(f, g, n) == f[0] = g[0] /\ \A k \in 1..n : f[k - 1] = g[k - 1] => f[k] = g[k]

(* Two functions that are built alike are equal.                           *)
LEMMA Agree ==
  ASSUME NEW n \in Nat, NEW f, NEW g, Alike(f, g, n)
  PROVE  \A k \in 0..n : f[k] = g[k]
<1> USE DEF Alike
<1> DEFINE S == {k \in Nat : k <= n => f[k] = g[k]}
<1>1. 0 \in S
  OBVIOUS
<1>2. ASSUME NEW k \in Nat, k \in S PROVE k + 1 \in S
  <2> SUFFICES ASSUME k + 1 <= n PROVE f[k + 1] = g[k + 1]
    BY k + 1 \in Nat
  <2>1. f[k] = g[k] /\ k + 1 \in 1..n /\ (k + 1) - 1 = k
    BY <1>2
  <2> QED
    BY <2>1
<1>3. Nat \subseteq S
  <2> HIDE DEF S
  <2> QED
    BY <1>1, <1>2, Induction
<1> QED
  BY <1>3

(* A step for each number, and a value to start from, make a function.     *)
Iterable(X, a, h) == a \in X /\ \A k \in Nat \ {0} : h[k] \in [X -> X]

Iteration(X, a, h, n, f) ==
  f \in [0..n -> X] /\ f[0] = a /\ \A k \in 1..n : f[k] = h[k][f[k - 1]]

(* A function can be built value by value.                                 *)
LEMMA Iterates ==
  ASSUME NEW X, NEW a, NEW h, Iterable(X, a, h), NEW n \in Nat
  PROVE  \E f : Iteration(X, a, h, n, f)
<1> USE DEF Iterable
<1> DEFINE Runs(m, f) == Iteration(X, a, h, m, f)
           S == {m \in Nat : \E f : Runs(m, f)}
<1>1. 0 \in S
  <2>1. Runs(0, [k \in 0..0 |-> a])
    BY DEF Iteration
  <2> QED
    BY <2>1
<1>2. ASSUME NEW m \in Nat, m \in S PROVE m + 1 \in S
  <2>1. PICK f : Runs(m, f)
    BY <1>2
  <2> DEFINE g == [k \in 0..(m + 1) |-> IF k = m + 1 THEN h[m + 1][f[m]] ELSE f[k]]
  <2>2. Runs(m + 1, g)
    <3>1. f[m] \in X /\ h[m + 1] \in [X -> X]
      BY <2>1 DEF Iteration
    <3>2. g \in [0..(m + 1) -> X] /\ g[0] = a
      BY <2>1, <3>1 DEF Iteration
    <3>3. ASSUME NEW k \in 1..(m + 1) PROVE g[k] = h[k][g[k - 1]]
      BY <2>1 DEF Iteration
    <3> QED
      BY <3>2, <3>3 DEF Iteration
  <2>3. m + 1 \in Nat
    OBVIOUS
  <2> HIDE DEF g, Runs
  <2> QED
    BY <2>2, <2>3
<1>3. Nat \subseteq S
  <2> HIDE DEF S
  <2> QED
    BY <1>1, <1>2, Induction
<1> QED
  BY <1>3

(* f holds the powers of b up to exponent n.                               *)
Products(b, n, f) == f = [k \in 0..n |-> IF k = 0 THEN 1 ELSE b * f[k - 1]]

(* The products b, b * b, ... exist.                                       *)
LEMMA ProductsExist ==
  ASSUME NEW b \in Int, NEW n \in Nat
  PROVE  \E f \in [0..n -> Int] : Products(b, n, f)
<1> DEFINE h == [k \in Nat \ {0} |-> [x \in Int |-> b * x]]
<1>1. PICK f : Iteration(Int, 1, h, n, f)
  <2>1. Iterable(Int, 1, h)
    BY DEF Iterable
  <2> HIDE DEF h
  <2> QED
    BY <2>1, Iterates
<1>2. ASSUME NEW k \in 1..n PROVE f[k] = b * f[k - 1]
  <2>1. f[k - 1] \in Int /\ k \in Nat \ {0}
    BY <1>1 DEF Iteration
  <2> QED
    BY <1>1, <2>1 DEF Iteration
<1> QED
  BY <1>1, <1>2 DEF Products, Iteration

(* They are the powers of b.                                               *)
LEMMA PowerIs ==
  ASSUME NEW b \in Int, NEW n \in Nat
  PROVE  \E f \in [0..n -> Int] : Products(b, n, f) /\ \A k \in 0..n : f[k] = Power(b, k)
<1>3. PICK f \in [0..n -> Int] : Products(b, n, f)
  BY ProductsExist
<1>4. ASSUME NEW k \in 0..n PROVE f[k] = Power(b, k)
  <2> DEFINE g == CHOOSE x : Products(b, k, x)
  <2>1. k \in Nat
    OBVIOUS
  <2>2. Products(b, k, g)
    <3>1. \E x : Products(b, k, x)
      BY <2>1, ProductsExist
    <3> QED
      BY <3>1
  <2>3. Power(b, k) = g[k]
    BY DEF Power, Products
  <2> HIDE DEF g
  <2>4. Alike(f, g, k)
    BY <1>3, <2>1, <2>2 DEF Products, Alike
  <2>5. \A i \in 0..k : f[i] = g[i]
    BY <2>1, <2>4, Agree
  <2> QED
    BY <2>1, <2>3, <2>5
<1> QED BY <1>3, <1>4

(* The powers satisfy their recursive equations.                           *)
LEMMA PowerStep ==
  ASSUME NEW b \in Int, NEW n \in Nat
  PROVE  Power(b, 0) = 1 /\ Power(b, n) \in Int /\ Power(b, n + 1) = b * Power(b, n)
<1>1. PICK f \in [0..(n + 1) -> Int] : Products(b, n + 1, f) /\ \A k \in 0..(n + 1) : f[k] = Power(b, k)
  BY PowerIs, n + 1 \in Nat
<1>2. f[n] \in Int /\ f[0] = 1 /\ f[n + 1] = b * f[n]
  BY <1>1 DEF Products
<1> QED BY <1>1, <1>2

(* A positive base has positive powers.                                    *)
LEMMA PowerPositive ==
  ASSUME NEW b \in Nat \ {0}, NEW n \in Nat
  PROVE  Power(b, n) \in Nat \ {0}
<1> DEFINE S == {k \in Nat : Power(b, k) \in Nat \ {0}}
<1>1. 0 \in S
  BY PowerStep
<1>2. ASSUME NEW k \in Nat, k \in S PROVE k + 1 \in S
  <2>1. Power(b, k + 1) = b * Power(b, k)
    BY PowerStep
  <2>2. \A x \in Nat \ {0} : b * x \in Nat \ {0}
    OBVIOUS
  <2> QED
    BY <1>2, <2>1, <2>2
<1>3. Nat \subseteq S
  <2> HIDE DEF S
  <2> QED
    BY <1>1, <1>2, Induction
<1> QED BY <1>3

(* The power of a sum of exponents.                                        *)
LEMMA PowerPlus ==
  ASSUME NEW b \in Int, NEW m \in Nat, NEW n \in Nat
  PROVE  Power(b, m + n) = Power(b, m) * Power(b, n)
<1> DEFINE S == {k \in Nat : Power(b, m + k) = Power(b, m) * Power(b, k)}
<1>1. 0 \in S
  BY PowerStep
<1>2. ASSUME NEW k \in Nat, k \in S PROVE k + 1 \in S
  <2>1. /\ Power(b, k + 1) = b * Power(b, k) /\ Power(b, (m + k) + 1) = b * Power(b, m + k)
        /\ Power(b, m) \in Int /\ Power(b, k) \in Int
    BY PowerStep
  <2>2. (m + k) + 1 = m + (k + 1)
    OBVIOUS
  <2>3. \A x, y \in Int : b * (x * y) = x * (b * y)
    OBVIOUS
  <2> QED
    BY <1>2, <2>1, <2>2, <2>3
<1>3. Nat \subseteq S
  <2> HIDE DEF S
  <2> QED
    BY <1>1, <1>2, Induction
<1> QED BY <1>3

(* Powers of a positive base grow with the exponent.                       *)
LEMMA PowerMonotone ==
  ASSUME NEW b \in Nat \ {0}, NEW m \in Nat, NEW n \in Nat, m <= n
  PROVE  Power(b, m) <= Power(b, n)
<1>1. n - m \in Nat /\ m + (n - m) = n
  OBVIOUS
<1>2. Power(b, n) = Power(b, m) * Power(b, n - m)
  BY <1>1, PowerPlus
<1>3. Power(b, m) \in Nat \ {0} /\ Power(b, n - m) \in Nat \ {0}
  BY <1>1, PowerPositive
<1>4. \A x, y \in Nat \ {0} : x <= x * y
  OBVIOUS
<1> QED BY <1>2, <1>3, <1>4

-----------------------------------------------------------------------------
(* Sums.                                                                   *)

(* The partial sums of terms.                                              *)
PartialSums(terms, n, f) == f = [k \in 0..n |-> IF k = 0 THEN 0 ELSE f[k - 1] + terms[k]]

Terms(F, n) == n \in Nat /\ \A k \in 1..n : F[k] \in Int
FirstTerms(F, n) == [k \in 1..n |-> F[k]]

(* The partial sums of integers exist.                                     *)
LEMMA PartialSumsExist ==
  ASSUME NEW F, NEW n, Terms(F, n)
  PROVE  \E f \in [0..n -> Int] : PartialSums(F, n, f)
<1> USE DEF Terms
<1> DEFINE h == [k \in Nat \ {0} |-> [x \in Int |-> IF k <= n THEN x + F[k] ELSE x]]
<1>1. PICK f : Iteration(Int, 0, h, n, f)
  <2>1. Iterable(Int, 0, h)
    BY DEF Iterable
  <2> HIDE DEF h
  <2> QED
    BY <2>1, Iterates
<1>2. ASSUME NEW k \in 1..n PROVE f[k] = f[k - 1] + F[k]
  <2>1. f[k - 1] \in Int /\ k \in Nat \ {0} /\ f[k] = h[k][f[k - 1]]
    <3> HIDE DEF h
    <3> QED
      BY <1>1 DEF Iteration
  <2>2. h[k] = [x \in Int |-> x + F[k]]
    BY <2>1
  <2> QED
    BY <2>1, <2>2
<1> QED
  BY <1>1, <1>2 DEF PartialSums, Iteration

(* Sums are the last of their partial sums.                                *)
LEMMA SumIs ==
  ASSUME NEW F, NEW n, Terms(F, n), NEW f, PartialSums(F, n, f)
  PROVE  SumOf(FirstTerms(F, n)) = f[n]
<1> DEFINE T == FirstTerms(F, n)
           g == CHOOSE x : PartialSums(T, Len(T), x)
<1>1. n \in Nat /\ Len(T) = n /\ \A k \in 1..n : T[k] = F[k]
  BY DEF FirstTerms, Terms
<1>2. PartialSums(T, Len(T), g)
  <2>1. Terms(T, Len(T))
    BY <1>1 DEF Terms
  <2>2. \E x : PartialSums(T, Len(T), x)
    BY <2>1, PartialSumsExist
  <2> QED
    BY <2>2
<1>3. SumOf(T) = g[Len(T)]
  BY DEF SumOf, PartialSums
<1> HIDE DEF g, T
<1>4. Alike(f, g, n)
  BY <1>1, <1>2 DEF PartialSums, Alike
<1>5. \A k \in 0..n : f[k] = g[k]
  BY <1>1, <1>4, Agree
<1> QED
  BY <1>1, <1>3, <1>5 DEF T

(* The empty sum, and one term more.                                       *)
LEMMA SumEmpty ==
  ASSUME NEW F
  PROVE  SumOf(FirstTerms(F, 0)) = 0
<1>1. Terms(F, 0)
  BY DEF Terms
<1>2. PICK f \in [0..0 -> Int] : PartialSums(F, 0, f)
  BY <1>1, PartialSumsExist
<1>3. f[0] = 0
  BY <1>2 DEF PartialSums
<1> QED
  BY <1>1, <1>2, <1>3, SumIs

(* A sum with one more term.                                               *)
LEMMA SumStep ==
  ASSUME NEW F, NEW n \in Nat, Terms(F, n + 1)
  PROVE  /\ SumOf(FirstTerms(F, n)) \in Int
         /\ SumOf(FirstTerms(F, n + 1)) = SumOf(FirstTerms(F, n)) + F[n + 1]
<1>1. PICK f \in [0..(n + 1) -> Int] : PartialSums(F, n + 1, f)
  BY PartialSumsExist
<1>2. ASSUME NEW m \in 0..(n + 1) PROVE SumOf(FirstTerms(F, m)) = f[m]
  <2> DEFINE g == [k \in 0..m |-> f[k]]
  <2>1. Terms(F, m)
    BY DEF Terms
  <2>2. PartialSums(F, m, g)
    <3>1. \A k \in 0..m : g[k] = IF k = 0 THEN 0 ELSE g[k - 1] + F[k]
      BY <1>1 DEF PartialSums
    <3> QED
      BY <3>1 DEF PartialSums
  <2>3. g[m] = f[m]
    OBVIOUS
  <2> HIDE DEF g
  <2> QED
    BY <2>1, <2>2, <2>3, SumIs
<1>3. f[n] \in Int /\ f[n + 1] = f[n] + F[n + 1]
  BY <1>1 DEF PartialSums
<1> QED
  BY <1>2, <1>3

(* Quotient and remainder.                                                 *)
LEMMA DivMod ==
  ASSUME NEW x \in Int, NEW d \in Nat \ {0}
  PROVE  (x % d) \in 0..(d - 1) /\ x \div d \in Int /\ x = d * (x \div d) + (x % d)
OBVIOUS

(* Quotient and remainder are unique.                                      *)
LEMMA RemainderIs ==
  ASSUME NEW d \in Nat \ {0}, NEW x \in Int, NEW q \in Int, NEW r \in 0..(d - 1), x = d * q + r
  PROVE  x % d = r /\ x \div d = q
OBVIOUS

(* The remainder of a number below the divisor.                            *)
LEMMA ModSmall ==
  ASSUME NEW d \in Nat \ {0}, NEW x \in 0..(d - 1)
  PROVE  x % d = x
<1>1. x = d * 0 + x /\ x \in Int
  OBVIOUS
<1> QED
  BY <1>1, RemainderIs

(* A multiple of the divisor does not change the remainder.                *)
LEMMA ModMultiple ==
  ASSUME NEW d \in Nat \ {0}, NEW x \in Int, NEW q \in Int
  PROVE  (x + d * q) % d = x % d
<1> DEFINE t == x \div d
           r == x % d
<1>1. t \in Int /\ r \in 0..(d - 1) /\ x = d * t + r
  BY DivMod
<1>2. x + d * q = d * (t + q) + r /\ t + q \in Int /\ x + d * q \in Int
  <2> HIDE DEF t, r
  <2> QED
    BY <1>1
<1>3. (x + d * q) % d = r
  <2> HIDE DEF t, r
  <2> QED
    BY <1>1, <1>2, RemainderIs
<1> QED
  BY <1>3

(* The remainder of a sum can be taken of a term first.                    *)
LEMMA ModPlus ==
  ASSUME NEW x \in Int, NEW y \in Int, NEW d \in Nat \ {0}
  PROVE  ((x % d) + y) % d = (x + y) % d
<1>1. x = d * (x \div d) + (x % d) /\ x \div d \in Int /\ (x % d) \in Int
  BY DivMod
<1> DEFINE z == (x % d) + y
           q == (x \div d) + (z \div d)
<1>2. z \in Int /\ z = d * (z \div d) + (z % d) /\ (z % d) \in 0..(d - 1) /\ z \div d \in Int
  <2>1. z \in Int
    BY <1>1
  <2> HIDE DEF z
  <2> QED BY <2>1, DivMod
<1>3. x + y = d * q + (z % d) /\ q \in Int
  <2>1. \A p, s, r, t, u \in Int : p = d * s + r /\ r + y = d * t + u => p + y = d * (s + t) + u
    OBVIOUS
  <2> QED
   BY <1>1, <1>2, <2>1
<1>4. (x + y) % d = z % d
  <2> HIDE DEF q, z
  <2>1. x + y \in Int
    OBVIOUS
  <2> QED
    BY <1>2, <1>3, <2>1, RemainderIs
<1> QED
  BY <1>4

-----------------------------------------------------------------------------
(* Joined sequences.                                                       *)

(* The functions that start from a and compute each value from the one     *)
(* before it.                                                              *)
Recursions(X, n, a, h) ==
  {f \in [0..n -> X] : f[0] = a /\ \A i \in 1..n : f[i] = h[i][f[i - 1]]}

(* Such a function exists.                                                 *)
LEMMA RecursionExists ==
  ASSUME NEW X, NEW n \in Nat, NEW a \in X, NEW h \in [1..n -> [X -> X]]
  PROVE  Recursions(X, n, a, h) # {}
<1> DEFINE Has(k) == Recursions(X, k, a, h) # {}
           Bad == {k \in 0..n : ~Has(k)}
           m == Min(Bad)
<1> HIDE DEF Has
<1>1. SUFFICES ASSUME n \in Bad PROVE FALSE
  BY n \in 0..n DEF Has
<1>2. m \in Bad /\ \A x \in Bad : m <= x
  <2>1. Bad \in SUBSET Nat /\ Bad # {}
    BY <1>1
  <2> HIDE DEF Bad
  <2> QED
    BY <2>1, MinExists
<1>3. m \in 0..n /\ ~Has(m)
  BY <1>2
<1> HIDE DEF m
<1>4. m # 0
  <2> DEFINE f == [i \in 0..0 |-> a]
  <2>1. f \in Recursions(X, 0, a, h)
    BY DEF Recursions
  <2> QED
    BY <1>3, <2>1 DEF Has
<1>5. m - 1 \in 0..n /\ Has(m - 1) /\ m \in 1..n
  BY <1>2, <1>3, <1>4
<1>6. PICK g \in [0..(m - 1) -> X] : g[0] = a /\ \A i \in 1..(m - 1) : g[i] = h[i][g[i - 1]]
  BY <1>5 DEF Has, Recursions
<1> DEFINE f == [i \in 0..m |-> IF i = m THEN h[m][g[m - 1]] ELSE g[i]]
<1>7. h[m][g[m - 1]] \in X
  <2>1. m - 1 \in 0..(m - 1)
    BY <1>5
  <2>2. g[m - 1] \in X /\ h[m] \in [X -> X]
    BY <1>5, <1>6, <2>1
  <2> QED
    BY <2>2
<1>8. f \in [0..m -> X]
  <2>1. \A i \in 0..m : i = m \/ i \in 0..(m - 1)
    BY <1>5
  <2> QED
    BY <1>6, <1>7, <2>1
<1>9. f[0] = a
  BY <1>5, <1>6
<1>10. \A i \in 1..m : f[i] = h[i][f[i - 1]]
  <2> TAKE i \in 1..m
  <2>1. f[i - 1] = g[i - 1]
    BY <1>5
  <2>2. CASE i = m
    BY <2>1, <2>2, <1>5
  <2>3. CASE i # m
    <3>1. i \in 1..(m - 1) /\ f[i] = g[i]
      BY <2>3, <1>5
    <3> QED
      BY <1>6, <2>1, <3>1
  <2> QED
    BY <2>2, <2>3
<1>11. f \in Recursions(X, m, a, h)
  <2> HIDE DEF f
  <2> QED
    BY <1>8, <1>9, <1>10 DEF Recursions
<1> QED
  BY <1>3, <1>11 DEF Has

(* What FlattenSeq computes on the way.                                    *)
IsJoin(f, s) ==
  /\ f = [i \in 1..Len(s) |-> f[i]]
  /\ \A i \in 1..Len(s) : f[i] = IF i = 1 THEN s[i] ELSE f[i - 1] \o s[i]

(* Any function that satisfies its recursion computes FlattenSeq: the      *)
(* choice in its definition leaves nothing open.                           *)
LEMMA FlattenIs ==
  ASSUME NEW s, Len(s) \in Nat \ {0}, NEW f, IsJoin(f, s)
  PROVE  FlattenSeq(s) = f[Len(s)]
<1> DEFINE n == Len(s)
           Solves(g) == g = [i \in 1..n |-> IF i = 1 THEN s[i] ELSE g[i - 1] \o s[i]]
<1>1. Solves(f)
  <2>1. [i \in 1..n |-> f[i]] = [i \in 1..n |-> IF i = 1 THEN s[i] ELSE f[i - 1] \o s[i]]
    BY DEF IsJoin
  <2> QED
    BY <2>1 DEF IsJoin
<1>2. ASSUME NEW g, Solves(g)
      PROVE  g = f
  <2> DEFINE Bad == {i \in 1..n : g[i] # f[i]}
             m == Min(Bad)
  <2>1. ASSUME Bad # {}
        PROVE  FALSE
    <3>1. m \in Bad /\ \A x \in Bad : m <= x
      <4>1. Bad \in SUBSET Nat
        OBVIOUS
      <4> HIDE DEF Bad
      <4> QED
        BY <2>1, <4>1, MinExists
    <3>2. m \in 1..n /\ g[m] # f[m]
      BY <3>1
    <3> HIDE DEF m
    <3>3. m # 1
      BY <1>1, <1>2, <3>2
    <3>4. m - 1 \in 1..n /\ m - 1 \notin Bad
      BY <3>1, <3>2, <3>3
    <3>5. g[m - 1] = f[m - 1]
      BY <3>4
    <3>6. g[m] = g[m - 1] \o s[m] /\ f[m] = f[m - 1] \o s[m]
      BY <1>1, <1>2, <3>2, <3>3, <3>4
    <3> QED
      BY <3>2, <3>5, <3>6
  <2>2. \A i \in 1..n : g[i] = f[i]
    BY <2>1
  <2>3. g = [i \in 1..n |-> g[i]]
    BY <1>2
  <2> QED
    BY <2>2, <2>3 DEF IsJoin
<1>3. (CHOOSE g : Solves(g)) = f
  BY <1>1, <1>2
<1>4. Len(s) # 0
  OBVIOUS
<1> QED
  BY <1>3, <1>4 DEF FlattenSeq

(* There is such a function.                                               *)
LEMMA JoinExists ==
  ASSUME NEW S, NEW s \in Seq(Seq(S)), Len(s) # 0
  PROVE  \E f \in [1..Len(s) -> Seq(S)] : IsJoin(f, s)
<1> DEFINE n == Len(s)
           X == Seq(S)
           h == [i \in 1..n |-> [x \in X |-> x \o s[i]]]
<1>0. n \in Nat /\ 1 \in 1..n /\ \A i \in 1..n : i \in 0..n /\ i - 1 \in 0..n /\ (i # 1 => i - 1 \in 1..n)
  OBVIOUS
<1> HIDE DEF n
<1>1. \A i \in 1..n : s[i] \in X
  BY ElementOfSeq DEF n
<1>2. h \in [1..n -> [X -> X]]
  <2>1. \A i \in 1..n, x \in X : x \o s[i] \in X
    BY <1>1, ConcatProperties
  <2> QED
    BY <2>1
<1>3. <<>> \in X
  OBVIOUS
<1>4. Recursions(X, n, <<>>, h) # {}
  <2> HIDE DEF h, X
  <2> QED
    BY <1>0, <1>2, <1>3, RecursionExists
<1>5. PICK f \in [0..n -> X] : f[0] = <<>> /\ \A i \in 1..n : f[i] = h[i][f[i - 1]]
  <2> HIDE DEF h, X
  <2> QED
    BY <1>4 DEF Recursions
<1>6. \A i \in 1..n : f[i] = f[i - 1] \o s[i]
  BY <1>0, <1>5
<1>7. f[1] = s[1]
  <2>1. s[1] \in Seq(S) /\ 1 \in 1..n /\ 1 - 1 = 0
    BY <1>0, <1>1
  <2>2. f[1] = f[1 - 1] \o s[1]
    <3> HIDE DEF h, X
    <3> QED
      BY <1>6, <2>1
  <2>3. f[1 - 1] = <<>>
    <3> HIDE DEF h, X
    <3> QED
      BY <1>5, <2>1
  <2>4. <<>> \o s[1] = s[1]
    BY <2>1, ConcatEmptySeq
  <2> QED
    BY <2>2, <2>3, <2>4
<1> DEFINE g == [i \in 1..n |-> f[i]]
<1>8. g \in [1..n -> Seq(S)] /\ g = [i \in 1..n |-> g[i]]
  BY <1>0, <1>5
<1>9. \A i \in 1..n : g[i] = IF i = 1 THEN s[i] ELSE g[i - 1] \o s[i]
  BY <1>0, <1>6, <1>7
<1> QED
  <2> HIDE DEF g
  <2> QED
    BY <1>8, <1>9 DEF n, IsJoin

(* FlattenSeq joins the sequences of s, from the front on.                 *)
LEMMA FlattenAppend ==
  ASSUME NEW S, NEW s \in Seq(Seq(S)), NEW e \in Seq(S)
  PROVE  /\ FlattenSeq(s) \in Seq(S)
         /\ FlattenSeq(Append(s, e)) = FlattenSeq(s) \o e
<1> DEFINE n == Len(s)
           t == Append(s, e)
<1>1. /\ n \in Nat /\ t \in Seq(Seq(S)) /\ Len(t) = n + 1 /\ t[n + 1] = e
      /\ \A i \in 1..n : t[i] = s[i]
      /\ Len(t) # 0 /\ Len(t) \in Nat \ {0}
  BY AppendProperties
<1> HIDE DEF t
<1>2. PICK f \in [1..Len(t) -> Seq(S)] : IsJoin(f, t)
  BY <1>1, JoinExists
<1>3. FlattenSeq(t) = f[n + 1]
  BY <1>1, <1>2, FlattenIs
<1>4. \A i \in 1..(n + 1) : f[i] = IF i = 1 THEN t[i] ELSE f[i - 1] \o t[i]
  BY <1>1, <1>2 DEF IsJoin
<1>5. CASE n = 0
  <2>1. s = <<>> /\ FlattenSeq(s) = <<>>
    BY <1>5, EmptySeq DEF FlattenSeq
  <2>2. f[n + 1] = e
    BY <1>1, <1>4, <1>5
  <2>3. <<>> \in Seq(S)
    OBVIOUS
  <2> QED
    BY <1>3, <2>1, <2>2, <2>3, ConcatEmptySeq DEF t
<1>6. CASE n # 0
  <2> DEFINE g == [i \in 1..n |-> f[i]]
  <2>1. n \in Nat \ {0} /\ n \in 1..n /\ n \in 1..(n + 1) /\ \A i \in 1..n : i \in 1..(n + 1)
    BY <1>1, <1>6
  <2>2. g = [i \in 1..n |-> g[i]] /\ \A i \in 1..n : g[i] = f[i]
    OBVIOUS
  <2>3. \A i \in 1..n : g[i] = IF i = 1 THEN s[i] ELSE g[i - 1] \o s[i]
    <3> TAKE i \in 1..n
    <3>1. i # 1 => i - 1 \in 1..n
      BY <1>1
    <3>2. i \in 1..(n + 1) /\ t[i] = s[i]
      BY <1>1, <2>1
    <3> HIDE DEF g, n
    <3> QED
      BY <1>4, <2>2, <3>1, <3>2
  <2>4. IsJoin(g, s)
    <3> HIDE DEF g
    <3> QED
      BY <2>2, <2>3 DEF IsJoin
  <2>5. FlattenSeq(s) = f[n]
    <3>1. FlattenSeq(s) = g[Len(s)]
      <4> HIDE DEF g
      <4> QED
        BY <2>1, <2>4, FlattenIs
    <3> QED
      BY <2>1, <3>1
  <2>6. f[n] \in Seq(S) /\ f[n + 1] = f[n] \o e
    <3>1. n + 1 \in 1..(n + 1) /\ (n + 1) - 1 = n /\ n + 1 # 1
      BY <2>1
    <3>2. f[n + 1] = f[n] \o t[n + 1]
      <4> HIDE DEF n
      <4> QED
        BY <1>4, <3>1
    <3> QED
      BY <1>1, <1>2, <2>1, <3>2
  <2> QED
    BY <1>3, <2>5, <2>6 DEF t
<1> QED
  BY <1>5, <1>6

-----------------------------------------------------------------------------
(* Digits.                                                                 *)

(* The number that n digits d make in base b, the lowest first.            *)
Composed(b, d, n) == SumOf([k \in 1..n |-> d[k] * Power(b, k - 1)])
Digits(b, d, n)   == b \in Nat \ {0} /\ n \in Nat /\ \A k \in 1..n : d[k] \in 0..(b - 1)

(* No digits, and one digit more.                                          *)
LEMMA ComposedEmpty ==
  ASSUME NEW b, NEW d
  PROVE  Composed(b, d, 0) = 0
<1> DEFINE F == [k \in 1..0 |-> d[k] * Power(b, k - 1)]
<1>1. FirstTerms(F, 0) = F
  BY DEF FirstTerms
<1>2. Composed(b, d, 0) = SumOf(F)
  BY DEF Composed
<1> HIDE DEF F
<1> QED
  BY <1>1, <1>2, SumEmpty

(* One digit more.                                                         *)
LEMMA ComposedStep ==
  ASSUME NEW b, NEW d, NEW n \in Nat, Digits(b, d, n + 1)
  PROVE  /\ Composed(b, d, n) \in Int
         /\ Composed(b, d, n + 1) = Composed(b, d, n) + d[n + 1] * Power(b, n)
<1> DEFINE F == [k \in 1..(n + 1) |-> d[k] * Power(b, k - 1)]
<1>1. ASSUME NEW m \in 0..(n + 1) PROVE Composed(b, d, m) = SumOf(FirstTerms(F, m))
  <2>1. \A k \in 1..m : F[k] = d[k] * Power(b, k - 1)
    OBVIOUS
  <2> HIDE DEF F
  <2> QED
    BY <2>1 DEF Composed, FirstTerms
<1>2. Terms(F, n + 1)
  <2>1. ASSUME NEW k \in 1..(n + 1) PROVE F[k] \in Int
    <3>1. d[k] \in Int
      BY DEF Digits
    <3>2. Power(b, k - 1) \in Int
      BY PowerPositive, k - 1 \in Nat DEF Digits
    <3> QED
      BY <3>1, <3>2
  <2> QED
    BY <2>1 DEF Terms
<1>3. F[n + 1] = d[n + 1] * Power(b, n)
  <2>1. (n + 1) - 1 = n /\ n + 1 \in 1..(n + 1)
    OBVIOUS
  <2> QED
    BY <2>1
<1> HIDE DEF F
<1> QED
  BY <1>1, <1>2, <1>3, SumStep

(* Digits below the base make every number below its power, and no other.  *)
LEMMA ComposedRange ==
  ASSUME NEW b, NEW d, NEW n, Digits(b, d, n)
  PROVE  Composed(b, d, n) \in 0..(Power(b, n) - 1)
<1> DEFINE S == {k \in Nat : k <= n => Composed(b, d, k) \in 0..(Power(b, k) - 1)}
<1>0. b \in Nat \ {0} /\ n \in Nat
  BY DEF Digits
<1>1. 0 \in S
  <2>1. Composed(b, d, 0) = 0 /\ Power(b, 0) = 1
    BY <1>0, ComposedEmpty, PowerStep
  <2> QED
    BY <2>1
<1>2. ASSUME NEW k \in Nat, k \in S PROVE k + 1 \in S
  <2> SUFFICES ASSUME k + 1 <= n PROVE Composed(b, d, k + 1) \in 0..(Power(b, k + 1) - 1)
    OBVIOUS
  <2> DEFINE u == Composed(b, d, k)
             w == Power(b, k)
             x == d[k + 1]
  <2>1. Digits(b, d, k + 1) /\ x \in 0..(b - 1)
    BY <1>0 DEF Digits
  <2>2. u \in 0..(w - 1) /\ w \in Nat \ {0} /\ Power(b, k + 1) = b * w
    <3>1. k <= n
      BY <1>0
    <3> QED
      BY <1>0, <1>2, <3>1, PowerPositive, PowerStep
  <2>3. Composed(b, d, k + 1) = u + x * w
    BY <2>1, ComposedStep
  <2>4. \A c, p, q, r \in Nat : p < r /\ q < c => p + q * r \in 0..(c * r - 1)
    <3> SUFFICES ASSUME NEW c \in Nat, NEW p \in Nat, NEW q \in Nat, NEW r \in Nat, p < r, q < c
                 PROVE  p + q * r \in 0..(c * r - 1)
      OBVIOUS
    <3>1. q * r \in Nat /\ c * r \in Nat /\ (q + 1) * r <= c * r /\ (q + 1) * r = q * r + r
      OBVIOUS
    <3> QED
      BY <3>1
  <2> HIDE DEF u, w, x
  <2>5. u \in Nat /\ x \in Nat /\ w \in Nat /\ b \in Nat /\ u < w /\ x < b
    BY <1>0, <2>1, <2>2
  <2>6. u + x * w \in 0..(b * w - 1)
    BY <2>4, <2>5
  <2> QED
    BY <2>2, <2>3, <2>6
<1>3. Nat \subseteq S
  <2> HIDE DEF S
  <2> QED
    BY <1>1, <1>2, Induction
<1> QED
  BY <1>0, <1>3

(* Digit k of v, from 0.                                                   *)
DigitOf(b, v, k) == (v \div Power(b, k)) % b

(* A remainder of division by w, and the next digit.                       *)
LEMMA RemainderStep ==
  ASSUME NEW b \in Nat \ {0}, NEW w \in Nat \ {0}, NEW v \in Int
  PROVE  (v % (b * w)) = (v % w) + ((v \div w) % b) * w
<1> DEFINE r == v % w
           q == v \div w
           s == q % b
           t == q \div b
<1>1. r \in 0..(w - 1) /\ q \in Int /\ v = w * q + r
  BY DivMod
<1>2. s \in 0..(b - 1) /\ t \in Int /\ q = b * t + s
  <2> HIDE DEF q
  <2> QED
    BY <1>1, DivMod
<1> HIDE DEF r, q, s, t
<1>3. v = (b * w) * t + (r + s * w)
  <2>1. \A e, f, g, h, i \in Int : e * (f * g + h) + i = (f * e) * g + (i + h * e)
    OBVIOUS
  <2> QED
    BY <1>1, <1>2, <2>1
<1>4. r + s * w \in 0..(b * w - 1) /\ b * w \in Nat \ {0}
  <2>1. s * w \in Nat /\ b * w \in Nat \ {0} /\ (s + 1) * w <= b * w /\ (s + 1) * w = s * w + w
    BY <1>1, <1>2
  <2> QED
    BY <1>1, <2>1
<1> DEFINE d == b * w
           x == r + s * w
<1>5. v % d = x
  <2>1. v = d * t + x /\ x \in 0..(d - 1) /\ d \in Nat \ {0}
    BY <1>3, <1>4
  <2> HIDE DEF d, x
  <2> QED
    BY <1>2, <2>1, RemainderIs
<1> QED
  BY <1>5 DEF r, q, s

(* The first n digits of a number make its remainder.                      *)
LEMMA DigitsCompose ==
  ASSUME NEW b \in Nat \ {0}, NEW v \in Int, NEW n \in Nat, NEW d,
         \A k \in 1..n : d[k] = DigitOf(b, v, k - 1)
  PROVE  Composed(b, d, n) = v % Power(b, n)
<1> DEFINE S == {k \in Nat : k <= n => Composed(b, d, k) = v % Power(b, k)}
<1>1. 0 \in S
  <2>1. Composed(b, d, 0) = 0 /\ Power(b, 0) = 1 /\ v % 1 = 0
    BY ComposedEmpty, PowerStep
  <2> QED
    BY <2>1
<1>2. Digits(b, d, n)
  <2>1. ASSUME NEW k \in 1..n PROVE d[k] \in 0..(b - 1)
    <3>1. Power(b, k - 1) \in Nat \ {0}
      BY PowerPositive, k - 1 \in Nat
    <3>2. v \div Power(b, k - 1) \in Int
      BY <3>1, DivMod
    <3> DEFINE y == v \div Power(b, k - 1)
    <3>3. d[k] = y % b
      BY DEF DigitOf
    <3> HIDE DEF y
    <3> QED
      BY <3>2, <3>3, DivMod DEF y
  <2> QED
    BY <2>1 DEF Digits
<1>3. ASSUME NEW k \in Nat, k \in S PROVE k + 1 \in S
  <2> SUFFICES ASSUME k + 1 <= n PROVE Composed(b, d, k + 1) = v % Power(b, k + 1)
    OBVIOUS
  <2>1. Digits(b, d, k + 1)
    BY <1>2 DEF Digits
  <2>2. Composed(b, d, k + 1) = Composed(b, d, k) + d[k + 1] * Power(b, k)
    BY <2>1, ComposedStep
  <2>3. d[k + 1] = (v \div Power(b, k)) % b
    <3>1. k + 1 \in 1..n /\ (k + 1) - 1 = k
      OBVIOUS
    <3>2. d[k + 1] = DigitOf(b, v, (k + 1) - 1)
      BY <3>1
    <3> QED
      BY <3>1, <3>2 DEF DigitOf
  <2>4. Composed(b, d, k) = v % Power(b, k)
    BY <1>3
  <2>5. Power(b, k) \in Nat \ {0} /\ Power(b, k + 1) = b * Power(b, k)
    BY PowerPositive, PowerStep
  <2>6. v % (b * Power(b, k)) = (v % Power(b, k)) + ((v \div Power(b, k)) % b) * Power(b, k)
    BY <2>5, RemainderStep
  <2> QED
    BY <2>2, <2>3, <2>4, <2>5, <2>6
<1>4. Nat \subseteq S
  <2> HIDE DEF S
  <2> QED
    BY <1>1, <1>3, Induction
<1> QED
  BY <1>4

-----------------------------------------------------------------------------
(* Labels.                                                                 *)

(* Counted labels are positions up to the branch.                          *)
LEMMA CountedLabelsRange ==
  ASSUME NEW c, NEW p
  PROVE  CountedLabels(c, p) \subseteq 1..p
BY DEF CountedLabels, OpsAt

(* From any position on there are finitely many of them.                   *)
LEMMA CountedLabelsFinite ==
  ASSUME NEW c, NEW p \in Int, NEW q \in Int
  PROVE  /\ IsFiniteSet(CountedLabels(c, p) \cap (q..p))
         /\ Cardinality(CountedLabels(c, p) \cap (q..p)) \in Nat
<1>2. CountedLabels(c, p) \cap (q..p) \in SUBSET (q..p)
  OBVIOUS
<1>3. IsFiniteSet(CountedLabels(c, p) \cap (q..p))
  BY <1>2, FS_Interval, FS_Subset
<1> QED
  BY <1>3, FS_CardinalityType

(* The number of counted labels from q on goes up by one where q itself is *)
(* counted.                                                                *)
LEMMA CountedLabelsStep ==
  ASSUME NEW c, NEW p \in Int, NEW q \in Int, q <= p
  PROVE  Cardinality(CountedLabels(c, p) \cap (q..p)) =
           IF q \in CountedLabels(c, p)
           THEN Cardinality(CountedLabels(c, p) \cap ((q + 1)..p)) + 1
           ELSE Cardinality(CountedLabels(c, p) \cap ((q + 1)..p))
<1> DEFINE L == CountedLabels(c, p)
           S == L \cap ((q + 1)..p)
<1>1. IsFiniteSet(S)
  BY CountedLabelsFinite
<1>4. q \notin S
  OBVIOUS
<1>2. CASE q \in L
  <2>1. L \cap (q..p) = S \cup {q}
    BY <1>2
  <2>2. Cardinality(S \cup {q}) = Cardinality(S) + 1
    <3> HIDE DEF S
    <3> QED
      BY <1>1, <1>4, FS_AddElement
  <2> QED
    BY <1>2, <2>1, <2>2
<1>3. CASE q \notin L
  <2>1. L \cap (q..p) = S
    BY <1>3
  <2> QED
    BY <1>3, <2>1
<1> QED
  BY <1>2, <1>3

(* The farther up the walk is, the more labels it has counted.             *)
LEMMA CountedLabelsMonotone ==
  ASSUME NEW c, NEW p \in Int, NEW q \in Int, NEW r \in Int, q <= r
  PROVE  Cardinality(CountedLabels(c, p) \cap (r..p))
           <= Cardinality(CountedLabels(c, p) \cap (q..p))
<1>1. CountedLabels(c, p) \cap (r..p) \in SUBSET (CountedLabels(c, p) \cap (q..p))
  OBVIOUS
<1> QED
  BY <1>1, CountedLabelsFinite, FS_Subset

(* A label is counted at one position at most, so the walk for a label has *)
(* one place to stop.                                                      *)
LEMMA OneOpener ==
  ASSUME NEW c, NEW p \in Int, NEW k, NEW q \in BranchOpeners(c, p, k)
  PROVE  BranchOpeners(c, p, k) = {q} /\ BranchOpener(c, p, k) = q
<1> DEFINE N(i) == Cardinality(CountedLabels(c, p) \cap (i..p))
<1>1. ASSUME NEW x \in BranchOpeners(c, p, k), NEW y \in BranchOpeners(c, p, k), x < y
      PROVE  FALSE
  <2>1. x \in Int /\ y \in Int /\ x <= p
    BY CountedLabelsRange DEF BranchOpeners
  <2>2. N(x) = N(x + 1) + 1
    BY <2>1, CountedLabelsStep DEF BranchOpeners
  <2>3. N(y) <= N(x + 1)
    BY <1>1, <2>1, CountedLabelsMonotone, x + 1 \in Int, x + 1 <= y
  <2>4. N(x + 1) \in Nat /\ N(y) \in Nat
    <3>1. x + 1 \in Int /\ y \in Int
      BY <2>1
    <3>2. N(x + 1) \in Nat
      BY <3>1, CountedLabelsFinite
    <3>3. N(y) \in Nat
      BY <3>1, CountedLabelsFinite
    <3> QED
      BY <3>2, <3>3
  <2> QED
    BY <2>2, <2>3, <2>4 DEF BranchOpeners
<1>2. BranchOpeners(c, p, k) \subseteq Int
  BY CountedLabelsRange DEF BranchOpeners
<1>3. BranchOpeners(c, p, k) = {q}
  BY <1>1, <1>2
<1> QED
  BY <1>3 DEF BranchOpener

-----------------------------------------------------------------------------
(* Where the jumps go.                                                     *)

(* A skip goes forward, over at least one instruction, and stays in the    *)
(* list.                                                                   *)
LEMMA SkipTargetRange ==
  ASSUME NEW c \in Seq(Instr), NEW p \in 1..Len(c), SkipDefined(c, p)
  PROVE  SkipTarget(c, p) \in (p + 2)..(Len(c) + 1)
<1>1. Len(c) \in Nat
  OBVIOUS
<1>2. SkipStops(c, p) \subseteq (p + 1)..Len(c)
  BY DEF SkipStops
<1>3. SkipStops(c, p) \in SUBSET Nat /\ SkipStops(c, p) # {}
  BY <1>1, <1>2 DEF SkipDefined
<1>4. Min(SkipStops(c, p)) \in (p + 1)..Len(c)
  BY <1>2, <1>3, MinExists
<1> QED
  BY <1>1, <1>4 DEF SkipTarget

(* A branch goes to the first instruction of a Loop above it, or skips     *)
(* from a Block above it.                                                  *)
LEMMA BranchTargetIs ==
  ASSUME NEW c \in Seq(Instr), NEW p \in 1..Len(c), NEW k, BranchDefined(c, p, k)
  PROVE  \E q \in 1..p :
           /\ q \in BranchOpeners(c, p, k) /\ c[q].op \in LabelOps
           /\ \/ c[q].op = "Loop" /\ BranchTarget(c, p, k) = q + 1
              \/ /\ c[q].op = "Block" /\ SkipDefined(c, q)
                 /\ BranchTarget(c, p, k) = SkipTarget(c, q)
<1>1. PICK q \in BranchOpeners(c, p, k) : c[q].op = "Loop" \/ SkipDefined(c, q)
  BY DEF BranchDefined
<1>2. BranchOpener(c, p, k) = q
  BY OneOpener
<1>3. q \in 1..p /\ c[q].op \in LabelOps
  BY DEF BranchOpeners, CountedLabels, OpsAt
<1>4. BranchTarget(c, p, k) = IF c[q].op = "Loop" THEN q + 1 ELSE SkipTarget(c, q)
  BY <1>2 DEF BranchTarget
<1> QED
  BY <1>1, <1>3, <1>4 DEF LabelOps

(* So a branch stays in the list.                                          *)
LEMMA BranchTargetRange ==
  ASSUME NEW c \in Seq(Instr), NEW p \in 1..Len(c), NEW k, BranchDefined(c, p, k)
  PROVE  BranchTarget(c, p, k) \in 2..(Len(c) + 1)
<1>1. PICK q \in 1..p :
        \/ BranchTarget(c, p, k) = q + 1
        \/ SkipDefined(c, q) /\ BranchTarget(c, p, k) = SkipTarget(c, q)
  BY BranchTargetIs
<1>2. q \in 1..Len(c) /\ Len(c) \in Nat
  OBVIOUS
<1>3. SkipDefined(c, q) => SkipTarget(c, q) \in (q + 2)..(Len(c) + 1)
  BY <1>2, SkipTargetRange
<1> QED
  BY <1>1, <1>2, <1>3

-----------------------------------------------------------------------------
(* Structure.  The counters of the jumps and the constructs of a           *)
(* well-nested list: a construct is open at a position when no stretch     *)
(* from its opener on has more Ends than openers (Inside), and it is the   *)
(* innermost one when they balance (Directly).  This turns CloserOf, EndOf *)
(* and Enclosing, which are minima and sets of positions, into statements  *)
(* about one number, the Depth of a stretch.                               *)


(* Openers minus Ends at the positions a..b.                               *)
Depth(c, a, b) == Count(c, BlockOps, a, b) - Count(c, {"End"}, a, b)

(* The construct opened at q is still open in front of position p.         *)
Inside(c, q, p) ==
  /\ q \in 1..(p - 1) /\ c[q].op \in BlockOps
  /\ \A r \in q..(p - 1) : 0 <= Depth(c, q + 1, r)

(* It is the innermost one.                                                *)
Directly(c, q, p) == Inside(c, q, p) /\ Depth(c, q + 1, p - 1) = 0

-----------------------------------------------------------------------------
(* Depth.                                                                  *)

(* A depth is an integer, and 0 on the empty stretch.                      *)
LEMMA DepthType ==
  ASSUME NEW c, NEW a \in Int, NEW b \in Int
  PROVE  Depth(c, a, b) \in Int /\ (b < a => Depth(c, a, b) = 0)
<1>1. Count(c, BlockOps, a, b) \in Nat /\ Count(c, {"End"}, a, b) \in Nat
  BY CountType
<1>2. b < a => Count(c, BlockOps, a, b) = 0 /\ Count(c, {"End"}, a, b) = 0
  BY CountEmpty
<1> QED
  BY <1>1, <1>2 DEF Depth

(* One more instruction at the upper end.                                  *)
LEMMA DepthAbove ==
  ASSUME NEW c, NEW a \in Int, NEW b \in Int, a <= b
  PROVE  Depth(c, a, b) = IF c[b].op \in BlockOps THEN Depth(c, a, b - 1) + 1
                          ELSE IF c[b].op = "End" THEN Depth(c, a, b - 1) - 1
                          ELSE Depth(c, a, b - 1)
<1>1. b - 1 \in Int /\ a <= (b - 1) + 1 /\ (b - 1) + 1 = b
  OBVIOUS
<1>2. Count(c, BlockOps, a, b) =
        IF c[b].op \in BlockOps THEN Count(c, BlockOps, a, b - 1) + 1
        ELSE Count(c, BlockOps, a, b - 1)
  BY <1>1, CountAbove
<1>3. Count(c, {"End"}, a, b) =
        IF c[b].op \in {"End"} THEN Count(c, {"End"}, a, b - 1) + 1
        ELSE Count(c, {"End"}, a, b - 1)
  BY <1>1, CountAbove
<1>4. Count(c, BlockOps, a, b - 1) \in Nat /\ Count(c, {"End"}, a, b - 1) \in Nat
  BY <1>1, CountType
<1>5. "End" \notin BlockOps
  BY DEF BlockOps
<1> QED
  BY <1>2, <1>3, <1>4, <1>5 DEF Depth

(* A count over a stretch is the sum of those over its two parts.          *)
LEMMA CountSplit ==
  ASSUME NEW c, NEW ops, NEW a \in Int, NEW m \in Int, NEW b \in Int, a <= m + 1, m <= b
  PROVE  Count(c, ops, a, b) = Count(c, ops, a, m) + Count(c, ops, m + 1, b)
<1> DEFINE S == OpsAt(c, ops, a, m)
           T == OpsAt(c, ops, m + 1, b)
<1>1. /\ IsFiniteSet(S) /\ Cardinality(S) \in Nat
      /\ IsFiniteSet(T) /\ Cardinality(T) \in Nat
  BY CountType, m + 1 \in Int DEF Count
<1>2. S \cup T = OpsAt(c, ops, a, b) /\ S \cap T = {}
  BY DEF OpsAt
<1>3. Cardinality(S \cup T) = Cardinality(S) + Cardinality(T) - Cardinality(S \cap T)
  <2> HIDE DEF S, T
  <2> QED
    BY <1>1, FS_Union
<1>4. Cardinality(S \cap T) = 0
  BY <1>2, FS_EmptySet
<1>5. Cardinality(S \cup T) = Cardinality(S) + Cardinality(T)
  BY <1>1, <1>3, <1>4
<1> QED
  BY <1>2, <1>5 DEF Count

(* The depth over a range is the one over its parts.                       *)
LEMMA DepthSplit ==
  ASSUME NEW c, NEW a \in Int, NEW m \in Int, NEW b \in Int, a <= m + 1, m <= b
  PROVE  Depth(c, a, b) = Depth(c, a, m) + Depth(c, m + 1, b)
<1>1. /\ Count(c, BlockOps, a, b) = Count(c, BlockOps, a, m) + Count(c, BlockOps, m + 1, b)
      /\ Count(c, {"End"}, a, b) = Count(c, {"End"}, a, m) + Count(c, {"End"}, m + 1, b)
  BY CountSplit
<1>2. /\ Count(c, BlockOps, a, m) \in Nat /\ Count(c, BlockOps, m + 1, b) \in Nat
      /\ Count(c, {"End"}, a, m) \in Nat /\ Count(c, {"End"}, m + 1, b) \in Nat
  BY CountType, m + 1 \in Int
<1> QED
  BY <1>1, <1>2 DEF Depth

(* A stretch around an opener is one deeper than its two sides.            *)
LEMMA DepthAround ==
  ASSUME NEW c, NEW a \in Int, NEW q \in Int, NEW b \in Int, a <= q, q <= b,
         c[q].op \in BlockOps
  PROVE  Depth(c, a, b) = Depth(c, a, q - 1) + 1 + Depth(c, q + 1, b)
<1>1. Depth(c, a, b) = Depth(c, a, q) + Depth(c, q + 1, b)
  BY DepthSplit, a <= q + 1
<1>2. Depth(c, a, q) = Depth(c, a, q - 1) + 1
  BY DepthAbove
<1> QED
  BY <1>1, <1>2

(* A stretch with more Ends than openers holds a first End that is one too *)
(* many.                                                                   *)
LEMMA FirstUnmatchedEnd ==
  ASSUME NEW c, NEW a \in Nat \ {0}, NEW b \in Int, Depth(c, a, b) < 0
  PROVE  \E s \in a..b :
           /\ c[s].op = "End" /\ Depth(c, a, s - 1) = 0
           /\ \A r \in (a - 1)..(s - 1) : 0 <= Depth(c, a, r)
<1> DEFINE S == {s \in a..b : Depth(c, a, s) < 0}
           s == Min(S)
<1>1. a <= b
  BY DepthType
<1>2. S \in SUBSET Nat /\ S # {}
  BY <1>1
<1>3. s \in S /\ \A x \in S : s <= x
  <2> HIDE DEF S
  <2> QED
    BY <1>2, MinExists
<1>4. \A r \in (a - 1)..(s - 1) : 0 <= Depth(c, a, r)
  <2> SUFFICES ASSUME NEW r \in (a - 1)..(s - 1), Depth(c, a, r) < 0
               PROVE  FALSE
    BY <1>3, DepthType
  <2>1. r \in Int /\ r < s /\ a <= r
    BY <1>3, DepthType
  <2>2. r \in S
    BY <1>3, <2>1
  <2> QED
    BY <1>3, <2>1, <2>2
<1>5. s \in Int /\ a <= s /\ s - 1 \in (a - 1)..(s - 1)
  BY <1>3
<1>6. 0 <= Depth(c, a, s - 1) /\ Depth(c, a, s - 1) \in Int /\ Depth(c, a, s) < 0
  BY <1>3, <1>4, <1>5, DepthType
<1>7. c[s].op = "End" /\ Depth(c, a, s - 1) = 0
  <2> HIDE DEF s
  <2> QED
    BY <1>5, <1>6, DepthAbove
<1> QED
  BY <1>3, <1>4, <1>7

-----------------------------------------------------------------------------
(* Closers.                                                                *)

(* CloserOf is the first Else or End at depth 0, and no End comes too      *)
(* early before it.                                                        *)
LEMMA CloserIs ==
  ASSUME NEW c \in Seq(Instr), NEW p \in 1..Len(c), Closers(c, p) # {}
  PROVE  /\ CloserOf(c, p) \in (p + 1)..Len(c)
         /\ c[CloserOf(c, p)].op \in {"Else", "End"}
         /\ Depth(c, p + 1, CloserOf(c, p) - 1) = 0
         /\ \A r \in p..(CloserOf(c, p) - 1) : 0 <= Depth(c, p + 1, r)
<1> DEFINE q == CloserOf(c, p)
<1>1. Len(c) \in Nat /\ p \in Nat \ {0} /\ p \in Int
  OBVIOUS
<1>2. \A x : x \in Closers(c, p) <=> /\ x \in (p + 1)..Len(c)
                                     /\ c[x].op \in {"Else", "End"}
                                     /\ Depth(c, p + 1, x - 1) <= 0
  <2> SUFFICES ASSUME NEW x \in (p + 1)..Len(c)
               PROVE  Count(c, BlockOps, p + 1, x - 1) <= Count(c, {"End"}, p + 1, x - 1)
                        <=> Depth(c, p + 1, x - 1) <= 0
    BY DEF Closers
  <2>1. /\ Count(c, BlockOps, p + 1, x - 1) \in Nat
        /\ Count(c, {"End"}, p + 1, x - 1) \in Nat
    BY <1>1, CountType, p + 1 \in Int, x - 1 \in Int
  <2> QED
    BY <2>1 DEF Depth
<1>3. q \in Closers(c, p) /\ \A x \in Closers(c, p) : q <= x
  <2>1. Closers(c, p) \in SUBSET Nat
    BY <1>1, <1>2
  <2> QED
    BY <2>1, MinExists DEF CloserOf
<1>4. /\ q \in (p + 1)..Len(c) /\ c[q].op \in {"Else", "End"}
      /\ Depth(c, p + 1, q - 1) <= 0
  BY <1>2, <1>3
<1> HIDE DEF q
<1>5. \A r \in p..(q - 1) : 0 <= Depth(c, p + 1, r)
  <2> SUFFICES ASSUME NEW r \in p..(q - 1), Depth(c, p + 1, r) < 0
               PROVE  FALSE
    BY <1>1, <1>4, DepthType, p + 1 \in Int
  <2>1. p + 1 \in Nat \ {0} /\ r \in Int
    BY <1>1, <1>4
  <2>2. PICK s \in (p + 1)..r : c[s].op = "End" /\ Depth(c, p + 1, s - 1) = 0
    BY <2>1, FirstUnmatchedEnd
  <2>3. s \in Closers(c, p)
    BY <1>1, <1>2, <1>4, <2>2, SMTT(30)
  <2> QED
    BY <1>1, <1>3, <1>4, <2>3
<1>6. q - 1 \in p..(q - 1) /\ Depth(c, p + 1, q - 1) \in Int
  BY <1>1, <1>4, DepthType, p + 1 \in Int, q - 1 \in Int
<1>7. Depth(c, p + 1, q - 1) = 0
  BY <1>4, <1>5, <1>6
<1> QED
  BY <1>4, <1>5, <1>7 DEF q

(* An Else or End at which the stretch behind p is balanced for the first  *)
(* time is the closer of p.                                                *)
LEMMA CloserIsFirst ==
  ASSUME NEW c \in Seq(Instr), NEW p \in 1..Len(c), NEW x \in (p + 1)..Len(c),
         c[x].op \in {"Else", "End"}, Depth(c, p + 1, x - 1) <= 0
  PROVE  Closers(c, p) # {} /\ CloserOf(c, p) <= x
<1>1. Len(c) \in Nat /\ p \in Int
  OBVIOUS
<1>2. Count(c, BlockOps, p + 1, x - 1) <= Count(c, {"End"}, p + 1, x - 1)
  <2>1. /\ Count(c, BlockOps, p + 1, x - 1) \in Nat
        /\ Count(c, {"End"}, p + 1, x - 1) \in Nat
    BY <1>1, CountType, p + 1 \in Int, x - 1 \in Int
  <2> QED
    BY <2>1 DEF Depth
<1>3. x \in Closers(c, p)
  BY <1>2 DEF Closers
<1>4. Closers(c, p) \in SUBSET Nat
  BY <1>1 DEF Closers
<1> QED
  BY <1>3, <1>4, MinExists DEF CloserOf

(* Behind a position at which a construct is open there is a closer.       *)
LEMMA ClosersExist ==
  ASSUME NEW c \in Seq(Instr), WellNested(c), NEW p \in 1..Len(c), 0 < Depth(c, 1, p)
  PROVE  Closers(c, p) # {}
<1>1. Len(c) \in Nat /\ p + 1 \in Nat \ {0}
  OBVIOUS
<1>2. Depth(c, 1, Len(c)) = Depth(c, 1, p) + Depth(c, p + 1, Len(c))
  BY <1>1, DepthSplit
<1>3. Depth(c, 1, Len(c)) = 0
  <2>1. Count(c, BlockOps, 1, Len(c)) \in Nat
    BY <1>1, CountType
  <2> QED
    BY <2>1 DEF WellNested, Depth
<1>4. Depth(c, 1, p) \in Int /\ Depth(c, p + 1, Len(c)) \in Int
  BY <1>1, DepthType
<1>5. PICK s \in (p + 1)..Len(c) : c[s].op = "End" /\ Depth(c, p + 1, s - 1) = 0
  BY <1>1, <1>2, <1>3, <1>4, FirstUnmatchedEnd
<1> QED
  BY <1>5, CloserIsFirst

(* In a well-nested list some construct is open behind an opener and       *)
(* behind an Else.                                                         *)
LEMMA OpenBehind ==
  ASSUME NEW c \in Seq(Instr), WellNested(c), NEW p \in 1..Len(c),
         c[p].op \in BlockOps \cup {"Else"}
  PROVE  0 < Depth(c, 1, p)
<1>1. Len(c) \in Nat /\ 1 \in Int
  OBVIOUS
<1>2. \A i \in 0..Len(c) : 0 <= Depth(c, 1, i) /\ Depth(c, 1, i) \in Int
  <2> TAKE i \in 0..Len(c)
  <2>1. CASE i = 0
    BY <2>1, DepthType
  <2>2. CASE i # 0
    <3>1. Count(c, {"End"}, 1, i) <= Count(c, BlockOps, 1, i)
      BY <2>2, <1>1 DEF WellNested
    <3>2. Count(c, {"End"}, 1, i) \in Nat /\ Count(c, BlockOps, 1, i) \in Nat
      BY CountType
    <3> QED
      BY <3>1, <3>2 DEF Depth
  <2> QED
    BY <2>1, <2>2
<1>3. \A q \in 1..Len(c) : c[q].op \in BlockOps => 0 < Depth(c, 1, q)
  <2> SUFFICES ASSUME NEW q \in 1..Len(c), c[q].op \in BlockOps
               PROVE  0 < Depth(c, 1, q)
    OBVIOUS
  <2>1. Depth(c, 1, q) = Depth(c, 1, q - 1) + 1
    BY DepthAbove
  <2>2. q - 1 \in 0..Len(c)
    BY <1>1
  <2> QED
    BY <1>2, <2>1, <2>2
<1>4. CASE c[p].op = "Else"
  <2>1. PICK o \in OpsAt(c, {"If"}, 1, p) : CloserOf(c, o) = p
    BY <1>1, <1>4 DEF WellNested, OpsAt
  <2>2. o \in 1..p /\ c[o].op = "If" /\ o \in 1..Len(c) /\ o # p
    BY <1>1, <1>4, <2>1 DEF OpsAt
  <2>3. 0 < Depth(c, 1, o)
    BY <1>3, <2>2 DEF BlockOps
  <2>4. Closers(c, o) # {}
    BY <2>2, <2>3, ClosersExist
  <2>5. Depth(c, o + 1, p - 1) = 0
    BY <2>1, <2>2, <2>4, CloserIs
  <2>6. Depth(c, 1, p) = Depth(c, 1, p - 1)
    BY <1>4, DepthAbove DEF BlockOps
  <2>7. Depth(c, 1, p - 1) = Depth(c, 1, o) + Depth(c, o + 1, p - 1)
    BY <2>2, DepthSplit, p - 1 \in Int, 1 <= o + 1, o <= p - 1
  <2> QED
    BY <1>2, <2>2, <2>3, <2>5, <2>6, <2>7
<1> QED
  BY <1>3, <1>4

(* So both have a closer.                                                  *)
LEMMA HasCloser ==
  ASSUME NEW c \in Seq(Instr), WellNested(c), NEW p \in 1..Len(c),
         c[p].op \in BlockOps \cup {"Else"}
  PROVE  Closers(c, p) # {}
BY OpenBehind, ClosersExist

(* An opener's closer lies directly in its construct.                      *)
LEMMA CloserDirectly ==
  ASSUME NEW c \in Seq(Instr), WellNested(c), NEW p \in 1..Len(c), c[p].op \in BlockOps
  PROVE  Directly(c, p, CloserOf(c, p))
<1>1. Closers(c, p) # {}
  BY HasCloser
<1>2. CloserOf(c, p) \in (p + 1)..Len(c) /\ Len(c) \in Nat
  BY <1>1, CloserIs
<1> QED
  BY <1>1, <1>2, CloserIs DEF Directly, Inside

(* Of two constructs that are open at a position, the outer one is deeper  *)
(* there.                                                                  *)
LEMMA OuterIsDeeper ==
  ASSUME NEW c, NEW p \in Int, NEW a, NEW b, Inside(c, a, p), Inside(c, b, p), a < b
  PROVE  Depth(c, b + 1, p - 1) < Depth(c, a + 1, p - 1)
<1>1. /\ a \in 1..(p - 1) /\ b \in 1..(p - 1) /\ c[b].op \in BlockOps
      /\ 0 <= Depth(c, a + 1, b - 1)
  <2>1. a \in 1..(p - 1) /\ b \in 1..(p - 1) /\ c[b].op \in BlockOps
    BY DEF Inside
  <2>2. b - 1 \in a..(p - 1)
    BY <2>1
  <2> QED
    BY <2>1, <2>2 DEF Inside
<1>2. Depth(c, a + 1, p - 1) = Depth(c, a + 1, b - 1) + 1 + Depth(c, b + 1, p - 1)
  BY <1>1, DepthAround, a + 1 \in Int, b \in Int, p - 1 \in Int, a + 1 <= b, b <= p - 1
<1>3. Depth(c, a + 1, b - 1) \in Int /\ Depth(c, b + 1, p - 1) \in Int
  BY <1>1, DepthType, a + 1 \in Int, b - 1 \in Int, p - 1 \in Int, b + 1 \in Int
<1> QED
  BY <1>1, <1>2, <1>3

(* A position lies directly in one construct at most.                      *)
LEMMA DirectlyUnique ==
  ASSUME NEW c, NEW p \in Int, NEW a, NEW b, Directly(c, a, p), Directly(c, b, p)
  PROVE  a = b
<1>1. a \in 1..(p - 1) /\ b \in 1..(p - 1)
  BY DEF Directly, Inside
<1>2. ~(a < b) /\ ~(b < a)
  BY OuterIsDeeper DEF Directly
<1> QED
  BY <1>1, <1>2

(* An Else belongs to the construct it lies directly in, which is an if.   *)
LEMMA ElseOwner ==
  ASSUME NEW c \in Seq(Instr), WellNested(c), NEW x \in 1..Len(c), c[x].op = "Else"
  PROVE  \E o \in 1..(x - 1) :
           /\ c[o].op = "If" /\ CloserOf(c, o) = x /\ Directly(c, o, x)
           /\ \A q : Directly(c, q, x) => q = o
<1>1. Len(c) \in Nat
  OBVIOUS
<1>2. PICK o \in OpsAt(c, {"If"}, 1, x) : CloserOf(c, o) = x
  BY <1>1 DEF WellNested, OpsAt
<1>3. o \in 1..Len(c) /\ o <= x /\ c[o].op = "If" /\ o # x
  BY <1>1, <1>2 DEF OpsAt
<1>4. Directly(c, o, x)
  BY <1>2, <1>3, CloserDirectly DEF BlockOps
<1>5. \A q : Directly(c, q, x) => q = o
  BY <1>4, DirectlyUnique
<1> QED
  BY <1>2, <1>3, <1>4, <1>5

(* EndOf is the End that lies directly in the construct, behind its Else   *)
(* if it has one; only an if has one.                                      *)
LEMMA EndIs ==
  ASSUME NEW c \in Seq(Instr), WellNested(c), NEW p \in 1..Len(c), c[p].op \in BlockOps
  PROVE  /\ EndOf(c, p) \in (p + 1)..Len(c) /\ c[EndOf(c, p)].op = "End"
         /\ Directly(c, p, EndOf(c, p))
         /\ CloserOf(c, p) <= EndOf(c, p)
         /\ c[p].op # "If" => EndOf(c, p) = CloserOf(c, p)
<1> DEFINE e == CloserOf(c, p)
<1>1. /\ e \in (p + 1)..Len(c) /\ c[e].op \in {"Else", "End"} /\ Directly(c, p, e)
      /\ Len(c) \in Nat
  BY HasCloser, CloserIs, CloserDirectly
<1>2. CASE c[e].op # "Else"
  BY <1>1, <1>2 DEF EndOf
<1>3. CASE c[e].op = "Else"
  <2> DEFINE f == CloserOf(c, e)
  <2>1. c[p].op = "If"
    BY <1>1, <1>3, ElseOwner
  <2>2. e \in 1..Len(c) /\ Closers(c, e) # {}
    BY <1>1, <1>3, HasCloser
  <2>3. /\ f \in (e + 1)..Len(c) /\ c[f].op \in {"Else", "End"}
        /\ Depth(c, e + 1, f - 1) = 0
        /\ \A r \in e..(f - 1) : 0 <= Depth(c, e + 1, r)
    BY <2>2, CloserIs
  <2> HIDE DEF e, f
  <2>4. /\ Depth(c, p + 1, e - 1) = 0
        /\ \A r \in p..(e - 1) : 0 <= Depth(c, p + 1, r)
    BY <1>1 DEF Directly, Inside
  <2>5. Depth(c, p + 1, e) = 0
    BY <1>1, <1>3, <2>4, DepthAbove, p + 1 \in Int, e \in Int, p + 1 <= e DEF BlockOps
  <2>6. \A r \in e..(f - 1) : Depth(c, p + 1, r) = Depth(c, e + 1, r)
    <3> TAKE r \in e..(f - 1)
    <3>1. /\ p + 1 \in Int /\ e \in Int /\ r \in Int /\ p + 1 <= e + 1 /\ e <= r
          /\ e + 1 \in Int
      BY <1>1, <2>3
    <3>2. Depth(c, p + 1, r) = Depth(c, p + 1, e) + Depth(c, e + 1, r)
      BY <3>1, DepthSplit
    <3> QED
      BY <2>5, <3>1, <3>2, DepthType
  <2>7. Directly(c, p, f)
    <3>1. p \in 1..(f - 1) /\ f - 1 \in e..(f - 1)
      BY <1>1, <2>3
    <3>2. \A r \in p..(f - 1) : r \in p..(e - 1) \/ r \in e..(f - 1)
      BY <1>1, <2>3
    <3> QED
      BY <2>3, <2>4, <2>6, <3>1, <3>2 DEF Directly, Inside
  <2>8. c[f].op # "Else"
    <3> SUFFICES ASSUME c[f].op = "Else" PROVE FALSE
      OBVIOUS
    <3>1. f \in 1..Len(c)
      BY <1>1, <2>3
    <3>2. CloserOf(c, p) = f
      BY <2>7, <3>1, ElseOwner
    <3> QED
      BY <1>1, <2>3, <3>2 DEF e
  <2>9. EndOf(c, p) = f
    BY <1>3 DEF EndOf, e, f
  <2> QED
    BY <1>1, <2>1, <2>3, <2>7, <2>8, <2>9 DEF e
<1> QED
  BY <1>2, <1>3

(* The enclosing constructs are the ones that are open.                    *)
LEMMA EnclosingIs ==
  ASSUME NEW c \in Seq(Instr), WellNested(c), NEW p \in 1..(Len(c) + 1), NEW q
  PROVE  q \in Enclosing(c, p) <=> Inside(c, q, p)
<1>1. Len(c) \in Nat
  OBVIOUS
<1> SUFFICES ASSUME q \in 1..(p - 1), c[q].op \in BlockOps
             PROVE  p <= EndOf(c, q) <=> Inside(c, q, p)
  BY DEF Enclosing, OpsAt, Inside
<1> DEFINE e == EndOf(c, q)
<1>2. q \in 1..Len(c)
  BY <1>1
<1>3. e \in (q + 1)..Len(c) /\ c[e].op = "End" /\ Directly(c, q, e)
  BY <1>2, EndIs
<1> HIDE DEF e
<1>4. ASSUME p <= e
      PROVE  Inside(c, q, p)
  <2>1. \A r \in q..(p - 1) : r \in q..(e - 1)
    BY <1>1, <1>3, <1>4
  <2> QED
    BY <1>3, <2>1 DEF Directly, Inside
<1>5. ASSUME e < p, Inside(c, q, p)
      PROVE  FALSE
  <2>1. q + 1 \in Int /\ e \in Int /\ q + 1 <= e /\ e \in q..(p - 1)
    BY <1>1, <1>2, <1>3, <1>5
  <2>2. Depth(c, q + 1, e) = Depth(c, q + 1, e - 1) - 1
    BY <1>3, <2>1, DepthAbove DEF BlockOps
  <2> QED
    BY <1>3, <1>5, <2>1, <2>2 DEF Directly, Inside
<1> QED
  BY <1>1, <1>3, <1>4, <1>5 DEF e

-----------------------------------------------------------------------------
(* Skips.                                                                  *)

(* Counts of disjoint sets of opcodes add up.                              *)
LEMMA CountDisjoint ==
  ASSUME NEW c, NEW ops1, NEW ops2, ops1 \cap ops2 = {}, NEW a \in Int, NEW b \in Int
  PROVE  Count(c, ops1 \cup ops2, a, b) = Count(c, ops1, a, b) + Count(c, ops2, a, b)
<1> DEFINE S == OpsAt(c, ops1, a, b)
           T == OpsAt(c, ops2, a, b)
<1>1. /\ IsFiniteSet(S) /\ Cardinality(S) \in Nat
      /\ IsFiniteSet(T) /\ Cardinality(T) \in Nat
  BY CountType DEF Count
<1>2. S \cup T = OpsAt(c, ops1 \cup ops2, a, b) /\ S \cap T = {}
  BY DEF OpsAt
<1>3. Cardinality(S \cup T) = Cardinality(S) + Cardinality(T) - Cardinality(S \cap T)
  <2> HIDE DEF S, T
  <2> QED
    BY <1>1, FS_Union
<1>4. Cardinality(S \cap T) = 0
  BY <1>2, FS_EmptySet
<1>5. Cardinality(S \cup T) = Cardinality(S) + Cardinality(T)
  BY <1>1, <1>3, <1>4
<1> QED
  BY <1>2, <1>5 DEF Count

(* skip_control_block stops at the closer at the latest, because an Else   *)
(* it passes only lowers its counter; with no Else in between it stops     *)
(* exactly there.                                                          *)
LEMMA SkipReachesCloser ==
  ASSUME NEW c \in Seq(Instr), NEW p \in 1..Len(c), Closers(c, p) # {}
  PROVE  /\ SkipDefined(c, p)
         /\ SkipTarget(c, p) <= CloserOf(c, p) + 1
         /\ CleanSkip(c, p) => SkipTarget(c, p) = CloserOf(c, p) + 1
<1> DEFINE e == CloserOf(c, p)
           s == Min(SkipStops(c, p))
<1>1. /\ Len(c) \in Nat /\ e \in (p + 1)..Len(c) /\ c[e].op \in {"Else", "End"}
      /\ Depth(c, p + 1, e - 1) = 0
  BY CloserIs
<1>2. \A x \in (p + 1)..Len(c) :
        /\ Count(c, BlockOps, p + 1, x - 1) \in Nat
        /\ Count(c, {"Else", "End"}, p + 1, x - 1) \in Nat
        /\ Count(c, {"Else"}, p + 1, x - 1) \in Nat
        /\ Count(c, {"End"}, p + 1, x - 1) \in Nat
        /\ Count(c, {"Else", "End"}, p + 1, x - 1)
             = Count(c, {"Else"}, p + 1, x - 1) + Count(c, {"End"}, p + 1, x - 1)
  <2> TAKE x \in (p + 1)..Len(c)
  <2>1. p + 1 \in Int /\ x - 1 \in Int
    BY <1>1
  <2>2. {"Else", "End"} = {"Else"} \cup {"End"} /\ {"Else"} \cap {"End"} = {}
    OBVIOUS
  <2>3. Count(c, {"Else"} \cup {"End"}, p + 1, x - 1)
          = Count(c, {"Else"}, p + 1, x - 1) + Count(c, {"End"}, p + 1, x - 1)
    BY <2>1, <2>2, CountDisjoint
  <2> QED
    BY <2>1, <2>2, <2>3, CountType
<1>3. e \in SkipStops(c, p)
  <2> HIDE DEF e
  <2>1. /\ Count(c, BlockOps, p + 1, e - 1) <= Count(c, {"Else", "End"}, p + 1, e - 1)
    BY <1>1, <1>2 DEF Depth
  <2> QED
    BY <1>1, <2>1 DEF SkipStops
<1>4. s \in SkipStops(c, p) /\ s <= e
  <2>1. SkipStops(c, p) \in SUBSET Nat
    BY <1>1 DEF SkipStops
  <2> QED
    BY <1>3, <2>1, MinExists
<1>5. s \in (p + 1)..Len(c) /\ c[s].op \in {"Else", "End"}
      /\ Count(c, BlockOps, p + 1, s - 1) <= Count(c, {"Else", "End"}, p + 1, s - 1)
  BY <1>4 DEF SkipStops
<1> HIDE DEF s
<1>6. ASSUME CleanSkip(c, p)
      PROVE  e <= s
  <2>1. OpsAt(c, {"Else"}, p + 1, s - 1) = {}
    BY <1>1, <1>4, <1>5, <1>6 DEF CleanSkip, OpsAt
  <2>2. Count(c, {"Else"}, p + 1, s - 1) = 0
    BY <2>1, FS_EmptySet DEF Count
  <2>3. Depth(c, p + 1, s - 1) <= 0
    BY <1>2, <1>5, <2>2 DEF Depth
  <2> QED
    BY <1>5, <2>3, CloserIsFirst
<1> HIDE DEF e
<1> QED
  BY <1>1, <1>3, <1>4, <1>5, <1>6 DEF SkipDefined, SkipTarget, e, s

-----------------------------------------------------------------------------
(* Branches.                                                               *)

(* A Block or Loop that no End above the branch cancels encloses it: the   *)
(* walk never stops at a construct the branch is not in.                   *)
LEMMA CountedEncloses ==
  ASSUME NEW c \in Seq(Instr), WellNested(c), NEW p \in 1..Len(c), c[p].op \in BranchOps,
         NEW q \in CountedLabels(c, p)
  PROVE  q \in 1..(p - 1) /\ c[q].op \in LabelOps /\ Inside(c, q, p) /\ q \in Enclosing(c, p)
<1>1. Len(c) \in Nat /\ p \in Int
  OBVIOUS
<1>2. q \in 1..p /\ c[q].op \in LabelOps
  BY DEF CountedLabels, OpsAt
<1>3. q # p
  BY <1>2 DEF BranchOps, LabelOps
<1>4. LabelOps \subseteq BlockOps
  BY DEF LabelOps, BlockOps
<1>5. \A r \in q..(p - 1) : 0 <= Depth(c, q + 1, r)
  <2> TAKE r \in q..(p - 1)
  <2>1. q + 1 \in Int /\ r \in Int /\ r \in q..p
    BY <1>1, <1>2
  <2>2. Count(c, {"End"}, q + 1, r) <= Count(c, LabelOps, q + 1, r)
    BY <2>1 DEF CountedLabels
  <2>3. Count(c, LabelOps, q + 1, r) <= Count(c, BlockOps, q + 1, r)
    BY <1>4, <2>1, CountMonotone
  <2>4. /\ Count(c, {"End"}, q + 1, r) \in Nat /\ Count(c, LabelOps, q + 1, r) \in Nat
        /\ Count(c, BlockOps, q + 1, r) \in Nat
    BY <2>1, CountType
  <2> QED
    BY <2>2, <2>3, <2>4 DEF Depth
<1>6. Inside(c, q, p)
  BY <1>1, <1>2, <1>3, <1>4, <1>5 DEF Inside
<1>7. q \in Enclosing(c, p)
  BY <1>1, <1>6, EnclosingIs, p \in 1..(Len(c) + 1)
<1> QED
  BY <1>1, <1>2, <1>3, <1>6, <1>7

(* Inside a Block or Loop, every Else comes with the If it belongs to.     *)
LEMMA ElsesHaveIfs ==
  ASSUME NEW c \in Seq(Instr), WellNested(c), NEW p \in 1..(Len(c) + 1),
         NEW q, Inside(c, q, p), c[q].op \in LabelOps, NEW r \in q..(p - 1)
  PROVE  Count(c, {"Else"}, q + 1, r) <= Count(c, {"If"}, q + 1, r)
<1>1. Len(c) \in Nat /\ q \in 1..(p - 1) /\ c[q].op # "If"
  BY DEF Inside, LabelOps
<1> DEFINE E == OpsAt(c, {"Else"}, q + 1, r)
           I == OpsAt(c, {"If"}, q + 1, r)
           f == [e \in E |-> CHOOSE o \in I : CloserOf(c, o) = e]
<1>2. \A e \in E : \E o \in I : CloserOf(c, o) = e
  <2> TAKE e \in E
  <2>1. e \in (q + 1)..r /\ c[e].op = "Else" /\ e \in 1..Len(c)
    BY <1>1 DEF OpsAt
  <2>2. PICK o \in 1..(e - 1) : /\ c[o].op = "If" /\ CloserOf(c, o) = e
                                /\ Directly(c, o, e)
    BY <2>1, ElseOwner
  <2>3. Inside(c, q, e)
    <3>1. q \in 1..(e - 1) /\ \A x \in q..(e - 1) : x \in q..(p - 1)
      BY <1>1, <2>1
    <3> QED
      BY <3>1 DEF Inside
  <2>4. ~(o < q)
    <3> SUFFICES ASSUME o < q PROVE FALSE
      OBVIOUS
    <3>1. Depth(c, q + 1, e - 1) < Depth(c, o + 1, e - 1)
      BY <2>1, <2>2, <2>3, OuterIsDeeper, e \in Int DEF Directly
    <3>2. e - 1 \in q..(e - 1)
      BY <1>1, <2>1
    <3>3. 0 <= Depth(c, q + 1, e - 1) /\ Depth(c, q + 1, e - 1) \in Int
      BY <1>1, <2>3, <3>2, DepthType, q + 1 \in Int DEF Inside
    <3> QED
      BY <2>2, <3>1, <3>3 DEF Directly
  <2>5. o \in I
    BY <1>1, <2>1, <2>2, <2>4 DEF OpsAt
  <2> QED
    BY <2>2, <2>5
<1>3. f \in Injection(E, I)
  <2>1. \A e \in E : f[e] \in I /\ CloserOf(c, f[e]) = e
    BY <1>2
  <2>2. f \in [E -> I]
    BY <2>1
  <2>3. \A a, b \in E : f[a] = f[b] => a = b
    BY <2>1
  <2> HIDE DEF f, E, I
  <2> QED
    BY <2>2, <2>3 DEF Injection, IsInjective
<1>4. IsFiniteSet(I)
  BY <1>1, CountType, q + 1 \in Int, r \in Int
<1>5. Cardinality(E) <= Cardinality(I)
  <2> HIDE DEF E, I, f
  <2> QED
    BY <1>3, <1>4, FS_Injection
<1> QED
  BY <1>5 DEF Count

(* A skip that starts at a counted Block goes past the branch: no branch   *)
(* that leaves a Block goes backward.                                      *)
LEMMA SkipPassesBranch ==
  ASSUME NEW c \in Seq(Instr), WellNested(c), NEW p \in 1..Len(c), c[p].op \in BranchOps,
         NEW q \in CountedLabels(c, p), NEW s \in SkipStops(c, q)
  PROVE  p < s
<1>1. Len(c) \in Nat /\ p \in Int
  OBVIOUS
<1>2. /\ q \in 1..(p - 1) /\ c[q].op \in LabelOps /\ Inside(c, q, p)
  BY CountedEncloses
<1>3. /\ s \in (q + 1)..Len(c) /\ c[s].op \in {"Else", "End"}
      /\ Count(c, BlockOps, q + 1, s - 1) <= Count(c, {"Else", "End"}, q + 1, s - 1)
  BY DEF SkipStops
<1>4. s # p
  BY <1>3 DEF BranchOps
<1> SUFFICES ASSUME s < p PROVE FALSE
  BY <1>1, <1>3, <1>4
<1>5. /\ q + 1 \in Int /\ s - 1 \in Int /\ s \in Int /\ s \in q..p /\ s - 1 \in q..p
      /\ s \in q..(p - 1) /\ s - 1 \in q..(p - 1) /\ q + 1 <= (s - 1) + 1 /\ (s - 1) + 1 = s
  BY <1>1, <1>2, <1>3
<1> DEFINE N(ops, r) == Count(c, ops, q + 1, r)
<1>6. \A ops : N(ops, s - 1) \in Nat
  BY <1>5, CountType
<1>7. /\ N(BlockOps, s - 1) = N(LabelOps, s - 1) + N({"If"}, s - 1)
      /\ N({"Else", "End"}, s - 1) = N({"Else"}, s - 1) + N({"End"}, s - 1)
  <2>1. /\ BlockOps = LabelOps \cup {"If"} /\ LabelOps \cap {"If"} = {}
        /\ {"Else", "End"} = {"Else"} \cup {"End"} /\ {"Else"} \cap {"End"} = {}
    BY DEF BlockOps, LabelOps
  <2>2. /\ N(LabelOps \cup {"If"}, s - 1) = N(LabelOps, s - 1) + N({"If"}, s - 1)
        /\ N({"Else"} \cup {"End"}, s - 1) = N({"Else"}, s - 1) + N({"End"}, s - 1)
    BY <1>5, <2>1, CountDisjoint
  <2> QED
    BY <2>1, <2>2
<1>8. \A r \in q..p : N({"End"}, r) <= N(LabelOps, r)
  BY DEF CountedLabels
<1>9. \A r \in q..(p - 1) : N({"Else"}, r) <= N({"If"}, r)
  BY <1>1, <1>2, ElsesHaveIfs, p \in 1..(Len(c) + 1)
<1>10. \A ops : N(ops, s) = IF c[s].op \in ops THEN N(ops, s - 1) + 1 ELSE N(ops, s - 1)
  BY <1>5, CountAbove
<1>11. "End" \notin LabelOps
  BY DEF LabelOps
<1>12. N(BlockOps, s - 1) <= N({"Else", "End"}, s - 1)
  BY <1>3
<1> HIDE DEF N
<1>13. /\ N(LabelOps, s - 1) = N({"End"}, s - 1)
       /\ N({"If"}, s - 1) = N({"Else"}, s - 1)
  BY <1>5, <1>6, <1>7, <1>8, <1>9, <1>12
<1>14. CASE c[s].op = "End"
  BY <1>5, <1>6, <1>8, <1>10, <1>11, <1>13, <1>14
<1>15. CASE c[s].op = "Else"
  BY <1>5, <1>6, <1>9, <1>10, <1>13, <1>15
<1> QED
  BY <1>3, <1>14, <1>15

-----------------------------------------------------------------------------
(* Labels by number.                                                       *)

(* Of a finite set of positions, exactly one has k elements above it.      *)
LEMMA RankExists ==
  ASSUME NEW n \in Nat, NEW S \in SUBSET (1..n), NEW k \in Nat, k < Cardinality(S)
  PROVE  \E q \in S : Cardinality({r \in S : r > q}) = k
<1> DEFINE Above(q) == {r \in S : r > q}
           T == {q \in 0..n : Cardinality(Above(q)) <= k}
           m == Min(T)
<1>0. \A r \in S : r \in Int /\ 1 <= r /\ r <= n
  OBVIOUS
<1>1. IsFiniteSet(S) /\ \A q : IsFiniteSet(Above(q)) /\ Cardinality(Above(q)) \in Nat
  <2>1. IsFiniteSet(S)
    BY FS_Interval, FS_Subset, 1 \in Int, n \in Int
  <2>2. \A q : Above(q) \in SUBSET S
    OBVIOUS
  <2>3. \A q : IsFiniteSet(Above(q))
    BY <2>1, <2>2, FS_Subset
  <2> QED
    BY <2>1, <2>3, FS_CardinalityType
<1>2. n \in T
  <2>1. \A r \in S : ~(r > n)
    BY <1>0
  <2>2. Above(n) = {}
    BY <2>1
  <2> QED
    BY <2>2, FS_EmptySet
<1>3. m \in T /\ \A x \in T : m <= x
  <2>1. T \in SUBSET Nat
    OBVIOUS
  <2> HIDE DEF T
  <2> QED
    BY <1>2, <2>1, MinExists
<1> HIDE DEF m
<1>4. m \in 0..n /\ Cardinality(Above(m)) <= k
  BY <1>3
<1>5. m # 0
  <2>0. \A r \in S : r > 0
    BY <1>0
  <2>1. Above(0) = S
    BY <2>0
  <2>2. Cardinality(S) \in Nat
    BY <1>1, FS_CardinalityType
  <2> QED
    BY <1>4, <2>1, <2>2
<1>6. m - 1 \in 0..n /\ m - 1 \notin T
  BY <1>3, <1>4, <1>5
<1>7. k < Cardinality(Above(m - 1))
  BY <1>1, <1>6
<1>8. m \in S
  <2> SUFFICES ASSUME m \notin S PROVE FALSE
    OBVIOUS
  <2>0. \A r \in S : r > m - 1 <=> r > m
    BY <1>0, <1>4
  <2>1. Above(m - 1) = Above(m)
    BY <2>0
  <2> QED
    BY <1>1, <1>4, <1>7, <2>1
<1>9. Cardinality(Above(m - 1)) = Cardinality(Above(m)) + 1
  <2>0. ~(m > m) /\ \A r \in S : r > m - 1 <=> r > m \/ r = m
    BY <1>0, <1>4
  <2>1. Above(m - 1) = Above(m) \cup {m} /\ m \notin Above(m)
    BY <1>8, <2>0
  <2>2. Cardinality(Above(m) \cup {m}) = Cardinality(Above(m)) + 1
    <3> HIDE DEF Above
    <3> QED
      BY <1>1, <2>1, FS_AddElement
  <2> QED
    BY <2>1, <2>2
<1>10. Cardinality(Above(m)) = k
  <2> HIDE DEF Above
  <2> QED
    BY <1>1, <1>4, <1>7, <1>9
<1> QED
  BY <1>8, <1>10

(* A position of a set is determined by how many are above it.             *)
LEMMA RankUnique ==
  ASSUME NEW n \in Nat, NEW S \in SUBSET (1..n), NEW a \in S, NEW b \in S,
         Cardinality({r \in S : r > a}) = Cardinality({r \in S : r > b})
  PROVE  a = b
<1> DEFINE Above(q) == {r \in S : r > q}
<1>0. \A r \in S : r \in Int /\ 1 <= r /\ r <= n
  OBVIOUS
<1>1. IsFiniteSet(S)
  BY FS_Interval, FS_Subset, 1 \in Int, n \in Int
<1>2. ASSUME NEW x \in S, NEW y \in S, x < y, Cardinality(Above(x)) = Cardinality(Above(y))
      PROVE  FALSE
  <2>0. ~(y > y) /\ y > x /\ \A r \in S : r > y => r > x
    BY <1>0, <1>2
  <2>1. Above(y) \in SUBSET Above(x) /\ y \in Above(x) /\ y \notin Above(y)
    BY <2>0
  <2>2. Above(x) \in SUBSET S
    OBVIOUS
  <2> HIDE DEF Above
  <2>3. IsFiniteSet(Above(x))
    BY <1>1, <2>2, FS_Subset
  <2>4. Above(x) = Above(y)
    BY <1>2, <2>1, <2>3, FS_Subset
  <2> QED
    BY <2>1, <2>4
<1> QED
  BY <1>2

(* A label of valid code names an enclosing construct.                     *)
LEMMA LabelOpenerIs ==
  ASSUME NEW c, NEW p \in Nat \ {0}, NEW k \in Nat, k < Cardinality(Enclosing(c, p))
  PROVE  /\ LabelOpener(c, p, k) \in Enclosing(c, p)
         /\ Cardinality({r \in Enclosing(c, p) : r > LabelOpener(c, p, k)}) = k
<1>1. Enclosing(c, p) \in SUBSET (1..(p - 1)) /\ p - 1 \in Nat
  BY DEF Enclosing, OpsAt
<1>2. \E q \in Enclosing(c, p) : Cardinality({r \in Enclosing(c, p) : r > q}) = k
  BY <1>1, RankExists, ZenonT(30)
<1> QED
  BY <1>2 DEF LabelOpener

(* With no If between the branch and the construct its label names, the    *)
(* walk of branch_block stops there, and the branch goes where the label   *)
(* says.                                                                   *)
LEMMA CleanBranchLands ==
  ASSUME NEW c \in Seq(Instr), WellNested(c), NEW p \in 1..Len(c), c[p].op \in BranchOps,
         NEW k \in Nat, CleanBranch(c, p, k)
  PROVE  /\ LabelOpener(c, p, k) \in BranchOpeners(c, p, k)
         /\ c[LabelOpener(c, p, k)].op \in LabelOps
         /\ BranchDefined(c, p, k)
         /\ BranchTarget(c, p, k) = LabelTarget(c, p, k)
<1> DEFINE o == LabelOpener(c, p, k)
           En == Enclosing(c, p)
           Up == {r \in En : r > o}
<1>1. Len(c) \in Nat /\ p \in Nat \ {0} /\ p \in Int /\ p \in 1..(Len(c) + 1)
  OBVIOUS
<1>2. /\ k < Cardinality(En) /\ OpsAt(c, {"If"}, o, p) = {}
      /\ c[o].op = "Block" => CleanSkip(c, o)
  BY DEF CleanBranch
<1>3. o \in En /\ Cardinality(Up) = k
  BY <1>1, <1>2, LabelOpenerIs
<1>4. En \in SUBSET (1..(p - 1)) /\ \A q \in En : Inside(c, q, p) /\ c[q].op \in BlockOps
  <2>1. \A q \in En : Inside(c, q, p)
    BY <1>1, EnclosingIs
  <2> QED
    BY <2>1 DEF Inside
<1> HIDE DEF o, En
<1>5. \A q \in o..p : c[q].op # "If"
  BY <1>2 DEF OpsAt
<1>6. \A q \in En : q >= o => q \in CountedLabels(c, p)
  <2> SUFFICES ASSUME NEW q \in En, q >= o PROVE q \in CountedLabels(c, p)
    OBVIOUS
  <2>1. q \in 1..(p - 1) /\ q \in o..p /\ o \in 1..(p - 1)
    BY <1>1, <1>3, <1>4
  <2>2. c[q].op \in LabelOps
    BY <1>4, <1>5, <2>1 DEF BlockOps, LabelOps
  <2>3. \A r \in q..p : Depth(c, q + 1, r) = Count(c, LabelOps, q + 1, r) - Count(c, {"End"}, q + 1, r)
    <3> TAKE r \in q..p
    <3>1. OpsAt(c, BlockOps, q + 1, r) = OpsAt(c, LabelOps, q + 1, r)
      BY <1>1, <1>5, <2>1 DEF OpsAt, BlockOps, LabelOps
    <3> QED
      BY <3>1 DEF Depth, Count
  <2>4. \A r \in q..p : 0 <= Depth(c, q + 1, r)
    <3>1. \A r \in q..(p - 1) : 0 <= Depth(c, q + 1, r)
      BY <1>4 DEF Inside
    <3>2. 0 <= Depth(c, q + 1, p)
      <4>1. Depth(c, q + 1, p) = Depth(c, q + 1, p - 1)
        BY <1>1, <2>1, DepthAbove, q + 1 \in Int, q + 1 <= p DEF BranchOps, BlockOps
      <4> QED
        BY <1>1, <2>1, <3>1, <4>1
    <3> QED
      BY <1>1, <2>1, <3>1, <3>2
  <2>5. \A r \in q..p : Count(c, {"End"}, q + 1, r) <= Count(c, LabelOps, q + 1, r)
    <3> TAKE r \in q..p
    <3>1. Count(c, {"End"}, q + 1, r) \in Nat /\ Count(c, LabelOps, q + 1, r) \in Nat
      BY <2>1, CountType, q + 1 \in Int, r \in Int
    <3> QED
      BY <2>3, <2>4, <3>1
  <2> QED
    BY <2>1, <2>2, <2>5 DEF CountedLabels, OpsAt
<1>7. CountedLabels(c, p) \subseteq En
  BY CountedEncloses DEF En
<1>8. CountedLabels(c, p) \cap (o..p) = Up \cup {o}
  <2>1. \A q \in En : q \in Int /\ q < p
    BY <1>1, <1>4
  <2>2. \A q : q \in CountedLabels(c, p) /\ q \in o..p <=> q \in En /\ q >= o
    BY <1>1, <1>3, <1>6, <1>7, <2>1
  <2>3. \A q \in En : q >= o <=> q > o \/ q = o
    BY <1>3, <2>1
  <2> QED
    BY <1>3, <2>2, <2>3
<1>9. Cardinality(Up \cup {o}) = k + 1
  <2>1. IsFiniteSet(En)
    BY <1>1, <1>4, FS_Interval, FS_Subset, 1 \in Int, p - 1 \in Int
  <2>2. Up \in SUBSET En /\ o \notin Up
    BY <1>3, <1>4
  <2> HIDE DEF Up
  <2>3. IsFiniteSet(Up)
    BY <2>1, <2>2, FS_Subset
  <2> QED
    BY <1>3, <2>2, <2>3, FS_AddElement
<1>10. o \in BranchOpeners(c, p, k)
  BY <1>1, <1>3, <1>4, <1>6, <1>8, <1>9 DEF BranchOpeners
<1>11. /\ o \in 1..Len(c) /\ c[o].op \in LabelOps /\ c[o].op \in BlockOps
  BY <1>1, <1>3, <1>4, <1>5 DEF BlockOps, LabelOps
<1>12. BranchOpener(c, p, k) = o
  BY <1>1, <1>10, OneOpener
<1>13. c[o].op = "Block" => SkipDefined(c, o) /\ SkipTarget(c, o) = EndOf(c, o) + 1
  BY <1>2, <1>11, HasCloser, SkipReachesCloser, EndIs
<1>14. BranchDefined(c, p, k)
  BY <1>10, <1>11, <1>13 DEF BranchDefined, LabelOps
<1>15. Cardinality(En) \in Nat /\ ~(k >= Cardinality(En))
  <2>1. IsFiniteSet(En)
    BY <1>1, <1>4, FS_Interval, FS_Subset, 1 \in Int, p - 1 \in Int
  <2> QED
    BY <1>2, <2>1, FS_CardinalityType
<1>16. LabelTarget(c, p, k) = IF c[o].op = "Loop" THEN o + 1 ELSE EndOf(c, o) + 1
  BY <1>15 DEF LabelTarget, o, En
<1>17. BranchTarget(c, p, k) = LabelTarget(c, p, k)
  BY <1>11, <1>12, <1>13, <1>16 DEF BranchTarget, LabelOps
<1> QED
  BY <1>10, <1>11, <1>14, <1>17 DEF o

(* The parts of a finite set are finite.                                   *)
LEMMA PositionsFinite ==
  ASSUME NEW n \in Nat, NEW S \in SUBSET (1..n)
  PROVE  /\ IsFiniteSet(S) /\ Cardinality(S) \in Nat
         /\ \A T \in SUBSET S : /\ IsFiniteSet(T) /\ Cardinality(T) \in Nat
                                /\ Cardinality(T) <= Cardinality(S)
<1>1. IsFiniteSet(S)
  BY FS_Interval, FS_Subset, 1 \in Int, n \in Int
<1> QED
  BY <1>1, FS_Subset, FS_CardinalityType

(* Whatever lies in its way, a branch that stays in the list restarts a    *)
(* Loop it is in, or leaves a Block it is in for a position behind the     *)
(* branch and not behind the End of the Block.  At least as many           *)
(* constructs as the label says lie between the two.                       *)
LEMMA BranchStaysInside ==
  ASSUME NEW c \in Seq(Instr), WellNested(c), NEW p \in 1..Len(c), c[p].op \in BranchOps,
         NEW k, BranchDefined(c, p, k)
  PROVE  \E q \in Enclosing(c, p) :
           /\ q \in 1..(p - 1)
           /\ \/ c[q].op = "Loop" /\ BranchTarget(c, p, k) = q + 1
              \/ /\ c[q].op = "Block" /\ p < BranchTarget(c, p, k)
                 /\ BranchTarget(c, p, k) <= EndOf(c, q) + 1
           /\ k \in Nat => k <= Cardinality({r \in Enclosing(c, p) : r > q})
<1>1. Len(c) \in Nat /\ p \in Int
  OBVIOUS
<1>2. PICK q \in 1..p :
        /\ q \in BranchOpeners(c, p, k) /\ c[q].op \in LabelOps
        /\ \/ c[q].op = "Loop" /\ BranchTarget(c, p, k) = q + 1
           \/ /\ c[q].op = "Block" /\ SkipDefined(c, q)
              /\ BranchTarget(c, p, k) = SkipTarget(c, q)
  BY BranchTargetIs
<1>3. q \in CountedLabels(c, p)
  BY <1>2 DEF BranchOpeners
<1>4. q \in 1..(p - 1) /\ q \in Enclosing(c, p)
  BY <1>3, CountedEncloses
<1>5. ASSUME k \in Nat
      PROVE  k <= Cardinality({r \in Enclosing(c, p) : r > q})
  <2> DEFINE up == {r \in Enclosing(c, p) : r > q}
             passed == CountedLabels(c, p) \cap (q..p)
  <2>1. IsFiniteSet(up) /\ q \notin up
    <3>1. up \in SUBSET (1..(p - 1)) /\ p - 1 \in Nat
      BY <1>1 DEF Enclosing, OpsAt
    <3>2. q \notin up
      BY <1>1
    <3>3. IsFiniteSet(up)
      <4> HIDE DEF up
      <4> QED
        BY <3>1, PositionsFinite
    <3> QED
      BY <3>2, <3>3
  <2>2. Cardinality(passed) = k + 1
    BY <1>2 DEF BranchOpeners
  <2>3. passed \in SUBSET (up \cup {q})
    <3>1. CountedLabels(c, p) \subseteq Enclosing(c, p)
      BY CountedEncloses
    <3>2. \A r \in q..p : r > q \/ r = q
      OBVIOUS
    <3> QED
      BY <3>1, <3>2
  <2> HIDE DEF up, passed
  <2>4. Cardinality(up \cup {q}) = Cardinality(up) + 1 /\ IsFiniteSet(up \cup {q})
    BY <2>1, FS_AddElement
  <2>5. Cardinality(passed) <= Cardinality(up \cup {q})
    BY <2>3, <2>4, FS_Subset
  <2>6. Cardinality(up) \in Nat
    BY <2>1, FS_CardinalityType
  <2>7. k <= Cardinality(up)
    BY <1>5, <2>2, <2>4, <2>5, <2>6
  <2> QED
    BY <2>7 DEF up
<1>6. CASE c[q].op = "Block"
  <2>1. q \in 1..Len(c) /\ c[q].op \in BlockOps
    BY <1>1, <1>4, <1>6 DEF BlockOps
  <2>2. SkipTarget(c, q) <= EndOf(c, q) + 1
    BY <1>6, <2>1, HasCloser, SkipReachesCloser, EndIs
  <2>3. SkipStops(c, q) \in SUBSET Nat /\ SkipStops(c, q) # {}
    BY <1>1, <1>2, <1>6, <2>1 DEF SkipStops, SkipDefined
  <2>4. Min(SkipStops(c, q)) \in SkipStops(c, q) /\ Min(SkipStops(c, q)) \in Nat
    BY <2>3, MinExists
  <2>5. p < Min(SkipStops(c, q))
    BY <1>3, <2>4, SkipPassesBranch
  <2>6. p < SkipTarget(c, q)
    BY <1>1, <2>4, <2>5 DEF SkipTarget
  <2> QED
    BY <1>2, <1>4, <1>5, <1>6, <2>2, <2>6
<1> QED
  BY <1>2, <1>4, <1>5, <1>6 DEF LabelOps

-----------------------------------------------------------------------------
(* Sets of positions as stacks.                                            *)

(* Each entry is the element with that many above it.                      *)
LEMMA StackEntry ==
  ASSUME NEW n \in Nat, NEW S \in SUBSET (1..n)
  PROVE  /\ StackOf(S) \in Seq(S) /\ Len(StackOf(S)) = Cardinality(S)
         /\ \A j \in 1..Cardinality(S) :
              /\ StackOf(S)[j] \in S
              /\ Cardinality({r \in S : r > StackOf(S)[j]}) = Cardinality(S) - j
         /\ \A q \in S, j \in 1..Cardinality(S) :
              Cardinality({r \in S : r > q}) = Cardinality(S) - j => StackOf(S)[j] = q
<1> DEFINE d == Cardinality(S)
           Rank(q) == Cardinality({r \in S : r > q})
<1>1. d \in Nat
  BY PositionsFinite
<1>2. \A j \in 1..d : StackOf(S)[j] \in S /\ Rank(StackOf(S)[j]) = d - j
  <2> TAKE j \in 1..d
  <2>1. d - j \in Nat /\ d - j < d
    BY <1>1
  <2>2. \E q \in S : Rank(q) = d - j
    BY <2>1, RankExists
  <2>3. StackOf(S)[j] = CHOOSE q \in S : Rank(q) = d - j
    BY DEF StackOf
  <2> HIDE DEF Rank, d
  <2> QED
    BY <2>2, <2>3
<1>3. StackOf(S) \in [1..d -> S]
  BY <1>2 DEF StackOf
<1>4. StackOf(S) \in Seq(S) /\ Len(StackOf(S)) = d
  <2> HIDE DEF d
  <2> QED
    BY <1>1, <1>3
<1>5. \A q \in S, j \in 1..d : Rank(q) = d - j => StackOf(S)[j] = q
  <2> SUFFICES ASSUME NEW q \in S, NEW j \in 1..d, Rank(q) = d - j
               PROVE  StackOf(S)[j] = q
    OBVIOUS
  <2>1. StackOf(S)[j] \in S /\ Rank(StackOf(S)[j]) = Rank(q)
    BY <1>2
  <2>2. \A a, b \in S : Rank(a) = Rank(b) => a = b
    BY RankUnique
  <2> HIDE DEF d, Rank
  <2> QED
    BY <2>1, <2>2
<1> QED
  BY <1>2, <1>4, <1>5

(* A part of S below the rest of S is the lower end of the stack.          *)
LEMMA StackPrefix ==
  ASSUME NEW n \in Nat, NEW S \in SUBSET (1..n), NEW T \in SUBSET S,
         \A x \in T, y \in S : y < x => y \in T
  PROVE  StackOf(T) = SubSeq(StackOf(S), 1, Cardinality(T))
<1> DEFINE d == Cardinality(S)
           e == Cardinality(T)
<1>1. d \in Nat /\ e \in Nat /\ e <= d /\ IsFiniteSet(S) /\ T \in SUBSET (1..n)
  BY PositionsFinite
<1>2. \A j \in 1..e : StackOf(T)[j] = StackOf(S)[j]
  <2> TAKE j \in 1..e
  <2> DEFINE t == StackOf(T)[j]
             A == {r \in S : r > t}
             B == {r \in T : r > t}
  <2>1. t \in T /\ Cardinality(B) = e - j
    BY <1>1, StackEntry
  <2> HIDE DEF t
  <2>2. \A r \in S : r \notin T => r > t
    <3>1. \A r \in S : r \in Int
      OBVIOUS
    <3> QED
      BY <2>1, <3>1
  <2>3. A \ B = S \ T
    BY <2>2
  <2>4. /\ IsFiniteSet(A) /\ Cardinality(A) \in Nat
        /\ Cardinality(A \ B) = Cardinality(A) - Cardinality(A \cap B)
        /\ Cardinality(S \ T) = Cardinality(S) - Cardinality(S \cap T)
    <3>1. A \in SUBSET S
      OBVIOUS
    <3> HIDE DEF A, B
    <3> QED
      BY <1>1, <3>1, PositionsFinite, FS_Difference
  <2>5. A \cap B = B /\ S \cap T = T
    BY <2>1
  <2>6. Cardinality(A) = d - j
    <3>1. Cardinality(S \ T) = d - e
      BY <2>4, <2>5
    <3>2. Cardinality(A \ B) = Cardinality(A) - Cardinality(B)
      BY <2>4, <2>5
    <3>3. Cardinality(A) \in Nat /\ Cardinality(B) = e - j /\ Cardinality(A \ B) = d - e
      BY <2>1, <2>3, <2>4, <3>1
    <3> HIDE DEF A, B, d, e
    <3> QED
      BY <1>1, <3>2, <3>3
  <2>7. StackOf(S)[j] = t
    <3>1. j \in 1..d /\ t \in S
      BY <1>1, <2>1
    <3> HIDE DEF d
    <3>2. \A q \in S, i \in 1..Cardinality(S) :
            Cardinality({r \in S : r > q}) = Cardinality(S) - i => StackOf(S)[i] = q
      BY StackEntry
    <3> QED
      BY <2>6, <3>1, <3>2 DEF d
  <2> QED
    BY <2>7 DEF t
<1>3. /\ StackOf(S) \in Seq(S) /\ Len(StackOf(S)) = d
      /\ StackOf(T) \in Seq(T) /\ Len(StackOf(T)) = e
  BY <1>1, StackEntry
<1> HIDE DEF d, e
<1>4. StackOf(T) \in Seq(S)
  <2>1. \A j \in 1..e : StackOf(T)[j] \in S
    BY <1>1, StackEntry DEF e
  <2>2. StackOf(T) \in [1..e -> S]
    BY <2>1 DEF StackOf, e
  <2> QED
    BY <1>1, <2>2
<1>5. /\ SubSeq(StackOf(S), 1, e) \in Seq(S) /\ Len(SubSeq(StackOf(S), 1, e)) = e
      /\ \A j \in 1..e : SubSeq(StackOf(S), 1, e)[j] = StackOf(S)[j]
  BY <1>1, <1>3
<1> QED
  BY <1>1, <1>2, <1>3, <1>4, <1>5 DEF e

(* A greatest element is on top of the stack, above the stack of the       *)
(* others.                                                                 *)
LEMMA StackTop ==
  ASSUME NEW n \in Nat, NEW S \in SUBSET (1..n), NEW m \in S, \A x \in S : x <= m
  PROVE  /\ Cardinality(S) \in Nat \ {0}
         /\ Cardinality({q \in S : q < m}) = Cardinality(S) - 1
         /\ StackOf(S)[Cardinality(S)] = m
         /\ StackOf({q \in S : q < m}) = SubSeq(StackOf(S), 1, Cardinality(S) - 1)
         /\ StackOf(S) = Append(StackOf({q \in S : q < m}), m)
<1> DEFINE d == Cardinality(S)
           T == {q \in S : q < m}
<1>0. \A q \in S : q \in Int /\ q <= m
  OBVIOUS
<1>1. T \in SUBSET S /\ T \in SUBSET (1..n) /\ \A x \in T, y \in S : y < x => y \in T
  <2>1. T \in SUBSET S /\ T \in SUBSET (1..n)
    OBVIOUS
  <2>2. \A x \in S, y \in S : x < m /\ y < x => y < m
    BY <1>0
  <2> QED
    BY <2>1, <2>2
<1>2. T = S \ {m}
  <2>1. \A q \in S : q < m <=> q # m
    BY <1>0
  <2> QED
    BY <2>1
<1>3. IsFiniteSet(S) /\ d \in Nat
  BY PositionsFinite
<1>4. Cardinality(T) = d - 1 /\ Cardinality(T) \in Nat
  <2> HIDE DEF T
  <2> QED
    BY <1>1, <1>2, <1>3, PositionsFinite, FS_RemoveElement
<1>5. StackOf(S)[d] = m
  <2>1. \A r \in S : ~(r > m)
    BY <1>0
  <2>2. {r \in S : r > m} = {}
    BY <2>1
  <2>3. Cardinality({r \in S : r > m}) = d - d /\ d \in 1..d
    BY <1>3, <1>4, <2>2, FS_EmptySet
  <2>4. \A q \in S, i \in 1..Cardinality(S) :
          Cardinality({r \in S : r > q}) = Cardinality(S) - i => StackOf(S)[i] = q
    BY StackEntry
  <2> QED
    BY <2>3, <2>4
<1>6. StackOf(T) = SubSeq(StackOf(S), 1, d - 1)
  <2> HIDE DEF T
  <2> QED
    BY <1>1, <1>4, StackPrefix
<1>7. StackOf(S) \in Seq(S) /\ Len(StackOf(S)) = d
  BY StackEntry
<1> HIDE DEF d, T
<1>8. StackOf(S) = Append(SubSeq(StackOf(S), 1, d - 1), m)
  <2>1. d \in Nat \ {0}
    BY <1>3, <1>4
  <2>2. /\ SubSeq(StackOf(S), 1, d - 1) \in Seq(S)
        /\ Len(SubSeq(StackOf(S), 1, d - 1)) = d - 1
        /\ \A j \in 1..(d - 1) : SubSeq(StackOf(S), 1, d - 1)[j] = StackOf(S)[j]
    BY <1>7, <2>1
  <2>3. /\ Append(SubSeq(StackOf(S), 1, d - 1), m) \in Seq(S)
        /\ Len(Append(SubSeq(StackOf(S), 1, d - 1), m)) = d
        /\ \A j \in 1..(d - 1) : Append(SubSeq(StackOf(S), 1, d - 1), m)[j] = StackOf(S)[j]
        /\ Append(SubSeq(StackOf(S), 1, d - 1), m)[d] = m
    BY <2>1, <2>2
  <2>4. \A j \in 1..d : j \in 1..(d - 1) \/ j = d
    BY <2>1
  <2>5. \A j \in 1..d : Append(SubSeq(StackOf(S), 1, d - 1), m)[j] = StackOf(S)[j]
    BY <1>5, <2>3, <2>4
  <2> QED
    BY <1>7, <2>3, <2>5
<1>9. d \in Nat \ {0} /\ Cardinality(T) = d - 1
  BY <1>3, <1>4
<1>10. StackOf(S) = Append(StackOf(T), m)
  BY <1>6, <1>8
<1> QED
  BY <1>5, <1>6, <1>9, <1>10, Zenon DEF d, T

-----------------------------------------------------------------------------
(* How the enclosing constructs change from one position to another.       *)

(* An opener adds itself; only it and an End change anything.              *)
LEMMA EnclosingNext ==
  ASSUME NEW c \in Seq(Instr), WellNested(c), NEW p \in 1..Len(c), c[p].op # "End"
  PROVE  Enclosing(c, p + 1) = IF c[p].op \in BlockOps THEN Enclosing(c, p) \cup {p}
                               ELSE Enclosing(c, p)
<1>1. Len(c) \in Nat /\ p \in Int /\ p \in 1..(Len(c) + 1) /\ p + 1 \in 1..(Len(c) + 1)
      /\ (p + 1) - 1 = p
  OBVIOUS
<1>2. \A q \in 1..(p - 1) : Inside(c, q, p + 1) <=> Inside(c, q, p)
  <2> TAKE q \in 1..(p - 1)
  <2>1. q + 1 \in Int /\ q + 1 <= p /\ q \in 1..((p + 1) - 1) /\ p - 1 \in q..(p - 1)
    BY <1>1
  <2>2. Depth(c, q + 1, p - 1) <= Depth(c, q + 1, p) /\ Depth(c, q + 1, p - 1) \in Int
        /\ Depth(c, q + 1, p) \in Int
    BY <1>1, <2>1, DepthAbove, DepthType
  <2>3. \A r \in q..p : r \in q..(p - 1) \/ r = p
    BY <1>1
  <2>4. \A r \in q..(p - 1) : r \in q..p
    BY <1>1
  <2> QED
    BY <1>1, <2>1, <2>2, <2>3, <2>4 DEF Inside
<1>3. Inside(c, p, p + 1) <=> c[p].op \in BlockOps
  <2>1. Depth(c, p + 1, p) = 0 /\ p \in 1..((p + 1) - 1)
    BY <1>1, DepthType, p + 1 \in Int
  <2>2. \A r \in p..((p + 1) - 1) : r = p
    BY <1>1
  <2> QED
    BY <2>1, <2>2 DEF Inside
<1>4. \A q : Inside(c, q, p + 1) => q \in 1..(p - 1) \/ q = p
  BY <1>1 DEF Inside
<1>5. \A q : Inside(c, q, p) => q \in 1..(p - 1) /\ q # p
  BY <1>1 DEF Inside
<1>6. \A q : q \in Enclosing(c, p + 1) <=> q \in Enclosing(c, p) \/ (q = p /\ c[p].op \in BlockOps)
  BY <1>1, <1>2, <1>3, <1>4, <1>5, EnclosingIs
<1> QED
  BY <1>6

(* The constructs around an enclosing construct are those that enclose the *)
(* position farther out.                                                   *)
LEMMA EnclosingOuter ==
  ASSUME NEW c \in Seq(Instr), WellNested(c), NEW p \in 1..(Len(c) + 1),
         NEW o \in Enclosing(c, p)
  PROVE  {q \in Enclosing(c, p) : q < o} = Enclosing(c, o)
<1>1. Len(c) \in Nat /\ o \in 1..(p - 1) /\ Inside(c, o, p) /\ c[o].op \in BlockOps
      /\ o \in 1..(Len(c) + 1)
  <2>1. Inside(c, o, p)
    BY EnclosingIs
  <2> QED
    BY <2>1 DEF Inside
<1>2. \A q \in 1..(o - 1) : Inside(c, q, p) => Inside(c, q, o)
  <2> TAKE q \in 1..(o - 1)
  <2>1. \A r \in q..(o - 1) : r \in q..(p - 1)
    BY <1>1
  <2> QED
    BY <2>1 DEF Inside
<1>3. \A q \in 1..(o - 1) : Inside(c, q, o) => Inside(c, q, p)
  <2> SUFFICES ASSUME NEW q \in 1..(o - 1), Inside(c, q, o) PROVE Inside(c, q, p)
    OBVIOUS
  <2>1. q \in 1..(p - 1) /\ q + 1 \in Int /\ o \in Int /\ q + 1 <= o /\ o - 1 \in q..(o - 1)
        /\ o - 1 \in Int /\ o + 1 \in Int
    BY <1>1
  <2>2. 0 <= Depth(c, q + 1, o - 1) /\ Depth(c, q + 1, o - 1) \in Int
    BY <2>1, DepthType DEF Inside
  <2>3. \A r \in o..(p - 1) : 0 <= Depth(c, q + 1, r)
    <3> TAKE r \in o..(p - 1)
    <3>1. Depth(c, q + 1, r) = Depth(c, q + 1, o - 1) + 1 + Depth(c, o + 1, r)
      BY <1>1, <2>1, DepthAround, r \in Int, o <= r
    <3>2. 0 <= Depth(c, o + 1, r) /\ Depth(c, o + 1, r) \in Int
      BY <1>1, <2>1, DepthType, r \in Int DEF Inside
    <3> QED
      BY <2>2, <3>1, <3>2
  <2>4. \A r \in q..(p - 1) : r \in q..(o - 1) \/ r \in o..(p - 1)
    BY <1>1
  <2> QED
    BY <2>1, <2>3, <2>4 DEF Inside
<1>4. /\ \A q : Inside(c, q, o) => q \in 1..(o - 1) /\ q < o
      /\ \A q : Inside(c, q, p) /\ q < o => q \in 1..(o - 1)
  BY <1>1 DEF Inside
<1>5. \A q : q \in Enclosing(c, p) /\ q < o <=> q \in Enclosing(c, o)
  BY <1>1, <1>2, <1>3, <1>4, EnclosingIs
<1> QED
  BY <1>5

(* The construct a position lies directly in is the innermost one.         *)
LEMMA Innermost ==
  ASSUME NEW c \in Seq(Instr), WellNested(c), NEW p \in 1..(Len(c) + 1),
         NEW o, Directly(c, o, p)
  PROVE  o \in Enclosing(c, p) /\ \A q \in Enclosing(c, p) : q <= o
<1>1. Inside(c, o, p) /\ Depth(c, o + 1, p - 1) = 0
  BY DEF Directly
<1>2. ASSUME NEW q \in Enclosing(c, p), o < q
      PROVE  FALSE
  <2>1. Inside(c, q, p)
    BY EnclosingIs
  <2>2. Depth(c, q + 1, p - 1) < Depth(c, o + 1, p - 1)
    BY <1>1, <1>2, <2>1, OuterIsDeeper, p \in Int
  <2>3. p - 1 \in q..(p - 1) /\ q + 1 \in Int
    BY <2>1 DEF Inside
  <2>4. 0 <= Depth(c, q + 1, p - 1) /\ Depth(c, q + 1, p - 1) \in Int
    BY <2>1, <2>3, DepthType, p - 1 \in Int DEF Inside
  <2> QED
    BY <1>1, <2>2, <2>4
<1>3. o \in Int /\ \A q \in Enclosing(c, p) : q \in Int
  BY <1>1 DEF Enclosing, OpsAt, Inside
<1> QED
  BY <1>1, <1>2, <1>3, EnclosingIs

(* Every End lies directly in a construct, which it ends: the one opened   *)
(* by the last position from which on more is opened than closed.          *)
LEMMA EndOwner ==
  ASSUME NEW c \in Seq(Instr), WellNested(c), NEW p \in 1..Len(c), c[p].op = "End"
  PROVE  \E o \in 1..(p - 1) : Directly(c, o, p) /\ EndOf(c, o) = p
<1>1. Len(c) \in Nat /\ p \in Nat \ {0} /\ p - 1 \in Nat
  OBVIOUS
<1> DEFINE D(r) == Depth(c, r, p - 1)
           T == {x \in 0..(p - 1) : \A r \in (x + 1)..p : D(r) <= 0}
           m == Min(T)
<1>2. \A r \in Int : D(r) \in Int
  BY <1>1, DepthType
<1>3. 0 < D(1)
  <2>1. 0 <= Depth(c, 1, p)
    <3>1. Count(c, {"End"}, 1, p) <= Count(c, BlockOps, 1, p)
      BY DEF WellNested
    <3>2. Count(c, {"End"}, 1, p) \in Nat /\ Count(c, BlockOps, 1, p) \in Nat
      BY <1>1, CountType
    <3> QED
      BY <3>1, <3>2 DEF Depth
  <2>2. Depth(c, 1, p) = Depth(c, 1, p - 1) - 1
    BY DepthAbove, 1 \in Int, p \in Int, 1 <= p, "End" \notin BlockOps DEF BlockOps
  <2> QED
    BY <1>2, <2>1, <2>2
<1>4. m \in T /\ \A x \in T : m <= x
  <2>1. D(p) = 0
    BY <1>1, DepthType
  <2>2. p - 1 \in T
    <3>1. \A r \in ((p - 1) + 1)..p : r = p
      BY <1>1
    <3> QED
      BY <1>1, <2>1, <3>1
  <2>3. T \in SUBSET Nat /\ T # {}
    <3>1. \A x \in 0..(p - 1) : x \in Nat
      OBVIOUS
    <3> QED
      BY <2>2, <3>1
  <2> HIDE DEF T
  <2> QED
    BY <2>3, MinExists
<1> HIDE DEF m
<1>5. m \in 0..(p - 1) /\ \A r \in (m + 1)..p : D(r) <= 0
  BY <1>4
<1>6. m # 0
  BY <1>1, <1>2, <1>3, <1>5
<1>7. m \in 1..(p - 1) /\ 0 < D(m)
  <2>1. m - 1 \in 0..(p - 1) /\ m - 1 \notin T
    <3>1. m - 1 \in 0..(p - 1) /\ ~(m <= m - 1)
      BY <1>1, <1>5, <1>6
    <3> HIDE DEF T
    <3> QED
      BY <1>4, <3>1
  <2>2. PICK r \in ((m - 1) + 1)..p : ~(D(r) <= 0)
    BY <2>1
  <2>3. r = m
    BY <1>5, <2>2
  <2> QED
    BY <1>2, <1>5, <1>6, <2>2, <2>3
<1>8. \A r \in m..(p - 1) : D(m) = Depth(c, m, r) + D(r + 1)
  BY <1>1, <1>7, DepthSplit
<1>9. c[m].op \in BlockOps /\ Depth(c, m, m) = 1 /\ D(m + 1) = 0
  <2>1. Depth(c, m, m - 1) = 0 /\ m \in Int /\ m - 1 \in Int
    BY <1>7, DepthType
  <2>2. Depth(c, m, m) = IF c[m].op \in BlockOps THEN Depth(c, m, m - 1) + 1
                         ELSE IF c[m].op = "End" THEN Depth(c, m, m - 1) - 1
                         ELSE Depth(c, m, m - 1)
    BY <2>1, DepthAbove
  <2>3. D(m) = Depth(c, m, m) + D(m + 1) /\ D(m + 1) <= 0 /\ D(m + 1) \in Int
    BY <1>2, <1>5, <1>7, <1>8, m \in m..(p - 1), m + 1 \in (m + 1)..p
  <2>4. D(m) \in Int /\ 0 < D(m) /\ Depth(c, m, m) \in Int
    BY <1>2, <1>7, <2>1, DepthType
  <2> HIDE DEF D
  <2>5. 0 < Depth(c, m, m)
    BY <2>3, <2>4
  <2>6. c[m].op \in BlockOps /\ Depth(c, m, m) = 1
    BY <2>1, <2>2, <2>5
  <2> QED
    BY <2>3, <2>4, <2>6
<1>10. Directly(c, m, p)
  <2>1. \A r \in m..(p - 1) : 0 <= Depth(c, m + 1, r)
    <3> TAKE r \in m..(p - 1)
    <3>1. D(m + 1) = Depth(c, m + 1, r) + D(r + 1)
      BY <1>1, <1>7, DepthSplit
    <3>2. D(r + 1) <= 0 /\ D(r + 1) \in Int /\ Depth(c, m + 1, r) \in Int
      <4>1. r + 1 \in (m + 1)..p /\ r + 1 \in Int /\ r \in Int /\ m + 1 \in Int
        BY <1>1, <1>7
      <4> QED
        BY <1>2, <1>5, <4>1, DepthType
    <3> HIDE DEF D
    <3> QED
      BY <1>9, <3>1, <3>2
  <2> QED
    BY <1>7, <1>9, <2>1 DEF Directly, Inside
<1>11. EndOf(c, m) = p
  <2>1. m \in 1..Len(c)
    BY <1>1, <1>7
  <2>2. EndOf(c, m) \in (m + 1)..Len(c) /\ Directly(c, m, EndOf(c, m))
    BY <1>9, <2>1, EndIs
  <2>3. p <= EndOf(c, m)
    <3>1. m \in Enclosing(c, p)
      BY <1>1, <1>10, EnclosingIs, p \in 1..(Len(c) + 1) DEF Directly
    <3> QED
      BY <3>1 DEF Enclosing
  <2>4. ~(p < EndOf(c, m))
    <3> SUFFICES ASSUME p < EndOf(c, m) PROVE FALSE
      OBVIOUS
    <3>1. 0 <= Depth(c, m + 1, p)
      BY <1>1, <1>7, <2>2, p \in m..(EndOf(c, m) - 1) DEF Directly, Inside
    <3>2. Depth(c, m + 1, p) = Depth(c, m + 1, p - 1) - 1
      BY <1>1, <1>7, DepthAbove, m + 1 \in Int, m + 1 <= p DEF BlockOps
    <3> QED
      BY <1>10, <3>1, <3>2 DEF Directly
  <2> QED
    BY <1>1, <2>2, <2>3, <2>4
<1> QED
  BY <1>7, <1>10, <1>11

(* Behind the End of a construct one is in the constructs around it.       *)
LEMMA EnclosingAfterEnd ==
  ASSUME NEW c \in Seq(Instr), WellNested(c), NEW p \in 1..(Len(c) + 1),
         NEW o \in Enclosing(c, p)
  PROVE  Enclosing(c, EndOf(c, o) + 1) = {q \in Enclosing(c, p) : q < o}
<1> DEFINE e == EndOf(c, o)
<1>1. /\ Len(c) \in Nat /\ o \in 1..Len(c) /\ c[o].op \in BlockOps
      /\ {q \in Enclosing(c, p) : q < o} = Enclosing(c, o)
  BY EnclosingOuter DEF Enclosing, OpsAt
<1>2. e \in (o + 1)..Len(c) /\ c[e].op = "End" /\ Directly(c, o, e)
  BY <1>1, EndIs
<1> HIDE DEF e
<1>3. /\ e \in 1..Len(c) /\ e \in 1..(Len(c) + 1) /\ e + 1 \in 1..(Len(c) + 1)
      /\ (e + 1) - 1 = e /\ e \in Int
  BY <1>1, <1>2
<1>4. o \in Enclosing(c, e) /\ {q \in Enclosing(c, e) : q < o} = Enclosing(c, o)
  <2>1. o \in Enclosing(c, e)
    BY <1>2, <1>3, Innermost
  <2> QED
    BY <1>3, <2>1, EnclosingOuter
<1>5. \A q \in 1..(e - 1) : Depth(c, q + 1, e) = Depth(c, q + 1, e - 1) - 1
  <2> TAKE q \in 1..(e - 1)
  <2> QED
    BY <1>2, <1>3, DepthAbove, q + 1 \in Int, q + 1 <= e DEF BlockOps
<1>6. \A q \in 1..(e - 1) : Inside(c, q, e + 1) => Inside(c, q, e) /\ q < o
  <2> SUFFICES ASSUME NEW q \in 1..(e - 1), Inside(c, q, e + 1)
               PROVE  Inside(c, q, e) /\ q < o
    OBVIOUS
  <2>1. \A r \in q..(e - 1) : r \in q..((e + 1) - 1)
    BY <1>3
  <2>2. Inside(c, q, e)
    BY <2>1 DEF Inside
  <2>3. q # o
    <3>1. e \in q..((e + 1) - 1)
      BY <1>3
    <3>2. 0 <= Depth(c, q + 1, e)
      BY <3>1 DEF Inside
    <3>3. Depth(c, o + 1, e - 1) = 0
      BY <1>2 DEF Directly
    <3> QED
      BY <1>5, <3>2, <3>3
  <2>4. q <= o
    BY <1>2, <1>3, <2>2, Innermost, EnclosingIs
  <2> QED
    BY <1>1, <2>2, <2>3, <2>4
<1>7. \A q \in 1..(e - 1) : Inside(c, q, e) /\ q < o => Inside(c, q, e + 1)
  <2> SUFFICES ASSUME NEW q \in 1..(e - 1), Inside(c, q, e), q < o
               PROVE  Inside(c, q, e + 1)
    OBVIOUS
  <2>1. Depth(c, o + 1, e - 1) < Depth(c, q + 1, e - 1)
    BY <1>2, <1>3, OuterIsDeeper DEF Directly
  <2>2. Depth(c, o + 1, e - 1) = 0 /\ Depth(c, q + 1, e - 1) \in Int
    BY <1>2, <1>3, DepthType, q + 1 \in Int, e - 1 \in Int DEF Directly
  <2>3. 0 <= Depth(c, q + 1, e)
    BY <1>5, <2>1, <2>2
  <2>4. \A r \in q..((e + 1) - 1) : r \in q..(e - 1) \/ r = e
    BY <1>3
  <2>5. q \in 1..((e + 1) - 1)
    BY <1>3
  <2> QED
    BY <2>3, <2>4, <2>5 DEF Inside
<1>8. \A q : Inside(c, q, e) \/ Inside(c, q, e + 1) => q \in 1..(e - 1)
  <2>1. \A q : Inside(c, q, e) => q \in 1..(e - 1)
    BY DEF Inside
  <2>2. \A q : Inside(c, q, e + 1) => q \in 1..e /\ c[q].op \in BlockOps
    BY <1>3 DEF Inside
  <2>3. "End" \notin BlockOps
    BY DEF BlockOps
  <2>4. \A q \in 1..e : q \in 1..(e - 1) \/ q = e
    BY <1>3
  <2> QED
    BY <1>2, <2>1, <2>2, <2>3, <2>4
<1>9. \A q : q \in Enclosing(c, e + 1) <=> q \in Enclosing(c, e) /\ q < o
  BY <1>3, <1>6, <1>7, <1>8, EnclosingIs
<1>10. Enclosing(c, e + 1) = {q \in Enclosing(c, e) : q < o}
  BY <1>9
<1> QED
  BY <1>1, <1>4, <1>10 DEF e

-----------------------------------------------------------------------------
(* What the jumps do to the stack of the constructs a position lies in.    *)

(* The constructs a position lies in are openers above it.                *)
LEMMA EnclosingFacts ==
  ASSUME NEW c \in Seq(Instr), NEW p \in 1..(Len(c) + 1)
  PROVE  /\ Enclosing(c, p) \in SUBSET (1..(p - 1)) /\ Enclosing(c, p) \in SUBSET (1..p)
         /\ p - 1 \in Nat /\ p \in Nat
         /\ \A q \in Enclosing(c, p) : q \in Int /\ q < p /\ q \in 1..Len(c) /\ c[q].op \in BlockOps
<1>1. Len(c) \in Nat /\ p \in Nat /\ p - 1 \in Nat
  OBVIOUS
<1>2. \A q \in 1..(p - 1) : q \in 1..p /\ q \in Int /\ q < p /\ q \in 1..Len(c)
  BY <1>1
<1>3. \A q \in Enclosing(c, p) : q \in 1..(p - 1) /\ c[q].op \in BlockOps
  BY DEF Enclosing, OpsAt
<1> QED
  BY <1>1, <1>2, <1>3

(* Going on past an opener pushes it.                                      *)
LEMMA EnterStack ==
  ASSUME NEW c \in Seq(Instr), WellNested(c), NEW p \in 1..Len(c), c[p].op \in BlockOps
  PROVE  StackOf(Enclosing(c, p + 1)) = Append(StackOf(Enclosing(c, p)), p)
<1> DEFINE S == Enclosing(c, p + 1)
<1>1. S = Enclosing(c, p) \cup {p}
  BY EnclosingNext DEF BlockOps
<1>2. /\ \A q \in Enclosing(c, p) : q \in Int /\ q < p
      /\ Enclosing(c, p) \in SUBSET (1..p) /\ p \in Nat /\ ~(p < p) /\ p \in 1..p
  BY EnclosingFacts
<1>3. S \in SUBSET (1..p) /\ p \in S /\ \A q \in S : q <= p
  BY <1>1, <1>2
<1>4. {q \in S : q < p} = Enclosing(c, p)
  BY <1>1, <1>2
<1> HIDE DEF S
<1>5. StackOf(S) = Append(StackOf({q \in S : q < p}), p)
  BY <1>2, <1>3, StackTop
<1> QED
  BY <1>4, <1>5 DEF S

(* An Else and an End leave the construct on top.                          *)
LEMMA LeaveStack ==
  ASSUME NEW c \in Seq(Instr), WellNested(c), NEW p \in 1..Len(c), c[p].op \in {"Else", "End"}
  PROVE  LET st == StackOf(Enclosing(c, p))
             o  == st[Len(st)]
         IN  /\ EndOf(c, o) = IF c[p].op = "End" THEN p ELSE CloserOf(c, p)
             /\ StackOf(Enclosing(c, EndOf(c, o) + 1)) = SubSeq(st, 1, Len(st) - 1)
<1> DEFINE S == Enclosing(c, p)
<1>1. PICK o \in 1..(p - 1) :
        /\ Directly(c, o, p)
        /\ EndOf(c, o) = IF c[p].op = "End" THEN p ELSE CloserOf(c, p)
  <2>1. CASE c[p].op = "End"
    BY <2>1, EndOwner
  <2>2. CASE c[p].op = "Else"
    BY <2>2, ElseOwner DEF EndOf
  <2> QED
    BY <2>1, <2>2
<1>2. p \in 1..(Len(c) + 1) /\ p - 1 \in Nat
  OBVIOUS
<1>3. o \in S /\ \A q \in S : q <= o
  BY <1>1, <1>2, Innermost
<1>4. S \in SUBSET (1..(p - 1))
  BY <1>2, EnclosingFacts
<1>5. Enclosing(c, EndOf(c, o) + 1) = {q \in S : q < o}
  BY <1>2, <1>3, EnclosingAfterEnd
<1> HIDE DEF S
<1>6. /\ StackOf(S)[Cardinality(S)] = o
      /\ StackOf({q \in S : q < o}) = SubSeq(StackOf(S), 1, Cardinality(S) - 1)
  BY <1>2, <1>3, <1>4, StackTop
<1>7. Len(StackOf(S)) = Cardinality(S) /\ StackOf(S) \in Seq(S)
  BY <1>2, <1>4, StackEntry
<1> QED
  BY <1>1, <1>5, <1>6, <1>7 DEF S

(* An if whose condition is 0 is entered if it has an else arm.            *)
LEMMA ElseStack ==
  ASSUME NEW c \in Seq(Instr), WellNested(c), NEW p \in 1..Len(c), c[p].op = "If"
  PROVE  StackOf(Enclosing(c, CloserOf(c, p) + 1))
           = IF c[CloserOf(c, p)].op = "Else" THEN Append(StackOf(Enclosing(c, p)), p)
             ELSE StackOf(Enclosing(c, p))
<1> DEFINE e == CloserOf(c, p)
<1>1. Closers(c, p) # {} /\ c[p].op \in BlockOps
  BY HasCloser DEF BlockOps
<1>2. e \in (p + 1)..Len(c) /\ c[e].op \in {"Else", "End"} /\ Directly(c, p, e)
  BY <1>1, CloserIs, CloserDirectly
<1>3. Len(c) \in Nat /\ e \in 1..Len(c) /\ e \in 1..(Len(c) + 1)
  BY <1>2
<1>4. p \in Enclosing(c, e) /\ \A q \in Enclosing(c, e) : q <= p
  BY <1>2, <1>3, Innermost
<1>5. {q \in Enclosing(c, e) : q < p} = Enclosing(c, p)
  BY <1>3, <1>4, EnclosingOuter
<1>6. CASE c[e].op = "Else"
  <2>1. Enclosing(c, e + 1) = Enclosing(c, e)
    BY <1>3, <1>6, EnclosingNext DEF BlockOps
  <2>2. Enclosing(c, e) \in SUBSET (1..(e - 1)) /\ e - 1 \in Nat
    BY <1>3, EnclosingFacts
  <2>3. StackOf(Enclosing(c, e)) = Append(StackOf({q \in Enclosing(c, e) : q < p}), p)
    BY <1>4, <2>2, StackTop
  <2> QED
    BY <1>5, <1>6, <2>1, <2>3
<1>7. CASE c[e].op = "End"
  <2>1. EndOf(c, p) = e
    BY <1>7 DEF EndOf
  <2>2. Enclosing(c, e + 1) = {q \in Enclosing(c, e) : q < p}
    BY <1>3, <1>4, <2>1, EnclosingAfterEnd
  <2> QED
    BY <1>5, <1>7, <2>2
<1> QED
  BY <1>2, <1>6, <1>7

(* A branch for label k drops k constructs, and the one it names too       *)
(* unless that is a loop.                                                  *)
LEMMA BranchStack ==
  ASSUME NEW c \in Seq(Instr), WellNested(c), NEW p \in 1..Len(c), NEW k \in Nat,
         k < Cardinality(Enclosing(c, p))
  PROVE  LET st == StackOf(Enclosing(c, p))
             o  == LabelOpener(c, p, k)
         IN  /\ Len(st) = Cardinality(Enclosing(c, p)) /\ st[Len(st) - k] = o
             /\ StackOf(Enclosing(c, o + 1)) = SubSeq(st, 1, Len(st) - k)
             /\ StackOf(Enclosing(c, EndOf(c, o) + 1)) = SubSeq(st, 1, Len(st) - k - 1)
<1> DEFINE S == Enclosing(c, p)
           o == LabelOpener(c, p, k)
           n == Cardinality(S)
           Upto == {q \in S : q <= o}
           Below == {q \in S : q < o}
<1>1. p \in 1..(Len(c) + 1) /\ p \in Nat \ {0}
  OBVIOUS
<1>2. /\ S \in SUBSET (1..(p - 1)) /\ p - 1 \in Nat
      /\ \A q \in S : q \in Int /\ q \in 1..Len(c) /\ c[q].op \in BlockOps
  BY <1>1, EnclosingFacts
<1>3. o \in S /\ Cardinality({r \in S : r > o}) = k
  BY <1>1, LabelOpenerIs
<1>4. Below = Enclosing(c, o)
  BY <1>1, <1>3, EnclosingOuter
<1>5. Enclosing(c, EndOf(c, o) + 1) = Below
  BY <1>1, <1>3, EnclosingAfterEnd
<1>6. Enclosing(c, o + 1) = Upto
  <2>1. Enclosing(c, o + 1) = Enclosing(c, o) \cup {o}
    BY <1>2, <1>3, EnclosingNext DEF BlockOps
  <2>2. \A q \in S : q <= o <=> q < o \/ q = o
    BY <1>2, <1>3
  <2> QED
    BY <1>3, <1>4, <2>1, <2>2
<1> HIDE DEF S, o
<1>7. n \in Nat /\ IsFiniteSet(S) /\ k < n /\ n - k \in 1..n /\ n - (n - k) = k
  <2>1. n \in Nat /\ IsFiniteSet(S)
    BY <1>2, PositionsFinite
  <2>2. k < n
    BY DEF S
  <2> HIDE DEF n
  <2> QED
    BY <2>1, <2>2
<1>8. /\ Len(StackOf(S)) = n
      /\ StackOf(S)[n - k] = o
  <2>1. /\ Len(StackOf(S)) = Cardinality(S)
        /\ \A q \in S, j \in 1..Cardinality(S) :
             Cardinality({r \in S : r > q}) = Cardinality(S) - j => StackOf(S)[j] = q
    BY <1>2, StackEntry
  <2> QED
    BY <1>3, <1>7, <2>1
<1>9. Cardinality(Upto) = n - k
  <2>0. \A q \in S : q <= o <=> ~(q > o)
    BY <1>2, <1>3
  <2>1. Upto = S \ {r \in S : r > o}
    BY <2>0
  <2>2. {r \in S : r > o} \in SUBSET S
    OBVIOUS
  <2>3. S \cap {r \in S : r > o} = {r \in S : r > o}
    OBVIOUS
  <2>4. Cardinality(S \ {r \in S : r > o}) = n - Cardinality(S \cap {r \in S : r > o})
    BY <1>7, FS_Difference
  <2> QED
    BY <1>3, <2>1, <2>3, <2>4
<1>10. StackOf(Upto) = SubSeq(StackOf(S), 1, n - k)
  <2>1. Upto \in SUBSET S /\ \A x \in Upto, y \in S : y < x => y \in Upto
    BY <1>2, <1>3
  <2> QED
    BY <1>2, <1>9, <2>1, StackPrefix
<1>11. Cardinality(Below) = n - k - 1
  <2>1. Upto \in SUBSET (1..(p - 1)) /\ o \in Upto /\ \A x \in Upto : x <= o
    BY <1>2, <1>3, o <= o
  <2>0. \A q \in S : q < o => q <= o
    BY <1>2, <1>3
  <2>2. {q \in Upto : q < o} = Below
    BY <2>0
  <2>3. Cardinality({q \in Upto : q < o}) = Cardinality(Upto) - 1
    <3> HIDE DEF Upto
    <3> QED
      BY <1>2, <2>1, StackTop
  <2> QED
    BY <1>9, <2>2, <2>3
<1>12. StackOf(Below) = SubSeq(StackOf(S), 1, n - k - 1)
  <2>1. Below \in SUBSET S /\ \A x \in Below, y \in S : y < x => y \in Below
    BY <1>2, <1>3
  <2> QED
    BY <1>2, <1>11, <2>1, StackPrefix
<1> QED
  BY <1>5, <1>6, <1>8, <1>10, <1>12 DEF S, o
=============================================================================
