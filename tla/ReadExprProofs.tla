----------------------------- MODULE ReadExprProofs -----------------------------
(***************************************************************************)
(* For every sequence of bytes: the expressions read_expr reads are        *)
(* balanced, and it stops right behind an End.  For bytes that start with  *)
(* an encoded expression: it reads that expression, and the immediates in  *)
(* it.  The lemmas follow the code from the bytes up: integers of one and  *)
(* of two bytes, readers one after the other, operands, opcodes, whole     *)
(* instructions, and the loop over them.                                   *)
(***************************************************************************)
EXTENDS ReadExpr, InstructionTheorems, SequenceTheorems

(* The instructions read so far are a sequence, of whatever instructions.  *)
Shape ==
  /\ input.bytes \in Seq(0..255)
  /\ s = [p |-> s.p, v |-> s.v, st |-> s.st, nesting |-> s.nesting]
  /\ \E T : s.v \in Seq(T)

(* The shape and the balance, together.                                    *)
Inv == Shape /\ ResultIsBalanced

-----------------------------------------------------------------------------
(* The opcodes made up for the prefix are no bytes; as bytes they are 255. *)
LEMMA MadeUp ==
  \A op \in {DataDrop, MemCopy, MemFill} : op \in Nat /\ op > 255 /\ op % 256 = 255
BY SMT DEF DataDrop, MemCopy, MemFill

(* Seen as bytes, bytes are themselves and the others are no openers.      *)
LEMMA SeenAsBytes ==
  \A op \in 0..255 \cup {DataDrop, MemCopy, MemFill} : (op % 256) \in Openers <=> op \in Openers
<1>1. \A op \in 0..255 : (op % 256) \in Openers <=> op \in Openers
  BY SMT DEF Openers
<1>2. \A op \in {DataDrop, MemCopy, MemFill} : (op % 256) \in Openers <=> op \in Openers
  BY SMT DEF Openers, DataDrop, MemCopy, MemFill
<1> QED
  BY <1>1, <1>2, Zenon

(* A count up to a position is a matter of the opcodes up to there.        *)
LEMMA CountSame ==
  ASSUME NEW c, NEW d, NEW ops, NEW a \in Int, NEW b \in Int,
         \A j \in a..b : c[j].op = d[j].op
  PROVE  Count(c, ops, a, b) = Count(d, ops, a, b)
<1>1. OpsAt(c, ops, a, b) = OpsAt(d, ops, a, b)
  BY DEF OpsAt
<1> QED
  BY <1>1 DEF Count

(* An opcode is a byte or one of those made up for the prefix, which are   *)
(* no opener and no End, even as bytes; an End is the byte it was read     *)
(* from.                                                                   *)
LEMMA OpcodeRead ==
  ASSUME NEW bytes \in Seq(0..255), NEW p, ParseOpcode(bytes, p).st = "ok"
  PROVE  /\ ParseOpcode(bytes, p).v \in 0..255 \cup {DataDrop, MemCopy, MemFill}
         /\ ParseOpcode(bytes, p).v = End =>
              /\ ParseOpcode(bytes, p).p = p + 1
              /\ p \in DOMAIN bytes /\ bytes[p] = End
<1> DEFINE flag == ReadInt("u32", bytes, p + 1)
<1>1. p \in DOMAIN bytes
  <2> SUFFICES ASSUME p \notin DOMAIN bytes PROVE FALSE
    OBVIOUS
  <2>1. ReadByte(bytes, p).st = "aborted"
    BY DEF ReadByte, Result
  <2> QED
    BY <2>1 DEF ParseOpcode
<1>2. /\ ReadByte(bytes, p).p = p + 1
      /\ ReadByte(bytes, p).v = bytes[p]
      /\ ReadByte(bytes, p).st = "ok"
  BY <1>1 DEF ReadByte, Result
<1>3. bytes[p] \in 0..255
  <2>1. DOMAIN bytes = 1..Len(bytes)
    OBVIOUS
  <2> QED
    BY <1>1, <2>1, ElementOfSeq
<1>4. CASE bytes[p] # Prefix
  BY <1>1, <1>2, <1>3, <1>4 DEF ParseOpcode
<1>5. CASE bytes[p] = Prefix
  <2>1. flag.st = "ok" /\ flag.v \in 8..11 /\ ParseOpcode(bytes, p).v = Flagged[flag.v]
    <3> HIDE DEF flag
    <3>1. ParseOpcode(bytes, p) =
            IF flag.st # "ok" THEN flag
            ELSE IF flag.v \notin DOMAIN Flagged THEN Result(flag.p, 0, "aborted")
            ELSE Result(flag.p, Flagged[flag.v], "ok")
      BY <1>2, <1>5 DEF ParseOpcode, flag
    <3>2. DOMAIN Flagged = 8..11
      BY DEF Flagged
    <3> QED
      BY <3>1, <3>2 DEF Result
  <2>2. \A f \in 8..11 : Flagged[f] \in {Prefix, DataDrop, MemCopy, MemFill}
    BY DEF Flagged
  <2>3. Prefix \in 0..255 /\ Prefix # End /\ End \in 0..255
    BY DEF Prefix, End
  <2>4. DataDrop # End /\ MemCopy # End /\ MemFill # End
    BY MadeUp, <2>3
  <2>5. ParseOpcode(bytes, p).v \in {Prefix, DataDrop, MemCopy, MemFill}
    <3> HIDE DEF flag
    <3> QED
      BY <2>1, <2>2
  <2> QED
    BY <2>3, <2>4, <2>5, Zenon
<1> QED
  BY <1>4, <1>5

(* The same of a whole instruction.                                        *)
LEMMA InstructionRead ==
  ASSUME NEW bytes \in Seq(0..255), NEW p, ParseInstruction(bytes, p).st = "ok"
  PROVE  LET r == ParseInstruction(bytes, p)
         IN  /\ r.v.op \in 0..255 \cup {DataDrop, MemCopy, MemFill}
             /\ r.v.op = End => p \in DOMAIN bytes /\ r.p = p + 1 /\ bytes[p] = End
<1> DEFINE o == ParseOpcode(bytes, p)
           i == ParseImmediates(o.v, bytes, o.p)
<1>1. ParseInstruction(bytes, p) =
        IF o.st # "ok" THEN o
        ELSE IF o.v = End THEN Result(o.p, [op |-> End, imms |-> << >>], "ok")
        ELSE Result(i.p, [op |-> o.v, imms |-> i.v], i.st)
  BY DEF ParseInstruction, WithImmediates
<1>2. o.st = "ok"
  <2> HIDE DEF o, i
  <2> QED BY <1>1
<1>3. /\ o.v \in 0..255 \cup {DataDrop, MemCopy, MemFill}
      /\ o.v = End => o.p = p + 1 /\ p \in DOMAIN bytes /\ bytes[p] = End
  BY <1>2, OpcodeRead
<1> HIDE DEF o, i
<1>4. CASE o.v = End
  BY <1>1, <1>2, <1>3, <1>4 DEF Result, End
<1>5. CASE o.v # End
  BY <1>1, <1>2, <1>3, <1>5 DEF Result
<1> QED
  BY <1>4, <1>5

(* An instruction that does not end the expression keeps it balanced: an   *)
(* End that is pushed closes an opener that is still open.                 *)
LEMMA PushKeepsBalance ==
  ASSUME NEW v, NEW T, v \in Seq(T), NEW nesting, NEW x,
         x.op \in 0..255 \cup {DataDrop, MemCopy, MemFill},
         ~EndsExpr(x.op, nesting),
         \A i \in 0..Len(v) : Count(v, {End}, 1, i) <= Count(v, Openers, 1, i),
         nesting = Count(v, Openers, 1, Len(v)) - Count(v, {End}, 1, Len(v))
  PROVE  LET w == Append(v, x)
         IN  /\ \A i \in 0..Len(w) : Count(w, {End}, 1, i) <= Count(w, Openers, 1, i)
             /\ NestingAfter(x.op, nesting)
                  = Count(w, Openers, 1, Len(w)) - Count(w, {End}, 1, Len(w))
<1> DEFINE w == Append(v, x)
           n == Len(v)
<1>1. /\ n \in Nat /\ Len(w) = n + 1
      /\ w[n + 1] = x
      /\ \A j \in 1..n : w[j] = v[j]
  <2>1. v \in Seq(T \cup {x}) /\ x \in T \cup {x}
    OBVIOUS
  <2> QED
    BY <2>1
<1>2. \A i \in 0..n : /\ Count(w, {End}, 1, i) = Count(v, {End}, 1, i)
                     /\ Count(w, Openers, 1, i) = Count(v, Openers, 1, i)
  <2> TAKE i \in 0..n
  <2>1. \A j \in 1..i : v[j].op = w[j].op
    BY <1>1
  <2> HIDE DEF w
  <2> QED
    BY <1>1, <2>1, CountSame
<1> HIDE DEF w
<1>3. /\ Count(w, {End}, 1, n + 1) = IF x.op = End THEN Count(v, {End}, 1, n) + 1
                                     ELSE Count(v, {End}, 1, n)
      /\ Count(w, Openers, 1, n + 1) = IF x.op \in Openers THEN Count(v, Openers, 1, n) + 1
                                       ELSE Count(v, Openers, 1, n)
  <2>1. \A ops : Count(w, ops, 1, n + 1) = IF w[n + 1].op \in ops THEN Count(w, ops, 1, n) + 1
                                           ELSE Count(w, ops, 1, n)
    <3> TAKE ops
    <3>1. 1 \in Int /\ n \in Int /\ 1 <= n + 1
      BY <1>1
    <3> QED
      BY <3>1, CountAbove
  <2>2. n \in 0..n
    BY <1>1
  <2> QED
    BY <1>1, <1>2, <2>1, <2>2, Zenon
<1>4. /\ Count(v, {End}, 1, n) \in Nat /\ Count(v, Openers, 1, n) \in Nat
      /\ Count(v, {End}, 1, n) <= Count(v, Openers, 1, n)
  <2>1. n \in 0..n /\ n \in Int /\ 1 \in Int
    BY <1>1
  <2>2. \A ops : Count(v, ops, 1, n) \in Nat
    <3> TAKE ops
    <3> QED BY <2>1, CountType
  <2> QED
    BY <2>1, <2>2, Zenon
<1>5. (x.op % 256) \in Openers <=> x.op \in Openers
  BY SeenAsBytes, Zenon
<1>6. End \notin Openers
  BY DEF End, Openers
<1>7. x.op = End => Count(v, {End}, 1, n) < Count(v, Openers, 1, n)
  BY <1>4 DEF EndsExpr
<1>8. Count(w, {End}, 1, n + 1) <= Count(w, Openers, 1, n + 1)
  BY <1>3, <1>4, <1>6, <1>7
<1>9. NestingAfter(x.op, nesting) = Count(w, Openers, 1, n + 1) - Count(w, {End}, 1, n + 1)
  BY <1>3, <1>4, <1>5, <1>6 DEF NestingAfter
<1>10. \A i \in 0..Len(w) : Count(w, {End}, 1, i) <= Count(w, Openers, 1, i)
  <2> TAKE i \in 0..Len(w)
  <2>1. CASE i = n + 1
    BY <1>8, <2>1
  <2>2. CASE i # n + 1
    <3>1. i \in 0..n
      BY <1>1, <2>2
    <3> QED
      BY <1>2, <3>1
  <2> QED
    BY <2>1, <2>2
<1> QED
  BY <1>1, <1>9, <1>10 DEF w

-----------------------------------------------------------------------------
(* The empty expression is balanced.                                       *)
LEMMA InitBalanced == Init => Inv
<1> SUFFICES ASSUME Init PROVE Inv
  OBVIOUS
<1>1. s = [p |-> 1, v |-> << >>, st |-> "reading", nesting |-> 0]
  BY DEF Init, StartExpr
<1>2. Shape
  <2>1. input.bytes \in Seq(0..255)
    BY InputsAssumption DEF Init
  <2>2. s.v \in Seq({})
    BY <1>1
  <2> QED
    BY <1>1, <2>1, <2>2 DEF Shape
<1>3. \A ops : Count(s.v, ops, 1, 0) = 0
  BY CountEmpty
<1>4. Len(s.v) = 0 /\ s.nesting = 0 /\ s.st = "reading"
  BY <1>1
<1> QED
  BY <1>2, <1>3, <1>4 DEF Inv, ResultIsBalanced

(* A turn of the loop keeps what was read balanced.                        *)
LEMMA InvKept == Inv /\ [Next]_vars => Inv'
<1> SUFFICES ASSUME Inv, Iterate PROVE Inv'
  BY DEF Next, vars, Inv, Shape, ResultIsBalanced
<1> DEFINE r == ParseInstruction(input.bytes, s.p)
<1>1. /\ input' = input
      /\ s' = Turn(s, input.bytes)
      /\ input.bytes \in Seq(0..255)
      /\ s = [p |-> s.p, v |-> s.v, st |-> s.st, nesting |-> s.nesting]
  BY DEF Iterate, Inv, Shape
<1>2. PICK T : s.v \in Seq(T)
  BY DEF Inv, Shape
<1>3. /\ \A i \in 0..Len(s.v) : Count(s.v, {End}, 1, i) <= Count(s.v, Openers, 1, i)
      /\ s.nesting = Count(s.v, Openers, 1, Len(s.v)) - Count(s.v, {End}, 1, Len(s.v))
  BY DEF Inv, ResultIsBalanced
<1>4. s' = IF r.st # "ok" THEN [s EXCEPT !.p = r.p, !.st = r.st]
           ELSE IF EndsExpr(r.v.op, s.nesting) THEN [s EXCEPT !.p = r.p, !.st = "ok"]
           ELSE [s EXCEPT !.p = r.p, !.v = Append(s.v, r.v),
                          !.nesting = NestingAfter(r.v.op, s.nesting)]
  BY <1>1 DEF Turn, Handle
<1>5. r.st = "ok" => /\ r.v.op \in 0..255 \cup {DataDrop, MemCopy, MemFill}
                     /\ r.v.op = End => s.p \in DOMAIN input.bytes /\ r.p = s.p + 1
                                          /\ input.bytes[s.p] = End
  BY <1>1, InstructionRead
<1> HIDE DEF r
<1>6. CASE r.st # "ok"
  <2>1. s' = [p |-> r.p, v |-> s.v, st |-> r.st, nesting |-> s.nesting]
    BY <1>1, <1>4, <1>6
  <2>2. s'.p = r.p /\ s'.v = s.v /\ s'.st = r.st /\ s'.nesting = s.nesting
    BY <2>1
  <2>3. Shape'
    BY <1>1, <1>2, <2>1, <2>2 DEF Shape
  <2> QED
    BY <1>3, <1>6, <2>2, <2>3 DEF Inv, ResultIsBalanced
<1>7. CASE r.st = "ok" /\ EndsExpr(r.v.op, s.nesting)
  <2>1. s' = [p |-> r.p, v |-> s.v, st |-> "ok", nesting |-> s.nesting]
    BY <1>1, <1>4, <1>7
  <2>2. r.v.op = End /\ s.nesting <= 0 /\ s.p \in Int /\ r.p - 1 = s.p /\ input.bytes[s.p] = End
    BY <1>1, <1>5, <1>7 DEF EndsExpr
  <2>3. s.nesting = 0
    <3>1. Len(s.v) \in 0..Len(s.v)
      BY <1>2
    <3>2. Count(s.v, {End}, 1, Len(s.v)) \in Nat /\ Count(s.v, Openers, 1, Len(s.v)) \in Nat
      BY <1>2, CountType
    <3>3. Count(s.v, {End}, 1, Len(s.v)) <= Count(s.v, Openers, 1, Len(s.v))
      BY <1>3, <3>1
    <3> QED
      BY <1>3, <2>2, <3>2, <3>3
  <2>4. s'.p = r.p /\ s'.v = s.v /\ s'.st = "ok" /\ s'.nesting = s.nesting
    BY <2>1
  <2>5. Shape'
    BY <1>1, <1>2, <2>1, <2>4 DEF Shape
  <2> QED
    BY <1>1, <1>3, <2>2, <2>3, <2>4, <2>5 DEF Inv, ResultIsBalanced
<1>8. CASE r.st = "ok" /\ ~EndsExpr(r.v.op, s.nesting)
  <2>1. s' = [p |-> r.p, v |-> Append(s.v, r.v), st |-> s.st,
              nesting |-> NestingAfter(r.v.op, s.nesting)]
    BY <1>1, <1>4, <1>8
  <2>2. Append(s.v, r.v) \in Seq(T \cup {r.v})
    BY <1>2
  <2>3. /\ \A i \in 0..Len(Append(s.v, r.v)) :
             Count(Append(s.v, r.v), {End}, 1, i) <= Count(Append(s.v, r.v), Openers, 1, i)
        /\ NestingAfter(r.v.op, s.nesting)
             = Count(Append(s.v, r.v), Openers, 1, Len(Append(s.v, r.v)))
                 - Count(Append(s.v, r.v), {End}, 1, Len(Append(s.v, r.v)))
    BY <1>2, <1>3, <1>5, <1>8, PushKeepsBalance
  <2>4. /\ s'.p = r.p /\ s'.v = Append(s.v, r.v) /\ s'.st = "reading"
        /\ s'.nesting = NestingAfter(r.v.op, s.nesting)
    BY <2>1 DEF Iterate
  <2>5. Shape'
    BY <1>1, <2>1, <2>2, <2>4 DEF Shape
  <2> QED
    BY <2>3, <2>4, <2>5 DEF Inv, ResultIsBalanced
<1> QED
  BY <1>6, <1>7, <1>8

(* read_expr reads balanced expressions, from any bytes.                   *)
THEOREM ExpressionsAreBalanced == Spec => []ResultIsBalanced
<1>1. Inv => ResultIsBalanced
  BY DEF Inv
<1> QED
  BY <1>1, InitBalanced, InvKept, PTL DEF Spec

-----------------------------------------------------------------------------
(* Lists of readers.                                                       *)

(* What Continue goes through.                                             *)
Passes(r, kinds, bytes, f) ==
  f = [k \in 0..Len(kinds) |-> IF k = 0 THEN r ELSE Advance(f[k - 1], kinds[k], bytes)]

(* Any function that satisfies its recursion computes Continue.            *)
LEMMA ContinueIs ==
  ASSUME NEW r, NEW kinds, Len(kinds) \in Nat, NEW bytes, NEW f, Passes(r, kinds, bytes, f)
  PROVE  Continue(r, kinds, bytes) = f[Len(kinds)]
<1> DEFINE g == CHOOSE x : Passes(r, kinds, bytes, x)
<1>1. Passes(r, kinds, bytes, g)
  OBVIOUS
<1>2. Continue(r, kinds, bytes) = g[Len(kinds)]
  BY DEF Continue, Passes
<1> HIDE DEF g
<1>3. Alike(f, g, Len(kinds))
  BY <1>1 DEF Passes, Alike
<1>4. \A k \in 0..Len(kinds) : f[k] = g[k]
  BY <1>3, Agree
<1> QED
  BY <1>2, <1>4

(* Readers that complete: where each of them starts, and what it yields.   *)
Completes(kinds, bytes, pos, val) ==
  \A k \in 1..Len(kinds) : Read(kinds[k], bytes, pos[k]) = Result(pos[k + 1], val[k], "ok")

(* A sequence that goes on with one more element.                          *)
LEMMA AppendIs ==
  ASSUME NEW T, NEW a \in Seq(T), NEW b \in Seq(T), Len(b) = Len(a) + 1,
         \A j \in 1..Len(a) : b[j] = a[j]
  PROVE  b = Append(a, b[Len(a) + 1])
<1>1. Len(a) \in Nat /\ b \in [1..(Len(a) + 1) -> T]
  OBVIOUS
<1>2. Append(a, b[Len(a) + 1]) = [j \in 1..(Len(a) + 1) |-> IF j \in 1..Len(a) THEN a[j] ELSE b[Len(a) + 1]]
  OBVIOUS
<1>3. \A j \in 1..(Len(a) + 1) : j \in 1..Len(a) \/ j = Len(a) + 1
  BY <1>1
<1> QED
  BY <1>1, <1>2, <1>3

(* What a sequence and one more element come to.                           *)
LEMMA Extended ==
  ASSUME NEW S, NEW u \in Seq(S), NEW w \in Seq(S), NEW k \in 1..Len(w)
  PROVE  Append(u \o SubSeq(w, 1, k - 1), w[k]) = u \o SubSeq(w, 1, k)
<1>1. /\ SubSeq(w, 1, k - 1) \in Seq(S) /\ Len(SubSeq(w, 1, k - 1)) = k - 1
      /\ \A j \in 1..(k - 1) : SubSeq(w, 1, k - 1)[j] = w[j]
  OBVIOUS
<1>2. /\ SubSeq(w, 1, k) \in Seq(S) /\ Len(SubSeq(w, 1, k)) = k
      /\ \A j \in 1..k : SubSeq(w, 1, k)[j] = w[j]
  OBVIOUS
<1> DEFINE a == SubSeq(w, 1, k - 1)
           b == SubSeq(w, 1, k)
           x == w[k]
<1>3. x \in S /\ k \in Nat \ {0}
  OBVIOUS
<1> HIDE DEF a, b, x
<1>4. a \in Seq(S) /\ b \in Seq(S) /\ Len(a) = k - 1 /\ Len(b) = k /\ \A j \in 1..(k - 1) : b[j] = a[j]
  BY <1>1, <1>2 DEF a, b
<1>5. b[k] = x
  BY <1>2 DEF b, x
<1>6. b = Append(a, x)
  BY <1>3, <1>4, <1>5, AppendIs
<1>7. Append(u \o a, x) = u \o Append(a, x)
  <2> DEFINE c == u \o a
             d == u \o Append(a, x)
  <2>1. c \in Seq(S) /\ d \in Seq(S) /\ Len(d) = Len(c) + 1
    BY <1>3, <1>4
  <2>2. \A j \in 1..Len(c) : d[j] = c[j]
    BY <1>3, <1>4
  <2>3. d[Len(c) + 1] = x
    BY <1>3, <1>4
  <2> HIDE DEF c, d
  <2>4. d = Append(c, x)
    BY <2>1, <2>2, <2>3, AppendIs
  <2> QED
    BY <2>4 DEF c, d
<1> QED
  BY <1>6, <1>7 DEF a, b, x

(* Then Continue completes as well, and has appended what they yield.      *)
LEMMA ContinueCompletes ==
  ASSUME NEW S, NEW v0 \in Seq(S), NEW val \in Seq(S), NEW kinds, Len(kinds) = Len(val),
         NEW bytes, NEW pos, Completes(kinds, bytes, pos, val)
  PROVE  Continue(Result(pos[1], v0, "ok"), kinds, bytes)
           = Result(pos[Len(val) + 1], v0 \o val, "ok")
<1> DEFINE n == Len(val)
           r == Result(pos[1], v0, "ok")
           f == [k \in 0..n |-> Result(pos[k + 1], v0 \o SubSeq(val, 1, k), "ok")]
<1>0. n \in Nat
  OBVIOUS
<1>1. f[0] = r
  <2>1. v0 \o SubSeq(val, 1, 0) = v0
    OBVIOUS
  <2>2. 0 \in 0..n /\ 0 + 1 = 1
    OBVIOUS
  <2> QED
    BY <2>1, <2>2
<1>2. ASSUME NEW k \in 1..n PROVE f[k] = Advance(f[k - 1], kinds[k], bytes)
  <2> DEFINE u == v0 \o SubSeq(val, 1, k - 1)
             u2 == v0 \o SubSeq(val, 1, k)
  <2>1. k - 1 \in 0..n /\ (k - 1) + 1 = k /\ k \in 0..n
    OBVIOUS
  <2>2. f[k - 1] = Result(pos[k], u, "ok") /\ f[k] = Result(pos[k + 1], u2, "ok")
    BY <2>1
  <2>3. Append(u, val[k]) = u2
    BY Extended
  <2>4. Read(kinds[k], bytes, pos[k]) = Result(pos[k + 1], val[k], "ok")
    BY DEF Completes
  <2> HIDE DEF u, u2, f
  <2>5. Advance(Result(pos[k], u, "ok"), kinds[k], bytes)
          = AppendTo(Result(pos[k], u, "ok"), Read(kinds[k], bytes, pos[k]))
    BY DEF Advance, Result
  <2>6. AppendTo(Result(pos[k], u, "ok"), Result(pos[k + 1], val[k], "ok"))
          = Result(pos[k + 1], Append(u, val[k]), "ok")
    BY DEF AppendTo, Result
  <2> QED
    BY <2>2, <2>3, <2>4, <2>5, <2>6
<1>3. Passes(r, kinds, bytes, f)
  <2>1. Len(kinds) = n /\ f = [k \in 0..n |-> f[k]]
    OBVIOUS
  <2>2. \A k \in 0..n : f[k] = IF k = 0 THEN r ELSE Advance(f[k - 1], kinds[k], bytes)
    <3> HIDE DEF f, r
    <3> QED
      BY <1>0, <1>1, <1>2
  <2> HIDE DEF f, r
  <2> QED
    BY <2>1, <2>2 DEF Passes
<1>4. Continue(r, kinds, bytes) = f[n]
  <2> HIDE DEF f, r
  <2> QED
    BY <1>0, <1>3, ContinueIs
<1>5. f[n] = Result(pos[n + 1], v0 \o val, "ok")
  <2>1. SubSeq(val, 1, n) = val /\ n \in 0..n
    OBVIOUS
  <2> QED
    BY <2>1
<1> QED
  BY <1>4, <1>5

-----------------------------------------------------------------------------
(* What the bytes hold.                                                    *)

(* From position p on, the bytes are x.                                    *)
Holds(bytes, p, x) ==
  /\ p \in Nat \ {0} /\ p + Len(x) <= Len(bytes) + 1
  /\ \A j \in 1..Len(x) : bytes[p + j - 1] = x[j]

(* Two sequences that were joined, one behind the other.                   *)
LEMMA HoldsBoth ==
  ASSUME NEW S, NEW x \in Seq(S), NEW y \in Seq(S), NEW bytes, Len(bytes) \in Nat, NEW p,
         Holds(bytes, p, x \o y)
  PROVE  Holds(bytes, p, x) /\ Holds(bytes, p + Len(x), y) /\ Len(x \o y) = Len(x) + Len(y)
<1>1. /\ Len(x) \in Nat /\ Len(y) \in Nat /\ Len(x \o y) = Len(x) + Len(y)
      /\ \A j \in 1..Len(x) : (x \o y)[j] = x[j]
      /\ \A j \in 1..Len(y) : (x \o y)[Len(x) + j] = y[j]
  OBVIOUS
<1> DEFINE z == x \o y
           m == Len(x)
           n == Len(y)
<1>2. /\ m \in Nat /\ n \in Nat /\ Len(z) = m + n /\ \A j \in 1..m : z[j] = x[j]
      /\ \A j \in 1..n : z[m + j] = y[j]
      /\ p \in Nat \ {0} /\ p + Len(z) <= Len(bytes) + 1
      /\ \A j \in 1..Len(z) : bytes[p + j - 1] = z[j]
  BY <1>1 DEF Holds
<1> HIDE DEF z, m, n
<1>3. \A j \in 1..m : bytes[p + j - 1] = x[j]
  BY <1>2
<1>4. \A j \in 1..n : bytes[(p + m) + j - 1] = y[j]
  <2> TAKE j \in 1..n
  <2>1. m + j \in 1..Len(z) /\ p + (m + j) - 1 = (p + m) + j - 1
    BY <1>2
  <2> QED
    BY <1>2, <2>1
<1>5. Holds(bytes, p, x)
  BY <1>2, <1>3 DEF Holds, m
<1>6. Holds(bytes, p + m, y)
  BY <1>2, <1>4 DEF Holds, n
<1> QED
  BY <1>1, <1>5, <1>6 DEF m

(* Where the parts of a joined sequence start.                             *)
Starts(xs, p, pos) ==
  /\ pos[1] = p
  /\ \A k \in 1..Len(xs) : pos[k + 1] = pos[k] + Len(xs[k])

(* The first k of them.                                                    *)
Part(xs, k) == [j \in 1..k |-> xs[j]]

(* The parts of a joined sequence, one behind the other.                   *)
LEMMA HoldsParts ==
  ASSUME NEW S, NEW xs \in Seq(Seq(S)), NEW bytes, Len(bytes) \in Nat, NEW p,
         Holds(bytes, p, FlattenSeq(xs))
  PROVE  \E pos \in [1..(Len(xs) + 1) -> Nat \ {0}] :
            /\ Starts(xs, p, pos)
            /\ pos[Len(xs) + 1] = p + Len(FlattenSeq(xs))
            /\ \A k \in 1..Len(xs) : Holds(bytes, pos[k], xs[k])
<1> DEFINE n == Len(xs)
           flat(k) == FlattenSeq(Part(xs, k))
<1>0. n \in Nat /\ p \in Nat \ {0}
  BY DEF Holds
<1>1. ASSUME NEW k \in 0..n PROVE Part(xs, k) \in Seq(Seq(S)) /\ flat(k) \in Seq(S)
  <2>1. Part(xs, k) \in Seq(Seq(S))
    <3> DEFINE T == Seq(S)
    <3>1. \A j \in 1..k : xs[j] \in T
      OBVIOUS
    <3> HIDE DEF T
    <3>2. [j \in 1..k |-> xs[j]] \in Seq(T)
      BY <3>1, k \in Nat
    <3> QED
      BY <3>2 DEF Part, T
  <2>2. << >> \in Seq(S)
    OBVIOUS
  <2> QED
    BY <2>1, <2>2, FlattenAppend
<1>2. ASSUME NEW k \in 0..(n - 1)
      PROVE  flat(k + 1) = flat(k) \o xs[k + 1] /\ xs[k + 1] \in Seq(S)
  <2> DEFINE T == Seq(S)
  <2>1. k \in 0..n /\ k + 1 \in 1..n /\ xs[k + 1] \in T
    BY <1>0
  <2>2. Part(xs, k) \in Seq(T)
    BY <1>1, <2>1
  <2>3. Part(xs, k + 1) = Append(Part(xs, k), xs[k + 1])
    <3> HIDE DEF T
    <3>1. Len(Part(xs, k)) = k /\ \A j \in 1..k : Part(xs, k)[j] = xs[j]
      BY <2>1 DEF Part
    <3>2. Part(xs, k + 1) \in Seq(T) /\ Len(Part(xs, k + 1)) = k + 1 /\ \A j \in 1..(k + 1) : Part(xs, k + 1)[j] = xs[j]
      <4>1. \A j \in 1..(k + 1) : xs[j] \in T
        BY <1>0, <2>1 DEF T
      <4> QED
        BY <4>1, k + 1 \in Nat DEF Part
    <3> QED
      <4> DEFINE a == Part(xs, k)
                 b == Part(xs, k + 1)
      <4>1. /\ a \in Seq(T) /\ b \in Seq(T) /\ Len(a) = k /\ Len(b) = k + 1
            /\ b[k + 1] = xs[k + 1] /\ \A j \in 1..k : b[j] = a[j]
        BY <2>1, <2>2, <3>1, <3>2
      <4> HIDE DEF a, b
      <4>2. b = Append(a, b[k + 1])
        BY <4>1, AppendIs
      <4> QED
        BY <4>1, <4>2 DEF a, b
  <2> QED
    BY <2>1, <2>2, <2>3, FlattenAppend
<1>3. flat(n) = FlattenSeq(xs) /\ flat(0) = << >>
  <2>1. Part(xs, n) = xs
    BY DEF Part
  <2>2. Part(xs, 0) = << >>
    BY DEF Part
  <2>3. Len(<< >>) = 0
    OBVIOUS
  <2> QED
    BY <2>1, <2>2, <2>3 DEF FlattenSeq
<1> HIDE DEF flat
<1>4. \A k \in 0..n : Holds(bytes, p, flat(k))
  <2> DEFINE D == {d \in Nat : d <= n => Holds(bytes, p, flat(n - d))}
  <2>1. 0 \in D
    BY <1>0, <1>3
  <2>2. ASSUME NEW d \in Nat, d \in D PROVE d + 1 \in D
    <3> SUFFICES ASSUME d + 1 <= n PROVE Holds(bytes, p, flat(n - (d + 1)))
      OBVIOUS
    <3> DEFINE k == n - (d + 1)
    <3>1. k \in 0..(n - 1) /\ k \in 0..n /\ k + 1 = n - d /\ d <= n
      BY <1>0
    <3> HIDE DEF k
    <3>2. Holds(bytes, p, flat(k) \o xs[k + 1])
      BY <1>2, <2>2, <3>1
    <3>3. flat(k) \in Seq(S) /\ xs[k + 1] \in Seq(S)
      BY <1>1, <1>2, <3>1
    <3>4. Holds(bytes, p, flat(k))
      BY <3>2, <3>3, HoldsBoth
    <3> QED
      BY <3>4 DEF k
  <2>3. Nat \subseteq D
    <3> HIDE DEF D
    <3> QED
      BY <2>1, <2>2, Induction
  <2> TAKE k \in 0..n
  <2>4. n - k \in D /\ n - k <= n /\ n - (n - k) = k
    BY <1>0, <2>3
  <2> QED
    BY <2>4
<1> DEFINE pos == [k \in 1..(n + 1) |-> p + Len(flat(k - 1))]
<1>5. ASSUME NEW k \in 1..n
      PROVE  pos[k + 1] = pos[k] + Len(xs[k]) /\ Holds(bytes, pos[k], xs[k])
  <2>1. k - 1 \in 0..(n - 1) /\ (k - 1) + 1 = k /\ k - 1 \in 0..n /\ k \in 0..n /\ k \in 1..(n + 1)
        /\ k + 1 \in 1..(n + 1) /\ (k + 1) - 1 = k
    BY <1>0
  <2>2. /\ flat(k) = flat(k - 1) \o xs[k] /\ xs[k] \in Seq(S)
        /\ flat(k - 1) \in Seq(S) /\ Holds(bytes, p, flat(k))
    BY <1>1, <1>2, <1>4, <2>1
  <2>3. /\ Holds(bytes, p + Len(flat(k - 1)), xs[k])
        /\ Len(flat(k)) = Len(flat(k - 1)) + Len(xs[k])
    BY <2>2, HoldsBoth
  <2>4. Len(flat(k - 1)) \in Nat /\ Len(xs[k]) \in Nat
    BY <2>2
  <2>5. pos[k] = p + Len(flat(k - 1)) /\ pos[k + 1] = p + Len(flat(k))
    BY <2>1
  <2> HIDE DEF pos
  <2>6. pos[k + 1] = pos[k] + Len(xs[k])
    <3>1. \A a, b, c, q \in Nat : c = a + b => q + c = (q + a) + b
      OBVIOUS
    <3>2. Len(flat(k)) \in Nat /\ p \in Nat
      <4>1. flat(k) \in Seq(S)
        BY <1>1, <2>1
      <4> QED
        BY <1>0, <4>1
    <3>3. p + Len(flat(k)) = (p + Len(flat(k - 1))) + Len(xs[k])
      <4> DEFINE a == Len(flat(k - 1))
                 b == Len(xs[k])
                 c == Len(flat(k))
      <4>1. a \in Nat /\ b \in Nat /\ c \in Nat /\ c = a + b /\ p \in Nat
        BY <2>3, <2>4, <3>2
      <4> HIDE DEF a, b, c
      <4>2. p + c = (p + a) + b
        BY <3>1, <4>1
      <4> QED
        BY <4>2 DEF a, b, c
    <3> QED
      BY <2>5, <3>3, Zenon
  <2> QED
    BY <2>3, <2>5, <2>6
<1>6. pos \in [1..(n + 1) -> Nat \ {0}]
  <2>1. ASSUME NEW k \in 1..(n + 1) PROVE p + Len(flat(k - 1)) \in Nat \ {0}
    <3>1. k - 1 \in 0..n
      BY <1>0
    <3>2. Len(flat(k - 1)) \in Nat
      BY <1>1, <3>1
    <3> QED
      BY <1>0, <3>2
  <2> QED
    BY <2>1
<1>7. pos[1] = p /\ pos[n + 1] = p + Len(FlattenSeq(xs))
  <2>1. 1 \in 1..(n + 1) /\ n + 1 \in 1..(n + 1) /\ 1 - 1 = 0 /\ (n + 1) - 1 = n /\ Len(<< >>) = 0
    BY <1>0
  <2> QED
    BY <1>0, <1>3, <2>1
<1> HIDE DEF pos
<1>8. Starts(xs, p, pos)
  BY <1>5, <1>7 DEF Starts
<1> QED
  BY <1>5, <1>6, <1>7, <1>8

-----------------------------------------------------------------------------
(* Integers of one and of two bytes.                                       *)

(* The powers of two that they are made of.                                *)
LEMMA SmallPowers ==
  /\ Payload = 7 /\ Carry = 128
  /\ Power(2, 0) = 1 /\ Power(2, 6) = 64 /\ Power(2, 7) = 128 /\ Power(2, 8) = 256
  /\ Power(2, 13) = 8192 /\ Power(2, 14) = 16384
<1>1. \A n \in Nat : Power(2, 0) = 1 /\ Power(2, n + 1) = 2 * Power(2, n)
  BY PowerStep
<1>2. Power(2, 0) = 1 /\ Power(2, 1) = 2 /\ Power(2, 2) = 4 /\ Power(2, 3) = 8
  <2>1. Power(2, 0 + 1) = 2 * Power(2, 0) /\ Power(2, 1 + 1) = 2 * Power(2, 1)
        /\ Power(2, 2 + 1) = 2 * Power(2, 2) /\ Power(2, 0) = 1
    BY <1>1
  <2> QED
    BY <2>1
<1>3. Power(2, 4) = 16 /\ Power(2, 5) = 32 /\ Power(2, 6) = 64 /\ Power(2, 7) = 128 /\ Power(2, 8) = 256
  <2>1. Power(2, 3 + 1) = 2 * Power(2, 3) /\ Power(2, 4 + 1) = 2 * Power(2, 4)
        /\ Power(2, 5 + 1) = 2 * Power(2, 5) /\ Power(2, 6 + 1) = 2 * Power(2, 6)
        /\ Power(2, 7 + 1) = 2 * Power(2, 7)
    BY <1>1
  <2> QED
    BY <1>2, <2>1
<1>4. Power(2, 13) = 8192 /\ Power(2, 14) = 16384
  <2>1. Power(2, 8 + 1) = 2 * Power(2, 8) /\ Power(2, 9 + 1) = 2 * Power(2, 9)
        /\ Power(2, 10 + 1) = 2 * Power(2, 10) /\ Power(2, 11 + 1) = 2 * Power(2, 11)
        /\ Power(2, 12 + 1) = 2 * Power(2, 12) /\ Power(2, 13 + 1) = 2 * Power(2, 13)
    BY <1>1
  <2> QED
    BY <1>3, <2>1
<1>5. Payload = 7
  BY FormatAssumption
<1> QED
  BY <1>2, <1>3, <1>4, <1>5 DEF Carry

(* What read_expr is given.                                                *)
IsBytes(bytes) == bytes \in Seq(0..255)

(* The bytes are bytes.                                                    *)
LEMMA ByteAt ==
  ASSUME NEW bytes, IsBytes(bytes)
  PROVE  Len(bytes) \in Nat /\ \A p \in 1..Len(bytes) : bytes[p] \in 0..255
BY ElementOfSeq DEF IsBytes

(* Byte p of them is a.                                                    *)
IsAt(bytes, p, a) == IsBytes(bytes) /\ p \in 1..Len(bytes) /\ bytes[p] = a

(* The integers of the format.                                             *)
IntKinds == {"u32", "s32", "u64", "s64"}

(* The types hold more than a byte, and shifts are done in them.           *)
LEMMA Widths ==
  ASSUME NEW kind \in IntKinds
  PROVE  /\ Width(kind) \in Nat /\ Width(kind) >= 8 /\ ShiftWidth(kind) = Width(kind)
         /\ Modulus(kind) \in Nat \ {0} /\ Modulus(kind) >= 256
         /\ Modulus(kind) = Power(2, Width(kind))
<1>1. W32 \in Nat /\ W64 \in Nat /\ W32 >= 8 /\ W64 >= 8
  BY ReadersAssumption, FormatAssumption
<1>2. Width(kind) \in {W32, W64} /\ ShiftWidth(kind) = Width(kind)
  BY DEF IntKinds, Width, ShiftWidth
<1>3. Width(kind) \in Nat /\ Width(kind) >= 8
  BY <1>1, <1>2
<1>4. Power(2, Width(kind)) \in Nat \ {0} /\ Power(2, 8) <= Power(2, Width(kind))
  BY <1>3, PowerPositive, PowerMonotone
<1> QED
  BY <1>2, <1>3, <1>4, SmallPowers DEF Modulus

(* Where an integer of one byte ends, and one of two bytes.                *)
LEMMA BehindOne ==
  ASSUME NEW bytes, NEW p, NEW b \in 0..127, IsAt(bytes, p, b)
  PROVE  Behind(bytes, p) = p + 1
<1> DEFINE S == {q \in p..Len(bytes) : ~Continues(bytes[q])} \cup {Len(bytes)}
<1>1. Len(bytes) \in Nat /\ p \in 1..Len(bytes) /\ p \in p..Len(bytes) /\ bytes[p] = b
  BY ByteAt DEF IsAt
<1>2. S \in SUBSET Int /\ \A x \in S : p <= x
  BY <1>1
<1>3. p \in S
  <2>1. ~Continues(b)
    BY SmallPowers DEF Continues
  <2> QED
    BY <1>1, <2>1
<1>4. Behind(bytes, p) = Min(S) + 1
  BY DEF Behind
<1> HIDE DEF S
<1> QED
  BY <1>2, <1>3, <1>4, MinIs

(* A byte that continues and one that does not: the integer has both.      *)
LEMMA BehindTwo ==
  ASSUME NEW bytes, NEW p \in Nat, NEW a \in 128..255, NEW b \in 0..127,
         IsAt(bytes, p, a), IsAt(bytes, p + 1, b)
  PROVE  Behind(bytes, p) = p + 2
<1> DEFINE S == {q \in p..Len(bytes) : ~Continues(bytes[q])} \cup {Len(bytes)}
<1>0. /\ Len(bytes) \in Nat /\ p \in 1..Len(bytes) /\ p + 1 \in p..Len(bytes)
      /\ bytes[p] = a /\ bytes[p + 1] = b
  BY ByteAt DEF IsAt
<1>1. Continues(a) /\ ~Continues(b)
  BY SmallPowers DEF Continues
<1>2. S \in SUBSET Int /\ \A x \in S : p + 1 <= x
  <2>1. p \notin S
    <3>1. p # Len(bytes)
      BY <1>0
    <3> QED
      BY <1>0, <1>1, <3>1
  <2>2. \A x \in S : x \in Int /\ p <= x
    BY <1>0
  <2> HIDE DEF S
  <2> QED
    BY <2>1, <2>2
<1>3. p + 1 \in S
  BY <1>0, <1>1
<1>4. Behind(bytes, p) = Min(S) + 1
  BY DEF Behind
<1> HIDE DEF S
<1>5. Min(S) = p + 1
  BY <1>2, <1>3, MinIs
<1> QED
  BY <1>4, <1>5

(* The payload of a byte.                                                  *)
LEMMA PayloadOf ==
  /\ \A b \in 0..127 : Bits(b) = b
  /\ \A b \in 128..255 : Bits(b) = b - 128
<1>1. ASSUME NEW b \in 0..127 PROVE Bits(b) = b
  <2>1. b \in 0..(128 - 1) /\ 128 \in Nat \ {0}
    OBVIOUS
  <2>2. b % 128 = b
    BY <2>1, ModSmall
  <2> QED
    BY <2>2, SmallPowers DEF Bits
<1>2. ASSUME NEW b \in 128..255 PROVE Bits(b) = b - 128
  <2>1. b - 128 \in 0..(128 - 1) /\ 128 \in Nat \ {0} /\ b = 128 * 1 + (b - 128) /\ b \in Int
    OBVIOUS
  <2>2. b % 128 = b - 128
    BY <2>1, RemainderIs
  <2> QED
    BY <2>2, SmallPowers DEF Bits
<1> QED
  BY <1>1, <1>2

(* The numbers they make.                                                  *)
LEMMA UnsignedOfTwo ==
  ASSUME NEW bytes, NEW p \in Nat, NEW n \in 0..2, \A k \in 1..n : bytes[p + k - 1] \in 0..255
  PROVE  Unsigned(bytes, p, n) = (IF n >= 1 THEN Bits(bytes[p]) ELSE 0)
                                   + (IF n >= 2 THEN 128 * Bits(bytes[p + 1]) ELSE 0)
<1> DEFINE F == [k \in 1..n |-> Bits(bytes[p + k - 1]) * Power(2, Payload * (k - 1))]
<1>1. ASSUME NEW b \in 0..255 PROVE Bits(b) \in Int
  <2>1. b \in 0..127 \/ b \in 128..255
    OBVIOUS
  <2> QED
    BY <2>1, PayloadOf
<1>2. n >= 1 => F[1] = Bits(bytes[p]) /\ Bits(bytes[p]) \in Int
  <2> SUFFICES ASSUME n >= 1 PROVE F[1] = Bits(bytes[p]) /\ Bits(bytes[p]) \in Int
    OBVIOUS
  <2>1. 1 \in 1..n /\ p + 1 - 1 = p /\ Payload * (1 - 1) = 0
    BY SmallPowers
  <2>2. Bits(bytes[p]) \in Int
    BY <1>1, <2>1
  <2>3. F[1] = Bits(bytes[p]) * Power(2, 0)
    BY <2>1
  <2> QED
    BY <2>2, <2>3, SmallPowers
<1>3. n >= 2 => F[2] = 128 * Bits(bytes[p + 1]) /\ Bits(bytes[p + 1]) \in Int
  <2> SUFFICES ASSUME n >= 2 PROVE F[2] = 128 * Bits(bytes[p + 1]) /\ Bits(bytes[p + 1]) \in Int
    OBVIOUS
  <2>1. 2 \in 1..n /\ p + 2 - 1 = p + 1 /\ Payload * (2 - 1) = 7
    BY SmallPowers
  <2>2. Bits(bytes[p + 1]) \in Int
    BY <1>1, <2>1
  <2>3. F[2] = Bits(bytes[p + 1]) * Power(2, 7)
    BY <2>1
  <2> QED
    BY <2>2, <2>3, SmallPowers
<1>4. Unsigned(bytes, p, n) = SumOf(FirstTerms(F, n))
  <2>1. F = [k \in 1..n |-> F[k]]
    OBVIOUS
  <2>2. Unsigned(bytes, p, n) = SumOf(F)
    BY DEF Unsigned
  <2> HIDE DEF F
  <2> QED
    BY <2>1, <2>2 DEF FirstTerms
<1> HIDE DEF F
<1>5. SumOf(FirstTerms(F, 0)) = 0
  BY SumEmpty
<1>6. n >= 1 => SumOf(FirstTerms(F, 1)) = F[1]
  <2> SUFFICES ASSUME n >= 1 PROVE SumOf(FirstTerms(F, 1)) = F[1]
    OBVIOUS
  <2>1. Terms(F, 0 + 1)
    BY <1>2 DEF Terms
  <2>2. SumOf(FirstTerms(F, 0 + 1)) = SumOf(FirstTerms(F, 0)) + F[0 + 1]
    BY <2>1, SumStep
  <2> QED
    BY <1>2, <1>5, <2>2
<1>7. n >= 2 => SumOf(FirstTerms(F, 2)) = F[1] + F[2]
  <2> SUFFICES ASSUME n >= 2 PROVE SumOf(FirstTerms(F, 2)) = F[1] + F[2]
    OBVIOUS
  <2>1. Terms(F, 1 + 1)
    BY <1>2, <1>3 DEF Terms
  <2>2. SumOf(FirstTerms(F, 1 + 1)) = SumOf(FirstTerms(F, 1)) + F[1 + 1]
    BY <2>1, SumStep
  <2> QED
    BY <1>6, <2>2
<1>8. CASE n = 0
  BY <1>4, <1>5, <1>8
<1>9. CASE n = 1
  BY <1>2, <1>4, <1>6, <1>9
<1>10. CASE n = 2
  BY <1>2, <1>3, <1>4, <1>7, <1>10
<1> QED
  BY <1>8, <1>9, <1>10

(* The sign of an integer whose only byte is b.                            *)
SignOfOne(kind, b) == IF kind \in Signed /\ b >= 64 THEN Modulus(kind) - 128 ELSE 0

(* What an integer of one byte is read as.                                 *)
LEMMA ReadOne ==
  ASSUME NEW kind \in IntKinds, NEW bytes, NEW p \in Nat, NEW b \in 0..127, IsAt(bytes, p, b)
  PROVE  ReadInt(kind, bytes, p)
           = Result(p + 1, (b + SignOfOne(kind, b)) % Modulus(kind), "ok")
<1>0. bytes[p] = b
  BY DEF IsAt
<1>1. /\ Behind(bytes, p) = p + 1 /\ Bits(b) = b
      /\ (p + 1) - p = 1 /\ (p + 1) - 1 = p /\ p + 1 # p
  <2>2. Behind(bytes, p) = p + 1
    BY BehindOne
  <2>3. Bits(b) = b
    BY PayloadOf
  <2>4. (p + 1) - p = 1 /\ (p + 1) - 1 = p /\ p + 1 # p
    OBVIOUS
  <2> QED
    BY <2>2, <2>3, <2>4
<1>2. Width(kind) \in Nat /\ Width(kind) >= 8 /\ ShiftWidth(kind) = Width(kind) /\ Payload = 7
  BY Widths, SmallPowers
<1>3. ~ShiftsTooFar(kind, 1)
  BY <1>2 DEF ShiftsTooFar
<1>4. Unsigned(bytes, p, 1) = b
  <2>1. \A k \in 1..1 : bytes[p + k - 1] \in 0..255
    <3> TAKE k \in 1..1
    <3>1. p + k - 1 = p
      OBVIOUS
    <3> QED
      BY <1>0, <3>1
  <2>2. 1 \in 0..2
    OBVIOUS
  <2>3. Unsigned(bytes, p, 1) = (IF 1 >= 1 THEN Bits(bytes[p]) ELSE 0)
                                  + (IF 1 >= 2 THEN 128 * Bits(bytes[p + 1]) ELSE 0)
    BY <2>1, <2>2, UnsignedOfTwo
  <2>4. Unsigned(bytes, p, 1) = Bits(b) + 0
    BY <1>0, <2>3
  <2> QED
    BY <1>1, <2>4
<1>5. Extension(kind, b, Payload * 1) = SignOfOne(kind, b)
  BY <1>1, <1>2, SmallPowers DEF Extension, Negative, SignOfOne
<1>6. FromBlocks(kind, bytes, p, p + 1)
        = IF ShiftsTooFar(kind, 1) \/ (p + 1 = p /\ kind \in Signed) THEN Result(p + 1, 0, "undefined")
          ELSE IF p + 1 = p THEN Result(p + 1, 0, "ok")
          ELSE Result(p + 1, (Unsigned(bytes, p, 1) + Extension(kind, b, Payload * 1))
                               % Modulus(kind), "ok")
  BY <1>0, <1>1, Zenon DEF FromBlocks
<1>7. ReadInt(kind, bytes, p) = FromBlocks(kind, bytes, p, p + 1)
  BY <1>1, Zenon DEF ReadInt
<1> QED
  BY <1>1, <1>3, <1>4, <1>5, <1>6, <1>7, Zenon

(* The sign of an integer whose second and last byte is b.                 *)
SignOfTwo(kind, b) ==
  IF kind \in Signed /\ 14 < Width(kind) /\ b >= 64 THEN Modulus(kind) - 16384 ELSE 0

(* The number that the two bytes a and b make.                             *)
NumberOfTwo(kind, a, b) == ((a - 128) + 128 * b) + SignOfTwo(kind, b)

(* And one of two bytes.                                                   *)
LEMMA ReadTwo ==
  ASSUME NEW kind \in IntKinds, NEW bytes, NEW p \in Nat,
         NEW a \in 128..255, NEW b \in 0..127, IsAt(bytes, p, a), IsAt(bytes, p + 1, b)
  PROVE  ReadInt(kind, bytes, p)
           = Result(p + 2, NumberOfTwo(kind, a, b) % Modulus(kind), "ok")
<1>0. bytes[p] = a /\ bytes[p + 1] = b
  BY DEF IsAt
<1>1. /\ Behind(bytes, p) = p + 2 /\ Bits(a) = a - 128 /\ Bits(b) = b
      /\ (p + 2) - p = 2 /\ (p + 2) - 1 = p + 1 /\ p + 2 # p
  <2>2. Behind(bytes, p) = p + 2
    BY BehindTwo
  <2>3. Bits(a) = a - 128
    BY PayloadOf
  <2>4. Bits(b) = b
    BY PayloadOf
  <2>5. (p + 2) - p = 2 /\ (p + 2) - 1 = p + 1 /\ p + 2 # p
    OBVIOUS
  <2> QED
    BY <2>2, <2>3, <2>4, <2>5, Zenon
<1>2. Width(kind) \in Nat /\ Width(kind) >= 8 /\ ShiftWidth(kind) = Width(kind) /\ Payload = 7
  BY Widths, SmallPowers
<1>3. ~ShiftsTooFar(kind, 2)
  BY <1>2 DEF ShiftsTooFar
<1>4. Unsigned(bytes, p, 2) = (a - 128) + 128 * b
  <2>1. \A k \in 1..2 : bytes[p + k - 1] \in 0..255
    <3> TAKE k \in 1..2
    <3>1. p + k - 1 = p \/ p + k - 1 = p + 1
      OBVIOUS
    <3> QED
      BY <1>0, <3>1
  <2>2. 2 \in 0..2
    OBVIOUS
  <2>3. Unsigned(bytes, p, 2) = (IF 2 >= 1 THEN Bits(bytes[p]) ELSE 0)
                                  + (IF 2 >= 2 THEN 128 * Bits(bytes[p + 1]) ELSE 0)
    BY <2>1, <2>2, UnsignedOfTwo
  <2>4. Unsigned(bytes, p, 2) = Bits(a) + 128 * Bits(b)
    BY <1>0, <2>3
  <2> QED
    BY <1>1, <2>4
<1>5. Extension(kind, b, Payload * 2) = SignOfTwo(kind, b)
  <2>1. Payload * 2 = 14 /\ Payload - 1 = 6
    BY <1>2
  <2>2. Negative(b) <=> b >= 64
    BY <1>1, <2>1, SmallPowers DEF Negative
  <2>3. Extension(kind, b, 14)
          = IF kind \in Signed /\ 14 < Width(kind) /\ Negative(b) THEN Modulus(kind) - Power(2, 14) ELSE 0
    BY Zenon DEF Extension
  <2>4. Power(2, 14) = 16384
    BY SmallPowers
  <2>5. CASE kind \in Signed /\ 14 < Width(kind) /\ b >= 64
    <3>1. Extension(kind, b, 14) = Modulus(kind) - Power(2, 14)
      BY <2>2, <2>3, <2>5, Zenon
    <3>2. SignOfTwo(kind, b) = Modulus(kind) - 16384
      BY <2>5 DEF SignOfTwo
    <3> QED
      BY <2>1, <2>4, <3>1, <3>2
  <2>6. CASE ~(kind \in Signed /\ 14 < Width(kind) /\ b >= 64)
    <3>1. Extension(kind, b, 14) = 0
      BY <2>2, <2>3, <2>6, Zenon
    <3>2. SignOfTwo(kind, b) = 0
      BY <2>6 DEF SignOfTwo
    <3> QED
      BY <2>1, <3>1, <3>2, Zenon
  <2> QED
    BY <2>5, <2>6
<1>6. FromBlocks(kind, bytes, p, p + 2)
        = IF ShiftsTooFar(kind, 2) \/ (p + 2 = p /\ kind \in Signed) THEN Result(p + 2, 0, "undefined")
          ELSE IF p + 2 = p THEN Result(p + 2, 0, "ok")
          ELSE Result(p + 2, (Unsigned(bytes, p, 2) + Extension(kind, b, Payload * 2))
                               % Modulus(kind), "ok")
  BY <1>0, <1>1, Zenon DEF FromBlocks
<1>7. ReadInt(kind, bytes, p) = FromBlocks(kind, bytes, p, p + 2)
  BY <1>1, Zenon DEF ReadInt
<1>8. FromBlocks(kind, bytes, p, p + 2)
        = Result(p + 2, (Unsigned(bytes, p, 2) + Extension(kind, b, Payload * 2)) % Modulus(kind), "ok")
  BY <1>1, <1>3, <1>6, Zenon
<1> HIDE DEF Result
<1>9. Unsigned(bytes, p, 2) + Extension(kind, b, Payload * 2)
        = NumberOfTwo(kind, a, b)
  BY <1>4, <1>5, Zenon DEF NumberOfTwo
<1> QED
  BY <1>7, <1>8, <1>9, Zenon

-----------------------------------------------------------------------------
(* What the encodings of numbers are read as.                              *)

(* What an unsigned number of an encoding of at most two bytes comes to.   *)
Decoded(kind, n) ==
  IF kind \in Signed THEN ReadAsSigned(n, Width(kind)) ELSE n % Modulus(kind)

(* The numbers of at most two blocks.                                      *)
LEMMA Ranges ==
  /\ \A n : n \in Index <=> n \in Nat /\ n < 16384
  /\ \A v : v \in Operand <=> v \in Int /\ v >= -8192 /\ v < 8192
<1> DEFINE a == Power(2, 14)
           b == Power(2, 13)
<1>0. a = 16384 /\ b = 8192
  BY SmallPowers
<1>1. a \in Nat /\ b \in Nat
  BY <1>0
<1>2. Index = 0..(a - 1) /\ Operand = (-b)..(b - 1)
  BY DEF Index, Operand
<1> HIDE DEF a, b
<1>3. \A n : n \in 0..(a - 1) <=> n \in Nat /\ n < a
  BY <1>1
<1>4. \A v : v \in (-b)..(b - 1) <=> v \in Int /\ v >= -b /\ v < b
  BY <1>1
<1>5. \A n : n \in Index <=> n \in Nat /\ n < a
  BY <1>2, <1>3, Zenon
<1>6. \A v : v \in Operand <=> v \in Int /\ v >= -b /\ v < b
  BY <1>2, <1>4, Zenon
<1> QED
  BY <1>0, <1>5, <1>6

(* Half of what two blocks hold is 64 times what one block does.           *)
LEMMA HighBlock ==
  ASSUME NEW n \in Index
  PROVE  /\ n \div 128 \in 0..127 /\ n % 128 \in 0..127
         /\ n = 128 * (n \div 128) + (n % 128)
         /\ n >= 8192 <=> n \div 128 >= 64
<1>1. n \in Int /\ 128 \in Nat \ {0} /\ n >= 0 /\ n < 16384
  BY Ranges
<1>2. (n % 128) \in 0..(128 - 1) /\ n \div 128 \in Int /\ n = 128 * (n \div 128) + (n % 128)
  BY <1>1, DivMod
<1> DEFINE q == n \div 128
           r == n % 128
<1>3. q \in Int /\ r \in 0..127 /\ n = 128 * q + r
  BY <1>2
<1> HIDE DEF q, r
<1>4. q \in 0..127 /\ (n >= 8192 <=> q >= 64)
  BY <1>1, <1>3
<1> QED
  BY <1>3, <1>4 DEF q, r

(* The encodings of unsigned numbers.                                      *)
LEMMA UnsignedBytes ==
  ASSUME NEW n \in Index
  PROVE  /\ EncodeUnsigned(n) \in Seq(0..255) /\ Len(EncodeUnsigned(n)) \in Nat \ {0}
         /\ n < 128 => EncodeUnsigned(n) = <<n>> /\ Len(EncodeUnsigned(n)) = 1
         /\ n >= 128 => /\ EncodeUnsigned(n) = <<128 + (n % 128), n \div 128>>
                        /\ Len(EncodeUnsigned(n)) = 2
<1> DEFINE q == n \div 128
           r == n % 128
<1>1. q \in 0..127 /\ r \in 0..127 /\ n \in Nat
  BY HighBlock, Ranges
<1>2. EncodeUnsigned(n) = IF n < 128 THEN <<n>> ELSE <<128 + r, q>>
  BY DEF EncodeUnsigned
<1> HIDE DEF q, r
<1>3. 128 + r \in 0..255 /\ q \in 0..255 /\ (n < 128 => n \in 0..255)
  BY <1>1
<1>4. CASE n < 128
  BY <1>1, <1>2, <1>3, <1>4
<1>5. CASE n >= 128
  <2>1. EncodeUnsigned(n) = <<128 + r, q>>
    BY <1>1, <1>2, <1>5
  <2>2. <<128 + r, q>> \in Seq(0..255) /\ Len(<<128 + r, q>>) = 2
    BY <1>3
  <2> QED
    BY <1>1, <1>5, <2>1, <2>2 DEF q, r
<1> QED
  BY <1>1, <1>4, <1>5

(* Subtracting a number from the modulus subtracts it.                     *)
LEMMA ModMinus ==
  ASSUME NEW m \in Nat \ {0}, NEW x \in Int, NEW d \in Int
  PROVE  (x + (m - d)) % m = (x - d) % m
<1> DEFINE y == x - d
<1>1. y \in Int /\ 1 \in Int /\ x + (m - d) = y + m * 1
  OBVIOUS
<1> HIDE DEF y
<1>2. (y + m * 1) % m = y % m
  BY <1>1, ModMultiple
<1> QED
  BY <1>1, <1>2 DEF y

(* The sign makes of one block what Decoded says ...                       *)
LEMMA DecodedOne ==
  ASSUME NEW kind \in IntKinds, NEW n \in 0..127
  PROVE  (n + SignOfOne(kind, n)) % Modulus(kind) = Decoded(kind, n)
<1> DEFINE M == Modulus(kind)
<1>1. M \in Nat \ {0} /\ Width(kind) \in Nat /\ Width(kind) >= 8 /\ M = Power(2, Width(kind))
  BY Widths
<1>2. Len(EncodeUnsigned(n)) = 1
  <2>1. n \in Index /\ n < 128
    BY Ranges
  <2> QED
    BY <2>1, UnsignedBytes
<1>3. ReadAsSigned(n, Width(kind)) = (IF n >= 64 THEN n - 128 ELSE n) % M
  <2>1. 7 * Len(EncodeUnsigned(n)) = 7 /\ 7 - 1 = 6 /\ Power(2, 6) = 64 /\ Power(2, 7) = 128
    BY <1>2, SmallPowers
  <2>2. 7 < Width(kind)
    BY <1>1
  <2> QED
    BY <1>1, <2>1, <2>2 DEF ReadAsSigned
<1>4. (n + (M - 128)) % M = (n - 128) % M
  <2> DEFINE d == 128
  <2>1. d \in Int /\ n \in Int
    OBVIOUS
  <2> HIDE DEF M, d
  <2>2. (n + (M - d)) % M = (n - d) % M
    BY <1>1, <2>1, ModMinus
  <2> QED
    BY <2>2 DEF d
<1> HIDE DEF M
<1>5. CASE kind \in Signed /\ n >= 64
  BY <1>3, <1>4, <1>5 DEF Decoded, SignOfOne, M
<1>6. CASE ~(kind \in Signed /\ n >= 64)
  BY <1>3, <1>6 DEF Decoded, SignOfOne, M
<1> QED
  BY <1>5, <1>6

(* ... and of two.                                                         *)
LEMMA DecodedTwo ==
  ASSUME NEW kind \in IntKinds, NEW n \in Index, n >= 128
  PROVE  NumberOfTwo(kind, 128 + (n % 128), n \div 128) % Modulus(kind) = Decoded(kind, n)
<1> DEFINE M == Modulus(kind)
           a == 128 + (n % 128)
           b == n \div 128
<1>0. n \in Nat
  BY Ranges
<1>1. M \in Nat \ {0} /\ Width(kind) \in Nat /\ M = Power(2, Width(kind))
  BY Widths
<1>2. Len(EncodeUnsigned(n)) = 2
  BY UnsignedBytes
<1>3. /\ b \in 0..127 /\ n % 128 \in 0..127 /\ n = 128 * b + (n % 128)
      /\ n >= 8192 <=> b >= 64
  BY HighBlock
<1> HIDE DEF b
<1>4. (a - 128) + 128 * b = n
  <2> DEFINE r == n % 128
  <2>1. r \in 0..127 /\ n = 128 * b + r
    BY <1>3
  <2> HIDE DEF r
  <2>2. ((128 + r) - 128) + 128 * b = n
    BY <1>0, <1>3, <2>1
  <2> QED
    BY <2>2 DEF r
<1> HIDE DEF a
<1>5. ReadAsSigned(n, Width(kind)) = (IF 14 < Width(kind) /\ n >= 8192 THEN n - 16384 ELSE n) % M
  <2>1. 7 * Len(EncodeUnsigned(n)) = 14 /\ 14 - 1 = 13 /\ Power(2, 13) = 8192 /\ Power(2, 14) = 16384
    BY <1>2, SmallPowers
  <2> QED
    BY <1>1, <2>1 DEF ReadAsSigned
<1>6. (n + (M - 16384)) % M = (n - 16384) % M
  <2> DEFINE d == 16384
  <2>1. d \in Int /\ n \in Int
    BY <1>0
  <2> HIDE DEF M, d
  <2>2. (n + (M - d)) % M = (n - d) % M
    BY <1>1, <2>1, ModMinus
  <2> QED
    BY <2>2 DEF d
<1> HIDE DEF M
<1>7. CASE kind \in Signed /\ 14 < Width(kind) /\ b >= 64
  <2>1. SignOfTwo(kind, b) = M - 16384
    BY <1>7 DEF SignOfTwo, M
  <2>2. Decoded(kind, n) = (n - 16384) % M
    BY <1>3, <1>5, <1>7 DEF Decoded
  <2>3. NumberOfTwo(kind, a, b) = n + (M - 16384)
    <3> DEFINE e == M - 16384
    <3> HIDE DEF e
    <3>1. SignOfTwo(kind, b) = e
      BY <2>1 DEF e
    <3>2. NumberOfTwo(kind, a, b) = n + e
      BY <1>4, <3>1 DEF NumberOfTwo
    <3> QED
      BY <3>2 DEF e
  <2> QED
    BY <1>6, <2>2, <2>3 DEF a, b, M
<1>8. CASE ~(kind \in Signed /\ 14 < Width(kind) /\ b >= 64)
  <2>1. SignOfTwo(kind, b) = 0
    BY <1>8 DEF SignOfTwo
  <2>2. Decoded(kind, n) = n % M
    BY <1>3, <1>5, <1>8 DEF Decoded, M
  <2>3. NumberOfTwo(kind, a, b) = n + 0
    BY <1>4, <2>1 DEF NumberOfTwo
  <2>4. n + 0 = n
    BY <1>0
  <2> QED
    BY <2>2, <2>3, <2>4 DEF a, b, M
<1> QED
  BY <1>7, <1>8

(* The bytes that are held are where they belong.                          *)
LEMMA HeldAt ==
  ASSUME NEW bytes, IsBytes(bytes), NEW p, NEW x \in Seq(0..255), Holds(bytes, p, x),
         NEW j \in 1..Len(x)
  PROVE  p \in Nat /\ IsAt(bytes, p + j - 1, x[j])
<1>1. p \in Nat \ {0} /\ p + Len(x) <= Len(bytes) + 1 /\ bytes[p + j - 1] = x[j]
  BY DEF Holds
<1>2. Len(bytes) \in Nat
  BY ByteAt
<1> DEFINE l == Len(bytes)
           m == Len(x)
<1>3. m \in Nat /\ l \in Nat /\ j \in 1..m /\ p + m <= l + 1
  BY <1>1, <1>2
<1> HIDE DEF l, m
<1>4. p + j - 1 \in 1..l
  BY <1>1, <1>3
<1> QED
  BY <1>1, <1>4 DEF IsAt, l

(* One byte, and two of them.                                              *)
LEMMA HeldOne ==
  ASSUME NEW bytes, IsBytes(bytes), NEW p, NEW b \in 0..255, Holds(bytes, p, <<b>>)
  PROVE  p \in Nat /\ IsAt(bytes, p, b)
<1> DEFINE x == <<b>>
<1>1. x \in Seq(0..255) /\ 1 \in 1..Len(x) /\ x[1] = b
  OBVIOUS
<1> HIDE DEF x
<1>2. p \in Nat /\ IsAt(bytes, p + 1 - 1, x[1])
  BY <1>1, HeldAt DEF x
<1>3. p + 1 - 1 = p
  BY <1>2
<1> QED
  BY <1>1, <1>2, <1>3

(* Two bytes that are held, one by one.                                    *)
LEMMA HeldTwo ==
  ASSUME NEW bytes, IsBytes(bytes), NEW p, NEW a \in 0..255, NEW b \in 0..255,
         Holds(bytes, p, <<a, b>>)
  PROVE  p \in Nat /\ IsAt(bytes, p, a) /\ IsAt(bytes, p + 1, b)
<1> DEFINE x == <<a, b>>
<1>1. x \in Seq(0..255) /\ 1 \in 1..Len(x) /\ 2 \in 1..Len(x) /\ x[1] = a /\ x[2] = b
  OBVIOUS
<1> HIDE DEF x
<1>2. p \in Nat /\ IsAt(bytes, p + 1 - 1, x[1]) /\ IsAt(bytes, p + 2 - 1, x[2])
  BY <1>1, HeldAt DEF x
<1>3. p + 1 - 1 = p /\ p + 2 - 1 = p + 1
  BY <1>2
<1> QED
  BY <1>1, <1>2, <1>3

(* An unsigned number is read as itself, but as a signed one it gets the   *)
(* sign of its encoding.                                                   *)
LEMMA UnsignedRead ==
  ASSUME NEW kind \in IntKinds, NEW n \in Index, NEW bytes, IsBytes(bytes), NEW p,
         Holds(bytes, p, EncodeUnsigned(n))
  PROVE  ReadInt(kind, bytes, p) = Result(p + Len(EncodeUnsigned(n)), Decoded(kind, n), "ok")
<1>1. n \in Nat /\ n < 16384
  BY Ranges
<1>4. CASE n < 128
  <2>1. EncodeUnsigned(n) = <<n>> /\ Len(EncodeUnsigned(n)) = 1 /\ n \in 0..127 /\ n \in 0..255
    BY <1>1, <1>4, UnsignedBytes
  <2>2. p \in Nat /\ IsAt(bytes, p, n)
    BY <2>1, HeldOne
  <2>5. ReadInt(kind, bytes, p) = Result(p + 1, (n + SignOfOne(kind, n)) % Modulus(kind), "ok")
    BY <2>1, <2>2, ReadOne
  <2>6. (n + SignOfOne(kind, n)) % Modulus(kind) = Decoded(kind, n)
    BY <2>1, DecodedOne
  <2> HIDE DEF Result
  <2> QED
    BY <2>1, <2>5, <2>6, Zenon
<1>5. CASE n >= 128
  <2> DEFINE a == 128 + (n % 128)
             b == n \div 128
  <2>1. EncodeUnsigned(n) = <<a, b>> /\ Len(EncodeUnsigned(n)) = 2
    BY <1>5, UnsignedBytes
  <2>2. a \in 128..255 /\ b \in 0..127 /\ a \in 0..255 /\ b \in 0..255
    <3>1. n % 128 \in 0..127 /\ b \in 0..127
      BY HighBlock
    <3> QED
      BY <3>1
  <2>3. NumberOfTwo(kind, a, b) % Modulus(kind) = Decoded(kind, n)
    BY <1>5, DecodedTwo, SMTT(30)
  <2> HIDE DEF a, b, Result
  <2>4. p \in Nat /\ IsAt(bytes, p, a) /\ IsAt(bytes, p + 1, b)
    BY <2>1, <2>2, HeldTwo, ZenonT(30)
  <2>5. ReadInt(kind, bytes, p) = Result(p + 2, NumberOfTwo(kind, a, b) % Modulus(kind), "ok")
    BY <2>2, <2>4, ReadTwo
  <2> QED
    BY <2>1, <2>3, <2>5
<1> QED
  BY <1>1, <1>4, <1>5

(* A signed number and its blocks: what its two blocks hold is it, or 2^14 *)
(* more if it is negative.                                                 *)
LEMMA SignedBlocks ==
  ASSUME NEW v \in Operand
  PROVE  /\ v % 128 \in 0..127 /\ (v \div 128) % 128 \in 0..127
         /\ v >= 0 => 128 * ((v \div 128) % 128) + (v % 128) = v /\ (v \div 128) % 128 < 64
         /\ v < 0 => 128 * ((v \div 128) % 128) + (v % 128) = v + 16384
                     /\ (v \div 128) % 128 >= 64
         /\ v \in 0..63 => v % 128 = v
         /\ v \in -64..-1 => v % 128 = v + 128
<1>1. v \in Int /\ 128 \in Nat \ {0} /\ v >= -8192 /\ v < 8192
  BY Ranges
<1>2. (v % 128) \in 0..(128 - 1) /\ v \div 128 \in Int /\ v = 128 * (v \div 128) + (v % 128)
  BY <1>1, DivMod
<1> DEFINE q == v \div 128
           r == v % 128
<1>3. r \in 0..127 /\ q \in Int /\ v = 128 * q + r
  BY <1>2
<1> HIDE DEF q, r
<1>4. q >= -64 /\ q < 64 /\ (v >= 0 => q >= 0) /\ (v < 0 => q < 0)
  BY <1>1, <1>3
<1>5. v >= 0 => q % 128 = q
  <2> SUFFICES ASSUME v >= 0 PROVE q % 128 = q
    OBVIOUS
  <2>1. q \in 0..(128 - 1)
    BY <1>3, <1>4
  <2> QED
    BY <1>1, <2>1, ModSmall
<1>6. v < 0 => q % 128 = q + 128
  <2> SUFFICES ASSUME v < 0 PROVE q % 128 = q + 128
    OBVIOUS
  <2>1. q + 128 \in 0..(128 - 1) /\ q = 128 * (-1) + (q + 128) /\ -1 \in Int
    BY <1>3, <1>4
  <2> QED
    BY <1>1, <1>3, <2>1, RemainderIs
<1>7. v \in 0..63 => r = v
  BY <1>3, <1>4
<1>8. v \in -64..-1 => r = v + 128
  BY <1>3, <1>4
<1>9. CASE v >= 0
  <2> DEFINE c == q % 128
  <2>1. c = q
    BY <1>5, <1>9
  <2> HIDE DEF c
  <2>2. c \in 0..127 /\ 128 * c + r = v /\ c < 64
    BY <1>1, <1>3, <1>4, <1>9, <2>1
  <2>3. v \notin -64..-1
    BY <1>9
  <2> QED
    BY <1>3, <1>7, <1>9, <2>2, <2>3 DEF c, q, r
<1>10. CASE v < 0
  <2> DEFINE c == q % 128
  <2>1. c = q + 128
    BY <1>6, <1>10
  <2> HIDE DEF c
  <2>2. c \in 0..127 /\ 128 * c + r = v + 16384 /\ c >= 64
    BY <1>1, <1>3, <1>4, <1>10, <2>1
  <2> QED
    BY <1>1, <1>3, <1>8, <1>10, <2>2 DEF c, q, r
<1> QED
  BY <1>1, <1>9, <1>10

(* The encodings of signed numbers.                                        *)
LEMMA SignedBytes ==
  ASSUME NEW v \in Operand
  PROVE  /\ EncodeSigned(v) \in Seq(0..255) /\ Len(EncodeSigned(v)) \in Nat \ {0}
         /\ v \in -64..63 => EncodeSigned(v) = <<v % 128>> /\ Len(EncodeSigned(v)) = 1
         /\ v \notin -64..63 => /\ EncodeSigned(v) = <<128 + (v % 128), (v \div 128) % 128>>
                                /\ Len(EncodeSigned(v)) = 2
<1> DEFINE r == v % 128
           c == (v \div 128) % 128
<1>1. r \in 0..127 /\ c \in 0..127
  BY SignedBlocks
<1>2. EncodeSigned(v) = IF v \in -64..63 THEN <<r>> ELSE <<128 + r, c>>
  BY DEF EncodeSigned
<1> HIDE DEF r, c
<1>3. 128 + r \in 0..255 /\ r \in 0..255 /\ c \in 0..255
  BY <1>1
<1>4. /\ <<r>> \in Seq(0..255) /\ Len(<<r>>) = 1
      /\ <<128 + r, c>> \in Seq(0..255) /\ Len(<<128 + r, c>>) = 2
  BY <1>3
<1>5. CASE v \in -64..63
  <2>1. EncodeSigned(v) = <<r>>
    BY <1>2, <1>5
  <2> QED
    BY <1>4, <1>5, <2>1 DEF r
<1>6. CASE v \notin -64..63
  <2>1. EncodeSigned(v) = <<128 + r, c>>
    BY <1>2, <1>6
  <2> QED
    BY <1>4, <1>6, <2>1 DEF r, c
<1> QED
  BY <1>5, <1>6

(* The modulus of a type of at most 14 bits divides 2^14.                  *)
LEMMA DividesTwoBlocks ==
  ASSUME NEW w \in Nat, w <= 14, NEW v \in Int
  PROVE  (v + 16384) % Power(2, w) = v % Power(2, w)
<1> DEFINE d == Power(2, w)
           e == Power(2, 14 - w)
<1>1. 14 - w \in Nat /\ w + (14 - w) = 14
  OBVIOUS
<1>2. d \in Nat \ {0} /\ e \in Nat \ {0}
  BY <1>1, PowerPositive
<1>3. Power(2, 14) = d * e /\ Power(2, 14) = 16384
  <2>1. Power(2, w + (14 - w)) = d * e
    BY <1>1, PowerPlus
  <2> QED
    BY <1>1, <2>1, SmallPowers
<1> HIDE DEF d, e
<1>4. (v + d * e) % d = v % d
  <2>1. d \in Nat \ {0} /\ e \in Int /\ v \in Int
    BY <1>2
  <2> QED
    BY <2>1, ModMultiple, Zenon
<1> QED
  BY <1>3, <1>4 DEF d

(* A signed number is read as itself.                                      *)
LEMMA SignedRead ==
  ASSUME NEW kind \in Signed, NEW v \in Operand, NEW bytes, IsBytes(bytes), NEW p,
         Holds(bytes, p, EncodeSigned(v))
  PROVE  ReadInt(kind, bytes, p) = Result(p + Len(EncodeSigned(v)), v % Modulus(kind), "ok")
<1> DEFINE M == Modulus(kind)
           w == Width(kind)
           r == v % 128
           c == (v \div 128) % 128
           a == 128 + r
<1>0. kind \in IntKinds /\ v \in Int /\ v >= -8192 /\ v < 8192
  BY Ranges DEF IntKinds, Signed
<1>1. M \in Nat \ {0} /\ w \in Nat /\ M = Power(2, w)
  BY <1>0, Widths
<1>2. /\ r \in 0..127 /\ c \in 0..127
      /\ v >= 0 => 128 * c + r = v /\ c < 64
      /\ v < 0 => 128 * c + r = v + 16384 /\ c >= 64
      /\ v \in 0..63 => r = v
      /\ v \in -64..-1 => r = v + 128
  BY SignedBlocks
<1>8. kind \in IntKinds /\ v \in Int /\ 1 \in Int
  BY <1>0
<1>7. r \in 0..127 /\ c \in 0..127 /\ r \in 0..255 /\ c \in 0..255 /\ a \in 0..255 /\ a \in 128..255
  <2>1. r \in 0..127 /\ c \in 0..127
    BY <1>2
  <2> HIDE DEF r, c
  <2> QED
    BY <2>1
<1>3. v \in -64..63 => EncodeSigned(v) = <<r>> /\ Len(EncodeSigned(v)) = 1
  BY SignedBytes
<1>4. v \notin -64..63 => EncodeSigned(v) = <<a, c>> /\ Len(EncodeSigned(v)) = 2
  BY SignedBytes
<1> HIDE DEF M, w, r, c, a, Result
<1>5. CASE v \in -64..63
  <2>1. p \in Nat /\ IsAt(bytes, p, r)
    BY <1>3, <1>5, <1>7, HeldOne
  <2>2. ReadInt(kind, bytes, p) = Result(p + 1, (r + SignOfOne(kind, r)) % M, "ok")
    BY <1>0, <1>7, <2>1, ReadOne DEF M
  <2>3. (r + SignOfOne(kind, r)) % M = v % M
    <3>1. CASE v >= 0
      <4>1. r = v /\ v \in 0..63
        BY <1>0, <1>2, <1>5, <3>1
      <4>2. SignOfOne(kind, r) = 0
        BY <4>1 DEF SignOfOne
      <4>3. r + SignOfOne(kind, r) = v
        BY <1>0, <4>1, <4>2
      <4> QED
        BY <4>3
    <3>2. CASE v < 0
      <4>1. r = v + 128 /\ r >= 64
        BY <1>0, <1>2, <1>5, <3>2
      <4>2. SignOfOne(kind, r) = M - 128
        BY <4>1 DEF SignOfOne, M
      <4>3. r + SignOfOne(kind, r) = v + M * 1
        BY <1>0, <1>1, <4>1, <4>2
      <4>4. (v + M * 1) % M = v % M
        BY <1>1, <1>8, ModMultiple, Zenon
      <4> QED
        BY <4>3, <4>4
    <3> QED
      BY <1>0, <3>1, <3>2
  <2> QED
    BY <1>3, <1>5, <2>2, <2>3 DEF M
<1>6. CASE v \notin -64..63
  <2>0. Holds(bytes, p, <<a, c>>) /\ Len(EncodeSigned(v)) = 2
    BY <1>4, <1>6, Zenon
  <2>1. p \in Nat /\ IsAt(bytes, p, a) /\ IsAt(bytes, p + 1, c)
    <3>1. a \in 0..255 /\ c \in 0..255
      BY <1>7
    <3> QED
      BY <2>0, <3>1, HeldTwo
  <2>2. ReadInt(kind, bytes, p) = Result(p + 2, NumberOfTwo(kind, a, c) % M, "ok")
    <3>1. a \in 128..255 /\ c \in 0..127
      BY <1>7
    <3> QED
      BY <1>8, <2>1, <3>1, ReadTwo, Zenon DEF M
  <2>3. NumberOfTwo(kind, a, c) % M = v % M
    <3> DEFINE sign == SignOfTwo(kind, c)
    <3> HIDE DEF sign
    <3>0. NumberOfTwo(kind, a, c) = ((128 + r) - 128) + 128 * c + sign
      BY DEF NumberOfTwo, sign, a
    <3>1. CASE v >= 0
      <4>1. 128 * c + r = v /\ c < 64
        BY <1>2, <3>1
      <4>2. sign = 0
        BY <1>2, <4>1 DEF SignOfTwo, sign
      <4>3. NumberOfTwo(kind, a, c) = v
        BY <1>0, <1>2, <3>0, <4>1, <4>2
      <4> QED
        BY <4>3
    <3>2. CASE v < 0 /\ 14 < w
      <4>1. 128 * c + r = v + 16384 /\ c >= 64
        BY <1>2, <3>2
      <4>2. sign = M - 16384
        BY <3>2, <4>1 DEF SignOfTwo, sign, M, w
      <4>3. NumberOfTwo(kind, a, c) = v + M * 1
        BY <1>0, <1>1, <1>2, <3>0, <4>1, <4>2
      <4>4. (v + M * 1) % M = v % M
        BY <1>1, <1>8, ModMultiple, Zenon
      <4> QED
        BY <4>3, <4>4
    <3>3. CASE v < 0 /\ ~(14 < w)
      <4>1. 128 * c + r = v + 16384
        BY <1>2, <3>3
      <4>2. sign = 0
        BY <3>3 DEF SignOfTwo, sign, w
      <4>3. NumberOfTwo(kind, a, c) = v + 16384
        BY <1>0, <1>2, <3>0, <4>1, <4>2
      <4>4. (v + 16384) % M = v % M
        <5>1. w <= 14
          BY <1>1, <3>3
        <5> QED
          BY <1>0, <1>1, <5>1, DividesTwoBlocks
      <4> QED
        BY <4>3, <4>4
    <3> QED
      BY <1>0, <3>1, <3>2, <3>3
  <2> QED
    BY <2>0, <2>2, <2>3 DEF M
<1> QED
  BY <1>5, <1>6

-----------------------------------------------------------------------------
(* Lists of encodings.                                                     *)

(* Wherever the bytes hold x, the reader gets the value v from it.         *)
Gets(kind, bytes, x, v) ==
  \A q : Holds(bytes, q, x) => Read(kind, bytes, q) = Result(q + Len(x), v, "ok")

(* What a list of readers gets from a list of bytes, one by one.           *)
AllGet(S, kinds, bytes, xs, val) ==
  /\ val \in Seq(S) /\ xs \in Seq(Seq(0..255)) /\ Len(kinds) = Len(val) /\ Len(xs) = Len(val)
  /\ \A k \in 1..Len(xs) : Gets(kinds[k], bytes, xs[k], val[k])

(* What the readers get, one by one, Continue gets from the joined list.   *)
LEMMA ListRead ==
  ASSUME NEW S, NEW v0 \in Seq(S), NEW val, NEW xs, NEW kinds,
         NEW bytes, IsBytes(bytes), AllGet(S, kinds, bytes, xs, val),
         NEW p, Holds(bytes, p, FlattenSeq(xs))
  PROVE  Continue(Result(p, v0, "ok"), kinds, bytes)
           = Result(p + Len(FlattenSeq(xs)), v0 \o val, "ok")
<1>0. /\ val \in Seq(S) /\ xs \in Seq(Seq(0..255)) /\ Len(kinds) = Len(val) /\ Len(xs) = Len(val)
      /\ \A k \in 1..Len(xs) : Gets(kinds[k], bytes, xs[k], val[k])
  BY DEF AllGet
<1> DEFINE B == 0..255
<1>1. xs \in Seq(Seq(B)) /\ Len(bytes) \in Nat
  BY <1>0, ByteAt
<1> HIDE DEF B
<1>2. PICK pos \in [1..(Len(xs) + 1) -> Nat \ {0}] :
            /\ Starts(xs, p, pos)
            /\ pos[Len(xs) + 1] = p + Len(FlattenSeq(xs))
            /\ \A k \in 1..Len(xs) : Holds(bytes, pos[k], xs[k])
  BY <1>1, HoldsParts
<1>3. Completes(kinds, bytes, pos, val)
  <2>1. ASSUME NEW k \in 1..Len(kinds)
        PROVE  Read(kinds[k], bytes, pos[k]) = Result(pos[k + 1], val[k], "ok")
    <3>1. k \in 1..Len(xs)
      BY <1>0
    <3>2. Holds(bytes, pos[k], xs[k]) /\ pos[k + 1] = pos[k] + Len(xs[k])
      BY <1>2, <3>1 DEF Starts
    <3>3. Gets(kinds[k], bytes, xs[k], val[k])
      BY <1>0, <3>1
    <3> HIDE DEF Result
    <3>4. Read(kinds[k], bytes, pos[k]) = Result(pos[k] + Len(xs[k]), val[k], "ok")
      BY <3>2, <3>3, Zenon DEF Gets
    <3> QED
      BY <3>2, <3>4, Zenon
  <2> QED
    BY <2>1 DEF Completes
<1>4. Continue(Result(pos[1], v0, "ok"), kinds, bytes) = Result(pos[Len(val) + 1], v0 \o val, "ok")
  BY <1>0, <1>3, ContinueCompletes
<1>5. pos[1] = p /\ pos[Len(val) + 1] = p + Len(FlattenSeq(xs))
  BY <1>0, <1>2 DEF Starts
<1> QED
  BY <1>4, <1>5, Zenon

(* One reader.                                                             *)
LEMMA ContinueOne ==
  ASSUME NEW S, NEW v0 \in Seq(S), NEW v \in S, NEW kind, NEW bytes, NEW p, NEW q,
         Read(kind, bytes, p) = Result(q, v, "ok")
  PROVE  Continue(Result(p, v0, "ok"), <<kind>>, bytes) = Result(q, v0 \o <<v>>, "ok")
<1> DEFINE val == <<v>>
           kinds == <<kind>>
           pos == <<p, q>>
<1>1. val \in Seq(S) /\ Len(kinds) = Len(val) /\ Len(val) = 1 /\ Len(kinds) = 1
  OBVIOUS
<1>2. pos[1] = p /\ pos[1 + 1] = q /\ kinds[1] = kind /\ val[1] = v
  OBVIOUS
<1> HIDE DEF val, kinds, pos, Result
<1>3. Completes(kinds, bytes, pos, val)
  <2>1. ASSUME NEW k \in 1..1 PROVE Read(kinds[k], bytes, pos[k]) = Result(pos[k + 1], val[k], "ok")
    <3>1. k = 1
      OBVIOUS
    <3>2. Read(kinds[1], bytes, pos[1]) = Result(pos[1 + 1], val[1], "ok")
      BY <1>2
    <3> QED
      BY <3>1, <3>2
  <2> QED
    BY <1>1, <2>1 DEF Completes
<1>4. Continue(Result(pos[1], v0, "ok"), kinds, bytes) = Result(pos[Len(val) + 1], v0 \o val, "ok")
  <2>1. val \in Seq(S) /\ v0 \in Seq(S) /\ Len(kinds) = Len(val)
    BY <1>1
  <2> QED
    BY <1>3, <2>1, ContinueCompletes
<1>5. pos[Len(val) + 1] = q
  <2>1. Len(val) = 1
    BY <1>1
  <2> QED
    BY <1>2, <2>1, Zenon
<1> QED
  BY <1>2, <1>4, <1>5 DEF kinds, val

(* One reader, from nothing.                                               *)
LEMMA ContinueFirst ==
  ASSUME NEW v, NEW kind, NEW bytes, NEW p, NEW q, Read(kind, bytes, p) = Result(q, v, "ok")
  PROVE  Continue(Result(p, << >>, "ok"), <<kind>>, bytes) = Result(q, <<v>>, "ok")
<1> DEFINE e == << >>
<1>1. e \in Seq({v}) /\ v \in {v} /\ e \o <<v>> = <<v>>
  OBVIOUS
<1> HIDE DEF e, Result
<1>2. Continue(Result(p, e, "ok"), <<kind>>, bytes) = Result(q, e \o <<v>>, "ok")
  BY <1>1, ContinueOne
<1> QED
  BY <1>1, <1>2 DEF e

(* No reader.                                                              *)
LEMMA ContinueNone ==
  ASSUME NEW r, NEW bytes
  PROVE  Continue(r, << >>, bytes) = r
<1> DEFINE f == [k \in 0..0 |-> r]
           kinds == << >>
<1>1. Len(kinds) = 0
  OBVIOUS
<1>2. Passes(r, kinds, bytes, f)
  BY <1>1 DEF Passes
<1>3. f[0] = r
  OBVIOUS
<1> HIDE DEF f, kinds
<1>4. Continue(r, kinds, bytes) = f[Len(kinds)]
  BY <1>1, <1>2, ContinueIs
<1> QED
  BY <1>1, <1>3, <1>4 DEF kinds

(* The readers of integers, bytes and floats.                              *)
LEMMA ReadKinds ==
  ASSUME NEW bytes, NEW p
  PROVE  /\ \A kind \in IntKinds : Read(kind, bytes, p) = ReadInt(kind, bytes, p)
         /\ Read("byte", bytes, p) = ReadByte(bytes, p)
         /\ Read("f32", bytes, p) = ReadRaw(4, bytes, p)
         /\ Read("f64", bytes, p) = ReadRaw(8, bytes, p)
<1>1. ASSUME NEW kind \in IntKinds PROVE Read(kind, bytes, p) = ReadInt(kind, bytes, p)
  BY DEF Read, IntKinds
<1>2. Read("byte", bytes, p) = ReadByte(bytes, p)
  BY DEF Read
<1>3. Read("f32", bytes, p) = ReadRaw(4, bytes, p)
  BY DEF Read
<1>4. Read("f64", bytes, p) = ReadRaw(8, bytes, p)
  BY DEF Read
<1> QED
  BY <1>1, <1>2, <1>3, <1>4

(* What they get from encodings.                                           *)
LEMMA GetsUnsigned ==
  ASSUME NEW kind \in IntKinds, NEW n \in Index, NEW bytes, IsBytes(bytes)
  PROVE  Gets(kind, bytes, EncodeUnsigned(n), Decoded(kind, n))
<1> HIDE DEF Result
<1> SUFFICES ASSUME NEW q, Holds(bytes, q, EncodeUnsigned(n))
             PROVE  Read(kind, bytes, q) = Result(q + Len(EncodeUnsigned(n)), Decoded(kind, n), "ok")
  BY DEF Gets
<1>1. ReadInt(kind, bytes, q) = Result(q + Len(EncodeUnsigned(n)), Decoded(kind, n), "ok")
  BY UnsignedRead
<1>2. Read(kind, bytes, q) = ReadInt(kind, bytes, q)
  BY ReadKinds
<1> QED
  BY <1>1, <1>2

(* What the readers get from a signed encoding, from the encoding of       *)
(* a byte, and from raw bytes.                                             *)
LEMMA GetsSigned ==
  ASSUME NEW kind \in Signed, NEW v \in Operand, NEW bytes, IsBytes(bytes)
  PROVE  Gets(kind, bytes, EncodeSigned(v), v % Modulus(kind))
<1> HIDE DEF Result
<1> SUFFICES ASSUME NEW q, Holds(bytes, q, EncodeSigned(v))
             PROVE  Read(kind, bytes, q) = Result(q + Len(EncodeSigned(v)), v % Modulus(kind), "ok")
  BY DEF Gets
<1>1. ReadInt(kind, bytes, q) = Result(q + Len(EncodeSigned(v)), v % Modulus(kind), "ok")
  BY SignedRead
<1>2. Read(kind, bytes, q) = ReadInt(kind, bytes, q)
  <2>1. kind \in IntKinds
    BY DEF IntKinds, Signed
  <2> QED
    BY <2>1, ReadKinds
<1> QED
  BY <1>1, <1>2

(* A byte.                                                                 *)
LEMMA GetsByte ==
  ASSUME NEW n \in 0..127, NEW bytes, IsBytes(bytes)
  PROVE  Gets("byte", bytes, EncodeUnsigned(n), n)
<1> HIDE DEF Result
<1>0. EncodeUnsigned(n) = <<n>> /\ Len(EncodeUnsigned(n)) = 1 /\ n \in 0..255
  <2>1. n \in Index /\ n < 128 /\ n \in 0..255
    BY Ranges
  <2> QED
    BY <2>1, UnsignedBytes
<1> SUFFICES ASSUME NEW q, Holds(bytes, q, <<n>>)
             PROVE  Read("byte", bytes, q) = Result(q + 1, n, "ok")
  BY <1>0 DEF Gets
<1>1. q \in Nat /\ IsAt(bytes, q, n)
  BY <1>0, HeldOne
<1>2. bytes[q] = n /\ q \in DOMAIN bytes
  <2>1. DOMAIN bytes = 1..Len(bytes)
    BY DEF IsBytes
  <2> QED
    BY <1>1, <2>1 DEF IsAt
<1>3. ReadByte(bytes, q) = Result(q + 1, n, "ok")
  BY <1>2 DEF ReadByte
<1> QED
  BY <1>3, ReadKinds

(* The bytes of a float.                                                   *)
LEMMA GetsRaw ==
  ASSUME NEW l, NEW x, IsBytes(x), Len(x) = l, NEW bytes, IsBytes(bytes), NEW q, Holds(bytes, q, x)
  PROVE  ReadRaw(l, bytes, q) = Result(q + l, x, "ok")
<1> DEFINE B == 0..255
<1>1. x \in Seq(B) /\ Len(x) = l /\ bytes \in Seq(B)
  BY DEF IsBytes
<1> HIDE DEF B, Result
<1>0. x \in [1..l -> B] /\ bytes \in Seq(B) /\ l \in Nat /\ Len(bytes) \in Nat
  BY <1>1
<1>2. q \in Nat \ {0} /\ q + l <= Len(bytes) + 1 /\ \A j \in 1..l : bytes[q + j - 1] = x[j]
  BY <1>1 DEF Holds
<1>3. SubSeq(bytes, q, q + l - 1) = x
  <2> DEFINE y == SubSeq(bytes, q, q + l - 1)
             L == Len(bytes)
  <2>1. q \in 1..(L + 1) /\ (q + l - 1) \in (q - 1)..L /\ (q + l - 1) - q + 1 = l
    <3>1. L \in Nat /\ l \in Nat /\ q + l <= L + 1
      BY <1>0, <1>2
    <3> HIDE DEF L
    <3> QED
      BY <1>2, <3>1
  <2>2. y \in [1..((q + l - 1) - q + 1) -> B] /\ \A j \in 1..((q + l - 1) - q + 1) : y[j] = bytes[q + j - 1]
    <3>1. bytes \in Seq(B)
      BY <1>0
    <3>2. y \in Seq(B) /\ Len(y) = (q + l - 1) - q + 1
          /\ \A j \in 1..((q + l - 1) - q + 1) : y[j] = bytes[q + j - 1]
      BY <2>1, <3>1
    <3> HIDE DEF y
    <3> QED
      BY <3>2
  <2> HIDE DEF y
  <2>3. y \in [1..l -> B] /\ \A j \in 1..l : y[j] = bytes[q + j - 1]
    BY <2>1, <2>2
  <2>4. \A j \in 1..l : y[j] = x[j]
    BY <1>2, <2>3
  <2>5. y = x
    BY <1>0, <2>3, <2>4
  <2> QED
    BY <2>5 DEF y
<1>4. ~(Len(bytes) + 1 - q < l)
  <2> DEFINE L == Len(bytes)
  <2>1. L \in Nat /\ q \in Nat /\ l \in Nat /\ q + l <= L + 1
    BY <1>0, <1>2
  <2> HIDE DEF L
  <2>2. ~(L + 1 - q < l)
    BY <2>1
  <2> QED
    BY <2>2 DEF L
<1> QED
  BY <1>3, <1>4, Zenon DEF ReadRaw

-----------------------------------------------------------------------------
(* Immediates.                                                             *)

(* The opcodes whose immediates a table lists.                             *)
TableOps == NoImmediates \cup Openers \cup {MemFill} \cup OneIndex \cup {66, 67, 68} \cup TwoIndices

(* The opcodes with a fixed list of immediates.                            *)
LEMMA TableOpsParse ==
  ASSUME NEW op \in TableOps, NEW bytes, NEW p
  PROVE  ParseImmediates(op, bytes, p) = Continue(Result(p, << >>, "ok"), Immediates(op), bytes)
<1> USE DEF NoImmediates, Openers, MemFill, OneIndex, TwoIndices, MemCopy, DataDrop, Prefix, Else
<1>1. (op % 256) \notin Memargs
  <2>1. CASE op \in 0..255
    <3>1. op \notin 40..62
      BY DEF TableOps
    <3>2. op % 256 = op
      BY <2>1
    <3> QED
      BY <3>1, <3>2 DEF Memargs
  <2>2. CASE op \notin 0..255
    <3>1. op \in {MemFill, DataDrop, MemCopy}
      BY <2>2 DEF TableOps
    <3>2. op % 256 = 255
      BY <3>1, MadeUp
    <3> QED
      BY <3>2 DEF Memargs
  <2> QED
    BY <2>1, <2>2
<1>2. op # BrTable
  BY DEF TableOps, BrTable
<1>3. HasTable(op)
  BY DEF HasTable, TableOps
<1> HIDE DEF Result
<1> QED
  BY <1>1, <1>2, <1>3, Zenon DEF ParseImmediates

(* The lists.                                                              *)
LEMMA ImmediatesAre ==
  ASSUME NEW op
  PROVE  /\ op \in NoImmediates => Immediates(op) = << >>
         /\ op \in Openers \cup {MemFill} => Immediates(op) = <<"byte">>
         /\ op \in OneIndex => Immediates(op) = <<"s32">>
         /\ op = 66 => Immediates(op) = <<"s64">>
         /\ op \in TwoIndices => Immediates(op) = <<"s32", "s32">>
         /\ op = 67 => Immediates(op) = <<"f32">>
         /\ op = 68 => Immediates(op) = <<"f64">>
<1> DEFINE F == Openers \cup {MemFill}
<1>1. /\ op \in F => op \notin NoImmediates
      /\ op \in OneIndex => op \notin NoImmediates /\ op \notin F
      /\ op = 66 => op \notin NoImmediates /\ op \notin F /\ op \notin OneIndex
  BY SMT DEF NoImmediates, Openers, MemFill, OneIndex, DataDrop, Else
<1>2. op \in TwoIndices => op \notin NoImmediates /\ op \notin F /\ op \notin OneIndex /\ op # 66
  BY SMT DEF NoImmediates, Openers, MemFill, OneIndex, TwoIndices, MemCopy, DataDrop, Prefix, Else
<1>3. op \in {67, 68} => /\ op \notin NoImmediates /\ op \notin F /\ op \notin OneIndex
                        /\ op # 66 /\ op \notin TwoIndices
  BY SMT DEF NoImmediates, Openers, MemFill, OneIndex, TwoIndices, MemCopy, DataDrop, Prefix, Else
<1>4. Immediates(op) = CASE op \in NoImmediates -> << >>
                         [] op \in F            -> <<"byte">>
                         [] op \in OneIndex     -> <<"s32">>
                         [] op = 66             -> <<"s64">>
                         [] op \in TwoIndices   -> <<"s32", "s32">>
                         [] op = 67             -> <<"f32">>
                         [] op = 68             -> <<"f64">>
  BY DEF Immediates
<1> HIDE DEF F
<1>5. /\ op \in NoImmediates => Immediates(op) = << >>
      /\ op \in F => Immediates(op) = <<"byte">>
      /\ op \in OneIndex => Immediates(op) = <<"s32">>
      /\ op = 66 => Immediates(op) = <<"s64">>
  BY <1>1, <1>2, <1>3, <1>4
<1>6. /\ op \in TwoIndices => Immediates(op) = <<"s32", "s32">>
      /\ op = 67 => Immediates(op) = <<"f32">>
      /\ op = 68 => Immediates(op) = <<"f64">>
  BY <1>1, <1>2, <1>3, <1>4
<1> QED
  BY <1>5, <1>6 DEF F

(* Their immediates, and those of br_table, are indices.                   *)
LEMMA PlainKinds ==
  ASSUME NEW instr, instr.op \notin Memargs \cup {65, 66}, NEW n \in Nat, Len(instr.imms) = n,
         NEW j \in 1..n
  PROVE  FormatKinds(instr)[j] = "u32"
<1>1. FormatKinds(instr) = Times(Len(instr.imms), "u32")
  BY DEF FormatKinds
<1> QED
  BY <1>1 DEF Times

(* The same, from nothing.                                                 *)
LEMMA ListFromNothing ==
  ASSUME NEW S, NEW val, NEW xs, NEW kinds, NEW bytes, IsBytes(bytes),
         AllGet(S, kinds, bytes, xs, val), NEW p, Holds(bytes, p, FlattenSeq(xs))
  PROVE  Continue(Result(p, << >>, "ok"), kinds, bytes) = Result(p + Len(FlattenSeq(xs)), val, "ok")
<1> DEFINE e == << >>
<1>1. e \in Seq(S)
  OBVIOUS
<1>2. e \o val = val
  BY DEF AllGet
<1> HIDE DEF e, Result
<1>3. Continue(Result(p, e, "ok"), kinds, bytes) = Result(p + Len(FlattenSeq(xs)), e \o val, "ok")
  BY <1>1, ListRead
<1> QED
  BY <1>2, <1>3 DEF e

(* A list of indices.                                                      *)
Encodings(n, imms)    == [j \in 1..n |-> EncodeUnsigned(imms[j])]
ReadAs(n, kinds, imms) == [j \in 1..n |-> Decoded(kinds[j], imms[j])]

(* A list of indices is read one by one.                                   *)
LEMMA UnsignedList ==
  ASSUME NEW n \in Nat, NEW imms \in [1..n -> Index], NEW kinds, Len(kinds) = n,
         \A j \in 1..n : kinds[j] \in IntKinds,
         NEW bytes, IsBytes(bytes), NEW p,
         Holds(bytes, p, FlattenSeq(Encodings(n, imms)))
  PROVE  Continue(Result(p, << >>, "ok"), kinds, bytes)
           = Result(p + Len(FlattenSeq(Encodings(n, imms))), ReadAs(n, kinds, imms), "ok")
<1> DEFINE xs == Encodings(n, imms)
           val == ReadAs(n, kinds, imms)
           S == {Decoded(kinds[j], imms[j]) : j \in 1..n}
           B == 0..255
<1>1. xs \in Seq(Seq(B)) /\ Len(xs) = n
  <2>1. \A j \in 1..n : EncodeUnsigned(imms[j]) \in Seq(B)
    BY UnsignedBytes
  <2> HIDE DEF B
  <2> QED
    BY <2>1 DEF Encodings
<1>2. val \in Seq(S) /\ Len(val) = n
  BY DEF ReadAs
<1>3. \A k \in 1..n : Gets(kinds[k], bytes, xs[k], val[k])
  <2> TAKE k \in 1..n
  <2>1. Gets(kinds[k], bytes, EncodeUnsigned(imms[k]), Decoded(kinds[k], imms[k]))
    BY GetsUnsigned
  <2> QED
    BY <2>1 DEF Encodings, ReadAs
<1> HIDE DEF xs, val, S, Result
<1>4. AllGet(S, kinds, bytes, xs, val)
  BY <1>1, <1>2, <1>3 DEF AllGet
<1>5. Holds(bytes, p, FlattenSeq(xs))
  BY DEF xs
<1>6. Continue(Result(p, << >>, "ok"), kinds, bytes) = Result(p + Len(FlattenSeq(xs)), val, "ok")
  BY <1>4, <1>5, ListFromNothing
<1> QED
  BY <1>6 DEF xs, val

-----------------------------------------------------------------------------
(* What is read from the operands of an instruction is what is kept.       *)

(* What is kept of one immediate.                                          *)
KeptImm(op, kind, n) ==
  IF kind \in {"u32", "u64"} /\ op \notin Openers \cup {BrTable, MemFill}
  THEN ReadAsSigned(n, Width(kind)) ELSE n % Modulus(kind)

(* An instruction has an opcode, immediates and nothing else.              *)
IsRecord(instr) == instr = [op |-> instr.op, imms |-> instr.imms]

(* What is kept of an instruction, immediate by immediate.                 *)
LEMMA KeptIs ==
  ASSUME NEW instr, IsRecord(instr), NEW n \in Nat, DOMAIN instr.imms = 1..n
  PROVE  /\ instr.op \in {67, 68} => Kept(instr) = instr
         /\ instr.op \notin {67, 68} =>
              Kept(instr) = [op   |-> instr.op,
                             imms |-> [j \in 1..n |->
                                         KeptImm(instr.op, FormatKinds(instr)[j], instr.imms[j])]]
<1>1. CASE instr.op \in {67, 68}
  BY <1>1 DEF Kept
<1>2. CASE instr.op \notin {67, 68}
  <2> DEFINE f == [j \in 1..n |-> KeptImm(instr.op, FormatKinds(instr)[j], instr.imms[j])]
  <2>1. Kept(instr) = [instr EXCEPT !.imms = f]
    BY <1>2 DEF Kept, KeptImm
  <2> HIDE DEF f
  <2>2. Kept(instr) = [op |-> instr.op, imms |-> f]
    BY <2>1 DEF IsRecord
  <2> QED
    BY <1>2, <2>2 DEF f
<1> QED
  BY <1>1, <1>2

(* Only br_table has a number of labels in front of its immediates.        *)
LEMMA OperandsAre ==
  ASSUME NEW instr, instr.op # BrTable, NEW S, EncodeImms(instr) \in Seq(S)
  PROVE  Operands(instr) = EncodeImms(instr)
<1> DEFINE x == EncodeImms(instr)
<1>1. Operands(instr) = << >> \o x
  BY DEF Operands, Labels
<1> HIDE DEF x
<1>2. x \in Seq(S)
  BY DEF x
<1> QED
  BY <1>1, <1>2 DEF x

(* The operands are read as what is kept of them.                          *)
Parses(instr, bytes) ==
  \A p : Holds(bytes, p, Operands(instr)) =>
    ParseImmediates(instr.op, bytes, p) = Result(p + Len(Operands(instr)), Kept(instr).imms, "ok")

(* A function on 1..n is a sequence of n.                                  *)
LEMMA TupleIs ==
  ASSUME NEW n \in Nat, NEW S, NEW f \in [1..n -> S]
  PROVE  f \in Seq(S) /\ Len(f) = n /\ DOMAIN f = 1..n
OBVIOUS

(* The bytes of a list of indices.                                         *)
LEMMA JoinedBytes ==
  ASSUME NEW n \in Nat, NEW imms \in [1..n -> Index]
  PROVE  FlattenSeq(Encodings(n, imms)) \in Seq(0..255)
<1> DEFINE B == 0..255
           xs == Encodings(n, imms)
<1>1. xs \in Seq(Seq(B))
  <2>1. \A j \in 1..n : EncodeUnsigned(imms[j]) \in Seq(B)
    BY UnsignedBytes
  <2> HIDE DEF B
  <2> QED
    BY <2>1 DEF Encodings
<1> HIDE DEF B, xs
<1>2. << >> \in Seq(B)
  OBVIOUS
<1>3. FlattenSeq(xs) \in Seq(B)
  BY <1>1, <1>2, FlattenAppend
<1> QED
  BY <1>3 DEF B, xs

(* Indices are kept as they are read, as signed numbers.                   *)
LEMMA WidthsAlike ==
  /\ Width("u32") = W32 /\ Width("s32") = W32 /\ Width("u64") = W64 /\ Width("s64") = W64
  /\ Modulus("u32") = Modulus("s32") /\ Modulus("u64") = Modulus("s64")
<1>1. Width("u32") = W32 /\ Width("s32") = W32 /\ Width("u64") = W64 /\ Width("s64") = W64
  BY DEF Width
<1> QED
  BY <1>1 DEF Modulus

(* The opcodes with nothing but indices behind them.                       *)
IndexOps == NoImmediates \cup (OneIndex \ {65}) \cup TwoIndices

(* They are none of the opcodes with other operands.                       *)
LEMMA IndexOpsApart ==
  ASSUME NEW op \in IndexOps
  PROVE  /\ op \notin Memargs \cup {65, 66, 67, 68} /\ op \in TableOps /\ op # BrTable
         /\ op \notin Openers \cup {BrTable, MemFill}
BY DEF IndexOps, TableOps, NoImmediates, Openers, MemFill, OneIndex, TwoIndices, MemCopy,
       DataDrop, Prefix, Else, Memargs, BrTable

(* The operands that are indices.                                          *)
LEMMA IndicesParse ==
  ASSUME NEW instr, IsRecord(instr), instr.op \in IndexOps,
         NEW n \in Nat, instr.imms \in [1..n -> Index],
         NEW kinds, Immediates(instr.op) = kinds, Len(kinds) = n, \A j \in 1..n : kinds[j] = "s32",
         NEW bytes, IsBytes(bytes)
  PROVE  IsBytes(Operands(instr)) /\ Parses(instr, bytes)
<1> DEFINE imms == instr.imms
           op == instr.op
           xs == Encodings(n, imms)
           val == ReadAs(n, kinds, imms)
<1>0. /\ op \notin Memargs \cup {65, 66} /\ op \notin {67, 68} /\ op \in TableOps /\ op # BrTable
      /\ op \notin Openers \cup {BrTable, MemFill}
  BY IndexOpsApart
<1>1. Len(imms) = n /\ DOMAIN imms = 1..n
  BY TupleIs
<1>2. \A j \in 1..n : FormatKinds(instr)[j] = "u32"
  BY <1>0, <1>1, PlainKinds
<1> HIDE DEF Result
<1>3. EncodeImms(instr) = FlattenSeq(xs)
  <2>1. \A j \in 1..n : EncodeImmediate(FormatKinds(instr)[j], imms[j]) = EncodeUnsigned(imms[j])
    BY <1>2 DEF EncodeImmediate, Signed
  <2>2. [j \in 1..n |-> EncodeImmediate(FormatKinds(instr)[j], imms[j])] = xs
    BY <2>1 DEF Encodings
  <2> HIDE DEF xs
  <2> QED
    BY <1>0, <1>1, <2>2 DEF EncodeImms
<1>4. FlattenSeq(xs) \in Seq(0..255)
  BY JoinedBytes
<1>5. Operands(instr) = FlattenSeq(xs)
  <2> HIDE DEF xs
  <2> QED
    BY <1>0, <1>3, <1>4, OperandsAre
<1>6. Kept(instr).imms = val
  <2>1. \A j \in 1..n : KeptImm(op, FormatKinds(instr)[j], imms[j]) = Decoded(kinds[j], imms[j])
    <3> TAKE j \in 1..n
    <3>1. KeptImm(op, "u32", imms[j]) = ReadAsSigned(imms[j], Width("u32"))
      BY <1>0 DEF KeptImm
    <3>2. Decoded("s32", imms[j]) = ReadAsSigned(imms[j], Width("s32"))
      BY DEF Decoded, Signed
    <3> QED
      BY <1>2, <3>1, <3>2, WidthsAlike
  <2>2. [j \in 1..n |-> KeptImm(op, FormatKinds(instr)[j], imms[j])] = val
    BY <2>1 DEF ReadAs
  <2> HIDE DEF val
  <2>3. Kept(instr) = [op |-> op, imms |-> val]
    BY <1>0, <1>1, <2>2, KeptIs
  <2> QED
    BY <2>3
<1>7. ASSUME NEW p, Holds(bytes, p, Operands(instr))
      PROVE  ParseImmediates(op, bytes, p) = Result(p + Len(Operands(instr)), Kept(instr).imms, "ok")
  <2>1. ParseImmediates(op, bytes, p) = Continue(Result(p, << >>, "ok"), kinds, bytes)
    BY <1>0, TableOpsParse
  <2>2. Holds(bytes, p, FlattenSeq(xs))
    BY <1>5, <1>7
  <2>3. \A j \in 1..n : kinds[j] \in IntKinds
    BY DEF IntKinds
  <2>4. imms \in [1..n -> Index]
    OBVIOUS
  <2>5. Continue(Result(p, << >>, "ok"), kinds, bytes) = Result(p + Len(FlattenSeq(xs)), val, "ok")
    BY <2>2, <2>3, <2>4, UnsignedList
  <2> HIDE DEF xs, val
  <2> QED
    BY <1>5, <1>6, <2>1, <2>5
<1> QED
  BY <1>4, <1>5, <1>7 DEF Parses, IsBytes

(* An instruction with one operand.                                        *)
LEMMA SingleImm ==
  ASSUME NEW instr, NEW S, NEW T, instr.imms \in [1..1 -> S], instr.op \notin {67, 68, BrTable},
         NEW x \in Seq(T), EncodeImmediate(FormatKinds(instr)[1], instr.imms[1]) = x
  PROVE  Operands(instr) = x
<1> DEFINE y == EncodeImmediate(FormatKinds(instr)[1], instr.imms[1])
           xs == [j \in 1..Len(instr.imms) |-> EncodeImmediate(FormatKinds(instr)[j], instr.imms[j])]
<1>1. Len(instr.imms) = 1
  BY TupleIs
<1>2. xs = <<y>>
  BY <1>1
<1>3. EncodeImms(instr) = FlattenSeq(<<x>>)
  BY <1>2 DEF EncodeImms
<1>4. FlattenSeq(<<x>>) = x
  <2>1. << >> \in Seq(Seq(T)) /\ Append(<< >>, x) = <<x>> /\ << >> \o x = x
    OBVIOUS
  <2>2. FlattenSeq(Append(<< >>, x)) = FlattenSeq(<< >>) \o x
    <3> DEFINE e == << >>
    <3>1. e \in Seq(Seq(T))
      BY <2>1
    <3> HIDE DEF e
    <3>2. FlattenSeq(Append(e, x)) = FlattenSeq(e) \o x
      BY <3>1, FlattenAppend
    <3> QED
      BY <3>2 DEF e
  <2>3. FlattenSeq(<< >>) = << >>
    BY DEF FlattenSeq
  <2> QED
    BY <2>1, <2>2, <2>3
<1>5. EncodeImms(instr) \in Seq(T)
  BY <1>3, <1>4
<1> QED
  BY <1>3, <1>4, <1>5, OperandsAre

(* It is read by one reader.                                               *)
LEMMA SingleParses ==
  ASSUME NEW instr, IsRecord(instr), instr.op \in TableOps \ {67, 68},
         NEW S, instr.imms \in [1..1 -> S],
         NEW kind, Immediates(instr.op) = <<kind>>,
         NEW x, IsBytes(x), EncodeImmediate(FormatKinds(instr)[1], instr.imms[1]) = x,
         NEW bytes,
         Gets(kind, bytes, x, KeptImm(instr.op, FormatKinds(instr)[1], instr.imms[1]))
  PROVE  Operands(instr) = x /\ Parses(instr, bytes)
<1> DEFINE v == KeptImm(instr.op, FormatKinds(instr)[1], instr.imms[1])
           op == instr.op
<1>0. op # BrTable /\ op \notin {67, 68}
  BY SMT DEF TableOps, NoImmediates, Openers, MemFill, OneIndex, TwoIndices, MemCopy, DataDrop,
         Prefix, Else, BrTable
<1>1. Operands(instr) = x
  <2> DEFINE B == 0..255
  <2>1. x \in Seq(B)
    BY DEF IsBytes
  <2> HIDE DEF B
  <2> QED
    BY <1>0, <2>1, SingleImm
<1>2. Kept(instr).imms = <<v>>
  <2>1. DOMAIN instr.imms = 1..1
    BY TupleIs
  <2>2. Kept(instr) = [op |-> op, imms |-> [j \in 1..1 |-> KeptImm(op, FormatKinds(instr)[j], instr.imms[j])]]
    <3>1. 1 \in Nat
      OBVIOUS
    <3> QED
      BY <1>0, <2>1, <3>1, KeptIs
  <2>3. [j \in 1..1 |-> KeptImm(op, FormatKinds(instr)[j], instr.imms[j])] = <<v>>
    OBVIOUS
  <2> HIDE DEF v
  <2> QED
    BY <2>2, <2>3
<1> HIDE DEF v, Result
<1>3. ASSUME NEW p, Holds(bytes, p, x)
      PROVE  ParseImmediates(op, bytes, p) = Result(p + Len(x), Kept(instr).imms, "ok")
  <2>1. ParseImmediates(op, bytes, p) = Continue(Result(p, << >>, "ok"), <<kind>>, bytes)
    BY TableOpsParse
  <2>2. Read(kind, bytes, p) = Result(p + Len(x), v, "ok")
    BY <1>3 DEF Gets, v
  <2>3. Continue(Result(p, << >>, "ok"), <<kind>>, bytes) = Result(p + Len(x), <<v>>, "ok")
    BY <2>2, ContinueFirst
  <2> QED
    BY <1>2, <2>1, <2>3
<1> QED
  BY <1>1, <1>3 DEF Parses

(* Block types, and what memory.fill is followed by.                       *)
LEMMA ByteParses ==
  ASSUME NEW instr, IsRecord(instr), instr.op \in Openers \cup {MemFill},
         instr.imms \in [1..1 -> 0..127], NEW bytes, IsBytes(bytes)
  PROVE  IsBytes(Operands(instr)) /\ Parses(instr, bytes)
<1> DEFINE n == instr.imms[1]
           S == 0..127
<1>1. n \in 0..127 /\ n \in Nat /\ n < 128 /\ n \in Index
  <2>1. n \in 0..127
    OBVIOUS
  <2> HIDE DEF n
  <2> QED
    BY <2>1, Ranges
<1>2. instr.op \in TableOps \ {67, 68} /\ Immediates(instr.op) = <<"byte">>
  <2>1. instr.op \notin {67, 68}
    BY SMT DEF Openers, MemFill
  <2> QED
    BY <2>1, ImmediatesAre DEF TableOps
<1>3. FormatKinds(instr)[1] = "u32"
  <2>1. instr.op \notin Memargs \cup {65, 66}
    BY SMT DEF Openers, MemFill, Memargs
  <2>2. 1 \in Nat /\ Len(instr.imms) = 1 /\ 1 \in 1..1
    BY TupleIs
  <2> QED
    BY <2>1, <2>2, PlainKinds
<1>4. EncodeImmediate(FormatKinds(instr)[1], n) = EncodeUnsigned(n)
  BY <1>3 DEF EncodeImmediate, Signed
<1>5. KeptImm(instr.op, FormatKinds(instr)[1], n) = n
  <2>1. KeptImm(instr.op, FormatKinds(instr)[1], n) = n % Modulus("u32")
    BY <1>3 DEF KeptImm
  <2>2. Modulus("u32") \in Nat \ {0} /\ Modulus("u32") >= 256
    <3>1. "u32" \in IntKinds
      BY DEF IntKinds
    <3> QED
      BY <3>1, Widths
  <2> HIDE DEF n
  <2>3. n \in 0..(Modulus("u32") - 1)
    BY <1>1, <2>2
  <2> QED
    BY <2>1, <2>2, <2>3, ModSmall
<1>6. Gets("byte", bytes, EncodeUnsigned(n), n)
  BY <1>1, GetsByte
<1>7. IsBytes(EncodeUnsigned(n))
  BY <1>1, UnsignedBytes DEF IsBytes
<1>8. instr.imms \in [1..1 -> S]
  OBVIOUS
<1> HIDE DEF S
<1> QED
  <2>1. Operands(instr) = EncodeUnsigned(n) /\ Parses(instr, bytes)
    BY <1>2, <1>4, <1>5, <1>6, <1>7, <1>8, SingleParses
  <2> QED
    BY <1>7, <2>1

(* The operands of i32.const and i64.const.                                *)
LEMMA ConstParses ==
  ASSUME NEW instr, IsRecord(instr), instr.op \in {65, 66},
         instr.imms \in [1..1 -> Operand], NEW bytes, IsBytes(bytes)
  PROVE  IsBytes(Operands(instr)) /\ Parses(instr, bytes)
<1> DEFINE v == instr.imms[1]
           kind == IF instr.op = 65 THEN "s32" ELSE "s64"
<1>1. v \in Operand
  OBVIOUS
<1>2. instr.op \in TableOps \ {67, 68} /\ Immediates(instr.op) = <<kind>>
  BY ImmediatesAre DEF TableOps, OneIndex
<1>3. FormatKinds(instr)[1] = kind
  <2>1. instr.op \notin Memargs
    BY DEF Memargs
  <2>2. FormatKinds(instr) = <<kind>>
    BY <2>1 DEF FormatKinds
  <2> QED
    BY <2>2
<1>4. kind \in Signed /\ kind \notin {"u32", "u64"}
  BY DEF Signed
<1> HIDE DEF kind
<1>5. EncodeImmediate(FormatKinds(instr)[1], v) = EncodeSigned(v)
  BY <1>3, <1>4 DEF EncodeImmediate
<1>6. KeptImm(instr.op, FormatKinds(instr)[1], v) = v % Modulus(kind)
  BY <1>3, <1>4 DEF KeptImm
<1>7. Gets(kind, bytes, EncodeSigned(v), v % Modulus(kind))
  BY <1>1, <1>4, GetsSigned
<1>8. IsBytes(EncodeSigned(v))
  BY <1>1, SignedBytes DEF IsBytes
<1>9. Operands(instr) = EncodeSigned(v) /\ Parses(instr, bytes)
  BY <1>2, <1>5, <1>6, <1>7, <1>8, SingleParses
<1> QED
  BY <1>8, <1>9

(* Floats.                                                                 *)
LEMMA FloatParses ==
  ASSUME NEW instr, IsRecord(instr), NEW l, NEW kind,
         \/ l = 4 /\ kind = "f32" /\ instr.op = 67
         \/ l = 8 /\ kind = "f64" /\ instr.op = 68,
         NEW x, IsBytes(x), Len(x) = l, instr.imms = <<x>>, NEW bytes, IsBytes(bytes)
  PROVE  IsBytes(Operands(instr)) /\ Parses(instr, bytes)
<1> DEFINE op == instr.op
<1>0. op \in {67, 68}
  OBVIOUS
<1>2. op \in TableOps /\ Immediates(op) = <<kind>>
  BY ImmediatesAre DEF TableOps
<1>3. Operands(instr) = x
  <2>1. EncodeImms(instr) = x /\ op # BrTable
    BY <1>0 DEF EncodeImms, BrTable
  <2> DEFINE B == 0..255
  <2>2. x \in Seq(B)
    BY DEF IsBytes
  <2> HIDE DEF B
  <2> QED
    BY <2>1, <2>2, OperandsAre
<1>4. Kept(instr).imms = <<x>>
  <2>1. DOMAIN instr.imms = 1..1 /\ 1 \in Nat
    OBVIOUS
  <2>2. Kept(instr) = instr
    BY <1>0, <2>1, KeptIs
  <2> QED
    BY <2>2
<1>5. ASSUME NEW p, Holds(bytes, p, x)
      PROVE  ParseImmediates(op, bytes, p) = Result(p + Len(x), Kept(instr).imms, "ok")
  <2> HIDE DEF Result
  <2>0. ReadRaw(l, bytes, p) = Result(p + l, x, "ok")
    BY <1>5, GetsRaw
  <2>1. Read(kind, bytes, p) = Result(p + l, x, "ok")
    BY <2>0, ReadKinds
  <2>3. Continue(Result(p, << >>, "ok"), <<kind>>, bytes) = Result(p + l, <<x>>, "ok")
    BY <2>1, ContinueFirst
  <2>4. ParseImmediates(op, bytes, p) = Continue(Result(p, << >>, "ok"), <<kind>>, bytes)
    BY <1>2, TableOpsParse
  <2> QED
    BY <1>4, <2>3, <2>4
<1> HIDE DEF Result
<1> QED
  BY <1>3, <1>5 DEF Parses

(* Two more readers.                                                       *)
LEMMA ContinueTwo ==
  ASSUME NEW S, NEW v0 \in Seq(S), NEW v \in S, NEW w \in S, NEW k1, NEW k2, NEW bytes,
         NEW p, NEW q, NEW r,
         Read(k1, bytes, p) = Result(q, v, "ok"), Read(k2, bytes, q) = Result(r, w, "ok")
  PROVE  Continue(Result(p, v0, "ok"), <<k1, k2>>, bytes) = Result(r, v0 \o <<v, w>>, "ok")
<1> DEFINE val == <<v, w>>
           kinds == <<k1, k2>>
           pos == <<p, q, r>>
<1>1. val \in Seq(S) /\ Len(kinds) = Len(val) /\ Len(val) = 2 /\ Len(kinds) = 2
  OBVIOUS
<1>2. /\ pos[1] = p /\ pos[1 + 1] = q /\ pos[2] = q /\ pos[2 + 1] = r
      /\ kinds[1] = k1 /\ kinds[2] = k2 /\ val[1] = v /\ val[2] = w
  OBVIOUS
<1> HIDE DEF val, kinds, pos, Result
<1>3. Completes(kinds, bytes, pos, val)
  <2>1. ASSUME NEW k \in 1..2 PROVE Read(kinds[k], bytes, pos[k]) = Result(pos[k + 1], val[k], "ok")
    <3>1. k = 1 \/ k = 2
      OBVIOUS
    <3>2. Read(kinds[1], bytes, pos[1]) = Result(pos[1 + 1], val[1], "ok")
      BY <1>2
    <3>3. Read(kinds[2], bytes, pos[2]) = Result(pos[2 + 1], val[2], "ok")
      BY <1>2
    <3> QED
      BY <3>1, <3>2, <3>3
  <2> QED
    BY <1>1, <2>1 DEF Completes
<1>4. Continue(Result(pos[1], v0, "ok"), kinds, bytes) = Result(pos[Len(val) + 1], v0 \o val, "ok")
  <2>1. val \in Seq(S) /\ v0 \in Seq(S) /\ Len(kinds) = Len(val)
    BY <1>1
  <2> QED
    BY <1>3, <2>1, ContinueCompletes
<1>5. pos[Len(val) + 1] = r
  <2>1. Len(val) = 2
    BY <1>1
  <2> QED
    BY <1>2, <2>1, Zenon
<1> QED
  BY <1>2, <1>4, <1>5 DEF kinds, val

(* Read as a signed number, an alignment from 64 on is still one.          *)
LEMMA AlignmentRead ==
  ASSUME NEW n \in 0..127
  PROVE  Decoded("s32", n) \in Int /\ (Decoded("s32", n) >= 64 <=> n >= 64)
<1> DEFINE M == Modulus("s32")
           d == Decoded("s32", n)
<1>0. "s32" \in IntKinds /\ "s32" \in Signed
  BY DEF IntKinds, Signed
<1>1. M \in Nat \ {0} /\ M >= 256
  BY <1>0, Widths
<1>2. (n + SignOfOne("s32", n)) % M = d
  BY <1>0, DecodedOne
<1> HIDE DEF M, d
<1>3. CASE n < 64
  <2>1. SignOfOne("s32", n) = 0
    BY <1>3 DEF SignOfOne
  <2>2. n \in 0..(M - 1) /\ n + 0 = n
    BY <1>1, <1>3
  <2>3. d = n
    BY <1>1, <1>2, <2>1, <2>2, ModSmall
  <2> QED
    BY <1>3, <2>3 DEF d
<1>4. CASE n >= 64
  <2> DEFINE x == n + (M - 128)
  <2>1. SignOfOne("s32", n) = M - 128
    BY <1>0, <1>4 DEF SignOfOne, M
  <2>2. x \in 0..(M - 1) /\ x >= 64 /\ x \in Int
    BY <1>1, <1>4
  <2> HIDE DEF x
  <2>3. x % M = x
    BY <1>1, <2>2, ModSmall
  <2>4. x % M = d
    BY <1>2, <2>1 DEF x
  <2> QED
    BY <1>4, <2>2, <2>3, <2>4 DEF d
<1> QED
  BY <1>3, <1>4

(* Short sequences.                                                        *)
LEMMA PairIs ==
  ASSUME NEW S, NEW f \in [1..2 -> S]
  PROVE  f = <<f[1], f[2]>>
OBVIOUS

(* Three elements, one by one.                                             *)
LEMMA TripleIs ==
  ASSUME NEW S, NEW f \in [1..3 -> S]
  PROVE  f = <<f[1], f[2], f[3]>>
OBVIOUS

(* Two sequences of one element, joined.                                   *)
LEMMA JoinTwo ==
  ASSUME NEW S, NEW u \in Seq(S), NEW v \in Seq(S), Len(u) = 1, Len(v) = 1
  PROVE  u \o v = <<u[1], v[1]>>
<1> DEFINE x == u \o v
<1>a. /\ x \in Seq(S) /\ Len(x) = Len(u) + Len(v)
      /\ \A i \in 1..(Len(u) + Len(v)) : x[i] = IF i <= Len(u) THEN u[i] ELSE v[i - Len(u)]
  BY ConcatProperties
<1> HIDE DEF x
<1>1. x \in Seq(S) /\ Len(x) = 2 /\ x[1] = u[1] /\ x[2] = v[1]
  BY <1>a
<1> HIDE DEF x
<1>2. x \in [1..2 -> S]
  BY <1>1
<1>3. x = <<x[1], x[2]>>
  BY <1>2, PairIs
<1> QED
  BY <1>1, <1>3 DEF x

(* A sequence of one and one of two, joined.                               *)
LEMMA JoinThree ==
  ASSUME NEW S, NEW u \in Seq(S), NEW v \in Seq(S), Len(u) = 1, Len(v) = 2
  PROVE  u \o v = <<u[1], v[1], v[2]>>
<1> DEFINE x == u \o v
<1>a. /\ x \in Seq(S) /\ Len(x) = Len(u) + Len(v)
      /\ \A i \in 1..(Len(u) + Len(v)) : x[i] = IF i <= Len(u) THEN u[i] ELSE v[i - Len(u)]
  BY ConcatProperties
<1> HIDE DEF x
<1>1. x \in Seq(S) /\ Len(x) = 3 /\ x[1] = u[1] /\ x[2] = v[1] /\ x[3] = v[2]
  BY <1>a
<1> HIDE DEF x
<1>2. x \in [1..3 -> S]
  BY <1>1
<1>3. x = <<x[1], x[2], x[3]>>
  BY <1>2, TripleIs
<1> QED
  BY <1>1, <1>3 DEF x

(* Short sequences, joined.                                                *)
LEMMA TwoThree ==
  ASSUME NEW a, NEW b, NEW c
  PROVE  <<a>> \o <<b>> = <<a, b>> /\ <<a>> \o <<b, c>> = <<a, b, c>>
<1> DEFINE S == {a, b, c}
           u == <<a>>
           v == <<b>>
           w == <<b, c>>
<1>1. a \in S /\ b \in S /\ c \in S
  OBVIOUS
<1> HIDE DEF S
<1>2. /\ u \in Seq(S) /\ Len(u) = 1 /\ u[1] = a
      /\ v \in Seq(S) /\ Len(v) = 1 /\ v[1] = b
      /\ w \in Seq(S) /\ Len(w) = 2 /\ w[1] = b /\ w[2] = c
  BY <1>1
<1> HIDE DEF u, v, w
<1>3. u \o v = <<u[1], v[1]>>
  BY <1>2, JoinTwo
<1>4. u \o w = <<u[1], w[1], w[2]>>
  BY <1>2, JoinThree
<1> QED
  BY <1>2, <1>3, <1>4 DEF u, v, w

(* A memarg, from the readers of its parts.                                *)
LEMMA MemargFrom ==
  ASSUME NEW bytes, NEW p, NEW q, NEW a, Read("s32", bytes, p) = Result(q, a, "ok")
  PROVE  ParseMemarg(bytes, p)
           = Continue(Result(q, <<a>>, "ok"), IF a >= 64 THEN <<"s32", "s64">> ELSE <<"s64">>, bytes)
<1> DEFINE r == Result(q, <<a>>, "ok")
<1>1. r.st = "ok" /\ r.v[1] = a
  BY DEF Result
<1>2. Continue(Result(p, << >>, "ok"), <<"s32">>, bytes) = r
  <2> HIDE DEF Result
  <2> QED
    BY ContinueFirst
<1> HIDE DEF r, Result
<1>3. ParseMemarg(bytes, p) = Continue(r, BehindAlignment(r), bytes)
  BY <1>2, Zenon DEF ParseMemarg
<1>4. BehindAlignment(r) = IF a >= 64 THEN <<"s32", "s64">> ELSE <<"s64">>
  BY <1>1, Zenon DEF BehindAlignment
<1> QED
  BY <1>3, <1>4, Zenon DEF r

(* A memarg without an index of a memory, and one with.                    *)
LEMMA MemargOfTwo ==
  ASSUME NEW bytes, NEW p, NEW q, NEW r, NEW a, NEW b, ~(a >= 64),
         Read("s32", bytes, p) = Result(q, a, "ok"), Read("s64", bytes, q) = Result(r, b, "ok")
  PROVE  ParseMemarg(bytes, p) = Result(r, <<a, b>>, "ok")
<1> HIDE DEF Result
<1>1. ParseMemarg(bytes, p) = Continue(Result(q, <<a>>, "ok"), <<"s64">>, bytes)
  BY MemargFrom, Zenon
<1> DEFINE S == {a, b}
           v0 == <<a>>
<1>2. v0 \in Seq(S) /\ b \in S
  OBVIOUS
<1> HIDE DEF S, v0
<1>3. Continue(Result(q, v0, "ok"), <<"s64">>, bytes) = Result(r, v0 \o <<b>>, "ok")
  BY <1>2, ContinueOne
<1>4. v0 \o <<b>> = <<a, b>>
  BY TwoThree, Zenon DEF v0
<1> QED
  BY <1>1, <1>3, <1>4, Zenon DEF v0

(* An alignment with bit 6 set: an index of a memory follows it.           *)
LEMMA MemargOfThree ==
  ASSUME NEW bytes, NEW p, NEW q, NEW r, NEW t, NEW a, NEW b, NEW c, a >= 64,
         Read("s32", bytes, p) = Result(q, a, "ok"), Read("s32", bytes, q) = Result(r, b, "ok"),
         Read("s64", bytes, r) = Result(t, c, "ok")
  PROVE  ParseMemarg(bytes, p) = Result(t, <<a, b, c>>, "ok")
<1> HIDE DEF Result
<1>1. ParseMemarg(bytes, p) = Continue(Result(q, <<a>>, "ok"), <<"s32", "s64">>, bytes)
  BY MemargFrom, Zenon
<1> DEFINE S == {a, b, c}
           v0 == <<a>>
<1>2. v0 \in Seq(S) /\ b \in S /\ c \in S
  OBVIOUS
<1> HIDE DEF S, v0
<1>3. Continue(Result(q, v0, "ok"), <<"s32", "s64">>, bytes) = Result(t, v0 \o <<b, c>>, "ok")
  BY <1>2, ContinueTwo
<1>4. v0 \o <<b, c>> = <<a, b, c>>
  BY TwoThree, Zenon DEF v0
<1> QED
  BY <1>1, <1>3, <1>4, Zenon DEF v0

(* What a memarg is read as.                                               *)
LEMMA MemargRead ==
  ASSUME NEW n \in {2, 3}, NEW imms \in [1..n -> Index], imms[1] < 128, n = 3 <=> imms[1] >= 64,
         NEW kinds, kinds = (IF n = 2 THEN <<"s32", "s64">> ELSE <<"s32", "s32", "s64">>),
         NEW bytes, IsBytes(bytes), NEW p, Holds(bytes, p, FlattenSeq(Encodings(n, imms)))
  PROVE  ParseMemarg(bytes, p)
           = Result(p + Len(FlattenSeq(Encodings(n, imms))), ReadAs(n, kinds, imms), "ok")
<1> DEFINE xs == Encodings(n, imms)
           a == Decoded("s32", imms[1])
           val == ReadAs(n, kinds, imms)
           S == {Decoded(kinds[j], imms[j]) : j \in 1..n}
<1>0. n \in Nat /\ 1 \in 1..n /\ 2 \in 1..n /\ (n = 3 => 3 \in 1..n)
  OBVIOUS
<1>a. imms[1] \in 0..127
  <2> DEFINE m == imms[1]
  <2>1. m \in Index /\ m < 128
    BY <1>0
  <2> HIDE DEF m
  <2>a. m \in Nat
    BY <2>1, Ranges
  <2>2. m \in 0..127
    BY <2>1, <2>a
  <2> QED
    BY <2>2 DEF m
<1> HIDE DEF Result
<1>1. xs \in Seq(Seq(0..255)) /\ Len(xs) = n
  <2> DEFINE B == 0..255
  <2>1. \A j \in 1..n : EncodeUnsigned(imms[j]) \in Seq(B)
    BY UnsignedBytes
  <2> HIDE DEF B
  <2>2. xs \in Seq(Seq(B)) /\ Len(xs) = n
    BY <1>0, <2>1 DEF Encodings
  <2> QED
    BY <2>2 DEF B
<1>2. PICK pos \in [1..(Len(xs) + 1) -> Nat \ {0}] :
            /\ Starts(xs, p, pos)
            /\ pos[Len(xs) + 1] = p + Len(FlattenSeq(xs))
            /\ \A k \in 1..Len(xs) : Holds(bytes, pos[k], xs[k])
  <2> DEFINE B == 0..255
  <2>1. xs \in Seq(Seq(B)) /\ Len(bytes) \in Nat
    BY <1>1, ByteAt
  <2> HIDE DEF B, xs
  <2>2. Holds(bytes, p, FlattenSeq(xs))
    BY DEF xs
  <2> QED
    BY <2>1, <2>2, HoldsParts
<1>3. /\ \A k \in 1..n : Read(kinds[k], bytes, pos[k]) = Result(pos[k + 1], Decoded(kinds[k], imms[k]), "ok")
      /\ pos[1] = p /\ pos[n + 1] = p + Len(FlattenSeq(xs))
  <2>1. ASSUME NEW k \in 1..n
        PROVE  Read(kinds[k], bytes, pos[k]) = Result(pos[k + 1], Decoded(kinds[k], imms[k]), "ok")
    <3>1. kinds[k] \in IntKinds /\ imms[k] \in Index
      BY DEF IntKinds
    <3>2. Gets(kinds[k], bytes, EncodeUnsigned(imms[k]), Decoded(kinds[k], imms[k]))
      BY <3>1, GetsUnsigned
    <3>3. xs[k] = EncodeUnsigned(imms[k])
      BY DEF Encodings
    <3> HIDE DEF xs
    <3>4. Holds(bytes, pos[k], xs[k]) /\ pos[k + 1] = pos[k] + Len(xs[k])
      BY <1>1, <1>2 DEF Starts
    <3> QED
      BY <3>2, <3>3, <3>4 DEF Gets
  <2> HIDE DEF xs
  <2>2. pos[1] = p /\ pos[n + 1] = p + Len(FlattenSeq(xs))
    BY <1>1, <1>2 DEF Starts
  <2> QED
    BY <2>1, <2>2
<1> HIDE DEF xs
<1>4. kinds[1] = "s32" /\ kinds[2] = (IF n = 2 THEN "s64" ELSE "s32") /\ (n = 3 => kinds[3] = "s64")
  OBVIOUS
<1>5. a \in Int /\ (a >= 64 <=> n = 3)
  BY <1>a, AlignmentRead
<1>6. val \in [1..n -> S] /\ \A j \in 1..n : val[j] = Decoded(kinds[j], imms[j])
  <2> HIDE DEF a
  <2> QED
    BY DEF ReadAs
<1>7. val[1] = a
  BY <1>0, <1>4, <1>6
<1>8. \A k \in 1..n : Read(kinds[k], bytes, pos[k]) = Result(pos[k + 1], val[k], "ok")
  BY <1>3, <1>6
<1> DEFINE e == pos[n + 1]
<1>9. ParseMemarg(bytes, p) = Result(e, val, "ok")
  <2> HIDE DEF a, val, S
  <2>1. CASE n = 2
    <3>1. val = <<a, val[2]>>
      BY <1>6, <1>7, <2>1, PairIs
    <3>2. pos[1] = p /\ pos[1 + 1] = pos[2] /\ pos[2 + 1] = e
      BY <1>3, <2>1
    <3> HIDE DEF e
    <3>3. Read("s32", bytes, p) = Result(pos[2], a, "ok")
      BY <1>0, <1>4, <1>7, <1>8, <3>2, Zenon
    <3>4. Read("s64", bytes, pos[2]) = Result(e, val[2], "ok")
      BY <1>0, <1>4, <1>8, <2>1, <3>2, Zenon
    <3>5. ~(a >= 64)
      BY <1>5, <2>1
    <3>6. ParseMemarg(bytes, p) = Result(e, <<a, val[2]>>, "ok")
      BY <3>3, <3>4, <3>5, MemargOfTwo
    <3> QED
      BY <3>1, <3>6, Zenon
  <2>2. CASE n = 3
    <3>1. val = <<a, val[2], val[3]>>
      BY <1>6, <1>7, <2>2, TripleIs
    <3>2. pos[1] = p /\ pos[1 + 1] = pos[2] /\ pos[2 + 1] = pos[3] /\ pos[3 + 1] = e /\ n # 2 /\ 3 \in 1..n
      BY <1>3, <2>2
    <3> HIDE DEF e
    <3>3. Read("s32", bytes, p) = Result(pos[2], a, "ok")
      BY <1>0, <1>4, <1>7, <1>8, <3>2, Zenon
    <3>4. Read("s32", bytes, pos[2]) = Result(pos[3], val[2], "ok")
      BY <1>0, <1>4, <1>8, <3>2, Zenon
    <3>5. Read("s64", bytes, pos[3]) = Result(e, val[3], "ok")
      BY <1>4, <1>8, <2>2, <3>2, Zenon
    <3>6. a >= 64
      BY <1>5, <2>2
    <3>7. ParseMemarg(bytes, p) = Result(e, <<a, val[2], val[3]>>, "ok")
      BY <3>3, <3>4, <3>5, <3>6, MemargOfThree
    <3> QED
      BY <3>1, <3>7, Zenon
  <2> QED
    BY <2>1, <2>2
<1> QED
  BY <1>3, <1>9, Zenon DEF xs

(* The kinds of a memarg.                                                  *)
LEMMA MemargKinds ==
  ASSUME NEW instr, instr.op \in Memargs, NEW n \in Nat \ {0}, Len(instr.imms) = n, NEW j \in 1..n
  PROVE  FormatKinds(instr)[j] = IF j < n THEN "u32" ELSE "u64"
<1> DEFINE S == {"u32", "u64"}
           t == Times(n - 1, "u32")
           u == <<"u64">>
<1>1. t \in Seq(S) /\ Len(t) = n - 1 /\ \A k \in 1..(n - 1) : t[k] = "u32"
  BY DEF Times
<1>2. u \in Seq(S) /\ Len(u) = 1 /\ u[1] = "u64"
  OBVIOUS
<1>3. FormatKinds(instr) = t \o u
  <2>1. instr.op \notin {65, 66}
    <3> DEFINE op == instr.op
    <3>1. op \in Memargs
      OBVIOUS
    <3> HIDE DEF op
    <3>2. op \notin {65, 66}
      BY <3>1 DEF Memargs
    <3> QED
      BY <3>2 DEF op
  <2>2. FormatKinds(instr) = Times(Len(instr.imms) - 1, "u32") \o <<"u64">>
    BY <2>1, Zenon DEF FormatKinds
  <2> QED
    BY <2>2
<1> HIDE DEF S, t, u
<1>4. \A k \in 1..(Len(t) + Len(u)) : (t \o u)[k] = IF k <= Len(t) THEN t[k] ELSE u[k - Len(t)]
  BY <1>1, <1>2, ConcatProperties
<1>5. (t \o u)[j] = IF j <= n - 1 THEN t[j] ELSE u[j - (n - 1)]
  <2>1. Len(t) = n - 1 /\ Len(u) = 1
    BY <1>1, <1>2
  <2>2. (n - 1) + 1 = n
    OBVIOUS
  <2>3. \A k \in 1..((n - 1) + 1) : (t \o u)[k] = IF k <= n - 1 THEN t[k] ELSE u[k - (n - 1)]
    BY <1>4, <2>1, Zenon
  <2> QED
    BY <2>2, <2>3, Zenon
<1>6. CASE j < n
  <2>1. j <= n - 1 /\ j \in 1..(n - 1)
    BY <1>6
  <2> QED
    BY <1>1, <1>3, <1>5, <1>6, <2>1
<1>7. CASE ~(j < n)
  <2>1. ~(j <= n - 1) /\ j - (n - 1) = 1
    BY <1>7
  <2> QED
    BY <1>2, <1>3, <1>5, <1>7, <2>1
<1> QED
  BY <1>6, <1>7

(* Loads and stores.                                                       *)
LEMMA MemargParses ==
  ASSUME NEW instr, IsRecord(instr), instr.op \in Memargs,
         NEW n \in {2, 3}, instr.imms \in [1..n -> Index], instr.imms[1] < 128,
         n = 3 <=> instr.imms[1] >= 64, NEW bytes, IsBytes(bytes)
  PROVE  IsBytes(Operands(instr)) /\ Parses(instr, bytes)
<1> DEFINE imms == instr.imms
           op == instr.op
           xs == Encodings(n, imms)
           kinds == IF n = 2 THEN <<"s32", "s64">> ELSE <<"s32", "s32", "s64">>
           val == ReadAs(n, kinds, imms)
<1>0. /\ op % 256 \in Memargs /\ op # BrTable /\ op \notin {67, 68}
      /\ op \notin Openers \cup {BrTable, MemFill}
  <2>1. op \in 40..62
    BY DEF Memargs
  <2> HIDE DEF op
  <2>2. op % 256 = op
    BY <2>1
  <2>3. op % 256 \in Memargs
    BY <2>1, <2>2 DEF Memargs
  <2>4. op # BrTable /\ op \notin {67, 68} /\ op \notin Openers \cup {BrTable, MemFill}
    BY <2>1, SMT DEF BrTable, Openers, MemFill
  <2> QED
    BY <2>3, <2>4
<1>1. Len(imms) = n /\ DOMAIN imms = 1..n /\ n \in Nat \ {0}
  BY TupleIs
<1>2. \A j \in 1..n : FormatKinds(instr)[j] = IF j < n THEN "u32" ELSE "u64"
  BY <1>1, MemargKinds
<1>k. \A j \in 1..n : kinds[j] = IF j < n THEN "s32" ELSE "s64"
  OBVIOUS
<1> HIDE DEF Result
<1>3. EncodeImms(instr) = FlattenSeq(xs)
  <2>1. \A j \in 1..n : EncodeImmediate(FormatKinds(instr)[j], imms[j]) = EncodeUnsigned(imms[j])
    BY <1>2 DEF EncodeImmediate, Signed
  <2>2. [j \in 1..n |-> EncodeImmediate(FormatKinds(instr)[j], imms[j])] = xs
    BY <2>1 DEF Encodings
  <2> HIDE DEF xs
  <2> QED
    BY <1>0, <1>1, <2>2 DEF EncodeImms
<1>4. FlattenSeq(xs) \in Seq(0..255)
  BY <1>1, JoinedBytes
<1>5. Operands(instr) = FlattenSeq(xs)
  <2> HIDE DEF xs
  <2> QED
    BY <1>0, <1>3, <1>4, OperandsAre
<1>6. Kept(instr).imms = val
  <2>1. \A j \in 1..n : KeptImm(op, FormatKinds(instr)[j], imms[j]) = Decoded(kinds[j], imms[j])
    <3> TAKE j \in 1..n
    <3> DEFINE fk == FormatKinds(instr)[j]
               rk == kinds[j]
    <3>1. fk \in {"u32", "u64"} /\ rk \in Signed /\ Width(fk) = Width(rk)
      BY <1>2, <1>k, WidthsAlike DEF Signed
    <3> HIDE DEF fk, rk
    <3>2. KeptImm(op, fk, imms[j]) = ReadAsSigned(imms[j], Width(fk))
      BY <1>0, <3>1 DEF KeptImm
    <3>3. Decoded(rk, imms[j]) = ReadAsSigned(imms[j], Width(rk))
      BY <3>1 DEF Decoded
    <3> QED
      BY <3>1, <3>2, <3>3 DEF fk, rk
  <2>2. [j \in 1..n |-> KeptImm(op, FormatKinds(instr)[j], imms[j])] = val
    BY <2>1 DEF ReadAs
  <2> HIDE DEF val
  <2>3. Kept(instr) = [op |-> op, imms |-> val]
    BY <1>0, <1>1, <2>2, KeptIs
  <2> QED
    BY <2>3
<1>7. ASSUME NEW p, Holds(bytes, p, Operands(instr))
      PROVE  ParseImmediates(op, bytes, p) = Result(p + Len(Operands(instr)), Kept(instr).imms, "ok")
  <2>1. ParseImmediates(op, bytes, p) = ParseMemarg(bytes, p)
    BY <1>0 DEF ParseImmediates
  <2>2. Holds(bytes, p, FlattenSeq(xs))
    BY <1>5, <1>7
  <2>3. imms \in [1..n -> Index] /\ imms[1] < 128 /\ (n = 3 <=> imms[1] >= 64)
    OBVIOUS
  <2>4. ParseMemarg(bytes, p) = Result(p + Len(FlattenSeq(xs)), val, "ok")
    BY <2>2, <2>3, MemargRead
  <2> HIDE DEF xs, val
  <2> QED
    BY <1>5, <1>6, <2>1, <2>4
<1> QED
  BY <1>4, <1>5, <1>7 DEF Parses, IsBytes

(* A br_table: its labels and the default one.                             *)
LEMMA BrTableParses ==
  ASSUME NEW instr, IsRecord(instr), instr.op = BrTable,
         NEW n \in Nat \ {0}, instr.imms \in [1..n -> Index],
         n - 1 \in Index, n < Power(2, W32), NEW bytes, IsBytes(bytes)
  PROVE  IsBytes(Operands(instr)) /\ Parses(instr, bytes)
<1> DEFINE imms == instr.imms
           op == instr.op
           xs == Encodings(n, imms)
           kinds == Times(n, "u32")
           val == ReadAs(n, kinds, imms)
           x == EncodeUnsigned(n - 1)
           y == FlattenSeq(xs)
<1>0. op % 256 \notin Memargs /\ op \notin Memargs \cup {65, 66} /\ op \notin {67, 68}
  BY DEF Memargs, BrTable
<1>1. Len(imms) = n /\ DOMAIN imms = 1..n
  BY TupleIs
<1>2. \A j \in 1..n : FormatKinds(instr)[j] = "u32"
  BY <1>0, <1>1, PlainKinds
<1>k. Len(kinds) = n /\ \A j \in 1..n : kinds[j] = "u32"
  BY DEF Times
<1> HIDE DEF Result
<1>3. EncodeImms(instr) = y
  <2>1. \A j \in 1..n : EncodeImmediate(FormatKinds(instr)[j], imms[j]) = EncodeUnsigned(imms[j])
    BY <1>2 DEF EncodeImmediate, Signed
  <2>2. [j \in 1..n |-> EncodeImmediate(FormatKinds(instr)[j], imms[j])] = xs
    BY <2>1 DEF Encodings
  <2> HIDE DEF xs
  <2> QED
    BY <1>0, <1>1, <2>2 DEF EncodeImms
<1>4. IsBytes(x) /\ IsBytes(y)
  BY JoinedBytes, UnsignedBytes DEF IsBytes
<1>5. Operands(instr) = x \o y
  BY <1>1, <1>3 DEF Operands, Labels
<1>6. IsBytes(x \o y)
  <2> DEFINE B == 0..255
  <2>1. x \in Seq(B) /\ y \in Seq(B)
    BY <1>4 DEF IsBytes
  <2> HIDE DEF x, y, B
  <2>2. x \o y \in Seq(B)
    BY <2>1
  <2> QED
    BY <2>2 DEF B, IsBytes
<1>7. Kept(instr).imms = val
  <2>1. \A j \in 1..n : KeptImm(op, FormatKinds(instr)[j], imms[j]) = Decoded(kinds[j], imms[j])
    <3> TAKE j \in 1..n
    <3>1. KeptImm(op, "u32", imms[j]) = imms[j] % Modulus("u32")
      BY DEF KeptImm
    <3>2. Decoded("u32", imms[j]) = imms[j] % Modulus("u32")
      BY DEF Decoded, Signed
    <3> HIDE DEF kinds
    <3> QED
      BY <1>2, <1>k, <3>1, <3>2
  <2>2. [j \in 1..n |-> KeptImm(op, FormatKinds(instr)[j], imms[j])] = val
    BY <2>1 DEF ReadAs
  <2> HIDE DEF val
  <2>3. Kept(instr) = [op |-> op, imms |-> val]
    BY <1>0, <1>1, <2>2, KeptIs
  <2> QED
    BY <2>3
<1>8. Decoded("u32", n - 1) = n - 1 /\ ((n - 1) + 1) % Power(2, W32) = n
  <2>1. Power(2, W32) = Modulus("u32") /\ Modulus("u32") \in Nat \ {0}
    <3>1. "u32" \in IntKinds
      BY DEF IntKinds
    <3> QED
      BY <3>1, Widths, WidthsAlike
  <2> DEFINE M == Modulus("u32")
  <2>2. M \in Nat \ {0} /\ n < M
    BY <2>1
  <2>3. Decoded("u32", n - 1) = (n - 1) % M
    BY DEF Decoded, Signed
  <2> HIDE DEF M
  <2>4. n - 1 \in 0..(M - 1) /\ n \in 0..(M - 1) /\ (n - 1) + 1 = n
    BY <2>2
  <2>5. (n - 1) % M = n - 1 /\ n % M = n
    BY <2>2, <2>4, ModSmall
  <2> QED
    BY <2>1, <2>3, <2>4, <2>5 DEF M
<1>9. ASSUME NEW p, Holds(bytes, p, x \o y)
      PROVE  ParseImmediates(op, bytes, p) = Result(p + Len(x \o y), val, "ok")
  <2>1. ParseImmediates(op, bytes, p) = LabelsBehind(ReadInt("u32", bytes, p), bytes)
    BY <1>0 DEF ParseImmediates, ParseLabels
  <2>2. /\ Holds(bytes, p, x) /\ Holds(bytes, p + Len(x), y) /\ Len(x \o y) = Len(x) + Len(y)
        /\ p \in Nat /\ Len(x) \in Nat /\ Len(y) \in Nat
    <3> DEFINE B == 0..255
    <3>1. x \in Seq(B) /\ y \in Seq(B) /\ Len(bytes) \in Nat
      BY <1>4, ByteAt DEF IsBytes
    <3>2. p \in Nat
      BY <1>9 DEF Holds
    <3> HIDE DEF x, y, B
    <3>3. Holds(bytes, p, x) /\ Holds(bytes, p + Len(x), y) /\ Len(x \o y) = Len(x) + Len(y)
      BY <1>9, <3>1, HoldsBoth
    <3> QED
      BY <3>1, <3>2, <3>3
  <2>3. ReadInt("u32", bytes, p) = Result(p + Len(x), n - 1, "ok")
    <3>1. "u32" \in IntKinds
      BY DEF IntKinds
    <3>2. ReadInt("u32", bytes, p) = Result(p + Len(x), Decoded("u32", n - 1), "ok")
      BY <2>2, <3>1, UnsignedRead
    <3> QED
      BY <1>8, <3>2
  <2> DEFINE q == p + Len(x)
  <2>4. LabelsBehind(Result(q, n - 1, "ok"), bytes) = Continue(Result(q, << >>, "ok"), kinds, bytes)
    <3> DEFINE r == Result(q, n - 1, "ok")
    <3>1. r.p = q /\ r.v = n - 1 /\ r.st = "ok"
      BY DEF Result
    <3> HIDE DEF r, q
    <3>2. LabelsBehind(r, bytes) = Continue(Result(r.p, << >>, r.st), Times((r.v + 1) % Power(2, W32), "u32"), bytes)
      BY DEF LabelsBehind
    <3> QED
      BY <1>8, <3>1, <3>2 DEF r
  <2>5. Continue(Result(q, << >>, "ok"), kinds, bytes) = Result(q + Len(y), val, "ok")
    <3>1. imms \in [1..n -> Index] /\ Holds(bytes, q, y)
      BY <2>2
    <3>2. Len(kinds) = n /\ \A j \in 1..n : kinds[j] \in IntKinds
      BY <1>k DEF IntKinds
    <3> HIDE DEF q, kinds, imms
    <3> QED
      BY <3>1, <3>2, UnsignedList
  <2>6. q + Len(y) = p + Len(x \o y)
    <3> HIDE DEF x, y
    <3> QED
      BY <2>2
  <2> HIDE DEF x, y, val, kinds
  <2> QED
    BY <2>1, <2>3, <2>4, <2>5, <2>6
<1> HIDE DEF x, y, val, kinds
<1> QED
  BY <1>5, <1>6, <1>7, <1>9 DEF Parses

-----------------------------------------------------------------------------
(* Opcodes.                                                                *)

(* The opcodes made up for what follows the prefix, and all opcodes of     *)
(* the format.                                                             *)
FlagOps == {Prefix, DataDrop, MemCopy, MemFill}
Opcodes == (TableOps \cup Memargs \cup {BrTable, End})

(* The numbers of the opcodes: bytes below the prefix, or behind it.       *)
LEMMA OpcodesAre ==
  ASSUME NEW op \in Opcodes
  PROVE  \/ op \in 0..251 /\ op \notin FlagOps
         \/ op \in FlagOps
<1> USE DEF FlagOps, Prefix, DataDrop, MemCopy, MemFill
<1>1. CASE op \in TableOps
  BY <1>1, SMT DEF TableOps, NoImmediates, Openers, OneIndex, TwoIndices, Else
<1>2. CASE op \in Memargs \cup {BrTable, End}
  BY <1>2, SMT DEF Memargs, BrTable, End
<1> QED
  BY <1>1, <1>2 DEF Opcodes

(* The flags.                                                              *)
LEMMA FlaggedIs ==
  /\ DOMAIN Flagged = 8..11
  /\ Flagged[8] = Prefix /\ Flagged[9] = DataDrop /\ Flagged[10] = MemCopy /\ Flagged[11] = MemFill
<1>1. DOMAIN Flagged = 8..11 /\ \A f \in 8..11 : Flagged[f] = <<Prefix, DataDrop, MemCopy, MemFill>>[f - 7]
  BY DEF Flagged
<1>2. 8 - 7 = 1 /\ 9 - 7 = 2 /\ 10 - 7 = 3 /\ 11 - 7 = 4
  OBVIOUS
<1> QED
  BY <1>1, <1>2

(* The flag behind the prefix that stands for an opcode.                   *)
LEMMA FlagOf ==
  ASSUME NEW op
  PROVE  /\ op \in FlagOps => \E f \in 8..11 : Flagged[f] = op /\ {g \in DOMAIN Flagged : Flagged[g] = op} = {f}
         /\ op \notin FlagOps => {g \in DOMAIN Flagged : Flagged[g] = op} = {}
<1>1. \A g \in DOMAIN Flagged : g = 8 \/ g = 9 \/ g = 10 \/ g = 11
  BY FlaggedIs
<1>2. /\ Prefix # DataDrop /\ Prefix # MemCopy /\ Prefix # MemFill
      /\ DataDrop # MemCopy /\ DataDrop # MemFill /\ MemCopy # MemFill
  BY SMT DEF Prefix, DataDrop, MemCopy, MemFill
<1>3. 8 \in DOMAIN Flagged /\ 9 \in DOMAIN Flagged /\ 10 \in DOMAIN Flagged /\ 11 \in DOMAIN Flagged
  BY FlaggedIs
<1>4. 8 \in 8..11 /\ 9 \in 8..11 /\ 10 \in 8..11 /\ 11 \in 8..11
  OBVIOUS
<1>5. CASE op = Prefix
  BY <1>1, <1>2, <1>3, <1>4, <1>5, FlaggedIs, ZenonT(40) DEF FlagOps
<1>6. CASE op = DataDrop
  BY <1>1, <1>2, <1>3, <1>4, <1>6, FlaggedIs, ZenonT(40) DEF FlagOps
<1>7. CASE op = MemCopy
  BY <1>1, <1>2, <1>3, <1>4, <1>7, FlaggedIs, ZenonT(40) DEF FlagOps
<1>8. CASE op = MemFill
  BY <1>1, <1>2, <1>3, <1>4, <1>8, FlaggedIs, ZenonT(40) DEF FlagOps
<1>9. CASE op \notin FlagOps
  BY <1>1, <1>9, FlaggedIs, Zenon DEF FlagOps
<1> QED
  BY <1>5, <1>6, <1>7, <1>8, <1>9, Zenon DEF FlagOps

(* The sequence of a set with one element.                                 *)
LEMMA SingletonSeq ==
  ASSUME NEW x
  PROVE  SetToSeq({x}) = <<x>>
<1> DEFINE P(f) == f \in [1..1 -> {x}] /\ IsInjective(f)
           g == <<x>>
<1>1. Cardinality({x}) = 1
  BY FS_Singleton
<1>2. P(g)
  <2>1. g \in [1..1 -> {x}]
    OBVIOUS
  <2>2. IsInjective(g)
    BY <2>1 DEF IsInjective
  <2> QED
    BY <2>1, <2>2
<1>3. SetToSeq({x}) = CHOOSE f \in [1..1 -> {x}] : IsInjective(f)
  BY <1>1, Zenon DEF SetToSeq
<1>4. SetToSeq({x}) \in [1..1 -> {x}]
  BY <1>2, <1>3
<1> QED
  BY <1>4

(* The bytes of an opcode.                                                 *)
LEMMA EncodedOpcode ==
  ASSUME NEW op \in Opcodes
  PROVE  \/ op \in 0..251 /\ EncodeOpcode(op) = <<op>>
         \/ \E f \in 8..11 : Flagged[f] = op /\ EncodeOpcode(op) = <<Prefix>> \o <<f>>
<1> DEFINE flags == {f \in DOMAIN Flagged : Flagged[f] = op}
<1>1. EncodeOpcode(op) = IF flags = {} THEN <<op>> ELSE <<Prefix>> \o SetToSeq(flags)
  BY DEF EncodeOpcode
<1>2. CASE op \in FlagOps
  <2>1. PICK f \in 8..11 : Flagged[f] = op /\ flags = {f}
    BY <1>2, FlagOf
  <2> HIDE DEF flags
  <2>2. flags # {}
    BY <2>1
  <2>3. SetToSeq(flags) = <<f>>
    BY <2>1, SingletonSeq
  <2> QED
    BY <1>1, <2>1, <2>2, <2>3
<1>3. CASE op \notin FlagOps
  <2>1. flags = {}
    BY <1>3, FlagOf
  <2>2. op \in 0..251
    BY <1>3, OpcodesAre
  <2> QED
    BY <1>1, <2>1, <2>2
<1> QED
  BY <1>2, <1>3

(* It is read as the opcode.                                               *)
LEMMA ByteRead ==
  ASSUME NEW bytes, IsBytes(bytes), NEW p, NEW b \in 0..255, Holds(bytes, p, <<b>>)
  PROVE  ReadByte(bytes, p) = Result(p + 1, b, "ok") /\ p \in Nat
<1> HIDE DEF Result
<1>1. p \in Nat /\ IsAt(bytes, p, b)
  BY HeldOne
<1>2. bytes[p] = b /\ p \in DOMAIN bytes
  <2>1. DOMAIN bytes = 1..Len(bytes)
    BY DEF IsBytes
  <2> QED
    BY <1>1, <2>1 DEF IsAt
<1> QED
  BY <1>1, <1>2 DEF ReadByte

(* A flag is read as itself.                                               *)
LEMMA FlagRead ==
  ASSUME NEW bytes, IsBytes(bytes), NEW p, NEW f \in 8..11, Holds(bytes, p, <<f>>)
  PROVE  ReadInt("u32", bytes, p) = Result(p + 1, f, "ok")
<1> HIDE DEF Result
<1>1. f \in Index /\ f < 128
  BY Ranges
<1>2. EncodeUnsigned(f) = <<f>> /\ Len(EncodeUnsigned(f)) = 1
  BY <1>1, UnsignedBytes
<1>3. "u32" \in IntKinds
  BY DEF IntKinds
<1>4. Decoded("u32", f) = f
  <2> DEFINE M == Modulus("u32")
  <2>1. M \in Nat \ {0} /\ M >= 256
    BY <1>3, Widths
  <2>2. Decoded("u32", f) = f % M
    BY DEF Decoded, Signed
  <2> HIDE DEF M
  <2>3. f \in 0..(M - 1)
    BY <2>1
  <2> QED
    BY <2>1, <2>2, <2>3, ModSmall
<1> QED
  BY <1>1, <1>2, <1>3, <1>4, UnsignedRead

(* An opcode behind the prefix.                                            *)
LEMMA FlaggedRead ==
  ASSUME NEW f \in 8..11, NEW bytes, IsBytes(bytes), NEW p,
         Holds(bytes, p, <<Prefix>> \o <<f>>)
  PROVE  /\ ParseOpcode(bytes, p) = Result(p + Len(<<Prefix>> \o <<f>>), Flagged[f], "ok")
         /\ Len(<<Prefix>> \o <<f>>) = 2
<1> DEFINE x == <<Prefix>> \o <<f>>
           op == Flagged[f]
<1>1. Holds(bytes, p, <<Prefix>>) /\ Holds(bytes, p + 1, <<f>>) /\ Len(x) = 2 /\ Prefix \in 0..255
  <2> DEFINE B == 0..255
             a == <<Prefix>>
             b == <<f>>
  <2>0. Prefix \in 0..255 /\ a \in Seq(B) /\ b \in Seq(B) /\ Len(bytes) \in Nat /\ Len(a) = 1 /\ Len(b) = 1
    BY ByteAt DEF Prefix
  <2> HIDE DEF B, a, b
  <2>1. Holds(bytes, p, a \o b)
    BY DEF a, b
  <2>2. Holds(bytes, p, a) /\ Holds(bytes, p + Len(a), b) /\ Len(a \o b) = Len(a) + Len(b)
    BY <2>0, <2>1, HoldsBoth
  <2>3. Len(a \o b) = 2
    BY <2>0, <2>2
  <2>4. x = a \o b
    BY DEF a, b
  <2> HIDE DEF x
  <2> QED
    BY <2>0, <2>2, <2>3, <2>4 DEF a, b
<1> DEFINE o == ReadByte(bytes, p)
           flag == ReadInt("u32", bytes, o.p)
<1>2. o = Result(p + 1, Prefix, "ok") /\ p \in Nat
  BY <1>1, ByteRead
<1>3. o.st = "ok" /\ o.v = Prefix /\ o.p = p + 1
  BY <1>2 DEF Result
<1> HIDE DEF o
<1>4. flag = Result((p + 1) + 1, f, "ok")
  <2> HIDE DEF Result
  <2> QED
    BY <1>1, <1>3, FlagRead
<1>5. flag.st = "ok" /\ flag.v = f /\ flag.p = (p + 1) + 1
  BY <1>4 DEF Result
<1> HIDE DEF flag, Result, x, op
<1>6. ParseOpcode(bytes, p)
        = IF o.st # "ok" \/ o.v # Prefix THEN o
          ELSE IF flag.st # "ok" THEN flag
          ELSE IF flag.v \notin DOMAIN Flagged THEN Result(flag.p, 0, "aborted")
          ELSE Result(flag.p, Flagged[flag.v], "ok")
  BY DEF ParseOpcode, o, flag
<1>7. f \in DOMAIN Flagged
  BY FlaggedIs
<1>8. ParseOpcode(bytes, p) = Result((p + 1) + 1, op, "ok")
  BY <1>3, <1>5, <1>6, <1>7 DEF op
<1>9. (p + 1) + 1 = p + Len(x)
  BY <1>1, <1>2
<1> QED
  BY <1>1, <1>8, <1>9 DEF x, op

(* An opcode of one byte.                                                  *)
LEMMA PlainRead ==
  ASSUME NEW op \in 0..251, NEW bytes, IsBytes(bytes), NEW p, Holds(bytes, p, <<op>>)
  PROVE  ParseOpcode(bytes, p) = Result(p + 1, op, "ok")
<1>1. op \in 0..255 /\ op # Prefix
  BY DEF Prefix
<1> DEFINE o == ReadByte(bytes, p)
<1>2. o = Result(p + 1, op, "ok")
  BY <1>1, ByteRead
<1>3. o.st = "ok" /\ o.v = op
  BY <1>2 DEF Result
<1> HIDE DEF o, Result
<1>4. ParseOpcode(bytes, p) = o
  BY <1>1, <1>3, Zenon DEF ParseOpcode, o
<1> QED
  BY <1>2, <1>4

(* Every opcode is read as itself.                                         *)
LEMMA OpcodeDecoded ==
  ASSUME NEW op \in Opcodes, NEW bytes, IsBytes(bytes), NEW p, Holds(bytes, p, EncodeOpcode(op))
  PROVE  ParseOpcode(bytes, p) = Result(p + Len(EncodeOpcode(op)), op, "ok")
<1> HIDE DEF Result
<1>1. CASE op \in 0..251 /\ EncodeOpcode(op) = <<op>>
  <2>1. Len(<<op>>) = 1
    OBVIOUS
  <2>2. ParseOpcode(bytes, p) = Result(p + 1, op, "ok")
    BY <1>1, PlainRead
  <2> QED
    BY <1>1, <2>1, <2>2
<1>2. CASE op \notin 0..251 \/ EncodeOpcode(op) # <<op>>
  <2>1. PICK f \in 8..11 : Flagged[f] = op /\ EncodeOpcode(op) = <<Prefix>> \o <<f>>
    BY <1>2, EncodedOpcode
  <2>2. Holds(bytes, p, <<Prefix>> \o <<f>>)
    BY <2>1
  <2>3. ParseOpcode(bytes, p) = Result(p + Len(<<Prefix>> \o <<f>>), Flagged[f], "ok")
    BY <2>2, FlaggedRead
  <2> QED
    BY <2>1, <2>3
<1> QED
  BY <1>1, <1>2

-----------------------------------------------------------------------------
(* Instructions.                                                           *)

(* How many indices there are behind an opcode.                            *)
LEMMA NonePlain ==
  ASSUME NEW op \in NoImmediates
  PROVE  op \in IndexOps /\ Immediates(op) = << >>
BY ImmediatesAre DEF IndexOps

(* One index.                                                              *)
LEMMA OnePlain ==
  ASSUME NEW op \in OneIndex \ {65}
  PROVE  op \in IndexOps /\ Immediates(op) = <<"s32">>
BY ImmediatesAre DEF IndexOps

(* Two indices.                                                            *)
LEMMA TwoPlain ==
  ASSUME NEW op \in TwoIndices
  PROVE  op \in IndexOps /\ Immediates(op) = <<"s32", "s32">>
BY ImmediatesAre DEF IndexOps

(* A sequence of one element.                                              *)
LEMMA SingleIs ==
  ASSUME NEW S, NEW f \in [1..1 -> S]
  PROVE  f = <<f[1]>> /\ f[1] \in S
OBVIOUS

(* A function to bytes is a sequence of bytes.                             *)
LEMMA BytesOf ==
  ASSUME NEW n \in Nat, NEW x \in [1..n -> 0..255]
  PROVE  IsBytes(x) /\ Len(x) = n
<1> DEFINE B == 0..255
<1>1. x \in [1..n -> B]
  OBVIOUS
<1> HIDE DEF B
<1>2. x \in Seq(B) /\ Len(x) = n
  BY <1>1, TupleIs
<1> QED
  BY <1>2 DEF IsBytes, B

(* The operands of every instruction.                                      *)
LEMMA OperandsParse ==
  ASSUME NEW instr, IsInstr(instr), instr.op # End, NEW bytes, IsBytes(bytes)
  PROVE  IsBytes(Operands(instr)) /\ Parses(instr, bytes)
<1>0. IsRecord(instr) /\ HasImmediates(instr.op, instr.imms)
  BY DEF IsInstr, IsRecord
<1>1. CASE instr.op \in NoImmediates \cup {End} /\ instr.imms = << >>
  <2> DEFINE kinds == << >>
  <2>1. instr.op \in NoImmediates
    BY <1>1
  <2>2. instr.op \in IndexOps /\ Immediates(instr.op) = kinds
    BY <2>1, NonePlain
  <2>3. 0 \in Nat /\ instr.imms \in [1..0 -> Index] /\ Len(kinds) = 0 /\ \A j \in 1..0 : kinds[j] = "s32"
    BY <1>1
  <2> HIDE DEF kinds
  <2> QED
    BY <1>0, <2>2, <2>3, IndicesParse
<1>2. CASE instr.op \in Openers \cup {MemFill} /\ instr.imms \in [1..1 -> 0..127]
  BY <1>0, <1>2, ByteParses
<1>3. CASE instr.op \in {65, 66} /\ instr.imms \in [1..1 -> Operand]
  BY <1>0, <1>3, ConstParses
<1>4. CASE instr.op \in OneIndex \ {65} /\ instr.imms \in [1..1 -> Index]
  <2> DEFINE kinds == <<"s32">>
  <2>1. instr.op \in OneIndex \ {65}
    BY <1>4, Zenon
  <2>2. instr.op \in IndexOps /\ Immediates(instr.op) = kinds
    BY <2>1, OnePlain
  <2>3. 1 \in Nat /\ Len(kinds) = 1 /\ \A j \in 1..1 : kinds[j] = "s32"
    OBVIOUS
  <2> HIDE DEF kinds
  <2> QED
    BY <1>0, <1>4, <2>2, <2>3, IndicesParse
<1>5. CASE instr.op \in TwoIndices /\ instr.imms \in [1..2 -> Index]
  <2> DEFINE kinds == <<"s32", "s32">>
  <2>1. instr.op \in TwoIndices
    BY <1>5, Zenon
  <2>2. instr.op \in IndexOps /\ Immediates(instr.op) = kinds
    BY <2>1, TwoPlain
  <2>3. 2 \in Nat /\ Len(kinds) = 2 /\ \A j \in 1..2 : kinds[j] = "s32"
    OBVIOUS
  <2> HIDE DEF kinds
  <2> QED
    BY <1>0, <1>5, <2>2, <2>3, IndicesParse
<1>6. CASE \/ instr.op = 67 /\ instr.imms \in [1..1 -> [1..4 -> 0..255]]
           \/ instr.op = 68 /\ instr.imms \in [1..1 -> [1..8 -> 0..255]]
  <2> DEFINE S4 == [1..4 -> 0..255]
             S8 == [1..8 -> 0..255]
             x == instr.imms[1]
  <2>1. CASE instr.op = 67 /\ instr.imms \in [1..1 -> S4]
    <3>1. instr.imms = <<x>> /\ x \in S4
      <4> HIDE DEF S4
      <4> QED
        BY <2>1, SingleIs
    <3>2. IsBytes(x) /\ Len(x) = 4
      <4>1. 4 \in Nat /\ x \in [1..4 -> 0..255]
        BY <3>1
      <4> HIDE DEF x
      <4> QED
        BY <4>1, BytesOf
    <3> HIDE DEF x
    <3> QED
      BY <1>0, <2>1, <3>1, <3>2, FloatParses
  <2>2. CASE instr.op = 68 /\ instr.imms \in [1..1 -> S8]
    <3>1. instr.imms = <<x>> /\ x \in S8
      <4> HIDE DEF S8
      <4> QED
        BY <2>2, SingleIs
    <3>2. IsBytes(x) /\ Len(x) = 8
      <4>1. 8 \in Nat /\ x \in [1..8 -> 0..255]
        BY <3>1
      <4> HIDE DEF x
      <4> QED
        BY <4>1, BytesOf
    <3> HIDE DEF x
    <3> QED
      BY <1>0, <2>2, <3>1, <3>2, FloatParses
  <2> QED
    BY <1>6, <2>1, <2>2
<1>7. CASE instr.op \in Memargs /\ instr.imms \in [1..2 -> Index] /\ instr.imms[1] < 64
  <2> DEFINE a == instr.imms[1]
  <2>1. a \in Nat /\ a < 64
    <3>1. a \in Index /\ a < 64
      BY <1>7
    <3> HIDE DEF a
    <3> QED
      BY <3>1, Ranges
  <2>2. a < 128 /\ ~(a >= 64) /\ 2 \in {2, 3} /\ ~(2 = 3)
    <3> HIDE DEF a
    <3> QED
      BY <2>1
  <2> QED
    BY <1>0, <1>7, <2>2, MemargParses
<1>8. CASE instr.op \in Memargs /\ instr.imms \in [1..3 -> Index] /\ instr.imms[1] \in 64..127
  <2> DEFINE a == instr.imms[1]
  <2>1. a \in 64..127
    BY <1>8
  <2>2. a < 128 /\ a >= 64 /\ 3 \in {2, 3}
    <3> HIDE DEF a
    <3> QED
      BY <2>1
  <2> QED
    BY <1>0, <1>8, <2>2, MemargParses
<1>9. CASE /\ instr.op = BrTable /\ instr.imms \in Seq(Index) /\ Len(instr.imms) - 1 \in Index
           /\ Len(instr.imms) < Power(2, W32)
  <2> DEFINE n == Len(instr.imms)
  <2>1. n \in Nat \ {0} /\ instr.imms \in [1..n -> Index]
    <3>1. n \in Nat /\ instr.imms \in [1..n -> Index] /\ n - 1 \in Index
      BY <1>9
    <3> HIDE DEF n
    <3>2. n - 1 \in Nat
      BY <3>1, Ranges
    <3> QED
      BY <3>1, <3>2
  <2>2. n - 1 \in Index /\ n < Power(2, W32)
    BY <1>9
  <2> HIDE DEF n
  <2> QED
    BY <1>0, <1>9, <2>1, <2>2, BrTableParses
<1> QED
  BY <1>0, <1>1, <1>2, <1>3, <1>4, <1>5, <1>6, <1>7, <1>8, <1>9, Zenon DEF HasImmediates

(* The opcodes that have operands.                                         *)
LEMMA OpcodesHave ==
  ASSUME NEW op, NEW imms, HasImmediates(op, imms)
  PROVE  op \in Opcodes
<1>1. \/ op \in NoImmediates \/ op = End \/ op \in Openers \/ op = MemFill \/ op = 65 \/ op = 66
      \/ op \in OneIndex \/ op \in TwoIndices \/ op = 67 \/ op = 68 \/ op \in Memargs \/ op = BrTable
  BY Zenon DEF HasImmediates
<1>2. 65 \in OneIndex
  BY DEF OneIndex
<1> QED
  BY <1>1, <1>2, Zenon DEF Opcodes, TableOps

(* An encoded opcode is bytes, one at least.                               *)
LEMMA OpcodeBytes ==
  ASSUME NEW op \in Opcodes
  PROVE  IsBytes(EncodeOpcode(op)) /\ Len(EncodeOpcode(op)) \in Nat \ {0}
<1>1. CASE op \in 0..251 /\ EncodeOpcode(op) = <<op>>
  <2>1. op \in 0..255
    BY <1>1
  <2>2. <<op>> \in Seq(0..255) /\ Len(<<op>>) = 1
    BY <2>1
  <2> QED
    BY <1>1, <2>2 DEF IsBytes
<1>2. CASE \E f \in 8..11 : EncodeOpcode(op) = <<Prefix>> \o <<f>>
  <2>1. PICK f \in 8..11 : EncodeOpcode(op) = <<Prefix>> \o <<f>>
    BY <1>2
  <2>2. <<Prefix>> \o <<f>> = <<Prefix, f>>
    BY TwoThree
  <2>3. Prefix \in 0..255 /\ f \in 0..255
    BY DEF Prefix
  <2>4. <<Prefix, f>> \in Seq(0..255) /\ Len(<<Prefix, f>>) = 2
    BY <2>3
  <2> QED
    BY <2>1, <2>2, <2>4 DEF IsBytes
<1> QED
  BY <1>1, <1>2, EncodedOpcode

(* An instruction is its opcode and its operands; End has none.            *)
LEMMA EndOperands ==
  ASSUME NEW instr, IsInstr(instr), instr.op = End
  PROVE  Operands(instr) = << >> /\ Kept(instr) = [op |-> End, imms |-> << >>]
<1>0. IsRecord(instr) /\ HasImmediates(instr.op, instr.imms)
  BY DEF IsInstr, IsRecord
<1>1. instr.imms = << >> /\ instr.op \notin {67, 68} /\ instr.op # BrTable
  <2>1. End \notin Openers \cup {MemFill} /\ End \notin {65, 66, 67, 68, BrTable} /\ End \notin OneIndex
        /\ End \notin TwoIndices /\ End \notin Memargs
    BY SMT DEF End, Openers, MemFill, BrTable, OneIndex, TwoIndices, Memargs, DataDrop, MemCopy, Prefix
  <2> QED
    BY <1>0, <2>1 DEF HasImmediates
<1>2. [j \in 1..Len(instr.imms) |-> EncodeImmediate(FormatKinds(instr)[j], instr.imms[j])] = << >>
  <2>1. 1..Len(instr.imms) = {}
    BY <1>1
  <2> QED
    BY <2>1
<1>3. EncodeImms(instr) = << >>
  <2>1. FlattenSeq(<< >>) = << >>
    BY DEF FlattenSeq
  <2> QED
    BY <1>1, <1>2, <2>1, Zenon DEF EncodeImms
<1>4. Operands(instr) = << >> \o << >>
  BY <1>1, <1>3, Zenon DEF Operands, Labels
<1>5. 0 \in Nat /\ DOMAIN instr.imms = 1..0
  BY <1>1
<1>6. Kept(instr) = [op |-> instr.op, imms |-> [j \in 1..0 |-> KeptImm(instr.op, FormatKinds(instr)[j], instr.imms[j])]]
  BY <1>0, <1>1, <1>5, KeptIs
<1>7. [j \in 1..0 |-> KeptImm(instr.op, FormatKinds(instr)[j], instr.imms[j])] = << >>
  <2>1. 1..0 = {}
    OBVIOUS
  <2> QED
    BY <2>1
<1>8. << >> \o << >> = << >>
  OBVIOUS
<1> QED
  BY <1>4, <1>6, <1>7, <1>8

(* What is kept of an instruction is one with its opcode.                  *)
LEMMA KeptShape ==
  ASSUME NEW instr, IsInstr(instr)
  PROVE  Kept(instr) = [op |-> instr.op, imms |-> Kept(instr).imms]
<1>0. instr = [op |-> instr.op, imms |-> instr.imms]
  BY DEF IsInstr
<1>1. CASE instr.op \in {67, 68}
  BY <1>0, <1>1 DEF Kept
<1>2. CASE instr.op \notin {67, 68}
  <2>1. PICK f : Kept(instr) = [instr EXCEPT !.imms = f]
    BY <1>2 DEF Kept
  <2> QED
    BY <1>0, <2>1
<1> QED
  BY <1>1, <1>2

(* An encoded instruction is bytes, one at least: its opcode and its       *)
(* operands.                                                               *)
LEMMA EncodedInstr ==
  ASSUME NEW instr, IsInstr(instr)
  PROVE  /\ instr.op \in Opcodes
         /\ IsBytes(Operands(instr))
         /\ EncodeInstr(instr) = EncodeOpcode(instr.op) \o Operands(instr)
         /\ IsBytes(EncodeInstr(instr)) /\ Len(EncodeInstr(instr)) \in Nat \ {0}
<1>1. instr.op \in Opcodes
  BY OpcodesHave DEF IsInstr
<1>2. IsBytes(EncodeOpcode(instr.op)) /\ Len(EncodeOpcode(instr.op)) \in Nat \ {0}
  BY <1>1, OpcodeBytes
<1>3. IsBytes(Operands(instr))
  <2>1. CASE instr.op = End
    <3>1. << >> \in Seq(0..255)
      OBVIOUS
    <3> QED
      BY <2>1, <3>1, EndOperands DEF IsBytes
  <2>2. CASE instr.op # End
    <3>1. IsBytes(<< >>)
      BY DEF IsBytes
    <3> QED
      BY <2>2, <3>1, OperandsParse
  <2> QED
    BY <2>1, <2>2
<1>4. EncodeInstr(instr) = EncodeOpcode(instr.op) \o Operands(instr)
  BY DEF EncodeInstr
<1> DEFINE x == EncodeOpcode(instr.op)
           y == Operands(instr)
<1>5. IsBytes(x \o y) /\ Len(x \o y) \in Nat \ {0}
  <2> DEFINE B == 0..255
  <2>1. x \in Seq(B) /\ y \in Seq(B) /\ Len(x) \in Nat \ {0}
    BY <1>2, <1>3 DEF IsBytes
  <2> HIDE DEF x, y, B
  <2>2. x \o y \in Seq(B) /\ Len(x \o y) = Len(x) + Len(y) /\ Len(y) \in Nat
    BY <2>1
  <2>3. Len(x \o y) \in Nat \ {0}
    BY <2>1, <2>2
  <2> QED
    BY <2>2, <2>3 DEF IsBytes, B
<1> QED
  BY <1>1, <1>3, <1>4, <1>5

(* An instruction is read as what is kept of it.                           *)
LEMMA InstrRead ==
  ASSUME NEW instr, IsInstr(instr), NEW bytes, IsBytes(bytes), NEW p,
         Holds(bytes, p, EncodeInstr(instr))
  PROVE  ParseInstruction(bytes, p) = Result(p + Len(EncodeInstr(instr)), Kept(instr), "ok")
<1> DEFINE x == EncodeOpcode(instr.op)
           y == Operands(instr)
           o == ParseOpcode(bytes, p)
           i == ParseImmediates(instr.op, bytes, p + Len(x))
<1>1. instr.op \in Opcodes /\ EncodeInstr(instr) = x \o y /\ IsBytes(x) /\ IsBytes(y)
  BY EncodedInstr, OpcodeBytes
<1>2. /\ Holds(bytes, p, x) /\ Holds(bytes, p + Len(x), y) /\ Len(x \o y) = Len(x) + Len(y)
      /\ p \in Nat /\ Len(x) \in Nat /\ Len(y) \in Nat
  <2> DEFINE B == 0..255
  <2>1. x \in Seq(B) /\ y \in Seq(B) /\ Len(bytes) \in Nat
    BY <1>1, ByteAt DEF IsBytes
  <2>2. p \in Nat
    BY DEF Holds
  <2>3. Holds(bytes, p, x \o y)
    BY <1>1
  <2> HIDE DEF x, y, B
  <2>4. Holds(bytes, p, x) /\ Holds(bytes, p + Len(x), y) /\ Len(x \o y) = Len(x) + Len(y)
    BY <2>1, <2>3, HoldsBoth
  <2> QED
    BY <2>1, <2>2, <2>4
<1>3. o = Result(p + Len(x), instr.op, "ok")
  <2> HIDE DEF Result
  <2> QED
    BY <1>1, <1>2, OpcodeDecoded
<1>4. o.p = p + Len(x) /\ o.v = instr.op /\ o.st = "ok"
  BY <1>3 DEF Result
<1> HIDE DEF o
<1>5. ParseInstruction(bytes, p)
        = IF o.v = End THEN Result(o.p, [op |-> End, imms |-> << >>], "ok")
          ELSE WithImmediates(o.v, ParseImmediates(o.v, bytes, o.p))
  BY <1>4 DEF ParseInstruction, o
<1>6. p + Len(x \o y) = (p + Len(x)) + Len(y)
  <2> HIDE DEF x, y
  <2> QED
    BY <1>2
<1>7. CASE instr.op = End
  <2>1. y = << >> /\ Kept(instr) = [op |-> End, imms |-> << >>]
    BY <1>7, EndOperands
  <2>2. Len(y) = 0
    BY <2>1
  <2> HIDE DEF x, y, Result
  <2>3. p + Len(x \o y) = p + Len(x)
    BY <1>2, <1>6, <2>2
  <2> QED
    BY <1>1, <1>4, <1>5, <1>7, <2>1, <2>3
<1>8. CASE instr.op # End
  <2>1. Parses(instr, bytes)
    BY <1>8, OperandsParse
  <2>2. i = Result((p + Len(x)) + Len(y), Kept(instr).imms, "ok")
    <3> HIDE DEF Result, x
    <3> QED
      BY <1>2, <2>1 DEF Parses
  <2>3. i.p = (p + Len(x)) + Len(y) /\ i.v = Kept(instr).imms /\ i.st = "ok"
    BY <2>2 DEF Result
  <2> HIDE DEF i, x, y
  <2>4. WithImmediates(instr.op, i) = Result((p + Len(x)) + Len(y), [op |-> instr.op, imms |-> Kept(instr).imms], "ok")
    BY <2>3 DEF WithImmediates
  <2>5. Kept(instr) = [op |-> instr.op, imms |-> Kept(instr).imms]
    BY KeptShape
  <2> HIDE DEF Result
  <2> QED
    BY <1>1, <1>4, <1>5, <1>6, <1>8, <2>4, <2>5 DEF i
<1> QED
  BY <1>7, <1>8

-----------------------------------------------------------------------------
(* Any bytes.                                                              *)

(* How a read ends.                                                        *)
States == {"ok", "aborted", "undefined"}

(* A reader that starts at lo stays in the bytes.                          *)
Stays(r, lo, N) == r.p \in lo..N /\ r.st \in States

(* Where an integer ends.                                                  *)
LEMMA BehindStays ==
  ASSUME NEW bytes, NEW L \in Nat, Len(bytes) = L, NEW p \in 1..(L + 1)
  PROVE  Behind(bytes, p) \in p..(L + 1) /\ (p <= L => Behind(bytes, p) > p)
<1> DEFINE E == {q \in p..L : ~Continues(bytes[q])} \cup {L}
<1>1. E \subseteq Nat /\ E # {} /\ \A q \in E : q <= L /\ (p <= L => p <= q) /\ q >= p - 1
  OBVIOUS
<1>2. Behind(bytes, p) = Min(E) + 1
  BY DEF Behind
<1> HIDE DEF E
<1>3. PICK m \in E : \A x \in E : m <= x
  BY <1>1, MinExists
<1>4. Min(E) = m
  BY <1>1, <1>3, MinIs
<1> QED
  BY <1>1, <1>2, <1>3, <1>4

(* The readers of integers, of raw bytes and of a byte stay in the bytes.  *)
LEMMA ReadIntStays ==
  ASSUME NEW kind, NEW bytes, NEW L \in Nat, Len(bytes) = L, NEW p \in 1..(L + 1)
  PROVE  Stays(ReadInt(kind, bytes, p), p, L + 1)
<1> DEFINE q == Behind(bytes, p)
           r == ReadInt(kind, bytes, p)
<1>1. q \in p..(L + 1)
  BY BehindStays
<1>2. r = FromBlocks(kind, bytes, p, q)
  BY DEF ReadInt
<1> HIDE DEF q
<1>3. r.p = q /\ r.st \in {"ok", "undefined"}
  <2> DEFINE v == (Unsigned(bytes, p, q - p) + Extension(kind, bytes[q - 1], Payload * (q - p))) % Modulus(kind)
             a == ShiftsTooFar(kind, q - p) \/ (q = p /\ kind \in Signed)
  <2>1. r = IF a THEN Result(q, 0, "undefined") ELSE IF q = p THEN Result(q, 0, "ok") ELSE Result(q, v, "ok")
    BY <1>2 DEF FromBlocks
  <2> HIDE DEF r, v, a
  <2> QED
    BY <2>1 DEF Result
<1> QED
  BY <1>1, <1>3 DEF Stays, States

(* Raw bytes are read only if they are all there.                          *)
LEMMA ReadRawStays ==
  ASSUME NEW l \in Nat, NEW bytes, NEW L \in Nat, Len(bytes) = L, NEW p \in 1..(L + 1)
  PROVE  Stays(ReadRaw(l, bytes, p), p, L + 1)
<1> DEFINE r == ReadRaw(l, bytes, p)
           x == SubSeq(bytes, p, p + l - 1)
<1>1. r = IF L + 1 - p < l THEN Result(p, << >>, "aborted") ELSE Result(p + l, x, "ok")
  BY DEF ReadRaw
<1> HIDE DEF r, x
<1>2. CASE L + 1 - p < l
  <2>1. r.p = p /\ r.st = "aborted"
    BY <1>1, <1>2 DEF Result
  <2>2. p \in p..(L + 1)
    OBVIOUS
  <2> QED
    BY <2>1, <2>2 DEF Stays, States, r
<1>3. CASE ~(L + 1 - p < l)
  <2>1. r.p = p + l /\ r.st = "ok"
    BY <1>1, <1>3 DEF Result
  <2>2. p + l \in p..(L + 1)
    BY <1>3
  <2> QED
    BY <2>1, <2>2 DEF Stays, States, r
<1> QED
  BY <1>2, <1>3

(* A byte that is read is behind the pointer.                              *)
LEMMA ReadByteStays ==
  ASSUME NEW bytes, NEW L \in Nat, DOMAIN bytes = 1..L, NEW p \in 1..(L + 1)
  PROVE  /\ Stays(ReadByte(bytes, p), p, L + 1)
         /\ ReadByte(bytes, p).st = "ok" => ReadByte(bytes, p).p = p + 1
<1> DEFINE r == ReadByte(bytes, p)
<1>1. r = IF p \in 1..L THEN Result(p + 1, bytes[p], "ok") ELSE Result(p, 0, "aborted")
  BY DEF ReadByte
<1> HIDE DEF r
<1>2. CASE p \in 1..L
  <2>1. r.p = p + 1 /\ r.st = "ok"
    BY <1>1, <1>2 DEF Result
  <2>2. p + 1 \in p..(L + 1)
    BY <1>2
  <2> QED
    BY <2>1, <2>2 DEF Stays, States, r
<1>3. CASE p \notin 1..L
  <2>1. r.p = p /\ r.st = "aborted"
    BY <1>1, <1>3 DEF Result
  <2>2. p \in p..(L + 1)
    OBVIOUS
  <2> QED
    BY <2>1, <2>2 DEF Stays, States, r
<1> QED
  BY <1>2, <1>3

(* The readers of immediates.                                              *)
ImmKinds == IntKinds \cup {"byte", "f32", "f64"}

(* Every reader of an immediate stays in the bytes.                        *)
LEMMA ReadStays ==
  ASSUME NEW kind \in ImmKinds, NEW bytes, IsBytes(bytes), NEW p \in 1..(Len(bytes) + 1)
  PROVE  Stays(Read(kind, bytes, p), p, Len(bytes) + 1)
<1>1. Len(bytes) \in Nat /\ DOMAIN bytes = 1..Len(bytes)
  BY DEF IsBytes
<1> DEFINE L == Len(bytes)
<1>2. L \in Nat /\ Len(bytes) = L /\ p \in 1..(L + 1) /\ DOMAIN bytes = 1..L
  BY <1>1
<1> HIDE DEF L
<1>3. CASE kind \in IntKinds
  <2>1. Read(kind, bytes, p) = ReadInt(kind, bytes, p)
    BY <1>3, ReadKinds
  <2>2. Stays(ReadInt(kind, bytes, p), p, L + 1)
    BY <1>2, ReadIntStays
  <2> QED
    BY <2>1, <2>2 DEF L
<1>4. CASE kind = "byte"
  BY <1>2, <1>4, ReadByteStays, ReadKinds
<1>5. CASE kind = "f32"
  <2>1. 4 \in Nat
    OBVIOUS
  <2> QED
    BY <1>2, <1>5, <2>1, ReadRawStays, ReadKinds
<1>6. CASE kind = "f64"
  <2>1. 8 \in Nat
    OBVIOUS
  <2> QED
    BY <1>2, <1>6, <2>1, ReadRawStays, ReadKinds
<1> QED
  BY <1>3, <1>4, <1>5, <1>6 DEF ImmKinds

(* One reader after the other.                                             *)
Collects(r, lo, N) ==
  r = Result(r.p, r.v, r.st) /\ Stays(r, lo, N) /\ \E W : r.v \in Seq(W)

(* So do readers one after the other.                                      *)
LEMMA ContinueStays ==
  ASSUME NEW n \in Nat, NEW kinds, Len(kinds) = n, \A k \in 1..n : kinds[k] \in ImmKinds,
         NEW bytes, IsBytes(bytes), NEW lo \in 1..(Len(bytes) + 1),
         NEW r, Collects(r, lo, Len(bytes) + 1)
  PROVE  Collects(Continue(r, kinds, bytes), lo, Len(bytes) + 1)
<1> DEFINE N == Len(bytes) + 1
<1>1. N \in Nat /\ lo \in 1..N
  BY DEF IsBytes
<1>2. PICK W : r.v \in Seq(W)
  BY DEF Collects
<1> DEFINE V == W \cup {Read(kind, bytes, q).v : kind \in ImmKinds, q \in lo..N}
           Q == Seq(V)
           X == [p : lo..N, v : Q, st : States]
           h == [k \in 1..n |-> [x \in X |-> Advance(x, kinds[k], bytes)]]
<1>3. ASSUME NEW kind \in ImmKinds, NEW x \in X PROVE Advance(x, kind, bytes) \in X
  <2>1. CASE x.st # "ok"
    BY <2>1 DEF Advance
  <2>2. CASE x.st = "ok"
    <3> DEFINE rd == Read(kind, bytes, x.p)
    <3>1. x.p \in lo..N /\ x.v \in Q
      OBVIOUS
    <3>2. x.p \in 1..N
      BY <1>1, <3>1
    <3>3. Stays(rd, x.p, N)
      <4> HIDE DEF X
      <4> QED
        BY <3>2, ReadStays
    <3>4. rd.v \in V
      BY <3>1
    <3>5. Advance(x, kind, bytes) = [p |-> rd.p, v |-> Append(x.v, rd.v), st |-> rd.st]
      BY <2>2 DEF Advance, AppendTo, Result
    <3> HIDE DEF rd, V
    <3>6. Append(x.v, rd.v) \in Q
      BY <3>1, <3>4
    <3>7. rd.p \in lo..N /\ rd.st \in States
      <4> HIDE DEF N, X
      <4> QED
        BY <1>1, <3>1, <3>3 DEF Stays
    <3> HIDE DEF Q, N
    <3> QED
      BY <3>5, <3>6, <3>7
  <2> QED
    BY <2>1, <2>2
<1>4. r \in X
  <2>1. r.v \in Q
    BY <1>2
  <2> HIDE DEF Q, N
  <2>2. r.p \in lo..N /\ r.st \in States /\ r = [p |-> r.p, v |-> r.v, st |-> r.st]
    BY DEF Collects, Stays, Result, N
  <2> QED
    BY <2>1, <2>2
<1>5. \A x \in X : Collects(x, lo, N)
  <2> HIDE DEF V, N
  <2>1. \A x \in X : x = [p |-> x.p, v |-> x.v, st |-> x.st] /\ x.p \in lo..N /\ x.v \in Seq(V) /\ x.st \in States
    OBVIOUS
  <2> HIDE DEF X
  <2> QED
    BY <2>1 DEF Collects, Stays, Result
<1> HIDE DEF X
<1>6. h \in [1..n -> [X -> X]] /\ \A k \in 1..n : \A x \in X : h[k][x] = Advance(x, kinds[k], bytes)
  BY <1>3
<1> HIDE DEF h
<1>7. PICK f \in [0..n -> X] : f[0] = r /\ \A k \in 1..n : f[k] = h[k][f[k - 1]]
  <2>1. r \in X /\ h \in [1..n -> [X -> X]]
    BY <1>4, <1>6
  <2>2. Recursions(X, n, r, h) # {}
    BY <2>1, RecursionExists
  <2> QED
    BY <2>2 DEF Recursions
<1>8. Passes(r, kinds, bytes, f)
  <2>1. \A k \in 0..n : f[k] = IF k = 0 THEN r ELSE Advance(f[k - 1], kinds[k], bytes)
    BY <1>6, <1>7
  <2>2. f = [k \in 0..n |-> f[k]]
    OBVIOUS
  <2> QED
    BY <2>1, <2>2 DEF Passes
<1>9. Continue(r, kinds, bytes) = f[n] /\ f[n] \in X
  BY <1>7, <1>8, ContinueIs
<1> QED
  BY <1>5, <1>9 DEF N

(* Sums of integers are integers.                                          *)
LEMMA SumType ==
  ASSUME NEW F, NEW n, Terms(F, n)
  PROVE  SumOf(FirstTerms(F, n)) \in Int
<1>1. PICK f \in [0..n -> Int] : PartialSums(F, n, f)
  BY PartialSumsExist
<1>2. n \in 0..n
  BY DEF Terms
<1>3. SumOf(FirstTerms(F, n)) = f[n]
  BY <1>1, SumIs
<1> QED
  BY <1>2, <1>3

(* Integers are numbers.                                                   *)
LEMMA ReadIntNumber ==
  ASSUME NEW kind \in IntKinds, NEW bytes, IsBytes(bytes), NEW p \in 1..(Len(bytes) + 1)
  PROVE  ReadInt(kind, bytes, p).v \in Nat
<1> DEFINE q == Behind(bytes, p)
           n == q - p
           u == Unsigned(bytes, p, n)
           e == Extension(kind, bytes[q - 1], Payload * n)
           M == Modulus(kind)
           N == Len(bytes) + 1
           r == ReadInt(kind, bytes, p)
<1>1. N \in Nat /\ p \in 1..N /\ q \in p..N
  <2> DEFINE L == Len(bytes)
  <2>1. L \in Nat /\ Len(bytes) = L /\ p \in 1..(L + 1)
    BY DEF IsBytes
  <2> HIDE DEF L
  <2>2. Behind(bytes, p) \in p..(L + 1)
    BY <2>1, BehindStays
  <2> QED
    BY <2>1, <2>2 DEF L
<1>2. M \in Nat \ {0}
  BY Widths
<1> HIDE DEF q, N
<1>3. n \in Nat /\ p - 1 + n <= Len(bytes)
  BY <1>1 DEF N
<1>4. u \in Int
  <2> DEFINE F == [k \in 1..n |-> Bits(bytes[p + k - 1]) * Power(2, Payload * (k - 1))]
  <2>1. \A k \in 1..n : F[k] \in Int
    <3> TAKE k \in 1..n
    <3> DEFINE b == bytes[p + k - 1]
               x == Power(2, Payload * (k - 1))
    <3>1. x \in Int
      <4>1. Payload * (k - 1) \in Nat
        BY <1>3, ReadersAssumption, FormatAssumption
      <4> QED
        BY <4>1, PowerPositive
    <3>2. Bits(b) \in Int
      <4>1. p + k - 1 \in 1..Len(bytes)
        BY <1>1, <1>3
      <4>2. b \in 0..255
        BY <4>1, ByteAt
      <4>3. Carry \in Nat \ {0}
        BY FormatAssumption, SmallPowers DEF Carry
      <4> HIDE DEF b
      <4> QED
        BY <4>2, <4>3 DEF Bits
    <3>3. F[k] = Bits(b) * x
      OBVIOUS
    <3> HIDE DEF F, b, x
    <3>4. Bits(b) * x \in Int
      BY <3>1, <3>2
    <3> QED
      BY <3>3, <3>4
  <2> HIDE DEF F
  <2>2. Terms(F, n)
    BY <1>3, <2>1 DEF Terms
  <2>3. SumOf(FirstTerms(F, n)) \in Int
    BY <2>2, SumType
  <2>4. FirstTerms(F, n) = F
    BY DEF FirstTerms, F
  <2> QED
    BY <2>3, <2>4 DEF Unsigned, F
<1>5. e \in Int
  <2>1. Payload * n \in Nat
    BY <1>3, ReadersAssumption, FormatAssumption
  <2>2. Power(2, Payload * n) \in Int
    BY <2>1, PowerPositive
  <2> QED
    BY <1>2, <2>2 DEF Extension
<1> HIDE DEF u, e, M, n
<1>6. (u + e) % M \in Nat
  BY <1>2, <1>4, <1>5
<1>7. r.v \in {0, (u + e) % M}
  <2> DEFINE v == (u + e) % M
             a == ShiftsTooFar(kind, n) \/ (q = p /\ kind \in Signed)
  <2>1. r = IF a THEN Result(q, 0, "undefined") ELSE IF q = p THEN Result(q, 0, "ok") ELSE Result(q, v, "ok")
    BY DEF ReadInt, FromBlocks, q, u, e, M, n
  <2> HIDE DEF r, v, a
  <2>2. r.v \in {0, v}
    BY <2>1 DEF Result
  <2> QED
    BY <2>2 DEF v
<1> QED
  BY <1>6, <1>7

(* What the operands are read from stays in the bytes.                     *)
LEMMA FreshCollects ==
  ASSUME NEW p, NEW lo, NEW N, NEW st \in States, p \in lo..N
  PROVE  Collects(Result(p, << >>, st), lo, N)
<1>1. << >> \in Seq({})
  OBVIOUS
<1> DEFINE e == << >>
<1> HIDE DEF e
<1>2. Collects(Result(p, e, st), lo, N) <=> \E W : e \in Seq(W)
  BY DEF Collects, Stays, Result
<1> QED
  BY <1>1, <1>2 DEF e

(* A memarg stays in the bytes.                                            *)
LEMMA MemargStays ==
  ASSUME NEW bytes, IsBytes(bytes), NEW lo \in 1..(Len(bytes) + 1)
  PROVE  Collects(ParseMemarg(bytes, lo), lo, Len(bytes) + 1)
<1> DEFINE N == Len(bytes) + 1
           r == Result(lo, << >>, "ok")
           n == Continue(r, <<"s32">>, bytes)
           kinds == BehindAlignment(n)
<1>1. Collects(r, lo, N)
  <2>1. lo \in lo..N /\ "ok" \in States
    <3>1. Len(bytes) \in Nat
      BY DEF IsBytes
    <3> QED
      BY <3>1 DEF States
  <2> HIDE DEF N
  <2> QED
    BY <2>1, FreshCollects
<1> HIDE DEF r
<1>2. Collects(n, lo, N)
  <2> DEFINE ks == <<"s32">>
  <2>1. 1 \in Nat /\ Len(ks) = 1 /\ \A k \in 1..1 : ks[k] \in ImmKinds
    BY DEF ImmKinds, IntKinds
  <2> HIDE DEF ks
  <2>2. Collects(Continue(r, ks, bytes), lo, N)
    BY <1>1, <2>1, ContinueStays
  <2> QED
    BY <2>2 DEF ks
<1> HIDE DEF n
<1>3. \E l \in Nat : Len(kinds) = l /\ \A k \in 1..l : kinds[k] \in ImmKinds
  <2>1. CASE kinds = <<"s64">>
    <3>1. 1 \in Nat /\ Len(<<"s64">>) = 1 /\ \A k \in 1..1 : <<"s64">>[k] \in ImmKinds
      BY DEF ImmKinds, IntKinds
    <3> QED
      BY <2>1, <3>1
  <2>2. CASE kinds = <<"s32", "s64">>
    <3>1. 2 \in Nat /\ Len(<<"s32", "s64">>) = 2 /\ \A k \in 1..2 : <<"s32", "s64">>[k] \in ImmKinds
      BY DEF ImmKinds, IntKinds
    <3> QED
      BY <2>2, <3>1
  <2> QED
    BY <2>1, <2>2, Zenon DEF BehindAlignment
<1> HIDE DEF kinds
<1>4. Collects(Continue(n, kinds, bytes), lo, N)
  BY <1>2, <1>3, ContinueStays
<1> QED
  BY <1>4 DEF ParseMemarg, n, r, kinds

(* The labels of br_table stay in the bytes, however many they claim       *)
(* to be.                                                                  *)
LEMMA LabelsStay ==
  ASSUME NEW bytes, IsBytes(bytes), NEW lo \in 1..(Len(bytes) + 1)
  PROVE  Collects(ParseLabels(bytes, lo), lo, Len(bytes) + 1)
<1> DEFINE N == Len(bytes) + 1
           n == ReadInt("u32", bytes, lo)
           r == Result(n.p, << >>, n.st)
           l == (n.v + 1) % Power(2, W32)
           kinds == Times(l, "u32")
<1>1. Stays(n, lo, N)
  <2> DEFINE L == Len(bytes)
  <2>1. L \in Nat /\ Len(bytes) = L /\ lo \in 1..(L + 1)
    BY DEF IsBytes
  <2> HIDE DEF L
  <2>2. Stays(n, lo, L + 1)
    BY <2>1, ReadIntStays
  <2> QED
    BY <2>2 DEF L
<1>2. n.v \in Nat
  <2>1. "u32" \in IntKinds
    BY DEF IntKinds
  <2> QED
    BY <2>1, ReadIntNumber
<1> HIDE DEF n
<1>3. Collects(r, lo, N)
  <2> HIDE DEF N
  <2>1. n.st \in States /\ n.p \in lo..N
    BY <1>1 DEF Stays
  <2> QED
    BY <2>1, FreshCollects
<1>4. l \in Nat
  <2>1. Power(2, W32) \in Nat \ {0}
    BY PowerPositive, ReadersAssumption
  <2> QED
    BY <1>2, <2>1
<1> HIDE DEF r, l
<1>5. Len(kinds) = l /\ \A k \in 1..l : kinds[k] \in ImmKinds
  BY <1>4 DEF Times, ImmKinds, IntKinds
<1> HIDE DEF kinds
<1>6. Collects(Continue(r, kinds, bytes), lo, N)
  BY <1>3, <1>4, <1>5, ContinueStays
<1> QED
  BY <1>6 DEF ParseLabels, LabelsBehind, n, r, l, kinds

(* The immediates of any opcode stay in the bytes.                         *)
LEMMA ImmediatesStay ==
  ASSUME NEW op, NEW bytes, IsBytes(bytes), NEW lo \in 1..(Len(bytes) + 1)
  PROVE  Collects(ParseImmediates(op, bytes, lo), lo, Len(bytes) + 1)
<1> DEFINE N == Len(bytes) + 1
           kinds == Immediates(op)
<1>0. lo \in lo..N /\ "ok" \in States /\ "aborted" \in States
  <2>1. Len(bytes) \in Nat
    BY DEF IsBytes
  <2> QED
    BY <2>1 DEF States
<1> HIDE DEF Result
<1>1. CASE (op % 256) \in Memargs
  BY <1>1, MemargStays DEF ParseImmediates
<1>2. CASE (op % 256) \notin Memargs /\ op = BrTable
  BY <1>2, LabelsStay DEF ParseImmediates
<1>3. CASE (op % 256) \notin Memargs /\ op # BrTable /\ HasTable(op)
  <2>1. ParseImmediates(op, bytes, lo) = Continue(Result(lo, << >>, "ok"), kinds, bytes)
    BY <1>3, Zenon DEF ParseImmediates
  <2>2. \E l \in Nat : Len(kinds) = l /\ \A k \in 1..l : kinds[k] \in ImmKinds
    <3>1. kinds \in {<< >>, <<"byte">>, <<"s32">>, <<"s64">>, <<"s32", "s32">>, <<"f32">>, <<"f64">>}
      BY <1>3, ImmediatesAre, Zenon DEF HasTable
    <3> HIDE DEF kinds
    <3>2. CASE kinds = << >>
      <4>1. 0 \in Nat /\ Len(<< >>) = 0 /\ \A k \in 1..0 : << >>[k] \in ImmKinds
        OBVIOUS
      <4> QED
        BY <3>2, <4>1
    <3>3. CASE kinds = <<"s32", "s32">>
      <4>1. 2 \in Nat /\ Len(<<"s32", "s32">>) = 2 /\ \A k \in 1..2 : <<"s32", "s32">>[k] \in ImmKinds
        BY DEF ImmKinds, IntKinds
      <4> QED
        BY <3>3, <4>1
    <3>4. CASE \E kind \in ImmKinds : kinds = <<kind>>
      <4>1. \A kind \in ImmKinds : Len(<<kind>>) = 1 /\ \A k \in 1..1 : <<kind>>[k] \in ImmKinds
        OBVIOUS
      <4>2. 1 \in Nat
        OBVIOUS
      <4> QED
        BY <3>4, <4>1, <4>2, Zenon
    <3>5. "byte" \in ImmKinds /\ "s32" \in ImmKinds /\ "s64" \in ImmKinds /\ "f32" \in ImmKinds /\ "f64" \in ImmKinds
      BY DEF ImmKinds, IntKinds
    <3> QED
      BY <3>1, <3>2, <3>3, <3>4, <3>5, Zenon
  <2> HIDE DEF kinds
  <2>3. Collects(Result(lo, << >>, "ok"), lo, N)
    <3> HIDE DEF N
    <3> QED
      BY <1>0, FreshCollects
  <2>4. Collects(Continue(Result(lo, << >>, "ok"), kinds, bytes), lo, N)
    BY <2>2, <2>3, ContinueStays
  <2> QED
    BY <2>1, <2>4
<1>4. CASE (op % 256) \notin Memargs /\ op # BrTable /\ ~HasTable(op)
  <2>1. ParseImmediates(op, bytes, lo) = Result(lo, << >>, "aborted")
    BY <1>4, Zenon DEF ParseImmediates
  <2>2. Collects(Result(lo, << >>, "aborted"), lo, N)
    <3> HIDE DEF N
    <3> QED
      BY <1>0, FreshCollects
  <2> QED
    BY <2>1, <2>2
<1> QED
  BY <1>1, <1>2, <1>3, <1>4

(* An opcode takes one byte at least.                                      *)
LEMMA OpcodeStays ==
  ASSUME NEW bytes, IsBytes(bytes), NEW p \in 1..(Len(bytes) + 1)
  PROVE  /\ Stays(ParseOpcode(bytes, p), p, Len(bytes) + 1)
         /\ ParseOpcode(bytes, p).st = "ok" => ParseOpcode(bytes, p).p > p
<1> DEFINE L == Len(bytes)
           b == ReadByte(bytes, p)
           flag == ReadInt("u32", bytes, b.p)
           o == ParseOpcode(bytes, p)
<1>1. L \in Nat /\ Len(bytes) = L /\ p \in 1..(L + 1) /\ DOMAIN bytes = 1..L
  BY DEF IsBytes
<1> HIDE DEF L
<1>2. Stays(b, p, L + 1) /\ (b.st = "ok" => b.p = p + 1)
  BY <1>1, ReadByteStays
<1> HIDE DEF b
<1>3. o = IF b.st # "ok" \/ b.v # Prefix THEN b
          ELSE IF flag.st # "ok" THEN flag
          ELSE IF flag.v \notin DOMAIN Flagged THEN Result(flag.p, 0, "aborted")
          ELSE Result(flag.p, Flagged[flag.v], "ok")
  BY DEF ParseOpcode, b
<1>4. b.st = "ok" => Stays(flag, p + 1, L + 1)
  <2> SUFFICES ASSUME b.st = "ok" PROVE Stays(flag, p + 1, L + 1)
    OBVIOUS
  <2>1. b.p = p + 1 /\ b.p \in 1..(L + 1)
    BY <1>1, <1>2 DEF Stays
  <2> QED
    BY <1>1, <2>1, ReadIntStays
<1> HIDE DEF flag, o
<1>5. CASE b.st # "ok" \/ b.v # Prefix
  <2>1. o = b
    BY <1>3, <1>5
  <2>2. b.st = "ok" => b.p > p
    BY <1>1, <1>2
  <2> QED
    BY <1>2, <2>1, <2>2 DEF o, L
<1>6. CASE b.st = "ok" /\ b.v = Prefix
  <2>1. o.p = flag.p /\ o.st \in States
    <3>1. flag.st \in States /\ "aborted" \in States /\ "ok" \in States
      BY <1>4, <1>6 DEF Stays, States
    <3> QED
      BY <1>3, <1>6, <3>1 DEF Result
  <2>2. flag.p \in (p + 1)..(L + 1)
    BY <1>4, <1>6 DEF Stays
  <2>3. flag.p \in p..(L + 1) /\ flag.p > p
    BY <1>1, <2>2
  <2> QED
    BY <2>1, <2>3 DEF o, L, Stays
<1> QED
  BY <1>5, <1>6

(* An instruction takes one byte at least.                                 *)
LEMMA InstructionStays ==
  ASSUME NEW bytes, IsBytes(bytes), NEW p \in 1..(Len(bytes) + 1)
  PROVE  /\ Stays(ParseInstruction(bytes, p), p, Len(bytes) + 1)
         /\ ParseInstruction(bytes, p).st = "ok" => ParseInstruction(bytes, p).p > p
<1> DEFINE N == Len(bytes) + 1
           o == ParseOpcode(bytes, p)
           i == ParseImmediates(o.v, bytes, o.p)
           r == ParseInstruction(bytes, p)
<1>1. N \in Nat /\ p \in 1..N
  BY DEF IsBytes
<1>2. Stays(o, p, N) /\ (o.st = "ok" => o.p > p)
  BY OpcodeStays
<1> HIDE DEF o
<1>3. r = IF o.st # "ok" THEN o
          ELSE IF o.v = End THEN Result(o.p, [op |-> End, imms |-> << >>], "ok")
          ELSE Result(i.p, [op |-> o.v, imms |-> i.v], i.st)
  BY DEF ParseInstruction, WithImmediates, o
<1>4. o.p \in 1..N
  <2> HIDE DEF N
  <2> QED
    BY <1>1, <1>2 DEF Stays
<1>5. Stays(i, o.p, N)
  BY <1>4, ImmediatesStay DEF Collects
<1> HIDE DEF i, r, N
<1>6. CASE o.st # "ok"
  BY <1>2, <1>3, <1>6 DEF r, N
<1>7. CASE o.st = "ok" /\ o.v = End
  <2>1. r.p = o.p /\ r.st = "ok"
    BY <1>3, <1>7 DEF Result
  <2> QED
    BY <1>2, <1>7, <2>1 DEF Stays, r, N
<1>8. CASE o.st = "ok" /\ o.v # End
  <2>1. r.p = i.p /\ r.st = i.st
    BY <1>3, <1>8 DEF Result
  <2>2. i.p \in o.p..N /\ i.st \in States /\ o.p \in p..N /\ o.p > p
    BY <1>2, <1>5, <1>8 DEF Stays
  <2>3. i.p \in p..N /\ i.p > p
    BY <1>1, <2>2
  <2> QED
    BY <2>1, <2>2, <2>3 DEF Stays, r, N
<1> QED
  BY <1>6, <1>7, <1>8

-----------------------------------------------------------------------------
(* The pointer stays in the bytes, one instruction after the other.        *)

(* The loop starts at the first byte.                                      *)
LEMMA TypesInit == Init => TypeOK
<1> SUFFICES ASSUME Init PROVE TypeOK
  OBVIOUS
<1>1. s.p = 1 /\ Len(s.v) = 0 /\ s.st = "reading" /\ s.nesting = 0
  BY DEF Init, StartExpr
<1>2. Len(input.bytes) \in Nat
  BY InputsAssumption DEF Init
<1> QED
  BY <1>1, <1>2 DEF TypeOK

(* An element more.                                                        *)
LEMMA AppendLen ==
  ASSUME NEW v, \E T : v \in Seq(T), NEW x
  PROVE  /\ Len(v) \in Nat /\ Len(Append(v, x)) = Len(v) + 1
         /\ Append(v, x)[Len(v) + 1] = x
         /\ \A j \in 1..Len(v) : Append(v, x)[j] = v[j]
<1>1. PICK T : v \in Seq(T)
  OBVIOUS
<1>2. v \in Seq(T \cup {x}) /\ x \in T \cup {x}
  BY <1>1
<1> QED
  BY <1>2

(* The nesting of a balanced list is no negative number.                   *)
LEMMA NestingIsCount ==
  ASSUME NEW v, Len(v) \in Nat,
         \A i \in 0..Len(v) : Count(v, {End}, 1, i) <= Count(v, Openers, 1, i),
         NEW n, n = Count(v, Openers, 1, Len(v)) - Count(v, {End}, 1, Len(v))
  PROVE  n \in Nat
<1> DEFINE a == Count(v, {End}, 1, Len(v))
           b == Count(v, Openers, 1, Len(v))
<1>1. a \in Nat /\ b \in Nat
  BY CountType
<1>2. Len(v) \in 0..Len(v)
  OBVIOUS
<1>3. a <= b /\ n = b - a
  BY <1>2
<1> HIDE DEF a, b
<1> QED
  BY <1>1, <1>3

(* A turn of the loop stays in the bytes and adds no more instructions     *)
(* than the bytes it takes.                                                *)
LEMMA TypesKept ==
  ASSUME Inv, Inv', TypeOK, Iterate
  PROVE  TypeOK'
<1> DEFINE r == ParseInstruction(input.bytes, s.p)
           N == Len(input.bytes) + 1
<1>1. IsBytes(input.bytes) /\ input' = input
  BY DEF Inv, Shape, IsBytes, Iterate
<1>2. N \in Nat /\ s.p \in 1..N /\ Len(s.v) < s.p /\ s.nesting \in Nat /\ s.st = "reading"
  BY <1>1 DEF TypeOK, IsBytes, Iterate
<1>3. Stays(r, s.p, N) /\ (r.st = "ok" => r.p > s.p)
  BY <1>1, <1>2, InstructionStays
<1>4. /\ s = [p |-> s.p, v |-> s.v, st |-> s.st, nesting |-> s.nesting]
      /\ \E T : s.v \in Seq(T)
  BY DEF Inv, Shape
<1>5. s' = IF r.st # "ok" THEN [s EXCEPT !.p = r.p, !.st = r.st]
           ELSE IF EndsExpr(r.v.op, s.nesting) THEN [s EXCEPT !.p = r.p, !.st = "ok"]
           ELSE [s EXCEPT !.p = r.p, !.v = Append(s.v, r.v), !.nesting = NestingAfter(r.v.op, s.nesting)]
  BY DEF Iterate, Turn, Handle
<1> HIDE DEF r, N
<1>6. /\ s'.p = r.p
      /\ s'.v = s.v \/ (r.st = "ok" /\ s'.v = Append(s.v, r.v))
      /\ s'.st \in {r.st, "ok", s.st}
  <2>1. CASE r.st # "ok"
    <3>1. s' = [p |-> r.p, v |-> s.v, st |-> r.st, nesting |-> s.nesting]
      BY <1>4, <1>5, <2>1
    <3> QED
      BY <3>1
  <2>2. CASE r.st = "ok" /\ EndsExpr(r.v.op, s.nesting)
    <3>1. s' = [p |-> r.p, v |-> s.v, st |-> "ok", nesting |-> s.nesting]
      BY <1>4, <1>5, <2>2
    <3> QED
      BY <3>1
  <2>3. CASE r.st = "ok" /\ ~EndsExpr(r.v.op, s.nesting)
    <3>1. s' = [p |-> r.p, v |-> Append(s.v, r.v), st |-> s.st, nesting |-> NestingAfter(r.v.op, s.nesting)]
      BY <1>4, <1>5, <2>3
    <3> QED
      BY <2>3, <3>1
  <2> QED
    BY <2>1, <2>2, <2>3
<1>7. r.p \in s.p..N /\ r.st \in States
  BY <1>3 DEF Stays
<1>8. s'.st \in {"reading", "ok", "aborted", "undefined"}
  BY <1>2, <1>6, <1>7 DEF States
<1>9. s'.p \in 1..N
  BY <1>2, <1>6, <1>7
<1>10. Len(s'.v) < s'.p
  <2>1. Len(s.v) \in Nat /\ Len(Append(s.v, r.v)) = Len(s.v) + 1
    BY <1>4, AppendLen
  <2>2. CASE s'.v = s.v
    BY <1>2, <1>6, <1>7, <2>1, <2>2
  <2>3. CASE r.st = "ok" /\ s'.v = Append(s.v, r.v)
    BY <1>2, <1>3, <1>6, <1>7, <2>1, <2>3
  <2> QED
    BY <1>6, <2>2, <2>3
<1>11. s'.nesting \in Nat
  <2>1. \E T : s'.v \in Seq(T)
    BY DEF Inv, Shape
  <2>2. \A i \in 0..Len(s'.v) : Count(s'.v, {End}, 1, i) <= Count(s'.v, Openers, 1, i)
    BY DEF Inv, ResultIsBalanced
  <2>3. s'.nesting = Count(s'.v, Openers, 1, Len(s'.v)) - Count(s'.v, {End}, 1, Len(s'.v))
    BY DEF Inv, ResultIsBalanced
  <2>4. Len(s'.v) \in Nat
    BY <2>1
  <2> QED
    BY <2>2, <2>3, <2>4, NestingIsCount
<1> QED
  BY <1>1, <1>8, <1>9, <1>10, <1>11 DEF TypeOK, N

-----------------------------------------------------------------------------
(* Bytes that encode an expression.                                        *)

(* The instructions, each in its bytes.                                    *)
Encoded(code) == [j \in 1..Len(code) |-> EncodeInstr(code[j])]

(* Where the instructions start, and the End behind them.                  *)
Walk(code, bytes, pos) ==
  LET n == Len(code)
  IN  /\ pos[1] = 1 /\ pos[n + 2] = Len(Encode(code)) + 1
      /\ \A k \in 1..n : /\ Holds(bytes, pos[k], EncodeInstr(code[k]))
                         /\ pos[k + 1] = pos[k] + Len(EncodeInstr(code[k]))
      /\ Holds(bytes, pos[n + 1], <<End>>) /\ pos[n + 2] = pos[n + 1] + 1

(* An expression is a list of instructions.                                *)
LEMMA ExpressionInstrs ==
  ASSUME NEW code, IsExpression(code)
  PROVE  Len(code) \in Nat /\ DOMAIN code = 1..Len(code) /\ \A j \in 1..Len(code) : IsInstr(code[j])
<1>1. code \in Seq(Range(code)) /\ \A i \in Range(code) : IsInstr(i)
  BY DEF IsExpression
<1>2. \A j \in DOMAIN code : code[j] \in Range(code)
  BY DEF Range
<1> DEFINE R == Range(code)
<1> HIDE DEF R
<1>3. Len(code) \in Nat /\ DOMAIN code = 1..Len(code)
  <2>1. code \in Seq(R)
    BY <1>1 DEF R
  <2> QED
    BY <2>1
<1> QED
  BY <1>1, <1>2, <1>3

(* A prefix of the bytes is held at their start.                           *)
LEMMA PrefixHolds ==
  ASSUME NEW S, NEW x \in Seq(S), NEW bytes \in Seq(S), IsPrefix(x, bytes)
  PROVE  Holds(bytes, 1, x)
<1> DEFINE n == Len(x)
<1>1. n \in Nat /\ Len(bytes) \in Nat /\ n <= Len(bytes) /\ SubSeq(x, 1, n) = SubSeq(bytes, 1, n)
  BY DEF IsPrefix
<1>2. \A j \in 1..n : SubSeq(x, 1, n)[j] = x[j] /\ SubSeq(bytes, 1, n)[j] = bytes[j]
  BY <1>1
<1>3. ASSUME NEW j \in 1..n PROVE bytes[1 + j - 1] = x[j]
  <2>1. 1 + j - 1 = j
    BY <1>1
  <2> QED
    BY <1>1, <1>2, <2>1
<1> QED
  BY <1>1, <1>3 DEF Holds

(* Bytes that start with an encoded expression have such positions.        *)
LEMMA WalkExists ==
  ASSUME NEW code, IsExpression(code), NEW bytes, IsBytes(bytes), IsPrefix(Encode(code), bytes)
  PROVE  \E pos : Walk(code, bytes, pos)
<1> DEFINE n == Len(code)
           xs == Encoded(code)
           e == <<End>>
           ys == Append(xs, e)
           B == 0..255
<1>1. n \in Nat /\ \A j \in 1..n : IsInstr(code[j])
  BY ExpressionInstrs
<1>2. bytes \in Seq(B) /\ e \in Seq(B) /\ Len(e) = 1
  BY DEF IsBytes, End
<1>3. \A j \in 1..n : EncodeInstr(code[j]) \in Seq(B)
  BY <1>1, EncodedInstr DEF IsBytes
<1>4. xs \in Seq(Seq(B)) /\ Len(xs) = n /\ \A j \in 1..n : xs[j] = EncodeInstr(code[j])
  <2> HIDE DEF B, n
  <2>1. xs = [j \in 1..n |-> EncodeInstr(code[j])]
    BY DEF Encoded, n
  <2> QED
    BY <1>1, <1>3, <2>1
<1> HIDE DEF B, xs, e
<1>5. ys \in Seq(Seq(B)) /\ Len(ys) = n + 1 /\ ys[n + 1] = e /\ \A j \in 1..n : ys[j] = EncodeInstr(code[j])
  BY <1>1, <1>2, <1>4
<1>6. Encode(code) = FlattenSeq(xs) \o e
  BY DEF Encode, Encoded, xs, e
<1>7. FlattenSeq(ys) = Encode(code) /\ FlattenSeq(ys) \in Seq(B)
  <2>1. FlattenSeq(Append(xs, e)) = FlattenSeq(xs) \o e
    BY <1>2, <1>4, FlattenAppend
  <2>2. FlattenSeq(ys) = FlattenSeq(xs) \o e
    BY <2>1
  <2> HIDE DEF ys
  <2>3. FlattenSeq(ys) \in Seq(B)
    BY <1>2, <1>5, FlattenAppend
  <2> QED
    BY <1>6, <2>2, <2>3
<1> HIDE DEF ys
<1>8. Holds(bytes, 1, FlattenSeq(ys))
  BY <1>2, <1>7, PrefixHolds
<1>9. PICK pos \in [1..(Len(ys) + 1) -> Nat \ {0}] :
            /\ Starts(ys, 1, pos)
            /\ pos[Len(ys) + 1] = 1 + Len(FlattenSeq(ys))
            /\ \A k \in 1..Len(ys) : Holds(bytes, pos[k], ys[k])
  <2>1. Len(bytes) \in Nat
    BY ByteAt
  <2>2. ys \in Seq(Seq(B))
    BY <1>5
  <2> QED
    BY <1>8, <2>1, <2>2, HoldsParts
<1> HIDE DEF n
<1>10. pos[1] = 1 /\ pos[n + 2] = Len(Encode(code)) + 1
  <2>1. Len(ys) + 1 = n + 2 /\ Len(Encode(code)) \in Nat
    BY <1>1, <1>5, <1>7
  <2>2. 1 + Len(Encode(code)) = Len(Encode(code)) + 1
    BY <2>1
  <2> QED
    BY <1>7, <1>9, <2>1, <2>2 DEF Starts
<1>11. ASSUME NEW k \in 1..n
       PROVE  /\ Holds(bytes, pos[k], EncodeInstr(code[k]))
              /\ pos[k + 1] = pos[k] + Len(EncodeInstr(code[k]))
  <2>1. k \in 1..Len(ys) /\ ys[k] = EncodeInstr(code[k])
    BY <1>1, <1>5
  <2> QED
    BY <1>9, <2>1 DEF Starts
<1>12. Holds(bytes, pos[n + 1], e) /\ pos[n + 2] = pos[n + 1] + 1
  <2>1. n + 1 \in 1..Len(ys) /\ (n + 1) + 1 = n + 2
    BY <1>1, <1>5
  <2>2. Holds(bytes, pos[n + 1], ys[n + 1]) /\ pos[(n + 1) + 1] = pos[n + 1] + Len(ys[n + 1])
    BY <1>9, <2>1 DEF Starts
  <2> QED
    BY <1>2, <1>5, <2>1, <2>2
<1> QED
  BY <1>10, <1>11, <1>12 DEF Walk, n, e

(* The End behind them is read as an End.                                  *)
LEMMA LastRead ==
  ASSUME NEW bytes, IsBytes(bytes), NEW p, Holds(bytes, p, <<End>>)
  PROVE  ParseInstruction(bytes, p) = Result(p + 1, [op |-> End, imms |-> << >>], "ok")
<1> DEFINE i == [op |-> End, imms |-> << >>]
<1>1. IsInstr(i) /\ i.op = End
  BY DEF IsInstr, HasImmediates
<1>2. Operands(i) = << >> /\ Kept(i) = i
  <2> HIDE DEF i
  <2>1. Operands(i) = << >> /\ Kept(i) = [op |-> End, imms |-> << >>]
    BY <1>1, EndOperands
  <2> QED
    BY <2>1 DEF i
<1> HIDE DEF i
<1>3. EncodeOpcode(End) = <<End>>
  <2>1. End \notin FlagOps
    BY SMT DEF End, FlagOps, Prefix, DataDrop, MemCopy, MemFill
  <2>2. {g \in DOMAIN Flagged : Flagged[g] = End} = {}
    BY <2>1, FlagOf
  <2> QED
    BY <2>2, Zenon DEF EncodeOpcode
<1>4. EncodeInstr(i) = <<End>> /\ Len(<<End>>) = 1
  <2>1. EncodeInstr(i) = <<End>> \o << >>
    BY <1>1, <1>2, <1>3 DEF EncodeInstr
  <2>2. <<End>> \o << >> = <<End>>
    OBVIOUS
  <2> QED
    BY <2>1, <2>2
<1> HIDE DEF Result
<1>5. ParseInstruction(bytes, p) = Result(p + Len(EncodeInstr(i)), Kept(i), "ok")
  BY <1>1, <1>4, InstrRead
<1> QED
  BY <1>2, <1>4, <1>5 DEF i

(* The first k instructions read are what is kept of the expression's.     *)
Follows(v, code, k) == \A i \in 1..k : v[i] = Kept(code[i])

(* How far the loop has come in an expression whose instructions start     *)
(* where pos says.                                                         *)
Along(pos) ==
  LET code == input.code
  IN  /\ Len(s.v) <= Len(code)
      /\ \A i \in 1..Len(s.v) : s.v[i] = Kept(code[i])
      /\ \/ s.st = "reading" /\ s.p = pos[Len(s.v) + 1]
         \/ s.st = "ok" /\ Len(s.v) = Len(code) /\ s.p = pos[Len(code) + 2]

(* Somewhere along the expression, if it is one.                           *)
Progress == Encodes => \E pos : Walk(input.code, input.bytes, pos) /\ Along(pos)

(* The immediates of an instruction are a sequence.                        *)
LEMMA ImmediatesList ==
  ASSUME NEW op, NEW imms, HasImmediates(op, imms)
  PROVE  \E n \in Nat : DOMAIN imms = 1..n /\ Len(imms) = n
<1> DEFINE L(x) == \E n \in Nat : DOMAIN x = 1..n /\ Len(x) = n
<1>1. ASSUME NEW n \in Nat, NEW S, NEW f \in [1..n -> S] PROVE L(f)
  BY TupleIs
<1>2. ASSUME NEW S, NEW f \in Seq(S) PROVE L(f)
  <2>1. Len(f) \in Nat /\ DOMAIN f = 1..Len(f)
    OBVIOUS
  <2> QED
    BY <2>1
<1>3. L(<< >>)
  <2>1. << >> \in Seq({})
    OBVIOUS
  <2> HIDE DEF L
  <2> QED
    BY <1>2, <2>1
<1>4. 1 \in Nat /\ 2 \in Nat /\ 3 \in Nat
  OBVIOUS
<1> HIDE DEF L
<1>5. imms = << >> \/ (\E S : imms \in [1..1 -> S]) \/ (\E S : imms \in [1..2 -> S])
      \/ (\E S : imms \in [1..3 -> S]) \/ (\E S : imms \in Seq(S))
  BY ZenonT(40) DEF HasImmediates
<1>6. L(imms)
  BY <1>1, <1>2, <1>3, <1>4, <1>5, Zenon
<1> QED
  BY <1>6 DEF L

(* What is kept of an instruction has its opcode and as many immediates.   *)
LEMMA KeptLength ==
  ASSUME NEW instr, IsInstr(instr)
  PROVE  Kept(instr).op = instr.op /\ Len(Kept(instr).imms) = Len(instr.imms)
<1>1. IsRecord(instr)
  BY DEF IsInstr, IsRecord
<1>2. PICK n \in Nat : DOMAIN instr.imms = 1..n /\ Len(instr.imms) = n
  BY ImmediatesList DEF IsInstr
<1>3. CASE instr.op \in {67, 68}
  BY <1>1, <1>2, <1>3, KeptIs
<1>4. CASE instr.op \notin {67, 68}
  <2> DEFINE f == [j \in 1..n |-> KeptImm(instr.op, FormatKinds(instr)[j], instr.imms[j])]
  <2>1. Kept(instr) = [op |-> instr.op, imms |-> f]
    BY <1>1, <1>2, <1>4, KeptIs
  <2>2. Len(f) = n
    OBVIOUS
  <2> HIDE DEF f
  <2> QED
    BY <1>2, <2>1, <2>2
<1> QED
  BY <1>3, <1>4

(* The instructions read have the opcodes of the expression.               *)
LEMMA KeptCounts ==
  ASSUME NEW code, IsExpression(code), NEW v, NEW k \in Nat, k <= Len(code), Follows(v, code, k), NEW ops
  PROVE  Count(v, ops, 1, k) = Count(code, ops, 1, k)
<1>1. \A i \in 1..k : IsInstr(code[i])
  BY ExpressionInstrs
<1>2. \A i \in 1..k : Kept(code[i]).op = code[i].op
  <2> TAKE i \in 1..k
  <2>1. Kept(code[i]) = [op |-> code[i].op, imms |-> Kept(code[i]).imms]
    BY <1>1, KeptShape
  <2> QED
    BY <2>1
<1>3. \A i \in 1..k : v[i].op = code[i].op
  BY <1>2 DEF Follows
<1> QED
  BY <1>3, CountSame

(* An End before the end of the expression closes an opener; none is open  *)
(* at its end.                                                             *)
LEMMA OpenAt ==
  ASSUME NEW code, IsExpression(code), NEW k \in Nat, k <= Len(code),
         NEW n, n = Count(code, Openers, 1, k) - Count(code, {End}, 1, k)
  PROVE  /\ k = Len(code) => n = 0
         /\ k < Len(code) /\ code[k + 1].op = End => n > 0
<1> DEFINE O(i) == Count(code, Openers, 1, i)
           E(i) == Count(code, {End}, 1, i)
<1>0. Len(code) \in Nat
  BY ExpressionInstrs
<1>1. \A i \in Nat : O(i) \in Nat /\ E(i) \in Nat
  BY CountType
<1>2. (\A i \in 0..Len(code) : E(i) <= O(i)) /\ E(Len(code)) = O(Len(code))
  BY DEF IsExpression
<1>3. CASE k = Len(code)
  BY <1>0, <1>1, <1>2, <1>3
<1>4. CASE k < Len(code) /\ code[k + 1].op = End
  <2>1. 1 \in Int /\ k \in Int /\ 1 <= k + 1
    OBVIOUS
  <2>2. E(k + 1) = E(k) + 1
    <3>1. End \in {End}
      OBVIOUS
    <3> QED
      BY <1>4, <2>1, <3>1, CountAbove
  <2>3. O(k + 1) = O(k)
    <3>1. End \notin Openers
      BY DEF End, Openers
    <3> QED
      BY <1>4, <2>1, <3>1, CountAbove
  <2>4. E(k + 1) <= O(k + 1) /\ O(k) \in Nat /\ E(k) \in Nat
    <3>1. k + 1 \in 0..Len(code) /\ k + 1 \in Nat
      BY <1>0, <1>4
    <3> QED
      BY <1>1, <1>2, <3>1
  <2>5. n = O(k) - E(k)
    OBVIOUS
  <2> HIDE DEF O, E
  <2> QED
    BY <1>4, <2>2, <2>3, <2>4, <2>5
<1>5. k < Len(code) \/ k = Len(code)
  BY <1>0
<1> HIDE DEF O, E
<1> QED
  BY <1>0, <1>3, <1>4, <1>5

(* A turn of the loop takes one instruction, or the End behind them all.   *)
LEMMA AlongKept ==
  ASSUME Inv, Iterate, IsExpression(input.code), NEW pos,
         Walk(input.code, input.bytes, pos), Along(pos)
  PROVE  Along(pos)'
<1> DEFINE code == input.code
           bytes == input.bytes
           n == Len(code)
           k == Len(s.v)
           r == ParseInstruction(bytes, s.p)
<1>1. input' = input /\ s.st = "reading" /\ IsBytes(bytes)
  BY DEF Iterate, Inv, Shape, IsBytes
<1>2. k \in Nat /\ k <= n /\ n \in Nat /\ s.p = pos[k + 1] /\ \A i \in 1..k : s.v[i] = Kept(code[i])
  BY <1>1, ExpressionInstrs DEF Along, Inv, Shape
<1>3. /\ s = [p |-> s.p, v |-> s.v, st |-> s.st, nesting |-> s.nesting]
      /\ \E T : s.v \in Seq(T)
  BY DEF Inv, Shape
<1>4. s' = IF r.st # "ok" THEN [s EXCEPT !.p = r.p, !.st = r.st]
           ELSE IF EndsExpr(r.v.op, s.nesting) THEN [s EXCEPT !.p = r.p, !.st = "ok"]
           ELSE [s EXCEPT !.p = r.p, !.v = Append(s.v, r.v), !.nesting = NestingAfter(r.v.op, s.nesting)]
  BY DEF Iterate, Turn, Handle
<1>5. s.nesting = Count(code, Openers, 1, k) - Count(code, {End}, 1, k)
  <2>1. s.nesting = Count(s.v, Openers, 1, k) - Count(s.v, {End}, 1, k)
    BY DEF Inv, ResultIsBalanced
  <2> DEFINE v == s.v
  <2>2. \A ops : Count(v, ops, 1, k) = Count(code, ops, 1, k)
    <3> TAKE ops
    <3>1. Follows(v, code, k)
      BY <1>2 DEF Follows
    <3>2. IsExpression(code)
      OBVIOUS
    <3>3. k \in Nat
      BY <1>2
    <3>4. k <= Len(code)
      BY <1>2
    <3> HIDE DEF v, k, code
    <3> QED
      BY <3>1, <3>2, <3>3, <3>4, KeptCounts
  <2> QED
    BY <2>1, <2>2
<1>6. CASE k < n
  <2> DEFINE c == code[k + 1]
  <2>1. k + 1 \in 1..n /\ IsInstr(c) /\ (k + 1) + 1 = k + 2
    <3>1. k + 1 \in 1..n /\ (k + 1) + 1 = k + 2
      BY <1>2, <1>6
    <3> QED
      BY <3>1, ExpressionInstrs
  <2>2. Holds(bytes, s.p, EncodeInstr(c)) /\ pos[k + 2] = s.p + Len(EncodeInstr(c))
    BY <1>2, <2>1 DEF Walk
  <2>3. r = Result(pos[k + 2], Kept(c), "ok")
    <3> HIDE DEF Result, c, bytes
    <3> QED
      BY <1>1, <2>1, <2>2, InstrRead
  <2>4. r.p = pos[k + 2] /\ r.v = Kept(c) /\ r.st = "ok"
    BY <2>3 DEF Result
  <2>5. r.v.op = c.op
    <3>1. Kept(c) = [op |-> c.op, imms |-> Kept(c).imms]
      BY <2>1, KeptShape
    <3> HIDE DEF r, c
    <3> QED
      BY <2>4, <3>1
  <2>6. ~EndsExpr(r.v.op, s.nesting)
    <3>1. c.op = End => s.nesting > 0
      BY <1>2, <1>5, <1>6, OpenAt
    <3>2. s.nesting \in Int
      <4>1. \A ops : Count(code, ops, 1, k) \in Nat
        BY <1>2, CountType
      <4> QED
        BY <1>5, <4>1
    <3> HIDE DEF r, c
    <3> QED
      BY <2>5, <3>1, <3>2 DEF EndsExpr
  <2> HIDE DEF r, c, n, code, bytes
  <2>7. s' = [p |-> r.p, v |-> Append(s.v, r.v), st |-> s.st, nesting |-> NestingAfter(r.v.op, s.nesting)]
    BY <1>3, <1>4, <2>4, <2>6
  <2>8. s'.p = pos[k + 2] /\ s'.v = Append(s.v, Kept(c)) /\ s'.st = "reading"
    BY <1>1, <2>4, <2>7
  <2>9. Len(s'.v) = k + 1 /\ s'.v[k + 1] = Kept(c) /\ \A i \in 1..k : s'.v[i] = s.v[i]
    BY <1>3, <2>8, AppendLen
  <2>10. \A i \in 1..(k + 1) : s'.v[i] = Kept(code[i])
    <3> TAKE i \in 1..(k + 1)
    <3>1. i \in 1..k \/ i = k + 1
      BY <1>2
    <3> QED
      BY <1>2, <2>9, <3>1 DEF c
  <2>11. Len(s'.v) <= n /\ s'.p = pos[Len(s'.v) + 1]
    BY <1>2, <1>6, <2>1, <2>8, <2>9
  <2> QED
    BY <1>1, <2>8, <2>9, <2>10, <2>11 DEF Along, code, n
<1>7. CASE k = n
  <2>1. Holds(bytes, s.p, <<End>>) /\ pos[n + 2] = s.p + 1
    BY <1>2, <1>7 DEF Walk
  <2>2. r = Result(pos[n + 2], [op |-> End, imms |-> << >>], "ok")
    <3> HIDE DEF Result, bytes
    <3> QED
      BY <1>1, <2>1, LastRead
  <2>3. r.p = pos[n + 2] /\ r.v.op = End /\ r.st = "ok"
    BY <2>2 DEF Result
  <2>4. EndsExpr(r.v.op, s.nesting)
    <3>1. s.nesting = 0
      BY <1>2, <1>5, <1>7, OpenAt
    <3> HIDE DEF r
    <3> QED
      BY <2>3, <3>1 DEF EndsExpr
  <2> HIDE DEF r, n, code, bytes
  <2>5. s' = [p |-> r.p, v |-> s.v, st |-> "ok", nesting |-> s.nesting]
    BY <1>3, <1>4, <2>3, <2>4
  <2>6. s'.p = pos[n + 2] /\ s'.v = s.v /\ s'.st = "ok"
    BY <2>3, <2>5
  <2> QED
    BY <1>1, <1>2, <1>7, <2>6 DEF Along, code, n
<1>8. k < n \/ k = n
  BY <1>2
<1> QED
  BY <1>6, <1>7, <1>8

-----------------------------------------------------------------------------
(* The loop keeps its types and keeps in step with the expression.         *)

(* The inductive invariant.                                                *)
IInv == input \in Inputs /\ Inv /\ TypeOK /\ Progress

(* It holds at the start.                                                  *)
LEMMA ProgressInit == Init => IInv
<1> SUFFICES ASSUME Init PROVE Progress
  BY InitBalanced, TypesInit DEF IInv, Init
<1>1. IsExpression(input.code) /\ IsBytes(input.bytes)
  BY InputsAssumption DEF Init, IsBytes
<1>2. s.p = 1 /\ Len(s.v) = 0 /\ s.st = "reading"
  BY DEF Init, StartExpr
<1>3. ASSUME NEW pos, Walk(input.code, input.bytes, pos) PROVE Along(pos)
  <2>1. pos[1] = 1 /\ Len(input.code) \in Nat
    BY <1>1, <1>3, ExpressionInstrs DEF Walk
  <2>2. 0 + 1 = 1 /\ 1..0 = {} /\ 0 <= Len(input.code)
    BY <2>1
  <2> QED
    BY <1>2, <2>1, <2>2 DEF Along
<1> QED
  BY <1>1, <1>3, WalkExists DEF Progress, Encodes

(* It is kept by every turn.                                               *)
LEMMA ProgressKept == IInv /\ [Next]_vars => IInv'
<1> SUFFICES ASSUME IInv, [Next]_vars PROVE IInv'
  OBVIOUS
<1>1. CASE UNCHANGED vars
  BY <1>1 DEF vars, IInv, Inv, Shape, ResultIsBalanced, TypeOK, Progress, Encodes, Along
<1>2. CASE Iterate
  <2>1. input' = input /\ input \in Inputs /\ Inv /\ TypeOK /\ Progress
    BY <1>2 DEF Iterate, IInv
  <2>2. Inv'
    BY <1>2, <2>1, InvKept DEF Next
  <2>3. TypeOK'
    BY <1>2, <2>1, <2>2, TypesKept
  <2>4. Progress'
    <3> SUFFICES ASSUME Encodes PROVE \E pos : Walk(input.code, input.bytes, pos) /\ Along(pos)'
      BY <2>1 DEF Progress, Encodes
    <3>1. PICK pos : Walk(input.code, input.bytes, pos) /\ Along(pos)
      BY <2>1 DEF Progress
    <3>2. IsExpression(input.code)
      BY <2>1, InputsAssumption
    <3>3. Along(pos)'
      BY <1>2, <2>1, <3>1, <3>2, AlongKept
    <3> QED
      BY <3>1, <3>3
  <2> QED
    BY <2>1, <2>2, <2>3, <2>4 DEF IInv
<1> QED
  BY <1>1, <1>2 DEF Next

(* What the invariant says when the loop has ended.                        *)
LEMMA ProgressMeans ==
  ASSUME IInv
  PROVE  ReadInv /\ DecodesImmediates
<1>1. IsExpression(input.code) /\ \E T : s.v \in Seq(T)
  BY InputsAssumption DEF IInv, Inv, Shape
<1> DEFINE code == input.code
<1>2. Len(code) \in Nat /\ DOMAIN code = 1..Len(code) /\ \A i \in 1..Len(code) : IsInstr(code[i])
  BY <1>1, ExpressionInstrs
<1>3. DOMAIN s.v = 1..Len(s.v) /\ Len(s.v) \in Nat /\ s.v = [i \in 1..Len(s.v) |-> s.v[i]]
  BY <1>1
<1>4. ASSUME Encodes
      PROVE  /\ s.st \in {"reading", "ok"}
             /\ s.st = "ok" => /\ s.p = Len(Encode(code)) + 1
                               /\ Len(s.v) = Len(code)
                               /\ \A i \in 1..Len(code) : s.v[i] = Kept(code[i])
  <2>1. PICK pos : Walk(code, input.bytes, pos) /\ Along(pos)
    BY <1>4 DEF IInv, Progress
  <2>2. pos[Len(code) + 2] = Len(Encode(code)) + 1
    BY <2>1 DEF Walk
  <2> QED
    BY <2>1, <2>2 DEF Along
<1>5. \A i \in 1..Len(code) : /\ Kept(code[i]).op = code[i].op
                              /\ Len(Kept(code[i]).imms) = Len(code[i].imms)
  BY <1>2, KeptLength
<1>6. EndsWithItsExpression
  BY <1>3, <1>4, <1>5 DEF EndsWithItsExpression
<1>7. DecodesImmediates
  <2> SUFFICES ASSUME Encodes, s.st = "ok" PROVE s.v = [i \in DOMAIN code |-> Kept(code[i])]
    BY DEF DecodesImmediates
  <2>1. Len(s.v) = Len(code) /\ \A i \in 1..Len(code) : s.v[i] = Kept(code[i])
    BY <1>4
  <2>2. s.v = [i \in 1..Len(code) |-> s.v[i]]
    BY <1>3, <2>1
  <2> QED
    BY <1>2, <2>1, <2>2
<1> QED
  BY <1>6, <1>7 DEF IInv, ReadInv

(* Whatever bytes follow an expression, read_expr stops at the End that    *)
(* closes it, with its opcodes, each with its number of immediates; and    *)
(* whatever the bytes are, the pointer stays in them.                      *)
THEOREM ReadsItsExpression == Spec => []ReadInv
BY ProgressInit, ProgressKept, ProgressMeans, PTL DEF Spec

(* The immediates of an expression that is read are the encoded ones, but  *)
(* for the indices from 64 on, which come out as if they were signed.      *)
THEOREM ImmediatesAreDecoded == Spec => []DecodesImmediates
BY ProgressInit, ProgressKept, ProgressMeans, PTL DEF Spec
=============================================================================
