----------------------------- MODULE Instructions -----------------------------
(***************************************************************************)
(* Flat instruction lists, the form in which winterp keeps every           *)
(* expression (include/instructions.hpp: struct Instr, OpCode), and the    *)
(* jump targets that the two navigation functions of src/runtime.cpp,      *)
(* skip_control_block and branch_block, compute on them.                   *)
(*                                                                         *)
(* An instruction is a record [op, imms].  The program counter of the      *)
(* model is the C++ pc plus one, because sequences start at 1.             *)
(* Only the opcodes some model tells apart are listed: "Nop" stands for    *)
(* itself or, where only control flow matters, for every instruction after *)
(* which the pc just moves on; an opcode of DataOps stands for the ones    *)
(* that take and give operands of the same types.                          *)
(*                                                                         *)
(* The second half defines what the same jumps mean in structured code,    *)
(* independently of the counters the two functions keep.                   *)
(***************************************************************************)
EXTENDS Integers, Sequences, FiniteSets, FiniteSetsExt

BlockOps  == {"Block", "Loop", "If"}     \* opcodes 0x02 .. 0x04
LabelOps  == {"Block", "Loop"}           \* opcodes branch_block counts
BranchOps == {"Br", "BrIf", "BrTable"}

DataOps   == {"I32Const", "F64Const", "I32Add", "F64Eq", "F64Convert", "I32Reinterp",
              "I32Load", "F64Store", "MemoryFill"}
PlainOps  == DataOps \cup {"Nop", "Drop", "Select", "LocalGet", "LocalSet", "LocalTee",
                           "GlobalGet", "GlobalSet", "Call", "CallIndirect"}

OpCode == BlockOps \cup BranchOps \cup PlainOps
            \cup {"Unreachable", "Else", "End", "Return"}

Instr == [op : OpCode, imms : Seq(Nat)]

(* Instructions of c at the positions a..b whose opcode is in ops.         *)
OpsAt(c, ops, a, b) == {i \in a..b : c[i].op \in ops}
Count(c, ops, a, b) == Cardinality(OpsAt(c, ops, a, b))

-----------------------------------------------------------------------------
(* What the code computes.                                                 *)

(* Mistakes for the mutation runs: the skip does not look for an Else; the *)
(* nesting has to be exactly one below the opener's.                       *)
SkipStopsAtEndOnly(c, p) ==
  {q \in (p + 1)..Len(c) :
     /\ c[q].op = "End"
     /\ Count(c, BlockOps, p + 1, q - 1)
          <= Count(c, {"Else", "End"}, p + 1, q - 1)}
SkipStopsTooDeep(c, p) ==
  {q \in (p + 1)..Len(c) :
     /\ c[q].op \in {"Else", "End"}
     /\ Count(c, BlockOps, p + 1, q - 1)
          < Count(c, {"Else", "End"}, p + 1, q - 1)}

(* skip_control_block, called with pc on position p, stops on the first    *)
(* Else or End at which conditional_nesting is 0.  The counter goes up on  *)
(* 0x02..0x04 and down on every Else and every End it passes.              *)
SkipStops(c, p) ==
  {q \in (p + 1)..Len(c) :
     /\ c[q].op \in {"Else", "End"}
     /\ Count(c, BlockOps, p + 1, q - 1)
          <= Count(c, {"Else", "End"}, p + 1, q - 1)}

SkipDefined(c, p) == SkipStops(c, p) # {}

\* Mistake: the caller's pc++ is not left out.
SkipTargetAndStep(c, p) == Min(SkipStops(c, p)) + 2

SkipTarget(c, p) == Min(SkipStops(c, p)) + 1

(* Mistake: a Block or Loop that is already closed counts as a label.      *)
EveryLabelCounted(c, p) == OpsAt(c, LabelOps, 1, p)

(* branch_block walks up from the branch at p.  Each End it meets cancels  *)
(* one Block or Loop above it; a Block or Loop that no End cancels counts  *)
(* as one label.  An If cancels nothing and counts for nothing.            *)
CountedLabels(c, p) ==
  {q \in OpsAt(c, LabelOps, 1, p) :
     \A r \in q..p :
       Count(c, {"End"}, q + 1, r) <= Count(c, LabelOps, q + 1, r)}

(* The opener at which the walk for label k stops: the (k+1)-th counted.   *)
BranchOpeners(c, p, k) ==
  {q \in CountedLabels(c, p) :
     Cardinality(CountedLabels(c, p) \cap (q..p)) = k + 1}

BranchOpener(c, p, k) == CHOOSE q \in BranchOpeners(c, p, k) : TRUE

(* FALSE when the walk leaves the instruction list, where the code reads   *)
(* outside the vector.                                                     *)
BranchDefined(c, p, k) ==
  \E q \in BranchOpeners(c, p, k) : c[q].op = "Loop" \/ SkipDefined(c, q)

\* Mistake: a Block is restarted like a Loop.
BranchTargetRestarts(c, p, k) == BranchOpener(c, p, k) + 1

BranchTarget(c, p, k) ==
  LET q == BranchOpener(c, p, k)
  IN  IF c[q].op = "Loop" THEN q + 1 ELSE SkipTarget(c, q)

-----------------------------------------------------------------------------
(* What the jumps mean in structured code.                                 *)

(* The Else or End that belongs to the construct opened at p (a Block,     *)
(* Loop, If or Else): the first one with as many constructs opened as      *)
(* closed in between.                                                      *)
Closers(c, p) ==
  {q \in (p + 1)..Len(c) :
     /\ c[q].op \in {"Else", "End"}
     /\ Count(c, BlockOps, p + 1, q - 1) <= Count(c, {"End"}, p + 1, q - 1)}
CloserOf(c, p) == Min(Closers(c, p))

(* The lists that function bodies of valid modules decode to: every        *)
(* construct is closed, and every Else belongs to an If of its own.        *)
WellNested(c) ==
  /\ Count(c, BlockOps, 1, Len(c)) = Count(c, {"End"}, 1, Len(c))
  /\ \A i \in 1..Len(c) : Count(c, {"End"}, 1, i) <= Count(c, BlockOps, 1, i)
  /\ \A e \in OpsAt(c, {"Else"}, 1, Len(c)) :
       \E p \in OpsAt(c, {"If"}, 1, e) : CloserOf(c, p) = e

(* ... and every branch comes with a label: br and br_if with one, br_table *)
(* at least with its default (parse_instruction reads them so).            *)
WellFormedBody(c) ==
  /\ WellNested(c)
  /\ \A p \in 1..Len(c) : c[p].op \in BranchOps => c[p].imms # <<>>

(* The End of the construct opened at p, past its Else if it has one.      *)
EndOf(c, p) ==
  LET q == CloserOf(c, p)
  IN  IF c[q].op = "Else" THEN CloserOf(c, q) ELSE q

(* The openers of the constructs position p lies in.                       *)
Enclosing(c, p) == {q \in OpsAt(c, BlockOps, 1, p - 1) : p <= EndOf(c, q)}

(* Nested constructs as a stack, innermost last: the openers in S in       *)
(* ascending order, so that the one with k above it is k-th from the end.  *)
StackOf(S) ==
  [j \in 1..Cardinality(S) |->
     CHOOSE q \in S : Cardinality({r \in S : r > q}) = Cardinality(S) - j]

(* The construct that label k denotes at p, counted from the inside.       *)
LabelOpener(c, p, k) ==
  CHOOSE q \in Enclosing(c, p) :
    Cardinality({r \in Enclosing(c, p) : r > q}) = k

(* A label denotes the first instruction of a loop and the position after  *)
(* the End of a block or if; the outermost one is the function's end.      *)
LabelTarget(c, p, k) ==
  IF k >= Cardinality(Enclosing(c, p)) THEN Len(c) + 1
  ELSE LET q == LabelOpener(c, p, k)
       IN  IF c[q].op = "Loop" THEN q + 1 ELSE EndOf(c, q) + 1

(* A label of valid code names an enclosing construct, or the function     *)
(* body itself.                                                            *)
LabelsValid(c) ==
  \A p \in 1..Len(c) :
    c[p].op \in BranchOps =>
      \A j \in DOMAIN c[p].imms : c[p].imms[j] <= Cardinality(Enclosing(c, p))

-----------------------------------------------------------------------------
(* The jumps on which the code's counters agree with the structure.        *)

(* No Else of a nested if lies between p and the place to skip to.         *)
CleanSkip(c, p) == OpsAt(c, {"Else"}, p + 1, CloserOf(c, p) - 1) = {}

(* No If lies between the branch and the Block or Loop it names, and the   *)
(* skip that leaves a Block is clean.                                      *)
CleanBranch(c, p, k) ==
  /\ k < Cardinality(Enclosing(c, p))
  /\ LET q == LabelOpener(c, p, k)
     IN  /\ OpsAt(c, {"If"}, q, p) = {}
         /\ c[q].op = "Block" => CleanSkip(c, q)

Benign(c) ==
  \A p \in 1..Len(c) :
    /\ c[p].op \in {"If", "Else"} => CleanSkip(c, p)
    /\ c[p].op \in BranchOps =>
         \A j \in DOMAIN c[p].imms : CleanBranch(c, p, c[p].imms[j])
=============================================================================
