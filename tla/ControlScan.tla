------------------------------ MODULE ControlScan ------------------------------
(***************************************************************************)
(* The scan loops of Runtime::branch_block and                             *)
(* Runtime::skip_control_block (src/runtime.cpp), one loop iteration per   *)
(* step.  winterp keeps no label stack: every taken branch and every       *)
(* skipped arm searches the flat instruction list with a nesting counter.  *)
(*                                                                         *)
(* A behavior is one call: skip_control_block called on the If or Else at  *)
(* position start, or branch_block called at the branch at position start  *)
(* for label want.  The specification asks whether the counters find the   *)
(* position that the closed forms of module Instructions give, and whether *)
(* that is the position structured code means.                             *)
(***************************************************************************)
EXTENDS Instructions

CONSTANT Codes      \* the instruction lists the scans may run on
ASSUME CodesAssumption == Codes \subseteq Seq(Instr)

VARIABLES
  code,      \* the parameter "block"
  start,     \* pc when the call was made
  want,      \* the label branch_block was called with (0 for a skip)
  pc,        \* the reference parameter pc, plus one
  nesting,   \* conditional_nesting of the loop that is running
  label,     \* the local "label" of branch_block
  phase      \* loop that is running, or how the call ended

vars == <<code, start, want, pc, nesting, label, phase>>
input == <<code, start, want>>

Skipping  == "skip"   \* the while loop of skip_control_block
Walking   == "walk"   \* the while loop of branch_block
Landed    == "landed" \* returned; pc is the next instruction to execute
Outside   == "outside" \* block[pc] with pc outside the vector

InCode == pc \in DOMAIN code
Op == code[pc].op

TypeOK ==
  /\ code \in Seq(Instr)
  /\ start \in DOMAIN code
  /\ want \in Nat
  /\ pc \in 0..(Len(code) + 1)
  /\ nesting \in Int
  /\ label \in Nat
  /\ phase \in {Skipping, Walking, Landed, Outside}

-----------------------------------------------------------------------------
(* execute_block calls skip_control_block on an Else and on an If whose    *)
(* condition is 0; it calls branch_block from the three branches.          *)
CallSkip ==
  /\ code[start].op \in {"If", "Else"}
  /\ want = 0 /\ label = 0
  /\ pc = start + 1
  /\ phase = Skipping

CallBranch ==
  /\ code[start].op \in BranchOps
  /\ \E j \in DOMAIN code[start].imms : want = code[start].imms[j]
  /\ label = want + 1
  /\ pc = start
  /\ phase = Walking

Init ==
  /\ code \in Codes
  /\ start \in DOMAIN code
  /\ nesting = 0
  /\ CallSkip \/ CallBranch

-----------------------------------------------------------------------------
(* branch_block: one iteration walks one instruction up, unless the last   *)
(* label has just been counted.                                            *)

CountLabel ==
  /\ phase = Walking /\ label > 0 /\ InCode
  /\ Op \in LabelOps /\ nesting = 0
  /\ label' = label - 1
  /\ pc' = IF label' > 0 THEN pc - 1 ELSE pc
  /\ UNCHANGED <<input, nesting, phase>>

\* Mistake: a closed construct is passed without lowering the nesting.
CancelNothing ==
  /\ phase = Walking /\ label > 0 /\ InCode
  /\ Op \in LabelOps /\ nesting # 0
  /\ pc' = pc - 1
  /\ UNCHANGED <<input, nesting, label, phase>>

CancelLabel ==
  /\ phase = Walking /\ label > 0 /\ InCode
  /\ Op \in LabelOps /\ nesting # 0
  /\ nesting' = nesting - 1
  /\ pc' = pc - 1
  /\ UNCHANGED <<input, label, phase>>

WalkPast ==
  /\ phase = Walking /\ label > 0 /\ InCode
  /\ Op \notin LabelOps
  /\ nesting' = IF Op = "End" THEN nesting + 1 ELSE nesting
  /\ pc' = pc - 1
  /\ UNCHANGED <<input, label, phase>>

(* label has reached 0 on a Loop: continue behind it.                      *)
LandInLoop ==
  /\ phase = Walking /\ label = 0
  /\ Op = "Loop"
  /\ pc' = pc + 1
  /\ phase' = Landed
  /\ UNCHANGED <<input, nesting, label>>

(* label has reached 0 on a Block: skip_control_block leaves it.           *)
LeaveBlock ==
  /\ phase = Walking /\ label = 0
  /\ Op = "Block"
  /\ pc' = pc + 1
  /\ nesting' = 0
  /\ phase' = Skipping
  /\ UNCHANGED <<input, label>>

-----------------------------------------------------------------------------
(* skip_control_block: one iteration, and the exit of the loop.            *)

\* Mistake: nested Elses and Ends stop the skip.
AtStopAnyDepth == Op \in {"Else", "End"}

AtStop == Op \in {"Else", "End"} /\ nesting <= 0

\* Mistake: pc advances only over the instructions that change nesting.
SkipPastStuck ==
  /\ phase = Skipping /\ InCode /\ ~AtStop
  /\ Op \in BlockOps \cup {"Else", "End"}
  /\ nesting' = IF Op \in BlockOps THEN nesting + 1 ELSE nesting - 1
  /\ pc' = pc + 1
  /\ UNCHANGED <<input, label, phase>>

SkipPast ==
  /\ phase = Skipping /\ InCode /\ ~AtStop
  /\ nesting' = IF Op \in BlockOps THEN nesting + 1
                ELSE IF Op \in {"Else", "End"} THEN nesting - 1
                ELSE nesting
  /\ pc' = pc + 1
  /\ UNCHANGED <<input, label, phase>>

SkipStop ==
  /\ phase = Skipping /\ InCode /\ AtStop
  /\ pc' = pc + 1
  /\ phase' = Landed
  /\ UNCHANGED <<input, nesting, label>>

(* Neither loop tests pc: beyond either end of the vector the code reads   *)
(* memory that holds no instruction, and anything may follow.              *)
LeaveCode ==
  /\ phase \in {Skipping, Walking} /\ ~InCode
  /\ phase' = Outside
  /\ UNCHANGED <<input, pc, nesting, label>>

Next ==
  \/ CountLabel \/ CancelLabel \/ WalkPast \/ LandInLoop \/ LeaveBlock
  \/ SkipPast \/ SkipStop \/ LeaveCode

(* The loops are sequential code: an iteration that can run, runs.         *)
Spec == Init /\ [][Next]_vars /\ WF_vars(Next)

-----------------------------------------------------------------------------
IsBranch == code[start].op \in BranchOps

(* The counters compute the closed forms: a call returns exactly when the  *)
(* closed form is defined, with pc on the position it gives.  The module   *)
(* ControlFlow uses the closed forms in place of the loops.                *)
ComputesClosedForm ==
  /\ phase = Landed =>
       IF IsBranch
       THEN BranchDefined(code, start, want) /\ pc = BranchTarget(code, start, want)
       ELSE SkipDefined(code, start) /\ pc = SkipTarget(code, start)
  /\ phase = Outside =>
       IF IsBranch THEN ~BranchDefined(code, start, want)
       ELSE ~SkipDefined(code, start)

(* On well-nested code, a call on which no if gets in the counters' way    *)
(* stays inside the list and lands where structured code lands: "ignoring  *)
(* newly nested ends" (include/runtime.hpp:59-60).                         *)
CleanScansAreStructured ==
  /\ WellNested(code) /\ IsBranch /\ CleanBranch(code, start, want) =>
       /\ phase # Outside
       /\ phase = Landed => pc = LabelTarget(code, start, want)
  /\ WellNested(code) /\ ~IsBranch /\ CleanSkip(code, start) =>
       /\ phase # Outside
       /\ phase = Landed => pc = CloserOf(code, start) + 1

(* Even where the counters are misled by an if they err in one direction   *)
(* only: a skip never passes the End of the construct it leaves, and a     *)
(* branch never stops the upward walk at a construct the branch is not in. *)
NeverOvershoots ==
  WellNested(code) /\ phase = Landed =>
    IF IsBranch
    THEN \E q \in Enclosing(code, start) :
           q < pc /\ pc <= IF code[q].op = "Loop" THEN q + 1 ELSE EndOf(code, q) + 1
    ELSE pc <= CloserOf(code, start) + 1

(* Where scans land, with or without an if in the way.                     *)
LandsAsStructured == CleanScansAreStructured /\ NeverOvershoots

(* Neither loop runs forever.                                              *)
ScanEnds == <>(phase \in {Landed, Outside})

-----------------------------------------------------------------------------
(* Why the counters are right: the invariants of the two loops.            *)

(* Ends minus labels between position i and r, both sides of the count     *)
(* that the walk has seen when it is about to look at i.                   *)
Excess(i, r) == Count(code, {"End"}, i + 1, r) - Count(code, LabelOps, i + 1, r)

CountedFrom(i) == Cardinality(CountedLabels(code, start) \cap (i..start))

(* nesting is the largest excess behind pc, and label is what remains of   *)
(* want + 1 after the labels counted behind pc.                            *)
WalkInv ==
  phase = Walking =>
    /\ IsBranch
    /\ pc \in 0..start
    /\ nesting \in Nat
    /\ label > 0 =>
         /\ \A r \in pc..start : Excess(pc, r) <= nesting
         /\ \E r \in pc..start : Excess(pc, r) = nesting
         /\ label + CountedFrom(pc + 1) = want + 1
    /\ label = 0 => pc \in BranchOpeners(code, start, want)

(* The instruction a skip started from: the If or Else of the call, or the *)
(* Block that the walk has found.                                          *)
SkipsFrom(o) ==
  IF IsBranch THEN o \in BranchOpeners(code, start, want) /\ code[o].op = "Block"
  ELSE o = start

(* nesting is the balance of openers over Elses and Ends since then, and   *)
(* no position passed was one to stop at.                                  *)
SkipInv ==
  phase = Skipping =>
    \E o \in DOMAIN code :
      /\ SkipsFrom(o)
      /\ pc \in (o + 1)..(Len(code) + 1)
      /\ nesting = Count(code, BlockOps, o + 1, pc - 1)
                     - Count(code, {"Else", "End"}, o + 1, pc - 1)
      /\ \A r \in SkipStops(code, o) : pc <= r

(* The inductive invariant of the scans (proved in ControlScanProofs).     *)
ScanInv == TypeOK /\ WalkInv /\ SkipInv /\ ComputesClosedForm
=============================================================================
