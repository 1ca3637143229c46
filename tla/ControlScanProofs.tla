--------------------------- MODULE ControlScanProofs ---------------------------
(***************************************************************************)
(* The scan loops of skip_control_block and branch_block compute the       *)
(* closed forms of module Instructions, on every instruction list.         *)
(*                                                                         *)
(* ScanInv is inductive: the walk keeps nesting equal to the largest       *)
(* excess of Ends over labels behind it, the skip keeps nesting equal to   *)
(* a balance and passes no position to stop at.                            *)
(***************************************************************************)
EXTENDS ControlScan, InstructionTheorems

-----------------------------------------------------------------------------
(* How the excess of Ends over labels changes.                             *)

(* An excess is an integer, and 0 on the empty range.                      *)
LEMMA ExcessType ==
  ASSUME NEW i \in Int, NEW r \in Int
  PROVE  Excess(i, r) \in Int /\ (r = i => Excess(i, r) = 0)
<1>1. /\ Count(code, {"End"}, i + 1, r) \in Nat
      /\ Count(code, LabelOps, i + 1, r) \in Nat
  BY CountType, i + 1 \in Int
<1>2. r = i => /\ Count(code, {"End"}, i + 1, r) = 0
               /\ Count(code, LabelOps, i + 1, r) = 0
  BY CountEmpty, i + 1 \in Int, i < i + 1
<1> QED
  BY <1>1, <1>2 DEF Excess

(* Looking at one instruction more changes every excess by what that       *)
(* instruction is.                                                         *)
LEMMA ExcessStep ==
  ASSUME NEW i \in Int, NEW r \in Int, i <= r
  PROVE  Excess(i - 1, r) =
           IF code[i].op = "End" THEN Excess(i, r) + 1
           ELSE IF code[i].op \in LabelOps THEN Excess(i, r) - 1
           ELSE Excess(i, r)
<1>1. /\ Count(code, {"End"}, i + 1, r) \in Nat
      /\ Count(code, LabelOps, i + 1, r) \in Nat
  BY CountType, i + 1 \in Int
<1>2. Count(code, {"End"}, i, r) =
        IF code[i].op \in {"End"} THEN Count(code, {"End"}, i + 1, r) + 1
        ELSE Count(code, {"End"}, i + 1, r)
  BY CountBelow
<1>3. Count(code, LabelOps, i, r) =
        IF code[i].op \in LabelOps THEN Count(code, LabelOps, i + 1, r) + 1
        ELSE Count(code, LabelOps, i + 1, r)
  BY CountBelow
<1>4. "End" \notin LabelOps
  BY DEF LabelOps
<1>5. Excess(i - 1, r) = Count(code, {"End"}, i, r) - Count(code, LabelOps, i, r)
  BY (i - 1) + 1 = i DEF Excess
<1> QED
  BY <1>1, <1>2, <1>3, <1>4, <1>5 DEF Excess

(* Where the walk has counted all but the labels it still looks for, a     *)
(* Block or Loop met with nesting 0 is a counted label and any other       *)
(* instruction is not.                                                     *)
LEMMA CountedIffFree ==
  ASSUME TypeOK, WalkInv, phase = Walking, label > 0, pc > 0
  PROVE  /\ pc \in CountedLabels(code, start)
              <=> code[pc].op \in LabelOps /\ nesting = 0
         /\ CountedFrom(pc) = IF code[pc].op \in LabelOps /\ nesting = 0
                              THEN CountedFrom(pc + 1) + 1
                              ELSE CountedFrom(pc + 1)
<1>1. pc \in 1..start /\ start \in Int /\ nesting \in Nat
  BY DEF TypeOK, WalkInv
<1>2. /\ \A r \in pc..start : Excess(pc, r) <= nesting
      /\ \E r \in pc..start : Excess(pc, r) = nesting
  BY DEF WalkInv
<1>3. \A r \in pc..start :
        /\ Excess(pc, r) \in Int
        /\ Count(code, {"End"}, pc + 1, r) <= Count(code, LabelOps, pc + 1, r)
             <=> Excess(pc, r) <= 0
  <2> TAKE r \in pc..start
  <2>1. r \in Int /\ pc \in Int /\ pc + 1 \in Int
    BY <1>1
  <2>2. Excess(pc, r) \in Int
    BY <2>1, ExcessType
  <2>3. /\ Count(code, {"End"}, pc + 1, r) \in Nat
        /\ Count(code, LabelOps, pc + 1, r) \in Nat
    BY <2>1, CountType
  <2> QED
    BY <2>2, <2>3 DEF Excess
<1>4. (\A r \in pc..start : Excess(pc, r) <= 0) <=> nesting = 0
  BY <1>1, <1>2, <1>3
<1>5. pc \in CountedLabels(code, start)
        <=> /\ code[pc].op \in LabelOps
            /\ \A r \in pc..start : Count(code, {"End"}, pc + 1, r)
                                      <= Count(code, LabelOps, pc + 1, r)
  BY <1>1 DEF CountedLabels, OpsAt
<1>6. pc \in CountedLabels(code, start)
        <=> code[pc].op \in LabelOps /\ nesting = 0
  BY <1>3, <1>4, <1>5
<1>7. CountedFrom(pc) = IF pc \in CountedLabels(code, start)
                        THEN CountedFrom(pc + 1) + 1
                        ELSE CountedFrom(pc + 1)
  BY <1>1, CountedLabelsStep DEF CountedFrom
<1> QED
  BY <1>6, <1>7

-----------------------------------------------------------------------------
(* The inductive invariant.                                                *)

(* It holds when execute_block calls one of the two functions.             *)
LEMMA InitScanInv == Init => ScanInv
<1> SUFFICES ASSUME Init PROVE ScanInv
  OBVIOUS
<1> USE CodesAssumption
<1>1. /\ code \in Seq(Instr) /\ start \in 1..Len(code) /\ Len(code) \in Nat
      /\ code[start] \in Instr
  BY DEF Init
<1>2. CASE CallSkip
  <2>1. ~IsBranch
    BY <1>2 DEF CallSkip, IsBranch, BranchOps
  <2>2. TypeOK
    BY <1>1, <1>2 DEF Init, CallSkip, TypeOK
  <2>3. SkipInv
    <3>1. /\ Count(code, BlockOps, start + 1, pc - 1) = 0
          /\ Count(code, {"Else", "End"}, start + 1, pc - 1) = 0
      BY <1>1, <1>2, CountEmpty, start + 1 \in Int, pc - 1 \in Int, pc - 1 < start + 1
         DEF CallSkip
    <3>2. \A r \in SkipStops(code, start) : pc <= r
      BY <1>1, <1>2 DEF CallSkip, SkipStops
    <3> QED
      BY <1>1, <1>2, <2>1, <3>1, <3>2 DEF Init, CallSkip, SkipInv, SkipsFrom
  <2> QED
    BY <1>2, <2>2, <2>3
       DEF CallSkip, ScanInv, WalkInv, ComputesClosedForm, Skipping, Walking, Landed, Outside
<1>3. CASE CallBranch
  <2>1. want \in Nat /\ IsBranch /\ label = want + 1 /\ pc = start /\ nesting = 0
    BY <1>1, <1>3 DEF Init, CallBranch, IsBranch, Instr
  <2>2. TypeOK
    BY <1>1, <1>3, <2>1 DEF CallBranch, TypeOK
  <2>3. \A r \in pc..start : Excess(pc, r) = 0
    BY <1>1, <2>1, ExcessType
  <2>4. CountedFrom(pc + 1) = 0
    <3>1. CountedLabels(code, start) \cap ((start + 1)..start) = {}
      BY <1>1
    <3> QED
      BY <2>1, <3>1, FS_EmptySet DEF CountedFrom
  <2>5. WalkInv
    BY <1>1, <2>1, <2>3, <2>4 DEF WalkInv
  <2> QED
    BY <1>3, <2>2, <2>5
       DEF CallBranch, ScanInv, SkipInv, ComputesClosedForm, Skipping, Walking, Landed, Outside
<1> QED
  BY <1>2, <1>3 DEF Init

(* One instruction up, the largest excess is what the code sets nesting to.*)
LEMMA WalkUp ==
  ASSUME TypeOK, WalkInv, phase = Walking, label > 0, pc > 0,
         NEW n \in Int,
         n = IF code[pc].op = "End" THEN nesting + 1
             ELSE IF code[pc].op \in LabelOps /\ nesting # 0 THEN nesting - 1
             ELSE nesting
  PROVE  /\ n \in Nat
         /\ \A r \in (pc - 1)..start : Excess(pc - 1, r) <= n
         /\ \E r \in (pc - 1)..start : Excess(pc - 1, r) = n
<1>1. pc \in 1..start /\ start \in Int /\ nesting \in Nat
  BY DEF TypeOK, WalkInv
<1>2. /\ \A r \in pc..start : Excess(pc, r) <= nesting
      /\ \E r \in pc..start : Excess(pc, r) = nesting
  BY DEF WalkInv
<1>3. \A r \in pc..start :
        /\ Excess(pc, r) \in Int
        /\ Excess(pc - 1, r) =
             IF code[pc].op = "End" THEN Excess(pc, r) + 1
             ELSE IF code[pc].op \in LabelOps THEN Excess(pc, r) - 1
             ELSE Excess(pc, r)
  <2> TAKE r \in pc..start
  <2> QED
    BY <1>1, ExcessType, ExcessStep, pc \in Int, r \in Int, pc <= r
<1>4. Excess(pc - 1, pc - 1) = 0
  BY <1>1, ExcessType, pc - 1 \in Int
<1>5. n \in Nat
  BY <1>1
<1>6. \A r \in (pc - 1)..start : r = pc - 1 \/ r \in pc..start
  BY <1>1
<1>7. \A r \in (pc - 1)..start : Excess(pc - 1, r) <= n
  BY <1>1, <1>2, <1>3, <1>4, <1>5, <1>6
<1>8. \E r \in (pc - 1)..start : Excess(pc - 1, r) = n
  <2>1. CASE code[pc].op \in LabelOps /\ code[pc].op # "End" /\ nesting = 0
    BY <1>1, <1>4, <2>1
  <2>2. CASE ~(code[pc].op \in LabelOps /\ code[pc].op # "End" /\ nesting = 0)
    BY <1>1, <1>2, <1>3, <2>2
  <2> QED
    BY <2>1, <2>2
<1> QED
  BY <1>5, <1>7, <1>8

(* What a step of the walk needs to re-establish WalkInv.                  *)
LEMMA WalkInvStep ==
  ASSUME TypeOK, WalkInv, phase = Walking, label > 0, pc > 0, UNCHANGED input,
         pc' = pc - 1, label' \in Nat,
         label' + CountedFrom(pc) = want + 1,
         nesting' = IF code[pc].op = "End" THEN nesting + 1
                    ELSE IF code[pc].op \in LabelOps /\ nesting # 0 THEN nesting - 1
                    ELSE nesting,
         label' > 0
  PROVE  WalkInv'
<1>1. /\ IsBranch /\ pc \in 1..start /\ start \in Int /\ nesting \in Nat
      /\ code' = code /\ start' = start /\ want' = want
  BY SMTT(30) DEF TypeOK, WalkInv, input
<1>2. nesting' \in Int
  BY <1>1
<1>3. /\ nesting' \in Nat
      /\ \A r \in (pc - 1)..start : Excess(pc - 1, r) <= nesting'
      /\ \E r \in (pc - 1)..start : Excess(pc - 1, r) = nesting'
  BY <1>2, WalkUp
<1>4. IsBranch' /\ pc' \in 0..start'
  BY <1>1 DEF IsBranch
<1>5. /\ (\A r \in pc..start : Excess(pc, r) <= nesting)'
      /\ (\E r \in pc..start : Excess(pc, r) = nesting)'
  BY <1>1, <1>3 DEF Excess
<1>6. (pc - 1) + 1 = pc
  BY <1>1
<1>7. (label + CountedFrom(pc + 1) = want + 1)'
  BY <1>1, <1>6 DEF CountedFrom
<1> QED
  BY <1>3, <1>4, <1>5, <1>7 DEF WalkInv

-----------------------------------------------------------------------------
(* One lemma per kind of step.                                             *)

(* A step of the walk that has found no label, or one that is cancelled.   *)
LEMMA WalkPastStep ==
  ASSUME ScanInv, CancelLabel \/ WalkPast
  PROVE  ScanInv'
<1>1. /\ TypeOK /\ WalkInv /\ phase = Walking /\ label > 0 /\ InCode
      /\ UNCHANGED <<input, label, phase>> /\ pc' = pc - 1
  BY DEF ScanInv, CancelLabel, WalkPast
<1>2. /\ code \in Seq(Instr) /\ pc \in 1..start /\ start \in 1..Len(code)
      /\ nesting \in Nat /\ label \in Nat /\ want \in Nat /\ Len(code) \in Nat
  BY <1>1 DEF TypeOK, WalkInv, InCode
<1>3. /\ nesting' = IF code[pc].op = "End" THEN nesting + 1
                    ELSE IF code[pc].op \in LabelOps /\ nesting # 0 THEN nesting - 1
                    ELSE nesting
      /\ ~(code[pc].op \in LabelOps /\ nesting = 0)
  BY <1>2 DEF CancelLabel, WalkPast, Op, LabelOps
<1>4. CountedFrom(pc) = CountedFrom(pc + 1)
  BY <1>1, <1>2, <1>3, CountedIffFree
<1>5. label + CountedFrom(pc) = want + 1
  BY <1>1, <1>4 DEF WalkInv
<1>6. WalkInv'
  BY <1>1, <1>2, <1>3, <1>5, WalkInvStep
<1>7. TypeOK'
  BY <1>1, <1>2, <1>3 DEF TypeOK, input
<1> QED
  BY <1>1, <1>6, <1>7
     DEF ScanInv, SkipInv, ComputesClosedForm, Skipping, Walking, Landed, Outside

(* A step of the walk that counts a label.                                 *)
LEMMA CountLabelStep ==
  ASSUME ScanInv, CountLabel
  PROVE  ScanInv'
<1>1. /\ TypeOK /\ WalkInv /\ phase = Walking /\ label > 0 /\ InCode
      /\ UNCHANGED <<input, nesting, phase>> /\ label' = label - 1
      /\ pc' = IF label' > 0 THEN pc - 1 ELSE pc
      /\ code[pc].op \in LabelOps /\ nesting = 0
  BY DEF ScanInv, CountLabel, Op
<1>2. /\ code \in Seq(Instr) /\ pc \in 1..start /\ start \in 1..Len(code)
      /\ label \in Nat /\ want \in Nat /\ Len(code) \in Nat /\ label' \in Nat
  BY <1>1 DEF TypeOK, WalkInv, InCode
<1>3. /\ pc \in CountedLabels(code, start)
      /\ CountedFrom(pc) = CountedFrom(pc + 1) + 1
  BY <1>1, <1>2, CountedIffFree
<1>4. CountedFrom(pc + 1) \in Nat
  BY <1>2, CountedLabelsFinite, start \in Int, pc + 1 \in Int DEF CountedFrom
<1>5. label' + CountedFrom(pc) = want + 1
  BY <1>1, <1>2, <1>3, <1>4 DEF WalkInv
<1>6. WalkInv'
  <2>1. CASE label' > 0
    <3>1. "End" \notin LabelOps
      BY DEF LabelOps
    <3> QED
      BY <1>1, <1>2, <1>5, <2>1, <3>1, WalkInvStep
  <2>2. CASE label' = 0
    <3>1. pc \in BranchOpeners(code, start, want)
      BY <1>2, <1>3, <1>4, <1>5, <2>2 DEF BranchOpeners, CountedFrom
    <3> QED
      BY <1>1, <1>2, <2>2, <3>1 DEF WalkInv, IsBranch, input
  <2> QED
    BY <1>2, <2>1, <2>2
<1>7. TypeOK'
  BY <1>1, <1>2 DEF TypeOK, input
<1> QED
  BY <1>1, <1>6, <1>7
     DEF ScanInv, SkipInv, ComputesClosedForm, Skipping, Walking, Landed, Outside

(* The walk has found the label: it is the opener of the closed form.      *)
LEMMA LandInLoopStep ==
  ASSUME ScanInv, LandInLoop
  PROVE  ScanInv'
<1>1. /\ TypeOK /\ WalkInv /\ phase = Walking /\ label = 0
      /\ UNCHANGED <<input, nesting, label>> /\ pc' = pc + 1 /\ phase' = Landed
      /\ code[pc].op = "Loop"
  BY DEF ScanInv, LandInLoop, Op
<1>2. /\ IsBranch /\ pc \in BranchOpeners(code, start, want)
      /\ want \in Nat /\ start \in 1..Len(code) /\ Len(code) \in Nat
      /\ code \in Seq(Instr)
  BY <1>1 DEF WalkInv, TypeOK
<1>3. pc \in 1..Len(code)
  BY <1>2, CountedLabelsRange DEF BranchOpeners
<1>4. BranchOpener(code, start, want) = pc
  BY <1>2, OneOpener
<1>5. /\ BranchDefined(code, start, want)
      /\ pc + 1 = BranchTarget(code, start, want)
  BY <1>1, <1>2, <1>4 DEF BranchDefined, BranchTarget
<1>6. ComputesClosedForm'
  BY <1>1, <1>2, <1>5 DEF ComputesClosedForm, IsBranch, input, Landed, Outside
<1>7. TypeOK'
  BY <1>1, <1>2, <1>3 DEF TypeOK, input
<1> QED
  BY <1>1, <1>6, <1>7 DEF ScanInv, WalkInv, SkipInv, Skipping, Walking, Landed

(* The walk has found a Block and hands over to the skip that leaves it.   *)
LEMMA LeaveBlockStep ==
  ASSUME ScanInv, LeaveBlock
  PROVE  ScanInv'
<1>1. /\ TypeOK /\ WalkInv /\ phase = Walking /\ label = 0
      /\ UNCHANGED <<input, label>> /\ nesting' = 0
      /\ pc' = pc + 1 /\ phase' = Skipping
      /\ code[pc].op = "Block"
  BY DEF ScanInv, LeaveBlock, Op
<1>2. /\ IsBranch /\ pc \in BranchOpeners(code, start, want)
      /\ start \in 1..Len(code) /\ Len(code) \in Nat /\ code \in Seq(Instr)
  BY <1>1 DEF WalkInv, TypeOK
<1>3. pc \in 1..Len(code)
  BY <1>2, CountedLabelsRange DEF BranchOpeners
<1>4. /\ Count(code, BlockOps, pc + 1, pc) = 0
      /\ Count(code, {"Else", "End"}, pc + 1, pc) = 0
      /\ (pc + 1) - 1 = pc
  BY <1>3, CountEmpty, pc \in Int, pc + 1 \in Int, pc < pc + 1
<1>5. \A r \in SkipStops(code, pc) : pc + 1 <= r
  BY <1>3 DEF SkipStops
<1>6. \A o : o = pc => SkipsFrom(o)'
  BY <1>1, <1>2 DEF SkipsFrom, IsBranch, input
<1>7. SkipInv'
  BY <1>1, <1>2, <1>3, <1>4, <1>5, <1>6 DEF SkipInv, input
<1>8. TypeOK'
  BY <1>1, <1>2, <1>3 DEF TypeOK, input
<1> QED
  BY <1>1, <1>7, <1>8
     DEF ScanInv, WalkInv, ComputesClosedForm, Skipping, Walking, Landed, Outside

(* A step of the skip over a position at which it does not stop.           *)
LEMMA SkipPastStep ==
  ASSUME ScanInv, SkipPast
  PROVE  ScanInv'
<1>1. /\ TypeOK /\ phase = Skipping /\ pc \in DOMAIN code /\ ~AtStop
      /\ UNCHANGED <<input, label, phase>> /\ pc' = pc + 1
      /\ nesting' = IF code[pc].op \in BlockOps THEN nesting + 1
                    ELSE IF code[pc].op \in {"Else", "End"} THEN nesting - 1
                    ELSE nesting
  BY DEF ScanInv, SkipPast, Op, InCode
<1>2. /\ code \in Seq(Instr) /\ start \in 1..Len(code) /\ Len(code) \in Nat
      /\ pc \in 1..Len(code) /\ nesting \in Int
  BY <1>1 DEF TypeOK
<1>3. PICK o \in DOMAIN code :
        /\ SkipsFrom(o)
        /\ pc \in (o + 1)..(Len(code) + 1)
        /\ nesting = Count(code, BlockOps, o + 1, pc - 1)
                       - Count(code, {"Else", "End"}, o + 1, pc - 1)
        /\ \A r \in SkipStops(code, o) : pc <= r
  BY <1>1 DEF ScanInv, SkipInv
<1>4. o \in Int /\ o + 1 <= (pc - 1) + 1 /\ o + 1 \in Int /\ pc - 1 \in Int
      /\ (pc - 1) + 1 = pc /\ (pc + 1) - 1 = pc
  BY <1>2, <1>3
<1>5. /\ Count(code, BlockOps, o + 1, pc - 1) \in Nat
      /\ Count(code, {"Else", "End"}, o + 1, pc - 1) \in Nat
  BY <1>4, CountType
<1>6. /\ Count(code, BlockOps, o + 1, pc) =
           IF code[pc].op \in BlockOps THEN Count(code, BlockOps, o + 1, pc - 1) + 1
           ELSE Count(code, BlockOps, o + 1, pc - 1)
      /\ Count(code, {"Else", "End"}, o + 1, pc) =
           IF code[pc].op \in {"Else", "End"}
           THEN Count(code, {"Else", "End"}, o + 1, pc - 1) + 1
           ELSE Count(code, {"Else", "End"}, o + 1, pc - 1)
  <2>1. \A ops : Count(code, ops, o + 1, (pc - 1) + 1) =
          IF code[(pc - 1) + 1].op \in ops THEN Count(code, ops, o + 1, pc - 1) + 1
          ELSE Count(code, ops, o + 1, pc - 1)
    BY <1>4, CountAbove
  <2> QED
    BY <1>4, <2>1
<1>7. BlockOps \cap {"Else", "End"} = {}
  BY DEF BlockOps
<1>8. nesting' = Count(code, BlockOps, o + 1, pc)
                  - Count(code, {"Else", "End"}, o + 1, pc)
  BY <1>1, <1>3, <1>5, <1>6, <1>7, SMTT(30)
<1>9. pc \notin SkipStops(code, o)
  BY <1>1, <1>3, <1>5 DEF AtStop, Op, SkipStops
<1>10. \A r \in SkipStops(code, o) : pc + 1 <= r
  <2>1. SkipStops(code, o) \subseteq Int
    BY <1>4 DEF SkipStops
  <2> QED
    BY <1>2, <1>3, <1>9, <2>1
<1>11. SkipsFrom(o)'
  BY <1>1, <1>3 DEF SkipsFrom, IsBranch, input
<1>12. SkipInv'
  <2>1. /\ code' = code /\ o \in DOMAIN code' /\ phase' = Skipping
        /\ pc' \in (o + 1)..(Len(code') + 1)
        /\ pc' - 1 = pc
    <3>1. code' = code /\ phase' = Skipping /\ pc' = pc + 1
      BY <1>1 DEF input
    <3>2. pc + 1 \in (o + 1)..(Len(code) + 1)
      BY <1>2, <1>3, <1>4
    <3> QED
      BY <1>2, <1>4, <3>1, <3>2
  <2>2. /\ nesting' = Count(code', BlockOps, o + 1, pc' - 1)
                        - Count(code', {"Else", "End"}, o + 1, pc' - 1)
        /\ \A r \in SkipStops(code', o) : pc' <= r
    BY <1>1, <1>8, <1>10, <2>1
  <2> QED
    BY <1>11, <2>1, <2>2 DEF SkipInv
<1>13. TypeOK'
  BY <1>1, <1>2 DEF TypeOK, input
<1> QED
  BY <1>1, <1>12, <1>13
     DEF ScanInv, WalkInv, ComputesClosedForm, Skipping, Walking, Landed, Outside

(* The skip returns: no position before was one to stop at, so this is the *)
(* first.                                                                  *)
LEMMA SkipStopStep ==
  ASSUME ScanInv, SkipStop
  PROVE  ScanInv'
<1>1. /\ TypeOK /\ phase = Skipping /\ pc \in DOMAIN code /\ AtStop
      /\ UNCHANGED <<input, nesting, label>> /\ pc' = pc + 1 /\ phase' = Landed
  BY DEF ScanInv, SkipStop, InCode
<1>2. /\ code \in Seq(Instr) /\ start \in 1..Len(code) /\ Len(code) \in Nat
      /\ pc \in 1..Len(code) /\ want \in Nat
  BY <1>1 DEF TypeOK
<1>3. PICK o \in DOMAIN code :
        /\ SkipsFrom(o)
        /\ pc \in (o + 1)..(Len(code) + 1)
        /\ nesting = Count(code, BlockOps, o + 1, pc - 1)
                       - Count(code, {"Else", "End"}, o + 1, pc - 1)
        /\ \A r \in SkipStops(code, o) : pc <= r
  BY <1>1 DEF ScanInv, SkipInv
<1>4. /\ Count(code, BlockOps, o + 1, pc - 1) \in Nat
      /\ Count(code, {"Else", "End"}, o + 1, pc - 1) \in Nat
  BY <1>2, <1>3, CountType, o + 1 \in Int, pc - 1 \in Int
<1>5. pc \in SkipStops(code, o)
  BY <1>1, <1>2, <1>3, <1>4 DEF AtStop, Op, SkipStops
<1>6. SkipStops(code, o) \in SUBSET Int
  BY <1>2 DEF SkipStops
<1>7. SkipDefined(code, o) /\ SkipTarget(code, o) = pc + 1
  BY <1>3, <1>5, <1>6, MinIs DEF SkipDefined, SkipTarget
<1>8. ASSUME IsBranch
      PROVE  BranchDefined(code, start, want) /\ BranchTarget(code, start, want) = pc + 1
  <2>1. o \in BranchOpeners(code, start, want) /\ code[o].op = "Block"
    BY <1>3, <1>8 DEF SkipsFrom
  <2>2. BranchOpener(code, start, want) = o
    BY <1>2, <2>1, OneOpener
  <2> QED
    BY <1>7, <2>1, <2>2 DEF BranchDefined, BranchTarget
<1>9. ~IsBranch => o = start
  BY <1>3 DEF SkipsFrom
<1>10. ComputesClosedForm'
  BY <1>1, <1>7, <1>8, <1>9 DEF ComputesClosedForm, IsBranch, input, Landed, Outside
<1>11. TypeOK'
  BY <1>1, <1>2 DEF TypeOK, input
<1> QED
  BY <1>1, <1>10, <1>11 DEF ScanInv, WalkInv, SkipInv, Skipping, Walking, Landed

(* A scan leaves the list only when the closed form is undefined.          *)
LEMMA LeaveCodeStep ==
  ASSUME ScanInv, LeaveCode
  PROVE  ScanInv'
<1>1. /\ TypeOK /\ phase \in {Skipping, Walking} /\ pc \notin DOMAIN code
      /\ phase' = Outside /\ UNCHANGED <<input, pc, nesting, label>>
  BY DEF ScanInv, LeaveCode, InCode
<1>2. /\ code \in Seq(Instr) /\ start \in 1..Len(code) /\ Len(code) \in Nat
      /\ want \in Nat /\ label \in Nat
  BY <1>1 DEF TypeOK
<1>3. ASSUME phase = Skipping
      PROVE  ComputesClosedForm'
  <2>1. PICK o \in DOMAIN code :
          /\ SkipsFrom(o)
          /\ pc \in (o + 1)..(Len(code) + 1)
          /\ \A r \in SkipStops(code, o) : pc <= r
    BY <1>3 DEF ScanInv, SkipInv
  <2>2. pc = Len(code) + 1
    BY <1>1, <1>2, <2>1
  <2>3. ~SkipDefined(code, o)
    BY <1>2, <2>1, <2>2 DEF SkipDefined, SkipStops
  <2>4. IsBranch => ~BranchDefined(code, start, want)
    BY <1>2, <2>1, <2>3, OneOpener DEF SkipsFrom, BranchDefined
  <2>5. ~IsBranch => ~SkipDefined(code, start)
    BY <2>1, <2>3 DEF SkipsFrom
  <2> QED
    BY <1>1, <2>4, <2>5 DEF ComputesClosedForm, IsBranch, input, Landed, Outside
<1>4. ASSUME phase = Walking
      PROVE  ComputesClosedForm'
  <2>1. IsBranch /\ pc \in 0..start /\ WalkInv
    BY <1>4 DEF ScanInv, WalkInv
  <2>2. pc = 0
    BY <1>1, <1>2, <2>1
  <2>3. label > 0
    <3>1. BranchOpeners(code, start, want) \subseteq 1..start
      BY CountedLabelsRange DEF BranchOpeners
    <3> QED
      BY <1>2, <1>4, <2>1, <2>2, <3>1 DEF WalkInv
  <2>4. CountedFrom(1) < want + 1 /\ CountedFrom(1) \in Nat
    <3>1. CountedFrom(1) \in Nat
      BY <1>2, CountedLabelsFinite, start \in Int, 1 \in Int DEF CountedFrom
    <3>2. label + CountedFrom(1) = want + 1
      BY <1>4, <2>1, <2>2, <2>3, 0 + 1 = 1 DEF WalkInv
    <3> QED
      BY <1>2, <2>3, <3>1, <3>2
  <2>5. BranchOpeners(code, start, want) = {}
    <3> SUFFICES ASSUME NEW q \in BranchOpeners(code, start, want) PROVE FALSE
      OBVIOUS
    <3>1. q \in 1..start
      BY CountedLabelsRange DEF BranchOpeners
    <3>2. Cardinality(CountedLabels(code, start) \cap (q..start)) <= CountedFrom(1)
      BY <1>2, <3>1, CountedLabelsMonotone, start \in Int, q \in Int, 1 \in Int, 1 <= q
         DEF CountedFrom
    <3> QED
      BY <1>2, <2>4, <3>2 DEF BranchOpeners
  <2> QED
    BY <1>1, <2>1, <2>5
       DEF ComputesClosedForm, BranchDefined, IsBranch, input, Landed, Outside
<1>5. ComputesClosedForm'
  BY <1>1, <1>3, <1>4
<1>6. TypeOK'
  BY <1>1, <1>2 DEF TypeOK, input, Skipping, Walking, Landed, Outside
<1> QED
  BY <1>1, <1>5, <1>6 DEF ScanInv, WalkInv, SkipInv, Skipping, Walking, Outside

-----------------------------------------------------------------------------
(* The theorems.                                                           *)

(* Every iteration of either loop preserves the invariants of both.        *)
LEMMA NextScanInv == ScanInv /\ [Next]_vars => ScanInv'
<1> SUFFICES ASSUME ScanInv, [Next]_vars PROVE ScanInv'
  OBVIOUS
<1>1. CASE CountLabel
  BY <1>1, CountLabelStep
<1>2. CASE CancelLabel \/ WalkPast
  BY <1>2, WalkPastStep
<1>3. CASE LandInLoop
  BY <1>3, LandInLoopStep
<1>4. CASE LeaveBlock
  BY <1>4, LeaveBlockStep
<1>5. CASE SkipPast
  BY <1>5, SkipPastStep
<1>6. CASE SkipStop
  BY <1>6, SkipStopStep
<1>7. CASE LeaveCode
  BY <1>7, LeaveCodeStep
<1>8. CASE UNCHANGED vars
  BY <1>8 DEF vars, ScanInv, TypeOK, WalkInv, SkipInv, SkipsFrom, ComputesClosedForm,
              Excess, CountedFrom, IsBranch
<1> QED
  BY <1>1, <1>2, <1>3, <1>4, <1>5, <1>6, <1>7, <1>8 DEF Next

(* The invariants of the two loops hold in every call on every list.       *)
THEOREM ScanInvariant == Spec => []ScanInv
<1> QED
  BY InitScanInv, NextScanInv, PTL DEF Spec

(* The counters of skip_control_block and branch_block never leave their   *)
(* range.                                                                  *)
THEOREM ScanTypeCorrect == Spec => []TypeOK
<1>1. ScanInv => TypeOK
  BY DEF ScanInv
<1> QED
  BY <1>1, ScanInvariant, PTL

(* skip_control_block and branch_block compute SkipTarget and BranchTarget *)
(* on every instruction list, nested or not, and run out of the list only  *)
(* where these are undefined.                                              *)
THEOREM ScanComputesClosedForm == Spec => []ComputesClosedForm
<1>1. ScanInv => ComputesClosedForm
  BY DEF ScanInv
<1> QED
  BY <1>1, ScanInvariant, PTL

-----------------------------------------------------------------------------
(* Where scans land in well-nested lists.                                  *)

(* A call is one of those execute_block makes.                             *)
CallInv == IsBranch \/ code[start].op \in {"If", "Else"}

LEMMA CallInvariant == Spec => []CallInv
<1>1. Init => CallInv
  BY DEF Init, CallSkip, CallBranch, CallInv, IsBranch
<1>2. CallInv /\ [Next]_vars => CallInv'
  <2> SUFFICES ASSUME [Next]_vars PROVE UNCHANGED input
    BY DEF CallInv, IsBranch, input
  <2> QED
    BY DEF Next, vars, input, CountLabel, CancelLabel, WalkPast, LandInLoop, LeaveBlock,
           SkipPast, SkipStop, LeaveCode
<1> QED
  BY <1>1, <1>2, PTL DEF Spec

(* The closed forms decide where a call ends: on clean calls at the place  *)
(* structured code names, and on all others not beyond it.                 *)
LEMMA ClosedFormIsStructured ==
  ASSUME ScanInv, CallInv
  PROVE  LandsAsStructured
<1>1. /\ code \in Seq(Instr) /\ start \in 1..Len(code) /\ want \in Nat /\ Len(code) \in Nat
      /\ ComputesClosedForm
  BY DEF ScanInv, TypeOK
<1>2. ASSUME WellNested(code), IsBranch, CleanBranch(code, start, want)
      PROVE  phase # Outside /\ (phase = Landed => pc = LabelTarget(code, start, want))
  <2>1. /\ BranchDefined(code, start, want)
        /\ BranchTarget(code, start, want) = LabelTarget(code, start, want)
    BY <1>1, <1>2, CleanBranchLands DEF IsBranch
  <2> QED
    BY <1>1, <1>2, <2>1 DEF ComputesClosedForm
<1>3. ASSUME WellNested(code), ~IsBranch
      PROVE  /\ phase # Outside
             /\ phase = Landed => pc <= CloserOf(code, start) + 1
             /\ phase = Landed /\ CleanSkip(code, start) => pc = CloserOf(code, start) + 1
  <2>1. Closers(code, start) # {}
    BY <1>1, <1>3, HasCloser DEF CallInv, BlockOps
  <2>2. /\ SkipDefined(code, start)
        /\ SkipTarget(code, start) <= CloserOf(code, start) + 1
        /\ CleanSkip(code, start) => SkipTarget(code, start) = CloserOf(code, start) + 1
    BY <1>1, <2>1, SkipReachesCloser
  <2> QED
    BY <1>1, <1>3, <2>2 DEF ComputesClosedForm
<1>4. ASSUME WellNested(code), IsBranch, phase = Landed
      PROVE  \E q \in Enclosing(code, start) :
               q < pc /\ pc <= IF code[q].op = "Loop" THEN q + 1 ELSE EndOf(code, q) + 1
  <2>1. BranchDefined(code, start, want) /\ pc = BranchTarget(code, start, want)
    BY <1>1, <1>4 DEF ComputesClosedForm
  <2>2. PICK q \in Enclosing(code, start) :
          /\ q \in 1..(start - 1)
          /\ \/ code[q].op = "Loop" /\ pc = q + 1
             \/ code[q].op = "Block" /\ start < pc /\ pc <= EndOf(code, q) + 1
    BY <1>1, <1>4, <2>1, BranchStaysInside DEF IsBranch
  <2>3. q < pc /\ pc \in Int
    BY <1>1, <2>2 DEF ScanInv, TypeOK
  <2> QED
    BY <2>2, <2>3
<1> QED
  BY <1>2, <1>3, <1>4 DEF LandsAsStructured, CleanScansAreStructured, NeverOvershoots

(* On every well-nested list, of any size: a scan with no if in its way    *)
(* lands where structured code lands, a skip never passes the End of its   *)
(* construct, and a branch never stops at a construct it is not in.        *)
THEOREM ScansLandAsStructured == Spec => []LandsAsStructured
BY ClosedFormIsStructured, ScanInvariant, CallInvariant, PTL
=============================================================================
