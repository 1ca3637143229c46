--------------------------- MODULE ControlFlowProofs ---------------------------
(***************************************************************************)
(* Proofs about ControlFlow, for every set of function bodies: whatever    *)
(* jumps are taken, the pc stays in the list or just behind it; on         *)
(* well-formed bodies backward jumps go to enclosing loops and forward     *)
(* ones stay behind an End; on bodies no if gets in the way in, execution  *)
(* is that of StructuredControl.                                           *)
(***************************************************************************)
EXTENDS ControlFlow, InstructionTheorems

(* A skip and a branch leave the pc in the list.                           *)
LEMMA SkipType ==
  ASSUME TypeOK, pc \in 1..Len(code), Skip
  PROVE  TypeOK'
<1>1. CASE SkipDefined(code, pc) /\ Goto(SkipTarget(code, pc))
  <2>1. SkipTarget(code, pc) \in 1..(Len(code) + 1)
    BY <1>1, SkipTargetRange DEF TypeOK
  <2> QED
    BY <1>1, <2>1 DEF TypeOK, Goto
<1>2. CASE Stop("undefined")
  BY <1>2 DEF TypeOK, Stop, Status
<1> QED
  BY <1>1, <1>2 DEF Skip

LEMMA BranchType ==
  ASSUME TypeOK, pc \in 1..Len(code), NEW k, BranchTo(k)
  PROVE  TypeOK'
<1>1. CASE BranchDefined(code, pc, k) /\ Goto(BranchTarget(code, pc, k))
  <2>1. BranchTarget(code, pc, k) \in 1..(Len(code) + 1)
    BY <1>1, BranchTargetRange DEF TypeOK
  <2> QED
    BY <1>1, <2>1 DEF TypeOK, Goto
<1>2. CASE Stop("undefined")
  BY <1>2 DEF TypeOK, Stop, Status
<1> QED
  BY <1>1, <1>2 DEF BranchTo

(* As do the instructions that only advance, and those that end the call.  *)
LEMMA AdvanceType ==
  ASSUME TypeOK, pc \in 1..Len(code), Goto(pc + 1)
  PROVE  TypeOK'
BY DEF TypeOK, Goto

LEMMA StopType ==
  ASSUME TypeOK, NEW how \in Status, Stop(how)
  PROVE  TypeOK'
BY DEF TypeOK, Stop

(* An instruction is executed where there is one.                          *)
LEMMA OnInCode ==
  ASSUME TypeOK, NEW ops, On(ops)
  PROVE  pc \in 1..Len(code)
BY DEF TypeOK, On

LEMMA NextType ==
  ASSUME TypeOK, Next
  PROVE  TypeOK'
<1>1. CASE Advance \/ IfNonZero \/ BrIfZero
  BY <1>1, OnInCode, AdvanceType DEF Advance, IfNonZero, BrIfZero
<1>2. CASE IfZero \/ Else
  BY <1>2, OnInCode, SkipType DEF IfZero, Else
<1>3. CASE Br \/ BrIfTaken
  BY <1>3, OnInCode, BranchType DEF Br, BrIfTaken
<1>4. CASE BrTableTaken
  BY <1>4, OnInCode, BranchType DEF BrTableTaken
<1>5. CASE BrTableOutOfRange \/ Return \/ EndOfCode \/ Unreachable
  BY <1>5, StopType DEF BrTableOutOfRange, Return, EndOfCode, Unreachable, Status
<1> QED
  BY <1>1, <1>2, <1>3, <1>4, <1>5 DEF Next

(* Whatever the bodies and the operands, execute_block leaves the          *)
(* instruction vector only where its jumps are undefined.                  *)
THEOREM FlowTypeCorrect == Spec => []TypeOK
<1>1. Init => TypeOK
  BY FlowCodes DEF Init, TypeOK, Status
<1>2. TypeOK /\ [Next]_vars => TypeOK'
  <2>1. TypeOK /\ UNCHANGED vars => TypeOK'
    BY DEF TypeOK, vars
  <2> QED
    BY <2>1, NextType
<1> QED
  BY <1>1, <1>2, PTL DEF Spec

-----------------------------------------------------------------------------
(* What a step does, in terms of the closed forms.                         *)

(* A jump of the If or Else at pc, and of the branch at pc for label k.    *)
SkipStep ==
  /\ code[pc].op \in {"If", "Else"}
  /\ \/ SkipDefined(code, pc) /\ pc' = SkipTarget(code, pc) /\ status' = "running"
     \/ ~SkipDefined(code, pc) /\ pc' = pc /\ status' = "undefined"

BranchStep(k) ==
  /\ code[pc].op \in BranchOps
  /\ \/ BranchDefined(code, pc, k) /\ pc' = BranchTarget(code, pc, k) /\ status' = "running"
     \/ ~BranchDefined(code, pc, k) /\ pc' = pc /\ status' = "undefined"

(* A step goes on to the next instruction, ends the call, or jumps.        *)
LEMMA StepKinds ==
  ASSUME TypeOK, WellFormedBody(code), Next
  PROVE  /\ code' = code /\ status = "running"
         /\ \/ pc' = pc + 1 /\ status' = "running" /\ code[pc].op \notin {"Else", "Br", "BrTable"}
            \/ pc' = pc /\ status' \in {"returned", "aborted"}
            \/ pc \in 1..Len(code) /\ SkipStep
            \/ /\ pc \in 1..Len(code)
               /\ \E j \in DOMAIN code[pc].imms : BranchStep(code[pc].imms[j])
<1>1. CASE Advance \/ IfNonZero \/ BrIfZero
  <2>1. code[pc].op \notin {"Else", "Br", "BrTable"}
    BY <1>1 DEF Advance, IfNonZero, BrIfZero, On, PlainOps, DataOps
  <2> QED
    BY <1>1, <2>1 DEF Advance, IfNonZero, BrIfZero, Goto, On
<1>2. CASE BrTableOutOfRange \/ Return \/ EndOfCode \/ Unreachable
  BY <1>2 DEF BrTableOutOfRange, Return, EndOfCode, Unreachable, Stop, On
<1>3. CASE IfZero \/ Else
  <2>1. pc \in 1..Len(code)
    BY <1>3, OnInCode DEF IfZero, Else
  <2> QED
    BY <1>3, <2>1 DEF IfZero, Else, Skip, SkipStep, Goto, Stop, On
<1>4. ASSUME NEW k, On(BranchOps), BranchTo(k)
      PROVE  /\ pc \in 1..Len(code) /\ status = "running" /\ code' = code
             /\ BranchStep(k)
  <2>1. pc \in 1..Len(code)
    BY <1>4, OnInCode
  <2> QED
    BY <1>4, <2>1 DEF BranchTo, BranchStep, Goto, Stop, On
<1>5. ASSUME On(BranchOps)
      PROVE  /\ code[pc].imms \in Seq(Nat) /\ code[pc].imms # <<>>
             /\ 1 \in DOMAIN code[pc].imms
  <2>1. pc \in 1..Len(code) /\ code[pc].op \in BranchOps
    BY <1>5, OnInCode DEF On
  <2>2. code[pc] \in Instr
    BY <2>1 DEF TypeOK
  <2>3. code[pc].imms \in Seq(Nat) /\ code[pc].imms # <<>>
    BY <2>1, <2>2 DEF WellFormedBody, Instr
  <2> QED
    BY <2>3
<1>6. CASE Br \/ BrIfTaken
  <2>1. On(BranchOps) /\ BranchTo(code[pc].imms[1])
    BY <1>6 DEF Br, BrIfTaken, On, BranchOps
  <2> QED
    BY <1>4, <1>5, <2>1
<1>7. CASE BrTableTaken
  <2>1. On(BranchOps)
    BY <1>7 DEF BrTableTaken, On, BranchOps
  <2>2. PICK i \in 0..MaxIndex : i < Len(code[pc].imms) /\ BranchTo(code[pc].imms[i + 1])
    BY <1>7 DEF BrTableTaken
  <2>3. i + 1 \in DOMAIN code[pc].imms
    BY <1>5, <2>1, <2>2, FlowIndex
  <2> QED
    BY <1>4, <2>1, <2>2, <2>3
<1> QED
  BY <1>1, <1>2, <1>3, <1>6, <1>7 DEF Next

(* A jump of a well-formed body: skips are always defined, and end behind  *)
(* the closer at the latest.                                               *)
LEMMA SkipStepIs ==
  ASSUME TypeOK, WellFormedBody(code), pc \in 1..Len(code), SkipStep
  PROVE  /\ status' = "running" /\ pc + 2 <= pc' /\ pc' \in Int
         /\ pc' <= CloserOf(code, pc) + 1
         /\ CleanSkip(code, pc) => pc' = CloserOf(code, pc) + 1
<1>1. code \in Seq(Instr) /\ Len(code) \in Nat /\ WellNested(code)
  BY DEF TypeOK, WellFormedBody
<1>2. Closers(code, pc) # {}
  BY <1>1, HasCloser DEF SkipStep, BlockOps
<1>3. /\ SkipDefined(code, pc) /\ SkipTarget(code, pc) <= CloserOf(code, pc) + 1
      /\ CleanSkip(code, pc) => SkipTarget(code, pc) = CloserOf(code, pc) + 1
  BY <1>1, <1>2, SkipReachesCloser
<1>4. SkipTarget(code, pc) \in (pc + 2)..(Len(code) + 1)
  BY <1>1, <1>3, SkipTargetRange
<1> QED
  BY <1>1, <1>3, <1>4 DEF SkipStep

-----------------------------------------------------------------------------
(* The properties of every body that validation accepts.                   *)

FlowInv == TypeOK /\ code \in Codes /\ UndefinedOnlyBehindIf

(* A jump leaves the list only where an if hides its target.               *)
LEMMA FlowInvStep ==
  ASSUME \A c \in Codes : WellFormedBody(c), FlowInv, Next
  PROVE  FlowInv'
<1>1. WellFormedBody(code) /\ TypeOK /\ TypeOK'
  BY NextType DEF FlowInv
<1>2. code' = code /\ status = "running"
  BY <1>1, StepKinds
<1>3. ASSUME status' = "undefined"
      PROVE  /\ pc' = pc
             /\ \E j \in DOMAIN code[pc].imms : ~CleanBranch(code, pc, code[pc].imms[j])
  <2>1. \/ pc \in 1..Len(code) /\ SkipStep
        \/ /\ pc \in 1..Len(code)
           /\ \E j \in DOMAIN code[pc].imms : BranchStep(code[pc].imms[j])
    BY <1>1, <1>3, StepKinds
  <2>2. /\ pc \in 1..Len(code)
        /\ \E j \in DOMAIN code[pc].imms : BranchStep(code[pc].imms[j])
    BY <1>1, <1>3, <2>1, SkipStepIs
  <2>3. PICK j \in DOMAIN code[pc].imms : BranchStep(code[pc].imms[j])
    BY <2>2
  <2>4. code[pc].imms[j] \in Nat /\ code \in Seq(Instr) /\ WellNested(code)
    <3>1. code \in Seq(Instr) /\ code[pc] \in Instr
      BY <1>1, <2>2 DEF TypeOK
    <3>2. code[pc].imms \in Seq(Nat)
      BY <3>1 DEF Instr
    <3> QED
      BY <1>1, <3>1, <3>2 DEF WellFormedBody
  <2> QED
    BY <1>3, <2>2, <2>3, <2>4, CleanBranchLands DEF BranchStep
<1> QED
  BY <1>1, <1>2, <1>3 DEF FlowInv, UndefinedOnlyBehindIf

LEMMA FlowInvariant ==
  ASSUME \A c \in Codes : WellFormedBody(c)
  PROVE  Spec => []FlowInv
<1>1. Init => FlowInv
  BY FlowCodes DEF Init, FlowInv, TypeOK, Status, UndefinedOnlyBehindIf
<1>2. FlowInv /\ [Next]_vars => FlowInv'
  <2>1. FlowInv /\ UNCHANGED vars => FlowInv'
    BY DEF FlowInv, TypeOK, UndefinedOnlyBehindIf, vars
  <2> QED
    BY <2>1, FlowInvStep
<1> QED
  BY <1>1, <1>2, PTL DEF Spec

(* On well-formed bodies, execute_block reads outside the instruction      *)
(* vector only at a branch that an if lies in the way of, or one to the    *)
(* function body.                                                          *)
THEOREM UndefinedBehindIf ==
  ASSUME \A c \in Codes : WellFormedBody(c)
  PROVE  Spec => []UndefinedOnlyBehindIf
<1>1. FlowInv => UndefinedOnlyBehindIf
  BY DEF FlowInv
<1> QED
  BY <1>1, FlowInvariant, PTL

(* On well-formed bodies, execution goes backward only to the first        *)
(* instruction of a loop it is in: no jump re-enters a construct.          *)
THEOREM BackwardIntoEnclosingLoop ==
  ASSUME \A c \in Codes : WellFormedBody(c)
  PROVE  Spec => BackwardOnlyIntoEnclosingLoop
<1>1. ASSUME FlowInv, [Next]_vars, ~UNCHANGED vars, pc' <= pc, status' = "running"
      PROVE  \E q \in Enclosing(code, pc) : code[q].op = "Loop" /\ pc' = q + 1
  <2>1. Next /\ TypeOK /\ WellFormedBody(code) /\ pc \in Nat
    BY <1>1 DEF FlowInv, TypeOK
  <2>2. PICK j \in DOMAIN code[pc].imms : pc \in 1..Len(code) /\ BranchStep(code[pc].imms[j])
    BY <1>1, <2>1, StepKinds, SkipStepIs
  <2>3. /\ code \in Seq(Instr) /\ WellNested(code) /\ code[pc].op \in BranchOps
        /\ BranchDefined(code, pc, code[pc].imms[j])
        /\ pc' = BranchTarget(code, pc, code[pc].imms[j])
    BY <1>1, <2>1, <2>2 DEF TypeOK, WellFormedBody, BranchStep
  <2>4. PICK q \in Enclosing(code, pc) :
          \/ code[q].op = "Loop" /\ pc' = q + 1
          \/ pc < pc'
    BY <2>2, <2>3, BranchStaysInside
  <2>5. pc' \in Int
    BY <2>2, <2>3, BranchTargetRange
  <2> QED
    BY <1>1, <2>1, <2>4, <2>5
<1>2. FlowInv /\ [Next]_vars
        => [pc' <= pc /\ status' = "running" =>
              \E q \in Enclosing(code, pc) : code[q].op = "Loop" /\ pc' = q + 1]_vars
  BY <1>1
<1> QED
  BY <1>2, FlowInvariant, PTL DEF Spec, BackwardOnlyIntoEnclosingLoop

(* Where a step of a well-formed body that goes forward ends.              *)
ForwardLands ==
  \/ pc' = pc + 1 /\ code[pc].op \notin {"Else", "Br", "BrTable"}
  \/ /\ code[pc].op \in {"If", "Else"} /\ pc' <= CloserOf(code, pc) + 1
     /\ CleanSkip(code, pc) => pc' = CloserOf(code, pc) + 1
  \/ /\ code[pc].op \in BranchOps
     /\ \E j \in DOMAIN code[pc].imms :
          IF CleanBranch(code, pc, code[pc].imms[j])
          THEN pc' = LabelTarget(code, pc, code[pc].imms[j])
          ELSE \E q \in Enclosing(code, pc) :
                 /\ code[q].op = "Block" /\ pc' <= EndOf(code, q) + 1
                 /\ code[pc].imms[j] <= Cardinality({r \in Enclosing(code, pc) : r > q})

LEMMA ForwardStep ==
  ASSUME TypeOK, WellFormedBody(code), Next, pc' > pc
  PROVE  ForwardLands
<1>1. pc \in Nat
  BY DEF TypeOK
<1>2. CASE pc' = pc + 1 /\ code[pc].op \notin {"Else", "Br", "BrTable"}
  BY <1>2 DEF ForwardLands
<1>3. CASE pc \in 1..Len(code) /\ SkipStep
  <2>1. /\ code[pc].op \in {"If", "Else"} /\ pc' <= CloserOf(code, pc) + 1
        /\ CleanSkip(code, pc) => pc' = CloserOf(code, pc) + 1
    BY <1>3, SkipStepIs DEF SkipStep
  <2> QED
    BY <2>1 DEF ForwardLands
<1>4. CASE /\ pc \in 1..Len(code)
           /\ \E j \in DOMAIN code[pc].imms : BranchStep(code[pc].imms[j])
  <2>1. PICK j \in DOMAIN code[pc].imms : BranchStep(code[pc].imms[j])
    BY <1>4
  <2> DEFINE k == code[pc].imms[j]
  <2>2. /\ code \in Seq(Instr) /\ WellNested(code) /\ code[pc].op \in BranchOps
        /\ BranchDefined(code, pc, k) /\ pc' = BranchTarget(code, pc, k)
    BY <1>1, <2>1 DEF TypeOK, WellFormedBody, BranchStep
  <2>3. k \in Nat
    <3>1. code[pc] \in Instr
      BY <1>4, <2>2
    <3>2. code[pc].imms \in Seq(Nat)
      BY <3>1 DEF Instr
    <3> QED
      BY <3>2
  <2>4. CASE CleanBranch(code, pc, k)
    <3>1. pc' = LabelTarget(code, pc, k)
      <4> HIDE DEF k
      <4> QED
        BY <1>4, <2>2, <2>3, <2>4, CleanBranchLands
    <3> QED
      BY <2>2, <2>4, <3>1 DEF ForwardLands
  <2>5. CASE ~CleanBranch(code, pc, k)
    <3>1. PICK q \in Enclosing(code, pc) :
            /\ q \in 1..(pc - 1)
            /\ \/ code[q].op = "Loop" /\ pc' = q + 1
               \/ code[q].op = "Block" /\ pc < pc' /\ pc' <= EndOf(code, q) + 1
            /\ k \in Nat => k <= Cardinality({r \in Enclosing(code, pc) : r > q})
      <4> HIDE DEF k
      <4> QED
        BY <1>4, <2>2, BranchStaysInside
    <3>2. ~(pc' = q + 1)
      BY <1>1, <3>1
    <3>3. code[q].op = "Block" /\ pc' <= EndOf(code, q) + 1
      BY <3>1, <3>2
    <3> QED
      BY <2>2, <2>3, <2>5, <3>1, <3>3 DEF ForwardLands
  <2> QED
    BY <2>4, <2>5
<1> QED
  BY <1>1, <1>2, <1>3, <1>4, StepKinds

(* On well-formed bodies, a forward jump with no if in its way ends just   *)
(* behind what it skips or the construct it leaves; with one in its way, a *)
(* skip ends before, and a branch behind, but within an enclosing Block.   *)
THEOREM ForwardStaysBehindEnd ==
  ASSUME \A c \in Codes : WellFormedBody(c)
  PROVE  Spec => ForwardNeverOvershoots
<1>1. FlowInv /\ [Next]_vars => [pc' > pc => ForwardLands]_vars
  BY ForwardStep DEF FlowInv
<1> QED
  BY <1>1, FlowInvariant, PTL DEF Spec, ForwardNeverOvershoots, ForwardLands

-----------------------------------------------------------------------------
(* Refinement of StructuredControl.                                        *)

(* The mapped stack of labels.                                             *)
LEMMA LabelsAre ==
  /\ Labels = StackOf(Enclosing(code, pc))
  /\ Labels' = StackOf(Enclosing(code', pc'))
BY DEF Labels

(* StructuredControl tells the same opcodes apart.                         *)
LEMMA SameOps ==
  /\ Structured!BlockOps = BlockOps /\ Structured!BranchOps = BranchOps
  /\ Structured!PlainOps = PlainOps /\ Structured!Instr = Instr
BY DEF Structured!BlockOps, BlockOps, Structured!BranchOps, BranchOps, Structured!PlainOps,
       PlainOps, Structured!DataOps, DataOps, Structured!Instr, Instr, Structured!OpCode, OpCode

(* The closers and ends are found by the same counts.                      *)
LEMMA SameJumps ==
  ASSUME NEW c, NEW p
  PROVE  Structured!CloserOf(c, p) = CloserOf(c, p) /\ Structured!EndOf(c, p) = EndOf(c, p)
<1>1. \A S : Structured!Cardinality(S) = Cardinality(S)
  BY DEF Structured!Cardinality, Cardinality
<1>2. \A q : Structured!CloserOf(c, q) = CloserOf(c, q)
  BY <1>1, SameOps DEF Structured!Count, Count, Structured!OpsAt, OpsAt, Structured!Closers, Closers,
         Structured!CloserOf, CloserOf, Structured!Min, Min
<1> QED
  BY <1>2 DEF Structured!EndOf, EndOf

(* The actions of StructuredControl, each with what it asks of pc and      *)
(* Labels.                                                                 *)
LEMMA MapProceed ==
  ASSUME On(PlainOps \cup {"BrIf"}), UNCHANGED <<code, status>>, pc' = pc + 1, Labels' = Labels
  PROVE  Structured!Next
BY SameOps DEF Structured!Next, Structured!Proceed, Structured!On, On

(* An opener pushes its position.                                          *)
LEMMA MapEnter ==
  ASSUME On(BlockOps), UNCHANGED <<code, status>>, pc' = pc + 1, Labels' = Append(Labels, pc)
  PROVE  Structured!Next
BY SameOps DEF Structured!Next, Structured!Enter, Structured!On, On

(* An if whose condition is 0 goes behind its Else or End.                 *)
LEMMA MapEnterElse ==
  ASSUME On({"If"}), UNCHANGED <<code, status>>, pc' = CloserOf(code, pc) + 1,
         Labels' = IF code[pc' - 1].op = "Else" THEN Append(Labels, pc) ELSE Labels
  PROVE  Structured!Next
BY SameJumps DEF Structured!Next, Structured!EnterElse, Structured!On, On

(* An Else or End pops the construct it ends.                              *)
LEMMA MapLeave ==
  ASSUME On({"Else", "End"}), UNCHANGED <<code, status>>,
         pc' = EndOf(code, Labels[Len(Labels)]) + 1,
         Labels' = SubSeq(Labels, 1, Len(Labels) - 1)
  PROVE  Structured!Next
BY SameJumps DEF Structured!Next, Structured!Leave, Structured!On, On, Structured!Last, Structured!Front

(* A branch pops the constructs it leaves.                                 *)
LEMMA MapBranch ==
  ASSUME On(BranchOps), UNCHANGED <<code, status>>,
         NEW j \in DOMAIN code[pc].imms, NEW k, k = code[pc].imms[j],
         NEW o, o = Labels[Len(Labels) - k], k < Len(Labels),
         \/ /\ code[o].op = "Loop" /\ pc' = o + 1
            /\ Labels' = SubSeq(Labels, 1, Len(Labels) - k)
         \/ /\ code[o].op # "Loop" /\ pc' = EndOf(code, o) + 1
            /\ Labels' = SubSeq(Labels, 1, Len(Labels) - k - 1)
  PROVE  Structured!Next
<1>1. Structured!BranchOut(k)
  BY SameJumps DEF Structured!BranchOut
<1> QED
  BY <1>1, SameOps DEF Structured!Next, Structured!Branch, Structured!On, On

(* The call returns or traps.                                              *)
LEMMA MapStop ==
  ASSUME UNCHANGED <<code, pc>>, status = "running", Labels' = Labels,
         \/ (On({"Return"}) \/ pc > Len(code)) /\ status' = "returned"
         \/ On({"Unreachable"}) /\ status' = "aborted"
  PROVE  Structured!Next
BY DEF Structured!Next, Structured!Return, Structured!Trap, Structured!Stop, Structured!On, On

-----------------------------------------------------------------------------
(* A clean jump is defined, so the call never ends as "undefined".         *)
RefInv == TypeOK /\ code \in Codes /\ status # "undefined"

(* What the invariant and the choice of bodies say of the body.            *)
LEMMA BodyFacts ==
  ASSUME \A c \in Codes : BenignBody(c), RefInv
  PROVE  /\ code \in Seq(Instr) /\ code # <<>> /\ pc \in 1..(Len(code) + 1)
         /\ WellFormedBody(code) /\ WellNested(code) /\ Benign(code)
         /\ \A p \in 1..Len(code) : code[p].op = "BrTable" => MaxIndex < Len(code[p].imms)
BY DEF RefInv, TypeOK, BenignBody, WellFormedBody

(* A jump of an if or else is the structured one.                          *)
LEMMA SkipLands ==
  ASSUME \A c \in Codes : BenignBody(c), RefInv, On({"If", "Else"}), Skip
  PROVE  pc \in 1..Len(code) /\ Goto(CloserOf(code, pc) + 1)
<1>1. pc \in 1..Len(code) /\ code[pc].op \in {"If", "Else"}
  BY OnInCode DEF RefInv, On
<1>2. code \in Seq(Instr) /\ WellNested(code) /\ CleanSkip(code, pc)
  BY <1>1, BodyFacts DEF Benign
<1>3. Closers(code, pc) # {}
  BY <1>1, <1>2, HasCloser DEF BlockOps
<1>4. SkipDefined(code, pc) /\ SkipTarget(code, pc) = CloserOf(code, pc) + 1
  BY <1>1, <1>2, <1>3, SkipReachesCloser
<1> QED
  BY <1>1, <1>4 DEF Skip

(* A branch is the structured one to the construct its label names.        *)
LEMMA BranchLands ==
  ASSUME \A c \in Codes : BenignBody(c), RefInv, On(BranchOps),
         NEW j \in DOMAIN code[pc].imms, BranchTo(code[pc].imms[j])
  PROVE  status' # "undefined" /\ Structured!Next
<1> DEFINE k == code[pc].imms[j]
           o == LabelOpener(code, pc, k)
           st == StackOf(Enclosing(code, pc))
<1>1. pc \in 1..Len(code) /\ code[pc].op \in BranchOps
  BY OnInCode DEF RefInv, On
<1>2. /\ code \in Seq(Instr) /\ WellNested(code) /\ CleanBranch(code, pc, k)
      /\ k \in Nat
  <2>1. code[pc] \in Instr
    BY <1>1, BodyFacts
  <2>2. code[pc].imms \in Seq(Nat)
    BY <2>1 DEF Instr
  <2> QED
    BY <1>1, <2>2, BodyFacts DEF Benign
<1>3. k < Cardinality(Enclosing(code, pc))
  BY <1>2 DEF CleanBranch
<1>4. /\ BranchDefined(code, pc, k)
      /\ BranchTarget(code, pc, k) = LabelTarget(code, pc, k)
  BY <1>1, <1>2, CleanBranchLands
<1>5. LabelTarget(code, pc, k) = IF code[o].op = "Loop" THEN o + 1 ELSE EndOf(code, o) + 1
  <2>1. ~(k >= Cardinality(Enclosing(code, pc)))
    <3>1. Cardinality(Enclosing(code, pc)) \in Nat
      <4>1. pc - 1 \in Nat /\ Enclosing(code, pc) \in SUBSET (1..(pc - 1))
        BY <1>1, <1>2, BodyFacts, EnclosingFacts
      <4> QED
        BY <4>1, PositionsFinite
    <3> QED
      BY <1>2, <1>3, <3>1
  <2> QED
    BY <2>1 DEF LabelTarget
<1>6. /\ UNCHANGED <<code, status>>
      /\ pc' = IF code[o].op = "Loop" THEN o + 1 ELSE EndOf(code, o) + 1
  BY <1>4, <1>5 DEF BranchTo, Goto
<1>7. /\ Len(st) = Cardinality(Enclosing(code, pc)) /\ st[Len(st) - k] = o
      /\ StackOf(Enclosing(code, o + 1)) = SubSeq(st, 1, Len(st) - k)
      /\ StackOf(Enclosing(code, EndOf(code, o) + 1)) = SubSeq(st, 1, Len(st) - k - 1)
  BY <1>1, <1>2, <1>3, BranchStack
<1>8. Labels = st /\ Labels' = StackOf(Enclosing(code, pc'))
  BY <1>6, LabelsAre
<1> HIDE DEF o, k, st
<1>9. k < Len(Labels) /\ o = Labels[Len(Labels) - k]
  BY <1>3, <1>7, <1>8
<1>10. \/ /\ code[o].op = "Loop" /\ pc' = o + 1
          /\ Labels' = SubSeq(Labels, 1, Len(Labels) - k)
       \/ /\ code[o].op # "Loop" /\ pc' = EndOf(code, o) + 1
          /\ Labels' = SubSeq(Labels, 1, Len(Labels) - k - 1)
  BY <1>6, <1>7, <1>8
<1>11. Structured!Next
  BY <1>6, <1>9, <1>10, MapBranch DEF k
<1> QED
  BY <1>6, <1>11 DEF RefInv

(* Each step of the interpreter is a step of the structured execution.     *)
LEMMA StepIsStructured ==
  ASSUME \A c \in Codes : BenignBody(c), RefInv, Next
  PROVE  status' # "undefined" /\ Structured!Next
<1> DEFINE st == StackOf(Enclosing(code, pc))
<1>1. /\ code \in Seq(Instr) /\ WellNested(code) /\ pc \in 1..(Len(code) + 1)
      /\ TypeOK /\ status # "undefined"
  BY BodyFacts DEF RefInv
<1>2. ASSUME NEW ops, On(ops)
      PROVE  pc \in 1..Len(code) /\ code[pc].op \in ops /\ status = "running"
  BY <1>1, <1>2, OnInCode DEF On
<1>3. code' = code => Labels' = StackOf(Enclosing(code, pc'))
  BY LabelsAre
<1>4. CASE On(PlainOps \cup {"BrIf"}) /\ Goto(pc + 1)
  <2>1. pc \in 1..Len(code) /\ code[pc].op \notin BlockOps \cup {"End"}
    BY <1>2, <1>4 DEF PlainOps, DataOps, BlockOps
  <2>2. Enclosing(code, pc + 1) = Enclosing(code, pc)
    BY <1>1, <2>1, EnclosingNext
  <2>3. Labels' = Labels
    BY <1>3, <1>4, <2>2, LabelsAre DEF Goto
  <2> QED
    BY <1>1, <1>4, <2>3, MapProceed DEF Goto
<1>5. CASE On(BlockOps) /\ Goto(pc + 1)
  <2>1. Labels' = Append(Labels, pc)
    BY <1>1, <1>2, <1>3, <1>5, EnterStack, LabelsAre DEF Goto
  <2> QED
    BY <1>1, <1>5, <2>1, MapEnter DEF Goto
<1>6. CASE On({"End"}) /\ Goto(pc + 1)
  <2>1. pc \in 1..Len(code) /\ code[pc].op = "End"
    BY <1>2, <1>6
  <2>2. /\ EndOf(code, st[Len(st)]) = pc
        /\ StackOf(Enclosing(code, pc + 1)) = SubSeq(st, 1, Len(st) - 1)
    BY <1>1, <2>1, LeaveStack
  <2>3. /\ pc' = EndOf(code, Labels[Len(Labels)]) + 1
        /\ Labels' = SubSeq(Labels, 1, Len(Labels) - 1)
    BY <1>3, <1>6, <2>2, LabelsAre DEF Goto
  <2>4. On({"Else", "End"}) /\ UNCHANGED <<code, status>>
    BY <1>6 DEF On, Goto
  <2> QED
    BY <1>1, <2>3, <2>4, MapLeave
<1>7. CASE Else
  <2>1. pc \in 1..Len(code) /\ code[pc].op = "Else" /\ Goto(CloserOf(code, pc) + 1)
    <3>1. On({"If", "Else"}) /\ Skip
      BY <1>7 DEF Else, On
    <3> QED
      BY <1>2, <1>7, <3>1, SkipLands DEF Else
  <2>2. /\ EndOf(code, st[Len(st)]) = CloserOf(code, pc)
        /\ StackOf(Enclosing(code, CloserOf(code, pc) + 1)) = SubSeq(st, 1, Len(st) - 1)
    BY <1>1, <2>1, LeaveStack
  <2>3. /\ pc' = EndOf(code, Labels[Len(Labels)]) + 1
        /\ Labels' = SubSeq(Labels, 1, Len(Labels) - 1)
    BY <1>3, <2>1, <2>2, LabelsAre DEF Goto
  <2>4. On({"Else", "End"}) /\ UNCHANGED <<code, status>>
    BY <1>7, <2>1 DEF Else, On, Goto
  <2> QED
    BY <1>1, <2>3, <2>4, MapLeave
<1>8. CASE IfZero
  <2>1. /\ pc \in 1..Len(code) /\ code[pc].op = "If" /\ Goto(CloserOf(code, pc) + 1)
        /\ On({"If"})
    <3>1. On({"If", "Else"}) /\ Skip
      BY <1>8 DEF IfZero, On
    <3> QED
      BY <1>2, <1>8, <3>1, SkipLands DEF IfZero
  <2>2. Closers(code, pc) # {}
    BY <1>1, <2>1, HasCloser DEF BlockOps
  <2>3. CloserOf(code, pc) \in Int
    BY <1>1, <2>1, <2>2, CloserIs
  <2>4. pc' - 1 = CloserOf(code, pc)
    BY <2>1, <2>3 DEF Goto
  <2>5. Labels' = IF code[pc' - 1].op = "Else" THEN Append(Labels, pc) ELSE Labels
    BY <1>1, <1>3, <2>1, <2>4, ElseStack, LabelsAre DEF Goto
  <2> QED
    BY <1>1, <2>1, <2>5, MapEnterElse DEF Goto
<1>9. CASE Br \/ BrIfTaken
  <2>1. On(BranchOps) /\ BranchTo(code[pc].imms[1])
    BY <1>9 DEF Br, BrIfTaken, On, BranchOps
  <2>2. pc \in 1..Len(code) /\ code[pc].op \in BranchOps
    BY <1>2, <2>1
  <2>3. 1 \in DOMAIN code[pc].imms
    <3>1. code[pc] \in Instr /\ code[pc].imms # <<>>
      BY <1>1, <2>2, BodyFacts DEF WellFormedBody
    <3>2. code[pc].imms \in Seq(Nat)
      BY <3>1 DEF Instr
    <3> QED
      BY <3>1, <3>2
  <2> QED
    BY <2>1, <2>3, BranchLands
<1>10. CASE BrTableTaken \/ BrTableOutOfRange
  <2>1. On(BranchOps) /\ On({"BrTable"})
    BY <1>10 DEF BrTableTaken, BrTableOutOfRange, On, BranchOps
  <2>2. pc \in 1..Len(code) /\ code[pc].op = "BrTable"
    BY <1>2, <2>1
  <2>3. /\ code[pc].imms \in Seq(Nat) /\ MaxIndex < Len(code[pc].imms)
        /\ Len(code[pc].imms) \in Nat
    <3>1. code[pc] \in Instr /\ MaxIndex < Len(code[pc].imms)
      BY <1>1, <2>2, BodyFacts
    <3>2. code[pc].imms \in Seq(Nat)
      BY <3>1 DEF Instr
    <3> QED
      BY <3>1, <3>2
  <2>4. ~BrTableOutOfRange
    BY <2>3, FlowIndex DEF BrTableOutOfRange
  <2>5. PICK i \in 0..MaxIndex : i < Len(code[pc].imms) /\ BranchTo(code[pc].imms[i + 1])
    BY <1>10, <2>4 DEF BrTableTaken
  <2>6. i + 1 \in DOMAIN code[pc].imms
    BY <2>3, <2>5, FlowIndex
  <2> QED
    BY <2>1, <2>5, <2>6, BranchLands
<1>11. CASE Return \/ EndOfCode \/ Unreachable
  <2>1. /\ UNCHANGED <<code, pc>> /\ status = "running"
        /\ \/ (On({"Return"}) \/ pc > Len(code)) /\ status' = "returned"
           \/ On({"Unreachable"}) /\ status' = "aborted"
    BY <1>11 DEF Return, EndOfCode, Unreachable, Stop, On
  <2>2. Labels' = Labels
    BY <2>1, LabelsAre
  <2> QED
    BY <2>1, <2>2, MapStop
<1>12. CASE Advance \/ IfNonZero \/ BrIfZero
  <2>1. \/ On(PlainOps \cup {"BrIf"}) /\ Goto(pc + 1)
        \/ On(BlockOps) /\ Goto(pc + 1)
        \/ On({"End"}) /\ Goto(pc + 1)
    BY <1>12 DEF Advance, IfNonZero, BrIfZero, On, BlockOps
  <2> QED
    BY <1>4, <1>5, <1>6, <2>1
<1> QED
  BY <1>7, <1>8, <1>9, <1>10, <1>11, <1>12 DEF Next

(* On bodies whose jumps no if gets in the way of, execute_block is        *)
(* structured execution: with the enclosing constructs of the pc as the    *)
(* stack of labels, every step is one of StructuredControl.                *)
THEOREM ExecutesStructured ==
  ASSUME \A c \in Codes : BenignBody(c)
  PROVE  Spec => Structured!Init /\ [][Structured!Next]_(Structured!vars)
<1>1. Init => RefInv /\ Structured!Init
  <2> SUFFICES ASSUME Init PROVE RefInv /\ Structured!Init
    OBVIOUS
  <2>1. code \in Codes /\ code \in Seq(Instr) /\ code # <<>> /\ pc = 1 /\ status = "running"
    BY FlowCodes DEF Init, BenignBody
  <2>2. RefInv
    BY <2>1 DEF RefInv, TypeOK, Status
  <2>3. Labels = <<>>
    <3>1. Enclosing(code, pc) = {}
      BY <2>1 DEF Enclosing, OpsAt
    <3>2. Cardinality({}) = 0
      BY FS_EmptySet
    <3>3. StackOf({}) = <<>>
      BY <3>2 DEF StackOf
    <3> QED
      BY <3>1, <3>3, LabelsAre
  <2> QED
    BY <2>1, <2>2, <2>3, SameOps DEF Structured!Init
<1>2. RefInv /\ [Next]_vars => RefInv' /\ [Structured!Next]_(Structured!vars)
  <2>1. ASSUME RefInv, UNCHANGED vars
        PROVE  RefInv' /\ UNCHANGED Structured!vars
    <3>1. Labels' = Labels
      BY <2>1, LabelsAre DEF vars
    <3> QED
      BY <2>1, <3>1 DEF vars, RefInv, TypeOK, Structured!vars
  <2>2. ASSUME RefInv, Next
        PROVE  RefInv' /\ Structured!Next
    <3>1. status' # "undefined" /\ Structured!Next
      BY <2>2, StepIsStructured
    <3>2. TypeOK' /\ code' = code
      <4>1. WellFormedBody(code)
        BY <2>2, BodyFacts
      <4> QED
        BY <2>2, <4>1, NextType, StepKinds DEF RefInv
    <3> QED
      BY <2>2, <3>1, <3>2 DEF RefInv
  <2> QED
    BY <2>1, <2>2
<1> QED
  BY <1>1, <1>2, PTL DEF Spec
=============================================================================
