------------------------------ MODULE ControlFlow ------------------------------
(***************************************************************************)
(* The control flow of one call of Runtime::execute_block                  *)
(* (src/runtime.cpp:761-1149): the pc over a flat instruction list, moved  *)
(* by skip_control_block and branch_block.  ControlScan models the loops   *)
(* of these two functions; here each is one step to the position it        *)
(* computes (theorem ScanComputesClosedForm of ControlScanProofs).         *)
(*                                                                         *)
(* Operands are abstracted: a popped condition is zero or not, a popped    *)
(* br_table index is any number up to MaxIndex.  The other instructions    *)
(* only move the pc on; module Interpreter gives them their operands.  The *)
(* build is the one with assertions: a failed assert ends the process      *)
(* ("aborted"); an access outside the instruction vector is undefined      *)
(* behavior ("undefined"), after which nothing is said.                    *)
(***************************************************************************)
EXTENDS Instructions

CONSTANTS
  Codes,      \* function bodies; read_expr drops the final End
  MaxIndex    \* largest operand of a br_table considered

ASSUME FlowCodes == Codes \subseteq Seq(Instr)
ASSUME FlowIndex == MaxIndex \in Nat

VARIABLES
  code,      \* the parameter "block"
  pc,        \* the local pc, plus one
  status     \* how the call stands

vars == <<code, pc, status>>

Status == {"running", "returned", "aborted", "undefined"}

TypeOK ==
  /\ code \in Seq(Instr)
  /\ pc \in 1..(Len(code) + 1)
  /\ status \in Status

On(ops) == status = "running" /\ pc <= Len(code) /\ code[pc].op \in ops

(* The call asserts that the list is not empty.                            *)
Init ==
  /\ code \in Codes
  /\ pc = 1
  /\ status = IF code = <<>> THEN "aborted" ELSE "running"

-----------------------------------------------------------------------------
Goto(p) == pc' = p /\ UNCHANGED <<code, status>>
Stop(how) == status' = how /\ UNCHANGED <<code, pc>>

Skip ==
  \/ SkipDefined(code, pc) /\ Goto(SkipTarget(code, pc))
  \/ ~SkipDefined(code, pc) /\ Stop("undefined")

BranchTo(k) ==
  \/ BranchDefined(code, pc, k) /\ Goto(BranchTarget(code, pc, k))
  \/ ~BranchDefined(code, pc, k) /\ Stop("undefined")

(* Instructions after which the loop only increments pc: End, Block and    *)
(* Loop are markers for the scans.                                         *)
Advance == On(PlainOps \cup {"End", "Block", "Loop"}) /\ Goto(pc + 1)

IfNonZero == On({"If"}) /\ Goto(pc + 1)
IfZero    == On({"If"}) /\ Skip

\* Mistake: the second arm is run as well.
ElseFallsThrough == On({"Else"}) /\ Goto(pc + 1)

(* Reached by running off the end of the first arm of an if.               *)
Else == On({"Else"}) /\ Skip

Br        == On({"Br"}) /\ BranchTo(code[pc].imms[1])
BrIfZero  == On({"BrIf"}) /\ Goto(pc + 1)
BrIfTaken == On({"BrIf"}) /\ BranchTo(code[pc].imms[1])

(* imms ends with the default label.  The code asserts that the index is   *)
(* below imms.size() before it looks whether to use the default.           *)
BrTableTaken ==
  /\ On({"BrTable"})
  /\ \E i \in 0..MaxIndex :
       /\ i < Len(code[pc].imms)
       /\ BranchTo(code[pc].imms[i + 1])

BrTableOutOfRange ==
  /\ On({"BrTable"})
  /\ MaxIndex >= Len(code[pc].imms)
  /\ Stop("aborted")

Return == On({"Return"}) /\ Stop("returned")

EndOfCode == status = "running" /\ pc > Len(code) /\ Stop("returned")

Unreachable == On({"Unreachable"}) /\ Stop("aborted")

Next ==
  \/ Advance \/ IfNonZero \/ IfZero \/ Else
  \/ Br \/ BrIfZero \/ BrIfTaken \/ BrTableTaken \/ BrTableOutOfRange
  \/ Return \/ EndOfCode \/ Unreachable

(* The interpreter loop is sequential code: while it can step, it steps.   *)
Spec == Init /\ [][Next]_vars /\ WF_vars(Next)

-----------------------------------------------------------------------------
(* Properties of execution over every validated body.                      *)

(* Execution moves backward only to the first instruction of a loop that   *)
(* contains the instruction that jumps: "for loop pc it is set to the      *)
(* beginning of the loop" (src/runtime.cpp:175).  In particular no jump    *)
(* re-enters a construct that execution has left.                          *)
BackwardOnlyIntoEnclosingLoop ==
  [][pc' <= pc /\ status' = "running" =>
       \E q \in Enclosing(code, pc) : code[q].op = "Loop" /\ pc' = q + 1]_vars

(* A forward jump that no if gets in the way of lands where its construct  *)
(* says: an If or Else just behind its own Else or End, a branch just      *)
(* behind the construct its label names.  A skip with an Else in its way   *)
(* stops too early, never too late; a branch with an If in its way errs    *)
(* outwards: it ends inside or just behind an enclosing Block, the one its *)
(* label names or one around that.  No other instruction jumps, and no     *)
(* Else, br or br_table goes on with the next one.                         *)
ForwardNeverOvershoots ==
  [][pc' > pc =>
       \/ pc' = pc + 1 /\ code[pc].op \notin {"Else", "Br", "BrTable"}
       \/ /\ code[pc].op \in {"If", "Else"} /\ pc' <= CloserOf(code, pc) + 1
          /\ CleanSkip(code, pc) => pc' = CloserOf(code, pc) + 1
       \/ /\ code[pc].op \in BranchOps
          /\ \E j \in DOMAIN code[pc].imms :
               IF CleanBranch(code, pc, code[pc].imms[j])
               THEN pc' = LabelTarget(code, pc, code[pc].imms[j])
               ELSE \E q \in Enclosing(code, pc) :
                      /\ code[q].op = "Block" /\ pc' <= EndOf(code, q) + 1
                      /\ code[pc].imms[j] <= Cardinality({r \in Enclosing(code, pc) : r > q})]_vars

(* The pc leaves the list only through a branch that an if lies in the way *)
(* of, or one to the function body: every other jump is defined.           *)
UndefinedOnlyBehindIf ==
  status = "undefined" =>
    \E j \in DOMAIN code[pc].imms : ~CleanBranch(code, pc, code[pc].imms[j])

(* A body without a loop stops.                                            *)
LoopFreeStops ==
  (\A p \in DOMAIN code : code[p].op # "Loop") ~> (status # "running")

-----------------------------------------------------------------------------
(* Refinement.  The label stack the code does not keep is determined by    *)
(* the pc: the openers of the constructs it lies in, that of label 0 last  *)
(* (the bound variable has TLC determine them once).                       *)

Labels == CHOOSE l \in {StackOf(open) : open \in {Enclosing(code, pc)}} : TRUE

Structured ==
  INSTANCE StructuredControl
    WITH at <- pc, labels <- Labels,
         status <- IF status = "aborted" THEN "trapped" ELSE status

(* A body whose jumps no if gets in the way of, and whose br_tables are    *)
(* longer than any index, so that no index asks for the default.           *)
BenignBody(c) ==
  /\ c # <<>> /\ WellFormedBody(c) /\ Benign(c)
  /\ \A p \in 1..Len(c) : c[p].op = "BrTable" => MaxIndex < Len(c[p].imms)

(* On these bodies, execute_block is structured execution, stack of labels *)
(* and all.                                                                *)
ImplementsStructured == Structured!Spec

-----------------------------------------------------------------------------
(* What the comments promise of the two functions, on every body.          *)

(* "ignore else/end statements of nested ifs!" (src/runtime.cpp:1090-1091):*)
(* an if whose condition is 0 continues behind its own Else or End.        *)
IfZeroFindsOwnElse ==
  [][IfZero => pc' = CloserOf(code, pc) + 1]_vars

(* "for loop pc it is set to the beginning of the loop"                    *)
(* (src/runtime.cpp:175): a branch whose label is the loop it stands in    *)
(* restarts that loop.                                                     *)
BranchRestartsLoop ==
  [][BrIfTaken /\ code[pc].imms[1] = 0 =>
       \A q \in Enclosing(code, pc) :
         q = LabelOpener(code, pc, 0) /\ code[q].op = "Loop" => pc' = q + 1]_vars
=============================================================================
