--------------------------- MODULE StructuredControl ---------------------------
(***************************************************************************)
(* What executing a function body means in structured code: a position and *)
(* a stack of the constructs that have been entered and not left.  This is *)
(* the behavior the interpreter announces (src/runtime.cpp:796-797,        *)
(* include/runtime.hpp:53-61) and that ControlFlow, which keeps no stack   *)
(* of labels, is checked to implement.                                     *)
(*                                                                         *)
(* Operands are not represented: a conditional may go either way and a     *)
(* br_table may take any of its labels.                                    *)
(***************************************************************************)
EXTENDS Instructions, SequencesExt

VARIABLES
  code,      \* the body being executed
  at,        \* position of the next instruction
  labels,    \* openers of the constructs execution is in, innermost last
  status     \* "running", "returned" or "trapped"

vars == <<code, at, labels, status>>

On(ops) == status = "running" /\ at <= Len(code) /\ code[at].op \in ops

Init ==
  /\ code \in Seq(Instr) /\ code # <<>>
  /\ at = 1
  /\ labels = <<>>
  /\ status = "running"

Proceed ==
  /\ On(PlainOps \cup {"BrIf"})
  /\ at' = at + 1
  /\ UNCHANGED <<code, labels, status>>

Enter ==
  /\ On(BlockOps)
  /\ at' = at + 1
  /\ labels' = Append(labels, at)
  /\ UNCHANGED <<code, status>>

(* The condition is 0: continue in the else arm, or behind an if that has  *)
(* none.                                                                   *)
EnterElse ==
  /\ On({"If"})
  /\ at' = CloserOf(code, at) + 1
  /\ labels' = IF code[at' - 1].op = "Else" THEN Append(labels, at) ELSE labels
  /\ UNCHANGED <<code, status>>

(* The End of a construct, or the Else that ends the first arm of an if.   *)
Leave ==
  /\ On({"Else", "End"})
  /\ at' = EndOf(code, Last(labels)) + 1
  /\ labels' = Front(labels)
  /\ UNCHANGED <<code, status>>

(* Label k is the k-th construct from the inside: a loop is restarted and  *)
(* any other construct is left.                                            *)
BranchOut(k) ==
  LET o == labels[Len(labels) - k] IN
  /\ k < Len(labels)
  /\ IF code[o].op = "Loop"
     THEN at' = o + 1 /\ labels' = SubSeq(labels, 1, Len(labels) - k)
     ELSE at' = EndOf(code, o) + 1 /\ labels' = SubSeq(labels, 1, Len(labels) - k - 1)
  /\ UNCHANGED <<code, status>>

Stop(how) == status' = how /\ UNCHANGED <<code, at, labels>>

(* One label more than there are constructs is the function body itself.   *)
Branch ==
  /\ On(BranchOps)
  /\ \E j \in DOMAIN code[at].imms :
       \/ BranchOut(code[at].imms[j])
       \/ code[at].imms[j] = Len(labels) /\ Stop("returned")

Return == (On({"Return"}) \/ (status = "running" /\ at > Len(code))) /\ Stop("returned")

Trap == On({"Unreachable"}) /\ Stop("trapped")

Next == Proceed \/ Enter \/ EnterElse \/ Leave \/ Branch \/ Return \/ Trap

Spec == Init /\ [][Next]_vars /\ WF_vars(Next)
=============================================================================
