---------------------------- MODULE MC_ControlFlow ----------------------------
(***************************************************************************)
(* Bodies for the runs of ControlFlow: well-nested lists with valid labels.*)
(***************************************************************************)
EXTENDS ControlFlow, MC_Codes

(* What the theorems of ControlFlowProofs ask of the bodies.               *)
ASSUME BodiesWellFormed == \A c \in Codes : WellFormedBody(c)

AllBodies ==
  ValidCodes({J("BrTable", <<1, 0>>), J("BrIf", <<0>>), I("Nop"), I("Return"),
              I("Unreachable")}, 4)
    \cup ValidCodes({J("Br", <<0>>), J("Br", <<1>>)}, 6)
    \cup ValidCodes({J("BrIf", <<1>>)}, 7)

(* Bodies on which no jump has an if in its way.                           *)
BenignBodies ==
  {c \in ValidCodes({J("BrTable", <<1, 0>>), J("BrIf", <<0>>), I("Return"),
                     I("Unreachable")}, 4)
           \cup ValidCodes({J("Br", <<1>>)}, 7) : BenignBody(c)}

LoopBodies == ValidCodes({J("BrIf", <<0>>), I("Nop")}, 5)
IfBodies   == ValidCodes({I("Nop")}, 6)
=============================================================================
