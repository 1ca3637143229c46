---------------------------- MODULE MC_ControlScan ----------------------------
(***************************************************************************)
(* Model checking of ControlScan: every list, nested or not, of up to 3    *)
(* instructions from a rich alphabet or 5 from a small one (the closed     *)
(* forms have to hold whatever the loops meet), and every well-nested list *)
(* with valid labels of up to 6 or 7 instructions: room for an if-else     *)
(* inside an if-else, and for a branch two constructs deep behind a        *)
(* completed if.                                                           *)
(***************************************************************************)
EXTENDS ControlScan, MC_Codes

ScannedCodes ==
  AnyCodes(Openers \cup {I("Else"), I("End"), I("Nop"), J("Br", <<0>>), J("Br", <<1>>)}, 3)
    \cup AnyCodes({I("Block"), I("If"), I("Else"), I("End"), J("Br", <<0>>)}, 5)
    \cup ValidCodes({J("BrTable", <<0, 1>>), J("BrIf", <<0>>), I("Nop")}, 4)
    \cup ValidCodes({J("Br", <<0>>), I("Nop")}, 6)
    \cup ValidCodes({J("Br", <<1>>)}, 7)
=============================================================================
