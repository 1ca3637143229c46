------------------------------- MODULE MC_Codes -------------------------------
(***************************************************************************)
(* Finite sets of instruction lists for model checking: the well-nested    *)
(* lists that a wasm function body decodes to, generated by their grammar, *)
(* and, for comparison, every list over a few instructions.                *)
(***************************************************************************)
EXTENDS Instructions, SequencesExt

I(op)     == [op |-> op, imms |-> <<>>]
J(op, ks) == [op |-> op, imms |-> ks]

(* The well-nested lists of n parts, from those of fewer parts (S[m + 1]   *)
(* holds the lists of m parts): a list starts with a phrase of Phrases,    *)
(* with a construct that a phrase of Opens opens, or with an if that has   *)
(* an else.                                                                *)
BodiesOfLength(Phrases, Opens, Ifs, S, n) ==
  {l \o s : l \in Phrases, s \in S[n]}
  \cup UNION {{o \o a \o <<I("End")>> \o s :
                 o \in Opens, a \in S[m], s \in S[n - m]} : m \in 1..(n - 1)}
  \cup UNION {{o \o a \o <<I("Else")>> \o b \o <<I("End")>> \o s :
                 o \in Ifs, a \in S[m[1]], b \in S[m[2]], s \in S[n - m[1] - m[2]]} :
               m \in {x \in (1..n) \X (1..n) : x[1] + x[2] < n}}

Phrased(Phrases, Opens, Ifs, N) ==
  UNION Range(FoldLeft(LAMBDA S, n : Append(S, BodiesOfLength(Phrases, Opens, Ifs, S, n)),
                       <<{<<>>}>>, [n \in 1..N |-> n]))

(* All well-nested lists of at most N instructions, with Leaves for those  *)
(* that are not part of a construct.                                       *)
Nested(Leaves, N) ==
  Phrased({<<l>> : l \in Leaves}, {<<I(o)>> : o \in BlockOps}, {<<I("If")>>}, N)

ValidCodes(Leaves, N) == {c \in Nested(Leaves, N) : LabelsValid(c)}

(* Every list of at most N instructions from Alphabet, nested or not.      *)
AnyCodes(Alphabet, N) == UNION {[1..n -> Alphabet] : n \in 0..N}

Openers == {I(o) : o \in BlockOps}
=============================================================================
