------------------------------- MODULE Arithmetic -------------------------------
(***************************************************************************)
(* Powers and sums, by which numbers are put together from digits.         *)
(***************************************************************************)
EXTENDS Integers, Sequences

Power(b, n) ==
  LET product[k \in 0..n] == IF k = 0 THEN 1 ELSE b * product[k - 1] IN product[n]

SumOf(terms) ==
  LET sum[k \in 0..Len(terms)] == IF k = 0 THEN 0 ELSE sum[k - 1] + terms[k]
  IN  sum[Len(terms)]
=============================================================================
