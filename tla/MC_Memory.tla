------------------------------- MODULE MC_Memory -------------------------------
(***************************************************************************)
(* Memory with pages of 3 bytes in an address space of 12: growing from 1  *)
(* to 2 pages fits, growing to 4 pages wraps the size to 0.                *)
(***************************************************************************)
EXTENDS Memory

SomeOperands == {<<1, 0>>, <<1, 1>>, <<1, 1, 0, 1>>}
SomeSegments == <<<<1, 0, 1>>>>
=============================================================================
