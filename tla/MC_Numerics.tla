------------------------------ MODULE MC_Numerics ------------------------------
(***************************************************************************)
(* All pairs of 4-bit words, and of 8-bit words those around the limits;   *)
(* floats of 4 and 6 bits around the limits of the integer types.          *)
(***************************************************************************)
EXTENDS NumericSemantics

AllWords == 0..(2^W32 - 1)
Limits   == {0, 1, 2, 3, 6, 7, 8, 9, 15, 16, 17, 64, 85, 127, 128, 129, 200, 254, 255}
Magnitudes == (0..20) \cup {22, 29, 30, 31, 32, 33, 36, 60, 62, 64, 68, 254, 256, 264, 504, 508, 512, 520, 544}
=============================================================================
