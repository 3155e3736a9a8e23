----------------------------- MODULE MCReverse -----------------------------
(* ReverseConnect for TLC: keys are model values.                          *)
EXTENDS ReverseConnect, TLC
=============================================================================
