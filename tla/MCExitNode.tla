----------------------------- MODULE MCExitNode -----------------------------
(* ExitNode for TLC: keys are model values.                                *)
EXTENDS ExitNode, TLC
=============================================================================
