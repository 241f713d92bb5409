----------------------------- MODULE MCToolCalls -----------------------------
(* ToolCalls with interchangeable ids within the cabinet.                   *)
EXTENDS ToolCalls, TLC

CONSTANTS a, b, c, x

MCSymmetry == Permutations(Cabinet)
==============================================================================
