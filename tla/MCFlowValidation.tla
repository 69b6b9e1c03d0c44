--------------------------- MODULE MCFlowValidation ---------------------------
(* Every graph of three steps, every set of blocking steps, every order.   *)
EXTENDS FlowValidation, TLC
CONSTANTS a, b, c
MCStep == {a, b, c}
Symmetry == Permutations(MCStep)
=============================================================================
