--------------------------- MODULE MCInvokeService ---------------------------
(***************************************************************************)
(* Instances of InvokeService for TLC.                                     *)
(***************************************************************************)
EXTENDS InvokeService, TLC

CONSTANTS i1, i2

InvocationSymmetry == Permutations({i1, i2})
==============================================================================
