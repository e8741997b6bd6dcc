-------------------------- MODULE MCCredentialVault --------------------------
(***************************************************************************)
(* Instances of CredentialVault for TLC.                                   *)
(***************************************************************************)
EXTENDS CredentialVault, TLC

CONSTANTS f1, h1, h2, i1, i2

TaskSymmetry == Permutations({h1, h2}) \cup Permutations({i1, i2})
==============================================================================
