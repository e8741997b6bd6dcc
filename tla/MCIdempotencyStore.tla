------------------------- MODULE MCIdempotencyStore -------------------------
(***************************************************************************)
(* Instances of IdempotencyStore for TLC: three calls share a key, a       *)
(* fourth has its own.                                                     *)
(***************************************************************************)
EXTENDS IdempotencyStore, TLC

CONSTANTS c1, c2, c3, c4, k1, k2

SharedKey == c1 :> k1 @@ c2 :> k1 @@ c3 :> k1 @@ c4 :> k2

OneKey == c1 :> k1 @@ c2 :> k1 @@ c3 :> k1

CallSymmetry == Permutations({c1, c2, c3})
=============================================================================
