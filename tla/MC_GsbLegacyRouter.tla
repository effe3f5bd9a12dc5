--------------------------- MODULE MC_GsbLegacyRouter ---------------------------
(* Model-checking instances of GsbLegacyRouter. *)
EXTENDS GsbLegacyRouter, TLC

MCSymmetry == Permutations(Keys)
====
