---------------------------- MODULE MCEncConfig -----------------------------
(* EncConfig with small numbers for TLC. *)
EXTENDS EncConfig, TLC

CONSTANTS s1, s2, r1, r2

SizeSymmetry == Permutations(Sizes) \cup Permutations(Rates)
=============================================================================
