---------------------------- MODULE MCSignerGuard ----------------------------
(* Small instances of SignerGuard for TLC. *)
EXTENDS SignerGuard, TLC

CONSTANTS k1, k2, h1, h2

MCSymmetry == Permutations(Keys) \cup Permutations(Hashes)
=============================================================================
