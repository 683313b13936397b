-------------------------- MODULE MCSecureStorage --------------------------
(* Small instances of SecureStorage for TLC. *)
EXTENDS SecureStorage, TLC

CONSTANTS k1, k2, m1, m2, x1

\* The two keys are alike.
Symmetry == Permutations({k1, k2})
=============================================================================
