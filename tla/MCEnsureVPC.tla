----------------------------- MODULE MCEnsureVPC -----------------------------
(***************************************************************************)
(* Small instances of EnsureVPC: attempts are interchangeable.             *)
(***************************************************************************)
EXTENDS EnsureVPC, TLC

CONSTANTS v1, v2, v3

Symmetric == Permutations(Attempts)
=============================================================================
