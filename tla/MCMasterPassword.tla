-------------------------- MODULE MCMasterPassword --------------------------
(* MasterPassword on a small instance.                                      *)
EXTENDS MasterPassword, TLC

Symmetry == Permutations(Keys) \cup Permutations(Vals) \cup Permutations(Passwords)
            \cup Permutations(Callers) \cup Permutations(Rings)
=============================================================================
