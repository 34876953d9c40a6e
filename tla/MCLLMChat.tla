------------------------------ MODULE MCLLMChat ------------------------------
(* Model values for LLMChat. *)
EXTENDS LLMChat, TLC
CONSTANTS r1, r2, w1, openai, t1, t2
RequestSymmetry == Permutations(Requests)
Symmetry == RequestSymmetry \cup Permutations(Tabs)
=============================================================================
