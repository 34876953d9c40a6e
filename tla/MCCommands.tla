------------------------------- MODULE MCCommands -------------------------------
(* Model values for Commands: its texts are told apart by nothing but their equality. *)
EXTENDS Commands, TLC
CONSTANTS ls, df
TwoTexts == {ls, df}
TextSymmetry == Permutations(TwoTexts)
================================================================================
