------------------------------- MODULE MCCopyMode -------------------------------
(* Model values for CopyMode. *)
EXTENDS CopyMode
CONSTANTS n200, n50
TwoCounts == {n200, n50}
================================================================================
