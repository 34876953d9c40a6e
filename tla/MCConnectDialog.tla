---------------------------- MODULE MCConnectDialog ----------------------------
(* Model values for ConnectDialog. *)
EXTENDS ConnectDialog, TLC
CONSTANTS r1, r2, h1, h2

Symmetry == Permutations(Conns) \cup Permutations(Keys)

\* A saved SSH host, or a saved tmux session of this machine.
OneRecord == {r1 :> [kind |-> "ssh", host |-> h1] @@ r2 :> None, r1 :> Local @@ r2 :> None}

\* Two saved SSH hosts.
TwoRecords == {r1 :> [kind |-> "ssh", host |-> h1] @@ r2 :> [kind |-> "ssh", host |-> h2]}
================================================================================
