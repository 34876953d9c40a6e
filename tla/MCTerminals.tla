------------------------------ MODULE MCTerminals ------------------------------
(* Terminals with one pane to capture, one degraded pane and one session. *)
EXTENDS Terminals

\* No pane is there at first.
Nothing == {{}}
================================================================================
