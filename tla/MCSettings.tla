------------------------------- MODULE MCSettings -------------------------------
(* Model values for Settings. *)
EXTENDS Settings
CONSTANTS openai, ollama
TwoProviders == {openai, ollama}
================================================================================
