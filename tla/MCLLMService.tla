---------------------------- MODULE MCLLMService ----------------------------
(* Model values for LLMService. *)
EXTENDS LLMService
CONSTANTS r1, r2, w1, w2, openai, ollama
=============================================================================
