---------------------------- MODULE MCLLMRouter ----------------------------
(* The chain of build_router: a primary, a secondary and the mock. *)
EXTENDS LLMRouter

=============================================================================
