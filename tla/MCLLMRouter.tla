--------------------------- MODULE MCLLMRouter ---------------------------
(***************************************************************************)
(* A small instance of LLMRouter: one prompt, asked at every complexity,   *)
(* of a router with every cloud key and of one with none.                  *)
(***************************************************************************)
EXTENDS LLMRouter

MCPrompts == {[words |-> {"field type", "chain"}, types |-> {"integer", "int"}]}
MCKeys    == {{}, {"openai", "anthropic"}}
==========================================================================
