-------------------------- MODULE MCModelRegistry --------------------------
(* Two providers offer the same model; the second list has dropped it. *)
EXTENDS ModelRegistry

CONSTANTS openai, azure, gpt

MCOrder  == <<openai, azure>>
MCCovers == [g \in List |-> IF g = 1 THEN {gpt} ELSE {}]
=============================================================================
