---------------------------- MODULE MCLLMClient ----------------------------
(* Model values for the runs of LLMClient. *)
EXTENDS LLMClient

CONSTANTS r1, r2, r3

ThreeRequests == {r1, r2, r3}
=============================================================================
