------------------------ MODULE MCBatchOrchestrator ------------------------
(* Model values for the runs of BatchOrchestrator. *)
EXTENDS BatchOrchestrator, TLC

CONSTANTS h1, h2, i1

TwoHandlers == {h1, h2}
OneItem     == {i1}

Interchangeable == Permutations(TwoHandlers)
=============================================================================
