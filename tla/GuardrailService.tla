-------------------------- MODULE GuardrailService --------------------------
(***************************************************************************)
(* The guardrail definitions (internal/guardrails/service.go): a table in  *)
(* the store and the snapshot that pipelines are built from.  Refresh,     *)
(* Upsert, UpsertDefinitions and Delete hold refreshMu from the moment     *)
(* they list the table until they publish the snapshot they built from it. *)
(*                                                                         *)
(* Of a definition only its revision matters: 0 if there is none, and a    *)
(* number that grows with each write.                                      *)
(***************************************************************************)
EXTENDS Naturals

CONSTANTS Guardrails,     \* names
          MaxRevision     \* bound on the writes of definitions

ASSUME GuardrailAssumption == MaxRevision \in Nat \ {0}

Revision    == 0 .. MaxRevision
Definitions == [Guardrails -> Revision]
Nobody      == "nobody"

(* A pipeline has the revision of each guardrail it runs. *)
NoPipeline  == [g \in Guardrails |-> 0]

VARIABLES gStore,     \* the guardrail_definitions table
          gSnapshot,  \* s.snapshot
          gNext,      \* the snapshot the holder of refreshMu has built
          gHolder,    \* who holds refreshMu
          revision    \* the last revision given out

guardVars == <<gStore, gSnapshot, gNext, gHolder, revision>>

(* Take refreshMu, list the table, apply the change, build a snapshot. *)
BuildSnapshot(p, definitions) ==
    /\ gHolder = Nobody
    /\ gHolder' = p
    /\ gNext' = definitions
    /\ UNCHANGED <<gStore, gSnapshot>>

(* The deferred Unlock; the snapshot that was built is dropped. *)
AbandonGuardrails(p) ==
    /\ gHolder = p
    /\ gHolder' = Nobody
    /\ gNext' = NoPipeline
    /\ UNCHANGED <<gStore, gSnapshot, revision>>

(* store.Upsert or store.UpsertMany of the names in G, as built. *)
WriteDefinitions(p, G) ==
    /\ gHolder = p
    /\ gStore' = [g \in Guardrails |-> IF g \in G THEN gNext[g] ELSE gStore[g]]
    /\ UNCHANGED <<gSnapshot, gNext, gHolder, revision>>

(* store.Delete; it fails with ErrNotFound if the row is gone. *)
RemoveDefinition(p, g) ==
    /\ gHolder = p
    /\ gStore[g] # 0
    /\ gStore' = [gStore EXCEPT ![g] = 0]
    /\ UNCHANGED <<gSnapshot, gNext, gHolder, revision>>

(* s.snapshot = next under mu, and the deferred Unlock of refreshMu. *)
PublishGuardrails(p) ==
    /\ gHolder = p
    /\ gSnapshot' = gNext
    /\ gHolder' = Nobody
    /\ gNext' = NoPipeline
    /\ UNCHANGED <<gStore, revision>>

-----------------------------------------------------------------------------
(* Service.BuildPipeline: the revision of each guardrail a workflow names. *)

CanBuild(refs) == \A g \in refs : gSnapshot[g] # 0

BuildPipeline(refs) == [g \in Guardrails |-> IF g \in refs THEN gSnapshot[g] ELSE 0]
=============================================================================
