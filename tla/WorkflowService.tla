-------------------------- MODULE WorkflowService --------------------------
(***************************************************************************)
(* The workflow versions (internal/workflows/service.go): immutable rows   *)
(* of which at most one per scope is active, and the snapshot requests are *)
(* matched against.  Refresh holds refreshMu while it lists the active     *)
(* rows, compiles them one by one and publishes; Create and Deactivate     *)
(* hold it over their write and the edit of the snapshot.                  *)
(*                                                                         *)
(* A payload is the set of guardrails it names (empty when the feature is  *)
(* off), and the compiled workflow its pipeline: the policy's hash is a    *)
(* function of the same descriptors.                                       *)
(***************************************************************************)
EXTENDS GuardrailService, WorkflowMatching, FiniteSetsExt

CONSTANTS Scopes,         \* scopes that workflows are created for
          RefSets,        \* the guardrails a payload may name
          MaxVersions,    \* bound on the rows
          Selectors       \* what a request is matched by

ASSUME WorkflowAssumption == /\ GlobalScope \in Scopes
                             /\ \A refs \in RefSets : refs \subseteq Guardrails
                             /\ MaxVersions \in Nat \ {0}
                             /\ Selectors \subseteq [provider : STRING, model : STRING,
                                                     path : Seq(STRING)]

VersionIDs == 1 .. MaxVersions
Row        == [state : {"unused", "active", "inactive"}, scope : Scopes,
               refs : RefSets, managed : BOOLEAN]

VARIABLES versions,     \* the workflow_versions table
          matchAt,      \* the snapshot: the version at each scope, or 0
          byVersionID,  \* the snapshot: the versions it holds
          pipeline,     \* the snapshot: the pipeline of each of them
          wHolder,      \* who holds refreshMu
          pending,      \* Refresh: listed rows that are not compiled yet
          next          \* Refresh: the snapshot under construction

snapshotVars == <<matchAt, byVersionID, pipeline>>
buildVars    == <<wHolder, pending, next>>
workflowVars == <<versions, snapshotVars, buildVars>>

Active == {v \in VersionIDs : versions[v].state = "active"}

EmptySnapshot == [at       |-> [s \in Scopes |-> 0],
                  ids      |-> {},
                  pipeline |-> [v \in VersionIDs |-> NoPipeline]]

(* store.Create in one transaction: the scope's active row is retired. *)
HasRoom   == \E v \in VersionIDs : versions[v].state = "unused"
NewID     == Min({v \in VersionIDs : versions[v].state = "unused"})
Inserted(scope, refs, managed) ==
    [v \in VersionIDs |->
        IF v = NewID
        THEN [state |-> "active", scope |-> scope, refs |-> refs,
              managed |-> managed]
        ELSE IF v \in Active /\ versions[v].scope = scope
             THEN [versions[v] EXCEPT !.state = "inactive"]
             ELSE versions[v]]

Deactivated(v) == [versions EXCEPT ![v].state = "inactive"]

(* Mutant: the other versions are not copied to the new map. *)
ActivateAlone(v, scope, compiled) ==
    /\ matchAt' = [matchAt EXCEPT ![scope] = v]
    /\ byVersionID' = {v}
    /\ pipeline' = [pipeline EXCEPT ![v] = compiled]

(* storeActivatedCompiledLocked: v replaces what the scope had. *)
Activate(v, scope, compiled) ==
    /\ matchAt' = [matchAt EXCEPT ![scope] = v]
    /\ byVersionID' = (byVersionID \ {matchAt[scope]}) \cup {v}
    /\ pipeline' = [u \in VersionIDs |->
                        IF u = v THEN compiled
                        ELSE IF u = matchAt[scope] THEN NoPipeline
                        ELSE pipeline[u]]

(* Mutant: the version is forgotten, its scope still leads to it. *)
UnmatchID(v, scope) ==
    /\ byVersionID' = byVersionID \ {v}
    /\ pipeline' = [pipeline EXCEPT ![v] = NoPipeline]
    /\ UNCHANGED matchAt

(* storeDeactivatedVersionLocked: whatever the scope has is unmatched. *)
Unmatch(v, scope) ==
    /\ matchAt' = [matchAt EXCEPT ![scope] = 0]
    /\ byVersionID' = byVersionID \ {v}
    /\ pipeline' = [pipeline EXCEPT ![v] = NoPipeline]

-----------------------------------------------------------------------------
(* refreshLocked, by whoever holds refreshMu. *)

ListActive(p) ==
    /\ wHolder = Nobody
    /\ wHolder' = p
    /\ pending' = Active
    /\ next' = EmptySnapshot
    /\ UNCHANGED <<versions, snapshotVars>>

(* The rows come newest first. *)
Compilable(v) == CanBuild(versions[v].refs) /\ next.at[versions[v].scope] = 0

CompileNext(p) ==
    /\ wHolder = p
    /\ pending # {}
    /\ LET v == Max(pending) IN
       /\ Compilable(v)
       /\ pending' = pending \ {v}
       /\ next' = [at       |-> [next.at EXCEPT ![versions[v].scope] = v],
                   ids      |-> next.ids \cup {v},
                   pipeline |-> [next.pipeline EXCEPT
                                   ![v] = BuildPipeline(versions[v].refs)]]
    /\ UNCHANGED <<versions, snapshotVars, wHolder>>

(* Mutant: the early return leaves refreshMu locked. *)
UnlockForgotten(p) ==
    /\ wHolder = p
    /\ UNCHANGED wHolder
    /\ pending' = {}
    /\ next' = EmptySnapshot

Unlock(p) ==
    /\ wHolder = p
    /\ wHolder' = Nobody
    /\ pending' = {}
    /\ next' = EmptySnapshot

(* One row that does not compile, or no global one: nothing is published. *)
RefreshFails(p) ==
    /\ IF pending # {} THEN ~Compilable(Max(pending))
                       ELSE next.at[GlobalScope] = 0
    /\ Unlock(p)
    /\ UNCHANGED <<versions, snapshotVars>>

PublishRefresh(p) ==
    /\ pending = {}
    /\ next.at[GlobalScope] # 0
    /\ matchAt' = next.at
    /\ byVersionID' = next.ids
    /\ pipeline' = next.pipeline
    /\ Unlock(p)
    /\ UNCHANGED versions

-----------------------------------------------------------------------------
(* Match and PipelineForWorkflow read the snapshot without a lock. *)

Loaded     == {s \in Scopes : matchAt[s] # 0}

CandidatesOf == [sel \in Selectors |-> Candidates(sel)]
Match(sel)   == matchAt[MatchedScope(Loaded, CandidatesOf[sel])]

PipelineForWorkflow(v) == IF v \in byVersionID THEN pipeline[v] ELSE NoPipeline
=============================================================================
