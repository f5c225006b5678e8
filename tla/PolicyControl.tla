--------------------------- MODULE PolicyControl ---------------------------
(***************************************************************************)
(* Guardrails and workflows together, as one gateway runs them:            *)
(*   - the admin handlers that change them, serialized by mutationMu       *)
(*     (internal/admin/handler_guardrails.go, handler_workflows.go);       *)
(*   - the two background refreshes, and RefreshRuntime, which calls the   *)
(*     same two functions;                                                 *)
(*   - start-up (internal/app/app.go), and a crash at any moment;          *)
(*   - requests, which match a workflow and later ask for its pipeline;    *)
(*   - writes this gateway is not told of: another instance's, or its own  *)
(*     whose call reported an error after it took effect.                  *)
(*                                                                         *)
(* A handler that waits for mutationMu has not begun.                      *)
(***************************************************************************)
EXTENDS WorkflowService

CONSTANTS Admins,       \* admin requests in progress
          Requests,     \* model requests in progress
          ConfigRules,  \* guardrails in this gateway's configuration
          MaxUnseen     \* bound on the writes it is not told of

Startup == "startup"
Loops   == {"guardrails-loop", "workflows-loop"}
Tasks   == Admins \cup {Startup}

ASSUME PolicyAssumption == /\ ConfigRules \in RefSets
                           /\ Admins \cap (Loops \cup {Startup, Nobody}) = {}
                           /\ MaxUnseen \in Nat

VARIABLES mutationMu,   \* the admin request that holds it
          task,         \* where each admin request and start-up are
          request       \* the version each model request matched, or none

(* History: what the properties remember and the code does not. *)
VARIABLES unseen,       \* writes so far this gateway was not told of
          acked,        \* the revision of each guardrail a client was told of
          created,      \* versions whose creation a client was told of
          retired       \* versions whose deactivation a client was told of

history == <<unseen, acked, created, retired>>
vars    == <<guardVars, workflowVars, mutationMu, task, request, history>>

BootSteps  == {"seed", "seeding", "seeded", "compile", "ensure", "load",
               "loading", "up", "down"}
AdminSteps == {"idle", "upsert", "delete", "remove", "publish", "refresh",
               "refreshing", "create", "activate", "deactivate", "unmatch"}
NoTask == [pc |-> "idle", names |-> {}, version |-> 0, scope |-> GlobalScope,
           compiled |-> NoPipeline]
NoRequest == 0

(* Who is where holds what; only a refresh has rows in hand. *)
LocksHeld ==
    /\ \A a \in Admins :
        /\ mutationMu = a <=> task[a].pc # "idle"
        /\ gHolder = a <=> task[a].pc \in {"upsert", "remove", "publish"}
        /\ wHolder = a <=> task[a].pc \in {"refreshing", "activate", "unmatch"}
    /\ gHolder = Startup <=> task[Startup].pc \in {"seeding", "seeded"}
    /\ wHolder = Startup <=> task[Startup].pc = "loading"

TypeOK ==
    /\ gStore \in Definitions /\ gSnapshot \in Definitions
    /\ gNext \in Definitions /\ revision \in Revision
    /\ versions \in [VersionIDs -> Row]
    /\ matchAt \in [Scopes -> {0} \cup VersionIDs]
    /\ byVersionID \in SUBSET VersionIDs
    /\ pipeline \in [VersionIDs -> Definitions]
    /\ pending \in SUBSET VersionIDs
    /\ next \in [at : [Scopes -> {0} \cup VersionIDs], ids : SUBSET VersionIDs,
                 pipeline : [VersionIDs -> Definitions]]
    /\ gHolder \in Tasks \cup Loops \cup {Nobody}
    /\ wHolder \in Tasks \cup Loops \cup {Nobody}
    /\ mutationMu \in Admins \cup {Nobody}
    /\ task \in [Tasks -> [pc : BootSteps \cup AdminSteps,
                           names : SUBSET Guardrails,
                           version : {0} \cup VersionIDs, scope : Scopes,
                           compiled : Definitions]]
    /\ request \in [Requests -> {NoRequest} \cup VersionIDs]
    /\ unseen \in 0 .. MaxUnseen
    /\ acked \in Definitions
    /\ created \in SUBSET VersionIDs
    /\ retired \in SUBSET VersionIDs
    /\ LocksHeld

(* An empty database, and the process about to start. *)
Init ==
    /\ gStore = NoPipeline /\ gSnapshot = NoPipeline /\ gNext = NoPipeline
    /\ gHolder = Nobody /\ revision = 1
    /\ versions \in [VersionIDs -> {[state |-> "unused", scope |-> GlobalScope,
                                     refs |-> ConfigRules, managed |-> FALSE]}]
    /\ matchAt = EmptySnapshot.at /\ byVersionID = {}
    /\ pipeline = EmptySnapshot.pipeline
    /\ wHolder = Nobody /\ pending = {} /\ next = EmptySnapshot
    /\ mutationMu = Nobody
    /\ task = [t \in Tasks |-> IF t = Startup THEN [NoTask EXCEPT !.pc = "seed"]
                                              ELSE NoTask]
    /\ request = [r \in Requests |-> NoRequest]
    /\ unseen = 0 /\ acked = NoPipeline /\ created = {} /\ retired = {}

Up       == task[Startup].pc = "up"
At(t, l) == task[t].pc = l
GoTo(t, l) == task' = [task EXCEPT ![t].pc = l]

-----------------------------------------------------------------------------
(* Admin handlers.  Each holds mutationMu until it answers. *)

(* Mutant: the handler forgets mutationMu. *)
BeginUnlocked(a, op) ==
    /\ Up
    /\ task[a].pc = "idle"
    /\ mutationMu' = a
    /\ task' = [task EXCEPT ![a] = op]
    /\ UNCHANGED <<request, history>>

Begin(a, op) ==
    /\ Up
    /\ mutationMu = Nobody
    /\ mutationMu' = a
    /\ task' = [task EXCEPT ![a] = op]
    /\ UNCHANGED <<request, history>>

Answer(a) ==
    /\ mutationMu' = Nobody
    /\ task' = [task EXCEPT ![a] = NoTask]
    /\ UNCHANGED request

Continue(a, l) == GoTo(a, l) /\ UNCHANGED <<mutationMu, request, history>>

(* UpsertGuardrail, up to the snapshot guardrails.Upsert builds. *)
StartUpsert(a, g) ==
    /\ Begin(a, [NoTask EXCEPT !.pc = "upsert", !.names = {g}])
    /\ revision < MaxRevision
    /\ revision' = revision + 1
    /\ BuildSnapshot(a, [gStore EXCEPT ![g] = revision + 1])
    /\ UNCHANGED workflowVars

WriteUpsert(a) ==
    /\ At(a, "upsert")
    /\ WriteDefinitions(a, task[a].names)
    /\ Continue(a, "publish")
    /\ UNCHANGED workflowVars

(* Mutant: the references are not looked up. *)
StartDeleteUnchecked(a, g) ==
    /\ Begin(a, [NoTask EXCEPT !.pc = "delete", !.names = {g}])
    /\ UNCHANGED <<guardVars, workflowVars>>

(* DeleteGuardrail: refused while an active row of the table names it. *)
StartDelete(a, g) ==
    /\ \A v \in Active : g \notin versions[v].refs
    /\ Begin(a, [NoTask EXCEPT !.pc = "delete", !.names = {g}])
    /\ UNCHANGED <<guardVars, workflowVars>>

BuildDelete(a) ==
    /\ At(a, "delete")
    /\ \E g \in task[a].names : BuildSnapshot(a, [gStore EXCEPT ![g] = 0])
    /\ UNCHANGED revision
    /\ Continue(a, "remove")
    /\ UNCHANGED workflowVars

RemoveGuardrail(a) ==
    /\ At(a, "remove")
    /\ \E g \in task[a].names : RemoveDefinition(a, g)
    /\ Continue(a, "publish")
    /\ UNCHANGED workflowVars

(* The store refuses the write, or the row is gone. *)
GuardrailWriteFails(a) ==
    /\ At(a, "upsert") \/ At(a, "remove")
    /\ AbandonGuardrails(a)
    /\ Answer(a)
    /\ UNCHANGED <<workflowVars, history>>

PublishDefinitions(a) ==
    /\ At(a, "publish")
    /\ PublishGuardrails(a)
    /\ task' = [task EXCEPT ![a].pc = "refresh", ![a].compiled = gNext]
    /\ UNCHANGED <<workflowVars, mutationMu, request, history>>

(* refreshWorkflowsAfterGuardrailChange. *)
StartRefresh(a) ==
    /\ At(a, "refresh")
    /\ ListActive(a)
    /\ Continue(a, "refreshing")
    /\ UNCHANGED guardVars

RefreshRefused(a) ==
    /\ \/ At(a, "refresh") /\ UNCHANGED workflowVars
       \/ At(a, "refreshing") /\ RefreshFails(a)
    /\ Answer(a)
    /\ UNCHANGED <<guardVars, history>>

AckGuardrail(a) ==
    /\ At(a, "refreshing")
    /\ PublishRefresh(a)
    /\ acked' = [g \in Guardrails |-> IF g \in task[a].names
                                      THEN task[a].compiled[g] ELSE acked[g]]
    /\ Answer(a)
    /\ UNCHANGED <<guardVars, unseen, created, retired>>

(* CreateWorkflow: the candidate is compiled before refreshMu is taken. *)
StartCreate(a, scope, refs) ==
    /\ CanBuild(refs)
    /\ Begin(a, [pc |-> "create", names |-> refs, version |-> 0, scope |-> scope,
                 compiled |-> BuildPipeline(refs)])
    /\ UNCHANGED <<guardVars, workflowVars>>

InsertVersion(a) ==
    /\ At(a, "create")
    /\ wHolder = Nobody
    /\ wHolder' = a
    /\ HasRoom
    /\ versions' = Inserted(task[a].scope, task[a].names, FALSE)
    /\ task' = [task EXCEPT ![a].pc = "activate", ![a].version = NewID]
    /\ UNCHANGED <<guardVars, snapshotVars, pending, next, mutationMu, request,
                   history>>

ActivateVersion(a) ==
    /\ At(a, "activate")
    /\ Activate(task[a].version, task[a].scope, task[a].compiled)
    /\ Unlock(a)
    /\ created' = (created \cap Active) \cup {task[a].version}
    /\ Answer(a)
    /\ UNCHANGED <<guardVars, versions, unseen, acked, retired>>

(* DeactivateWorkflow: the row is read before refreshMu is taken. *)
StartDeactivate(a, v) ==
    /\ v \in Active
    /\ versions[v].scope # GlobalScope
    /\ Begin(a, [NoTask EXCEPT !.pc = "deactivate", !.version = v,
                               !.scope = versions[v].scope])
    /\ UNCHANGED <<guardVars, workflowVars>>

WriteDeactivate(a) ==
    /\ At(a, "deactivate")
    /\ wHolder = Nobody
    /\ wHolder' = a
    /\ task[a].version \in Active
    /\ versions' = Deactivated(task[a].version)
    /\ Continue(a, "unmatch")
    /\ UNCHANGED <<guardVars, snapshotVars, pending, next>>

UnmatchVersion(a) ==
    /\ At(a, "unmatch")
    /\ Unmatch(task[a].version, task[a].scope)
    /\ Unlock(a)
    /\ retired' = retired \cup {task[a].version}
    /\ Answer(a)
    /\ UNCHANGED <<guardVars, versions, unseen, acked, created>>

(* The store refuses the write; or the row to deactivate is not active. *)
WorkflowWriteFails(a) ==
    /\ At(a, "create") \/ At(a, "deactivate")
    /\ wHolder = Nobody
    /\ Answer(a)
    /\ UNCHANGED <<guardVars, workflowVars, history>>

AdminStep(a) ==
    \/ WriteUpsert(a) \/ BuildDelete(a) \/ RemoveGuardrail(a)
    \/ GuardrailWriteFails(a) \/ PublishDefinitions(a)
    \/ StartRefresh(a) \/ RefreshRefused(a) \/ AckGuardrail(a)
    \/ InsertVersion(a) \/ ActivateVersion(a)
    \/ WriteDeactivate(a) \/ UnmatchVersion(a) \/ WorkflowWriteFails(a)

StartAdmin(a) ==
    \/ \E g \in Guardrails : StartUpsert(a, g) \/ StartDelete(a, g)
    \/ \E s \in Scopes, refs \in RefSets : StartCreate(a, s, refs)
    \/ \E v \in VersionIDs : StartDeactivate(a, v)

-----------------------------------------------------------------------------
(* Background: the guardrails are reloaded, then or before the workflows.  *)

Alive == task[Startup].pc # "down"

LoadGuardrails ==
    /\ Alive
    /\ task[Startup].pc # "seed"
    /\ BuildSnapshot("guardrails-loop", gStore)
    /\ UNCHANGED <<revision, workflowVars, mutationMu, task, request, history>>

SwapGuardrails ==
    /\ PublishGuardrails("guardrails-loop")
    /\ UNCHANGED <<workflowVars, mutationMu, task, request, history>>

ListWorkflows ==
    /\ Alive
    /\ task[Startup].pc \notin {"seed", "seeding", "seeded"}
    /\ ListActive("workflows-loop")
    /\ UNCHANGED <<guardVars, mutationMu, task, request, history>>

(* Whoever refreshes compiles the rows it has listed, one by one. *)
CompileRow ==
    /\ \E p \in Tasks \cup Loops : CompileNext(p)
    /\ UNCHANGED <<guardVars, mutationMu, task, request, history>>

SwapWorkflows ==
    /\ \/ PublishRefresh("workflows-loop")
       \/ RefreshFails("workflows-loop")
    /\ UNCHANGED <<guardVars, mutationMu, task, request, history>>

-----------------------------------------------------------------------------
(* Start-up.  What EnsureDefaultGlobal loads when it writes nothing is     *)
(* loaded again by the Refresh after it.                                   *)

BootStep(from, to) ==
    /\ At(Startup, from)
    /\ GoTo(Startup, to)
    /\ UNCHANGED <<mutationMu, request>>

(* UpsertDefinitions of the configured rules; revision 1 is theirs. *)
Seed ==
    /\ BootStep("seed", "seeding")
    /\ BuildSnapshot(Startup, [g \in Guardrails |->
                                 IF g \in ConfigRules THEN 1 ELSE gStore[g]])
    /\ UNCHANGED <<revision, workflowVars, history>>

WriteSeed ==
    /\ BootStep("seeding", "seeded")
    /\ WriteDefinitions(Startup, ConfigRules)
    /\ acked' = [g \in Guardrails |-> IF g \in ConfigRules THEN 1 ELSE acked[g]]
    /\ UNCHANGED <<workflowVars, unseen, created, retired>>

PublishSeed ==
    /\ BootStep("seeded", "compile")
    /\ PublishGuardrails(Startup)
    /\ UNCHANGED <<workflowVars, history>>

CompileDefault ==
    /\ At(Startup, "compile")
    /\ task' = [task EXCEPT
                  ![Startup].pc = IF CanBuild(ConfigRules) THEN "ensure" ELSE "down",
                  ![Startup].compiled = BuildPipeline(ConfigRules)]
    /\ UNCHANGED <<guardVars, workflowVars, mutationMu, request, history>>

(* store.EnsureManagedDefaultGlobal leaves a row alone that an admin wrote *)
(* or that says the same.                                                  *)
DefaultStands == \E v \in Active : /\ versions[v].scope = GlobalScope
                                   /\ \/ ~versions[v].managed
                                      \/ versions[v].refs = ConfigRules

EnsureDefault ==
    /\ BootStep("ensure", "load")
    /\ wHolder = Nobody
    /\ \/ DefaultStands /\ UNCHANGED <<versions, snapshotVars>>
       \/ /\ ~DefaultStands
          /\ HasRoom
          /\ versions' = Inserted(GlobalScope, ConfigRules, TRUE)
          /\ Activate(NewID, GlobalScope, task[Startup].compiled)
    /\ UNCHANGED <<guardVars, buildVars, history>>

Load ==
    /\ BootStep("load", "loading")
    /\ ListActive(Startup)
    /\ UNCHANGED <<guardVars, history>>

FinishLoad ==
    /\ \/ BootStep("loading", "up") /\ PublishRefresh(Startup)
       \/ BootStep("loading", "down") /\ RefreshFails(Startup)
    /\ UNCHANGED <<guardVars, history>>

Boot == Seed \/ WriteSeed \/ PublishSeed \/ CompileDefault \/ EnsureDefault
        \/ Load \/ FinishLoad

(* The process ends, at any moment, and is started again. *)
Restart ==
    /\ gSnapshot' = NoPipeline /\ gNext' = NoPipeline /\ gHolder' = Nobody
    /\ matchAt' = EmptySnapshot.at /\ byVersionID' = {}
    /\ pipeline' = EmptySnapshot.pipeline
    /\ wHolder' = Nobody /\ pending' = {} /\ next' = EmptySnapshot
    /\ mutationMu' = Nobody
    /\ task' = [t \in Tasks |-> IF t = Startup THEN [NoTask EXCEPT !.pc = "seed"]
                                               ELSE NoTask]
    /\ request' = [r \in Requests |-> NoRequest]
    /\ UNCHANGED <<gStore, revision, versions, history>>

-----------------------------------------------------------------------------
(* Requests: ApplyWorkflowPolicy keeps the version that matched;           *)
(* PatchChatRequest asks for its pipeline later.                           *)

MatchWorkflow(r, sel) ==
    /\ Up
    /\ request[r] = NoRequest
    /\ request' = [request EXCEPT ![r] = Match(sel)]
    /\ UNCHANGED <<guardVars, workflowVars, mutationMu, task, history>>

(* What the request is patched with. *)
Applied(r) == PipelineForWorkflow(request[r])

PatchRequest(r) ==
    /\ request[r] # NoRequest
    /\ request' = [request EXCEPT ![r] = NoRequest]
    /\ UNCHANGED <<guardVars, workflowVars, mutationMu, task, history>>

RequestStep(r) == (\E sel \in Selectors : MatchWorkflow(r, sel)) \/ PatchRequest(r)

-----------------------------------------------------------------------------
(* Writes the gateway is not told of.  Another instance compiles against a *)
(* snapshot of its own, which may be older than the table.                 *)

OtherUpsert(g) ==
    /\ revision < MaxRevision
    /\ revision' = revision + 1
    /\ gStore' = [gStore EXCEPT ![g] = revision + 1]
    /\ UNCHANGED versions

OtherDelete(g) ==
    /\ gStore[g] # 0
    /\ \A v \in Active : g \notin versions[v].refs
    /\ gStore' = [gStore EXCEPT ![g] = 0]
    /\ UNCHANGED <<revision, versions>>

OtherCreate(scope, refs, managed) ==
    /\ HasRoom
    /\ managed => scope = GlobalScope
    /\ versions' = Inserted(scope, refs, managed)
    /\ UNCHANGED <<revision, gStore>>

OtherDeactivate(v) ==
    /\ v \in Active
    /\ versions[v].scope # GlobalScope
    /\ versions' = Deactivated(v)
    /\ UNCHANGED <<revision, gStore>>

UnseenWrite ==
    /\ unseen < MaxUnseen
    /\ unseen' = unseen + 1
    /\ \/ \E g \in Guardrails : OtherUpsert(g) \/ OtherDelete(g)
       \/ \E s \in Scopes, refs \in RefSets, m \in BOOLEAN : OtherCreate(s, refs, m)
       \/ \E v \in VersionIDs : OtherDeactivate(v)
    /\ UNCHANGED <<gSnapshot, gNext, gHolder, snapshotVars, buildVars, mutationMu,
                   task, request, acked, created, retired>>

Next ==
    \/ \E a \in Admins : StartAdmin(a) \/ AdminStep(a)
    \/ LoadGuardrails \/ SwapGuardrails
    \/ ListWorkflows \/ CompileRow \/ SwapWorkflows
    \/ Boot \/ Restart
    \/ \E r \in Requests : RequestStep(r)
    \/ UnseenWrite

Spec == Init /\ [][Next]_vars

-----------------------------------------------------------------------------
(* A guardrail change that was answered with success is in every pipeline  *)
(* that requests can get: no workflow still runs an older definition,      *)
(* though candidates are compiled outside refreshMu and three tasks        *)
(* rebuild the snapshots.                                                  *)
AckedRevisionServed ==
    \A v \in byVersionID : \A g \in versions[v].refs : pipeline[v][g] >= acked[g]

(* Create "so future requests can match it immediately", Deactivate "so    *)
(* future requests stop matching it immediately" (service.go:218, 247):    *)
(* once answered, no refresh that listed earlier takes that back.          *)
OwnVersionsServed ==
    Up => /\ \A v \in created \cap Active : matchAt[versions[v].scope] = v
          /\ \A v \in retired : \A s \in Scopes : matchAt[s] # v

(* A request whose workflow names a guardrail runs without it only if that *)
(* version was retired in the table since the request matched it.          *)
UnguardedOnlyIfRetired ==
    \A r \in Requests :
        LET v == request[r] IN
        v \in Active => \A g \in versions[v].refs : Applied(r)[g] # 0

(* While nobody else writes, every guardrail an active workflow names is   *)
(* in the table, so that Refresh never fails and the gateway starts again  *)
(* after a crash at any moment.                                            *)
RefsResolvable ==
    unseen = 0 => /\ task[Startup].pc # "down"
                  /\ Up => \A v \in Active : \A g \in versions[v].refs : gStore[g] # 0

(* Requests are only served while the global scope has a workflow; and     *)
(* whatever other scopes have one, that which a request matches covers it, *)
(* and no other that does is more specific: the order                      *)
(* docs/advanced/workflows.mdx:40 gives, for every set of scopes.          *)
FirstIsMostSpecific ==
    [sel \in Selectors |->
        \A scopes \in SUBSET (Covering(sel) \ {GlobalScope}) :
            LET loaded  == scopes \cup {GlobalScope}
                matched == MatchedScope(loaded, CandidatesOf[sel])
            IN  /\ matched \in loaded
                /\ Covers(matched, sel)
                /\ \A t \in loaded : Covers(t, sel) => ~MoreSpecific(t, matched)]

MostSpecificMatched ==
    Up => /\ GlobalScope \in Loaded
          /\ \A sel \in Selectors : FirstIsMostSpecific[sel]
=============================================================================
