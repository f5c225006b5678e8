------------------------ MODULE PolicyControlProofs ------------------------
(***************************************************************************)
(* For any number of admins, requests, guardrails and workflow versions:   *)
(* a guardrail change that was answered with success is in every pipeline  *)
(* that requests can get (AckedServed), a version that was created or      *)
(* retired here is matched or is not (OwnServed), while nobody else writes *)
(* no active workflow misses a guardrail (Resolvable), a request finds the *)
(* most specific workflow that covers it (SpecificServed), and runs with   *)
(* its guardrails unless that was retired since (GuardedUnlessRetired).    *)
(***************************************************************************)
EXTENDS PolicyControl, SequenceTheorems, WellFoundedInduction, TLAPS

-----------------------------------------------------------------------------
(* The invariant.  An older definition can sit in six places: the table,   *)
(* the snapshot, a snapshot that is being built, the pipelines of a        *)
(* refresh, a candidate and the served pipelines.                          *)

Task == [pc : BootSteps \cup AdminSteps, names : SUBSET Guardrails,
         version : {0} \cup VersionIDs, scope : Scopes, compiled : Definitions]

Written == [state : {"unused", "active", "inactive"}, scope : Scopes,
            refs : SUBSET Guardrails, managed : BOOLEAN]

GuardTyped == /\ gStore \in Definitions /\ gSnapshot \in Definitions
              /\ gNext \in Definitions /\ acked \in Definitions
              /\ revision \in Revision

SnapshotTyped == /\ byVersionID \in SUBSET VersionIDs
                 /\ pipeline \in [VersionIDs -> Definitions]

BuildTyped == /\ pending \in SUBSET VersionIDs
              /\ next.ids \in SUBSET VersionIDs
              /\ next.pipeline \in [VersionIDs -> Definitions]

Typed == /\ GuardTyped /\ SnapshotTyped /\ BuildTyped
         /\ versions \in [VersionIDs -> Written]
         /\ task \in [Tasks -> Task]

(* No admin is served before start-up is over, and nothing is loaded       *)
(* before the configured rules are in.                                     *)
Seeding == task[Startup].pc \in {"seed", "seeding", "seeded"}

Starts == /\ \A a \in Admins : task[a].pc # "idle" => Up
          /\ Seeding => /\ byVersionID = {} /\ next.ids = {} /\ pending = {}
                        /\ wHolder = Nobody

(* A row that was loaded is never written again, but for its state. *)
Used == \A v \in byVersionID \cup next.ids \cup pending : versions[v].state # "unused"

(* Nothing has a revision that was not given out. *)
Bounded ==
    /\ revision >= 1
    /\ \A g \in Guardrails : /\ gStore[g] <= revision /\ gNext[g] <= revision
                             /\ acked[g] <= revision
    /\ \A a \in Admins : task[a].pc \in {"refresh", "refreshing"} =>
           \A g \in Guardrails : task[a].compiled[g] <= revision

(* A definition is absent or at least as new as another. *)
NotBehind(n, m) == n = 0 \/ n >= m

Fresh ==
    \A g \in Guardrails :
        /\ NotBehind(gStore[g], acked[g])
        /\ NotBehind(gSnapshot[g], acked[g])
        /\ \/ g \in ConfigRules /\ At(Startup, "seeding")
           \/ NotBehind(gNext[g], acked[g])

Single(names) == \E g \in Guardrails : names = {g}

(* What an admin is about to be told of is in place. *)
Publishing ==
    \A a \in Admins :
        /\ task[a].pc \in {"delete", "remove"} => Single(task[a].names)
        /\ task[a].pc = "publish" =>
               \A g \in task[a].names : NotBehind(gStore[g], gNext[g])
        /\ task[a].pc \in {"refresh", "refreshing"} =>
               \A g \in task[a].names :
                   /\ NotBehind(gStore[g], task[a].compiled[g])
                   /\ NotBehind(gSnapshot[g], task[a].compiled[g])
                   /\ NotBehind(gNext[g], task[a].compiled[g])

Rebuilding ==
    \A v \in next.ids : \A g \in versions[v].refs :
        /\ next.pipeline[v][g] >= acked[g]
        /\ \A a \in Admins : At(a, "refreshing") /\ g \in task[a].names =>
               next.pipeline[v][g] >= task[a].compiled[g]

Candidate ==
    /\ \A a \in Admins :
        /\ task[a].pc \in {"create", "activate"} =>
               \A g \in task[a].names : task[a].compiled[g] >= acked[g]
        /\ At(a, "activate") => /\ task[a].version \in VersionIDs
                                /\ versions[task[a].version].state # "unused"
                                /\ versions[task[a].version].refs = task[a].names
    /\ At(Startup, "ensure") =>
           \A g \in ConfigRules : task[Startup].compiled[g] >= acked[g]

IInv == /\ Typed /\ LocksHeld /\ Starts /\ Used /\ Bounded /\ Fresh
        /\ Publishing /\ Rebuilding /\ Candidate /\ AckedRevisionServed

-----------------------------------------------------------------------------
(* Sets of numbers. *)

(* A set of numbers that is not empty has a least one. *)
LEMMA MinExists ==
    ASSUME NEW S \in SUBSET Nat, S # {}
    PROVE  \E n \in S : \A k \in S : n <= k
  <1> DEFINE R == {s \in Nat \X Nat : s[1] < s[2]}
  <1>1. IsWellFoundedOn(R, Nat)
    BY NatLessThanWellFounded DEF OpToRel
  <1>2. PICK n \in S : \A k \in S : ~ (<<k, n>> \in R)
    <2> HIDE DEF R
    <2> QED
      BY <1>1, WFMin
  <1>3. \A k \in S : n <= k
    <2> SUFFICES ASSUME NEW k \in S PROVE n <= k
      OBVIOUS
    <2>1. ~ (k < n)
      BY <1>2
    <2>2. QED
      BY <2>1
  <1>4. QED
    BY <1>2, <1>3

LEMMA FreeID ==
    ASSUME HasRoom
    PROVE  NewID \in VersionIDs /\ versions[NewID].state = "unused"
  <1> DEFINE S == {v \in VersionIDs : versions[v].state = "unused"}
  <1>1. S \in SUBSET Nat /\ S # {}
    BY DEF HasRoom, VersionIDs
  <1>2. \E n \in S : \A k \in S : n <= k
    BY <1>1, MinExists
  <1>3. NewID \in S
    BY <1>2 DEF NewID, Min
  <1>4. QED
    BY <1>3

LEMMA NewestPending ==
    ASSUME BuildTyped, pending # {}
    PROVE  Max(pending) \in pending
  <1> DEFINE S == {MaxVersions - v : v \in pending}
  <1>1. MaxVersions \in Nat /\ \A v \in pending : v \in 1 .. MaxVersions
    BY WorkflowAssumption DEF BuildTyped, VersionIDs
  <1>2. S \in SUBSET Nat /\ S # {}
    BY <1>1
  <1>3. PICK n \in S : \A k \in S : n <= k
    BY <1>2, MinExists
  <1>4. PICK u \in pending : n = MaxVersions - u
    BY <1>3
  <1>5. \A v \in pending : u >= v
    <2> SUFFICES ASSUME NEW v \in pending PROVE u >= v
      OBVIOUS
    <2>1. MaxVersions - v \in S
      OBVIOUS
    <2>2. MaxVersions - u <= MaxVersions - v
      BY <1>3, <1>4, <2>1
    <2>3. QED
      BY <1>1, <2>2
  <1>6. QED
    BY <1>5 DEF Max

-----------------------------------------------------------------------------
(* Which steps touch what. *)

GuardrailStep ==
    \/ \E a \in Admins :
        \/ \E g \in Guardrails : StartUpsert(a, g)
        \/ WriteUpsert(a) \/ BuildDelete(a) \/ RemoveGuardrail(a)
        \/ GuardrailWriteFails(a) \/ PublishDefinitions(a)
    \/ LoadGuardrails \/ SwapGuardrails
    \/ Seed \/ WriteSeed \/ PublishSeed \/ Restart \/ UnseenWrite

TableStep ==
    \/ \E a \in Admins : InsertVersion(a) \/ WriteDeactivate(a)
    \/ EnsureDefault \/ UnseenWrite

SnapshotStep ==
    \/ \E a \in Admins : AckGuardrail(a) \/ ActivateVersion(a) \/ UnmatchVersion(a)
    \/ SwapWorkflows \/ EnsureDefault \/ FinishLoad \/ Restart

BuildStep ==
    \/ \E a \in Admins : \/ StartRefresh(a) \/ RefreshRefused(a) \/ AckGuardrail(a)
                         \/ InsertVersion(a) \/ ActivateVersion(a)
                         \/ WriteDeactivate(a) \/ UnmatchVersion(a)
    \/ ListWorkflows \/ CompileRow \/ SwapWorkflows \/ Load \/ FinishLoad \/ Restart

AckStep == (\E a \in Admins : AckGuardrail(a)) \/ WriteSeed

TaskStep == \/ \E a \in Admins : StartAdmin(a) \/ AdminStep(a)
            \/ Boot \/ Restart

LEMMA Frames ==
    ASSUME Next
    PROVE  /\ GuardrailStep \/ UNCHANGED guardVars
           /\ TableStep \/ UNCHANGED versions
           /\ SnapshotStep \/ UNCHANGED snapshotVars
           /\ BuildStep \/ UNCHANGED buildVars
           /\ AckStep \/ UNCHANGED acked
           /\ TaskStep \/ UNCHANGED <<task, mutationMu>>
           /\ (\E a \in Admins : ActivateVersion(a)) \/ UNCHANGED created
           /\ (\E a \in Admins : UnmatchVersion(a)) \/ UNCHANGED retired
           /\ UnseenWrite \/ UNCHANGED unseen
  <1>1. ASSUME NEW a \in Admins, StartAdmin(a)
        PROVE  /\ GuardrailStep \/ UNCHANGED guardVars
               /\ UNCHANGED <<workflowVars, history>>
    BY <1>1 DEF StartAdmin, StartUpsert, StartDelete, StartCreate, StartDeactivate,
                Begin, GuardrailStep, history
  <1>2. ASSUME NEW a \in Admins, AdminStep(a)
        PROVE  /\ GuardrailStep \/ UNCHANGED guardVars
               /\ TableStep \/ UNCHANGED versions
               /\ SnapshotStep \/ UNCHANGED snapshotVars
               /\ BuildStep \/ UNCHANGED buildVars
               /\ AckStep \/ UNCHANGED acked
               /\ ActivateVersion(a) \/ UNCHANGED created
               /\ UnmatchVersion(a) \/ UNCHANGED retired
               /\ UNCHANGED unseen
    <2>1. CASE WriteUpsert(a) \/ BuildDelete(a) \/ RemoveGuardrail(a)
               \/ GuardrailWriteFails(a) \/ PublishDefinitions(a)
      BY <2>1 DEF WriteUpsert, BuildDelete, RemoveGuardrail, GuardrailWriteFails,
                  PublishDefinitions, GuardrailStep, workflowVars, Continue, history
    <2>2. CASE StartRefresh(a) \/ RefreshRefused(a) \/ AckGuardrail(a)
      BY <2>2 DEF StartRefresh, RefreshRefused, AckGuardrail, ListActive, RefreshFails,
                  PublishRefresh, BuildStep, SnapshotStep, AckStep, workflowVars,
                  Continue, history
    <2>3. CASE InsertVersion(a) \/ WriteDeactivate(a)
      BY <2>3 DEF InsertVersion, WriteDeactivate, TableStep, BuildStep, Continue, history
    <2>4. CASE ActivateVersion(a) \/ UnmatchVersion(a) \/ WorkflowWriteFails(a)
      BY <2>4 DEF ActivateVersion, UnmatchVersion, WorkflowWriteFails, SnapshotStep,
                  BuildStep, workflowVars, history
    <2>5. QED
      BY <1>2, <2>1, <2>2, <2>3, <2>4 DEF AdminStep
  <1>3. CASE LoadGuardrails \/ SwapGuardrails
    BY <1>3 DEF LoadGuardrails, SwapGuardrails, GuardrailStep, workflowVars, history
  <1>4. CASE ListWorkflows \/ CompileRow \/ SwapWorkflows
    BY <1>4 DEF ListWorkflows, CompileRow, SwapWorkflows, ListActive, CompileNext,
                PublishRefresh, RefreshFails, BuildStep, SnapshotStep, history
  <1>5. CASE Boot
    BY <1>5 DEF Boot, Seed, WriteSeed, PublishSeed, CompileDefault, EnsureDefault, Load,
                FinishLoad, BootStep, ListActive, PublishRefresh, RefreshFails,
                GuardrailStep, TableStep, SnapshotStep, BuildStep, AckStep, TaskStep,
                workflowVars, history
  <1>6. CASE Restart
    BY <1>6 DEF Restart, GuardrailStep, SnapshotStep, BuildStep, TaskStep, history
  <1>7. CASE \E r \in Requests : RequestStep(r)
    BY <1>7 DEF RequestStep, MatchWorkflow, PatchRequest, workflowVars, history
  <1>8. CASE UnseenWrite
    BY <1>8 DEF UnseenWrite, GuardrailStep, TableStep
  <1>9. QED
    BY <1>1, <1>2, <1>3, <1>4, <1>5, <1>6, <1>7, <1>8
       DEF Next, TaskStep, workflowVars, history

-----------------------------------------------------------------------------
(* Types. *)

LEMMA Constants ==
    /\ Startup \in Tasks /\ Admins \subseteq Tasks /\ Startup \notin Admins
    /\ Nobody \notin Tasks \cup Loops /\ Loops \cap Tasks = {}
    /\ ConfigRules \in SUBSET Guardrails /\ GlobalScope \in Scopes
    /\ NoPipeline \in Definitions /\ NoTask \in Task
    /\ 0 \in Revision /\ 1 \in Revision /\ \A n \in Revision : n \in Nat
  <1>1. /\ ConfigRules \in SUBSET Guardrails /\ GlobalScope \in Scopes
        /\ MaxRevision \in Nat \ {0}
    BY PolicyAssumption, WorkflowAssumption, GuardrailAssumption
  <1>2. NoPipeline \in Definitions /\ 0 \in Revision /\ 1 \in Revision
        /\ \A n \in Revision : n \in Nat
    BY <1>1 DEF NoPipeline, Definitions, Revision
  <1>3. NoTask \in Task
    BY <1>1, <1>2 DEF NoTask, Task, AdminSteps
  <1>4. QED
    BY <1>1, <1>2, <1>3, PolicyAssumption DEF Tasks, Startup, Loops, Nobody

LEMMA GuardNext ==
    ASSUME Typed, GuardrailStep
    PROVE  /\ gStore' \in Definitions /\ gSnapshot' \in Definitions
           /\ gNext' \in Definitions /\ revision' \in Revision
  <1> USE Constants DEF Typed, GuardTyped
  <1>1. ASSUME NEW a \in Admins, NEW g \in Guardrails, StartUpsert(a, g)
        PROVE  /\ gStore' \in Definitions /\ gSnapshot' \in Definitions
               /\ gNext' \in Definitions /\ revision' \in Revision
    <2>1. revision + 1 \in Revision
      BY <1>1, GuardrailAssumption DEF StartUpsert, Revision
    <2>2. [gStore EXCEPT ![g] = revision + 1] \in Definitions
      BY <2>1 DEF Definitions
    <2>3. QED
      BY <1>1, <2>1, <2>2 DEF StartUpsert, BuildSnapshot
  <1>2. ASSUME NEW a \in Admins, WriteUpsert(a) \/ RemoveGuardrail(a)
        PROVE  /\ gStore' \in Definitions /\ gSnapshot' \in Definitions
               /\ gNext' \in Definitions /\ revision' \in Revision
    BY <1>2 DEF WriteUpsert, RemoveGuardrail, WriteDefinitions, RemoveDefinition, Definitions
  <1>3. ASSUME NEW a \in Admins, BuildDelete(a)
        PROVE  /\ gStore' \in Definitions /\ gSnapshot' \in Definitions
               /\ gNext' \in Definitions /\ revision' \in Revision
    <2>1. PICK g \in task[a].names : BuildSnapshot(a, [gStore EXCEPT ![g] = 0])
      BY <1>3 DEF BuildDelete
    <2>2. [gStore EXCEPT ![g] = 0] \in Definitions
      BY DEF Definitions
    <2>3. QED
      BY <1>3, <2>1, <2>2 DEF BuildDelete, BuildSnapshot
  <1>4. ASSUME NEW a \in Admins, GuardrailWriteFails(a) \/ PublishDefinitions(a)
        PROVE  /\ gStore' \in Definitions /\ gSnapshot' \in Definitions
               /\ gNext' \in Definitions /\ revision' \in Revision
    BY <1>4 DEF GuardrailWriteFails, PublishDefinitions, AbandonGuardrails, PublishGuardrails
  <1>5. CASE LoadGuardrails \/ SwapGuardrails \/ PublishSeed \/ Restart
    BY <1>5 DEF LoadGuardrails, SwapGuardrails, PublishSeed, Restart, BuildSnapshot,
                PublishGuardrails
  <1>6. CASE Seed \/ WriteSeed
    BY <1>6 DEF Seed, WriteSeed, BuildSnapshot, WriteDefinitions, Definitions
  <1>7. CASE UnseenWrite
    <2>1. /\ gSnapshot' = gSnapshot /\ gNext' = gNext
          /\ \/ gStore' = gStore /\ revision' = revision
             \/ \E g \in Guardrails : OtherUpsert(g) \/ OtherDelete(g)
      BY <1>7 DEF UnseenWrite, OtherCreate, OtherDeactivate
    <2>2. ASSUME NEW g \in Guardrails, OtherUpsert(g)
          PROVE  gStore' \in Definitions /\ revision' \in Revision
      <3>1. revision + 1 \in Revision
        BY <2>2, GuardrailAssumption DEF OtherUpsert, Revision
      <3>2. QED
        BY <2>2, <3>1 DEF OtherUpsert, Definitions
    <2>3. ASSUME NEW g \in Guardrails, OtherDelete(g)
          PROVE  gStore' \in Definitions /\ revision' \in Revision
      BY <2>3 DEF OtherDelete, Definitions
    <2>4. QED
      BY <2>1, <2>2, <2>3
  <1>8. QED
    BY <1>1, <1>2, <1>3, <1>4, <1>5, <1>6, <1>7 DEF GuardrailStep

LEMMA Compiled ==
    ASSUME Typed
    PROVE  \A refs : BuildPipeline(refs) \in Definitions
  BY Constants DEF BuildPipeline, Typed, GuardTyped, Definitions

(* A row that was written is the same afterwards, but for its state, and   *)
(* it is never activated again.                                            *)
RowKept(v) ==
    /\ versions'[v].state # "unused" /\ versions'[v].refs = versions[v].refs
    /\ versions'[v].scope = versions[v].scope
    /\ versions'[v].state = "active" => versions[v].state = "active"

TableKept == /\ versions' \in [VersionIDs -> Written]
             /\ \A v \in VersionIDs : versions[v].state # "unused" => RowKept(v)

LEMMA InsertedKeeps ==
    ASSUME Typed, HasRoom, NEW s \in Scopes, NEW refs \in SUBSET Guardrails,
           NEW m \in BOOLEAN, versions' = Inserted(s, refs, m)
    PROVE  /\ TableKept
           /\ versions'[NewID].state = "active" /\ versions'[NewID].refs = refs
           /\ versions'[NewID].scope = s
           /\ \A v \in VersionIDs \ {NewID} :
                  versions'[v].state = "active" => versions[v].state = "active"
                                                   /\ versions[v].scope # s
  <1>1. NewID \in VersionIDs /\ versions[NewID].state = "unused"
    BY FreeID
  <1> DEFINE n == NewID
  <1>2. /\ versions'[n] = [state |-> "active", scope |-> s, refs |-> refs, managed |-> m]
        /\ \A v \in VersionIDs \ {n} :
              versions'[v] \in {versions[v], [versions[v] EXCEPT !.state = "inactive"]}
    BY <1>1 DEF Inserted
  <1>3. \A v \in VersionIDs : versions'[v] \in Written
    <2> SUFFICES ASSUME NEW v \in VersionIDs PROVE versions'[v] \in Written
      OBVIOUS
    <2>1. versions[v] \in Written
      BY DEF Typed
    <2> HIDE DEF n
    <2>2. QED
      BY <1>2, <2>1 DEF Written
  <1>4. \A v \in VersionIDs \ {n} : versions[v].state # "unused" => RowKept(v)
    <2> SUFFICES ASSUME NEW v \in VersionIDs \ {n}, versions[v].state # "unused"
                 PROVE  RowKept(v)
      OBVIOUS
    <2>1. versions[v] \in Written
      BY DEF Typed
    <2> HIDE DEF n
    <2>2. QED
      BY <1>2, <2>1 DEF Written, RowKept
  <1>5. versions' \in [VersionIDs -> Written]
    BY <1>3 DEF Inserted
  <1>6. ASSUME NEW v \in VersionIDs \ {n}, versions'[v].state = "active"
        PROVE  versions[v].state = "active" /\ versions[v].scope # s
    <2>1. versions[v] \in Written
      BY DEF Typed
    <2>2. versions'[v] = IF v \in Active /\ versions[v].scope = s
                         THEN [versions[v] EXCEPT !.state = "inactive"] ELSE versions[v]
      BY <1>6 DEF Inserted
    <2> HIDE DEF n
    <2>3. QED
      BY <1>6, <2>1, <2>2 DEF Written, Active
  <1>7. QED
    BY <1>1, <1>2, <1>4, <1>5, <1>6 DEF TableKept

LEMMA DeactivatedKeeps ==
    ASSUME Typed, NEW v \in VersionIDs, versions' = Deactivated(v)
    PROVE  TableKept
  BY DEF TableKept, RowKept, Deactivated, Typed, Written

LEMMA TableNext ==
    ASSUME Typed, TableStep
    PROVE  TableKept
  <1>1. ASSUME NEW a \in Admins, InsertVersion(a)
        PROVE  TableKept
    <2>1. task[a].scope \in Scopes /\ task[a].names \in SUBSET Guardrails
      BY Constants DEF Typed, Task
    <2>2. QED
      BY <1>1, <2>1, InsertedKeeps DEF InsertVersion
  <1>2. ASSUME NEW a \in Admins, WriteDeactivate(a)
        PROVE  TableKept
    <2>1. task[a].version \in VersionIDs
      BY <1>2 DEF WriteDeactivate, Active
    <2>2. QED
      BY <1>2, <2>1, DeactivatedKeeps DEF WriteDeactivate
  <1>3. CASE EnsureDefault
    BY <1>3, InsertedKeeps, Constants DEF EnsureDefault, TableKept, RowKept, Typed
  <1>4. CASE UnseenWrite
    <2>1. ASSUME NEW s \in Scopes, NEW refs \in RefSets, NEW m \in BOOLEAN,
                 OtherCreate(s, refs, m)
          PROVE  TableKept
      <3>1. refs \in SUBSET Guardrails
        BY WorkflowAssumption
      <3>2. QED
        BY <2>1, <3>1, InsertedKeeps DEF OtherCreate
    <2>2. ASSUME NEW v \in VersionIDs, OtherDeactivate(v)
          PROVE  TableKept
      BY <2>2, DeactivatedKeeps DEF OtherDeactivate
    <2>3. ASSUME UNCHANGED versions
          PROVE  TableKept
      BY <2>3 DEF TableKept, RowKept, Typed
    <2>4. QED
      BY <1>4, <2>1, <2>2, <2>3 DEF UnseenWrite, OtherUpsert, OtherDelete
  <1>5. QED
    BY <1>1, <1>2, <1>3, <1>4 DEF TableStep

LEMMA ActivateType ==
    ASSUME Typed, NEW v \in VersionIDs, NEW s, NEW compiled \in Definitions,
           Activate(v, s, compiled)
    PROVE  SnapshotTyped'
  BY Constants DEF Activate, Typed, SnapshotTyped

LEMMA SnapshotNext ==
    ASSUME Typed, Candidate, SnapshotStep
    PROVE  SnapshotTyped'
  <1> USE Constants
  <1>1. ASSUME NEW p, PublishRefresh(p)
        PROVE  SnapshotTyped'
    BY <1>1 DEF PublishRefresh, Typed, SnapshotTyped, BuildTyped
  <1>2. ASSUME UNCHANGED snapshotVars
        PROVE  SnapshotTyped'
    BY <1>2 DEF snapshotVars, Typed, SnapshotTyped
  <1>3. ASSUME NEW a \in Admins, AckGuardrail(a)
        PROVE  SnapshotTyped'
    BY <1>1, <1>3 DEF AckGuardrail
  <1>4. ASSUME NEW a \in Admins, ActivateVersion(a)
        PROVE  SnapshotTyped'
    <2>1. task[a].version \in VersionIDs /\ task[a].compiled \in Definitions
      BY <1>4 DEF ActivateVersion, At, Candidate, Typed, Task
    <2>2. QED
      BY <1>4, <2>1, ActivateType DEF ActivateVersion
  <1>5. ASSUME NEW a \in Admins, UnmatchVersion(a)
        PROVE  SnapshotTyped'
    BY <1>5 DEF UnmatchVersion, Unmatch, Typed, SnapshotTyped
  <1>6. CASE SwapWorkflows
    BY <1>1, <1>2, <1>6 DEF SwapWorkflows, RefreshFails
  <1>7. CASE EnsureDefault
    <2>1. task[Startup].compiled \in Definitions
      BY DEF Typed, Task
    <2>2. QED
      BY <1>2, <1>7, <2>1, FreeID, ActivateType DEF EnsureDefault
  <1>8. CASE FinishLoad
    BY <1>1, <1>2, <1>8 DEF FinishLoad, RefreshFails
  <1>9. CASE Restart
    BY <1>9 DEF Restart, EmptySnapshot, SnapshotTyped
  <1>10. QED
    BY <1>3, <1>4, <1>5, <1>6, <1>7, <1>8, <1>9 DEF SnapshotStep

LEMMA EmptyBuild == EmptySnapshot.ids = {} /\ EmptySnapshot.pipeline \in [VersionIDs -> Definitions]
  BY Constants DEF EmptySnapshot

(* Who lists rows starts from an empty snapshot, and an unlock drops it. *)
BuildDropped == next' = EmptySnapshot /\ pending' \in {{}, Active}

LEMMA BuildCases ==
    ASSUME BuildStep
    PROVE  \/ BuildDropped
           \/ UNCHANGED <<next, pending>>
           \/ CompileRow
  BY DEF BuildStep, StartRefresh, RefreshRefused, AckGuardrail, InsertVersion,
         ActivateVersion, WriteDeactivate, UnmatchVersion, ListWorkflows, SwapWorkflows,
         Load, FinishLoad, Restart, ListActive, RefreshFails, PublishRefresh, Unlock,
         BuildDropped, workflowVars, buildVars

LEMMA CompileFacts ==
    ASSUME Typed, CompileRow
    PROVE  \E v \in pending :
             /\ pending' = pending \ {v} /\ next'.ids = next.ids \cup {v}
             /\ next'.pipeline = [next.pipeline EXCEPT ![v] = BuildPipeline(versions[v].refs)]
             /\ CanBuild(versions[v].refs)
             /\ wHolder' = wHolder /\ wHolder \in Tasks \cup Loops
  <1>1. PICK p \in Tasks \cup Loops : CompileNext(p)
    BY DEF CompileRow
  <1>2. Max(pending) \in pending
    BY <1>1, NewestPending DEF CompileNext, Typed
  <1>3. QED
    BY <1>1, <1>2 DEF CompileNext, Compilable

LEMMA BuildNext ==
    ASSUME Typed, BuildStep
    PROVE  BuildTyped'
  <1>1. CASE BuildDropped
    BY <1>1, EmptyBuild DEF BuildDropped, BuildTyped, Active
  <1>2. CASE UNCHANGED <<next, pending>>
    BY <1>2 DEF Typed, BuildTyped
  <1>3. CASE CompileRow
    <2>1. PICK v \in pending :
             /\ pending' = pending \ {v} /\ next'.ids = next.ids \cup {v}
             /\ next'.pipeline = [next.pipeline EXCEPT ![v] = BuildPipeline(versions[v].refs)]
      BY <1>3, CompileFacts
    <2>2. v \in VersionIDs /\ BuildPipeline(versions[v].refs) \in Definitions
      BY Compiled DEF Typed, BuildTyped
    <2>3. QED
      BY <2>1, <2>2 DEF Typed, BuildTyped
  <1>4. QED
    BY <1>1, <1>2, <1>3, BuildCases

(* A step of one task. *)
LEMMA OneTask ==
    ASSUME Typed, NEW t \in Tasks, NEW x \in Task, task' = [task EXCEPT ![t] = x]
    PROVE  /\ task' \in [Tasks -> Task] /\ task'[t] = x
           /\ \A u \in Tasks \ {t} : task'[u] = task[u]
  BY DEF Typed

LEMMA GoToType ==
    ASSUME Typed, NEW t \in Tasks, NEW l \in BootSteps \cup AdminSteps, GoTo(t, l)
    PROVE  /\ task' \in [Tasks -> Task] /\ task'[t] = [task[t] EXCEPT !.pc = l]
           /\ \A u \in Tasks \ {t} : task'[u] = task[u]
  <1>1. [task[t] EXCEPT !.pc = l] \in Task
    BY DEF Typed, Task
  <1>2. task' = [task EXCEPT ![t] = [task[t] EXCEPT !.pc = l]]
    BY DEF GoTo
  <1>3. QED
    BY <1>1, <1>2, OneTask

LEMMA Started ==
    ASSUME Typed, NEW a \in Admins, NEW x \in Task, Begin(a, x)
    PROVE  /\ task' \in [Tasks -> Task] /\ task'[a] = x
           /\ \A u \in Tasks \ {a} : task'[u] = task[u]
           /\ Up /\ mutationMu = Nobody /\ mutationMu' = a
  BY OneTask, Constants DEF Begin

LEMMA Answered ==
    ASSUME Typed, NEW a \in Admins, Answer(a)
    PROVE  /\ task' \in [Tasks -> Task] /\ task'[a] = NoTask
           /\ \A u \in Tasks \ {a} : task'[u] = task[u]
           /\ mutationMu' = Nobody
  BY OneTask, Constants DEF Answer

(* Where an admin request goes. *)
Moves(a, from, to) == task[a].pc \in from /\ task'[a] = [task[a] EXCEPT !.pc = to]

AdminMoves(a) ==
    /\ task' \in [Tasks -> Task]
    /\ \A u \in Tasks \ {a} : task'[u] = task[u]
    /\ mutationMu' = IF task'[a].pc = "idle" THEN Nobody ELSE a
    /\ mutationMu \in {Nobody, a}

LEMMA StartMoves ==
    ASSUME Typed, NEW a \in Admins, StartAdmin(a)
    PROVE  /\ AdminMoves(a) /\ Up /\ mutationMu = Nobody
           /\ \/ \E g \in Guardrails : StartUpsert(a, g) /\ task'[a].pc = "upsert"
              \/ \E g \in Guardrails : /\ StartDelete(a, g) /\ task'[a].pc = "delete"
                                       /\ task'[a].names = {g}
              \/ \E s \in Scopes, refs \in RefSets :
                     /\ StartCreate(a, s, refs) /\ task'[a].pc = "create"
                     /\ task'[a].names = refs
                     /\ task'[a].compiled = BuildPipeline(refs)
              \/ \E v \in VersionIDs :
                     /\ StartDeactivate(a, v) /\ task'[a].pc = "deactivate"
                     /\ task'[a].version = v
                     /\ task'[a].scope = versions[v].scope
  <1> DEFINE Goal == /\ AdminMoves(a) /\ Up /\ mutationMu = Nobody
             Upserts(g) == [NoTask EXCEPT !.pc = "upsert", !.names = {g}]
             Deletes(g) == [NoTask EXCEPT !.pc = "delete", !.names = {g}]
             Creates(s, refs) == [pc |-> "create", names |-> refs, version |-> 0,
                                  scope |-> s, compiled |-> BuildPipeline(refs)]
             Deacts(v) == [NoTask EXCEPT !.pc = "deactivate", !.version = v,
                                         !.scope = versions[v].scope]
  <1>1. ASSUME NEW x \in Task, Begin(a, x), x.pc # "idle"
        PROVE  Goal /\ task'[a] = x
    BY <1>1, Started DEF AdminMoves
  <1>2. ASSUME NEW g \in Guardrails, StartUpsert(a, g)
        PROVE  Goal /\ task'[a].pc = "upsert"
    <2>1. Upserts(g) \in Task /\ Upserts(g).pc = "upsert"
      BY Constants DEF Task, AdminSteps, NoTask
    <2>2. QED
      BY <1>1, <1>2, <2>1 DEF StartUpsert
  <1>3. ASSUME NEW g \in Guardrails, StartDelete(a, g)
        PROVE  Goal /\ task'[a].pc = "delete" /\ task'[a].names = {g}
    <2>1. Deletes(g) \in Task /\ Deletes(g).pc = "delete" /\ Deletes(g).names = {g}
      BY Constants DEF Task, AdminSteps, NoTask
    <2>2. QED
      BY <1>1, <1>3, <2>1 DEF StartDelete
  <1>4. ASSUME NEW s \in Scopes, NEW refs \in RefSets, StartCreate(a, s, refs)
        PROVE  /\ Goal /\ task'[a].pc = "create" /\ task'[a].names = refs
               /\ task'[a].compiled = BuildPipeline(refs)
    <2>1. refs \in SUBSET Guardrails /\ BuildPipeline(refs) \in Definitions
      BY WorkflowAssumption, Compiled
    <2>2. Creates(s, refs) \in Task
      BY <2>1 DEF Task, AdminSteps
    <2>3. QED
      BY <1>1, <1>4, <2>2 DEF StartCreate
  <1>5. ASSUME NEW v \in VersionIDs, StartDeactivate(a, v)
        PROVE  /\ Goal /\ task'[a].pc = "deactivate" /\ task'[a].version = v
               /\ task'[a].scope = versions[v].scope
    <2>1. versions[v].scope \in Scopes
      BY DEF Typed, Written
    <2>2. /\ Deacts(v) \in Task /\ Deacts(v).pc = "deactivate"
          /\ Deacts(v).version = v /\ Deacts(v).scope = versions[v].scope
      BY <2>1, Constants DEF Task, AdminSteps, NoTask
    <2>3. QED
      BY <1>1, <1>5, <2>2 DEF StartDeactivate
  <1>6. QED
    <2> HIDE DEF Goal
    <2>1. CASE \E g \in Guardrails : StartUpsert(a, g)
      BY <1>2, <2>1 DEF Goal
    <2>2. CASE \E g \in Guardrails : StartDelete(a, g)
      BY <1>3, <2>2 DEF Goal
    <2>3. CASE \E s \in Scopes, refs \in RefSets : StartCreate(a, s, refs)
      BY <1>4, <2>3 DEF Goal
    <2>4. CASE \E v \in VersionIDs : StartDeactivate(a, v)
      BY <1>5, <2>4 DEF Goal
    <2>5. QED
      BY <2>1, <2>2, <2>3, <2>4 DEF StartAdmin

LEMMA StepMoves ==
    ASSUME Typed, LocksHeld, NEW a \in Admins, AdminStep(a)
    PROVE  /\ AdminMoves(a) /\ task[a].pc # "idle" /\ mutationMu = a
           /\ \/ WriteUpsert(a) /\ Moves(a, {"upsert"}, "publish")
              \/ BuildDelete(a) /\ Moves(a, {"delete"}, "remove")
              \/ RemoveGuardrail(a) /\ Moves(a, {"remove"}, "publish")
              \/ /\ PublishDefinitions(a) /\ task[a].pc = "publish"
                 /\ task'[a] = [task[a] EXCEPT !.pc = "refresh", !.compiled = gNext]
              \/ StartRefresh(a) /\ Moves(a, {"refresh"}, "refreshing")
              \/ /\ InsertVersion(a) /\ task[a].pc = "create"
                 /\ task'[a] = [task[a] EXCEPT !.pc = "activate", !.version = NewID]
              \/ WriteDeactivate(a) /\ Moves(a, {"deactivate"}, "unmatch")
              \/ /\ \/ GuardrailWriteFails(a) \/ RefreshRefused(a) \/ AckGuardrail(a)
                    \/ ActivateVersion(a) \/ UnmatchVersion(a) \/ WorkflowWriteFails(a)
                 /\ task'[a] = NoTask
  <1>1. task[a].pc # "idle"
    BY DEF AdminStep, WriteUpsert, BuildDelete, RemoveGuardrail, GuardrailWriteFails,
           PublishDefinitions, StartRefresh, RefreshRefused, AckGuardrail, InsertVersion,
           ActivateVersion, Activate, Unlock, WriteDeactivate, UnmatchVersion,
           WorkflowWriteFails, At, LocksHeld
  <1>2. mutationMu = a
    BY <1>1 DEF LocksHeld
  <1>3. a \in Tasks /\ task[a] \in Task
    BY Constants DEF Typed
  <1>4. ASSUME NEW l \in AdminSteps, l # "idle", Continue(a, l)
        PROVE  AdminMoves(a) /\ task'[a] = [task[a] EXCEPT !.pc = l]
    <2>1. /\ task' \in [Tasks -> Task] /\ task'[a] = [task[a] EXCEPT !.pc = l]
          /\ \A u \in Tasks \ {a} : task'[u] = task[u]
      BY <1>3, <1>4, GoToType DEF Continue
    <2>2. task'[a].pc = l
      BY <1>3, <2>1 DEF Task
    <2>3. QED
      BY <1>2, <1>4, <2>1, <2>2 DEF AdminMoves, Continue
  <1>5. ASSUME Answer(a)
        PROVE  AdminMoves(a) /\ task'[a] = NoTask
    BY <1>2, <1>5, Answered DEF AdminMoves, NoTask
  <1>6. CASE PublishDefinitions(a)
    <2> DEFINE x == [task[a] EXCEPT !.pc = "refresh", !.compiled = gNext]
    <2>1. x \in Task /\ x.pc = "refresh"
      BY <1>3 DEF Task, AdminSteps, Typed, GuardTyped
    <2>2. task' = [task EXCEPT ![a] = x] /\ mutationMu' = mutationMu
      BY <1>6 DEF PublishDefinitions
    <2> HIDE DEF x
    <2>3. AdminMoves(a) /\ task'[a] = x
      BY <1>2, <1>3, <2>1, <2>2, OneTask DEF AdminMoves
    <2>4. QED
      BY <1>1, <1>2, <1>6, <2>3 DEF PublishDefinitions, At, x
  <1>7. CASE InsertVersion(a)
    <2> DEFINE x == [task[a] EXCEPT !.pc = "activate", !.version = NewID]
    <2>1. x \in Task /\ x.pc = "activate"
      BY <1>3, <1>7, FreeID DEF Task, AdminSteps, InsertVersion
    <2>2. task' = [task EXCEPT ![a] = x] /\ mutationMu' = mutationMu
      BY <1>7 DEF InsertVersion
    <2> HIDE DEF x
    <2>3. AdminMoves(a) /\ task'[a] = x
      BY <1>2, <1>3, <2>1, <2>2, OneTask DEF AdminMoves
    <2>4. QED
      BY <1>1, <1>2, <1>7, <2>3 DEF InsertVersion, At, x
  <1>8. CASE WriteUpsert(a) \/ BuildDelete(a) \/ RemoveGuardrail(a)
             \/ StartRefresh(a) \/ WriteDeactivate(a)
    BY <1>1, <1>2, <1>4, <1>8 DEF WriteUpsert, BuildDelete, RemoveGuardrail, StartRefresh,
       WriteDeactivate, Moves, At, AdminSteps
  <1>9. CASE \/ GuardrailWriteFails(a) \/ RefreshRefused(a) \/ AckGuardrail(a)
             \/ ActivateVersion(a) \/ UnmatchVersion(a) \/ WorkflowWriteFails(a)
    BY <1>1, <1>2, <1>5, <1>9 DEF GuardrailWriteFails, RefreshRefused, AckGuardrail,
       ActivateVersion, UnmatchVersion, WorkflowWriteFails
  <1>10. QED
    BY <1>6, <1>7, <1>8, <1>9 DEF AdminStep

LEMMA BootMoves ==
    ASSUME Typed, Starts, Boot
    PROVE  /\ task' \in [Tasks -> Task] /\ mutationMu' = mutationMu
           /\ \A a \in Admins : task[a].pc = "idle" /\ task'[a] = task[a]
           /\ \/ Seed /\ Moves(Startup, {"seed"}, "seeding")
              \/ WriteSeed /\ Moves(Startup, {"seeding"}, "seeded")
              \/ PublishSeed /\ Moves(Startup, {"seeded"}, "compile")
              \/ /\ CompileDefault /\ task[Startup].pc = "compile"
                 /\ task'[Startup] = [task[Startup] EXCEPT
                        !.pc = IF CanBuild(ConfigRules) THEN "ensure" ELSE "down",
                        !.compiled = BuildPipeline(ConfigRules)]
              \/ EnsureDefault /\ Moves(Startup, {"ensure"}, "load")
              \/ Load /\ Moves(Startup, {"load"}, "loading")
              \/ FinishLoad /\ Moves(Startup, {"loading"}, "up")
              \/ FinishLoad /\ Moves(Startup, {"loading"}, "down")
  <1>1. Startup \in Tasks /\ task[Startup] \in Task /\ Admins \subseteq Tasks \ {Startup}
    BY Constants DEF Typed
  <1>2. ~Up
    BY DEF Up, Boot, Seed, WriteSeed, PublishSeed, CompileDefault, EnsureDefault, Load,
           FinishLoad, BootStep, At
  <1>3. \A a \in Admins : task[a].pc = "idle"
    BY <1>2 DEF Starts
  <1>4. ASSUME NEW from, NEW to \in BootSteps, BootStep(from, to)
        PROVE  /\ task' \in [Tasks -> Task] /\ mutationMu' = mutationMu
               /\ \A a \in Admins : task'[a] = task[a]
               /\ Moves(Startup, {from}, to)
    <2>1. /\ task' \in [Tasks -> Task]
          /\ task'[Startup] = [task[Startup] EXCEPT !.pc = to]
          /\ \A u \in Tasks \ {Startup} : task'[u] = task[u]
      BY <1>1, <1>4, GoToType DEF BootStep
    <2>2. QED
      BY <1>1, <1>4, <2>1 DEF BootStep, At, Moves
  <1>5. CASE CompileDefault
    <2> DEFINE x == [task[Startup] EXCEPT
                        !.pc = IF CanBuild(ConfigRules) THEN "ensure" ELSE "down",
                        !.compiled = BuildPipeline(ConfigRules)]
    <2>1. x \in Task
      BY <1>1, Compiled DEF Task, BootSteps
    <2>2. task' = [task EXCEPT ![Startup] = x] /\ mutationMu' = mutationMu
      BY <1>5 DEF CompileDefault
    <2>3. At(Startup, "compile")
      BY <1>5 DEF CompileDefault
    <2> HIDE DEF x
    <2>4. /\ task' \in [Tasks -> Task] /\ task'[Startup] = x
          /\ \A u \in Tasks \ {Startup} : task'[u] = task[u]
      BY <1>1, <2>1, <2>2, OneTask
    <2>5. QED
      BY <1>1, <1>3, <1>5, <2>2, <2>3, <2>4 DEF At, x
  <1>6. CASE Seed \/ WriteSeed \/ PublishSeed \/ EnsureDefault \/ Load \/ FinishLoad
    BY <1>3, <1>4, <1>6 DEF Seed, WriteSeed, PublishSeed, EnsureDefault, Load, FinishLoad,
       BootSteps
  <1>7. QED
    BY <1>5, <1>6 DEF Boot

LEMMA RestartMoves ==
    ASSUME Typed, Restart
    PROVE  /\ task' \in [Tasks -> Task] /\ \A a \in Admins : task'[a] = NoTask
           /\ task'[Startup] = [NoTask EXCEPT !.pc = "seed"]
           /\ task'[Startup].pc = "seed"
  <1>1. [NoTask EXCEPT !.pc = "seed"] \in Task
    BY Constants DEF NoTask, Task, BootSteps
  <1>2. \A a \in Admins : a # Startup
    BY Constants
  <1>3. QED
    BY <1>1, <1>2, Constants DEF Restart, NoTask

LEMMA TypedNext ==
    ASSUME Typed, LocksHeld, Starts, Candidate, Next
    PROVE  Typed'
  <1>1. /\ gStore' \in Definitions /\ gSnapshot' \in Definitions
        /\ gNext' \in Definitions /\ revision' \in Revision
    BY Frames, GuardNext DEF Typed, GuardTyped, guardVars
  <1>2. task' \in [Tasks -> Task]
    BY Frames, StartMoves, StepMoves, BootMoves, RestartMoves DEF TaskStep, Typed, AdminMoves
  <1>3. acked' \in Definitions
    <2>1. ASSUME NEW a \in Admins, AckGuardrail(a)
          PROVE  acked' \in Definitions
      <3>1. task[a].compiled \in Definitions
        BY Constants DEF Typed, Task
      <3>2. QED
        BY <2>1, <3>1 DEF AckGuardrail, Typed, GuardTyped, Definitions
    <2>2. CASE WriteSeed
      BY <2>2, Constants DEF WriteSeed, Typed, GuardTyped, Definitions
    <2>3. QED
      BY <2>1, <2>2, Frames DEF AckStep, Typed, GuardTyped
  <1>4. SnapshotTyped'
    BY Frames, SnapshotNext DEF Typed, SnapshotTyped, snapshotVars
  <1>5. BuildTyped'
    BY Frames, BuildNext DEF Typed, BuildTyped, buildVars
  <1>6. versions' \in [VersionIDs -> Written]
    BY Frames, TableNext DEF Typed, TableKept
  <1>7. QED
    BY <1>1, <1>2, <1>3, <1>4, <1>5, <1>6 DEF Typed, GuardTyped

-----------------------------------------------------------------------------
(* Locks. *)

(* One actor takes a lock, releases it or leaves it alone. *)
Passed(p, before, after) == \/ after = before
                            \/ before = Nobody /\ after = p
                            \/ before = p /\ after = Nobody

LEMMA AdminLocks ==
    ASSUME LocksHeld, NEW a \in Admins, AdminMoves(a),
           Passed(a, gHolder, gHolder'), Passed(a, wHolder, wHolder'),
           gHolder' = a <=> task'[a].pc \in {"upsert", "remove", "publish"},
           wHolder' = a <=> task'[a].pc \in {"refreshing", "activate", "unmatch"}
    PROVE  LocksHeld'
  <1>1. task'[Startup] = task[Startup] /\ a # Startup /\ a # Nobody /\ Startup # Nobody
    BY Constants DEF AdminMoves
  <1>2. ASSUME NEW b \in Admins \ {a}
        PROVE  task'[b] = task[b] /\ b # Nobody
    BY Constants DEF AdminMoves
  <1>3. ASSUME NEW b \in Admins
        PROVE  /\ mutationMu' = b <=> task'[b].pc # "idle"
               /\ gHolder' = b <=> task'[b].pc \in {"upsert", "remove", "publish"}
               /\ wHolder' = b <=> task'[b].pc \in {"refreshing", "activate", "unmatch"}
    <2>1. CASE b = a
      BY <1>1, <2>1 DEF AdminMoves
    <2>2. CASE b # a
      BY <1>2, <2>2 DEF AdminMoves, Passed, LocksHeld
    <2>3. QED
      BY <2>1, <2>2
  <1>4. /\ gHolder' = Startup <=> task'[Startup].pc \in {"seeding", "seeded"}
        /\ wHolder' = Startup <=> task'[Startup].pc = "loading"
    BY <1>1 DEF Passed, LocksHeld
  <1>5. QED
    BY <1>3, <1>4 DEF LocksHeld

LEMMA BootLocks ==
    ASSUME LocksHeld, mutationMu' = mutationMu, \A a \in Admins : task'[a] = task[a],
           Passed(Startup, gHolder, gHolder'), Passed(Startup, wHolder, wHolder'),
           gHolder' = Startup <=> task'[Startup].pc \in {"seeding", "seeded"},
           wHolder' = Startup <=> task'[Startup].pc = "loading"
    PROVE  LocksHeld'
  BY Constants DEF Passed, LocksHeld

LEMMA LoopLocks ==
    ASSUME LocksHeld, mutationMu' = mutationMu, task' = task, NEW p \in Loops,
           Passed(p, gHolder, gHolder'), Passed(p, wHolder, wHolder')
    PROVE  LocksHeld'
  <1>1. p # Nobody /\ p \notin Tasks
    BY Constants
  <1>2. \A t \in Tasks : t # p /\ t # Nobody
    BY <1>1, Constants
  <1>3. \A t \in Tasks : (gHolder' = t <=> gHolder = t) /\ (wHolder' = t <=> wHolder = t)
    BY <1>2 DEF Passed
  <1>4. QED
    BY <1>3, Constants DEF LocksHeld

LEMMA LocksNext ==
    ASSUME Typed, LocksHeld, Starts, Next
    PROVE  LocksHeld'
  <1> USE DEF Passed
  <1>1. ASSUME NEW a \in Admins, StartAdmin(a)
        PROVE  LocksHeld'
    <2>1. AdminMoves(a) /\ task[a].pc = "idle" /\ wHolder # a /\ gHolder # a /\ a # Nobody
      BY <1>1, StartMoves, Constants DEF LocksHeld
    <2>2. ASSUME NEW g \in Guardrails, StartUpsert(a, g), task'[a].pc = "upsert"
          PROVE  LocksHeld'
      BY <2>1, <2>2, AdminLocks DEF StartUpsert, BuildSnapshot, workflowVars, buildVars
    <2>3. ASSUME UNCHANGED <<gHolder, wHolder>>,
                 task'[a].pc \in {"delete", "create", "deactivate"}
          PROVE  LocksHeld'
      BY <2>1, <2>3, AdminLocks
    <2>4. QED
      BY <1>1, <2>2, <2>3, StartMoves DEF StartDelete, StartCreate, StartDeactivate,
         guardVars, workflowVars, buildVars
  <1>2. ASSUME NEW a \in Admins, AdminStep(a)
        PROVE  LocksHeld'
    <2>1. AdminMoves(a) /\ task[a] \in Task /\ a # Nobody
      BY <1>2, StepMoves, Constants DEF Typed
    <2>2. CASE WriteUpsert(a) /\ Moves(a, {"upsert"}, "publish")
      <3>1. task'[a].pc = "publish" /\ gHolder = a /\ wHolder # a
        BY <2>1, <2>2 DEF Moves, Task, LocksHeld
      <3>2. gHolder' = gHolder /\ wHolder' = wHolder
        BY <2>2 DEF WriteUpsert, WriteDefinitions, workflowVars, buildVars
      <3>3. QED
        BY <2>1, <3>1, <3>2, AdminLocks
    <2>3. CASE BuildDelete(a) /\ Moves(a, {"delete"}, "remove")
      <3>1. task'[a].pc = "remove" /\ wHolder # a
        BY <2>1, <2>3 DEF Moves, Task, LocksHeld
      <3>2. gHolder = Nobody /\ gHolder' = a /\ wHolder' = wHolder
        BY <2>3 DEF BuildDelete, BuildSnapshot, workflowVars, buildVars
      <3>3. QED
        BY <2>1, <3>1, <3>2, AdminLocks
    <2>4. CASE RemoveGuardrail(a) /\ Moves(a, {"remove"}, "publish")
      <3>1. task'[a].pc = "publish" /\ gHolder = a /\ wHolder # a
        BY <2>1, <2>4 DEF Moves, Task, LocksHeld
      <3>2. gHolder' = gHolder /\ wHolder' = wHolder
        BY <2>4 DEF RemoveGuardrail, RemoveDefinition, workflowVars, buildVars
      <3>3. QED
        BY <2>1, <3>1, <3>2, AdminLocks
    <2>5. CASE /\ PublishDefinitions(a) /\ task[a].pc = "publish"
               /\ task'[a] = [task[a] EXCEPT !.pc = "refresh", !.compiled = gNext]
      <3>1. task'[a].pc = "refresh" /\ wHolder # a
        BY <2>1, <2>5 DEF Task, LocksHeld
      <3>2. gHolder = a /\ gHolder' = Nobody /\ wHolder' = wHolder
        BY <2>5 DEF PublishDefinitions, PublishGuardrails, workflowVars, buildVars
      <3>3. QED
        BY <2>1, <3>1, <3>2, AdminLocks
    <2>6. CASE StartRefresh(a) /\ Moves(a, {"refresh"}, "refreshing")
      <3>1. task'[a].pc = "refreshing" /\ gHolder # a
        BY <2>1, <2>6 DEF Moves, Task, LocksHeld
      <3>2. gHolder' = gHolder /\ wHolder = Nobody /\ wHolder' = a
        BY <2>6 DEF StartRefresh, ListActive, guardVars
      <3>3. QED
        BY <2>1, <3>1, <3>2, AdminLocks
    <2>7. CASE /\ InsertVersion(a) /\ task[a].pc = "create"
               /\ task'[a] = [task[a] EXCEPT !.pc = "activate", !.version = NewID]
      <3>1. task'[a].pc = "activate" /\ gHolder # a
        BY <2>1, <2>7 DEF Task, LocksHeld
      <3>2. gHolder' = gHolder /\ wHolder = Nobody /\ wHolder' = a
        BY <2>7 DEF InsertVersion, guardVars
      <3>3. QED
        BY <2>1, <3>1, <3>2, AdminLocks
    <2>8. CASE WriteDeactivate(a) /\ Moves(a, {"deactivate"}, "unmatch")
      <3>1. task'[a].pc = "unmatch" /\ gHolder # a
        BY <2>1, <2>8 DEF Moves, Task, LocksHeld
      <3>2. gHolder' = gHolder /\ wHolder = Nobody /\ wHolder' = a
        BY <2>8 DEF WriteDeactivate, guardVars
      <3>3. QED
        BY <2>1, <3>1, <3>2, AdminLocks
    <2>9. CASE /\ \/ GuardrailWriteFails(a) \/ RefreshRefused(a) \/ AckGuardrail(a)
                  \/ ActivateVersion(a) \/ UnmatchVersion(a) \/ WorkflowWriteFails(a)
               /\ task'[a] = NoTask
      <3>1. task'[a].pc = "idle"
        BY <2>9 DEF NoTask
      <3>2. CASE GuardrailWriteFails(a)
        <4>1. wHolder # a
          BY <3>2 DEF GuardrailWriteFails, At, LocksHeld
        <4>2. QED
          BY <2>1, <3>1, <3>2, <4>1, AdminLocks
             DEF GuardrailWriteFails, AbandonGuardrails, workflowVars, buildVars
      <3>3. CASE RefreshRefused(a)
        <4>1. gHolder # a /\ (At(a, "refresh") => wHolder # a)
          BY <3>3 DEF RefreshRefused, At, LocksHeld
        <4>2. QED
          BY <2>1, <3>1, <3>3, <4>1, AdminLocks
             DEF RefreshRefused, RefreshFails, Unlock, guardVars, workflowVars, buildVars
      <3>4. CASE AckGuardrail(a)
        <4>1. gHolder # a
          BY <3>4 DEF AckGuardrail, At, LocksHeld
        <4>2. QED
          BY <2>1, <3>1, <3>4, <4>1, AdminLocks
             DEF AckGuardrail, PublishRefresh, Unlock, guardVars
      <3>5. CASE ActivateVersion(a) \/ UnmatchVersion(a)
        <4>1. wHolder = a /\ wHolder' = Nobody /\ gHolder' = gHolder
          BY <3>5 DEF ActivateVersion, UnmatchVersion, Unlock, guardVars
        <4>2. gHolder # a
          BY <3>5 DEF ActivateVersion, UnmatchVersion, At, LocksHeld
        <4>3. QED
          BY <2>1, <3>1, <4>1, <4>2, AdminLocks
      <3>6. CASE WorkflowWriteFails(a)
        <4>1. wHolder # a /\ gHolder # a
          BY <3>6 DEF WorkflowWriteFails, At, LocksHeld
        <4>2. QED
          BY <2>1, <3>1, <3>6, <4>1, AdminLocks
             DEF WorkflowWriteFails, guardVars, workflowVars, buildVars
      <3>7. QED
        BY <2>9, <3>2, <3>3, <3>4, <3>5, <3>6
    <2>10. QED
      BY <1>2, <2>2, <2>3, <2>4, <2>5, <2>6, <2>7, <2>8, <2>9, StepMoves
  <1>3. CASE LoadGuardrails \/ SwapGuardrails
    BY <1>3, LoopLocks DEF LoadGuardrails, SwapGuardrails, BuildSnapshot, PublishGuardrails,
       workflowVars, buildVars, Loops
  <1>4. CASE ListWorkflows \/ SwapWorkflows
    BY <1>4, LoopLocks DEF ListWorkflows, SwapWorkflows, ListActive, PublishRefresh,
       RefreshFails, Unlock, guardVars, Loops
  <1>5. CASE UNCHANGED <<gHolder, wHolder, mutationMu, task>>
    BY <1>5 DEF LocksHeld
  <1>6. CASE Boot
    <2>1. /\ mutationMu' = mutationMu /\ \A a \in Admins : task'[a] = task[a]
          /\ task[Startup] \in Task /\ Startup # Nobody
      BY <1>6, BootMoves, Constants DEF Typed
    <2>2. CASE Seed /\ Moves(Startup, {"seed"}, "seeding")
      <3>1. task'[Startup].pc = "seeding" /\ wHolder # Startup
        BY <2>1, <2>2 DEF Moves, Task, LocksHeld
      <3>2. QED
        BY <2>1, <2>2, <3>1, BootLocks DEF Seed, BuildSnapshot, workflowVars, buildVars
    <2>3. CASE WriteSeed /\ Moves(Startup, {"seeding"}, "seeded")
      <3>1. task'[Startup].pc = "seeded" /\ wHolder # Startup
        BY <2>1, <2>3 DEF Moves, Task, LocksHeld
      <3>2. QED
        BY <2>1, <2>3, <3>1, BootLocks DEF WriteSeed, WriteDefinitions, workflowVars, buildVars
    <2>4. CASE PublishSeed /\ Moves(Startup, {"seeded"}, "compile")
      <3>1. task'[Startup].pc = "compile" /\ wHolder # Startup
        BY <2>1, <2>4 DEF Moves, Task, LocksHeld
      <3>2. QED
        BY <2>1, <2>4, <3>1, BootLocks DEF PublishSeed, PublishGuardrails, workflowVars, buildVars
    <2>5. CASE CompileDefault
      <3>1. task'[Startup].pc \in {"ensure", "down"} /\ task[Startup].pc = "compile"
        <4>1. At(Startup, "compile")
          BY <2>5 DEF CompileDefault
        <4>2. QED
          BY <2>1, <2>5, <4>1, Constants DEF CompileDefault, At, Task, Typed
      <3>2. wHolder # Startup /\ gHolder # Startup
        BY <3>1 DEF LocksHeld
      <3>3. QED
        BY <2>1, <2>5, <3>1, <3>2, BootLocks DEF CompileDefault, guardVars, workflowVars, buildVars
    <2>6. CASE EnsureDefault /\ Moves(Startup, {"ensure"}, "load")
      <3>1. task'[Startup].pc = "load" /\ wHolder # Startup /\ gHolder # Startup
        BY <2>1, <2>6 DEF Moves, Task, LocksHeld
      <3>2. QED
        BY <2>1, <2>6, <3>1, BootLocks DEF EnsureDefault, guardVars, buildVars
    <2>7. CASE Load /\ Moves(Startup, {"load"}, "loading")
      <3>1. task'[Startup].pc = "loading" /\ gHolder # Startup
        BY <2>1, <2>7 DEF Moves, Task, LocksHeld
      <3>2. QED
        BY <2>1, <2>7, <3>1, BootLocks DEF Load, ListActive, guardVars
    <2>8. CASE FinishLoad /\ \E to \in {"up", "down"} : Moves(Startup, {"loading"}, to)
      <3>1. task'[Startup].pc \in {"up", "down"} /\ gHolder # Startup
        BY <2>1, <2>8 DEF Moves, Task, LocksHeld
      <3>2. QED
        BY <2>1, <2>8, <3>1, BootLocks DEF FinishLoad, PublishRefresh, RefreshFails, Unlock, guardVars
    <2>9. QED
      BY <1>6, <2>2, <2>3, <2>4, <2>5, <2>6, <2>7, <2>8, BootMoves
  <1>7. CASE Restart
    <2>1. /\ gHolder' = Nobody /\ wHolder' = Nobody /\ mutationMu' = Nobody
          /\ \A a \in Admins : task'[a].pc = "idle" /\ a # Nobody
          /\ task'[Startup].pc = "seed" /\ Startup # Nobody
      BY <1>7, RestartMoves, Constants DEF Restart, NoTask
    <2>2. QED
      BY <2>1 DEF LocksHeld
  <1>8. QED
    BY <1>1, <1>2, <1>3, <1>4, <1>5, <1>6, <1>7
       DEF Next, CompileRow, CompileNext, RequestStep, MatchWorkflow, PatchRequest,
           UnseenWrite, guardVars, workflowVars, buildVars

-----------------------------------------------------------------------------
(* One step of each part of the invariant. *)

(* An admin request in progress is the only one, and start-up is over. *)
LEMMA AdminAlone ==
    ASSUME Typed, LocksHeld, Starts, NEW a \in Admins, StartAdmin(a) \/ AdminStep(a)
    PROVE  /\ AdminMoves(a) /\ Up /\ task'[Startup] = task[Startup]
           /\ \A b \in Admins \ {a} : task[b].pc = "idle" /\ task'[b] = task[b]
           /\ a # Startup
  <1>1. AdminMoves(a) /\ Up /\ mutationMu \in {Nobody, a}
    BY StartMoves, StepMoves DEF Starts, AdminMoves
  <1>2. \A b \in Admins \ {a} : b # Nobody
    BY Constants
  <1>3. QED
    BY <1>1, <1>2, Constants DEF AdminMoves, LocksHeld

LEMMA StartsNext ==
    ASSUME Typed, LocksHeld, Starts, Next
    PROVE  Starts'
  <1>1. ASSUME NEW a \in Admins, StartAdmin(a) \/ AdminStep(a)
        PROVE  Starts'
    <2>1. Up'
      BY <1>1, AdminAlone DEF Up
    <2>2. QED
      BY <2>1 DEF Starts, Up, Seeding
  <1>2. CASE Boot
    <2>1. /\ \A a \in Admins : task'[a].pc = "idle"
          /\ task[Startup] \in Task
      BY <1>2, BootMoves, Constants DEF Typed
    <2>2. CASE Seed \/ WriteSeed
      BY <2>1, <2>2 DEF Seed, WriteSeed, Starts, Seeding, BootStep, At, workflowVars, snapshotVars, buildVars
    <2>3. ASSUME NEW from, NEW to \in {"compile", "ensure", "load", "loading", "up", "down"},
                 Moves(Startup, from, to)
          PROVE  Starts'
      BY <2>1, <2>3 DEF Moves, Task, Starts, Seeding
    <2>4. CASE CompileDefault
      BY <1>2, <2>1, <2>4, BootMoves, Constants DEF CompileDefault, Typed, Task, Starts, Seeding
    <2>5. QED
      BY <1>2, <2>2, <2>3, <2>4, BootMoves
  <1>3. CASE Restart
    <2>1. /\ byVersionID' = {} /\ next'.ids = {} /\ pending' = {} /\ wHolder' = Nobody
      BY <1>3, EmptyBuild DEF Restart
    <2>2. \A a \in Admins : task'[a].pc = "idle"
      BY <1>3, RestartMoves DEF NoTask
    <2>3. QED
      BY <2>1, <2>2 DEF Starts, Seeding
  <1>4. ASSUME task' = task, UNCHANGED <<snapshotVars, buildVars>>
        PROVE  Starts'
    BY <1>4 DEF Starts, Seeding, Up, snapshotVars, buildVars
  <1>5. CASE ListWorkflows
    BY <1>5 DEF ListWorkflows, Starts, Seeding, Up
  <1>6. CASE CompileRow \/ SwapWorkflows
    <2>1. wHolder \in Tasks \cup Loops
      BY <1>6 DEF CompileRow, CompileNext, SwapWorkflows, PublishRefresh, RefreshFails, Unlock, Loops
    <2>2. wHolder # Nobody /\ task' = task
      BY <1>6, <2>1, Constants DEF CompileRow, SwapWorkflows
    <2>3. QED
      BY <2>2 DEF Starts, Seeding, Up
  <1>7. QED
    BY <1>1, <1>2, <1>3, <1>4, <1>5, <1>6
       DEF Next, LoadGuardrails, SwapGuardrails, RequestStep, MatchWorkflow, PatchRequest,
           UnseenWrite, workflowVars

(* What a step loads it read from the table or from what was loaded. *)
LEMMA LoadedBefore ==
    ASSUME Typed, LocksHeld, Starts, Candidate, Next
    PROVE  \A v \in byVersionID' \cup next'.ids \cup pending' :
               \/ v \in byVersionID \cup next.ids \cup pending
               \/ versions'[v].state # "unused"
  <1>1. ASSUME NEW v \in next'.ids \cup pending'
        PROVE  v \in next.ids \cup pending \cup Active
    BY <1>1, Frames, BuildCases, CompileFacts, EmptyBuild DEF BuildDropped, buildVars
  <1>2. \A v \in Active : v \in VersionIDs /\ versions[v].state # "unused"
    BY DEF Active
  <1>3. \A v \in Active : versions'[v].state # "unused"
    BY <1>2, Frames, TableNext DEF TableKept, RowKept
  <1>4. ASSUME NEW v \in byVersionID'
        PROVE  v \in byVersionID \cup next.ids \/ versions'[v].state # "unused"
    <2>1. ASSUME NEW p, PublishRefresh(p)
          PROVE  v \in next.ids
      BY <1>4, <2>1 DEF PublishRefresh
    <2>2. ASSUME NEW a \in Admins, ActivateVersion(a)
          PROVE  v \in byVersionID \/ versions'[v].state # "unused"
      <3>1. versions' = versions /\ At(a, "activate")
        BY <2>2 DEF ActivateVersion
      <3>2. versions[task[a].version].state # "unused"
        BY <3>1 DEF Candidate
      <3>3. QED
        BY <1>4, <2>2, <3>1, <3>2 DEF ActivateVersion, Activate
    <2>3. ASSUME NEW a \in Admins, UnmatchVersion(a)
          PROVE  v \in byVersionID
      BY <1>4, <2>3 DEF UnmatchVersion, Unmatch
    <2>4. CASE EnsureDefault
      <3>1. CASE UNCHANGED snapshotVars
        BY <1>4, <3>1 DEF snapshotVars
      <3>2. CASE /\ HasRoom /\ versions' = Inserted(GlobalScope, ConfigRules, TRUE)
                 /\ Activate(NewID, GlobalScope, task[Startup].compiled)
        <4>1. versions'[NewID].state = "active"
          BY <3>2, Constants, InsertedKeeps
        <4>2. QED
          BY <1>4, <3>2, <4>1 DEF Activate
      <3>3. QED
        BY <2>4, <3>1, <3>2 DEF EnsureDefault
    <2>5. CASE Restart
      BY <1>4, <2>5 DEF Restart
    <2>6. CASE UNCHANGED snapshotVars
      BY <1>4, <2>6 DEF snapshotVars
    <2>7. QED
      BY <2>1, <2>2, <2>3, <2>4, <2>5, <2>6, Frames
         DEF SnapshotStep, AckGuardrail, SwapWorkflows, FinishLoad, RefreshFails
  <1>5. QED
    BY <1>1, <1>2, <1>3, <1>4

(* The rows that were written keep their references. *)
LEMMA RefsKept ==
    ASSUME Typed, Next
    PROVE  TableKept
  <1>1. CASE UNCHANGED versions
    BY <1>1 DEF Typed, TableKept, RowKept
  <1>2. QED
    BY <1>1, Frames, TableNext

LEMMA UsedNext ==
    ASSUME Typed, LocksHeld, Starts, Used, Candidate, Next
    PROVE  Used'
  <1>1. \A v \in byVersionID \cup next.ids \cup pending : versions'[v].state # "unused"
    BY RefsKept DEF TableKept, RowKept, Used, Typed, SnapshotTyped, BuildTyped
  <1>2. QED
    BY <1>1, LoadedBefore DEF Used

(* Where a revision in the table, the snapshot and one being built is from. *)
Given == revision' = revision + 1

StoreFrom(g) ==
    \/ gStore'[g] \in {gStore[g], 0}
    \/ Given /\ gStore'[g] = revision'
    \/ gStore'[g] = gNext[g] /\ (At(Startup, "seeding") => g \in ConfigRules /\ WriteSeed)

SnapshotFrom(g) ==
    \/ gSnapshot'[g] \in {gSnapshot[g], 0}
    \/ gSnapshot'[g] = gNext[g] /\ ~At(Startup, "seeding")

BuiltFrom(g) ==
    \/ gNext'[g] \in {gStore[g], 0}
    \/ Given /\ gNext'[g] = revision'
    \/ gNext'[g] = gNext[g] /\ (At(Startup, "seeding") => At(Startup, "seeding")' \/ WriteSeed)
    \/ gNext'[g] = 1 /\ g \in ConfigRules /\ At(Startup, "seeding")'

GuardEffects == /\ Given \/ revision' = revision
                /\ \A g \in Guardrails : StoreFrom(g) /\ SnapshotFrom(g) /\ BuiltFrom(g)

LEMMA GuardChanges ==
    ASSUME Typed, LocksHeld, Starts, Next
    PROVE  GuardEffects
  <1> USE DEF Given, StoreFrom, SnapshotFrom, BuiltFrom
  <1>1. /\ gStore \in Definitions /\ gNext \in Definitions /\ gSnapshot \in Definitions
        /\ \A g \in Guardrails : NoPipeline[g] = 0
    BY DEF Typed, GuardTyped, NoPipeline
  <1>2. ASSUME UNCHANGED guardVars, At(Startup, "seeding") => At(Startup, "seeding")' \/ WriteSeed
        PROVE  GuardEffects
    BY <1>2 DEF guardVars, GuardEffects
  <1>3. ASSUME NEW a \in Admins, StartAdmin(a) \/ AdminStep(a)
        PROVE  GuardEffects
    <2>1. ~At(Startup, "seeding")
      BY <1>3, AdminAlone DEF Up, At
    <2>2. ASSUME NEW g \in Guardrails, StartUpsert(a, g)
          PROVE  GuardEffects
      BY <1>1, <2>1, <2>2 DEF StartUpsert, BuildSnapshot, Definitions, GuardEffects
    <2>3. CASE WriteUpsert(a)
      BY <1>1, <2>1, <2>3 DEF WriteUpsert, WriteDefinitions, Definitions, GuardEffects
    <2>4. CASE BuildDelete(a)
      BY <1>1, <2>1, <2>4 DEF BuildDelete, BuildSnapshot, Definitions, GuardEffects
    <2>5. CASE RemoveGuardrail(a)
      BY <1>1, <2>1, <2>5 DEF RemoveGuardrail, RemoveDefinition, Definitions, GuardEffects
    <2>6. CASE GuardrailWriteFails(a)
      BY <1>1, <2>1, <2>6 DEF GuardrailWriteFails, AbandonGuardrails, GuardEffects
    <2>7. CASE PublishDefinitions(a)
      BY <1>1, <2>1, <2>7 DEF PublishDefinitions, PublishGuardrails, GuardEffects
    <2>8. ASSUME UNCHANGED guardVars
          PROVE  GuardEffects
      BY <1>2, <2>1, <2>8
    <2>9. QED
      BY <1>3, <2>2, <2>3, <2>4, <2>5, <2>6, <2>7, <2>8
         DEF StartAdmin, AdminStep, StartDelete, StartCreate, StartDeactivate, StartRefresh,
             RefreshRefused, AckGuardrail, InsertVersion, ActivateVersion, WriteDeactivate,
             UnmatchVersion, WorkflowWriteFails
  <1>4. CASE LoadGuardrails \/ SwapGuardrails
    <2>1. gHolder # Startup
      BY <1>4, Constants DEF LoadGuardrails, SwapGuardrails, BuildSnapshot, PublishGuardrails, Loops
    <2>2. ~At(Startup, "seeding")
      BY <2>1 DEF LocksHeld, At
    <2>3. QED
      BY <1>1, <1>4, <2>2
         DEF LoadGuardrails, SwapGuardrails, BuildSnapshot, PublishGuardrails, GuardEffects
  <1>5. CASE Boot
    <2>1. task[Startup] \in Task
      BY Constants DEF Typed
    <2>2. CASE Seed /\ Moves(Startup, {"seed"}, "seeding")
      <3>1. At(Startup, "seeding")' /\ ~At(Startup, "seeding")
        BY <2>1, <2>2 DEF Moves, Task, At
      <3>2. QED
        BY <1>1, <2>2, <3>1 DEF Seed, BuildSnapshot, GuardEffects
    <2>3. CASE WriteSeed
      BY <1>1, <2>3 DEF WriteSeed, WriteDefinitions, GuardEffects
    <2>4. CASE PublishSeed
      <3>1. ~At(Startup, "seeding")
        BY <2>4 DEF PublishSeed, BootStep, At
      <3>2. QED
        BY <1>1, <2>4, <3>1 DEF PublishSeed, PublishGuardrails, GuardEffects
    <2>5. CASE CompileDefault \/ EnsureDefault \/ Load \/ FinishLoad
      <3>1. ~At(Startup, "seeding") /\ UNCHANGED guardVars
        BY <2>5 DEF CompileDefault, EnsureDefault, Load, FinishLoad, BootStep, At
      <3>2. QED
        BY <1>2, <3>1
    <2>6. QED
      BY <1>5, <2>2, <2>3, <2>4, <2>5, BootMoves
  <1>6. CASE Restart
    BY <1>1, <1>6 DEF Restart, GuardEffects
  <1>7. CASE UnseenWrite
    <2>1. task' = task /\ gSnapshot' = gSnapshot /\ gNext' = gNext
      BY <1>7 DEF UnseenWrite
    <2>2. /\ Given \/ revision' = revision
          /\ \A g \in Guardrails : \/ gStore'[g] \in {gStore[g], 0}
                                   \/ Given /\ gStore'[g] = revision'
      BY <1>1, <1>7 DEF UnseenWrite, OtherUpsert, OtherDelete, OtherCreate, OtherDeactivate,
                        Definitions
    <2>3. QED
      BY <2>1, <2>2 DEF GuardEffects, At
  <1>8. CASE task' = task /\ UNCHANGED guardVars
    BY <1>2, <1>8 DEF At
  <1>9. QED
    BY <1>3, <1>4, <1>5, <1>6, <1>7, <1>8
       DEF Next, ListWorkflows, CompileRow, SwapWorkflows, RequestStep, MatchWorkflow,
           PatchRequest

(* Where the revisions clients were told of are from. *)
LEMMA AckChanges ==
    ASSUME Typed, LocksHeld, Starts, Next
    PROVE  \/ acked' = acked /\ ~WriteSeed
           \/ /\ WriteSeed /\ At(Startup, "seeding") /\ At(Startup, "seeded")'
              /\ \A g \in Guardrails : acked'[g] = IF g \in ConfigRules THEN 1 ELSE acked[g]
           \/ \E a \in Admins :
                  /\ AckGuardrail(a) /\ At(a, "refreshing") /\ Up /\ ~WriteSeed
                  /\ \A g \in Guardrails : acked'[g] = IF g \in task[a].names
                                                       THEN task[a].compiled[g] ELSE acked[g]
  <1>1. ASSUME NEW a \in Admins, AckGuardrail(a)
        PROVE  Up /\ ~WriteSeed
    <2>1. At(a, "refreshing")
      BY <1>1 DEF AckGuardrail
    <2>2. Up
      BY <2>1 DEF At, Starts
    <2>3. QED
      BY <2>2 DEF Up, WriteSeed, BootStep, At
  <1>2. CASE WriteSeed
    <2>1. At(Startup, "seeding")
      BY <1>2 DEF WriteSeed, BootStep
    <2>2. At(Startup, "seeded")'
      BY <1>2, Constants DEF WriteSeed, BootStep, GoTo, At, Typed, Task
    <2>3. QED
      BY <1>2, <2>1, <2>2 DEF WriteSeed
  <1>3. ASSUME NEW a \in Admins, AckGuardrail(a)
        PROVE  /\ At(a, "refreshing")
               /\ \A g \in Guardrails : acked'[g] = IF g \in task[a].names
                                                    THEN task[a].compiled[g] ELSE acked[g]
    BY <1>3 DEF AckGuardrail
  <1>4. QED
    BY <1>1, <1>2, <1>3, Frames DEF AckStep

(* Where an admin request can have come from. *)
LEMMA AdminCases ==
    ASSUME Typed, LocksHeld, Starts, Next, NEW a \in Admins
    PROVE  \/ task'[a] = task[a]
           \/ task'[a].pc = "idle"
           \/ StartAdmin(a) \/ AdminStep(a)
  <1>1. ASSUME NEW b \in Admins, b # a, StartAdmin(b) \/ AdminStep(b)
        PROVE  task'[a] = task[a]
    BY <1>1, AdminAlone
  <1>2. CASE Boot
    BY <1>2, BootMoves
  <1>3. CASE Restart
    BY <1>3, RestartMoves DEF NoTask
  <1>4. QED
    BY <1>1, <1>2, <1>3, Frames DEF TaskStep

(* The same moves, field by field. *)
Same(a) == /\ task'[a].names = task[a].names /\ task'[a].version = task[a].version
           /\ task'[a].compiled = task[a].compiled /\ task'[a].scope = task[a].scope

LEMMA StepResults ==
    ASSUME Typed, LocksHeld, NEW a \in Admins, AdminStep(a)
    PROVE  \/ WriteUpsert(a) /\ task'[a].pc = "publish" /\ Same(a)
           \/ /\ BuildDelete(a) /\ task[a].pc = "delete" /\ task'[a].pc = "remove"
              /\ Same(a)
           \/ /\ RemoveGuardrail(a) /\ task[a].pc = "remove" /\ task'[a].pc = "publish"
              /\ Same(a)
           \/ /\ PublishDefinitions(a) /\ task[a].pc = "publish" /\ task'[a].pc = "refresh"
              /\ task'[a].names = task[a].names /\ task'[a].compiled = gNext
           \/ /\ StartRefresh(a) /\ task[a].pc = "refresh" /\ task'[a].pc = "refreshing"
              /\ Same(a)
           \/ /\ InsertVersion(a) /\ task[a].pc = "create" /\ task'[a].pc = "activate"
              /\ task'[a].names = task[a].names /\ task'[a].compiled = task[a].compiled
              /\ task'[a].version = NewID /\ task'[a].scope = task[a].scope
           \/ /\ WriteDeactivate(a) /\ task[a].pc = "deactivate" /\ task'[a].pc = "unmatch"
              /\ Same(a)
           \/ task'[a].pc = "idle"
  <1>1. task[a] \in Task
    BY Constants DEF Typed
  <1>2. ASSUME NEW from, NEW to \in AdminSteps, Moves(a, from, to)
        PROVE  task[a].pc \in from /\ task'[a].pc = to /\ Same(a)
    BY <1>1, <1>2 DEF Moves, Same, Task
  <1>3. ASSUME task'[a] = [task[a] EXCEPT !.pc = "refresh", !.compiled = gNext]
        PROVE  /\ task'[a].pc = "refresh" /\ task'[a].names = task[a].names
               /\ task'[a].compiled = gNext
    BY <1>1, <1>3 DEF Task
  <1>4. ASSUME task'[a] = [task[a] EXCEPT !.pc = "activate", !.version = NewID]
        PROVE  /\ task'[a].pc = "activate" /\ task'[a].names = task[a].names
               /\ task'[a].compiled = task[a].compiled /\ task'[a].version = NewID
               /\ task'[a].scope = task[a].scope
    BY <1>1, <1>4 DEF Task
  <1>5. \A l \in {"publish", "remove", "refreshing", "unmatch"} : l \in AdminSteps
    BY DEF AdminSteps
  <1>6. ASSUME task'[a] = NoTask
        PROVE  task'[a].pc = "idle"
    BY <1>6 DEF NoTask
  <1>7. CASE \/ WriteUpsert(a) /\ Moves(a, {"upsert"}, "publish")
             \/ BuildDelete(a) /\ Moves(a, {"delete"}, "remove")
             \/ RemoveGuardrail(a) /\ Moves(a, {"remove"}, "publish")
             \/ StartRefresh(a) /\ Moves(a, {"refresh"}, "refreshing")
             \/ WriteDeactivate(a) /\ Moves(a, {"deactivate"}, "unmatch")
    BY <1>2, <1>5, <1>7
  <1>8. QED
    BY <1>3, <1>4, <1>6, <1>7, StepMoves

LEMMA Refreshers ==
    ASSUME Typed, LocksHeld, Starts, Next, NEW a \in Admins,
           task'[a].pc \in {"refresh", "refreshing"}
    PROVE  /\ task'[a].names = task[a].names
           /\ \/ task'[a] = task[a]
              \/ /\ StartRefresh(a) /\ task[a].pc = "refresh"
                 /\ task'[a].compiled = task[a].compiled
              \/ /\ PublishDefinitions(a) /\ task[a].pc = "publish"
                 /\ task'[a].compiled = gNext /\ task'[a].pc = "refresh"
  <1>1. CASE StartAdmin(a)
    BY <1>1, StartMoves
  <1>2. CASE AdminStep(a)
    BY <1>2, StepResults DEF Same
  <1>3. QED
    BY <1>1, <1>2, AdminCases

LEMMA Publishers ==
    ASSUME Typed, LocksHeld, Starts, Next, NEW a \in Admins, task'[a].pc = "publish"
    PROVE  /\ task'[a].names = task[a].names
           /\ \/ task'[a] = task[a]
              \/ WriteUpsert(a)
              \/ RemoveGuardrail(a) /\ task[a].pc = "remove"
  <1>1. CASE StartAdmin(a)
    BY <1>1, StartMoves
  <1>2. CASE AdminStep(a)
    BY <1>2, StepResults DEF Same
  <1>3. QED
    BY <1>1, <1>2, AdminCases

LEMMA Removers ==
    ASSUME Typed, LocksHeld, Starts, Next, NEW a \in Admins, task'[a].pc \in {"delete", "remove"}
    PROVE  \/ task[a].pc \in {"delete", "remove"} /\ task'[a].names = task[a].names
           \/ Single(task'[a].names)
  <1>1. CASE StartAdmin(a)
    BY <1>1, StartMoves DEF Single
  <1>2. CASE AdminStep(a)
    BY <1>2, StepResults DEF Same
  <1>3. QED
    BY <1>1, <1>2, AdminCases

LEMMA Creators ==
    ASSUME Typed, LocksHeld, Starts, Next, NEW a \in Admins,
           task'[a].pc \in {"create", "activate"}
    PROVE  \/ task'[a] = task[a]
           \/ \E s \in Scopes, refs \in RefSets :
                  /\ StartCreate(a, s, refs) /\ task'[a].pc = "create"
                  /\ task'[a].names = refs /\ task'[a].compiled = BuildPipeline(refs)
           \/ /\ InsertVersion(a) /\ task[a].pc = "create"
              /\ task'[a].names = task[a].names /\ task'[a].compiled = task[a].compiled
              /\ task'[a].version = NewID
  <1>1. CASE StartAdmin(a)
    BY <1>1, StartMoves
  <1>2. CASE AdminStep(a)
    BY <1>2, StepResults DEF Same
  <1>3. QED
    BY <1>1, <1>2, AdminCases

LEMMA Numbers ==
    ASSUME Typed
    PROVE  /\ revision \in Nat
           /\ \A g \in Guardrails : gStore[g] \in Nat /\ gSnapshot[g] \in Nat
                                    /\ gNext[g] \in Nat /\ acked[g] \in Nat
           /\ \A a \in Admins, g \in Guardrails : task[a].compiled[g] \in Nat
           /\ \A a \in Admins : task[a].names \subseteq Guardrails
           /\ \A v \in VersionIDs, g \in Guardrails :
                  next.pipeline[v][g] \in Nat /\ pipeline[v][g] \in Nat
           /\ \A v \in VersionIDs : versions[v].refs \subseteq Guardrails
           /\ \A g \in Guardrails : task[Startup].compiled[g] \in Nat
           /\ ConfigRules \subseteq Guardrails
  <1>1. \A f \in Definitions, g \in Guardrails : f[g] \in Nat
    BY Constants DEF Definitions
  <1>2. \A a \in Admins : task[a] \in Task
    BY Constants DEF Typed
  <1>3. task[Startup] \in Task
    BY Constants DEF Typed
  <1>4. QED
    BY <1>1, <1>2, <1>3, Constants
       DEF Typed, GuardTyped, SnapshotTyped, BuildTyped, Task, Written

LEMMA BoundedNext ==
    ASSUME Typed, LocksHeld, Starts, Bounded, Candidate, Next
    PROVE  Bounded'
  <1>1. GuardEffects
    BY GuardChanges
  <1>2. revision' >= revision /\ revision' \in Nat /\ revision \in Nat
    BY <1>1, Numbers DEF GuardEffects, Given
  <1>3. ASSUME NEW g \in Guardrails
        PROVE  gStore'[g] <= revision' /\ gNext'[g] <= revision'
    <2>1. StoreFrom(g) /\ BuiltFrom(g)
      BY <1>1 DEF GuardEffects
    <2>2. gStore[g] <= revision /\ gNext[g] <= revision /\ 1 <= revision
      BY DEF Bounded
    <2>3. gStore[g] \in Nat /\ gNext[g] \in Nat
      BY Numbers
    <2>4. QED
      BY <1>2, <2>1, <2>2, <2>3 DEF StoreFrom, BuiltFrom
  <1>4. ASSUME NEW g \in Guardrails
        PROVE  acked'[g] <= revision'
    <2>1. /\ acked'[g] = 1 \/ acked'[g] <= revision
          /\ acked'[g] \in Nat
      BY <1>2, AckChanges, Numbers DEF Bounded, At
    <2>2. QED
      BY <1>2, <2>1 DEF Bounded
  <1>5. ASSUME NEW a \in Admins, task'[a].pc \in {"refresh", "refreshing"}, NEW g \in Guardrails
        PROVE  task'[a].compiled[g] <= revision'
    <2>1. task'[a].compiled[g] <= revision /\ task'[a].compiled[g] \in Nat
      BY <1>5, Refreshers, Numbers DEF Bounded
    <2>2. QED
      BY <1>2, <2>1
  <1>6. QED
    BY <1>2, <1>3, <1>4, <1>5 DEF Bounded

LEMMA FreshNext ==
    ASSUME Typed, LocksHeld, Starts, Bounded, Fresh, Publishing, Next, NEW g \in Guardrails
    PROVE  /\ NotBehind(gStore'[g], acked'[g])
           /\ NotBehind(gSnapshot'[g], acked'[g])
           /\ \/ g \in ConfigRules /\ At(Startup, "seeding")'
              \/ NotBehind(gNext'[g], acked'[g])
  <1> USE DEF NotBehind
  <1>1. /\ NotBehind(gStore[g], acked[g]) /\ NotBehind(gSnapshot[g], acked[g])
        /\ \/ g \in ConfigRules /\ At(Startup, "seeding")
           \/ NotBehind(gNext[g], acked[g])
    BY DEF Fresh
  <1>2. /\ gStore[g] \in Nat /\ gSnapshot[g] \in Nat /\ gNext[g] \in Nat /\ acked[g] \in Nat
        /\ acked[g] <= revision /\ revision \in Nat
    BY Numbers DEF Bounded
  <1>3. CASE acked' = acked /\ ~WriteSeed
    <2>1. StoreFrom(g) /\ SnapshotFrom(g) /\ BuiltFrom(g)
      BY GuardChanges DEF GuardEffects
    <2>2. ASSUME Given
          PROVE  NotBehind(revision', acked[g])
      BY <1>2, <2>2 DEF Given
    <2>3. ~At(Startup, "seeding") => NotBehind(gNext[g], acked[g])
      BY <1>1
    <2>4. NotBehind(gStore'[g], acked[g])
      BY <1>1, <1>3, <2>1, <2>2, <2>3 DEF StoreFrom
    <2>5. NotBehind(gSnapshot'[g], acked[g])
      BY <1>1, <2>1, <2>3 DEF SnapshotFrom
    <2>6. \/ g \in ConfigRules /\ At(Startup, "seeding")'
          \/ NotBehind(gNext'[g], acked[g])
      BY <1>1, <1>3, <2>1, <2>2 DEF BuiltFrom
    <2>7. QED
      BY <1>3, <2>4, <2>5, <2>6
  <1>4. CASE WriteSeed
    <2>1. acked'[g] = IF g \in ConfigRules THEN 1 ELSE acked[g]
      BY <1>4 DEF WriteSeed
    <2>2. /\ gStore'[g] = IF g \in ConfigRules THEN gNext[g] ELSE gStore[g]
          /\ gSnapshot' = gSnapshot /\ gNext' = gNext
      BY <1>4 DEF WriteSeed, WriteDefinitions
    <2>3. QED
      BY <1>1, <1>2, <2>1, <2>2
  <1>5. ASSUME NEW a \in Admins, AckGuardrail(a), At(a, "refreshing"),
               acked'[g] = IF g \in task[a].names THEN task[a].compiled[g] ELSE acked[g],
               Up
        PROVE  /\ NotBehind(gStore'[g], acked'[g])
               /\ NotBehind(gSnapshot'[g], acked'[g])
               /\ NotBehind(gNext'[g], acked'[g])
    <2>1. gStore' = gStore /\ gSnapshot' = gSnapshot /\ gNext' = gNext
      BY <1>5 DEF AckGuardrail, guardVars
    <2>2. g \in task[a].names => /\ NotBehind(gStore[g], task[a].compiled[g])
                                 /\ NotBehind(gSnapshot[g], task[a].compiled[g])
                                 /\ NotBehind(gNext[g], task[a].compiled[g])
      BY <1>5 DEF Publishing, At
    <2>3. NotBehind(gNext[g], acked[g])
      BY <1>1, <1>5 DEF Up, At
    <2>4. QED
      BY <1>1, <1>5, <2>1, <2>2, <2>3
  <1>6. QED
    BY <1>3, <1>4, <1>5, AckChanges

LEMMA PublishingNext ==
    ASSUME Typed, LocksHeld, Starts, Bounded, Publishing, Next, NEW a \in Admins
    PROVE  /\ task'[a].pc \in {"delete", "remove"} => Single(task'[a].names)
           /\ task'[a].pc = "publish" =>
                  \A g \in task'[a].names : NotBehind(gStore'[g], gNext'[g])
           /\ task'[a].pc \in {"refresh", "refreshing"} =>
                  \A g \in task'[a].names :
                      /\ NotBehind(gStore'[g], task'[a].compiled[g])
                      /\ NotBehind(gSnapshot'[g], task'[a].compiled[g])
                      /\ NotBehind(gNext'[g], task'[a].compiled[g])
  <1>1. ASSUME task'[a].pc \in {"delete", "remove"}
        PROVE  Single(task'[a].names)
    BY <1>1, Removers DEF Publishing
  <1>2. ASSUME NEW g \in task'[a].names, task'[a].pc = "publish"
        PROVE  NotBehind(gStore'[g], gNext'[g])
    <2>1. task'[a].names = task[a].names /\ g \in Guardrails
      BY <1>2, Publishers, Numbers
    <2>2. CASE task'[a] = task[a]
      <3>1. gHolder = a /\ ~At(Startup, "seeding")
        BY <1>2, <2>2 DEF LocksHeld, Starts, Up, At
      <3>2. gHolder' = a
        BY <1>2, LocksNext DEF LocksHeld
      <3>3. gNext' = gNext
        BY <2>2, <3>1, <3>2, Frames, Constants
           DEF GuardrailStep, StartUpsert, WriteUpsert, BuildDelete, RemoveGuardrail,
               GuardrailWriteFails, PublishDefinitions, LoadGuardrails, SwapGuardrails, Seed,
               WriteSeed, PublishSeed, Restart, UnseenWrite, BuildSnapshot, WriteDefinitions,
               RemoveDefinition, AbandonGuardrails, PublishGuardrails, guardVars, Nobody
      <3>4. NotBehind(gStore[g], gNext[g])
        BY <1>2, <2>1, <2>2 DEF Publishing
      <3>5. StoreFrom(g)
        BY <2>1, GuardChanges DEF GuardEffects
      <3>6. gNext[g] <= revision /\ gNext[g] \in Nat /\ revision \in Nat
        BY <2>1, Numbers DEF Bounded
      <3>7. QED
        BY <3>3, <3>4, <3>5, <3>6 DEF StoreFrom, NotBehind, Given
    <2>3. CASE WriteUpsert(a)
      <3>1. gStore'[g] = gNext[g] /\ gNext' = gNext
        BY <2>1, <2>3 DEF WriteUpsert, WriteDefinitions
      <3>2. QED
        BY <2>1, <3>1, Numbers DEF NotBehind
    <2>4. CASE RemoveGuardrail(a) /\ task[a].pc = "remove"
      <3>1. task[a].names = {g}
        BY <2>1, <2>4 DEF Publishing, Single
      <3>2. gStore'[g] = 0
        BY <2>1, <2>4, <3>1 DEF RemoveGuardrail, RemoveDefinition, Typed, GuardTyped, Definitions
      <3>3. QED
        BY <3>2 DEF NotBehind
    <2>5. QED
      BY <1>2, <2>2, <2>3, <2>4, Publishers
  <1>3. ASSUME NEW g \in task'[a].names, task'[a].pc \in {"refresh", "refreshing"}
        PROVE  /\ NotBehind(gStore'[g], task'[a].compiled[g])
               /\ NotBehind(gSnapshot'[g], task'[a].compiled[g])
               /\ NotBehind(gNext'[g], task'[a].compiled[g])
    <2>1. task'[a].names = task[a].names /\ g \in Guardrails
      BY <1>3, Refreshers, Numbers
    <2>2. CASE task[a].pc \in {"refresh", "refreshing"} /\ task'[a].compiled = task[a].compiled
      <3> DEFINE n == task[a].compiled[g]
      <3>1. NotBehind(gStore[g], n) /\ NotBehind(gSnapshot[g], n) /\ NotBehind(gNext[g], n)
        BY <2>1, <2>2 DEF Publishing
      <3>2. n <= revision /\ n \in Nat /\ revision \in Nat
        BY <2>1, <2>2, Numbers DEF Bounded
      <3>3. StoreFrom(g) /\ SnapshotFrom(g) /\ BuiltFrom(g)
        BY <2>1, GuardChanges DEF GuardEffects
      <3>4. ~At(Startup, "seeding")'
        <4>1. Up'
          BY <1>3, StartsNext DEF Starts
        <4>2. QED
          BY <4>1 DEF Up, At
      <3>5. ASSUME Given
            PROVE  NotBehind(revision', n)
        BY <3>2, <3>5 DEF Given, NotBehind
      <3> HIDE DEF n
      <3>6. NotBehind(gStore'[g], n)
        BY <3>1, <3>3, <3>5 DEF StoreFrom, NotBehind
      <3>7. NotBehind(gSnapshot'[g], n)
        BY <3>1, <3>3 DEF SnapshotFrom, NotBehind
      <3>8. NotBehind(gNext'[g], n)
        BY <3>1, <3>3, <3>4, <3>5 DEF BuiltFrom, NotBehind
      <3>9. QED
        BY <2>2, <3>6, <3>7, <3>8 DEF n
    <2>3. CASE /\ PublishDefinitions(a) /\ task[a].pc = "publish"
               /\ task'[a].compiled = gNext /\ task'[a].pc = "refresh"
      <3>1. gStore' = gStore /\ gSnapshot' = gNext /\ gNext' = NoPipeline
        BY <2>3 DEF PublishDefinitions, PublishGuardrails
      <3>2. NotBehind(gStore[g], gNext[g]) /\ NotBehind(gNext[g], gNext[g])
        BY <2>1, <2>3, Numbers DEF Publishing, NotBehind
      <3>3. NotBehind(NoPipeline[g], gNext[g])
        BY <2>1 DEF NoPipeline, NotBehind
      <3>4. QED
        BY <2>3, <3>1, <3>2, <3>3
    <2>4. QED
      BY <1>3, <2>2, <2>3, Refreshers
  <1>4. QED
    BY <1>1, <1>2, <1>3

(* A pipeline that can be built has what its guardrails have now. *)
LEMMA BuiltPipeline ==
    ASSUME Typed, NEW refs \in SUBSET Guardrails, CanBuild(refs), NEW g \in refs
    PROVE  BuildPipeline(refs)[g] = gSnapshot[g] /\ gSnapshot[g] # 0
  BY DEF CanBuild, BuildPipeline

LEMMA RebuildingNext ==
    ASSUME Typed, LocksHeld, Starts, Used, Fresh, Publishing, Rebuilding, Next,
           NEW v \in next'.ids, NEW g \in versions'[v].refs
    PROVE  /\ next'.pipeline[v][g] >= acked'[g]
           /\ \A a \in Admins : At(a, "refreshing")' /\ g \in task'[a].names =>
                  next'.pipeline[v][g] >= task'[a].compiled[g]
  <1>1. CASE UNCHANGED <<next, pending>>
    <2>1. v \in next.ids /\ v \in VersionIDs /\ g \in versions[v].refs
      <3>1. v \in next.ids /\ v \in VersionIDs /\ versions[v].state # "unused"
        BY <1>1 DEF Typed, BuildTyped, Used
      <3>2. QED
        BY <3>1, RefsKept DEF TableKept, RowKept
    <2>2. next.pipeline[v][g] >= acked[g]
      BY <2>1 DEF Rebuilding
    <2>3. acked' = acked
      <3>1. ASSUME NEW a \in Admins, AckGuardrail(a)
            PROVE  FALSE
        <4>1. next'.ids = {}
          BY <3>1, EmptyBuild DEF AckGuardrail, PublishRefresh, Unlock
        <4>2. QED
          BY <4>1
      <3>2. ASSUME WriteSeed
            PROVE  FALSE
        <4>1. Seeding
          BY <3>2 DEF WriteSeed, BootStep, At, Seeding
        <4>2. QED
          BY <2>1, <4>1 DEF Starts
      <3>3. QED
        BY <3>1, <3>2, Frames DEF AckStep
    <2>4. ASSUME NEW a \in Admins, At(a, "refreshing")', g \in task'[a].names
          PROVE  next.pipeline[v][g] >= task'[a].compiled[g]
      <3>1. CASE task'[a] = task[a]
        BY <2>1, <2>4, <3>1 DEF Rebuilding, At
      <3>2. CASE StartRefresh(a)
        <4>1. next'.ids = {}
          BY <3>2, EmptyBuild DEF StartRefresh, ListActive
        <4>2. QED
          BY <4>1
      <3>3. QED
        BY <2>4, <3>1, <3>2, Refreshers DEF At
    <2>5. QED
      BY <1>1, <2>2, <2>3, <2>4
  <1>2. CASE CompileRow
    <2>1. acked' = acked /\ task' = task /\ versions' = versions
      <3>1. \E p \in Tasks \cup Loops : CompileNext(p)
        BY <1>2 DEF CompileRow
      <3>2. QED
        BY <1>2, <3>1 DEF CompileRow, CompileNext, history
    <2>2. PICK u \in pending :
             /\ next'.ids = next.ids \cup {u}
             /\ next'.pipeline = [next.pipeline EXCEPT ![u] = BuildPipeline(versions[u].refs)]
             /\ CanBuild(versions[u].refs)
      BY <1>2, CompileFacts
    <2>3. u \in VersionIDs /\ v \in VersionIDs
      BY <2>2 DEF Typed, BuildTyped
    <2>4. CASE v = u
      <3>1. g \in Guardrails /\ versions[u].refs \in SUBSET Guardrails
        BY <2>1, <2>3, <2>4, Numbers
      <3>2. next'.pipeline[v][g] = gSnapshot[g] /\ gSnapshot[g] # 0
        <4>1. next'.pipeline[v] = BuildPipeline(versions[u].refs)
          BY <2>2, <2>3, <2>4 DEF Typed, BuildTyped
        <4>2. QED
          BY <2>1, <2>2, <2>4, <3>1, <4>1, BuiltPipeline
      <3>3. gSnapshot[g] >= acked[g]
        BY <3>1, <3>2 DEF Fresh, NotBehind
      <3>4. ASSUME NEW a \in Admins, At(a, "refreshing"), g \in task[a].names
            PROVE  gSnapshot[g] >= task[a].compiled[g]
        BY <3>2, <3>4 DEF Publishing, NotBehind, At
      <3>5. QED
        BY <2>1, <3>2, <3>3, <3>4 DEF At
    <2>5. CASE v # u
      <3>1. v \in next.ids /\ next'.pipeline[v] = next.pipeline[v]
        BY <2>2, <2>3, <2>5 DEF Typed, BuildTyped
      <3>2. QED
        BY <2>1, <3>1 DEF Rebuilding, At
    <2>6. QED
      BY <2>4, <2>5
  <1>3. CASE BuildDropped
    BY <1>3, EmptyBuild DEF BuildDropped
  <1>4. QED
    BY <1>1, <1>2, <1>3, Frames, BuildCases DEF buildVars

LEMMA CandidateNext ==
    ASSUME Typed, LocksHeld, Starts, Fresh, Candidate, Next
    PROVE  Candidate'
  <1>1. ASSUME NEW a \in Admins, task'[a].pc \in {"create", "activate"},
               NEW g \in task'[a].names
        PROVE  task'[a].compiled[g] >= acked'[g]
    <2>1. acked' = acked
      <3>1. CASE WriteSeed
        <4>1. ~Up /\ task'[a] = task[a]
          BY <3>1, BootMoves DEF Boot, WriteSeed, BootStep, At, Up
        <4>2. QED
          BY <1>1, <4>1 DEF Starts
      <3>2. ASSUME NEW b \in Admins, AckGuardrail(b)
            PROVE  FALSE
        <4>1. AdminStep(b) /\ At(b, "refreshing")
          BY <3>2 DEF AdminStep, AckGuardrail
        <4>2. CASE a = b
          <5>1. task'[a].pc = "idle"
            BY <3>2, <4>2, Answered DEF AckGuardrail, NoTask
          <5>2. QED
            BY <1>1, <5>1
        <4>3. CASE a # b
          BY <1>1, <4>1, <4>3, AdminAlone
        <4>4. QED
          BY <4>2, <4>3
      <3>3. QED
        BY <3>1, <3>2, AckChanges
    <2>2. CASE task'[a] = task[a]
      BY <1>1, <2>1, <2>2 DEF Candidate
    <2>3. ASSUME NEW s \in Scopes, NEW refs \in RefSets, StartCreate(a, s, refs),
                 task'[a].names = refs, task'[a].compiled = BuildPipeline(refs)
          PROVE  task'[a].compiled[g] >= acked'[g]
      <3>1. CanBuild(refs) /\ refs \in SUBSET Guardrails
        BY <2>3, WorkflowAssumption DEF StartCreate
      <3>2. task'[a].compiled[g] = gSnapshot[g] /\ gSnapshot[g] # 0
        BY <1>1, <2>3, <3>1, BuiltPipeline
      <3>3. QED
        BY <1>1, <2>1, <2>3, <3>1, <3>2 DEF Fresh, NotBehind
    <2>4. CASE /\ InsertVersion(a) /\ task[a].pc = "create"
               /\ task'[a].names = task[a].names /\ task'[a].compiled = task[a].compiled
      BY <1>1, <2>1, <2>4 DEF Candidate
    <2>5. QED
      BY <1>1, <2>2, <2>3, <2>4, Creators
  <1>2. ASSUME NEW a \in Admins, task'[a].pc = "activate"
        PROVE  /\ task'[a].version \in VersionIDs
               /\ versions'[task'[a].version].state # "unused"
               /\ versions'[task'[a].version].refs = task'[a].names
    <2>1. CASE task'[a] = task[a]
      BY <1>2, <2>1, RefsKept DEF Candidate, TableKept, RowKept, At
    <2>2. CASE /\ InsertVersion(a) /\ task'[a].names = task[a].names
               /\ task'[a].version = NewID
      <3>1. task[a].scope \in Scopes /\ task[a].names \in SUBSET Guardrails
        BY Constants DEF Typed, Task
      <3>2. HasRoom /\ versions' = Inserted(task[a].scope, task[a].names, FALSE)
        BY <2>2 DEF InsertVersion
      <3>3. /\ NewID \in VersionIDs /\ versions'[NewID].state = "active"
            /\ versions'[NewID].refs = task[a].names
        BY <3>1, <3>2, FreeID, InsertedKeeps
      <3>4. QED
        BY <2>2, <3>3
    <2>3. QED
      BY <1>2, <2>1, <2>2, Creators
  <1>3. ASSUME At(Startup, "ensure")', NEW g \in ConfigRules
        PROVE  task'[Startup].compiled[g] >= acked'[g]
    <2>1. task[Startup] \in Task
      BY Constants DEF Typed
    <2>2. CASE CompileDefault
      <3>1. task' = [task EXCEPT
                  ![Startup].pc = IF CanBuild(ConfigRules) THEN "ensure" ELSE "down",
                  ![Startup].compiled = BuildPipeline(ConfigRules)] /\ acked' = acked
        BY <2>2 DEF CompileDefault, history
      <3>2. /\ task'[Startup].pc = IF CanBuild(ConfigRules) THEN "ensure" ELSE "down"
            /\ task'[Startup].compiled = BuildPipeline(ConfigRules)
        BY <2>1, <2>2, <3>1, Constants DEF Typed, Task
      <3>3. CanBuild(ConfigRules)
        BY <1>3, <3>2 DEF At
      <3>4. BuildPipeline(ConfigRules)[g] = gSnapshot[g] /\ gSnapshot[g] # 0
        BY <3>3, BuiltPipeline, Constants
      <3>5. QED
        BY <3>1, <3>2, <3>4, Constants DEF Fresh, NotBehind
    <2>3. CASE task'[Startup] = task[Startup]
      <3>1. At(Startup, "ensure") /\ ~Up
        BY <1>3, <2>3 DEF At, Up
      <3>2. acked' = acked
        BY <2>3, <3>1, AckChanges DEF At
      <3>3. QED
        BY <2>3, <3>1, <3>2 DEF Candidate
    <2>4. CASE Boot /\ ~CompileDefault
      BY <1>3, <2>1, <2>4, BootMoves DEF Moves, Task, At
    <2>5. CASE Restart
      BY <1>3, <2>5, RestartMoves DEF At
    <2>6. QED
      BY <2>2, <2>3, <2>4, <2>5, Frames, AdminAlone DEF TaskStep
  <1>4. QED
    BY <1>1, <1>2, <1>3 DEF Candidate, At

LEMMA ServedNext ==
    ASSUME IInv, Next, NEW v \in byVersionID', NEW g \in versions'[v].refs
    PROVE  pipeline'[v][g] >= acked'[g]
  <1> USE DEF IInv
  <1>1. ASSUME NEW u \in byVersionID, v = u
        PROVE  g \in versions[v].refs /\ pipeline[v][g] >= acked[g] /\ v \in VersionIDs
    <2>1. u \in VersionIDs /\ versions[u].state # "unused"
      BY DEF Typed, SnapshotTyped, Used
    <2>2. versions'[u].refs = versions[u].refs
      BY <2>1, RefsKept DEF TableKept, RowKept
    <2>3. QED
      BY <1>1, <2>1, <2>2 DEF AckedRevisionServed
  <1>2. CASE UNCHANGED <<snapshotVars, acked>>
    BY <1>1, <1>2 DEF snapshotVars
  <1>3. ASSUME NEW p, PublishRefresh(p)
        PROVE  /\ v \in next.ids /\ g \in versions[v].refs
               /\ pipeline'[v] = next.pipeline[v]
    BY <1>3 DEF PublishRefresh
  <1>4. ASSUME NEW a \in Admins, AckGuardrail(a)
        PROVE  pipeline'[v][g] >= acked'[g]
    <2>1. /\ v \in next.ids /\ g \in versions[v].refs /\ pipeline'[v] = next.pipeline[v]
          /\ At(a, "refreshing")
      BY <1>3, <1>4 DEF AckGuardrail
    <2>2. g \in Guardrails
      BY <2>1, Numbers DEF Typed, BuildTyped
    <2>3. acked'[g] = IF g \in task[a].names THEN task[a].compiled[g] ELSE acked[g]
      BY <1>4, <2>2 DEF AckGuardrail
    <2>4. QED
      BY <2>1, <2>3 DEF Rebuilding
  <1>5. ASSUME NEW p, PublishRefresh(p), acked' = acked
        PROVE  pipeline'[v][g] >= acked'[g]
    BY <1>3, <1>5 DEF Rebuilding
  <1>6. ASSUME NEW a \in Admins, ActivateVersion(a)
        PROVE  pipeline'[v][g] >= acked'[g]
    <2>1. /\ At(a, "activate") /\ versions' = versions /\ acked' = acked
          /\ Activate(task[a].version, task[a].scope, task[a].compiled)
      BY <1>6 DEF ActivateVersion
    <2>2. CASE v = task[a].version
      <3>1. /\ v \in VersionIDs /\ versions[v].refs = task[a].names
            /\ pipeline'[v] = task[a].compiled
        BY <2>1, <2>2 DEF Candidate, Activate
      <3>2. QED
        BY <2>1, <3>1 DEF Candidate, At
    <2>3. CASE v # task[a].version
      <3>1. v \in byVersionID /\ v # matchAt[task[a].scope]
        BY <2>1, <2>3 DEF Activate
      <3>2. pipeline'[v] = pipeline[v]
        BY <1>1, <2>1, <2>3, <3>1 DEF Activate
      <3>3. QED
        BY <1>1, <2>1, <3>1, <3>2
    <2>4. QED
      BY <2>2, <2>3
  <1>7. ASSUME NEW a \in Admins, UnmatchVersion(a)
        PROVE  pipeline'[v][g] >= acked'[g]
    <2>1. v \in byVersionID /\ v # task[a].version /\ acked' = acked
      BY <1>7 DEF UnmatchVersion, Unmatch
    <2>2. pipeline'[v] = pipeline[v]
      BY <1>1, <1>7, <2>1 DEF UnmatchVersion, Unmatch, Typed, SnapshotTyped
    <2>3. QED
      BY <1>1, <2>1, <2>2
  <1>8. CASE SwapWorkflows
    BY <1>2, <1>5, <1>8 DEF SwapWorkflows, RefreshFails, history
  <1>9. CASE FinishLoad
    BY <1>2, <1>5, <1>9 DEF FinishLoad, RefreshFails, history
  <1>10. CASE EnsureDefault
    <2>1. acked' = acked /\ At(Startup, "ensure")
      BY <1>10 DEF EnsureDefault, BootStep, history
    <2>2. CASE UNCHANGED snapshotVars
      BY <1>2, <2>1, <2>2
    <2>3. CASE /\ HasRoom /\ versions' = Inserted(GlobalScope, ConfigRules, TRUE)
               /\ Activate(NewID, GlobalScope, task[Startup].compiled)
      <3>1. CASE v = NewID
        <4>1. versions'[v].refs = ConfigRules /\ v \in VersionIDs
          BY <2>3, <3>1, FreeID, InsertedKeeps, Constants
        <4>2. pipeline'[v] = task[Startup].compiled
          BY <2>3, <3>1, <4>1 DEF Activate
        <4>3. QED
          BY <2>1, <4>1, <4>2 DEF Candidate
      <3>2. CASE v # NewID
        <4>1. v \in byVersionID /\ v # matchAt[GlobalScope]
          BY <2>3, <3>2 DEF Activate
        <4>2. pipeline'[v] = pipeline[v]
          BY <1>1, <2>3, <3>2, <4>1 DEF Activate
        <4>3. QED
          BY <1>1, <2>1, <4>1, <4>2
      <3>3. QED
        BY <3>1, <3>2
    <2>4. QED
      BY <1>10, <2>2, <2>3 DEF EnsureDefault
  <1>11. CASE Restart
    BY <1>11 DEF Restart
  <1>12. CASE WriteSeed
    <2>1. Seeding /\ byVersionID' = byVersionID
      BY <1>12 DEF WriteSeed, BootStep, At, Seeding, workflowVars, snapshotVars
    <2>2. QED
      BY <2>1 DEF Starts
  <1>13. QED
    BY <1>2, <1>4, <1>6, <1>7, <1>8, <1>9, <1>10, <1>11, <1>12, Frames
       DEF SnapshotStep, AckStep

-----------------------------------------------------------------------------
LEMMA InvInit == Init => IInv
  <1> SUFFICES ASSUME Init PROVE IInv
    OBVIOUS
  <1>1. /\ task \in [Tasks -> Task] /\ \A a \in Admins : task[a] = NoTask
        /\ task[Startup].pc = "seed"
    <2>1. [NoTask EXCEPT !.pc = "seed"] \in Task /\ [NoTask EXCEPT !.pc = "seed"].pc = "seed"
      BY Constants DEF NoTask, Task, BootSteps
    <2>2. QED
      BY <2>1, Constants DEF Init
  <1>2. \A a \in Admins : task[a].pc = "idle" /\ a # Nobody
    BY <1>1, Constants DEF NoTask
  <1>3. versions \in [VersionIDs -> Written]
    <2> DEFINE row == [state |-> "unused", scope |-> GlobalScope, refs |-> ConfigRules,
                       managed |-> FALSE]
    <2>1. row \in Written
      BY Constants DEF Written
    <2>2. versions \in [VersionIDs -> {row}]
      BY DEF Init
    <2> HIDE DEF row
    <2>3. QED
      BY <2>1, <2>2
  <1>4. /\ gStore = NoPipeline /\ gNext = NoPipeline /\ gSnapshot = NoPipeline
        /\ acked = NoPipeline /\ revision = 1 /\ NoPipeline \in Definitions
        /\ \A g \in Guardrails : NoPipeline[g] = 0
    BY Constants DEF Init, NoPipeline
  <1>5. /\ byVersionID = {} /\ pending = {} /\ next.ids = {}
        /\ pipeline \in [VersionIDs -> Definitions]
        /\ next.pipeline \in [VersionIDs -> Definitions]
    BY EmptyBuild DEF Init
  <1>6. Typed
    BY <1>1, <1>3, <1>4, <1>5, Constants DEF Typed, GuardTyped, SnapshotTyped, BuildTyped
  <1>7. LocksHeld
    BY <1>1, <1>2 DEF Init, LocksHeld, Nobody, Startup
  <1>8. Starts /\ Used
    BY <1>2, <1>5 DEF Init, Starts, Used
  <1>9. Bounded /\ Fresh
    BY <1>2, <1>4 DEF Bounded, Fresh, NotBehind
  <1>10. Publishing /\ Rebuilding /\ Candidate /\ AckedRevisionServed
    BY <1>1, <1>2, <1>5 DEF Publishing, Rebuilding, Candidate, AckedRevisionServed, At
  <1>11. QED
    BY <1>6, <1>7, <1>8, <1>9, <1>10 DEF IInv

LEMMA InvNext == IInv /\ [Next]_vars => IInv'
  <1> SUFFICES ASSUME IInv, [Next]_vars PROVE IInv'
    OBVIOUS
  <1>1. CASE Next
    <2>1. Typed' /\ LocksHeld' /\ Starts' /\ Used' /\ Bounded' /\ Candidate'
      BY <1>1, TypedNext, LocksNext, StartsNext, UsedNext, BoundedNext, CandidateNext DEF IInv
    <2>2. Fresh'
      BY <1>1, FreshNext DEF IInv, Fresh
    <2>3. Publishing'
      BY <1>1, PublishingNext DEF IInv, Publishing
    <2>4. Rebuilding'
      BY <1>1, RebuildingNext DEF IInv, Rebuilding
    <2>5. AckedRevisionServed'
      BY <1>1, ServedNext DEF AckedRevisionServed
    <2>6. QED
      BY <2>1, <2>2, <2>3, <2>4, <2>5 DEF IInv
  <1>2. CASE UNCHANGED vars
    <2>1. /\ UNCHANGED <<gStore, gSnapshot, gNext, gHolder, revision>>
          /\ UNCHANGED <<versions, matchAt, byVersionID, pipeline, wHolder, pending, next>>
          /\ UNCHANGED <<mutationMu, task, acked>>
      BY <1>2 DEF vars, guardVars, workflowVars, snapshotVars, buildVars, history
    <2>2. Typed' /\ LocksHeld' /\ Starts' /\ Used' /\ Bounded'
      BY <2>1 DEF IInv, Typed, GuardTyped, SnapshotTyped, BuildTyped, LocksHeld, Starts,
                  Seeding, Up, Used, Bounded
    <2>3. Fresh' /\ Publishing' /\ Rebuilding' /\ Candidate' /\ AckedRevisionServed'
      BY <2>1 DEF IInv, Fresh, Publishing, Rebuilding, Candidate, AckedRevisionServed, At
    <2>4. QED
      BY <2>2, <2>3 DEF IInv
  <1>3. QED
    BY <1>1, <1>2

(* No definition older than one a client was told of is anywhere a later   *)
(* step could serve it from.                                               *)
THEOREM Safety == Spec => []IInv
  <1>1. QED
    BY InvInit, InvNext, PTL DEF Spec

(* A guardrail change that was answered with success is in every pipeline  *)
(* that requests can get: PublishDefinitions is before the refresh, and a  *)
(* candidate is compiled while the handler keeps other changes out.        *)
THEOREM AckedServed == Spec => []AckedRevisionServed
  <1>1. IInv => AckedRevisionServed
    BY DEF IInv
  <1>2. QED
    BY <1>1, Safety, PTL

-----------------------------------------------------------------------------
(* What a client was told of a version is kept by whoever publishes.  The  *)
(* invariant: the maps lead to versions of their scope, a refresh still    *)
(* has every version that was answered and is active, and no edit touches  *)
(* another one.                                                            *)

RowOf(s, v) == v \in VersionIDs /\ versions[v].state # "unused" /\ versions[v].scope = s

Matched == /\ matchAt \in [Scopes -> {0} \cup VersionIDs]
           /\ next.at \in [Scopes -> {0} \cup VersionIDs]
           /\ \A s \in Scopes : /\ matchAt[s] # 0 => RowOf(s, matchAt[s])
                                /\ next.at[s] # 0 => RowOf(s, next.at[s])

OneActive == \A u, v \in Active : versions[u].scope = versions[v].scope => u = v

Told == /\ \A v \in created \cup retired : v \in VersionIDs /\ versions[v].state # "unused"
        /\ retired \cap Active = {}

NotRetired == \A v \in retired : /\ v \notin pending
                                 /\ \A s \in Scopes : next.at[s] # v /\ matchAt[s] # v

Refreshing == wHolder \in Loops \cup {Startup} \/ \E a \in Admins : At(a, "refreshing")

Listed == Refreshing => \A v \in created \cap Active :
                            v \in pending \/ next.at[versions[v].scope] = v

Editing ==
    \A a \in Admins :
        /\ task[a].pc \in {"activate", "deactivate", "unmatch"} =>
               RowOf(task[a].scope, task[a].version)
        /\ task[a].pc \in {"activate", "unmatch"} =>
               \A v \in created \cap Active : versions[v].scope # task[a].scope
        /\ task[a].pc = "activate" => task[a].version \notin retired
        /\ task[a].pc = "unmatch" => task[a].version \notin Active

OInv == /\ Matched /\ OneActive /\ Told /\ NotRetired /\ Listed /\ Editing
        /\ OwnVersionsServed

(* What the rows are after a step. *)
RowAfter(s, v) == v \in VersionIDs /\ versions'[v].state # "unused" /\ versions'[v].scope = s

Leads(f) == /\ f \in [Scopes -> {0} \cup VersionIDs]
            /\ \A s \in Scopes : f[s] # 0 => RowAfter(s, f[s])

LEMMA RowOfKept ==
    ASSUME TableKept, NEW s, NEW v, RowOf(s, v)
    PROVE  RowAfter(s, v)
  BY DEF TableKept, RowKept, RowOf, RowAfter

LEMMA LeadsExcept ==
    ASSUME NEW f, Leads(f), NEW s \in Scopes, NEW v \in {0} \cup VersionIDs,
           v # 0 => RowAfter(s, v)
    PROVE  Leads([f EXCEPT ![s] = v])
  BY DEF Leads

LEMMA CompileAt ==
    ASSUME Typed, CompileRow
    PROVE  \E v \in pending :
             /\ pending' = pending \ {v} /\ next.at[versions[v].scope] = 0
             /\ next'.at = [next.at EXCEPT ![versions[v].scope] = v]
             /\ UNCHANGED <<versions, snapshotVars, wHolder, task, created, retired>>
  <1>1. PICK p \in Tasks \cup Loops : CompileNext(p)
    BY DEF CompileRow
  <1>2. Max(pending) \in pending
    BY <1>1, NewestPending DEF CompileNext, Typed
  <1>3. QED
    BY <1>1, <1>2 DEF CompileNext, Compilable, CompileRow, history

LEMMA EmptyAt ==
    /\ EmptySnapshot.at \in [Scopes -> {0} \cup VersionIDs]
    /\ \A s \in Scopes : EmptySnapshot.at[s] = 0
  BY DEF EmptySnapshot

(* How the served map changes. *)
LEMMA MatchCases ==
    ASSUME Next
    PROVE  \/ UNCHANGED matchAt
           \/ matchAt' = next.at /\ pending = {} /\ UNCHANGED versions
           \/ \E a \in Admins :
                  /\ ActivateVersion(a) /\ At(a, "activate") /\ UNCHANGED versions
                  /\ matchAt' = [matchAt EXCEPT ![task[a].scope] = task[a].version]
           \/ \E a \in Admins :
                  /\ UnmatchVersion(a) /\ At(a, "unmatch") /\ UNCHANGED versions
                  /\ matchAt' = [matchAt EXCEPT ![task[a].scope] = 0]
           \/ /\ EnsureDefault /\ HasRoom
              /\ versions' = Inserted(GlobalScope, ConfigRules, TRUE)
              /\ matchAt' = [matchAt EXCEPT ![GlobalScope] = NewID]
           \/ Restart /\ matchAt' = EmptySnapshot.at
  <1>1. ASSUME NEW p, PublishRefresh(p)
        PROVE  matchAt' = next.at /\ pending = {} /\ UNCHANGED versions
    BY <1>1 DEF PublishRefresh
  <1>2. ASSUME NEW a \in Admins, AckGuardrail(a)
        PROVE  matchAt' = next.at /\ pending = {} /\ UNCHANGED versions
    BY <1>1, <1>2 DEF AckGuardrail
  <1>3. CASE SwapWorkflows \/ FinishLoad
    BY <1>1, <1>3 DEF SwapWorkflows, FinishLoad, RefreshFails, snapshotVars
  <1>4. ASSUME NEW a \in Admins, ActivateVersion(a)
        PROVE  /\ At(a, "activate") /\ UNCHANGED versions
               /\ matchAt' = [matchAt EXCEPT ![task[a].scope] = task[a].version]
    BY <1>4 DEF ActivateVersion, Activate
  <1>5. ASSUME NEW a \in Admins, UnmatchVersion(a)
        PROVE  /\ At(a, "unmatch") /\ UNCHANGED versions
               /\ matchAt' = [matchAt EXCEPT ![task[a].scope] = 0]
    BY <1>5 DEF UnmatchVersion, Unmatch
  <1>6. CASE EnsureDefault
    BY <1>6 DEF EnsureDefault, Activate, snapshotVars
  <1>7. CASE Restart
    BY <1>7 DEF Restart
  <1>8. QED
    BY <1>2, <1>3, <1>4, <1>5, <1>6, <1>7, Frames DEF SnapshotStep, snapshotVars

LEMMA MatchedNext ==
    ASSUME Typed, Used, Matched, Editing, Next
    PROVE  Matched'
  <1>1. TableKept
    BY RefsKept
  <1>2. Leads(matchAt) /\ Leads(next.at)
    BY <1>1, RowOfKept DEF Matched, Leads
  <1>3. Leads(EmptySnapshot.at)
    BY EmptyAt DEF Leads
  <1>4. Leads(next'.at)
    <2>1. CASE CompileRow
      <3>1. PICK v \in pending : next'.at = [next.at EXCEPT ![versions[v].scope] = v]
        BY <2>1, CompileAt
      <3>2. PICK s \in Scopes : s = versions[v].scope
        BY DEF Typed, BuildTyped, Written
      <3>3. v \in VersionIDs /\ RowOf(s, v)
        BY <3>2 DEF RowOf, Used, Typed, BuildTyped
      <3>4. RowAfter(s, v)
        BY <1>1, <3>3, RowOfKept
      <3>5. next'.at = [next.at EXCEPT ![s] = v]
        BY <3>1, <3>2
      <3>6. Leads([next.at EXCEPT ![s] = v])
        BY <1>2, <3>3, <3>4, LeadsExcept
      <3>7. QED
        BY <3>5, <3>6
    <2>2. CASE BuildDropped
      BY <1>3, <2>2 DEF BuildDropped
    <2>3. CASE UNCHANGED next
      BY <1>2, <2>3
    <2>4. QED
      BY <2>1, <2>2, <2>3, Frames, BuildCases DEF buildVars
  <1>5. Leads(matchAt')
    <2>1. ASSUME NEW a \in Admins, At(a, "activate"),
                 matchAt' = [matchAt EXCEPT ![task[a].scope] = task[a].version]
          PROVE  Leads(matchAt')
      <3>1. RowOf(task[a].scope, task[a].version) /\ task[a].scope \in Scopes
        BY <2>1, Constants DEF Editing, At, Typed, Task
      <3>2. task[a].version \in VersionIDs /\ RowAfter(task[a].scope, task[a].version)
        BY <1>1, <3>1, RowOfKept DEF RowOf
      <3>3. QED
        BY <1>2, <2>1, <3>1, <3>2, LeadsExcept
    <2>2. ASSUME NEW a \in Admins, matchAt' = [matchAt EXCEPT ![task[a].scope] = 0]
          PROVE  Leads(matchAt')
      <3>1. task[a].scope \in Scopes
        BY Constants DEF Typed, Task
      <3>2. QED
        BY <1>2, <2>2, <3>1, LeadsExcept
    <2>3. CASE /\ HasRoom /\ versions' = Inserted(GlobalScope, ConfigRules, TRUE)
               /\ matchAt' = [matchAt EXCEPT ![GlobalScope] = NewID]
      <3>1. NewID \in VersionIDs /\ RowAfter(GlobalScope, NewID) /\ GlobalScope \in Scopes
        BY <2>3, FreeID, InsertedKeeps, Constants DEF RowAfter
      <3>2. QED
        BY <1>2, <2>3, <3>1, LeadsExcept
    <2>4. QED
      BY <1>2, <1>3, <2>1, <2>2, <2>3, MatchCases
  <1>6. QED
    BY <1>4, <1>5 DEF Matched, Leads, RowOf, RowAfter

(* An active row was active or has just been inserted. *)
LEMMA ActiveKept ==
    ASSUME Typed, Next, NEW v \in VersionIDs, versions[v].state # "unused", v \in Active'
    PROVE  v \in Active /\ versions'[v].scope = versions[v].scope
  BY RefsKept DEF TableKept, RowKept, Active

LEMMA TableCases ==
    ASSUME Typed, Next
    PROVE  \/ UNCHANGED versions
           \/ \E v \in VersionIDs : versions' = Deactivated(v)
           \/ \E s \in Scopes, refs \in SUBSET Guardrails, m \in BOOLEAN :
                  HasRoom /\ versions' = Inserted(s, refs, m)
  <1>1. ASSUME NEW a \in Admins, InsertVersion(a)
        PROVE  \E s \in Scopes, refs \in SUBSET Guardrails, m \in BOOLEAN :
                   HasRoom /\ versions' = Inserted(s, refs, m)
    <2>1. task[a].scope \in Scopes /\ task[a].names \in SUBSET Guardrails
      BY Constants DEF Typed, Task
    <2>2. HasRoom /\ versions' = Inserted(task[a].scope, task[a].names, FALSE)
      BY <1>1 DEF InsertVersion
    <2>3. QED
      BY <2>1, <2>2
  <1>2. ASSUME NEW a \in Admins, WriteDeactivate(a)
        PROVE  \E v \in VersionIDs : versions' = Deactivated(v)
    BY <1>2 DEF WriteDeactivate, Active
  <1>3. CASE EnsureDefault
    BY <1>3, Constants DEF EnsureDefault
  <1>4. CASE UnseenWrite
    <2>1. \A refs \in RefSets : refs \in SUBSET Guardrails
      BY WorkflowAssumption
    <2>2. QED
      BY <1>4, <2>1 DEF UnseenWrite, OtherUpsert, OtherDelete, OtherCreate, OtherDeactivate
  <1>5. QED
    BY <1>1, <1>2, <1>3, <1>4, Frames DEF TableStep

LEMMA OneActiveNext ==
    ASSUME Typed, OneActive, Next, NEW u \in Active', NEW v \in Active',
           versions'[u].scope = versions'[v].scope
    PROVE  u = v
  <1>1. u \in VersionIDs /\ versions'[u].state = "active"
        /\ v \in VersionIDs /\ versions'[v].state = "active"
    BY DEF Active
  <1>2. ASSUME u \in Active, v \in Active
        PROVE  u = v
    BY <1>1, <1>2, ActiveKept DEF OneActive, Active
  <1>3. CASE UNCHANGED versions
    BY <1>2, <1>3 DEF Active
  <1>4. ASSUME NEW w \in VersionIDs, versions' = Deactivated(w)
        PROVE  u = v
    <2>1. \A n \in VersionIDs : versions'[n].state = "active" => versions[n].state = "active"
      BY <1>4 DEF Deactivated, Typed, Written
    <2>2. QED
      BY <1>1, <1>2, <2>1 DEF Active
  <1>5. ASSUME NEW s \in Scopes, NEW refs \in SUBSET Guardrails, NEW m \in BOOLEAN,
               HasRoom, versions' = Inserted(s, refs, m)
        PROVE  u = v
    <2>1. /\ versions'[NewID].scope = s /\ NewID \in VersionIDs
          /\ \A n \in VersionIDs \ {NewID} :
                 versions'[n].state = "active" => n \in Active /\ versions[n].scope # s
      BY <1>5, InsertedKeeps, FreeID DEF Active
    <2>2. \A n \in VersionIDs \ {NewID} :
              versions'[n].state = "active" => versions'[n].scope # s
      BY <2>1, ActiveKept DEF Active
    <2>3. CASE u = NewID \/ v = NewID
      BY <1>1, <2>1, <2>2, <2>3
    <2>4. CASE u # NewID /\ v # NewID
      BY <1>1, <1>2, <2>1, <2>4
    <2>5. QED
      BY <2>3, <2>4
  <1>6. QED
    BY <1>3, <1>4, <1>5, TableCases

LEMMA ToldNext ==
    ASSUME Typed, Told, Editing, Next
    PROVE  Told'
  <1>1. TableKept
    BY RefsKept
  <1>2. \A v \in created \cup retired : v \in VersionIDs /\ versions'[v].state # "unused"
    BY <1>1 DEF Told, TableKept, RowKept
  <1>3. \A v \in retired : versions'[v].state # "active"
    BY <1>1 DEF Told, TableKept, RowKept, Active
  <1>4. ASSUME NEW a \in Admins, ActivateVersion(a)
        PROVE  \A v \in created' : v \in VersionIDs /\ versions'[v].state # "unused"
    <2>1. /\ At(a, "activate") /\ versions' = versions
          /\ created' = (created \cap Active) \cup {task[a].version}
      BY <1>4 DEF ActivateVersion
    <2>2. task[a].version \in VersionIDs /\ versions'[task[a].version].state # "unused"
      BY <2>1 DEF Editing, At, RowOf
    <2>3. QED
      BY <1>2, <2>1, <2>2
  <1>5. ASSUME NEW a \in Admins, UnmatchVersion(a)
        PROVE  \A v \in retired' : /\ v \in VersionIDs /\ versions'[v].state # "unused"
                                   /\ versions'[v].state # "active"
    <2>1. /\ At(a, "unmatch") /\ versions' = versions
          /\ retired' = retired \cup {task[a].version}
      BY <1>5 DEF UnmatchVersion
    <2>2. /\ task[a].version \in VersionIDs /\ versions'[task[a].version].state # "unused"
          /\ versions'[task[a].version].state # "active"
      BY <2>1 DEF Editing, At, RowOf, Active
    <2>3. QED
      BY <1>2, <1>3, <2>1, <2>2
  <1>6. QED
    BY <1>2, <1>3, <1>4, <1>5, Frames DEF Told, Active

LEMMA NotRetiredNext ==
    ASSUME Typed, Matched, Told, NotRetired, Editing, Next, NEW v \in retired'
    PROVE  /\ v \notin pending'
           /\ \A s \in Scopes : next'.at[s] # v /\ matchAt'[s] # v
  <1>1. ASSUME NEW a \in Admins, UnmatchVersion(a), v = task[a].version
        PROVE  /\ v \notin pending'
               /\ \A s \in Scopes : next'.at[s] # v /\ matchAt'[s] # v
    <2>1. /\ At(a, "unmatch") /\ matchAt' = [matchAt EXCEPT ![task[a].scope] = 0]
          /\ pending' = {} /\ next' = EmptySnapshot
      BY <1>1 DEF UnmatchVersion, Unmatch, Unlock
    <2>2. v \in VersionIDs /\ versions[v].scope = task[a].scope /\ v # 0
      BY <1>1, <2>1 DEF Editing, At, RowOf, VersionIDs
    <2>3. ASSUME NEW s \in Scopes
          PROVE  matchAt'[s] # v
      <3>1. CASE s = task[a].scope
        BY <2>1, <2>2, <2>3, <3>1 DEF Matched
      <3>2. CASE s # task[a].scope
        BY <2>1, <2>2, <2>3, <3>2 DEF Matched, RowOf
      <3>3. QED
        BY <3>1, <3>2
    <2>4. QED
      BY <2>1, <2>2, <2>3, EmptyAt
  <1>2. ASSUME v \in retired
        PROVE  /\ v \notin pending'
               /\ \A s \in Scopes : next'.at[s] # v /\ matchAt'[s] # v
    <2>1. /\ v \notin pending /\ v \notin Active /\ v \in VersionIDs /\ v # 0
          /\ versions[v].state # "unused"
      BY <1>2 DEF NotRetired, Told, VersionIDs
    <2>2. \A s \in Scopes : next.at[s] # v /\ matchAt[s] # v
      BY <1>2 DEF NotRetired
    <2>3. v \notin pending' /\ \A s \in Scopes : next'.at[s] # v
      <3>1. CASE CompileRow
        <4>1. PICK u \in pending : /\ pending' = pending \ {u}
                                   /\ next'.at = [next.at EXCEPT ![versions[u].scope] = u]
          BY <3>1, CompileAt
        <4>2. u # v
          BY <2>1
        <4>3. QED
          BY <2>1, <2>2, <4>1, <4>2 DEF Matched
      <3>2. CASE BuildDropped
        BY <2>1, <3>2, EmptyAt DEF BuildDropped
      <3>3. CASE UNCHANGED <<next, pending>>
        BY <2>1, <2>2, <3>3
      <3>4. QED
        BY <3>1, <3>2, <3>3, Frames, BuildCases DEF buildVars
    <2>4. \A s \in Scopes : matchAt'[s] # v
      <3>1. ASSUME NEW a \in Admins, At(a, "activate"),
                   matchAt' = [matchAt EXCEPT ![task[a].scope] = task[a].version]
            PROVE  \A s \in Scopes : matchAt'[s] # v
        <4>1. task[a].version # v
          BY <1>2, <3>1 DEF Editing, At
        <4>2. QED
          BY <2>2, <3>1, <4>1 DEF Matched
      <3>2. ASSUME NEW a \in Admins, matchAt' = [matchAt EXCEPT ![task[a].scope] = 0]
            PROVE  \A s \in Scopes : matchAt'[s] # v
        BY <2>1, <2>2, <3>2 DEF Matched
      <3>3. CASE HasRoom /\ matchAt' = [matchAt EXCEPT ![GlobalScope] = NewID]
        <4>1. NewID # v
          BY <2>1, <3>3, FreeID
        <4>2. QED
          BY <2>2, <3>3, <4>1 DEF Matched
      <3>4. CASE matchAt' = EmptySnapshot.at
        BY <2>1, <3>4, EmptyAt
      <3>5. QED
        BY <2>2, <3>1, <3>2, <3>3, <3>4, MatchCases
    <2>5. QED
      BY <2>3, <2>4
  <1>3. ASSUME NEW a \in Admins, UnmatchVersion(a)
        PROVE  v \in retired \/ v = task[a].version
    BY <1>3 DEF UnmatchVersion
  <1>4. QED
    BY <1>1, <1>2, <1>3, Frames

(* Who refreshes listed the rows in this step, or was refreshing before. *)
LEMMA RefreshCases ==
    ASSUME Typed, LocksHeld, Starts, Next, Refreshing'
    PROVE  \/ pending' = Active /\ UNCHANGED versions
           \/ CompileRow /\ Refreshing
           \/ UNCHANGED <<next, pending>> /\ Refreshing
  <1>1. LocksHeld'
    BY LocksNext
  <1>2. wHolder' # Nobody
    <2>1. ASSUME NEW a \in Admins, At(a, "refreshing")'
          PROVE  wHolder' = a /\ a # Nobody
      BY <1>1, <2>1, Constants DEF LocksHeld, At
    <2>2. QED
      BY <2>1, Constants DEF Refreshing
  <1>3. ASSUME NEW p, Unlock(p)
        PROVE  FALSE
    BY <1>2, <1>3 DEF Unlock
  <1>4. ASSUME NEW p, ListActive(p)
        PROVE  pending' = Active /\ UNCHANGED versions
    BY <1>4 DEF ListActive
  <1>5. ASSUME UNCHANGED buildVars, ~ \E a \in Admins : StartRefresh(a)
        PROVE  UNCHANGED <<next, pending>> /\ Refreshing
    <2>1. ASSUME NEW a \in Admins, At(a, "refreshing")'
          PROVE  At(a, "refreshing")
      BY <1>5, <2>1, Refreshers DEF At
    <2>2. QED
      BY <1>5, <2>1 DEF Refreshing, buildVars
  <1>6. ASSUME NEW a \in Admins, InsertVersion(a) \/ WriteDeactivate(a)
        PROVE  FALSE
    <2>1. wHolder' = a /\ AdminStep(a)
      BY <1>6 DEF InsertVersion, WriteDeactivate, AdminStep
    <2>2. task'[a].pc # "refreshing"
      <3>1. At(a, "create") \/ At(a, "deactivate")
        BY <1>6 DEF InsertVersion, WriteDeactivate
      <3>2. ~StartRefresh(a)
        BY <3>1 DEF StartRefresh, At
      <3>3. QED
        BY <2>1, <3>1, <3>2, Refreshers DEF At
    <2>3. \A b \in Admins : At(b, "refreshing")' => wHolder' = b
      BY <1>1 DEF LocksHeld, At
    <2>4. a \notin Loops \cup {Startup}
      BY Constants
    <2>5. QED
      BY <2>1, <2>2, <2>3, <2>4 DEF Refreshing, At
  <1>7. ASSUME NEW a \in Admins, StartRefresh(a)
        PROVE  pending' = Active /\ UNCHANGED versions
    BY <1>4, <1>7 DEF StartRefresh
  <1>8. ASSUME NEW a \in Admins, RefreshRefused(a) \/ AckGuardrail(a)
        PROVE  UNCHANGED buildVars
    BY <1>3, <1>8 DEF RefreshRefused, AckGuardrail, PublishRefresh, RefreshFails, workflowVars
  <1>9. ASSUME NEW a \in Admins, ActivateVersion(a) \/ UnmatchVersion(a)
        PROVE  FALSE
    BY <1>3, <1>9 DEF ActivateVersion, UnmatchVersion
  <1>10. CASE ListWorkflows \/ Load
    BY <1>4, <1>10 DEF ListWorkflows, Load
  <1>11. CASE CompileRow
    <2>1. wHolder' = wHolder /\ task' = task
      BY <1>11, CompileAt
    <2>2. Refreshing
      BY <2>1 DEF Refreshing, At
    <2>3. QED
      BY <1>11, <2>2
  <1>12. CASE SwapWorkflows \/ FinishLoad
    BY <1>3, <1>12 DEF SwapWorkflows, FinishLoad, PublishRefresh, RefreshFails
  <1>13. CASE Restart
    BY <1>2, <1>13 DEF Restart
  <1>14. QED
    BY <1>5, <1>6, <1>7, <1>8, <1>9, <1>10, <1>11, <1>12, <1>13, Frames DEF BuildStep

(* Nothing is answered while somebody refreshes. *)
LEMMA NoAnswer ==
    ASSUME Typed, LocksHeld, Starts, Next, Refreshing'
    PROVE  UNCHANGED created
  <1>1. ASSUME NEW a \in Admins, ActivateVersion(a)
        PROVE  FALSE
    <2>1. wHolder' = Nobody
      BY <1>1 DEF ActivateVersion, Unlock
    <2>2. \A b \in Admins : At(b, "refreshing")' => wHolder' = b /\ b # Nobody
      BY LocksNext, Constants DEF LocksHeld, At
    <2>3. QED
      BY <2>1, <2>2, Constants DEF Refreshing
  <1>2. QED
    BY <1>1, Frames

LEMMA ListedNext ==
    ASSUME Typed, LocksHeld, Starts, Matched, Told, Listed, Next, Refreshing',
           NEW v \in created' \cap Active'
    PROVE  v \in pending' \/ next'.at[versions'[v].scope] = v
  <1>1. v \in created /\ v \in VersionIDs /\ versions[v].state # "unused"
    BY NoAnswer DEF Told
  <1>2. v \in Active /\ versions'[v].scope = versions[v].scope
    BY <1>1, ActiveKept
  <1>3. CASE pending' = Active
    BY <1>2, <1>3
  <1>4. CASE UNCHANGED <<next, pending>> /\ Refreshing
    BY <1>1, <1>2, <1>4 DEF Listed
  <1>5. CASE CompileRow /\ Refreshing
    <2>1. v \in pending \/ next.at[versions[v].scope] = v
      BY <1>1, <1>2, <1>5 DEF Listed
    <2>2. PICK u \in pending : /\ pending' = pending \ {u} /\ next.at[versions[u].scope] = 0
                               /\ next'.at = [next.at EXCEPT ![versions[u].scope] = u]
      BY <1>5, CompileAt
    <2>3. /\ versions[u].scope \in Scopes /\ versions[v].scope \in Scopes /\ v # 0
      BY <1>1 DEF Typed, BuildTyped, Written, VersionIDs
    <2>4. CASE u = v
      BY <1>2, <2>2, <2>3, <2>4 DEF Matched
    <2>5. CASE u # v
      BY <1>2, <2>1, <2>2, <2>3, <2>5 DEF Matched
    <2>6. QED
      BY <2>4, <2>5
  <1>6. QED
    BY <1>3, <1>4, <1>5, RefreshCases

(* Where an edit of the workflows can have come from. *)
LEMMA Editors ==
    ASSUME Typed, LocksHeld, Starts, Next, NEW a \in Admins,
           task'[a].pc \in {"activate", "deactivate", "unmatch"}
    PROVE  \/ task'[a] = task[a]
           \/ \E v \in VersionIDs :
                  /\ StartDeactivate(a, v) /\ task'[a].pc = "deactivate"
                  /\ task'[a].version = v /\ task'[a].scope = versions[v].scope
           \/ /\ InsertVersion(a) /\ task'[a].pc = "activate"
              /\ task'[a].version = NewID /\ task'[a].scope = task[a].scope
           \/ /\ WriteDeactivate(a) /\ task[a].pc = "deactivate" /\ task'[a].pc = "unmatch"
              /\ task'[a].version = task[a].version /\ task'[a].scope = task[a].scope
  <1>1. CASE StartAdmin(a)
    BY <1>1, StartMoves
  <1>2. CASE AdminStep(a)
    BY <1>2, StepResults DEF Same
  <1>3. QED
    BY <1>1, <1>2, AdminCases

LEMMA EditingNext ==
    ASSUME Typed, LocksHeld, Starts, OneActive, Told, Editing, Next, NEW a \in Admins
    PROVE  /\ task'[a].pc \in {"activate", "deactivate", "unmatch"} =>
                  RowAfter(task'[a].scope, task'[a].version)
           /\ task'[a].pc \in {"activate", "unmatch"} =>
                  \A v \in created' \cap Active' : versions'[v].scope # task'[a].scope
           /\ task'[a].pc = "activate" => task'[a].version \notin retired'
           /\ task'[a].pc = "unmatch" => task'[a].version \notin Active'
  <1> SUFFICES ASSUME task'[a].pc \in {"activate", "deactivate", "unmatch"}
               PROVE  /\ RowAfter(task'[a].scope, task'[a].version)
                      /\ task'[a].pc \in {"activate", "unmatch"} =>
                             \A v \in created' \cap Active' : versions'[v].scope # task'[a].scope
                      /\ task'[a].pc = "activate" => task'[a].version \notin retired'
                      /\ task'[a].pc = "unmatch" => task'[a].version \notin Active'
    OBVIOUS
  <1>1. TableKept
    BY RefsKept
  <1>2. created' = created /\ retired' = retired
    <2>1. ASSUME NEW b \in Admins, ActivateVersion(b) \/ UnmatchVersion(b)
          PROVE  FALSE
      <3>1. AdminStep(b) /\ task[b].pc \in {"activate", "unmatch"} /\ Answer(b)
        BY <2>1 DEF AdminStep, ActivateVersion, UnmatchVersion, At
      <3>2. CASE a = b
        BY <3>1, <3>2, Answered DEF NoTask
      <3>3. CASE a # b
        BY <3>1, <3>3, AdminAlone
      <3>4. QED
        BY <3>2, <3>3
    <2>2. QED
      BY <2>1, Frames
  <1>3. \A v \in created \cap Active' : /\ v \in Active /\ v \in VersionIDs
                                        /\ versions'[v].scope = versions[v].scope
    BY ActiveKept DEF Told
  <1>4. CASE task'[a] = task[a]
    <2>1. RowOf(task[a].scope, task[a].version)
      BY <1>4 DEF Editing
    <2>2. RowAfter(task[a].scope, task[a].version)
      BY <1>1, <2>1, RowOfKept
    <2>3. task[a].pc = "unmatch" => task[a].version \notin Active'
      BY <2>1, ActiveKept DEF Editing, RowOf
    <2>4. QED
      BY <1>2, <1>3, <1>4, <2>2, <2>3 DEF Editing
  <1>5. ASSUME NEW v \in VersionIDs, StartDeactivate(a, v), task'[a].pc = "deactivate",
               task'[a].version = v, task'[a].scope = versions[v].scope
        PROVE  RowAfter(task'[a].scope, task'[a].version)
    <2>1. versions[v].state # "unused"
      BY <1>5 DEF StartDeactivate, Active
    <2>2. QED
      BY <1>1, <1>5, <2>1 DEF RowAfter, TableKept, RowKept
  <1>6. CASE /\ InsertVersion(a) /\ task'[a].pc = "activate"
             /\ task'[a].version = NewID /\ task'[a].scope = task[a].scope
    <2>1. task[a].scope \in Scopes /\ task[a].names \in SUBSET Guardrails
      BY Constants DEF Typed, Task
    <2>2. HasRoom /\ versions' = Inserted(task[a].scope, task[a].names, FALSE)
      BY <1>6 DEF InsertVersion
    <2>3. /\ NewID \in VersionIDs /\ versions[NewID].state = "unused"
          /\ versions'[NewID].state = "active" /\ versions'[NewID].scope = task[a].scope
          /\ \A v \in VersionIDs \ {NewID} :
                 versions'[v].state = "active" => versions[v].scope # task[a].scope
      BY <2>1, <2>2, FreeID, InsertedKeeps
    <2>4. NewID \notin created \cup retired
      BY <2>3 DEF Told
    <2>5. \A v \in created \cap Active' : versions'[v].scope # task[a].scope
      BY <1>3, <2>3, <2>4 DEF Active
    <2>6. RowAfter(task[a].scope, NewID)
      BY <2>3 DEF RowAfter
    <2>7. QED
      BY <1>2, <1>6, <2>4, <2>5, <2>6
  <1>7. CASE /\ WriteDeactivate(a) /\ task[a].pc = "deactivate" /\ task'[a].pc = "unmatch"
             /\ task'[a].version = task[a].version /\ task'[a].scope = task[a].scope
    <2>1. RowOf(task[a].scope, task[a].version)
      BY <1>7 DEF Editing
    <2>2. task[a].version \in Active /\ versions' = Deactivated(task[a].version)
      BY <1>7 DEF WriteDeactivate
    <2>3. task[a].version \notin Active'
      <3> DEFINE w == task[a].version
      <3>1. w \in VersionIDs /\ versions[w] \in Written /\ versions' = Deactivated(w)
        BY <2>1, <2>2 DEF RowOf, Typed
      <3> HIDE DEF w
      <3>2. versions'[w].state = "inactive"
        BY <3>1 DEF Deactivated, Typed, Written
      <3>3. w \notin Active'
        BY <3>2 DEF Active
      <3>4. QED
        BY <3>3 DEF w
    <2>4. \A v \in created \cap Active' : versions'[v].scope # task[a].scope
      BY <1>3, <2>1, <2>2, <2>3 DEF OneActive, RowOf
    <2>5. RowAfter(task[a].scope, task[a].version)
      BY <1>1, <2>1, RowOfKept
    <2>6. QED
      BY <1>2, <1>7, <2>3, <2>4, <2>5
  <1>8. QED
    BY <1>4, <1>5, <1>6, <1>7, Editors

LEMMA OwnNext ==
    ASSUME Typed, LocksHeld, Starts, OInv, Next, Up', NEW v \in created' \cap Active'
    PROVE  matchAt'[versions'[v].scope] = v
  <1> USE DEF OInv
  <1>1. v \in created => /\ v \in Active /\ v \in VersionIDs /\ v # 0
                         /\ versions'[v].scope = versions[v].scope
                         /\ versions[v].scope \in Scopes
    <2>1. v \in created => /\ v \in Active /\ v \in VersionIDs
                           /\ versions'[v].scope = versions[v].scope
      BY ActiveKept DEF Told
    <2>2. \A u \in VersionIDs : versions[u].scope \in Scopes /\ u # 0
      BY DEF Typed, Written, VersionIDs
    <2>3. QED
      BY <2>1, <2>2
  <1>2. ASSUME NEW p \in {"workflows-loop", Startup}, PublishRefresh(p), created' = created
        PROVE  matchAt'[versions'[v].scope] = v
    <2>1. Refreshing /\ pending = {} /\ matchAt' = next.at
      BY <1>2 DEF PublishRefresh, Unlock, Refreshing, Loops
    <2>2. QED
      BY <1>1, <1>2, <2>1 DEF Listed
  <1>3. ASSUME NEW a \in Admins, AckGuardrail(a)
        PROVE  matchAt'[versions'[v].scope] = v
    <2>1. Refreshing /\ pending = {} /\ matchAt' = next.at /\ created' = created
      BY <1>3 DEF AckGuardrail, PublishRefresh, Refreshing
    <2>2. QED
      BY <1>1, <2>1 DEF Listed
  <1>4. ASSUME NEW a \in Admins, ActivateVersion(a)
        PROVE  matchAt'[versions'[v].scope] = v
    <2>1. /\ At(a, "activate") /\ versions' = versions
          /\ matchAt' = [matchAt EXCEPT ![task[a].scope] = task[a].version]
          /\ created' = (created \cap Active) \cup {task[a].version}
      BY <1>4 DEF ActivateVersion, Activate
    <2>2. /\ RowOf(task[a].scope, task[a].version) /\ task[a].scope \in Scopes /\ Up
      BY <2>1, Constants DEF Editing, Starts, At, Typed, Task
    <2>3. CASE v = task[a].version
      BY <2>1, <2>2, <2>3 DEF RowOf, Matched
    <2>4. CASE v # task[a].version
      <3>1. v \in created /\ versions[v].scope # task[a].scope
        BY <1>1, <2>1, <2>4 DEF Editing, At
      <3>2. matchAt[versions[v].scope] = v
        BY <1>1, <2>2, <3>1 DEF OwnVersionsServed
      <3>3. QED
        BY <1>1, <2>1, <3>1, <3>2 DEF Matched
    <2>5. QED
      BY <2>3, <2>4
  <1>5. ASSUME NEW a \in Admins, UnmatchVersion(a)
        PROVE  matchAt'[versions'[v].scope] = v
    <2>1. /\ At(a, "unmatch") /\ versions' = versions /\ created' = created
          /\ matchAt' = [matchAt EXCEPT ![task[a].scope] = 0]
      BY <1>5 DEF UnmatchVersion, Unmatch
    <2>2. Up /\ versions[v].scope # task[a].scope
      BY <1>1, <2>1 DEF Editing, Starts, At
    <2>3. matchAt[versions[v].scope] = v
      BY <1>1, <2>1, <2>2 DEF OwnVersionsServed
    <2>4. QED
      BY <1>1, <2>1, <2>2, <2>3 DEF Matched
  <1>6. ASSUME Up, UNCHANGED <<matchAt, created>>
        PROVE  matchAt'[versions'[v].scope] = v
    BY <1>1, <1>6 DEF OwnVersionsServed
  <1>7. CASE ~Up
    <2>1. FinishLoad
      <3>1. task[Startup] \in Task
        BY Constants DEF Typed
      <3>2. task'[Startup] # task[Startup]
        BY <1>7 DEF Up
      <3>3. Boot \/ Restart
        BY <3>2, Frames, AdminAlone DEF TaskStep
      <3>4. ~Restart
        BY RestartMoves DEF Up
      <3>5. QED
        BY <3>1, <3>3, <3>4, BootMoves DEF Moves, Task, Up
    <2>2. PublishRefresh(Startup) /\ created' = created
      <3>1. ~BootStep("loading", "down")
        BY <2>1, Constants DEF BootStep, GoTo, At, Up, Typed, Task
      <3>2. QED
        BY <2>1, <3>1 DEF FinishLoad, history
    <2>3. QED
      BY <1>2, <2>2
  <1>8. CASE Up
    <2>1. created' = created \/ \E a \in Admins : ActivateVersion(a)
      BY Frames
    <2>2. CASE SwapWorkflows
      <3>1. created' = created
        BY <2>2 DEF SwapWorkflows, history
      <3>2. QED
        BY <1>2, <1>6, <1>8, <2>2, <3>1 DEF SwapWorkflows, RefreshFails, snapshotVars
    <2>3. ~EnsureDefault /\ ~FinishLoad
      BY <1>8 DEF EnsureDefault, FinishLoad, BootStep, At, Up
    <2>4. ~Restart
      BY RestartMoves DEF Up
    <2>5. QED
      BY <1>3, <1>4, <1>5, <1>6, <1>8, <2>1, <2>2, <2>3, <2>4, Frames
         DEF SnapshotStep, snapshotVars
  <1>9. QED
    BY <1>7, <1>8

LEMMA OInvInit == Init => OInv
  <1> SUFFICES ASSUME Init PROVE OInv
    OBVIOUS
  <1>1. IInv
    BY InvInit
  <1>2. /\ matchAt = EmptySnapshot.at /\ next.at = EmptySnapshot.at /\ Active = {}
        /\ created = {} /\ retired = {}
    BY DEF Init, Active
  <1>3. \A a \in Admins : task[a].pc = "idle"
    <2>1. ~Up
      BY Constants DEF Init, Up, NoTask
    <2>2. QED
      BY <1>1, <2>1 DEF IInv, Starts
  <1>4. QED
    BY <1>2, <1>3, EmptyAt DEF OInv, Matched, OneActive, Told, NotRetired, Listed, Editing,
                               OwnVersionsServed, At

LEMMA OInvNext == IInv /\ OInv /\ [Next]_vars => OInv'
  <1> SUFFICES ASSUME IInv, OInv, [Next]_vars PROVE OInv'
    OBVIOUS
  <1>1. CASE Next
    <2> USE <1>1 DEF IInv, OInv
    <2>1. Matched'
      BY MatchedNext
    <2>2. OneActive'
      BY OneActiveNext DEF OneActive
    <2>3. Told'
      BY ToldNext
    <2>4. NotRetired'
      BY NotRetiredNext DEF NotRetired
    <2>5. Listed'
      BY ListedNext DEF Listed
    <2>6. Editing'
      BY EditingNext DEF Editing, RowOf, RowAfter
    <2>7. OwnVersionsServed'
      BY <2>4, OwnNext DEF OwnVersionsServed, NotRetired
    <2>8. QED
      BY <2>1, <2>2, <2>3, <2>4, <2>5, <2>6, <2>7
  <1>2. CASE UNCHANGED vars
    <2>1. /\ UNCHANGED <<versions, matchAt, wHolder, pending, next>>
          /\ UNCHANGED <<task, created, retired>>
      BY <1>2 DEF vars, workflowVars, snapshotVars, buildVars, history
    <2>2. Matched' /\ OneActive' /\ Told' /\ NotRetired' /\ Listed'
      BY <2>1 DEF OInv, Matched, OneActive, Told, NotRetired, Listed, Refreshing, RowOf,
                  Active, At
    <2>3. Editing' /\ OwnVersionsServed'
      BY <2>1 DEF OInv, Editing, OwnVersionsServed, RowOf, Active, Up
    <2>4. QED
      BY <2>2, <2>3 DEF OInv
  <1>3. QED
    BY <1>1, <1>2

(* A version whose creation was answered is matched in its scope while it  *)
(* is active, and one whose deactivation was answered is matched nowhere:  *)
(* no refresh that listed the rows earlier takes that back.                *)
THEOREM OwnServed == Spec => []OwnVersionsServed
  <1>1. OInv => OwnVersionsServed
    BY DEF OInv
  <1>2. QED
    BY <1>1, OInvInit, OInvNext, Safety, PTL DEF Spec

-----------------------------------------------------------------------------
(* While nobody else writes, the table, the snapshot and the one being     *)
(* built differ only by what the task at work is about to write or to      *)
(* publish.                                                                *)

Deleting(g)    == \E a \in Admins : At(a, "remove") /\ g \in task[a].names
Unpublished(g) == \E a \in Admins : At(a, "publish") /\ g \in task[a].names
Writing(g)     == \/ \E a \in Admins : At(a, "upsert") /\ g \in task[a].names
                  \/ At(Startup, "seeding") /\ g \in ConfigRules

Stored == \A v \in Active : \A g \in versions[v].refs : gStore[g] # 0

Backed == \A g \in Guardrails : /\ gSnapshot[g] # 0 => gStore[g] # 0 \/ Unpublished(g)
                                /\ gNext[g] # 0 => gStore[g] # 0 \/ Writing(g)

Complete ==
    \A g \in Guardrails :
        gStore[g] # 0 => /\ Seeding \/ gSnapshot[g] # 0 \/ Unpublished(g)
                         /\ gHolder = Nobody \/ gNext[g] # 0 \/ Deleting(g)

(* What a task is about to do leaves every active row with its guardrails. *)
Sound ==
    /\ At(Startup, "seeding") => \A g \in ConfigRules : gNext[g] # 0
    /\ task[Startup].pc \in {"seeded", "compile", "ensure"} =>
           \A g \in ConfigRules : gStore[g] # 0
    /\ \A a \in Admins :
        /\ At(a, "create") => \A g \in task[a].names : gStore[g] # 0
        /\ task[a].pc \in {"delete", "remove"} =>
               \A v \in Active : task[a].names \cap versions[v].refs = {}
        /\ At(a, "remove") => \A g \in task[a].names : gNext[g] = 0

(* The refresh of the start-up finds a global workflow, and no two rows of *)
(* one scope.                                                              *)
Default(v) == v \in Active /\ versions[v].scope = GlobalScope

Loading ==
    /\ At(Startup, "load") => \E v \in VersionIDs : Default(v)
    /\ At(Startup, "loading") =>
           /\ pending \subseteq Active
           /\ \A s \in Scopes : next.at[s] # 0 => next.at[s] \in Active \ pending
           /\ \E v \in VersionIDs : Default(v) /\ (v \in pending \/ next.at[GlobalScope] = v)

Alone == Stored /\ Backed /\ Complete /\ Sound /\ Loading /\ ~At(Startup, "down")

RInv == unseen \in Nat /\ (unseen = 0 => Alone)

(* How the guardrails change while nobody else writes. *)
LEMMA AloneSteps ==
    ASSUME Typed, Next, ~UnseenWrite
    PROVE  \/ UNCHANGED guardVars
           \/ \E a \in Admins :
               \/ \E g \in Guardrails : StartUpsert(a, g)
               \/ WriteUpsert(a) \/ BuildDelete(a) \/ RemoveGuardrail(a)
               \/ GuardrailWriteFails(a) \/ PublishDefinitions(a)
           \/ LoadGuardrails \/ SwapGuardrails
           \/ Seed \/ WriteSeed \/ PublishSeed \/ Restart
  BY Frames DEF GuardrailStep

(* Only one task at a time has a guardrail in hand. *)
LEMMA InHand ==
    ASSUME Typed, LocksHeld, Starts, NEW a \in Admins, StartAdmin(a) \/ AdminStep(a),
           NEW g
    PROVE  /\ Unpublished(g) => task[a].pc = "publish" /\ g \in task[a].names
           /\ Deleting(g) => task[a].pc = "remove" /\ g \in task[a].names
           /\ Writing(g) => task[a].pc = "upsert" /\ g \in task[a].names
           /\ task'[a].pc = "publish" /\ g \in task'[a].names => Unpublished(g)'
           /\ task'[a].pc = "remove" /\ g \in task'[a].names => Deleting(g)'
           /\ task'[a].pc = "upsert" /\ g \in task'[a].names => Writing(g)'
           /\ ~Seeding
  BY AdminAlone DEF Unpublished, Deleting, Writing, At, Up, Seeding

LEMMA NoneInHand ==
    ASSUME Starts, ~Up, NEW g
    PROVE  ~Unpublished(g) /\ ~Deleting(g)
  BY DEF Starts, Unpublished, Deleting, At

LEMMA SameInHand ==
    ASSUME task' = task, NEW g
    PROVE  /\ Unpublished(g)' <=> Unpublished(g)
           /\ Deleting(g)' <=> Deleting(g)
           /\ Writing(g)' <=> Writing(g)
           /\ Seeding' <=> Seeding
  BY DEF Unpublished, Deleting, Writing, At, Seeding

(* What is in hand only changes with the guardrails. *)
LEMMA QuietTask ==
    ASSUME Typed, LocksHeld, Starts, Next, ~GuardrailStep, NEW g
    PROVE  /\ UNCHANGED guardVars
           /\ Unpublished(g)' <=> Unpublished(g)
           /\ Deleting(g)' <=> Deleting(g)
           /\ Writing(g)' <=> Writing(g)
           /\ Seeding' <=> Seeding
  <1>1. UNCHANGED guardVars /\ (TaskStep \/ task' = task)
    BY Frames
  <1>2. ASSUME NEW a \in Admins, StartAdmin(a) \/ AdminStep(a)
        PROVE  /\ task[a].pc \notin {"upsert", "remove", "publish"}
               /\ task'[a].pc \notin {"upsert", "remove", "publish"}
               /\ task'[Startup] = task[Startup]
               /\ \A b \in Admins \ {a} : task'[b] = task[b]
    <2>1. /\ task'[Startup] = task[Startup]
          /\ \A b \in Admins \ {a} : task'[b] = task[b]
      BY <1>2, AdminAlone
    <2>2. CASE StartAdmin(a)
      <3>1. task[a].pc = "idle"
        BY <2>2, StartMoves, Constants DEF LocksHeld
      <3>2. task'[a].pc \in {"delete", "create", "deactivate"}
        BY <2>2, StartMoves DEF GuardrailStep
      <3>3. QED
        BY <2>1, <3>1, <3>2
    <2>3. CASE AdminStep(a)
      <3>1. task[a].pc \notin {"upsert", "remove", "publish"}
        BY <2>3 DEF AdminStep, GuardrailStep, StartRefresh, RefreshRefused, AckGuardrail,
           InsertVersion, ActivateVersion, WriteDeactivate, UnmatchVersion,
           WorkflowWriteFails, At
      <3>2. task'[a].pc \notin {"upsert", "remove", "publish"}
        BY <2>3, StepResults DEF GuardrailStep
      <3>3. QED
        BY <2>1, <3>1, <3>2
    <2>4. QED
      BY <1>2, <2>2, <2>3
  <1>3. ASSUME Boot
        PROVE  /\ task[Startup].pc \notin {"seed", "seeding", "seeded"}
               /\ task'[Startup].pc \notin {"seed", "seeding", "seeded"}
               /\ \A b \in Admins : task'[b] = task[b]
    <2>1. task[Startup] \in Task
      BY Constants DEF Typed
    <2>2. QED
      BY <1>3, <2>1, BootMoves DEF Moves, Task, GuardrailStep
  <1>4. ~Restart
    BY DEF GuardrailStep
  <1>5. CASE task' = task
    BY <1>1, <1>5, SameInHand
  <1>6. ASSUME NEW a \in Admins, StartAdmin(a) \/ AdminStep(a)
        PROVE  /\ Unpublished(g)' <=> Unpublished(g)
               /\ Deleting(g)' <=> Deleting(g)
               /\ Writing(g)' <=> Writing(g)
               /\ Seeding' <=> Seeding
    BY <1>2, <1>6 DEF Unpublished, Deleting, Writing, At, Seeding
  <1>7. CASE Boot
    <2>1. \A b \in Admins : task'[b] = task[b]
      BY <1>3, <1>7
    <2>2. Unpublished(g)' <=> Unpublished(g)
      BY <2>1 DEF Unpublished, At
    <2>3. Deleting(g)' <=> Deleting(g)
      BY <2>1 DEF Deleting, At
    <2>4. Writing(g)' <=> Writing(g)
      BY <1>3, <1>7, <2>1 DEF Writing, At
    <2>5. ~Seeding /\ ~Seeding'
      BY <1>3, <1>7 DEF Seeding
    <2>6. QED
      BY <1>1, <2>2, <2>3, <2>4, <2>5
  <1>8. QED
    BY <1>1, <1>4, <1>5, <1>6, <1>7 DEF TaskStep

LEMMA Went ==
    ASSUME Typed, NEW a \in Admins, NEW l \in AdminSteps, GoTo(a, l)
    PROVE  task'[a].pc = l /\ task'[a].names = task[a].names
  <1>1. a \in Tasks /\ task[a] \in Task
    BY Constants DEF Typed
  <1>2. task'[a] = [task[a] EXCEPT !.pc = l]
    BY <1>1, GoToType
  <1>3. QED
    BY <1>1, <1>2 DEF Task

(* The table, the snapshot and the one being built agree on a guardrail. *)
Agree(g) == /\ gSnapshot[g] # 0 => gStore[g] # 0 \/ Unpublished(g)
            /\ gNext[g] # 0 => gStore[g] # 0 \/ Writing(g)
            /\ gStore[g] # 0 => Seeding \/ gSnapshot[g] # 0 \/ Unpublished(g)
            /\ gStore[g] # 0 => gHolder = Nobody \/ gNext[g] # 0 \/ Deleting(g)

LEMMA Agreement == Backed /\ Complete <=> \A g \in Guardrails : Agree(g)
  BY DEF Backed, Complete, Agree

LEMMA AgreeUpsert ==
    ASSUME Typed, LocksHeld, Starts, NEW g \in Guardrails, Agree(g), NEW a \in Admins,
           (\E h \in Guardrails : StartUpsert(a, h)) \/ WriteUpsert(a)
    PROVE  Agree(g)'
  <1> USE DEF Typed, GuardTyped, Definitions
  <1>1. a # Nobody /\ a # Startup
    BY Constants
  <1>2. ASSUME NEW h \in Guardrails, StartUpsert(a, h)
        PROVE  Agree(g)'
    <2>1. StartAdmin(a)
      BY <1>2 DEF StartAdmin
    <2>0. task[a].pc = "idle"
      BY <1>1, <2>1, StartMoves DEF LocksHeld
    <2>2. ~Unpublished(g) /\ ~Deleting(g) /\ ~Writing(g) /\ ~Seeding
      BY <2>0, <2>1, InHand
    <2>3. /\ gStore' = gStore /\ gSnapshot' = gSnapshot
          /\ gNext'[g] = IF g = h THEN revision + 1 ELSE gStore[g]
      BY <1>2 DEF StartUpsert, BuildSnapshot
    <2>4. revision + 1 # 0
      BY Numbers
    <2>5. g = h => Writing(g)'
      <3>1. [NoTask EXCEPT !.pc = "upsert", !.names = {h}] \in Task
        BY Constants DEF NoTask, Task, AdminSteps
      <3>2. task'[a] = [NoTask EXCEPT !.pc = "upsert", !.names = {h}]
        BY <1>2, <3>1, Started DEF StartUpsert
      <3>3. task'[a].pc = "upsert" /\ task'[a].names = {h}
        BY <3>2 DEF NoTask
      <3>4. QED
        BY <3>3 DEF Writing, At
    <2>6. QED
      BY <2>2, <2>3, <2>4, <2>5 DEF Agree
  <1>3. CASE WriteUpsert(a)
    <2>1. AdminStep(a) /\ task[a].pc = "upsert"
      BY <1>3 DEF AdminStep, WriteUpsert, At
    <2>2. task'[a].pc = "publish" /\ task'[a].names = task[a].names
      BY <1>3, Went DEF WriteUpsert, Continue, AdminSteps
    <2>3. /\ ~Unpublished(g) /\ ~Deleting(g) /\ ~Seeding
          /\ Writing(g) => g \in task[a].names
          /\ g \in task[a].names => Unpublished(g)'
      BY <2>1, <2>2, InHand
    <2>4. /\ gSnapshot' = gSnapshot /\ gNext' = gNext /\ gHolder = a
          /\ gStore'[g] = IF g \in task[a].names THEN gNext[g] ELSE gStore[g]
      BY <1>3 DEF WriteUpsert, WriteDefinitions
    <2>5. QED
      BY <1>1, <2>3, <2>4 DEF Agree
  <1>4. QED
    BY <1>2, <1>3

LEMMA AgreeDelete ==
    ASSUME Typed, LocksHeld, Starts, Publishing, Sound, NEW g \in Guardrails, Agree(g),
           NEW a \in Admins, BuildDelete(a) \/ RemoveGuardrail(a)
    PROVE  Agree(g)'
  <1> USE DEF Typed, GuardTyped, Definitions
  <1>1. /\ a # Nobody /\ a # Startup /\ AdminStep(a)
        /\ task[a].pc \in {"delete", "remove"}
    BY Constants DEF AdminStep, BuildDelete, RemoveGuardrail, At
  <1>2. PICK h \in Guardrails : task[a].names = {h}
    BY <1>1 DEF Publishing, Single
  <1>3. ~Unpublished(g) /\ ~Writing(g) /\ ~Seeding /\ (Deleting(g) => g = h)
    BY <1>1, <1>2, InHand
  <1>4. CASE BuildDelete(a)
    <2>1. /\ gStore' = gStore /\ gSnapshot' = gSnapshot
          /\ gNext'[g] = IF g = h THEN 0 ELSE gStore[g]
      BY <1>2, <1>4 DEF BuildDelete, BuildSnapshot
    <2>2. task'[a].pc = "remove" /\ task'[a].names = {h}
      BY <1>2, <1>4, Went DEF BuildDelete, Continue, AdminSteps
    <2>3. g = h => Deleting(g)'
      BY <2>2 DEF Deleting, At
    <2>4. QED
      BY <1>3, <2>1, <2>3 DEF Agree
  <1>5. CASE RemoveGuardrail(a)
    <2>1. /\ gSnapshot' = gSnapshot /\ gNext' = gNext /\ gHolder = a
          /\ gStore'[g] = IF g = h THEN 0 ELSE gStore[g]
      BY <1>2, <1>5 DEF RemoveGuardrail, RemoveDefinition
    <2>2. task'[a].pc = "publish" /\ task'[a].names = {h}
      BY <1>2, <1>5, Went DEF RemoveGuardrail, Continue, AdminSteps
    <2>3. g = h => Unpublished(g)'
      BY <2>2 DEF Unpublished, At
    <2>4. g = h => gNext[g] = 0
      BY <1>2, <1>5 DEF Sound, RemoveGuardrail, At
    <2>5. QED
      BY <1>1, <1>3, <2>1, <2>3, <2>4 DEF Agree
  <1>6. QED
    BY <1>4, <1>5

LEMMA AgreePublish ==
    ASSUME Typed, LocksHeld, Starts, NEW g \in Guardrails, Agree(g), NEW a \in Admins,
           GuardrailWriteFails(a) \/ PublishDefinitions(a)
    PROVE  Agree(g)'
  <1> USE DEF Typed, GuardTyped, Definitions, NoPipeline
  <1>1. a # Nobody /\ AdminStep(a)
    BY Constants DEF AdminStep
  <1>2. CASE GuardrailWriteFails(a)
    <2>1. task[a].pc \in {"upsert", "remove"}
      BY <1>2 DEF GuardrailWriteFails, At
    <2>2. ~Unpublished(g) /\ ~Seeding
      BY <1>1, <2>1, InHand
    <2>3. /\ gStore' = gStore /\ gSnapshot' = gSnapshot /\ gNext'[g] = 0 /\ gHolder' = Nobody
      BY <1>2 DEF GuardrailWriteFails, AbandonGuardrails
    <2>4. QED
      BY <2>2, <2>3 DEF Agree
  <1>3. CASE PublishDefinitions(a)
    <2>1. task[a].pc = "publish"
      BY <1>3 DEF PublishDefinitions, At
    <2>2. ~Deleting(g) /\ ~Writing(g)
      BY <1>1, <2>1, InHand
    <2>3. /\ gStore' = gStore /\ gSnapshot' = gNext /\ gNext'[g] = 0 /\ gHolder = a
          /\ gHolder' = Nobody
      BY <1>3 DEF PublishDefinitions, PublishGuardrails
    <2>4. QED
      BY <1>1, <2>2, <2>3 DEF Agree
  <1>4. QED
    BY <1>2, <1>3

LEMMA AgreeLoop ==
    ASSUME Typed, LocksHeld, NEW g \in Guardrails, Agree(g), LoadGuardrails \/ SwapGuardrails
    PROVE  Agree(g)'
  <1> USE DEF NoPipeline
  <1>1. task' = task /\ "guardrails-loop" # Nobody /\ "guardrails-loop" \notin Tasks
    BY Constants DEF LoadGuardrails, SwapGuardrails, Loops
  <1>2. /\ Unpublished(g)' <=> Unpublished(g)
        /\ Deleting(g)' <=> Deleting(g)
        /\ Writing(g)' <=> Writing(g)
        /\ Seeding' <=> Seeding
    BY <1>1, SameInHand
  <1>3. CASE LoadGuardrails
    <2>1. gStore' = gStore /\ gSnapshot' = gSnapshot /\ gNext' = gStore
      BY <1>3 DEF LoadGuardrails, BuildSnapshot
    <2>2. QED
      BY <1>2, <2>1 DEF Agree
  <1>4. CASE SwapGuardrails
    <2>1. /\ gStore' = gStore /\ gSnapshot' = gNext /\ gNext'[g] = 0
          /\ gHolder = "guardrails-loop" /\ gHolder' = Nobody
      BY <1>4 DEF SwapGuardrails, PublishGuardrails
    <2>2. \A t \in Tasks : gHolder # t
      BY <1>1, <2>1
    <2>3. /\ \A a \in Admins : task[a].pc \notin {"upsert", "remove", "publish"}
          /\ task[Startup].pc # "seeding"
      BY <2>2, Constants DEF LocksHeld
    <2>4. ~Unpublished(g) /\ ~Deleting(g) /\ ~Writing(g)
      BY <2>3 DEF Unpublished, Deleting, Writing, At
    <2>5. QED
      BY <1>1, <1>2, <2>1, <2>4 DEF Agree
  <1>5. QED
    BY <1>3, <1>4

LEMMA AgreeSeed ==
    ASSUME Typed, LocksHeld, Starts, Sound, NEW g \in Guardrails, Agree(g),
           Seed \/ WriteSeed \/ PublishSeed \/ Restart
    PROVE  Agree(g)'
  <1> USE DEF NoPipeline
  <1>1. CASE Restart
    <2>1. gStore' = gStore /\ gSnapshot'[g] = 0 /\ gNext'[g] = 0 /\ gHolder' = Nobody
      BY <1>1 DEF Restart
    <2>2. Seeding'
      BY <1>1, RestartMoves DEF Seeding
    <2>3. QED
      BY <2>1, <2>2 DEF Agree
  <1>2. CASE Seed \/ WriteSeed \/ PublishSeed
    <2>1. Boot /\ task[Startup] \in Task /\ Startup # Nobody
      BY <1>2, Constants DEF Boot, Typed
    <2>2. \A a \in Admins : task[a].pc = "idle" /\ task'[a].pc = "idle"
      BY <2>1, BootMoves
    <2>3. /\ ~Unpublished(g) /\ ~Deleting(g)
          /\ Writing(g) <=> At(Startup, "seeding") /\ g \in ConfigRules
          /\ Writing(g)' <=> At(Startup, "seeding")' /\ g \in ConfigRules
      BY <2>2 DEF Unpublished, Deleting, Writing, At
    <2>4. CASE Seed
      <3>1. At(Startup, "seeding")' /\ ~At(Startup, "seeding")
        BY <2>1, <2>4, Constants DEF Seed, BootStep, GoTo, At, Typed
      <3>2. /\ gStore' = gStore /\ gSnapshot' = gSnapshot
            /\ gNext'[g] = IF g \in ConfigRules THEN 1 ELSE gStore[g]
        BY <2>4 DEF Seed, BuildSnapshot
      <3>3. Seeding'
        BY <3>1 DEF Seeding, At
      <3>4. QED
        BY <2>3, <3>1, <3>2, <3>3 DEF Agree
    <2>5. CASE WriteSeed
      <3>1. At(Startup, "seeding") /\ At(Startup, "seeded")'
        BY <2>1, <2>5, Constants DEF WriteSeed, BootStep, GoTo, At, Typed
      <3>2. /\ gSnapshot' = gSnapshot /\ gNext' = gNext /\ gHolder = Startup
            /\ gStore'[g] = IF g \in ConfigRules THEN gNext[g] ELSE gStore[g]
        BY <2>5 DEF WriteSeed, WriteDefinitions
      <3>3. Seeding' /\ (g \in ConfigRules => gNext[g] # 0)
        BY <3>1 DEF Seeding, At, Sound
      <3>4. QED
        BY <2>1, <2>3, <3>2, <3>3 DEF Agree
    <2>6. CASE PublishSeed
      <3>1. At(Startup, "seeded")
        BY <2>6 DEF PublishSeed, BootStep
      <3>2. /\ gStore' = gStore /\ gSnapshot' = gNext /\ gNext'[g] = 0
            /\ gHolder = Startup /\ gHolder' = Nobody
        BY <2>6 DEF PublishSeed, PublishGuardrails
      <3>3. ~Writing(g)
        BY <2>3, <3>1 DEF At
      <3>4. QED
        BY <2>1, <2>3, <3>2, <3>3 DEF Agree
    <2>7. QED
      BY <1>2, <2>4, <2>5, <2>6
  <1>3. QED
    BY <1>1, <1>2

LEMMA AgreeNext ==
    ASSUME Typed, LocksHeld, Starts, Publishing, Sound, Next, ~UnseenWrite,
           NEW g \in Guardrails, Agree(g)
    PROVE  Agree(g)'
  <1>1. CASE GuardrailStep
    BY <1>1, AgreeUpsert, AgreeDelete, AgreePublish, AgreeLoop, AgreeSeed DEF GuardrailStep
  <1>2. CASE ~GuardrailStep
    BY <1>2, QuietTask DEF Agree, guardVars
  <1>3. QED
    BY <1>1, <1>2

(* An admin that keeps its place keeps the tables as they are. *)
LEMMA TablesWait ==
    ASSUME Typed, LocksHeld, Starts, Next, ~UnseenWrite, NEW a \in Admins,
           task'[a] = task[a], task[a].pc # "idle"
    PROVE  /\ UNCHANGED <<gStore, versions>>
           /\ At(a, "remove") => UNCHANGED gNext
  <1>1. Up /\ a # Startup /\ a # Nobody
    BY Constants DEF Starts
  <1>2. \A b \in Admins : ~StartAdmin(b) /\ ~AdminStep(b)
    <2> SUFFICES ASSUME NEW b \in Admins, StartAdmin(b) \/ AdminStep(b)
                 PROVE  FALSE
      OBVIOUS
    <2>1. CASE a # b
      BY <2>1, AdminAlone
    <2>2. CASE a = b
      <3>1. StartAdmin(a) => task[a].pc = "idle"
        BY <1>1, StartMoves DEF LocksHeld
      <3>2. AdminStep(a)
        BY <2>2, <3>1
      <3>3. task[a] \in Task
        BY Constants DEF Typed
      <3>4. task'[a].pc # task[a].pc
        BY <3>2, StepResults DEF WriteUpsert, At
      <3>5. QED
        BY <3>4
    <2>3. QED
      BY <2>1, <2>2
  <1>3. ~Boot
    BY <1>1, BootMoves DEF LocksHeld
  <1>4. ~Restart
    BY RestartMoves DEF NoTask
  <1>5. versions' = versions
    BY <1>2, <1>3, Frames DEF TableStep, Boot, AdminStep
  <1>6. UNCHANGED guardVars \/ LoadGuardrails \/ SwapGuardrails
    BY <1>2, <1>3, <1>4, Frames DEF GuardrailStep, Boot, AdminStep, StartAdmin
  <1>7. gStore' = gStore
    BY <1>6 DEF guardVars, LoadGuardrails, SwapGuardrails, BuildSnapshot, PublishGuardrails
  <1>8. ASSUME At(a, "remove")
        PROVE  gNext' = gNext
    <2>1. gHolder = a /\ a \notin Loops
      BY <1>8, Constants DEF LocksHeld, At
    <2>2. QED
      BY <1>1, <1>6, <2>1 DEF guardVars, LoadGuardrails, SwapGuardrails, BuildSnapshot,
         PublishGuardrails, Loops
  <1>9. QED
    BY <1>5, <1>7, <1>8

LEMMA StoredNext ==
    ASSUME IInv, Alone, Next, ~UnseenWrite, NEW v \in Active', NEW g \in versions'[v].refs
    PROVE  gStore'[g] # 0
  <1> USE DEF IInv, Alone
  <1>1. v \in VersionIDs /\ versions[v].refs \subseteq Guardrails
    BY Numbers DEF Active
  <1>2. versions[v].state # "unused" => v \in Active /\ versions'[v].refs = versions[v].refs
    BY <1>1, ActiveKept, RefsKept DEF TableKept, RowKept
  <1>3. CASE UNCHANGED versions
    <2>1. v \in Active /\ g \in versions[v].refs /\ g \in Guardrails /\ gStore[g] # 0
      BY <1>1, <1>3 DEF Active, Stored
    <2>2. Agree(g)
      BY <2>1, Agreement
    <2>3. ASSUME NEW a \in Admins, WriteUpsert(a)
          PROVE  gStore'[g] # 0
      <3>1. task[a].pc = "upsert" /\ AdminStep(a) /\ a # Nobody
        BY <2>3, Constants DEF WriteUpsert, At, AdminStep
      <3>2. gHolder = a /\ ~Deleting(g)
        BY <3>1, InHand DEF LocksHeld
      <3>3. gNext[g] # 0
        BY <2>1, <2>2, <3>1, <3>2 DEF Agree
      <3>4. QED
        BY <2>1, <2>3, <3>3 DEF WriteUpsert, WriteDefinitions
    <2>4. ASSUME NEW a \in Admins, RemoveGuardrail(a)
          PROVE  gStore'[g] # 0
      <3>1. PICK h \in task[a].names : RemoveDefinition(a, h)
        BY <2>4 DEF RemoveGuardrail
      <3>2. g # h
        BY <2>1, <2>4, <3>1 DEF Sound, RemoveGuardrail, At
      <3>3. QED
        BY <2>1, <3>1, <3>2 DEF RemoveDefinition, Typed, GuardTyped, Definitions
    <2>5. CASE WriteSeed
      BY <2>1, <2>5 DEF WriteSeed, WriteDefinitions, BootStep, Sound
    <2>6. ASSUME gStore' = gStore
          PROVE  gStore'[g] # 0
      BY <2>1, <2>6
    <2>7. QED
      BY <2>3, <2>4, <2>5, <2>6, AloneSteps
         DEF guardVars, StartUpsert, BuildDelete, GuardrailWriteFails, PublishDefinitions,
             LoadGuardrails, SwapGuardrails, Seed, PublishSeed, Restart, BuildSnapshot,
             AbandonGuardrails, PublishGuardrails
  <1>4. ASSUME NEW s \in Scopes, NEW refs \in SUBSET Guardrails, NEW m \in BOOLEAN, HasRoom,
               versions' = Inserted(s, refs, m), gStore' = gStore,
               \A h \in refs : gStore[h] # 0
        PROVE  gStore'[g] # 0
    <2>1. CASE v = NewID
      BY <1>4, <2>1, InsertedKeeps
    <2>2. CASE v # NewID
      <3>1. v \in Active
        BY <1>1, <1>4, <2>2, InsertedKeeps DEF Active
      <3>2. versions[v].state # "unused"
        BY <3>1 DEF Active
      <3>3. QED
        BY <1>2, <1>4, <3>2 DEF Stored
    <2>3. QED
      BY <2>1, <2>2
  <1>5. ASSUME NEW a \in Admins, InsertVersion(a)
        PROVE  gStore'[g] # 0
    <2>1. task[a].scope \in Scopes /\ task[a].names \in SUBSET Guardrails
      BY Constants DEF Typed, Task
    <2>2. \A h \in task[a].names : gStore[h] # 0
      BY <1>5 DEF InsertVersion, Sound
    <2>3. QED
      BY <1>4, <1>5, <2>1, <2>2 DEF InsertVersion, guardVars
  <1>6. ASSUME NEW a \in Admins, WriteDeactivate(a)
        PROVE  gStore'[g] # 0
    <2>1. task[a].version \in VersionIDs /\ versions' = Deactivated(task[a].version)
      BY <1>6 DEF WriteDeactivate, Active
    <2>2. versions[v].state # "unused"
      BY <1>1, <2>1 DEF Deactivated, Active, Typed, Written
    <2>3. QED
      BY <1>2, <1>6, <2>2 DEF Stored, WriteDeactivate, guardVars
  <1>7. CASE EnsureDefault
    <2>1. \A h \in ConfigRules : gStore[h] # 0
      BY <1>7 DEF EnsureDefault, BootStep, At, Sound
    <2>2. QED
      BY <1>3, <1>4, <1>7, <2>1, Constants DEF EnsureDefault, guardVars
  <1>8. QED
    BY <1>3, <1>5, <1>6, <1>7, Frames DEF TableStep

LEMMA SoundNext ==
    ASSUME IInv, Alone, Next, ~UnseenWrite
    PROVE  Sound'
  <1> USE DEF IInv, Alone
  <1>1. task[Startup] \in Task /\ ConfigRules \subseteq Guardrails
    BY Constants DEF Typed
  <1>2. CASE Boot
    <2>1. \A a \in Admins : task[a].pc = "idle" /\ task'[a].pc = "idle"
      BY <1>2, BootMoves
    <2>2. /\ At(Startup, "seeding")' => Seed
          /\ task'[Startup].pc \in {"seeded", "compile", "ensure"} =>
                 WriteSeed \/ PublishSeed \/ CompileDefault
      BY <1>1, <1>2, BootMoves DEF Moves, Task, At
    <2>3. Seed => \A g \in ConfigRules : gNext'[g] # 0
      BY <1>1 DEF Seed, BuildSnapshot
    <2>4. WriteSeed => \A g \in ConfigRules : gStore'[g] # 0
      BY <1>1 DEF WriteSeed, WriteDefinitions, BootStep, Sound
    <2>5. PublishSeed \/ CompileDefault => \A g \in ConfigRules : gStore'[g] # 0
      BY DEF PublishSeed, PublishGuardrails, CompileDefault, guardVars, BootStep, At, Sound
    <2>6. QED
      BY <2>1, <2>2, <2>3, <2>4, <2>5 DEF Sound, At
  <1>3. CASE Restart
    BY <1>3, RestartMoves DEF Sound, At, NoTask
  <1>4. ASSUME ~Boot, ~Restart
        PROVE  /\ At(Startup, "seeding")' => \A g \in ConfigRules : gNext'[g] # 0
               /\ task'[Startup].pc \in {"seeded", "compile", "ensure"} =>
                      \A g \in ConfigRules : gStore'[g] # 0
    <2>1. task'[Startup] = task[Startup]
      BY <1>4, Frames, AdminAlone DEF TaskStep
    <2>2. CASE Up
      BY <2>1, <2>2 DEF Up, At
    <2>3. CASE ~Up
      <3>1. \A a \in Admins : ~StartAdmin(a) /\ ~AdminStep(a)
        BY <2>3, AdminAlone
      <3>2. UNCHANGED guardVars \/ LoadGuardrails \/ SwapGuardrails
        BY <1>4, <3>1, Frames DEF GuardrailStep, Boot, AdminStep, StartAdmin
      <3>3. gStore' = gStore
        BY <3>2 DEF guardVars, LoadGuardrails, SwapGuardrails, BuildSnapshot, PublishGuardrails
      <3>4. At(Startup, "seeding") => gNext' = gNext
        <4>1. At(Startup, "seeding") => gHolder = Startup /\ Startup \notin Loops
                                        /\ Startup # Nobody
          BY Constants DEF LocksHeld, At
        <4>2. QED
          BY <3>2, <4>1 DEF guardVars, LoadGuardrails, SwapGuardrails, BuildSnapshot,
             PublishGuardrails, Loops
      <3>5. QED
        BY <2>1, <3>3, <3>4 DEF Sound, At
    <2>4. QED
      BY <2>2, <2>3
  <1>5. ASSUME NEW a \in Admins, ~Boot, ~Restart
        PROVE  /\ At(a, "create")' => \A g \in task'[a].names : gStore'[g] # 0
               /\ task'[a].pc \in {"delete", "remove"} =>
                      \A v \in Active' : task'[a].names \cap versions'[v].refs = {}
               /\ At(a, "remove")' => \A g \in task'[a].names : gNext'[g] = 0
    <2>1. CASE task'[a] = task[a]
      <3>1. CASE task[a].pc = "idle"
        BY <2>1, <3>1 DEF At
      <3>2. CASE task[a].pc # "idle"
        <4>1. /\ UNCHANGED <<gStore, versions>>
              /\ At(a, "remove") => gNext' = gNext
          BY <2>1, <3>2, TablesWait
        <4>2. QED
          BY <2>1, <4>1 DEF Sound, At, Active
      <3>3. QED
        BY <3>1, <3>2
    <2>2. CASE task'[a].pc = "idle"
      BY <2>2 DEF At
    <2>3. CASE StartAdmin(a)
      <3>1. a # Nobody /\ task[a].pc = "idle"
        BY <2>3, StartMoves, Constants DEF LocksHeld
      <3>2. ASSUME NEW h \in Guardrails, StartDelete(a, h), task'[a].pc = "delete",
                   task'[a].names = {h}
            PROVE  \A v \in Active' : task'[a].names \cap versions'[v].refs = {}
        BY <3>2 DEF StartDelete, workflowVars, Active
      <3>3. ASSUME NEW s \in Scopes, NEW refs \in RefSets, StartCreate(a, s, refs),
                   task'[a].names = refs
            PROVE  \A g \in task'[a].names : gStore'[g] # 0
        <4>1. refs \subseteq Guardrails /\ gStore' = gStore /\ CanBuild(refs)
          BY <3>3, WorkflowAssumption DEF StartCreate, guardVars
        <4>2. ASSUME NEW g \in refs
              PROVE  gStore[g] # 0
          <5>1. Agree(g) /\ gSnapshot[g] # 0
            BY <4>1, Agreement DEF CanBuild
          <5>2. ~Unpublished(g)
            BY <2>3, <3>1, InHand
          <5>3. QED
            BY <5>1, <5>2 DEF Agree
        <4>3. QED
          BY <3>3, <4>1, <4>2
      <3>4. QED
        BY <2>3, <3>2, <3>3, StartMoves DEF At
    <2>4. CASE AdminStep(a) /\ task'[a].pc # "idle"
      <3>1. task'[a].pc \in {"create", "delete", "remove"} => BuildDelete(a)
        BY <2>4, StepResults
      <3>2. ASSUME BuildDelete(a)
            PROVE  /\ task'[a].pc = "remove" /\ task'[a].names = task[a].names
                   /\ versions' = versions /\ task[a].pc = "delete"
                   /\ \A g \in task[a].names : gNext'[g] = 0
        <4>1. task'[a].pc = "remove" /\ task'[a].names = task[a].names
          BY <3>2, Went DEF BuildDelete, Continue, AdminSteps
        <4>2. versions' = versions /\ task[a].pc = "delete"
          BY <3>2 DEF BuildDelete, workflowVars, At
        <4>3. PICK h \in task[a].names : BuildSnapshot(a, [gStore EXCEPT ![h] = 0])
          BY <3>2 DEF BuildDelete
        <4>4. Single(task[a].names)
          BY <4>2 DEF Publishing
        <4>5. task[a].names = {h} /\ h \in Guardrails
          BY <4>3, <4>4 DEF Single
        <4>6. gNext'[h] = 0
          BY <4>3, <4>5 DEF BuildSnapshot, Typed, GuardTyped, Definitions
        <4>7. QED
          BY <4>1, <4>2, <4>5, <4>6
      <3>3. QED
        BY <3>1, <3>2 DEF At, Sound, Active
    <2>5. QED
      BY <2>1, <2>2, <2>3, <2>4, AdminCases
  <1>6. QED
    BY <1>2, <1>3, <1>4, <1>5 DEF Sound

(* What start-up finds in the snapshot it can compile. *)
LEMMA StoredCompiles ==
    ASSUME Typed, Starts, Backed, Complete, NEW refs \in SUBSET Guardrails, ~Up, ~Seeding,
           \A g \in refs : gStore[g] # 0
    PROVE  CanBuild(refs)
  <1> SUFFICES ASSUME NEW g \in refs PROVE gSnapshot[g] # 0
    BY DEF CanBuild
  <1>1. Agree(g)
    BY Agreement
  <1>2. QED
    BY <1>1, NoneInHand DEF Agree

LEMMA StandsNext ==
    ASSUME IInv, OInv, Alone, Next, ~UnseenWrite
    PROVE  ~At(Startup, "down")'
  <1> USE DEF IInv, Alone
  <1> SUFFICES ASSUME At(Startup, "down")' PROVE FALSE
    OBVIOUS
  <1>1. task[Startup] \in Task /\ task[Startup].pc # "down"
    BY Constants DEF Typed, At
  <1>2. Boot
    <2>1. task'[Startup] # task[Startup] /\ ~Restart
      BY <1>1, RestartMoves DEF At
    <2>2. QED
      BY <2>1, Frames, AdminAlone DEF TaskStep
  <1>3. CASE CompileDefault
    <2>1. task[Startup].pc = "compile"
      BY <1>3 DEF CompileDefault, At
    <2>2. \A g \in ConfigRules : gStore[g] # 0
      BY <2>1 DEF Sound
    <2>3. ~Up /\ ~Seeding
      BY <2>1 DEF Up, Seeding
    <2>4. CanBuild(ConfigRules)
      BY <2>2, <2>3, StoredCompiles, Constants
    <2>5. QED
      BY <1>1, <1>3, <2>4, Constants DEF CompileDefault, At, Typed
  <1>4. CASE FinishLoad
    <2>1. At(Startup, "loading") /\ RefreshFails(Startup)
      <3>1. ASSUME GoTo(Startup, "up")
            PROVE  FALSE
        <4>1. task'[Startup] = [task[Startup] EXCEPT !.pc = "up"]
          BY <3>1, GoToType, Constants DEF BootSteps
        <4>2. task'[Startup].pc = "up"
          BY <1>1, <4>1 DEF Task
        <4>3. QED
          BY <4>2 DEF At
      <3>2. QED
        BY <1>4, <3>1 DEF FinishLoad, BootStep, At
    <2>2. ~Up /\ ~Seeding
      BY <2>1 DEF Up, Seeding, At
    <2>3. CASE pending # {}
      <3>1. PICK v \in pending : v = Max(pending)
        BY <2>3, NewestPending DEF Typed
      <3>2. /\ v \in Active /\ v \in VersionIDs /\ versions[v].refs \in SUBSET Guardrails
            /\ versions[v].scope \in Scopes
        BY <2>1 DEF Loading, Active, Typed, Written
      <3>3. CanBuild(versions[v].refs)
        BY <2>2, <3>2, StoredCompiles DEF Stored
      <3>4. next.at[versions[v].scope] # 0
        BY <2>1, <2>3, <3>1, <3>3 DEF RefreshFails, Compilable
      <3>5. PICK u \in Active : u = next.at[versions[v].scope] /\ u \notin pending
        BY <2>1, <3>2, <3>4 DEF Loading
      <3>6. versions[u].scope = versions[v].scope
        BY <3>2, <3>4, <3>5 DEF OInv, Matched, RowOf
      <3>7. QED
        BY <3>2, <3>5, <3>6 DEF OInv, OneActive
    <2>4. CASE pending = {}
      <3>1. PICK v \in VersionIDs : Default(v) /\ next.at[GlobalScope] = v
        BY <2>1, <2>4 DEF Loading
      <3>2. QED
        BY <2>1, <2>4, <3>1 DEF RefreshFails, VersionIDs
    <2>5. QED
      BY <2>3, <2>4
  <1>5. QED
    BY <1>1, <1>2, <1>3, <1>4, BootMoves DEF Moves, Task, At

LEMMA LoadingNext ==
    ASSUME IInv, OInv, Alone, Next, ~UnseenWrite
    PROVE  Loading'
  <1> USE DEF IInv, Alone
  <1>1. task[Startup] \in Task /\ Startup \notin Loops /\ Startup # Nobody
    BY Constants DEF Typed
  <1> SUFFICES ASSUME task'[Startup].pc \in {"load", "loading"} PROVE Loading'
    BY DEF Loading, At
  <1>2. ~Restart
    BY RestartMoves
  <1>3. CASE task'[Startup] = task[Startup]
    <2>1. ~Up /\ ~Boot
      <3>1. ~Up
        BY <1>3 DEF Up
      <3>2. Boot => task'[Startup].pc # task[Startup].pc
        BY <1>1, BootMoves DEF Moves, Task
      <3>3. QED
        BY <1>3, <3>1, <3>2
    <2>2. \A a \in Admins : ~StartAdmin(a) /\ ~AdminStep(a)
      BY <2>1, AdminAlone
    <2>3. versions' = versions
      BY <2>1, <2>2, Frames DEF TableStep, Boot, AdminStep
    <2>4. \A v : Default(v)' <=> Default(v)
      BY <2>3 DEF Default, Active
    <2>5. CASE task[Startup].pc = "load"
      BY <1>3, <2>4, <2>5 DEF Loading, At
    <2>6. CASE task[Startup].pc = "loading"
      <3>1. wHolder = Startup
        BY <2>6 DEF LocksHeld
      <3>2. UNCHANGED buildVars \/ CompileRow
        <4>1. ~ListWorkflows /\ ~SwapWorkflows
          BY <1>1, <3>1 DEF ListWorkflows, SwapWorkflows, ListActive, PublishRefresh,
             RefreshFails, Unlock, Loops
        <4>2. QED
          BY <1>2, <2>1, <2>2, <4>1, Frames DEF BuildStep, Boot, AdminStep
      <3>3. CASE UNCHANGED buildVars
        BY <1>3, <2>3, <2>4, <2>6, <3>3 DEF buildVars, Loading, At, Active
      <3>4. CASE CompileRow
        <4>1. PICK v \in pending :
                 /\ pending' = pending \ {v} /\ next.at[versions[v].scope] = 0
                 /\ next'.at = [next.at EXCEPT ![versions[v].scope] = v]
          BY <3>4, CompileAt
        <4>2. PICK s \in Scopes : s = versions[v].scope
          BY <4>1 DEF Typed, BuildTyped, Written
        <4>3. /\ next.at[s] = 0 /\ next'.at[s] = v
              /\ \A t \in Scopes \ {s} : next'.at[t] = next.at[t]
          BY <4>1, <4>2 DEF OInv, Matched
        <4>4. pending' \subseteq Active' /\ v \in Active'
          BY <2>3, <2>6, <4>1 DEF Loading, At, Active
        <4>5. ASSUME NEW t \in Scopes, next'.at[t] # 0
              PROVE  next'.at[t] \in Active' \ pending'
          <5>1. CASE t = s
            BY <4>1, <4>3, <4>4, <5>1
          <5>2. CASE t # s
            <6>1. next'.at[t] = next.at[t]
              BY <4>3, <5>2
            <6>2. next.at[t] \in Active \ pending
              BY <2>6, <4>5, <6>1 DEF Loading, At
            <6>3. QED
              BY <2>3, <4>1, <6>1, <6>2 DEF Active
          <5>3. QED
            BY <5>1, <5>2
        <4>6. PICK d \in VersionIDs : Default(d) /\ (d \in pending \/ next.at[GlobalScope] = d)
          BY <2>6 DEF Loading, At
        <4>7. d \in pending' \/ next'.at[GlobalScope] = d
          <5>1. CASE d = v
            BY <4>2, <4>3, <4>6, <5>1 DEF Default
          <5>2. CASE d # v /\ d \in pending
            BY <4>1, <5>2
          <5>3. CASE d # v /\ next.at[GlobalScope] = d
            <6>1. GlobalScope # s
              BY <4>3, <4>6, <5>3 DEF VersionIDs
            <6>2. QED
              BY <4>3, <5>3, <6>1, Constants
          <5>4. QED
            BY <4>6, <5>1, <5>2, <5>3
        <4>8. Default(d)'
          BY <2>4, <4>6
        <4>9. QED
          BY <1>3, <2>6, <4>4, <4>5, <4>7, <4>8 DEF Loading, At
      <3>5. QED
        BY <3>2, <3>3, <3>4
    <2>7. QED
      BY <1>3, <2>5, <2>6
  <1>4. CASE task'[Startup] # task[Startup]
    <2>1. Boot
      BY <1>2, <1>4, Frames, AdminAlone DEF TaskStep
    <2>2. \/ EnsureDefault /\ task'[Startup].pc = "load"
          \/ Load /\ task[Startup].pc = "load" /\ task'[Startup].pc = "loading"
      BY <1>1, <2>1, BootMoves DEF Moves, Task
    <2>3. CASE EnsureDefault /\ task'[Startup].pc = "load"
      <3>1. CASE DefaultStands /\ versions' = versions
        <4>1. PICK v \in Active : versions[v].scope = GlobalScope
          BY <3>1 DEF DefaultStands
        <4>2. v \in VersionIDs /\ Default(v)'
          BY <3>1, <4>1 DEF Default, Active
        <4>3. QED
          BY <2>3, <4>2 DEF Loading, At
      <3>2. CASE HasRoom /\ versions' = Inserted(GlobalScope, ConfigRules, TRUE)
        <4>1. /\ NewID \in VersionIDs /\ versions'[NewID].state = "active"
              /\ versions'[NewID].scope = GlobalScope
          BY <3>2, FreeID, InsertedKeeps, Constants
        <4>2. \E v \in VersionIDs : versions'[v].state = "active"
                                    /\ versions'[v].scope = GlobalScope
          BY <4>1
        <4>3. (\E v \in VersionIDs : Default(v))'
          BY <4>2 DEF Default, Active
        <4>4. QED
          BY <2>3, <4>3 DEF Loading, At
      <3>3. QED
        BY <2>3, <3>1, <3>2 DEF EnsureDefault
    <2>4. CASE Load /\ task[Startup].pc = "load" /\ task'[Startup].pc = "loading"
      <3>1. pending' = Active /\ next' = EmptySnapshot /\ versions' = versions
        BY <2>4 DEF Load, ListActive
      <3>2. \A s \in Scopes : next'.at[s] = 0
        BY <3>1, EmptyAt
      <3>3. PICK v \in VersionIDs : Default(v)
        BY <2>4 DEF Loading, At
      <3>4. v \in pending' /\ Default(v)' /\ pending' = Active'
        BY <3>1, <3>3 DEF Default, Active
      <3>5. QED
        BY <2>4, <3>2, <3>4 DEF Loading, At
    <2>5. QED
      BY <2>2, <2>3, <2>4
  <1>5. QED
    BY <1>3, <1>4

LEMMA RInvInit == Init => RInv
  <1> SUFFICES ASSUME Init PROVE RInv
    OBVIOUS
  <1>1. IInv /\ unseen = 0
    BY InvInit DEF Init
  <1>2. /\ task[Startup].pc = "seed" /\ \A a \in Admins : task[a].pc = "idle"
    BY Constants DEF Init, NoTask
  <1>3. Stored
    BY DEF Init, Stored, Active
  <1>4. Backed /\ Complete
    BY DEF Init, NoPipeline, Backed, Complete
  <1>5. Sound /\ Loading /\ ~At(Startup, "down")
    BY <1>2 DEF Sound, Loading, At
  <1>6. QED
    BY <1>1, <1>3, <1>4, <1>5 DEF RInv, Alone

LEMMA RInvNext == IInv /\ OInv /\ RInv /\ [Next]_vars => RInv'
  <1> SUFFICES ASSUME IInv, OInv, RInv, [Next]_vars PROVE RInv'
    OBVIOUS
  <1>1. CASE Next
    <2>1. UnseenWrite => unseen' = unseen + 1
      BY DEF UnseenWrite
    <2>2. unseen' \in Nat /\ (unseen' = 0 => unseen = 0 /\ ~UnseenWrite)
      BY <1>1, <2>1, Frames DEF RInv
    <2>3. ASSUME unseen' = 0
          PROVE  Alone'
      <3>1. Alone /\ ~UnseenWrite
        BY <2>2, <2>3 DEF RInv
      <3>2. Stored'
        BY <1>1, <3>1, StoredNext DEF Stored
      <3>3. \A g \in Guardrails : Agree(g)'
        BY <1>1, <3>1, AgreeNext, Agreement DEF IInv, Alone
      <3>4. Backed' /\ Complete'
        BY <3>3 DEF Backed, Complete, Agree
      <3>5. Sound' /\ Loading' /\ ~At(Startup, "down")'
        BY <1>1, <3>1, SoundNext, LoadingNext, StandsNext
      <3>6. QED
        BY <3>2, <3>4, <3>5 DEF Alone
    <2>4. QED
      BY <2>2, <2>3 DEF RInv
  <1>2. CASE UNCHANGED vars
    <2>1. /\ UNCHANGED <<gStore, gSnapshot, gNext, gHolder, versions, pending, next>>
          /\ UNCHANGED <<task, unseen>>
      BY <1>2 DEF vars, guardVars, workflowVars, buildVars, history
    <2>2. Stored' <=> Stored
      BY <2>1 DEF Stored, Active
    <2>3. (Backed' <=> Backed) /\ (Complete' <=> Complete)
      BY <2>1 DEF Backed, Complete, Unpublished, Writing, Deleting, Seeding, At
    <2>4. (Sound' <=> Sound) /\ (Loading' <=> Loading)
      BY <2>1 DEF Sound, Loading, Default, Active, At
    <2>5. QED
      BY <2>1, <2>2, <2>3, <2>4 DEF RInv, Alone, At
  <1>3. QED
    BY <1>1, <1>2

(* While nobody else writes, an active workflow names no guardrail that is *)
(* missing from the table, and start-up succeeds after a crash at any      *)
(* moment: what a handler or a refresh is about to write or to publish     *)
(* leaves no row without its guardrails.                                   *)
THEOREM Resolvable == Spec => []RefsResolvable
  <1>1. RInv => RefsResolvable
    BY DEF RInv, Alone, Stored, RefsResolvable, At
  <1>2. Spec => []OInv
    BY OInvInit, OInvNext, Safety, PTL DEF Spec
  <1>3. QED
    BY <1>1, <1>2, RInvInit, RInvNext, Safety, PTL DEF Spec

-----------------------------------------------------------------------------
(* Matching.  A request's candidates are positions: the first component    *)
(* counts the levels of its path upwards, the second the names that are    *)
(* tried at one level.                                                     *)

Selector(sel) == sel \in [provider : STRING, model : STRING, path : Seq(STRING)]

(* The i-th path that is tried has one segment less for each step. *)
LEMMA PathsUp ==
    ASSUME NEW sel, Selector(sel)
    PROVE  /\ Len(sel.path) \in Nat
           /\ Paths(sel) \in Seq(Seq(STRING)) /\ Len(Paths(sel)) = Len(sel.path) + 1
           /\ \A i \in 1 .. Len(sel.path) + 1 :
                  /\ Paths(sel)[i] = SubSeq(sel.path, 1, Len(sel.path) + 1 - i)
                  /\ Paths(sel)[i] \in Seq(STRING)
                  /\ Len(Paths(sel)[i]) = Len(sel.path) + 1 - i
  <1> DEFINE path == sel.path
             n == Len(path)
             up == UserPathAncestors(path)
             Upto(i) == SubSeq(path, 1, n + 1 - i)
  <1>1. path \in Seq(STRING) /\ n \in Nat
    BY DEF Selector
  <1>2. \A i \in 1 .. n + 1 : /\ SubSeq(path, 1, n + 1 - i) \in Seq(STRING)
                              /\ Len(SubSeq(path, 1, n + 1 - i)) = n + 1 - i
    <2> SUFFICES ASSUME NEW i \in 1 .. n + 1
                 PROVE  /\ SubSeq(path, 1, n + 1 - i) \in Seq(STRING)
                        /\ Len(SubSeq(path, 1, n + 1 - i)) = n + 1 - i
      OBVIOUS
    <2> DEFINE m == n + 1 - i
    <2>1. m \in 0 .. n
      BY <1>1
    <2> HIDE DEF m, n, path
    <2>2. SubSeq(path, 1, m) \in Seq(STRING) /\ Len(SubSeq(path, 1, m)) = m
      BY <1>1, <2>1, SubSeqProperties DEF n
    <2>3. QED
      BY <2>2 DEF m
  <1>3. /\ up \in Seq(Seq(STRING)) /\ Len(up) = n
        /\ \A i \in 1 .. n : up[i] = SubSeq(path, 1, n + 1 - i)
    <2> HIDE DEF path
    <2>1. up = [i \in 1 .. n |-> Upto(i)]
      BY DEF UserPathAncestors
    <2>2. \A i \in 1 .. n : Upto(i) \in Seq(STRING)
      BY <1>1, <1>2
    <2> HIDE DEF n, up, Upto
    <2>3. up \in Seq(Seq(STRING)) /\ Len(up) = n
      BY <1>1, <2>1, <2>2, IsASeq
    <2>4. \A i \in 1 .. n : up[i] = Upto(i)
      BY <2>1
    <2>5. QED
      BY <2>3, <2>4 DEF Upto
  <1>4. << >> \in Seq(STRING) /\ SubSeq(path, 1, 0) = << >>
    <2> HIDE DEF path
    <2>1. SubSeq(path, 1, n + 1 - (n + 1)) \in Seq(STRING)
          /\ Len(SubSeq(path, 1, n + 1 - (n + 1))) = 0
      BY <1>1, <1>2
    <2>2. SubSeq(path, 1, 0) \in Seq(STRING) /\ Len(SubSeq(path, 1, 0)) = 0
      BY <1>1, <2>1
    <2>3. QED
      BY <2>2, EmptySeq
  <1>5. Paths(sel) = Append(up, << >>)
    BY DEF Paths
  <1> HIDE DEF up, path, n, Upto
  <1>6. /\ Paths(sel) \in Seq(Seq(STRING)) /\ Len(Paths(sel)) = n + 1
        /\ \A i \in 1 .. n : Paths(sel)[i] = up[i]
        /\ Paths(sel)[n + 1] = << >>
    BY <1>1, <1>3, <1>4, <1>5, AppendProperties
  <1>7. \A i \in 1 .. n + 1 : Paths(sel)[i] = SubSeq(path, 1, n + 1 - i)
    <2> SUFFICES ASSUME NEW i \in 1 .. n + 1
                 PROVE  Paths(sel)[i] = SubSeq(path, 1, n + 1 - i)
      OBVIOUS
    <2>1. CASE i \in 1 .. n
      BY <1>3, <1>6, <2>1
    <2>2. CASE i = n + 1
      <3>1. n + 1 - i = 0
        BY <1>1, <2>2
      <3>2. QED
        BY <1>4, <1>6, <2>2, <3>1
    <2>3. QED
      BY <1>1, <2>1, <2>2
  <1>8. QED
    BY <1>1, <1>2, <1>6, <1>7 DEF path, n

(* Which names are tried, case by case. *)
LEMMA TriedAt ==
    ASSUME NEW sel
    PROVE  /\ Tried(sel) \in SUBSET (1 .. 3) /\ 3 \in Tried(sel)
           /\ sel.provider # Unnamed => 2 \in Tried(sel)
           /\ sel.provider # Unnamed /\ sel.model # Unnamed => 1 \in Tried(sel)
           /\ 2 \in Tried(sel) => sel.provider # Unnamed
           /\ 1 \in Tried(sel) => sel.provider # Unnamed /\ sel.model # Unnamed
  <1> DEFINE P(k) == (k <= 2 => sel.provider # Unnamed) /\ (k = 1 => sel.model # Unnamed)
  <1>1. Tried(sel) = {k \in 1 .. 3 : P(k)}
    BY DEF Tried
  <1>2. /\ P(3)
        /\ P(2) <=> sel.provider # Unnamed
        /\ P(1) <=> sel.provider # Unnamed /\ sel.model # Unnamed
    OBVIOUS
  <1> HIDE DEF P
  <1>3. 1 \in 1 .. 3 /\ 2 \in 1 .. 3 /\ 3 \in 1 .. 3
    OBVIOUS
  <1>4. Tried(sel) \in SUBSET (1 .. 3)
    BY <1>1
  <1>5. \A k \in 1 .. 3 : k \in Tried(sel) <=> P(k)
    BY <1>1
  <1>6. QED
    BY <1>2, <1>3, <1>4, <1>5

(* The candidate at each position. *)
LEMMA CandidateAt ==
    ASSUME NEW sel, Selector(sel)
    PROVE  /\ DOMAIN Candidates(sel) = (1 .. Len(sel.path) + 1) \X Tried(sel)
           /\ \A i \in 1 .. Len(sel.path) + 1, k \in Tried(sel) :
                  LET path == SubSeq(sel.path, 1, Len(sel.path) + 1 - i) IN
                  /\ k \in 1 .. 3
                  /\ k = 1 => /\ Candidates(sel)[<<i, k>>] = Scope(sel.provider, sel.model, path)
                              /\ sel.provider # Unnamed /\ sel.model # Unnamed
                  /\ k = 2 => /\ Candidates(sel)[<<i, k>>] = Scope(sel.provider, Unnamed, path)
                              /\ sel.provider # Unnamed
                  /\ k = 3 => Candidates(sel)[<<i, k>>] = Scope(Unnamed, Unnamed, path)
  <1>1. /\ Len(Paths(sel)) = Len(sel.path) + 1
        /\ \A i \in 1 .. Len(sel.path) + 1 :
               Paths(sel)[i] = SubSeq(sel.path, 1, Len(sel.path) + 1 - i)
    BY PathsUp
  <1>2. DOMAIN Candidates(sel) = (1 .. Len(sel.path) + 1) \X Tried(sel)
    BY <1>1 DEF Candidates
  <1>3. ASSUME NEW i \in 1 .. Len(sel.path) + 1, NEW k \in Tried(sel)
        PROVE  Candidates(sel)[<<i, k>>] = ScopesAt(sel, Paths(sel)[i])[k]
    <2>1. <<i, k>> \in (1 .. Len(Paths(sel))) \X Tried(sel)
      BY <1>1
    <2>2. QED
      BY <2>1 DEF Candidates
  <1>4. ASSUME NEW i \in 1 .. Len(sel.path) + 1, NEW k \in Tried(sel)
        PROVE  LET path == SubSeq(sel.path, 1, Len(sel.path) + 1 - i) IN
               /\ k \in 1 .. 3
               /\ k = 1 => /\ Candidates(sel)[<<i, k>>] = Scope(sel.provider, sel.model, path)
                           /\ sel.provider # Unnamed /\ sel.model # Unnamed
               /\ k = 2 => /\ Candidates(sel)[<<i, k>>] = Scope(sel.provider, Unnamed, path)
                           /\ sel.provider # Unnamed
               /\ k = 3 => Candidates(sel)[<<i, k>>] = Scope(Unnamed, Unnamed, path)
    <2> DEFINE path == SubSeq(sel.path, 1, Len(sel.path) + 1 - i)
    <2>1. Candidates(sel)[<<i, k>>] = ScopesAt(sel, path)[k]
      BY <1>1, <1>3
    <2> HIDE DEF path
    <2>2. /\ ScopesAt(sel, path)[1] = Scope(sel.provider, sel.model, path)
          /\ ScopesAt(sel, path)[2] = Scope(sel.provider, Unnamed, path)
          /\ ScopesAt(sel, path)[3] = Scope(Unnamed, Unnamed, path)
      BY DEF ScopesAt
    <2>3. QED
      BY <2>1, <2>2, TriedAt DEF path
  <1>5. QED
    BY <1>2, <1>4

(* A set of positions that is not empty has a first one. *)
LEMMA FirstPosition ==
    ASSUME NEW n \in Nat, NEW hits \in SUBSET ((1 .. n) \X (1 .. 3)), hits # {}
    PROVE  \E p \in hits : \A q \in hits : ~Before(q, p)
  <1> DEFINE rows == {p[1] : p \in hits}
  <1>1. rows \in SUBSET Nat /\ rows # {}
    OBVIOUS
  <1>2. PICK i \in rows : \A j \in rows : i <= j
    BY <1>1, MinExists
  <1> DEFINE cols == {p[2] : p \in {q \in hits : q[1] = i}}
  <1>3. cols \in SUBSET Nat /\ cols # {}
    BY <1>2
  <1>4. PICK k \in cols : \A l \in cols : k <= l
    BY <1>3, MinExists
  <1>5. PICK p \in hits : p[1] = i /\ p[2] = k
    BY <1>4
  <1>6. ASSUME NEW q \in hits
        PROVE  ~Before(q, p)
    <2>1. i <= q[1] /\ (q[1] = i => k <= q[2])
      BY <1>2, <1>4
    <2>2. /\ q[1] \in Nat /\ q[2] \in Nat /\ p[1] \in Nat /\ p[2] \in Nat
      OBVIOUS
    <2>3. QED
      BY <1>5, <2>1, <2>2 DEF Before
  <1>7. QED
    BY <1>6

(* While the global scope has a workflow, a request matches the first of   *)
(* its candidates that has one.                                            *)
LEMMA MatchedFirst ==
    ASSUME NEW sel, Selector(sel), NEW loaded, GlobalScope \in loaded
    PROVE  \E p \in DOMAIN Candidates(sel) :
               /\ MatchedScope(loaded, Candidates(sel)) = Candidates(sel)[p]
               /\ Candidates(sel)[p] \in loaded
               /\ \A q \in DOMAIN Candidates(sel) :
                      Candidates(sel)[q] \in loaded => ~Before(q, p)
  <1> DEFINE C == Candidates(sel)
             hits == {p \in DOMAIN C : C[p] \in loaded}
             n == Len(sel.path) + 1
  <1>1. n \in Nat /\ n >= 1 /\ DOMAIN C = (1 .. n) \X Tried(sel)
    <2>1. Len(sel.path) \in Nat
      BY PathsUp
    <2>2. DOMAIN C = (1 .. n) \X Tried(sel)
      BY CandidateAt
    <2>3. QED
      BY <2>1, <2>2
  <1>2. Tried(sel) \in SUBSET (1 .. 3) /\ 3 \in Tried(sel)
    BY TriedAt
  <1>3. <<n, 3>> \in hits
    <2>1. SubSeq(sel.path, 1, Len(sel.path) + 1 - n) = << >>
      <3>1. /\ SubSeq(sel.path, 1, Len(sel.path) + 1 - n) \in Seq(STRING)
            /\ Len(SubSeq(sel.path, 1, Len(sel.path) + 1 - n)) = 0
        BY <1>1, PathsUp
      <3>2. QED
        BY <3>1, EmptySeq
    <2>2. n \in 1 .. Len(sel.path) + 1
      BY <1>1
    <2>3. C[<<n, 3>>] = Scope(Unnamed, Unnamed, << >>)
      BY <1>2, <2>1, <2>2, CandidateAt
    <2>4. <<n, 3>> \in DOMAIN C
      BY <1>1, <1>2
    <2>5. QED
      BY <2>3, <2>4 DEF GlobalScope
  <1>4. hits \in SUBSET ((1 .. n) \X (1 .. 3)) /\ hits # {}
    BY <1>1, <1>2, <1>3
  <1>5. MatchedScope(loaded, C) = C[CHOOSE p \in hits : \A q \in hits : ~Before(q, p)]
    BY DEF MatchedScope
  <1> DEFINE first == CHOOSE p \in hits : \A q \in hits : ~Before(q, p)
  <1>6. first \in hits /\ \A q \in hits : ~Before(q, first)
    <2> HIDE DEF hits, n
    <2>1. \E p \in hits : \A q \in hits : ~Before(q, p)
      BY <1>1, <1>4, FirstPosition
    <2>2. QED
      BY <2>1
  <1>7. QED
    BY <1>5, <1>6

(* Every candidate covers the request. *)
LEMMA CandidateCovers ==
    ASSUME NEW sel, Selector(sel), NEW i \in 1 .. Len(sel.path) + 1, NEW k \in Tried(sel)
    PROVE  LET c == Candidates(sel)[<<i, k>>] IN
           /\ Covers(c, sel) /\ Len(c.path) = Len(sel.path) + 1 - i
           /\ k \in 1 .. 3
           /\ k = 1 => c.provider # Unnamed /\ c.model # Unnamed
           /\ k = 2 => c.provider # Unnamed /\ c.model = Unnamed
           /\ k = 3 => c.provider = Unnamed /\ c.model = Unnamed
  <1> DEFINE m == Len(sel.path) + 1 - i
             path == SubSeq(sel.path, 1, m)
             c == Candidates(sel)[<<i, k>>]
  <1>1. sel.path \in Seq(STRING) /\ Len(sel.path) \in Nat /\ m \in 0 .. Len(sel.path)
    BY DEF Selector
  <1>2. path \in Seq(STRING) /\ Len(path) = m
    BY <1>1, PathsUp
  <1>3. /\ k \in 1 .. 3
        /\ k = 1 => /\ c = Scope(sel.provider, sel.model, path)
                    /\ sel.provider # Unnamed /\ sel.model # Unnamed
        /\ k = 2 => c = Scope(sel.provider, Unnamed, path) /\ sel.provider # Unnamed
        /\ k = 3 => c = Scope(Unnamed, Unnamed, path)
    BY CandidateAt
  <1> HIDE DEF c, path, m
  <1>4. /\ c.path = path /\ c.provider \in {Unnamed, sel.provider} /\ c.model \in {Unnamed, sel.model}
        /\ k \in 1 .. 3
        /\ k = 1 => c.provider # Unnamed /\ c.model # Unnamed
        /\ k = 2 => c.provider # Unnamed /\ c.model = Unnamed
        /\ k = 3 => c.provider = Unnamed /\ c.model = Unnamed
    <2>1. CASE k = 1
      BY <1>3, <2>1 DEF Scope
    <2>2. CASE k = 2
      BY <1>3, <2>2 DEF Scope
    <2>3. CASE k = 3
      BY <1>3, <2>3 DEF Scope
    <2>4. QED
      BY <1>3, <2>1, <2>2, <2>3
  <1>5. IsPrefix(path, sel.path)
    <2>1. SubSeq(path, 1, m) = path
      BY <1>2, SubSeqFull
    <2>2. Len(path) <= Len(sel.path)
      BY <1>1, <1>2
    <2>3. QED
      BY <1>1, <1>2, <2>1, <2>2 DEF IsPrefix, path
  <1>6. QED
    BY <1>2, <1>4, <1>5 DEF Covers, c, m

(* Every scope that covers the request is a candidate, and a more specific *)
(* one comes earlier.                                                      *)
LEMMA CoveringTried ==
    ASSUME NEW sel, Selector(sel), NEW t \in Covering(sel)
    PROVE  \E j \in 1 .. Len(sel.path) + 1, l \in Tried(sel) :
               /\ Candidates(sel)[<<j, l>>] = t
               /\ \A i \in 1 .. Len(sel.path) + 1, k \in Tried(sel) :
                      MoreSpecific(t, Candidates(sel)[<<i, k>>]) => Before(<<j, l>>, <<i, k>>)
  <1>1. /\ t \in [provider : {Unnamed, sel.provider}, model : {Unnamed, sel.model},
                  path : {SubSeq(sel.path, 1, n) : n \in 0 .. Len(sel.path)}]
        /\ t.model # Unnamed => t.provider # Unnamed
    BY DEF Covering
  <1>2. PICK n \in 0 .. Len(sel.path) : t.path = SubSeq(sel.path, 1, n)
    BY <1>1
  <1>3. Len(sel.path) \in Nat /\ t.provider \in {Unnamed, sel.provider} /\ t.model \in {Unnamed, sel.model}
    <2>1. Len(sel.path) \in Nat
      BY PathsUp
    <2> DEFINE levels == {SubSeq(sel.path, 1, m) : m \in 0 .. Len(sel.path)}
    <2>2. t \in [provider : {Unnamed, sel.provider}, model : {Unnamed, sel.model}, path : levels]
      BY <1>1
    <2> HIDE DEF levels
    <2>3. QED
      BY <2>1, <2>2
  <1>4. t = Scope(t.provider, t.model, t.path)
    BY <1>1 DEF Scope
  <1> DEFINE j == Len(sel.path) + 1 - n
             l == IF t.model # Unnamed THEN 1 ELSE IF t.provider # Unnamed THEN 2 ELSE 3
  <1>5. j \in 1 .. Len(sel.path) + 1 /\ Len(sel.path) + 1 - j = n
    BY <1>3
  <1>6. l \in Tried(sel)
    BY <1>1, <1>3, TriedAt
  <1> DEFINE c == Candidates(sel)[<<j, l>>]
  <1> HIDE DEF j
  <1>7. /\ l = 1 => c = Scope(sel.provider, sel.model, t.path)
        /\ l = 2 => c = Scope(sel.provider, Unnamed, t.path)
        /\ l = 3 => c = Scope(Unnamed, Unnamed, t.path)
    <2> HIDE DEF l
    <2>1. QED
      BY <1>2, <1>5, <1>6, CandidateAt
  <1>8. c = t
    <2> HIDE DEF c
    <2>1. QED
      BY <1>1, <1>3, <1>4, <1>7
  <1>9. ASSUME NEW i \in 1 .. Len(sel.path) + 1, NEW k \in Tried(sel),
               MoreSpecific(t, Candidates(sel)[<<i, k>>])
        PROVE  Before(<<j, l>>, <<i, k>>)
    <2> DEFINE d == Candidates(sel)[<<i, k>>]
    <2>1. /\ Len(d.path) = Len(sel.path) + 1 - i
          /\ k \in 1 .. 3
          /\ k = 1 => d.provider # Unnamed /\ d.model # Unnamed
          /\ k = 2 => d.provider # Unnamed /\ d.model = Unnamed
          /\ k = 3 => d.provider = Unnamed /\ d.model = Unnamed
      BY CandidateCovers
    <2>2. /\ Len(t.path) = Len(sel.path) + 1 - j
          /\ l \in 1 .. 3
          /\ l = 1 => t.provider # Unnamed /\ t.model # Unnamed
          /\ l = 2 => t.provider # Unnamed /\ t.model = Unnamed
          /\ l = 3 => t.provider = Unnamed /\ t.model = Unnamed
      <3> HIDE DEF l
      <3>1. QED
        BY <1>5, <1>6, <1>8, CandidateCovers
    <2>3. k \in 1 .. 3 /\ l \in 1 .. 3
      BY TriedAt
    <2>4. MoreSpecific(t, d)
      BY <1>9
    <2> HIDE DEF d, l
    <2>5. j < i \/ (j = i /\ l < k)
      BY <1>3, <1>5, <2>1, <2>2, <2>3, <2>4 DEF MoreSpecific
    <2>6. QED
      BY <2>5 DEF Before
  <1>10. QED
    <2> HIDE DEF l
    <2>1. QED
      BY <1>5, <1>6, <1>8, <1>9

(* For any request, and any set of scopes that have a workflow, the global *)
(* one among them: what matchCompiled finds covers the request, and no     *)
(* scope of the set that covers it too is more specific.                   *)
THEOREM MatchIsMostSpecific ==
    ASSUME NEW sel, Selector(sel), NEW loaded, GlobalScope \in loaded
    PROVE  LET matched == MatchedScope(loaded, Candidates(sel)) IN
           /\ matched \in loaded
           /\ Covers(matched, sel)
           /\ \A t \in loaded \cap Covering(sel) : ~MoreSpecific(t, matched)
  <1>1. PICK p \in DOMAIN Candidates(sel) :
               /\ MatchedScope(loaded, Candidates(sel)) = Candidates(sel)[p]
               /\ Candidates(sel)[p] \in loaded
               /\ \A q \in DOMAIN Candidates(sel) :
                      Candidates(sel)[q] \in loaded => ~Before(q, p)
    BY MatchedFirst
  <1>2. DOMAIN Candidates(sel) = (1 .. Len(sel.path) + 1) \X Tried(sel)
    BY CandidateAt
  <1>3. PICK i \in 1 .. Len(sel.path) + 1, k \in Tried(sel) : p = <<i, k>>
    BY <1>2
  <1>4. Covers(Candidates(sel)[p], sel)
    BY <1>3, CandidateCovers
  <1>5. ASSUME NEW t \in loaded \cap Covering(sel), MoreSpecific(t, Candidates(sel)[p])
        PROVE  FALSE
    <2>1. PICK j \in 1 .. Len(sel.path) + 1, l \in Tried(sel) :
               /\ Candidates(sel)[<<j, l>>] = t
               /\ \A i1 \in 1 .. Len(sel.path) + 1, k1 \in Tried(sel) :
                      MoreSpecific(t, Candidates(sel)[<<i1, k1>>]) => Before(<<j, l>>, <<i1, k1>>)
      BY CoveringTried
    <2>2. Before(<<j, l>>, p)
      BY <1>3, <1>5, <2>1
    <2>3. <<j, l>> \in DOMAIN Candidates(sel)
      BY <1>2
    <2>4. QED
      BY <1>1, <1>5, <2>1, <2>2, <2>3
  <1>6. QED
    BY <1>1, <1>4, <1>5

(* The global scope covers every request. *)
LEMMA GlobalCovers ==
    ASSUME NEW sel, Selector(sel)
    PROVE  GlobalScope \in Covering(sel)
  <1>1. Len(sel.path) \in Nat
    BY PathsUp
  <1>2. SubSeq(sel.path, 1, 0) = << >>
    BY SubSeqEmpty
  <1>3. << >> \in {SubSeq(sel.path, 1, n) : n \in 0 .. Len(sel.path)}
    BY <1>1, <1>2
  <1>4. QED
    BY <1>3 DEF GlobalScope, Scope, Covering

LEMMA SelectorTyped ==
    ASSUME NEW sel \in Selectors
    PROVE  Selector(sel) /\ CandidatesOf[sel] = Candidates(sel)
  <1>1. Selectors \subseteq [provider : STRING, model : STRING, path : Seq(STRING)]
    BY WorkflowAssumption
  <1>2. Selector(sel)
    BY <1>1 DEF Selector
  <1>3. CandidatesOf[sel] = Candidates(sel)
    BY DEF CandidatesOf
  <1>4. QED
    BY <1>2, <1>3

LEMMA MostSpecific ==
    ASSUME NEW sel \in Selectors
    PROVE  FirstIsMostSpecific[sel]
  <1>1. Selector(sel) /\ CandidatesOf[sel] = Candidates(sel)
    BY SelectorTyped
  <1> DEFINE Best(scopes) ==
                 LET loaded  == scopes \cup {GlobalScope}
                     matched == MatchedScope(loaded, CandidatesOf[sel])
                 IN  /\ matched \in loaded
                     /\ Covers(matched, sel)
                     /\ \A t \in loaded : Covers(t, sel) => ~MoreSpecific(t, matched)
  <1>2. ASSUME NEW scopes \in SUBSET (Covering(sel) \ {GlobalScope})
        PROVE  Best(scopes)
    <2> DEFINE loaded == scopes \cup {GlobalScope}
    <2>1. loaded \in SUBSET Covering(sel) /\ GlobalScope \in loaded
      BY <1>1, GlobalCovers
    <2> HIDE DEF loaded
    <2>2. LET matched == MatchedScope(loaded, Candidates(sel)) IN
          /\ matched \in loaded
          /\ Covers(matched, sel)
          /\ \A t \in loaded \cap Covering(sel) : ~MoreSpecific(t, matched)
      BY <1>1, <2>1, MatchIsMostSpecific
    <2>3. QED
      BY <1>1, <2>1, <2>2 DEF loaded
  <1>3. FirstIsMostSpecific[sel] = \A scopes \in SUBSET (Covering(sel) \ {GlobalScope}) : Best(scopes)
    BY DEF FirstIsMostSpecific
  <1> HIDE DEF Best
  <1>4. QED
    BY <1>2, <1>3

-----------------------------------------------------------------------------
(* What a request gets.  The invariant: the two maps lead to versions that *)
(* are held, every pipeline that is held or being built is complete, and a *)
(* version that is active is not dropped.                                  *)

Defaulted ==
    /\ Up => matchAt[GlobalScope] # 0
    /\ \A a \in Admins : task[a].pc \in {"deactivate", "unmatch"} =>
                             task[a].scope # GlobalScope

Mapped == \A s \in Scopes : /\ matchAt[s] # 0 => matchAt[s] \in byVersionID
                            /\ next.at[s] # 0 => next.at[s] \in next.ids

Guarded ==
    /\ \A v \in byVersionID : \A g \in versions[v].refs : pipeline[v][g] # 0
    /\ \A v \in next.ids : \A g \in versions[v].refs : next.pipeline[v][g] # 0
    /\ \A a \in Admins : task[a].pc \in {"create", "activate"} =>
           \A g \in task[a].names : task[a].compiled[g] # 0
    /\ At(Startup, "ensure") => \A g \in ConfigRules : task[Startup].compiled[g] # 0

Kept ==
    /\ request \in [Requests -> {NoRequest} \cup VersionIDs]
    /\ \A r \in Requests : request[r] # NoRequest =>
           /\ versions[request[r]].state # "unused"
           /\ request[r] \in Active => request[r] \in byVersionID
    /\ Refreshing => \A v \in byVersionID \cap Active : v \in pending \cup next.ids
    /\ \A a \in Admins : At(a, "activate") => matchAt[task[a].scope] \notin Active

UInv == Defaulted /\ Mapped /\ Guarded /\ Kept

(* How the snapshot changes, all of it at once. *)
Swapped == /\ matchAt' = next.at /\ byVersionID' = next.ids /\ pipeline' = next.pipeline
           /\ pending = {} /\ next.at[GlobalScope] # 0 /\ UNCHANGED versions
           /\ Refreshing

Activated(a) == /\ At(a, "activate") /\ UNCHANGED versions /\ AdminStep(a)
                /\ Activate(task[a].version, task[a].scope, task[a].compiled)

Unmatched(a) == /\ At(a, "unmatch") /\ UNCHANGED versions /\ AdminStep(a)
                /\ Unmatch(task[a].version, task[a].scope)

Ensured == /\ At(Startup, "ensure") /\ HasRoom
           /\ versions' = Inserted(GlobalScope, ConfigRules, TRUE)
           /\ Activate(NewID, GlobalScope, task[Startup].compiled)

LEMMA SnapshotCases ==
    ASSUME Next
    PROVE  \/ UNCHANGED snapshotVars
           \/ wHolder' = Nobody /\ \/ Swapped
                                   \/ \E a \in Admins : Activated(a) \/ Unmatched(a)
                                   \/ wHolder = Nobody /\ Ensured
                                   \/ Restart
  <1>1. ASSUME NEW p \in Loops \cup {Startup}, PublishRefresh(p)
        PROVE  Swapped /\ wHolder' = Nobody
    BY <1>1 DEF PublishRefresh, Swapped, Refreshing, Unlock
  <1>2. ASSUME NEW a \in Admins, AckGuardrail(a)
        PROVE  Swapped /\ wHolder' = Nobody
    BY <1>2 DEF AckGuardrail, PublishRefresh, Swapped, Refreshing, Unlock
  <1>3. CASE SwapWorkflows \/ FinishLoad
    BY <1>1, <1>3 DEF SwapWorkflows, FinishLoad, RefreshFails, Loops
  <1>4. ASSUME NEW a \in Admins, ActivateVersion(a)
        PROVE  Activated(a) /\ wHolder' = Nobody
    BY <1>4 DEF ActivateVersion, Activated, AdminStep, Unlock
  <1>5. ASSUME NEW a \in Admins, UnmatchVersion(a)
        PROVE  Unmatched(a) /\ wHolder' = Nobody
    BY <1>5 DEF UnmatchVersion, Unmatched, AdminStep, Unlock
  <1>6. CASE EnsureDefault
    BY <1>6 DEF EnsureDefault, BootStep, Ensured, buildVars
  <1>7. CASE Restart
    BY <1>7 DEF Restart
  <1>8. QED
    BY <1>2, <1>3, <1>4, <1>5, <1>6, <1>7, Frames DEF SnapshotStep

(* Whoever starts to serve has just published a global workflow. *)
LEMMA UpCases ==
    ASSUME Typed, LocksHeld, Starts, Next, Up', ~Up
    PROVE  Swapped
  <1>1. FinishLoad
    <2>1. task[Startup] \in Task
      BY Constants DEF Typed
    <2>2. task'[Startup] # task[Startup]
      BY DEF Up
    <2>3. Boot \/ Restart
      BY <2>2, Frames, AdminAlone DEF TaskStep
    <2>4. ~Restart
      BY RestartMoves DEF Up
    <2>5. QED
      BY <2>1, <2>3, <2>4, BootMoves DEF Moves, Task, Up
  <1>2. ~BootStep("loading", "down")
    BY <1>1, Constants DEF BootStep, GoTo, At, Up, Typed, Task
  <1>3. PublishRefresh(Startup)
    BY <1>1, <1>2 DEF FinishLoad
  <1>4. QED
    BY <1>3 DEF PublishRefresh, Swapped, Refreshing, Unlock

LEMMA DefaultedNext ==
    ASSUME Typed, LocksHeld, Starts, Matched, Editing, Defaulted, Next
    PROVE  Defaulted'
  <1>1. ASSUME Up'
        PROVE  matchAt'[GlobalScope] # 0
    <2>1. CASE UNCHANGED snapshotVars /\ Up
      BY <2>1 DEF snapshotVars, Defaulted
    <2>2. CASE Swapped
      BY <2>2 DEF Swapped
    <2>3. ASSUME NEW a \in Admins, Activated(a), Up
          PROVE  matchAt'[GlobalScope] # 0
      <3>1. task[a].version \in VersionIDs /\ task[a].version # 0 /\ matchAt[GlobalScope] # 0
        BY <2>3 DEF Activated, At, Editing, RowOf, VersionIDs, Defaulted
      <3>2. matchAt' = [matchAt EXCEPT ![task[a].scope] = task[a].version]
        BY <2>3 DEF Activated, Activate
      <3>3. QED
        BY <3>1, <3>2, Constants DEF Matched
    <2>4. ASSUME NEW a \in Admins, Unmatched(a), Up
          PROVE  matchAt'[GlobalScope] # 0
      <3>1. task[a].scope # GlobalScope /\ matchAt[GlobalScope] # 0
        BY <2>4 DEF Unmatched, At, Defaulted
      <3>2. matchAt' = [matchAt EXCEPT ![task[a].scope] = 0]
        BY <2>4 DEF Unmatched, Unmatch
      <3>3. QED
        BY <3>1, <3>2, Constants DEF Matched
    <2>5. CASE Ensured
      <3>1. NewID # 0 /\ matchAt' = [matchAt EXCEPT ![GlobalScope] = NewID]
        BY <2>5, FreeID DEF Ensured, Activate, VersionIDs
      <3>2. QED
        BY <3>1, Constants DEF Matched
    <2>6. CASE Restart
      BY <1>1, <2>6, RestartMoves DEF Up
    <2>7. QED
      BY <1>1, <2>1, <2>2, <2>3, <2>4, <2>5, <2>6, SnapshotCases, UpCases
  <1>2. ASSUME NEW a \in Admins, task'[a].pc \in {"deactivate", "unmatch"}
        PROVE  task'[a].scope # GlobalScope
    <2>1. ASSUME NEW v \in VersionIDs, StartDeactivate(a, v), task'[a].scope = versions[v].scope
          PROVE  task'[a].scope # GlobalScope
      BY <2>1 DEF StartDeactivate
    <2>2. QED
      BY <1>2, <2>1, Editors DEF Defaulted
  <1>3. QED
    BY <1>1, <1>2 DEF Defaulted

LEMMA MappedNext ==
    ASSUME Typed, Matched, Editing, Mapped, Next
    PROVE  Mapped'
  <1>1. ASSUME NEW s \in Scopes, matchAt'[s] # 0
        PROVE  matchAt'[s] \in byVersionID'
    <2>1. CASE UNCHANGED snapshotVars
      BY <1>1, <2>1 DEF snapshotVars, Mapped
    <2>2. CASE Swapped
      BY <1>1, <2>2 DEF Swapped, Mapped
    <2>3. ASSUME NEW t \in Scopes, NEW v \in VersionIDs, NEW compiled, Activate(v, t, compiled)
          PROVE  matchAt'[s] \in byVersionID'
      <3>1. CASE s = t
        BY <2>3, <3>1 DEF Activate, Matched
      <3>2. CASE s # t
        <4>1. matchAt'[s] = matchAt[s] /\ matchAt[s] \in byVersionID
          BY <1>1, <2>3, <3>2 DEF Activate, Matched, Mapped
        <4>2. matchAt[s] # matchAt[t]
          BY <1>1, <3>2, <4>1 DEF Matched, RowOf
        <4>3. QED
          BY <2>3, <4>1, <4>2 DEF Activate
      <3>3. QED
        BY <3>1, <3>2
    <2>4. ASSUME NEW a \in Admins, Activated(a)
          PROVE  matchAt'[s] \in byVersionID'
      <3>1. task[a].scope \in Scopes /\ task[a].version \in VersionIDs
        BY <2>4, Constants DEF Activated, At, Editing, RowOf, Typed, Task
      <3>2. QED
        BY <2>3, <2>4, <3>1 DEF Activated
    <2>5. ASSUME NEW a \in Admins, Unmatched(a)
          PROVE  matchAt'[s] \in byVersionID'
      <3>1. task[a].scope \in Scopes /\ RowOf(task[a].scope, task[a].version)
        BY <2>5, Constants DEF Unmatched, At, Editing, Typed, Task
      <3>2. s # task[a].scope /\ matchAt'[s] = matchAt[s]
        BY <1>1, <2>5, <3>1 DEF Unmatched, Unmatch, Matched
      <3>3. matchAt[s] \in byVersionID /\ matchAt[s] # task[a].version
        BY <1>1, <3>1, <3>2 DEF Mapped, Matched, RowOf
      <3>4. QED
        BY <2>5, <3>2, <3>3 DEF Unmatched, Unmatch
    <2>6. CASE Ensured
      BY <2>3, <2>6, FreeID, Constants DEF Ensured
    <2>7. CASE Restart
      BY <1>1, <2>7, EmptyAt DEF Restart
    <2>8. QED
      BY <2>1, <2>2, <2>4, <2>5, <2>6, <2>7, SnapshotCases
  <1>2. ASSUME NEW s \in Scopes, next'.at[s] # 0
        PROVE  next'.at[s] \in next'.ids
    <2>1. CASE BuildDropped
      BY <1>2, <2>1, EmptyAt DEF BuildDropped
    <2>2. CASE UNCHANGED next
      BY <1>2, <2>2 DEF Mapped
    <2>3. CASE CompileRow
      <3>1. PICK v \in pending : /\ next'.at = [next.at EXCEPT ![versions[v].scope] = v]
                                 /\ next'.ids = next.ids \cup {v}
        <4>1. PICK p \in Tasks \cup Loops : CompileNext(p)
          BY <2>3 DEF CompileRow
        <4>2. Max(pending) \in pending
          BY <4>1, NewestPending DEF CompileNext, Typed
        <4>3. QED
          BY <4>1, <4>2 DEF CompileNext
      <3>2. CASE s = versions[v].scope
        BY <3>1, <3>2 DEF Matched
      <3>3. CASE s # versions[v].scope
        BY <1>2, <3>1, <3>3 DEF Matched, Mapped
      <3>4. QED
        BY <3>2, <3>3
    <2>4. QED
      BY <2>1, <2>2, <2>3, Frames, BuildCases DEF buildVars
  <1>3. QED
    BY <1>1, <1>2 DEF Mapped

LEMMA GuardedNext ==
    ASSUME Typed, LocksHeld, Starts, Used, Candidate, Guarded, Next
    PROVE  Guarded'
  <1>1. ASSUME NEW v \in byVersionID \cup next.ids
        PROVE  versions'[v].refs = versions[v].refs /\ v \in VersionIDs
    <2>1. v \in VersionIDs /\ versions[v].state # "unused"
      BY DEF Typed, SnapshotTyped, BuildTyped, Used
    <2>2. QED
      BY <2>1, RefsKept DEF TableKept, RowKept
  <1>2. ASSUME NEW v \in byVersionID', NEW g \in versions'[v].refs
        PROVE  pipeline'[v][g] # 0
    <2>1. ASSUME v \in byVersionID, pipeline'[v] = pipeline[v]
          PROVE  pipeline'[v][g] # 0
      BY <1>1, <1>2, <2>1 DEF Guarded
    <2>2. CASE UNCHANGED snapshotVars
      BY <1>2, <2>1, <2>2 DEF snapshotVars
    <2>3. CASE Swapped
      BY <1>1, <1>2, <2>3 DEF Swapped, Guarded
    <2>4. ASSUME NEW w \in VersionIDs, NEW s, NEW compiled, Activate(w, s, compiled),
                 \A h \in versions'[w].refs : compiled[h] # 0
          PROVE  pipeline'[v][g] # 0
      <3>1. v \in VersionIDs /\ (v = w \/ (v \in byVersionID /\ v # matchAt[s]))
        BY <1>1, <1>2, <2>4 DEF Activate
      <3>2. CASE v = w
        BY <1>2, <2>4, <3>1, <3>2 DEF Activate
      <3>3. CASE v # w
        BY <2>1, <2>4, <3>1, <3>3 DEF Activate
      <3>4. QED
        BY <3>2, <3>3
    <2>5. ASSUME NEW a \in Admins, Activated(a)
          PROVE  pipeline'[v][g] # 0
      <3>1. /\ task[a].version \in VersionIDs
            /\ versions'[task[a].version].refs = task[a].names
            /\ \A h \in task[a].names : task[a].compiled[h] # 0
        BY <2>5 DEF Activated, At, Candidate, Guarded
      <3>2. QED
        BY <2>4, <2>5, <3>1 DEF Activated
    <2>6. ASSUME NEW a \in Admins, Unmatched(a)
          PROVE  pipeline'[v][g] # 0
      <3>1. v \in byVersionID /\ v # task[a].version
        BY <1>2, <2>6 DEF Unmatched, Unmatch
      <3>2. pipeline'[v] = pipeline[v]
        BY <1>1, <2>6, <3>1 DEF Unmatched, Unmatch, Typed, SnapshotTyped
      <3>3. QED
        BY <2>1, <3>1, <3>2
    <2>7. CASE Ensured
      <3>1. NewID \in VersionIDs /\ versions'[NewID].refs = ConfigRules
        BY <2>7, FreeID, InsertedKeeps, Constants DEF Ensured
      <3>2. \A h \in ConfigRules : task[Startup].compiled[h] # 0
        BY <2>7 DEF Ensured, Guarded
      <3>3. QED
        BY <2>4, <2>7, <3>1, <3>2 DEF Ensured
    <2>8. CASE Restart
      BY <1>2, <2>8 DEF Restart
    <2>9. QED
      BY <2>2, <2>3, <2>5, <2>6, <2>7, <2>8, SnapshotCases
  <1>3. ASSUME NEW v \in next'.ids, NEW g \in versions'[v].refs
        PROVE  next'.pipeline[v][g] # 0
    <2>1. CASE UNCHANGED next
      BY <1>1, <1>3, <2>1 DEF Guarded
    <2>2. CASE BuildDropped
      BY <1>3, <2>2, EmptyBuild DEF BuildDropped
    <2>3. CASE CompileRow
      <3>1. PICK u \in pending :
               /\ next'.ids = next.ids \cup {u}
               /\ next'.pipeline = [next.pipeline EXCEPT ![u] = BuildPipeline(versions[u].refs)]
               /\ CanBuild(versions[u].refs)
        BY <2>3, CompileFacts
      <3>2. u \in VersionIDs /\ versions[u].refs \in SUBSET Guardrails /\ versions' = versions
        BY <2>3, CompileAt, Numbers DEF Typed, BuildTyped
      <3>3. CASE v = u
        <4>1. next'.pipeline[v] = BuildPipeline(versions[u].refs)
          BY <3>1, <3>2, <3>3 DEF Typed, BuildTyped
        <4>2. QED
          BY <1>3, <3>1, <3>2, <3>3, <4>1, BuiltPipeline
      <3>4. CASE v # u
        <4>1. v \in next.ids /\ next'.pipeline[v] = next.pipeline[v]
          BY <1>1, <1>3, <3>1, <3>2, <3>4 DEF Typed, BuildTyped
        <4>2. QED
          BY <1>1, <1>3, <4>1 DEF Guarded
      <3>5. QED
        BY <3>3, <3>4
    <2>4. QED
      BY <2>1, <2>2, <2>3, Frames, BuildCases DEF buildVars
  <1>4. ASSUME NEW a \in Admins, task'[a].pc \in {"create", "activate"},
               NEW g \in task'[a].names
        PROVE  task'[a].compiled[g] # 0
    <2>1. ASSUME NEW s \in Scopes, NEW refs \in RefSets, StartCreate(a, s, refs),
                 task'[a].names = refs, task'[a].compiled = BuildPipeline(refs)
          PROVE  task'[a].compiled[g] # 0
      <3>1. CanBuild(refs) /\ refs \in SUBSET Guardrails
        BY <2>1, WorkflowAssumption DEF StartCreate
      <3>2. QED
        BY <1>4, <2>1, <3>1, BuiltPipeline
    <2>2. QED
      BY <1>4, <2>1, Creators DEF Guarded
  <1>5. ASSUME At(Startup, "ensure")', NEW g \in ConfigRules
        PROVE  task'[Startup].compiled[g] # 0
    <2>1. task[Startup] \in Task
      BY Constants DEF Typed
    <2>2. CASE task'[Startup] = task[Startup]
      BY <1>5, <2>2 DEF Guarded, At
    <2>3. CASE CompileDefault
      <3>1. task' = [task EXCEPT
                  ![Startup].pc = IF CanBuild(ConfigRules) THEN "ensure" ELSE "down",
                  ![Startup].compiled = BuildPipeline(ConfigRules)]
        BY <2>3 DEF CompileDefault
      <3>2. /\ task'[Startup].pc = IF CanBuild(ConfigRules) THEN "ensure" ELSE "down"
            /\ task'[Startup].compiled = BuildPipeline(ConfigRules)
        BY <2>1, <2>3, <3>1, Constants DEF Typed, Task
      <3>3. CanBuild(ConfigRules)
        BY <1>5, <3>2 DEF At
      <3>4. QED
        BY <3>2, <3>3, BuiltPipeline, Constants
    <2>4. CASE Boot /\ ~CompileDefault
      BY <1>5, <2>1, <2>4, BootMoves DEF Moves, Task, At
    <2>5. CASE Restart
      BY <1>5, <2>5, RestartMoves DEF At
    <2>6. QED
      BY <2>2, <2>3, <2>4, <2>5, Frames, AdminAlone DEF TaskStep
  <1>6. QED
    BY <1>2, <1>3, <1>4, <1>5 DEF Guarded, At

(* A version that stays active is not dropped from the snapshot. *)
LEMMA HeldKept ==
    ASSUME Typed, Used, Matched, Editing, Kept, Next, ~Restart,
           NEW v \in byVersionID, v \in Active'
    PROVE  v \in byVersionID'
  <1>1. v \in VersionIDs /\ versions[v].state # "unused"
    BY DEF Typed, SnapshotTyped, Used
  <1>2. v \in Active
    BY <1>1, ActiveKept
  <1>3. CASE UNCHANGED snapshotVars
    BY <1>3 DEF snapshotVars
  <1>4. CASE Swapped
    BY <1>2, <1>4 DEF Swapped, Kept
  <1>5. ASSUME NEW a \in Admins, Activated(a)
        PROVE  v \in byVersionID'
    <2>1. v # matchAt[task[a].scope]
      BY <1>2, <1>5 DEF Activated, Kept
    <2>2. QED
      BY <1>5, <2>1 DEF Activated, Activate
  <1>6. ASSUME NEW a \in Admins, Unmatched(a)
        PROVE  v \in byVersionID'
    <2>1. v # task[a].version
      BY <1>2, <1>6 DEF Unmatched, Editing, At
    <2>2. QED
      BY <1>6, <2>1 DEF Unmatched, Unmatch
  <1>7. CASE Ensured
    <2>1. v # NewID
      BY <1>1, <1>7, FreeID DEF Ensured
    <2>2. versions'[v].state = "active"
      BY DEF Active
    <2>3. versions[v].scope # GlobalScope
      BY <1>1, <1>7, <2>1, <2>2, InsertedKeeps, Constants DEF Ensured
    <2>4. v # matchAt[GlobalScope]
      BY <1>1, <2>3, Constants DEF Matched, RowOf, VersionIDs
    <2>5. QED
      BY <1>7, <2>4 DEF Ensured, Activate
  <1>8. QED
    BY <1>3, <1>4, <1>5, <1>6, <1>7, SnapshotCases

LEMMA RequestCases ==
    ASSUME Next
    PROVE  \/ UNCHANGED request
           \/ /\ \E r \in Requests : RequestStep(r)
              /\ UNCHANGED <<versions, matchAt, byVersionID>>
           \/ Restart
  <1>1. ASSUME NEW a \in Admins, StartAdmin(a) \/ AdminStep(a)
        PROVE  UNCHANGED request
    BY <1>1 DEF StartAdmin, StartUpsert, StartDelete, StartCreate, StartDeactivate, Begin,
       AdminStep, WriteUpsert, BuildDelete, RemoveGuardrail, GuardrailWriteFails,
       PublishDefinitions, StartRefresh, RefreshRefused, AckGuardrail, InsertVersion,
       ActivateVersion, WriteDeactivate, UnmatchVersion, WorkflowWriteFails, Continue, Answer
  <1>2. CASE LoadGuardrails \/ SwapGuardrails \/ ListWorkflows \/ CompileRow \/ SwapWorkflows
    BY <1>2 DEF LoadGuardrails, SwapGuardrails, ListWorkflows, CompileRow, SwapWorkflows
  <1>3. CASE Boot
    BY <1>3 DEF Boot, Seed, WriteSeed, PublishSeed, CompileDefault, EnsureDefault, Load,
       FinishLoad, BootStep
  <1>4. CASE UnseenWrite
    BY <1>4 DEF UnseenWrite
  <1>5. ASSUME NEW r \in Requests, RequestStep(r)
        PROVE  UNCHANGED <<versions, matchAt, byVersionID>>
    BY <1>5 DEF RequestStep, MatchWorkflow, PatchRequest, workflowVars, snapshotVars
  <1>6. QED
    BY <1>1, <1>2, <1>3, <1>4, <1>5 DEF Next

(* What a request matches is a row of the table that the snapshot holds. *)
LEMMA MatchFound ==
    ASSUME Matched, Mapped, Defaulted, Up, NEW sel \in Selectors
    PROVE  /\ Match(sel) \in VersionIDs /\ versions[Match(sel)].state # "unused"
           /\ Match(sel) \in byVersionID
  <1>1. Selector(sel) /\ CandidatesOf[sel] = Candidates(sel)
    BY SelectorTyped
  <1>2. GlobalScope \in Loaded
    BY Constants DEF Loaded, Defaulted
  <1>3. MatchedScope(Loaded, Candidates(sel)) \in Loaded
    BY <1>1, <1>2, MatchedFirst
  <1>4. PICK s \in Loaded : s = MatchedScope(Loaded, CandidatesOf[sel])
    BY <1>1, <1>3
  <1>5. s \in Scopes /\ matchAt[s] # 0 /\ Match(sel) = matchAt[s]
    BY <1>4 DEF Loaded, Match
  <1>6. QED
    BY <1>5 DEF Matched, Mapped, RowOf

(* Nobody publishes while a refresh or an edit goes on. *)
LEMMA SnapshotWaits ==
    ASSUME Next, wHolder' # Nobody
    PROVE  UNCHANGED snapshotVars
  BY SnapshotCases

LEMMA RefreshHolds ==
    ASSUME LocksHeld', Refreshing'
    PROVE  wHolder' # Nobody
  <1>1. ASSUME NEW a \in Admins, At(a, "refreshing")'
        PROVE  wHolder' = a /\ a # Nobody
    BY <1>1, Constants DEF LocksHeld, At
  <1>2. QED
    BY <1>1, Constants DEF Refreshing

LEMMA KeptNext ==
    ASSUME IInv, OInv, Defaulted, Mapped, Kept, Next
    PROVE  Kept'
  <1> USE DEF IInv, OInv
  <1>1. LocksHeld'
    BY LocksNext
  <1>2. ASSUME UNCHANGED request, ~Restart
        PROVE  \A r \in Requests : request'[r] # NoRequest =>
                   /\ versions'[request'[r]].state # "unused"
                   /\ request'[r] \in Active' => request'[r] \in byVersionID'
    <2> SUFFICES ASSUME NEW r \in Requests, request[r] # NoRequest
                 PROVE  /\ versions'[request[r]].state # "unused"
                        /\ request[r] \in Active' => request[r] \in byVersionID'
      BY <1>2
    <2> DEFINE v == request[r]
    <2>1. v \in VersionIDs /\ versions[v].state # "unused"
      BY DEF Kept
    <2>2. versions'[v].state # "unused"
      BY <2>1, RefsKept DEF TableKept, RowKept
    <2>3. ASSUME v \in Active'
          PROVE  v \in byVersionID'
      <3>1. v \in Active
        BY <2>1, <2>3, ActiveKept
      <3>2. v \in byVersionID
        BY <3>1 DEF Kept
      <3>3. QED
        BY <1>2, <2>3, <3>2, HeldKept
    <2>4. QED
      BY <2>2, <2>3
  <1>3. ASSUME NEW q \in Requests, RequestStep(q), UNCHANGED <<versions, matchAt, byVersionID>>
        PROVE  /\ request' \in [Requests -> {NoRequest} \cup VersionIDs]
               /\ \A r \in Requests : request'[r] # NoRequest =>
                   /\ versions'[request'[r]].state # "unused"
                   /\ request'[r] \in Active' => request'[r] \in byVersionID'
    <2>1. Active' = Active
      BY <1>3 DEF Active
    <2>2. ASSUME NEW sel \in Selectors, MatchWorkflow(q, sel)
          PROVE  /\ request' \in [Requests -> {NoRequest} \cup VersionIDs]
                 /\ \A r \in Requests : request'[r] # NoRequest =>
                     /\ versions'[request'[r]].state # "unused"
                     /\ request'[r] \in Active' => request'[r] \in byVersionID'
      <3>1. /\ Match(sel) \in VersionIDs /\ versions[Match(sel)].state # "unused"
            /\ Match(sel) \in byVersionID
        BY <2>2, MatchFound DEF MatchWorkflow
      <3>2. PICK v \in VersionIDs : v = Match(sel)
        BY <3>1
      <3>3. request' = [request EXCEPT ![q] = v]
        BY <2>2, <3>2 DEF MatchWorkflow
      <3>4. QED
        BY <1>3, <2>1, <3>1, <3>2, <3>3 DEF Kept
    <2>3. CASE PatchRequest(q)
      <3>1. request' = [request EXCEPT ![q] = NoRequest]
        BY <2>3 DEF PatchRequest
      <3>2. QED
        BY <1>3, <2>1, <3>1 DEF Kept
    <2>4. QED
      BY <1>3, <2>2, <2>3 DEF RequestStep
  <1>4. /\ request' \in [Requests -> {NoRequest} \cup VersionIDs]
        /\ \A r \in Requests : request'[r] # NoRequest =>
             /\ versions'[request'[r]].state # "unused"
             /\ request'[r] \in Active' => request'[r] \in byVersionID'
    <2>1. CASE Restart
      BY <2>1 DEF Restart
    <2>2. QED
      BY <1>2, <1>3, <2>1, RequestCases DEF Kept
  <1>5. ASSUME Refreshing', NEW v \in byVersionID' \cap Active'
        PROVE  v \in pending' \cup next'.ids
    <2>1. byVersionID' = byVersionID
      BY <1>1, <1>5, RefreshHolds, SnapshotWaits DEF snapshotVars
    <2>2. v \in VersionIDs /\ versions[v].state # "unused"
      BY <2>1 DEF Typed, SnapshotTyped, Used
    <2>3. v \in Active
      BY <2>2, ActiveKept
    <2>4. CASE CompileRow /\ Refreshing
      BY <2>1, <2>3, <2>4, CompileFacts DEF Kept
    <2>5. QED
      BY <1>5, <2>1, <2>3, <2>4, RefreshCases DEF Kept
  <1>6. ASSUME NEW a \in Admins, At(a, "activate")', matchAt'[task'[a].scope] \in Active'
        PROVE  FALSE
    <2>1. wHolder' = a /\ a # Nobody
      BY <1>1, <1>6, Constants DEF LocksHeld, At
    <2>2. matchAt' = matchAt
      BY <2>1, SnapshotWaits DEF snapshotVars
    <2>3. CASE task'[a].scope = task[a].scope
      <3>1. PICK s \in Scopes : s = task[a].scope
        BY Constants DEF Typed, Task
      <3>2. PICK v \in VersionIDs : v = matchAt[s] /\ v \in Active'
        BY <1>6, <2>2, <2>3, <3>1 DEF Active
      <3>3. v # 0 /\ RowOf(s, v)
        BY <3>1, <3>2 DEF Matched, VersionIDs
      <3>4. v \in Active
        BY <3>2, <3>3, ActiveKept DEF RowOf
      <3>5. CASE task'[a] = task[a]
        BY <1>6, <3>1, <3>2, <3>4, <3>5 DEF Kept, At
      <3>6. CASE InsertVersion(a)
        <4>1. HasRoom /\ versions' = Inserted(s, task[a].names, FALSE)
          BY <3>1, <3>6 DEF InsertVersion
        <4>2. v # NewID /\ task[a].names \in SUBSET Guardrails
          BY <3>3, <4>1, FreeID, Constants DEF RowOf, Typed, Task
        <4>3. versions'[v].state = "active"
          BY <3>2 DEF Active
        <4>4. versions[v].scope # s
          BY <3>1, <3>2, <4>1, <4>2, <4>3, InsertedKeeps
        <4>5. QED
          BY <3>3, <4>4 DEF RowOf
      <3>7. QED
        BY <1>6, <3>5, <3>6, Editors DEF At
    <2>4. QED
      BY <1>6, <2>3, Editors DEF At
  <1>7. QED
    BY <1>4, <1>5, <1>6 DEF Kept

LEMMA UInvInit == Init => UInv
  <1> SUFFICES ASSUME Init PROVE UInv
    OBVIOUS
  <1>1. /\ task[Startup].pc = "seed" /\ \A a \in Admins : task[a].pc = "idle"
    BY Constants DEF Init, NoTask
  <1>2. /\ byVersionID = {} /\ next.ids = {} /\ wHolder = Nobody
        /\ \A s \in Scopes : matchAt[s] = 0 /\ next.at[s] = 0
        /\ request = [r \in Requests |-> NoRequest]
    BY EmptyBuild, EmptyAt DEF Init
  <1>3. Defaulted /\ Mapped
    BY <1>1, <1>2 DEF Defaulted, Mapped, Up
  <1>4. Guarded
    BY <1>1, <1>2 DEF Guarded, At
  <1>5. Kept
    BY <1>1, <1>2 DEF Kept, At
  <1>6. QED
    BY <1>3, <1>4, <1>5 DEF UInv

LEMMA UInvNext == IInv /\ OInv /\ UInv /\ [Next]_vars => UInv'
  <1> SUFFICES ASSUME IInv, OInv, UInv, [Next]_vars PROVE UInv'
    OBVIOUS
  <1>1. CASE Next
    BY <1>1, DefaultedNext, MappedNext, GuardedNext, KeptNext DEF IInv, OInv, UInv
  <1>2. CASE UNCHANGED vars
    <2>1. /\ UNCHANGED <<versions, matchAt, byVersionID, pipeline, wHolder, pending, next>>
          /\ UNCHANGED <<task, request>>
      BY <1>2 DEF vars, workflowVars, snapshotVars, buildVars
    <2>2. Defaulted' /\ Mapped' /\ Guarded'
      BY <2>1 DEF UInv, Defaulted, Mapped, Guarded, Up, At
    <2>3. (Active' = Active) /\ (Refreshing' <=> Refreshing)
      BY <2>1 DEF Active, Refreshing, At
    <2>4. Kept'
      BY <2>1, <2>3 DEF UInv, Kept, At
    <2>5. QED
      BY <2>2, <2>4 DEF UInv
  <1>3. QED
    BY <1>1, <1>2

LEMMA Owned == Spec => []OInv
  BY OInvInit, OInvNext, Safety, PTL DEF Spec

LEMMA Uninterrupted == Spec => []UInv
  BY UInvInit, UInvNext, Safety, Owned, PTL DEF Spec

(* A request whose workflow names a guardrail runs without it only if that *)
(* version was retired since: no refresh, activation or deactivation drops *)
(* a version that is active, and no pipeline that is held lacks a          *)
(* guardrail of its version.                                               *)
THEOREM GuardedUnlessRetired == Spec => []UnguardedOnlyIfRetired
  <1>1. ASSUME IInv, UInv
        PROVE  UnguardedOnlyIfRetired
    <2> SUFFICES ASSUME NEW r \in Requests, request[r] \in Active,
                        NEW g \in versions[request[r]].refs
                 PROVE  Applied(r)[g] # 0
      BY DEF UnguardedOnlyIfRetired
    <2>1. request[r] # NoRequest
      BY DEF Active, VersionIDs, NoRequest
    <2>2. request[r] \in byVersionID
      BY <1>1, <2>1 DEF UInv, Kept
    <2>3. pipeline[request[r]][g] # 0
      BY <1>1, <2>2 DEF UInv, Guarded
    <2>4. QED
      BY <2>2, <2>3 DEF Applied, PipelineForWorkflow
  <1>2. QED
    BY <1>1, Safety, Uninterrupted, PTL

(* Requests are only served while the global scope has a workflow, and     *)
(* what matchCompiled finds first covers the request and is the most       *)
(* specific one that does: for paths of any length, and every set of       *)
(* scopes that have a workflow.                                            *)
THEOREM SpecificServed == Spec => []MostSpecificMatched
  <1>1. UInv => MostSpecificMatched
    BY MostSpecific, Constants DEF UInv, Defaulted, MostSpecificMatched, Loaded
  <1>2. QED
    BY <1>1, Uninterrupted, PTL

-----------------------------------------------------------------------------
(* Types, once more: with the variables no other invariant needs.          *)

Shaped ==
    /\ versions \in [VersionIDs -> Row]
    /\ next = [at |-> next.at, ids |-> next.ids, pipeline |-> next.pipeline]
    /\ gHolder \in Tasks \cup Loops \cup {Nobody}
    /\ wHolder \in Tasks \cup Loops \cup {Nobody}
    /\ mutationMu \in Admins \cup {Nobody}
    /\ unseen \in 0 .. MaxUnseen
    /\ \A a \in Admins : At(a, "create") => task[a].names \in RefSets

LEMMA RowsNext ==
    ASSUME Shaped, Typed, Next
    PROVE  versions' \in [VersionIDs -> Row]
  <1>1. ASSUME NEW s \in Scopes, NEW refs \in RefSets, NEW m \in BOOLEAN,
               versions' = Inserted(s, refs, m)
        PROVE  versions' \in [VersionIDs -> Row]
    <2>1. \A v \in VersionIDs : versions[v] \in Row
      BY DEF Shaped
    <2> DEFINE new == [state |-> "active", scope |-> s, refs |-> refs, managed |-> m]
               old(v) == [versions[v] EXCEPT !.state = "inactive"]
    <2>2. new \in Row /\ \A v \in VersionIDs : old(v) \in Row
      BY <2>1 DEF Row
    <2>3. versions' = [v \in VersionIDs |->
                          IF v = NewID THEN new
                          ELSE IF v \in Active /\ versions[v].scope = s
                               THEN old(v) ELSE versions[v]]
      BY <1>1 DEF Inserted
    <2> HIDE DEF new, old
    <2>4. QED
      BY <2>1, <2>2, <2>3
  <1>2. ASSUME NEW v \in VersionIDs, versions' = Deactivated(v)
        PROVE  versions' \in [VersionIDs -> Row]
    <2>1. [versions[v] EXCEPT !.state = "inactive"] \in Row
      BY DEF Shaped, Row
    <2>2. versions' = [versions EXCEPT ![v] = [versions[v] EXCEPT !.state = "inactive"]]
      BY <1>2 DEF Deactivated
    <2>3. QED
      BY <2>1, <2>2 DEF Shaped
  <1>3. ASSUME NEW a \in Admins, InsertVersion(a)
        PROVE  versions' \in [VersionIDs -> Row]
    <2>1. task[a].names \in RefSets /\ task[a].scope \in Scopes
      BY <1>3, Constants DEF InsertVersion, Shaped, Typed, Task
    <2>2. QED
      BY <1>1, <1>3, <2>1 DEF InsertVersion
  <1>4. ASSUME NEW a \in Admins, WriteDeactivate(a)
        PROVE  versions' \in [VersionIDs -> Row]
    BY <1>2, <1>4 DEF WriteDeactivate, Active
  <1>5. CASE EnsureDefault
    BY <1>1, <1>5, PolicyAssumption, WorkflowAssumption DEF EnsureDefault, Shaped
  <1>6. CASE UnseenWrite
    BY <1>1, <1>2, <1>6 DEF UnseenWrite, OtherUpsert, OtherDelete, OtherCreate,
       OtherDeactivate, Shaped
  <1>7. QED
    BY <1>3, <1>4, <1>5, <1>6, Frames DEF TableStep, Shaped

LEMMA HoldersNext ==
    ASSUME Shaped, Next
    PROVE  /\ gHolder' \in Tasks \cup Loops \cup {Nobody}
           /\ wHolder' \in Tasks \cup Loops \cup {Nobody}
  <1>1. /\ Startup \in Tasks /\ \A a \in Admins : a \in Tasks
        /\ "guardrails-loop" \in Loops /\ "workflows-loop" \in Loops
    BY Constants DEF Loops
  <1>2. ASSUME GuardrailStep
        PROVE  gHolder' \in Tasks \cup Loops \cup {Nobody}
    <2>1. ASSUME NEW a \in Admins, \/ \E g \in Guardrails : StartUpsert(a, g)
                                   \/ WriteUpsert(a) \/ BuildDelete(a) \/ RemoveGuardrail(a)
                                   \/ GuardrailWriteFails(a) \/ PublishDefinitions(a)
          PROVE  gHolder' \in Tasks \cup Loops \cup {Nobody}
      BY <1>1, <2>1 DEF Shaped, StartUpsert, WriteUpsert, BuildDelete, RemoveGuardrail,
         GuardrailWriteFails, PublishDefinitions, BuildSnapshot, WriteDefinitions,
         RemoveDefinition, AbandonGuardrails, PublishGuardrails
    <2>2. CASE LoadGuardrails \/ SwapGuardrails \/ Seed \/ WriteSeed \/ PublishSeed
               \/ Restart \/ UnseenWrite
      BY <1>1, <2>2 DEF Shaped, LoadGuardrails, SwapGuardrails, Seed, WriteSeed,
         PublishSeed, Restart, UnseenWrite, BuildSnapshot, WriteDefinitions, PublishGuardrails
    <2>3. QED
      BY <1>2, <2>1, <2>2 DEF GuardrailStep
  <1>3. ASSUME BuildStep
        PROVE  wHolder' \in Tasks \cup Loops \cup {Nobody}
    <2>1. ASSUME NEW a \in Admins, \/ StartRefresh(a) \/ RefreshRefused(a) \/ AckGuardrail(a)
                                   \/ InsertVersion(a) \/ ActivateVersion(a)
                                   \/ WriteDeactivate(a) \/ UnmatchVersion(a)
          PROVE  wHolder' \in Tasks \cup Loops \cup {Nobody}
      BY <1>1, <2>1 DEF Shaped, StartRefresh, RefreshRefused, AckGuardrail, InsertVersion,
         ActivateVersion, WriteDeactivate, UnmatchVersion, ListActive, RefreshFails,
         PublishRefresh, Unlock, workflowVars, buildVars
    <2>2. CASE ListWorkflows \/ CompileRow \/ SwapWorkflows \/ Load \/ FinishLoad \/ Restart
      BY <1>1, <2>2 DEF Shaped, ListWorkflows, CompileRow, CompileNext, SwapWorkflows, Load,
         FinishLoad, Restart, ListActive, RefreshFails, PublishRefresh, Unlock
    <2>3. QED
      BY <1>3, <2>1, <2>2 DEF BuildStep
  <1>4. QED
    BY <1>2, <1>3, Frames DEF guardVars, buildVars, Shaped

LEMMA ShapedNext ==
    ASSUME IInv, Shaped, Next
    PROVE  Shaped'
  <1> USE DEF IInv
  <1>1. next' = [at |-> next'.at, ids |-> next'.ids, pipeline |-> next'.pipeline]
    <2>1. CASE BuildDropped
      BY <2>1 DEF BuildDropped, EmptySnapshot
    <2>2. CASE CompileRow
      BY <2>2 DEF CompileRow, CompileNext
    <2>3. CASE UNCHANGED next
      BY <2>3 DEF Shaped
    <2>4. QED
      BY <2>1, <2>2, <2>3, Frames, BuildCases DEF buildVars
  <1>2. mutationMu' \in Admins \cup {Nobody}
    <2>1. ASSUME NEW a \in Admins, StartAdmin(a) \/ AdminStep(a)
          PROVE  mutationMu' \in Admins \cup {Nobody}
      BY <2>1, AdminAlone DEF AdminMoves
    <2>2. CASE Boot \/ Restart
      BY <2>2, BootMoves DEF Restart, Shaped
    <2>3. QED
      BY <2>1, <2>2, Frames DEF TaskStep, Shaped
  <1>3. unseen' \in 0 .. MaxUnseen
    BY Frames, PolicyAssumption DEF UnseenWrite, Shaped
  <1>4. ASSUME NEW a \in Admins, task'[a].pc = "create"
        PROVE  task'[a].names \in RefSets
    <2>1. CASE task'[a] = task[a]
      BY <1>4, <2>1 DEF Shaped, At
    <2>2. CASE InsertVersion(a)
      <3>1. AdminStep(a)
        BY <2>2 DEF AdminStep
      <3>2. QED
        BY <1>4, <3>1, StepResults
    <2>3. QED
      BY <1>4, <2>1, <2>2, Creators
  <1>5. QED
    BY <1>1, <1>2, <1>3, <1>4, RowsNext, HoldersNext DEF Shaped, At

LEMMA ShapedInit == Init => Shaped
  <1> SUFFICES ASSUME Init PROVE Shaped
    OBVIOUS
  <1>1. versions \in [VersionIDs -> Row]
    <2> DEFINE row == [state |-> "unused", scope |-> GlobalScope, refs |-> ConfigRules,
                       managed |-> FALSE]
    <2>1. row \in Row
      BY Constants, PolicyAssumption DEF Row
    <2>2. versions \in [VersionIDs -> {row}]
      BY DEF Init
    <2> HIDE DEF row
    <2>3. QED
      BY <2>1, <2>2
  <1>2. \A a \in Admins : task[a].pc = "idle"
    BY Constants DEF Init, NoTask
  <1>3. next = [at |-> next.at, ids |-> next.ids, pipeline |-> next.pipeline]
    BY DEF Init, EmptySnapshot
  <1>4. QED
    BY <1>1, <1>2, <1>3, PolicyAssumption DEF Shaped, Init, At

(* Types, and that exactly the tasks in the code's critical sections hold  *)
(* mutationMu and the two refreshMu.                                       *)
THEOREM TypeCorrect == Spec => []TypeOK
  <1>1. ASSUME IInv, Shaped, [Next]_vars
        PROVE  Shaped'
    <2>1. CASE UNCHANGED vars
      <3>1. /\ UNCHANGED <<gHolder, versions, wHolder, next, mutationMu, task, unseen>>
        BY <2>1 DEF vars, guardVars, workflowVars, buildVars, history
      <3>2. QED
        BY <1>1, <3>1 DEF Shaped, At
    <2>2. QED
      BY <1>1, <2>1, ShapedNext
  <1>2. ASSUME IInv, OInv, UInv, Shaped
        PROVE  TypeOK
    <2> USE <1>2 DEF IInv
    <2>1. /\ gStore \in Definitions /\ gSnapshot \in Definitions
          /\ gNext \in Definitions /\ revision \in Revision /\ acked \in Definitions
      BY DEF Typed, GuardTyped
    <2>2. /\ matchAt \in [Scopes -> {0} \cup VersionIDs]
          /\ byVersionID \in SUBSET VersionIDs
          /\ pipeline \in [VersionIDs -> Definitions]
          /\ pending \in SUBSET VersionIDs
      BY DEF Typed, SnapshotTyped, BuildTyped, OInv, Matched
    <2>3. next \in [at : [Scopes -> {0} \cup VersionIDs], ids : SUBSET VersionIDs,
                    pipeline : [VersionIDs -> Definitions]]
      BY DEF Typed, BuildTyped, OInv, Matched, Shaped
    <2>4. task \in [Tasks -> [pc : BootSteps \cup AdminSteps,
                              names : SUBSET Guardrails,
                              version : {0} \cup VersionIDs, scope : Scopes,
                              compiled : Definitions]]
      BY DEF Typed, Task
    <2>5. /\ created \in SUBSET VersionIDs /\ retired \in SUBSET VersionIDs
      BY DEF OInv, Told
    <2>6. request \in [Requests -> {NoRequest} \cup VersionIDs] /\ LocksHeld
      BY DEF UInv, Kept
    <2>7. QED
      BY <2>1, <2>2, <2>3, <2>4, <2>5, <2>6 DEF TypeOK, Shaped
  <1>3. QED
    BY <1>1, <1>2, ShapedInit, Safety, Owned, Uninterrupted, PTL DEF Spec
=============================================================================
