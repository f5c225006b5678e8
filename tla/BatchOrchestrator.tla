------------------------- MODULE BatchOrchestrator -------------------------
(***************************************************************************)
(* One native batch (internal/gateway/batch_orchestrator.go): Create       *)
(* prepares its input file, submits it to the provider and stores a        *)
(* record; Get, Cancel and Results read the record, call the provider,     *)
(* and write the whole record back.  No lock is held in between, and every *)
(* call can fail, some after they took effect.                             *)
(*                                                                         *)
(* Batches share nothing, so one is modelled.  Of a record only what the   *)
(* handlers decide on is kept: its other fields are merged and written     *)
(* back in the same way.  "ended" stands for every terminal status.        *)
(***************************************************************************)
EXTENDS Naturals, FiniteSets

CONSTANTS Handlers,     \* requests that are about the stored batch
          Items,        \* its results that have usage to log
          Preparers     \* how many stages may rewrite the input file

ASSUME BatchAssumption == Preparers \in Nat

VARIABLES upstream,     \* the provider: the status of the batch
          output,       \* the provider: the items its results have so far
          files,        \* the provider: the rewritten input files it keeps
          hints,        \* the provider adapter remembers endpoint hints
          record,       \* the stored batch
          queue,        \* the entries [id, item] the usage logger holds
          usage,        \* the usage table, as a set of such entries
          create,       \* the request that creates the batch
          task          \* the requests about it

(* History: what the properties remember and the code does not. *)
VARIABLES lost,         \* the items an entry of which the logger dropped
          told,         \* the most advanced status a client was answered
          excused       \* a call of Create failed and may have taken effect,
                        \* a deletion or cancellation of its rollback failed,
                        \* or the process ended in it

providerVars == <<upstream, output, files, hints>>
usageVars    == <<queue, usage, lost>>
vars == <<providerVars, record, usageVars, create, task, told, excused>>

Status   == {"running", "cancelling", "ended"}
FileID   == 0 .. Preparers
(* logged: the items logged by the request that set UsageLoggedAt. *)
Record   == [status : Status \cup {"none"}, file : FileID, logged : SUBSET Items]
NoRecord == [status |-> "none", file |-> 0, logged |-> {}]
Entry    == [id : Items \cup (Items \X Handlers), item : Items]
IsTerminalBatchStatus(s) == s = "ended"

Rank(s) == CASE s = "ended" -> 2 [] s = "cancelling" -> 1 [] OTHER -> 0

(* The answer of CancelBatch, and what it does. *)
Cancelled(s) == IF s = "running" THEN "cancelling" ELSE s

Idle == [op |-> "get", pc |-> "idle", rec |-> NoRecord, updated |-> FALSE, told |-> 0]

TypeOK ==
    /\ upstream \in Status \cup {"none"}
    /\ output \in SUBSET Items
    /\ files \in SUBSET (1 .. Preparers)
    /\ hints \in BOOLEAN
    /\ record \in Record
    /\ queue \subseteq Entry /\ usage \subseteq Entry /\ lost \subseteq Items
    /\ create \in [pc : {"idle", "prepare", "submit", "persist", "rollback",
                         "cancel", "done", "failed"},
                   stage : 1 .. Preparers + 1, file : FileID]
    /\ task \in [Handlers -> [op : {"get", "cancel", "results"},
                              pc : {"idle", "call", "pending", "cleanup", "update"},
                              rec : Record, updated : BOOLEAN, told : 0 .. 2]]
    /\ told \in 0 .. 2
    /\ excused \in BOOLEAN

Init ==
    /\ upstream = "none" /\ output = {} /\ files = {} /\ hints = FALSE
    /\ record = NoRecord /\ queue = {} /\ usage = {} /\ lost = {}
    /\ create = [pc |-> "idle", stage |-> 1, file |-> 0]
    /\ task = [h \in Handlers |-> Idle]
    /\ told = 0 /\ excused = FALSE

-----------------------------------------------------------------------------
(* The provider works on the batch.  What its results have stays there, at  *)
(* its place: the ids of usage entries depend on it.                       *)

Produce ==
    /\ upstream \in {"running", "cancelling"}
    /\ \E item \in Items \ output : output' = output \cup {item}
    /\ UNCHANGED <<upstream, files, hints, record, usageVars, create, task, told, excused>>

UpstreamEnds ==
    /\ upstream \in {"running", "cancelling"}
    /\ upstream' = "ended"
    /\ UNCHANGED <<output, files, hints, record, usageVars, create, task, told, excused>>

(* The usage logger writes what it holds (see AsyncLogger): of two entries  *)
(* with one id the table keeps one, and a write may fail after a part.      *)
FlushUsage ==
    /\ queue # {}
    /\ \E stored \in SUBSET queue :
          /\ usage' = usage \cup stored
          /\ lost' = lost \cup {e.item : e \in queue \ stored}
    /\ queue' = {}
    /\ UNCHANGED <<providerVars, record, create, task, told, excused>>

(* Delete a file of Create: the call fails and the file stays, or it is gone. *)
CleanupPrepared(file) ==
    \/ files' = files \ {file} /\ UNCHANGED excused
    \/ file \in files /\ excused' = TRUE /\ UNCHANGED files

-----------------------------------------------------------------------------
(* Create.  A stage that rewrites the file uploads a new one and deletes   *)
(* that of the stage before it; nobody else knows of either.               *)

StartCreate ==
    /\ create.pc = "idle"
    /\ create' = [create EXCEPT !.pc = "prepare"]
    /\ UNCHANGED <<providerVars, record, usageVars, task, told, excused>>

(* Mutant: one stage too many. *)
PreparingPastEnd == create.pc = "prepare" /\ create.stage <= Preparers + 1

Preparing == create.pc = "prepare" /\ create.stage <= Preparers

SkipStage ==
    /\ Preparing
    /\ create' = [create EXCEPT !.stage = @ + 1]
    /\ UNCHANGED <<providerVars, record, usageVars, task, told, excused>>

RewriteStage ==
    /\ Preparing
    /\ \/ files' = (files \ {create.file}) \cup {create.stage} /\ UNCHANGED excused
       \/ /\ create.file \in files
          /\ files' = files \cup {create.stage}
          /\ excused' = TRUE
    /\ create' = [create EXCEPT !.file = create.stage, !.stage = @ + 1]
    /\ UNCHANGED <<upstream, output, hints, record, usageVars, task, told>>

(* The file is deleted that the stage was given; one that it uploaded       *)
(* without hearing of it stays.                                            *)
StageFails ==
    /\ Preparing
    /\ \/ CleanupPrepared(create.file)
       \/ /\ files' \in {files \cup {create.stage},
                         (files \ {create.file}) \cup {create.stage}}
          /\ excused' = TRUE
    /\ create' = [create EXCEPT !.pc = "failed"]
    /\ UNCHANGED <<upstream, output, hints, record, usageVars, task, told>>

Prepared ==
    /\ create.pc = "prepare"
    /\ create.stage > Preparers
    /\ create' = [create EXCEPT !.pc = "submit"]
    /\ UNCHANGED <<providerVars, record, usageVars, task, told, excused>>

(* CreateBatch or CreateBatchWithHints. *)
Submit ==
    /\ create.pc = "submit"
    /\ upstream' = "running"
    /\ hints' \in BOOLEAN
    /\ create' = [create EXCEPT !.pc = "persist"]
    /\ UNCHANGED <<output, files, record, usageVars, task, told, excused>>

(* The rollback has no batch to cancel. *)
SubmitFails ==
    /\ create.pc = "submit"
    /\ CleanupPrepared(create.file)
    /\ create' = [create EXCEPT !.pc = "failed"]
    /\ UNCHANGED <<upstream, output, hints, record, usageVars, task, told>>

(* The batch exists, its answer is lost or names no batch. *)
SubmitUnanswered ==
    /\ create.pc = "submit"
    /\ upstream' = "running"
    /\ files' \in {files, files \ {create.file}}
    /\ excused' = TRUE
    /\ create' = [create EXCEPT !.pc = "failed"]
    /\ UNCHANGED <<output, hints, record, usageVars, task, told>>

NewRecord == [status |-> "running", file |-> create.file, logged |-> {}]

Persist ==
    /\ create.pc = "persist"
    /\ record' = NewRecord
    /\ hints' = FALSE
    /\ create' = [create EXCEPT !.pc = "done"]
    /\ UNCHANGED <<upstream, output, files, usageVars, task, told, excused>>

PersistFails ==
    /\ create.pc = "persist"
    /\ \/ UNCHANGED <<record, excused>>
       \/ record' = NewRecord /\ excused' = TRUE
    /\ create' = [create EXCEPT !.pc = "rollback"]
    /\ UNCHANGED <<providerVars, usageVars, task, told>>

(* rollbackPreparedBatch: the file, the hints, the batch itself. *)
RollbackFile ==
    /\ create.pc = "rollback"
    /\ CleanupPrepared(create.file)
    /\ hints' = FALSE
    /\ create' = [create EXCEPT !.pc = "cancel"]
    /\ UNCHANGED <<upstream, output, record, usageVars, task, told>>

RollbackBatch ==
    /\ create.pc = "cancel"
    /\ \/ upstream' = Cancelled(upstream) /\ UNCHANGED excused
       \/ excused' = TRUE /\ UNCHANGED upstream
    /\ create' = [create EXCEPT !.pc = "failed"]
    /\ UNCHANGED <<output, files, hints, record, usageVars, task, told>>

CreateStep == \/ StartCreate \/ SkipStage \/ RewriteStage \/ StageFails \/ Prepared
              \/ Submit \/ SubmitFails \/ SubmitUnanswered
              \/ Persist \/ PersistFails \/ RollbackFile \/ RollbackBatch

-----------------------------------------------------------------------------
(* Get, Cancel, Results. *)

Step(h, fields) == task' = [task EXCEPT ![h] = fields]
Answer(h)       == Step(h, Idle)

(* requireStoredBatch. *)
Read(h, op) ==
    /\ task[h].pc = "idle"
    /\ record # NoRecord
    /\ Step(h, [op |-> op, pc |-> "call", rec |-> record, updated |-> FALSE,
                told |-> IF op = "results" THEN 0 ELSE told])
    /\ UNCHANGED <<providerVars, record, usageVars, create, told, excused>>

(* A cancellation whose call fails may have reached the provider. *)
CallFails(h) ==
    /\ task[h].pc \in {"call", "pending"}
    /\ \/ UNCHANGED upstream
       \/ task[h].op = "cancel" /\ upstream' = Cancelled(upstream)
    /\ Answer(h)
    /\ UNCHANGED <<output, files, hints, record, usageVars, create, told, excused>>

(* Mutant: once a cancellation is stored, the provider is not believed. *)
MergeUnlessCancelling(rec, status) ==
    IF status = "none" \/ rec.status = "cancelling" THEN rec
    ELSE [rec EXCEPT !.status = status]

(* An answer that names no status leaves the one of the record. *)
MergeStoredBatchFromUpstream(rec, status) ==
    IF status = "none" THEN rec ELSE [rec EXCEPT !.status = status]

(* Mutant: the file is deleted whatever the status. *)
AlwaysAfterCall(rec) == IF rec.file # 0 THEN "cleanup" ELSE "update"

(* The rewritten file is deleted once the record says the batch has ended. *)
AfterCall(rec) ==
    IF IsTerminalBatchStatus(rec.status) /\ rec.file # 0 THEN "cleanup" ELSE "update"

(* GetBatch and CancelBatch.  The answer may name no status, or there may   *)
(* be none at all: then the client is promised nothing.                    *)
Refresh(h) ==
    /\ task[h].pc = "call"
    /\ task[h].op \in {"get", "cancel"}
    /\ upstream' = IF task[h].op = "cancel" THEN Cancelled(upstream) ELSE upstream
    /\ \E answer \in {upstream', "none"} :
       \E updated \in IF answer = "none" /\ task[h].op = "get" THEN BOOLEAN ELSE {TRUE} :
          LET rec == MergeStoredBatchFromUpstream(task[h].rec, answer)
          IN  Step(h, [task[h] EXCEPT !.pc = AfterCall(rec), !.rec = rec,
                                      !.updated = updated,
                                      !.told = IF answer = "none" THEN 0 ELSE @])
    /\ UNCHANGED <<output, files, hints, record, usageVars, create, told, excused>>

(* Mutant: the entry's id is a fresh one. *)
FreshUsageID(h, item) == <<item, h>>

(* deterministicBatchUsageID: the same for everyone who logs the item. *)
UsageID(h, item) == item

(* The items are given to the logger, which drops what it has no room for. *)
LogBatchUsageFromBatchResults(h, items) ==
    \E kept \in SUBSET items :
        /\ queue' = queue \cup {[id |-> UsageID(h, i), item |-> i] : i \in kept}
        /\ lost' = lost \cup (items \ kept)

(* Whatever part of the results there is, its usage is logged unless the    *)
(* record says that this was done, as it does from now on.  Of the results *)
(* only the items with usage matter; there may be others.                  *)
FetchResults(h) ==
    /\ task[h].pc = "call"
    /\ task[h].op = "results"
    /\ LET rec    == task[h].rec
           logged == IF rec.logged = {} THEN output ELSE {}
       IN  /\ LogBatchUsageFromBatchResults(h, logged)
           /\ \E updated \in {output # {}, TRUE} :
                 Step(h, [task[h] EXCEPT !.pc = AfterCall(rec), !.updated = updated,
                                         !.rec.logged = rec.logged \cup logged])
    /\ UNCHANGED <<providerVars, record, usage, create, told, excused>>

(* IsNativeBatchResultsPending: a provider's 404 is looked into. *)
ResultsNotFound(h) ==
    /\ task[h].pc = "call"
    /\ task[h].op = "results"
    /\ Step(h, [task[h] EXCEPT !.pc = "pending"])
    /\ UNCHANGED <<providerVars, record, usageVars, create, told, excused>>

(* If the batch has ended after all, the request fails: see CallFails. *)
RefreshPending(h) ==
    /\ task[h].pc = "pending"
    /\ \E answer \in {upstream, "none"} \ {"ended"} :
          Step(h, [task[h] EXCEPT
                     !.pc = "update", !.updated = TRUE,
                     !.rec = MergeStoredBatchFromUpstream(task[h].rec, answer)])
    /\ UNCHANGED <<providerVars, record, usageVars, create, told, excused>>

(* Mutant: the record forgets the file although the call failed. *)
CleanupUnchecked(h) ==
    /\ task[h].pc = "cleanup"
    /\ files' \in {files, files \ {task[h].rec.file}}
    /\ Step(h, [task[h] EXCEPT !.pc = "update", !.rec.file = 0, !.updated = TRUE])
    /\ UNCHANGED <<upstream, output, hints, record, usageVars, create, told, excused>>

(* cleanupStoredBatchRewrittenInputFile: deleting it twice is an error. *)
Cleanup(h) ==
    /\ task[h].pc = "cleanup"
    /\ \/ /\ task[h].rec.file \in files
          /\ files' = files \ {task[h].rec.file}
          /\ Step(h, [task[h] EXCEPT !.pc = "update", !.rec.file = 0, !.updated = TRUE])
       \/ /\ files' \in {files, files \ {task[h].rec.file}}
          /\ Step(h, [task[h] EXCEPT !.pc = "update"])
    /\ UNCHANGED <<upstream, output, hints, record, usageVars, create, told, excused>>

Update(h) ==
    /\ task[h].pc = "update"
    /\ record' = IF task[h].updated THEN task[h].rec ELSE record
    /\ told' = IF task[h].op # "results" /\ Rank(task[h].rec.status) > told
               THEN Rank(task[h].rec.status) ELSE told
    /\ Answer(h)
    /\ UNCHANGED <<providerVars, usageVars, create, excused>>

(* The store reports an error, whether it has written the record or not. *)
UpdateFails(h) ==
    /\ task[h].pc = "update"
    /\ task[h].updated
    /\ record' \in {record, task[h].rec}
    /\ Answer(h)
    /\ UNCHANGED <<providerVars, usageVars, create, told, excused>>

HandlerStep(h) ==
    \/ \E op \in {"get", "cancel", "results"} : Read(h, op)
    \/ CallFails(h) \/ Refresh(h) \/ FetchResults(h) \/ ResultsNotFound(h)
    \/ RefreshPending(h) \/ Cleanup(h) \/ Update(h) \/ UpdateFails(h)

-----------------------------------------------------------------------------
(* The process ends, at any moment, and is started again. *)
Restart ==
    /\ hints' = FALSE
    /\ queue' = {}
    /\ lost' = lost \cup {e.item : e \in queue}
    /\ create' = [create EXCEPT !.pc = IF @ = "done" THEN "done" ELSE "failed"]
    /\ excused' = (excused \/ create.pc \notin {"idle", "done", "failed"})
    /\ task' = [h \in Handlers |-> Idle]
    /\ UNCHANGED <<upstream, output, files, record, usage, told>>

Next == \/ CreateStep \/ \E h \in Handlers : HandlerStep(h)
        \/ Produce \/ UpstreamEnds \/ FlushUsage \/ Restart

Spec == Init /\ [][Next]_vars

-----------------------------------------------------------------------------
(* "Writes per-item usage from batch results once" (batch_usage.go:19):    *)
(* however many requests find the usage unlogged, and whichever of them    *)
(* writes its copy of the record last, the table has one row for an item;  *)
(* and what the record says is logged has a row or is about to get one,    *)
(* unless the logger dropped an entry of it or the process ended first.    *)
(* It does not say that everything is logged: once a part of the results   *)
(* is, what the provider adds to them is not.                              *)
UsageAccounted ==
    /\ \A r, s \in usage : r.item = s.item => r = s
    /\ \A i \in record.logged \ lost : \E r \in usage \cup queue : r.item = i

(* Unless the gateway dies in Create, or a call of Create fails that may   *)
(* have taken effect, or of its rollback, no file, hint or running batch   *)
(* is left at the provider that no record knows of: neither failed stages  *)
(* and writes, nor copies of the record written back late, lose one.       *)
NothingOrphaned ==
    create.pc \in {"done", "failed"} /\ ~excused =>
        /\ \A f \in files : record.file = f
        /\ upstream = "running" => record # NoRecord
        /\ ~hints

(* The file a stored batch was submitted with is there for as long as the  *)
(* provider works on it (TestBatchResults_DoesNotCleanupRewrittenFileBefore*)
(* TerminalStatus, for every interleaving).                                *)
InputKeptWhileRunning ==
    upstream \in {"running", "cancelling"} /\ record # NoRecord /\ ~excused =>
        create.file \in files \cup {0}

(* Whatever stale copy of the record it started from, a Get or Cancel the  *)
(* provider named a status to never answers one behind a status that a     *)
(* client had before it asked.                                             *)
FreshAnswers ==
    \A h \in Handlers : task[h].op \in {"get", "cancel"}
                        /\ task[h].pc \in {"cleanup", "update"} =>
        Rank(task[h].rec.status) >= task[h].told
=============================================================================
