---------------------- MODULE BatchOrchestratorProofs ----------------------
(***************************************************************************)
(* For any number of concurrent requests, of results and of stages that    *)
(* rewrite the input file: copies of the record that are written back late *)
(* are sound, because what a handler decides on only ever moves forward.   *)
(***************************************************************************)
EXTENDS BatchOrchestrator, TLAPS

Task == [op : {"get", "cancel", "results"},
         pc : {"idle", "call", "pending", "cleanup", "update"},
         rec : Record, updated : BOOLEAN, told : 0 .. 2]

Creation == [pc : {"idle", "prepare", "submit", "persist", "rollback",
                   "cancel", "done", "failed"},
             stage : 1 .. Preparers + 1, file : FileID]

LEMMA TypeFacts ==
    TypeOK => /\ task \in [Handlers -> Task] /\ create \in Creation
              /\ usage \subseteq Entry /\ queue \subseteq Entry /\ lost \subseteq Items
  BY DEF TypeOK, Task, Creation

LEMMA RecordFacts ==
    /\ NoRecord \in Record /\ Idle \in Task
    /\ \A s \in Status \cup {"none"} : Rank(s) \in 0 .. 2
    /\ Cancelled("none") = "none" /\ \A s \in Status : Cancelled(s) \in Status
    /\ \A s \in Status : s # "ended" => Cancelled(s) \in {"running", "cancelling"}
    /\ \A s \in Status \cup {"none"} : Rank(s) <= Rank(Cancelled(s)) /\ Cancelled(s) # "running"
  BY BatchAssumption DEF NoRecord, Record, FileID, Status, Idle, Task, Rank, Cancelled

LEMMA AfterCallType ==
    ASSUME NEW rec
    PROVE  AfterCall(rec) \in {"cleanup", "update"}
  BY DEF AfterCall

LEMMA MergeType ==
    ASSUME NEW rec \in Record, NEW status \in Status \cup {"none"}
    PROVE  MergeStoredBatchFromUpstream(rec, status) \in Record
  BY DEF MergeStoredBatchFromUpstream, Record

-----------------------------------------------------------------------------
LEMMA CreateTypeOK ==
    ASSUME TypeOK, CreateStep
    PROVE  TypeOK'
  <1> USE TypeFacts, BatchAssumption DEF Creation, FileID
  <1>1. CASE StartCreate \/ Prepared \/ SkipStage
    <2>1. create' \in Creation
      <3>1. CASE StartCreate \/ Prepared
        BY <3>1 DEF StartCreate, Prepared
      <3>2. CASE SkipStage
        <4>1. create.stage + 1 \in 1 .. Preparers + 1
          BY <3>2 DEF SkipStage, Preparing
        <4>2. QED
          BY <3>2, <4>1 DEF SkipStage
      <3>3. QED
        BY <1>1, <3>1, <3>2
    <2>2. QED
      BY <1>1, <2>1 DEF StartCreate, Prepared, SkipStage, TypeOK, providerVars, usageVars
  <1>2. CASE RewriteStage
    <2>1. create' \in Creation
      <3>1. create.stage + 1 \in 1 .. Preparers + 1 /\ create.stage \in 0 .. Preparers
        BY <1>2 DEF RewriteStage, Preparing
      <3>2. QED
        BY <1>2, <3>1 DEF RewriteStage
    <2>2. create.stage \in 1 .. Preparers
      BY <1>2 DEF RewriteStage, Preparing
    <2>3. files' \in SUBSET (1 .. Preparers) /\ excused' \in BOOLEAN
      BY <1>2, <2>2 DEF RewriteStage, TypeOK
    <2>4. QED
      BY <1>2, <2>1, <2>3 DEF RewriteStage, TypeOK, usageVars
  <1>3. CASE StageFails \/ SubmitFails \/ RollbackFile
    <2>1. files' \in SUBSET (1 .. Preparers) /\ excused' \in BOOLEAN
      <3>1. CASE StageFails
        <4>1. create.stage \in 1 .. Preparers
          BY <3>1 DEF StageFails, Preparing
        <4>2. QED
          BY <3>1, <4>1 DEF StageFails, CleanupPrepared, TypeOK
      <3>2. CASE SubmitFails \/ RollbackFile
        BY <3>2 DEF SubmitFails, RollbackFile, CleanupPrepared, TypeOK
      <3>3. QED
        BY <1>3, <3>1, <3>2
    <2>2. create' \in Creation
      BY <1>3 DEF StageFails, SubmitFails, RollbackFile
    <2>3. QED
      BY <1>3, <2>1, <2>2 DEF StageFails, SubmitFails, RollbackFile, TypeOK, usageVars
  <1>4. CASE Submit \/ SubmitUnanswered \/ RollbackBatch
    <2>1. upstream' \in Status \cup {"none"}
      BY <1>4, RecordFacts DEF Submit, SubmitUnanswered, RollbackBatch, TypeOK, Status
    <2>2. create' \in Creation
      BY <1>4 DEF Submit, SubmitUnanswered, RollbackBatch
    <2>3. QED
      BY <1>4, <2>1, <2>2 DEF Submit, SubmitUnanswered, RollbackBatch, TypeOK, usageVars
  <1>5. CASE Persist \/ PersistFails
    <2>1. NewRecord \in Record
      BY DEF NewRecord, Record, Status
    <2>2. create' \in Creation
      BY <1>5 DEF Persist, PersistFails
    <2>3. QED
      BY <1>5, <2>1, <2>2 DEF Persist, PersistFails, TypeOK, providerVars, usageVars
  <1>6. QED
    BY <1>1, <1>2, <1>3, <1>4, <1>5 DEF CreateStep

LEMMA StepType ==
    ASSUME TypeOK, NEW h \in Handlers, NEW fields \in Task, Step(h, fields)
    PROVE  task' \in [Handlers -> Task]
  BY TypeFacts DEF Step

LEMMA HandlerTypeOK ==
    ASSUME TypeOK, NEW h \in Handlers, HandlerStep(h)
    PROVE  TypeOK'
  <1> USE TypeFacts, RecordFacts
  <1>1. task[h] \in Task
    OBVIOUS
  <1>2. ASSUME NEW op \in {"get", "cancel", "results"}, Read(h, op)
        PROVE  TypeOK'
    <2>1. [op |-> op, pc |-> "call", rec |-> record, updated |-> FALSE,
           told |-> IF op = "results" THEN 0 ELSE told] \in Task
      BY DEF Task, TypeOK
    <2>2. task' \in [Handlers -> Task]
      BY <1>2, <2>1, StepType DEF Read
    <2>3. QED
      BY <1>2, <2>2 DEF Read, TypeOK, Task, providerVars, usageVars
  <1>3. CASE CallFails(h)
    <2>1. task' \in [Handlers -> Task]
      BY <1>3, StepType DEF CallFails, Answer
    <2>2. upstream' \in Status \cup {"none"}
      BY <1>3 DEF CallFails, TypeOK
    <2>3. QED
      BY <1>3, <2>1, <2>2 DEF CallFails, TypeOK, Task, usageVars
  <1>4. CASE Refresh(h)
    <2>1. upstream' \in Status \cup {"none"}
      BY <1>4 DEF Refresh, TypeOK
    <2>2. PICK answer \in {upstream', "none"}, updated \in BOOLEAN :
            LET rec == MergeStoredBatchFromUpstream(task[h].rec, answer)
            IN  Step(h, [task[h] EXCEPT !.pc = AfterCall(rec), !.rec = rec,
                                        !.updated = updated,
                                        !.told = IF answer = "none" THEN 0 ELSE @])
      BY <1>4 DEF Refresh
    <2> DEFINE rec == MergeStoredBatchFromUpstream(task[h].rec, answer)
    <2>3. rec \in Record
      BY <1>1, <2>1, MergeType DEF Task
    <2>4. [task[h] EXCEPT !.pc = AfterCall(rec), !.rec = rec, !.updated = updated,
                          !.told = IF answer = "none" THEN 0 ELSE @] \in Task
      <3> DEFINE tell == IF answer = "none" THEN 0 ELSE task[h].told
      <3>1. tell \in 0 .. 2
        BY <1>1 DEF Task
      <3> HIDE DEF rec, tell
      <3>2. [task[h] EXCEPT !.pc = AfterCall(rec), !.rec = rec, !.updated = updated,
                            !.told = tell] \in Task
        BY <1>1, <2>3, <3>1, AfterCallType DEF Task
      <3>3. QED
        BY <3>2 DEF tell
    <2>5. task' \in [Handlers -> Task]
      BY <2>2, <2>4, StepType
    <2>6. QED
      BY <1>4, <2>1, <2>5 DEF Refresh, TypeOK, Task, usageVars
  <1>5. CASE FetchResults(h)
    <2> DEFINE rec    == task[h].rec
               logged == IF rec.logged = {} THEN output ELSE {}
    <2>1. logged \subseteq Items /\ rec \in Record
      BY <1>1 DEF TypeOK, Task
    <2>2. PICK kept \in SUBSET logged :
            /\ queue' = queue \cup {[id |-> UsageID(h, i), item |-> i] : i \in kept}
            /\ lost' = lost \cup (logged \ kept)
      BY <1>5 DEF FetchResults, LogBatchUsageFromBatchResults
    <2>3. PICK updated \in {output # {}, TRUE} :
            Step(h, [task[h] EXCEPT !.pc = AfterCall(rec), !.updated = updated,
                                    !.rec.logged = rec.logged \cup logged])
      BY <1>5 DEF FetchResults
    <2>4. queue' \subseteq Entry /\ lost' \subseteq Items
      BY <2>1, <2>2 DEF UsageID, Entry
    <2>5. [task[h] EXCEPT !.pc = AfterCall(rec), !.updated = updated,
                          !.rec.logged = rec.logged \cup logged] \in Task
      <3>1. AfterCall(rec) \in {"cleanup", "update"} /\ updated \in BOOLEAN
        BY AfterCallType
      <3>2. rec.logged \cup logged \in SUBSET Items
        BY <2>1 DEF Record
      <3> HIDE DEF logged
      <3>3. QED
        BY <1>1, <3>1, <3>2 DEF Task, Record
    <2>6. task' \in [Handlers -> Task]
      BY <2>3, <2>5, StepType
    <2>7. QED
      BY <1>5, <2>4, <2>6 DEF FetchResults, TypeOK, Task, providerVars
  <1>6. CASE ResultsNotFound(h)
    <2>1. [task[h] EXCEPT !.pc = "pending"] \in Task
      BY <1>1 DEF Task
    <2>2. task' \in [Handlers -> Task]
      BY <1>6, <2>1, StepType DEF ResultsNotFound
    <2>3. QED
      BY <1>6, <2>2 DEF ResultsNotFound, TypeOK, Task, providerVars, usageVars
  <1>7. CASE RefreshPending(h)
    <2>1. PICK answer \in {upstream, "none"} :
            Step(h, [task[h] EXCEPT
                       !.pc = "update", !.updated = TRUE,
                       !.rec = MergeStoredBatchFromUpstream(task[h].rec, answer)])
      BY <1>7 DEF RefreshPending
    <2> DEFINE rec == MergeStoredBatchFromUpstream(task[h].rec, answer)
    <2>2. rec \in Record
      BY <1>1, MergeType DEF Task, TypeOK
    <2>3. [task[h] EXCEPT !.pc = "update", !.updated = TRUE, !.rec = rec] \in Task
      <3> HIDE DEF rec
      <3> QED
        BY <1>1, <2>2 DEF Task
    <2>4. task' \in [Handlers -> Task]
      BY <2>1, <2>3, StepType
    <2>5. QED
      BY <1>7, <2>4 DEF RefreshPending, TypeOK, Task, providerVars, usageVars
  <1>8. CASE Cleanup(h)
    <2>1. /\ [task[h] EXCEPT !.pc = "update", !.rec.file = 0, !.updated = TRUE] \in Task
          /\ [task[h] EXCEPT !.pc = "update"] \in Task
      <3>1. 0 \in FileID
        BY BatchAssumption DEF FileID
      <3>2. QED
        BY <1>1, <3>1 DEF Task, Record
    <2>2. task' \in [Handlers -> Task]
      BY <1>8, <2>1, StepType DEF Cleanup
    <2>3. files' \in SUBSET (1 .. Preparers)
      BY <1>8 DEF Cleanup, TypeOK
    <2>4. QED
      BY <1>8, <2>2, <2>3 DEF Cleanup, TypeOK, Task, usageVars
  <1>9. CASE Update(h) \/ UpdateFails(h)
    <2>1. task' \in [Handlers -> Task]
      BY <1>9, StepType DEF Update, UpdateFails, Answer
    <2>2. record' \in Record
      BY <1>1, <1>9 DEF Update, UpdateFails, TypeOK, Task
    <2>3. told' \in 0 .. 2
      BY <1>1, <1>9 DEF Update, UpdateFails, TypeOK, Task, Record
    <2>4. QED
      BY <1>9, <2>1, <2>2, <2>3 DEF Update, UpdateFails, TypeOK, Task, providerVars, usageVars
  <1>10. QED
    BY <1>2, <1>3, <1>4, <1>5, <1>6, <1>7, <1>8, <1>9 DEF HandlerStep

LEMMA NextTypeOK ==
    ASSUME TypeOK, [Next]_vars
    PROVE  TypeOK'
  <1>1. CASE Produce \/ UpstreamEnds
    BY <1>1 DEF Produce, UpstreamEnds, TypeOK, Status, usageVars
  <1>2. CASE Restart
    <2>1. create' \in Creation
      BY <1>2, TypeFacts DEF Restart, Creation
    <2>2. task' \in [Handlers -> Task]
      BY <1>2, RecordFacts DEF Restart
    <2>3. lost' \subseteq Items /\ queue' \subseteq Entry
      BY <1>2, TypeFacts DEF Restart, Entry
    <2>4. QED
      BY <1>2, <2>1, <2>2, <2>3 DEF Restart, TypeOK, Task, Creation
  <1>3. CASE FlushUsage
    <2>1. lost' \subseteq Items /\ queue' \subseteq Entry /\ usage' \subseteq Entry
      BY <1>3, TypeFacts DEF FlushUsage, Entry
    <2>2. QED
      BY <1>3, <2>1 DEF FlushUsage, TypeOK, providerVars
  <1>4. CASE UNCHANGED vars
    BY <1>4 DEF vars, providerVars, usageVars, TypeOK
  <1>5. QED
    BY <1>1, <1>2, <1>3, <1>4, CreateTypeOK, HandlerTypeOK DEF Next

-----------------------------------------------------------------------------
(* A copy of the record stays sound, however late it is written: the       *)
(* status is not ahead of the provider's, the usage it says is logged is   *)
(* accounted for, and the file it names is the one of Create or is gone.   *)
Accounted(i) == i \in lost \/ [id |-> i, item |-> i] \in usage \cup queue

Created == create.pc \in {"rollback", "cancel", "done", "failed"}

GoodCopy(rec) ==
    /\ Created /\ upstream # "none" /\ rec.status # "none"
    /\ Rank(rec.status) <= Rank(upstream)
    /\ \A i \in rec.logged : Accounted(i)
    /\ rec.file = create.file \/ (rec.file = 0 /\ create.file \notin files)

CopiesGood ==
    /\ record # NoRecord => GoodCopy(record)
    /\ \A h \in Handlers : task[h].pc # "idle" => GoodCopy(task[h].rec)

OwnIDs == \A r \in usage \cup queue : r.id = r.item

(* Nothing the copies depend on is taken back. *)
Progress ==
    /\ upstream # "none" => upstream' # "none"
    /\ Rank(upstream) <= Rank(upstream')
    /\ upstream = "ended" => upstream' = "ended"
    /\ \A i \in Items : Accounted(i) => Accounted(i)'
    /\ Created => Created' /\ create'.file = create.file /\ files' \subseteq files

(* What Create has left behind, stage by stage. *)
Stages ==
    /\ create.pc = "idle" => files = {} /\ create.file = 0
    /\ create.pc \in {"idle", "prepare", "submit"} => upstream = "none"
    /\ create.pc \in {"persist", "rollback", "cancel", "done"} => upstream # "none"
    /\ create.pc \in {"prepare", "submit", "persist"} => create.file \in files \cup {0}
    /\ create.pc = "done" /\ upstream # "ended" => create.file \in files \cup {0}
    /\ create.pc = "done" => record # NoRecord
    /\ create.pc \notin {"persist", "rollback"} => ~hints

Unexcused ==
    ~excused =>
        /\ files \subseteq {create.file}
        /\ record # NoRecord => create.pc = "done"
        /\ create.pc \in {"cancel", "failed"} => files = {}
        /\ create.pc = "failed" => upstream # "running"

Deciding ==
    /\ told <= Rank(upstream)
    /\ \A h \in Handlers :
          /\ task[h].pc # "idle" => task[h].told <= Rank(upstream) /\ record # NoRecord
          /\ task[h].pc = "cleanup" => upstream = "ended"
          /\ task[h].pc = "pending" => task[h].op = "results"

BInv == TypeOK /\ CopiesGood /\ OwnIDs /\ Stages /\ Unexcused /\ Deciding /\ FreshAnswers

LEMMA InitBInv == Init => BInv
  <1> SUFFICES ASSUME Init PROVE BInv
    OBVIOUS
  <1>1. TypeOK
    <2>1. create \in Creation /\ task \in [Handlers -> Task]
      BY BatchAssumption, RecordFacts DEF Init, Creation, FileID
    <2>2. /\ upstream \in Status \cup {"none"} /\ output \in SUBSET Items
          /\ files \in SUBSET (1 .. Preparers) /\ hints \in BOOLEAN /\ record \in Record
      BY RecordFacts DEF Init
    <2>3. told \in 0 .. 2
      BY DEF Init
    <2>4. /\ usage \subseteq Entry /\ queue \subseteq Entry /\ lost \subseteq Items
          /\ excused \in BOOLEAN
      BY DEF Init
    <2>5. QED
      BY <2>1, <2>2, <2>3, <2>4 DEF TypeOK, Creation, Task
  <1>2. \A h \in Handlers : task[h] = Idle
    BY DEF Init
  <1>3. CopiesGood /\ OwnIDs
    BY <1>2 DEF Init, CopiesGood, OwnIDs, Idle
  <1>4. Stages /\ Unexcused
    BY DEF Init, Stages, Unexcused
  <1>5. Deciding /\ FreshAnswers
    BY <1>2 DEF Init, Deciding, FreshAnswers, Idle, Rank
  <1>6. QED
    BY <1>1, <1>3, <1>4, <1>5 DEF BInv

LEMMA StaysGood ==
    ASSUME TypeOK, TypeOK', Progress, NEW rec \in Record, GoodCopy(rec)
    PROVE  GoodCopy(rec)'
  <1>1. Rank(rec.status) <= Rank(upstream')
    <2>1. Rank(rec.status) \in 0 .. 2 /\ Rank(upstream) \in 0 .. 2 /\ Rank(upstream') \in 0 .. 2
      BY RecordFacts DEF TypeOK, Record
    <2>2. QED
      BY <2>1 DEF Progress, GoodCopy
  <1>2. \A i \in rec.logged : Accounted(i)'
    BY DEF Progress, GoodCopy, Record
  <1>3. QED
    BY <1>1, <1>2 DEF Progress, GoodCopy

(* An entry that is queued is written, or remembered as lost. *)
LEMMA StaysAccounted ==
    ASSUME TypeOK, [Next]_vars, NEW i \in Items, Accounted(i)
    PROVE  Accounted(i)'
  <1>1. CASE UNCHANGED usageVars
    BY <1>1 DEF usageVars, Accounted
  <1>2. CASE FlushUsage
    <2>1. CASE [id |-> i, item |-> i] \in queue
      <3>1. PICK stored \in SUBSET queue :
              /\ usage' = usage \cup stored
              /\ lost' = lost \cup {e.item : e \in queue \ stored}
        BY <1>2 DEF FlushUsage
      <3>2. [id |-> i, item |-> i].item = i
        OBVIOUS
      <3>3. [id |-> i, item |-> i] \in stored \/ i \in {e.item : e \in queue \ stored}
        BY <2>1, <3>2
      <3>4. QED
        BY <3>1, <3>3 DEF Accounted
    <2>2. CASE i \in lost \/ [id |-> i, item |-> i] \in usage
      BY <1>2, <2>2 DEF FlushUsage, Accounted
    <2>3. QED
      BY <2>1, <2>2 DEF Accounted
  <1>3. CASE Restart
    <2>1. CASE [id |-> i, item |-> i] \in queue
      <3>1. i \in {e.item : e \in queue}
        <4>1. [id |-> i, item |-> i].item = i
          OBVIOUS
        <4>2. QED
          BY <2>1, <4>1
      <3>2. QED
        BY <1>3, <3>1 DEF Restart, Accounted
    <2>2. CASE i \in lost \/ [id |-> i, item |-> i] \in usage
      BY <1>3, <2>2 DEF Restart, Accounted
    <2>3. QED
      BY <2>1, <2>2 DEF Accounted
  <1>4. ASSUME NEW h \in Handlers, FetchResults(h)
        PROVE  Accounted(i)'
    BY <1>4 DEF FetchResults, LogBatchUsageFromBatchResults, Accounted
  <1>5. ASSUME NEW h \in Handlers, HandlerStep(h), ~FetchResults(h)
        PROVE  UNCHANGED usageVars
    BY <1>5 DEF HandlerStep, Read, CallFails, Refresh, ResultsNotFound,
                RefreshPending, Cleanup, Update, UpdateFails
  <1>6. CASE CreateStep \/ Produce \/ UpstreamEnds \/ UNCHANGED vars
    <2>1. UNCHANGED usageVars
      BY <1>6 DEF CreateStep, StartCreate, SkipStage, RewriteStage, StageFails, Prepared,
          Submit, SubmitFails, SubmitUnanswered, Persist, PersistFails, RollbackFile,
          RollbackBatch, Produce, UpstreamEnds, vars
    <2>2. QED
      BY <1>1, <2>1
  <1>7. QED
    BY <1>1, <1>2, <1>3, <1>4, <1>5, <1>6 DEF Next

LEMMA NextProgress ==
    ASSUME BInv, [Next]_vars
    PROVE  Progress
  <1>1. TypeOK /\ CopiesGood /\ Stages
    BY DEF BInv
  <1>acc. \A i \in Items : Accounted(i) => Accounted(i)'
    BY <1>1, StaysAccounted
  <1> USE <1>acc, RecordFacts DEF Created
  <1>2. upstream \in Status \cup {"none"}
    BY <1>1 DEF TypeOK
  <1>3. CASE StartCreate \/ SkipStage \/ Prepared \/ Persist \/ PersistFails
    BY <1>1, <1>2, <1>3 DEF StartCreate, SkipStage, Prepared, Persist, PersistFails, Preparing,
                      Progress, providerVars, TypeOK
  <1>4. CASE RewriteStage \/ StageFails \/ SubmitFails \/ Submit \/ SubmitUnanswered
    <2>1. ~Created
      BY <1>4 DEF RewriteStage, StageFails, SubmitFails, Submit, SubmitUnanswered, Preparing
    <2>2. CASE RewriteStage \/ StageFails \/ SubmitFails
      BY <1>2, <2>1, <2>2 DEF RewriteStage, StageFails, SubmitFails, Progress
    <2>3. CASE Submit \/ SubmitUnanswered
      <3>1. upstream = "none" /\ upstream' = "running"
        BY <1>1, <2>3 DEF Submit, SubmitUnanswered, Stages
      <3>2. Rank("none") = 0 /\ Rank("running") = 0
        BY DEF Rank
      <3>3. QED
        BY <2>1, <3>1, <3>2 DEF Progress
    <2>4. QED
      BY <1>4, <2>2, <2>3
  <1>5. CASE RollbackFile
    BY <1>1, <1>2, <1>5 DEF RollbackFile, CleanupPrepared, Progress, TypeOK
  <1>6. CASE RollbackBatch
    <2>1. upstream' = upstream \/ upstream' = Cancelled(upstream)
      BY <1>6 DEF RollbackBatch
    <2>2. Rank(upstream) <= Rank(upstream')
      BY <1>2, <2>1
    <2>3. /\ upstream # "none" => upstream' # "none"
          /\ upstream = "ended" => upstream' = "ended"
      BY <1>2, <2>1 DEF Cancelled, Status
    <2>4. QED
      BY <1>1, <1>6, <2>2, <2>3 DEF RollbackBatch, Progress, TypeOK
  <1>7. ASSUME NEW h \in Handlers, HandlerStep(h)
        PROVE  Progress
    <2>1. UNCHANGED create
      BY <1>7 DEF HandlerStep, Read, CallFails, Refresh, FetchResults, ResultsNotFound,
                  RefreshPending, Cleanup, Update, UpdateFails, providerVars
    <2>2. upstream' = upstream \/ upstream' = Cancelled(upstream)
      BY <1>7 DEF HandlerStep, Read, CallFails, Refresh, FetchResults, ResultsNotFound,
                  RefreshPending, Cleanup, Update, UpdateFails, providerVars
    <2>3. files' \subseteq files
      BY <1>7 DEF HandlerStep, Read, CallFails, Refresh, FetchResults, ResultsNotFound,
                  RefreshPending, Cleanup, Update, UpdateFails, providerVars
    <2>4. Rank(upstream) <= Rank(upstream')
      BY <1>2, <2>2
    <2>5. /\ upstream # "none" => upstream' # "none"
          /\ upstream = "ended" => upstream' = "ended"
      BY <1>2, <2>2 DEF Cancelled, Status
    <2>6. QED
      BY <2>1, <2>3, <2>4, <2>5 DEF Progress
  <1>8. CASE Produce \/ UpstreamEnds \/ FlushUsage
    <2>1. Rank("ended") = 2
      BY DEF Rank
    <2>2. Rank(upstream) <= 2 /\ Rank(upstream) <= Rank(upstream)
      BY <1>2
    <2>3. QED
      BY <1>8, <2>1, <2>2 DEF Produce, UpstreamEnds, FlushUsage, providerVars, Progress
  <1>9. CASE Restart
    BY <1>1, <1>2, <1>9 DEF Restart, Progress, TypeOK
  <1>10. CASE UNCHANGED vars
    BY <1>2, <1>10 DEF vars, providerVars, Progress
  <1>11. QED
    BY <1>3, <1>4, <1>5, <1>6, <1>7, <1>8, <1>9, <1>10 DEF Next, CreateStep

-----------------------------------------------------------------------------
(* What a step of a handler leaves in its hands. *)
LEMMA HandlerFrame ==
    ASSUME BInv, NEW h \in Handlers, HandlerStep(h)
    PROVE  /\ \A g \in Handlers : g # h => task'[g] = task[g]
           /\ record' = record \/ (record' = task[h].rec /\ task[h].pc # "idle")
           /\ OwnIDs'
           /\ UNCHANGED <<create, output>>
  <1>1. TypeOK /\ OwnIDs
    BY DEF BInv
  <1>2. \A g \in Handlers : g # h => task'[g] = task[g]
    BY <1>1, TypeFacts DEF HandlerStep, Read, CallFails, Refresh, FetchResults,
       ResultsNotFound, RefreshPending, Cleanup, Update, UpdateFails, Answer, Step
  <1>3. record' = record \/ (record' = task[h].rec /\ task[h].pc # "idle")
    BY DEF HandlerStep, Read, CallFails, Refresh, FetchResults, ResultsNotFound,
           RefreshPending, Cleanup, Update, UpdateFails
  <1>4. OwnIDs'
    <2>1. CASE FetchResults(h)
      <3>1. PICK kept \in SUBSET (IF task[h].rec.logged = {} THEN output ELSE {}) :
              queue' = queue \cup {[id |-> UsageID(h, i), item |-> i] : i \in kept}
        BY <2>1 DEF FetchResults, LogBatchUsageFromBatchResults
      <3>2. UNCHANGED usage
        BY <2>1 DEF FetchResults
      <3>3. QED
        BY <1>1, <3>1, <3>2 DEF OwnIDs, UsageID
    <2>2. CASE UNCHANGED usageVars
      BY <1>1, <2>2 DEF usageVars, OwnIDs
    <2>3. QED
      BY <2>1, <2>2 DEF HandlerStep, Read, CallFails, Refresh, ResultsNotFound,
                        RefreshPending, Cleanup, Update, UpdateFails
  <1>5. UNCHANGED <<create, output>>
    BY DEF HandlerStep, Read, CallFails, Refresh, FetchResults, ResultsNotFound,
           RefreshPending, Cleanup, Update, UpdateFails, providerVars
  <1>6. QED
    BY <1>2, <1>3, <1>4, <1>5

LEMMA StepFields ==
    ASSUME TypeOK, NEW h \in Handlers, NEW fields, Step(h, fields)
    PROVE  task'[h] = fields
  BY TypeFacts DEF Step

LEMMA HandlerCopies ==
    ASSUME BInv, NEW h \in Handlers, HandlerStep(h),
           NEW old \in Record, old = task[h].rec,
           NEW new \in Record, new = task'[h].rec, task'[h].pc # "idle"
    PROVE  GoodCopy(new)'
  <1>1. TypeOK /\ CopiesGood /\ TypeOK' /\ Progress
    BY NextTypeOK, NextProgress DEF BInv, Next
  <1>2. ASSUME NEW rec \in Record, GoodCopy(rec)
        PROVE  GoodCopy(rec)'
    BY <1>1, <1>2, StaysGood
  <1>3. task[h].pc # "idle" => GoodCopy(old) /\ GoodCopy(old)'
    BY <1>1, <1>2 DEF CopiesGood
  <1>4. task[h] \in Task
    BY <1>1, TypeFacts
  <1>5. ASSUME NEW op \in {"get", "cancel", "results"}, Read(h, op)
        PROVE  GoodCopy(new)'
    <2>1. new = record /\ record # NoRecord
      BY <1>1, <1>5, StepFields DEF Read
    <2>2. QED
      BY <1>1, <1>2, <2>1 DEF CopiesGood
  <1>6. CASE CallFails(h) \/ Update(h) \/ UpdateFails(h)
    BY <1>1, <1>6, StepFields DEF CallFails, Update, UpdateFails, Answer, Idle
  <1>7. ASSUME NEW answer, answer = "none" \/ (answer = upstream' /\ answer \in Status),
               task[h].pc # "idle", new = MergeStoredBatchFromUpstream(old, answer)
        PROVE  GoodCopy(new)'
    <2>1. CASE answer = "none"
      BY <1>3, <1>7, <2>1 DEF MergeStoredBatchFromUpstream
    <2>2. CASE answer # "none"
      <3>1. /\ new.status = answer /\ new.logged = old.logged /\ new.file = old.file
        BY <1>7, <2>2 DEF MergeStoredBatchFromUpstream, Record
      <3>2. Rank(answer) <= Rank(answer)
        BY <1>7, <2>2, RecordFacts
      <3>3. QED
        BY <1>3, <1>7, <2>2, <3>1, <3>2 DEF GoodCopy
    <2>3. QED
      BY <2>1, <2>2
  <1>8. CASE Refresh(h)
    <2>1. upstream' \in Status /\ task[h].pc # "idle"
      BY <1>1, <1>3, <1>8 DEF Refresh, GoodCopy, Progress, TypeOK
    <2>2. PICK answer \in {upstream', "none"} :
            new = MergeStoredBatchFromUpstream(old, answer)
      <3>1. PICK answer \in {upstream', "none"}, updated \in BOOLEAN :
              LET rec == MergeStoredBatchFromUpstream(task[h].rec, answer)
              IN  Step(h, [task[h] EXCEPT !.pc = AfterCall(rec), !.rec = rec,
                                          !.updated = updated,
                                          !.told = IF answer = "none" THEN 0 ELSE @])
        BY <1>8 DEF Refresh
      <3> DEFINE rec == MergeStoredBatchFromUpstream(task[h].rec, answer)
      <3>2. task'[h] = [task[h] EXCEPT !.pc = AfterCall(rec), !.rec = rec,
                                       !.updated = updated,
                                       !.told = IF answer = "none" THEN 0 ELSE @]
        BY <1>1, <3>1, StepFields
      <3>3. task'[h].rec = rec
        <4> HIDE DEF rec
        <4> QED
          BY <1>4, <3>2 DEF Task
      <3>4. QED
        BY <3>3
    <2>3. QED
      BY <1>7, <2>1, <2>2
  <1>9. CASE RefreshPending(h)
    <2>1. upstream' = upstream /\ upstream \in Status /\ task[h].pc # "idle"
      BY <1>1, <1>3, <1>9 DEF RefreshPending, GoodCopy, TypeOK, providerVars
    <2>2. PICK answer \in {upstream, "none"} :
            new = MergeStoredBatchFromUpstream(old, answer)
      BY <1>1, <1>4, <1>9, StepFields DEF RefreshPending, Task
    <2>3. QED
      BY <1>7, <2>1, <2>2
  <1>10. CASE ResultsNotFound(h)
    <2>1. new = old
      BY <1>1, <1>4, <1>10, StepFields DEF ResultsNotFound, Task
    <2>2. QED
      BY <1>3, <1>10, <2>1 DEF ResultsNotFound
  <1>11. CASE FetchResults(h)
    <2> DEFINE logged == IF task[h].rec.logged = {} THEN output ELSE {}
    <2>1. PICK updated \in {output # {}, TRUE} :
            Step(h, [task[h] EXCEPT !.pc = AfterCall(task[h].rec), !.updated = updated,
                                    !.rec.logged = task[h].rec.logged \cup logged])
      BY <1>11 DEF FetchResults
    <2>2. \A i \in logged : Accounted(i)'
      BY <1>11 DEF FetchResults, LogBatchUsageFromBatchResults, UsageID, Accounted
    <2>3. UNCHANGED upstream /\ task[h].pc # "idle"
      BY <1>11 DEF FetchResults, providerVars
    <2> HIDE DEF logged
    <2>4. new = [old EXCEPT !.logged = old.logged \cup logged]
      BY <1>1, <1>4, <2>1, StepFields DEF Task
    <2>5. new.status = old.status /\ new.file = old.file /\ new.logged = old.logged \cup logged
      BY <2>4 DEF Record
    <2>6. QED
      BY <1>3, <2>2, <2>3, <2>5 DEF GoodCopy
  <1>12. CASE Cleanup(h)
    <2>1. CASE /\ files' = files \ {task[h].rec.file}
               /\ Step(h, [task[h] EXCEPT !.pc = "update", !.rec.file = 0, !.updated = TRUE])
      <3>1. new = [old EXCEPT !.file = 0]
        BY <1>1, <1>4, <2>1, StepFields DEF Task
      <3>2. new.status = old.status /\ new.file = 0 /\ new.logged = old.logged
        BY <3>1 DEF Record
      <3>3. create'.file \notin files' /\ task[h].pc # "idle"
        BY <1>3, <1>12, <2>1 DEF Cleanup, GoodCopy
      <3>4. QED
        BY <1>3, <3>2, <3>3 DEF GoodCopy
    <2>2. CASE Step(h, [task[h] EXCEPT !.pc = "update"])
      <3>1. new = old
        BY <1>1, <1>4, <2>2, StepFields DEF Task
      <3>2. QED
        BY <1>3, <1>12, <3>1 DEF Cleanup
    <2>3. QED
      BY <1>12, <2>1, <2>2 DEF Cleanup
  <1>13. QED
    BY <1>5, <1>6, <1>8, <1>9, <1>10, <1>11, <1>12 DEF HandlerStep

LEMMA NextCopiesGood ==
    ASSUME BInv, [Next]_vars
    PROVE  CopiesGood' /\ OwnIDs'
  <1>1. TypeOK /\ CopiesGood /\ OwnIDs /\ Stages /\ TypeOK' /\ Progress
    BY NextTypeOK, NextProgress DEF BInv
  <1>2. ASSUME NEW rec \in Record, GoodCopy(rec)
        PROVE  GoodCopy(rec)'
    BY <1>1, <1>2, StaysGood
  <1>3. ASSUME UNCHANGED <<record, task>>, usage' \cup queue' \subseteq usage \cup queue
        PROVE  CopiesGood' /\ OwnIDs'
    <2>1. ASSUME NEW rec \in Record, rec = record', rec # NoRecord
          PROVE  GoodCopy(rec)'
      BY <1>1, <1>2, <1>3, <2>1 DEF CopiesGood
    <2>2. record' # NoRecord => GoodCopy(record)'
      BY <1>1, <2>1 DEF TypeOK
    <2>3. ASSUME NEW h \in Handlers, task'[h].pc # "idle", NEW rec \in Record, rec = task'[h].rec
          PROVE  GoodCopy(rec)'
      BY <1>1, <1>2, <1>3, <2>3 DEF CopiesGood
    <2>4. \A h \in Handlers : task'[h].pc # "idle" => GoodCopy(task[h].rec)'
      <3>1. \A h \in Handlers : task'[h].rec \in Record
        BY <1>1 DEF TypeOK
      <3>2. QED
        BY <2>3, <3>1
    <2>5. OwnIDs'
      BY <1>1, <1>3 DEF OwnIDs
    <2>6. QED
      BY <2>2, <2>4, <2>5 DEF CopiesGood
  <1>4. CASE StartCreate \/ SkipStage \/ RewriteStage \/ StageFails \/ Prepared
             \/ Submit \/ SubmitFails \/ SubmitUnanswered \/ RollbackFile \/ RollbackBatch
             \/ Produce \/ UpstreamEnds \/ FlushUsage \/ UNCHANGED vars
    BY <1>3, <1>4 DEF StartCreate, SkipStage, RewriteStage, StageFails, Prepared, Submit,
                      SubmitFails, SubmitUnanswered, RollbackFile, RollbackBatch,
                      Produce, UpstreamEnds, FlushUsage, vars, usageVars
  <1>5. CASE Persist \/ PersistFails
    <2>1. /\ UNCHANGED <<upstream, queue, usage, task, files, output>> /\ create'.file = create.file
          /\ record' = record \/ record' = NewRecord
          /\ create.pc = "persist" /\ create'.pc \in {"done", "rollback"}
      BY <1>1, <1>5, TypeFacts DEF Persist, PersistFails, providerVars, usageVars, Creation
    <2>2. upstream # "none" /\ record = NoRecord /\ \A h \in Handlers : task[h].pc = "idle"
      BY <1>1, <2>1 DEF Stages, CopiesGood, GoodCopy, Created
    <2>3. ASSUME NEW rec, rec = NewRecord PROVE GoodCopy(rec)'
      <3>1. Rank("running") = 0 /\ Rank(upstream) \in 0 .. 2
        BY <1>1, RecordFacts DEF Rank, TypeOK
      <3>2. rec.status = "running" /\ rec.logged = {} /\ rec.file = create'.file
        BY <2>1, <2>3 DEF NewRecord
      <3>3. Created' /\ upstream' # "none" /\ Rank(upstream') = Rank(upstream)
        BY <2>1, <2>2 DEF Created
      <3>4. Rank(rec.status) <= Rank(upstream')
        BY <3>1, <3>2, <3>3
      <3>5. QED
        BY <3>2, <3>3, <3>4 DEF GoodCopy
    <2>4. record' # NoRecord => GoodCopy(record)'
      BY <2>1, <2>2, <2>3
    <2>5. \A h \in Handlers : task'[h].pc = "idle"
      BY <2>1, <2>2
    <2>6. OwnIDs'
      BY <1>1, <2>1 DEF OwnIDs
    <2>7. QED
      BY <2>4, <2>5, <2>6 DEF CopiesGood
  <1>6. ASSUME NEW h \in Handlers, HandlerStep(h)
        PROVE  CopiesGood' /\ OwnIDs'
    <2>1. /\ \A g \in Handlers : g # h => task'[g] = task[g]
          /\ record' = record \/ (record' = task[h].rec /\ task[h].pc # "idle")
          /\ OwnIDs'
      BY <1>6, HandlerFrame
    <2>2. ASSUME NEW rec \in Record, rec = record', rec # NoRecord
          PROVE  GoodCopy(rec)'
      BY <1>1, <1>2, <2>1, <2>2 DEF CopiesGood
    <2>3. record' # NoRecord => GoodCopy(record)'
      BY <1>1, <2>2 DEF TypeOK
    <2>4. ASSUME NEW g \in Handlers, task'[g].pc # "idle", NEW rec \in Record, rec = task'[g].rec
          PROVE  GoodCopy(rec)'
      <3>1. CASE g = h
        <4>1. task[h].rec \in Record
          BY <1>1 DEF TypeOK
        <4>2. QED
          BY <1>6, <2>4, <3>1, <4>1, HandlerCopies
      <3>2. CASE g # h
        BY <1>1, <1>2, <2>1, <2>4, <3>2 DEF CopiesGood
      <3>3. QED
        BY <3>1, <3>2
    <2>5. \A g \in Handlers : task'[g].pc # "idle" => GoodCopy(task[g].rec)'
      <3>1. \A g \in Handlers : task'[g].rec \in Record
        BY <1>1 DEF TypeOK
      <3>2. QED
        BY <2>4, <3>1
    <2>6. QED
      BY <2>1, <2>3, <2>5 DEF CopiesGood
  <1>7. CASE Restart
    <2>1. ASSUME NEW rec \in Record, rec = record', rec # NoRecord
          PROVE  GoodCopy(rec)'
      BY <1>1, <1>2, <1>7, <2>1 DEF CopiesGood, Restart
    <2>2. record' # NoRecord => GoodCopy(record)'
      BY <1>1, <2>1 DEF TypeOK
    <2>3. \A h \in Handlers : task'[h].pc = "idle"
      BY <1>7 DEF Restart, Idle
    <2>4. OwnIDs'
      BY <1>1, <1>7 DEF Restart, OwnIDs
    <2>5. QED
      BY <2>2, <2>3, <2>4 DEF CopiesGood
  <1>8. QED
    BY <1>4, <1>5, <1>6, <1>7 DEF Next, CreateStep

(* What the requests about a batch do to what Create has left. *)
LEMMA HandlerLeaves ==
    ASSUME BInv, NEW h \in Handlers, HandlerStep(h)
    PROVE  /\ UNCHANGED <<create, hints, excused>>
           /\ Created
           /\ upstream' # "none" /\ (upstream # "running" => upstream' # "running")
           /\ files' = files \/ (files' \subseteq files /\ upstream' = "ended")
           /\ record # NoRecord /\ record' # NoRecord
  <1>1. TypeOK /\ CopiesGood /\ Deciding /\ Progress
    BY NextProgress DEF BInv, Next
  <1>2. UNCHANGED <<create, hints, excused>>
    BY DEF HandlerStep, Read, CallFails, Refresh, FetchResults, ResultsNotFound,
           RefreshPending, Cleanup, Update, UpdateFails, providerVars
  <1>3. record # NoRecord
    BY <1>1 DEF Deciding, HandlerStep, Read, CallFails, Refresh, FetchResults, ResultsNotFound,
           RefreshPending, Cleanup, Update, UpdateFails
  <1>4. Created /\ upstream # "none"
    BY <1>1, <1>3 DEF CopiesGood, GoodCopy
  <1>5. upstream' = upstream \/ upstream' = Cancelled(upstream)
    BY DEF HandlerStep, Read, CallFails, Refresh, FetchResults, ResultsNotFound,
           RefreshPending, Cleanup, Update, UpdateFails, providerVars
  <1>6. upstream' # "none" /\ (upstream # "running" => upstream' # "running")
    BY <1>1, <1>4, <1>5 DEF Progress, Cancelled
  <1>7. files' = files \/ (files' \subseteq files /\ upstream' = "ended")
    <2>1. CASE Cleanup(h)
      BY <1>1, <2>1 DEF Cleanup, Deciding
    <2>2. CASE ~Cleanup(h)
      BY <2>2 DEF HandlerStep, Read, CallFails, Refresh, FetchResults, ResultsNotFound,
                  RefreshPending, Update, UpdateFails, providerVars
    <2>3. QED
      BY <2>1, <2>2
  <1>8. record' # NoRecord
    <2>1. record' = record \/ (record' = task[h].rec /\ task[h].pc # "idle")
      BY HandlerFrame
    <2>2. task[h].pc # "idle" => task[h].rec.status # "none"
      BY <1>1 DEF CopiesGood, GoodCopy
    <2>3. QED
      BY <1>3, <2>1, <2>2 DEF NoRecord
  <1>9. QED
    BY <1>2, <1>3, <1>4, <1>6, <1>7, <1>8

LEMMA NextStages ==
    ASSUME BInv, [Next]_vars
    PROVE  Stages'
  <1>1. TypeOK /\ CopiesGood /\ Stages
    BY DEF BInv
  <1> USE TypeFacts, BatchAssumption DEF Creation, FileID
  <1>2. CASE StartCreate \/ SkipStage \/ Prepared
    BY <1>1, <1>2 DEF StartCreate, SkipStage, Prepared, Preparing, Stages, providerVars
  <1>3. CASE RewriteStage
    <2>1. create'.pc = "prepare" /\ create'.file = create.stage /\ create.pc = "prepare"
      BY <1>3 DEF RewriteStage, Preparing
    <2>2. create.stage \in files'
      BY <1>3 DEF RewriteStage
    <2>3. QED
      BY <1>1, <1>3, <2>1, <2>2 DEF RewriteStage, Stages
  <1>4. CASE StageFails \/ SubmitFails \/ SubmitUnanswered
    BY <1>1, <1>4 DEF StageFails, SubmitFails, SubmitUnanswered, Preparing, Stages
  <1>5. CASE Submit
    BY <1>1, <1>5 DEF Submit, Stages
  <1>6. CASE Persist \/ PersistFails
    <2>1. NewRecord # NoRecord
      BY DEF NewRecord, NoRecord
    <2>2. QED
      BY <1>1, <1>6, <2>1 DEF Persist, PersistFails, Stages, providerVars
  <1>7. CASE RollbackFile \/ RollbackBatch
    BY <1>1, <1>7 DEF RollbackFile, RollbackBatch, Stages
  <1>8. ASSUME NEW h \in Handlers, HandlerStep(h)
        PROVE  Stages'
    <2>1. /\ UNCHANGED <<create, hints>> /\ Created
          /\ upstream' # "none"
          /\ files' = files \/ upstream' = "ended"
          /\ record # NoRecord => record' # NoRecord
      BY <1>8, HandlerLeaves
    <2>2. upstream = "ended" => upstream' = "ended"
      BY <1>8, NextProgress DEF Progress, Next
    <2>3. QED
      BY <1>1, <2>1, <2>2 DEF Stages, Created
  <1>9. CASE Produce \/ UpstreamEnds \/ FlushUsage
    BY <1>1, <1>9 DEF Produce, UpstreamEnds, FlushUsage, providerVars, Stages
  <1>10. CASE Restart
    BY <1>1, <1>10 DEF Restart, Stages
  <1>11. CASE UNCHANGED vars
    BY <1>1, <1>11 DEF vars, providerVars, Stages
  <1>12. QED
    BY <1>2, <1>3, <1>4, <1>5, <1>6, <1>7, <1>8, <1>9, <1>10, <1>11 DEF Next, CreateStep

LEMMA NextUnexcused ==
    ASSUME BInv, [Next]_vars
    PROVE  Unexcused'
  <1>1. TypeOK /\ CopiesGood /\ Stages /\ Unexcused
    BY DEF BInv
  <1> USE TypeFacts, BatchAssumption DEF Creation, FileID
  <1>2. CASE StartCreate \/ SkipStage \/ Prepared
    BY <1>1, <1>2 DEF StartCreate, SkipStage, Prepared, Preparing, Unexcused, providerVars
  <1>3. CASE RewriteStage
    <2>1. create'.pc = "prepare" /\ create'.file = create.stage /\ create.pc = "prepare"
      BY <1>3 DEF RewriteStage, Preparing
    <2>2. record = NoRecord
      BY <1>1, <2>1 DEF CopiesGood, GoodCopy, Created
    <2>3. QED
      BY <1>1, <1>3, <2>1, <2>2 DEF RewriteStage, Unexcused
  <1>4. CASE StageFails \/ SubmitFails
    <2>1. create.pc \in {"prepare", "submit"} /\ create'.pc = "failed"
          /\ create'.file = create.file /\ UNCHANGED <<record, upstream>>
      <3>1. CASE StageFails
        BY <3>1 DEF StageFails, Preparing
      <3>2. CASE SubmitFails
        BY <3>2 DEF SubmitFails
      <3>3. QED
        BY <1>4, <3>1, <3>2
    <2>2. record = NoRecord /\ upstream = "none"
      BY <1>1, <2>1 DEF CopiesGood, GoodCopy, Created, Stages
    <2>3. ~excused' => ~excused /\ files' = files \ {create.file}
      BY <1>4 DEF StageFails, SubmitFails, CleanupPrepared
    <2>4. QED
      BY <1>1, <2>1, <2>2, <2>3 DEF Unexcused
  <1>5. CASE SubmitUnanswered
    BY <1>5 DEF SubmitUnanswered, Unexcused
  <1>6. CASE Submit
    BY <1>1, <1>6 DEF Submit, Unexcused
  <1>7. CASE Persist \/ PersistFails
    BY <1>1, <1>7 DEF Persist, PersistFails, Unexcused, providerVars
  <1>8. CASE RollbackFile
    BY <1>1, <1>8 DEF RollbackFile, CleanupPrepared, Unexcused
  <1>9. CASE RollbackBatch
    <2>1. ~excused' => ~excused /\ upstream' # "running"
      BY <1>9 DEF RollbackBatch, Cancelled
    <2>2. QED
      BY <1>1, <1>9, <2>1 DEF RollbackBatch, Unexcused
  <1>10. ASSUME NEW h \in Handlers, HandlerStep(h)
         PROVE  Unexcused'
    <2>1. /\ UNCHANGED <<create, excused>>
          /\ upstream # "running" => upstream' # "running"
          /\ files' \subseteq files
          /\ Created
          /\ record # NoRecord
      BY <1>10, HandlerLeaves
    <2>2. QED
      BY <1>1, <2>1 DEF Unexcused
  <1>11. CASE Produce \/ UpstreamEnds \/ FlushUsage
    BY <1>1, <1>11 DEF Produce, UpstreamEnds, FlushUsage, providerVars, Unexcused
  <1>12. CASE Restart
    <2>1. create.pc = "idle" => files = {} /\ record = NoRecord /\ upstream = "none"
      BY <1>1 DEF Stages, CopiesGood, GoodCopy, Created
    <2>2. ~excused' => ~excused /\ create.pc \in {"idle", "done", "failed"}
      BY <1>12 DEF Restart
    <2>3. create'.pc = (IF create.pc = "done" THEN "done" ELSE "failed")
          /\ create'.file = create.file /\ UNCHANGED <<files, record, upstream>>
      BY <1>12 DEF Restart
    <2>4. QED
      BY <1>1, <2>1, <2>2, <2>3 DEF Unexcused
  <1>13. CASE UNCHANGED vars
    BY <1>1, <1>13 DEF vars, providerVars, Unexcused
  <1>14. QED
    BY <1>2, <1>3, <1>4, <1>5, <1>6, <1>7, <1>8, <1>9, <1>10, <1>11, <1>12, <1>13
    DEF Next, CreateStep

(* A handler decides on a status the provider reported after the request   *)
(* came in.                                                                *)
LEMMA HandlerDecides ==
    ASSUME BInv, NEW h \in Handlers, HandlerStep(h),
           NEW t \in Task, t = task'[h], t.pc # "idle"
    PROVE  /\ t.told <= Rank(upstream')
           /\ t.pc = "cleanup" => upstream' = "ended"
           /\ t.pc = "pending" => t.op = "results"
           /\ t.op \in {"get", "cancel"} /\ t.pc \in {"cleanup", "update"}
                => Rank(t.rec.status) >= t.told
  <1>1. TypeOK /\ CopiesGood /\ Deciding /\ FreshAnswers /\ TypeOK' /\ Progress
    BY NextTypeOK, NextProgress DEF BInv, Next
  <1>2. task[h] \in Task /\ Rank(upstream) \in 0 .. 2 /\ Rank(upstream') \in 0 .. 2
    BY <1>1, TypeFacts, RecordFacts DEF TypeOK
  <1>3. Rank(upstream) <= Rank(upstream') /\ (upstream = "ended" => upstream' = "ended")
    BY <1>1 DEF Progress
  <1>4. ASSUME NEW op \in {"get", "cancel", "results"}, Read(h, op)
        PROVE  t.told <= Rank(upstream') /\ t.pc = "call"
    <2>1. t = [op |-> op, pc |-> "call", rec |-> record, updated |-> FALSE,
               told |-> IF op = "results" THEN 0 ELSE told]
      BY <1>1, <1>4, StepFields DEF Read
    <2>2. told \in 0 .. 2 /\ told <= Rank(upstream)
      BY <1>1 DEF TypeOK, Deciding
    <2>3. QED
      BY <1>2, <1>3, <2>1, <2>2
  <1>5. CASE CallFails(h) \/ Update(h) \/ UpdateFails(h)
    BY <1>1, <1>5, StepFields DEF CallFails, Update, UpdateFails, Answer, Idle
  <1>6. ASSUME task[h].pc # "idle", t.told = task[h].told
        PROVE  t.told <= Rank(upstream')
    BY <1>1, <1>2, <1>3, <1>6 DEF Deciding, Task
  <1>ended. ASSUME task[h].pc # "idle"
         PROVE  AfterCall(task[h].rec) = "cleanup" => upstream' = "ended"
    <2>1. Rank(task[h].rec.status) <= Rank(upstream)
      BY <1>1, <1>ended DEF CopiesGood, GoodCopy
    <2>2. task[h].rec.status = "ended" => upstream = "ended"
      BY <2>1 DEF Rank
    <2>3. QED
      BY <1>3, <2>2 DEF AfterCall, IsTerminalBatchStatus
  <1>7. CASE Refresh(h)
    <2>1. PICK answer \in {upstream', "none"}, updated \in BOOLEAN :
            LET rec == MergeStoredBatchFromUpstream(task[h].rec, answer)
            IN  t = [task[h] EXCEPT !.pc = AfterCall(rec), !.rec = rec,
                                    !.updated = updated,
                                    !.told = IF answer = "none" THEN 0 ELSE @]
      BY <1>1, <1>7, StepFields DEF Refresh
    <2> DEFINE rec == MergeStoredBatchFromUpstream(task[h].rec, answer)
    <2>2. /\ t.told = (IF answer = "none" THEN 0 ELSE task[h].told)
          /\ t.pc = AfterCall(rec) /\ t.rec = rec
      <3> HIDE DEF rec
      <3> QED
        BY <1>2, <2>1 DEF Task, rec
    <2>3. CASE answer = "none"
      <3>1. rec = task[h].rec /\ rec \in Record
        BY <1>2, <2>3 DEF MergeStoredBatchFromUpstream, Task
      <3>2. Rank(rec.status) \in 0 .. 2
        BY <3>1, RecordFacts DEF Record
      <3>3. t.told = 0 /\ (t.pc = "cleanup" => upstream' = "ended")
        BY <1>7, <1>ended, <2>2, <2>3, <3>1 DEF Refresh
      <3>4. t.rec.status = rec.status /\ t.pc \in {"cleanup", "update"}
        BY <2>2, AfterCallType
      <3>5. QED
        BY <1>2, <3>2, <3>3, <3>4
    <2>4. CASE answer # "none"
      <3>1. rec.status = upstream'
        BY <1>2, <2>1, <2>4 DEF MergeStoredBatchFromUpstream, Task, Record
      <3>2. AfterCall(rec) = "cleanup" => upstream' = "ended"
        BY <3>1 DEF AfterCall, IsTerminalBatchStatus
      <3>3. t.told <= Rank(upstream') /\ t.told \in 0 .. 2
        BY <1>6, <1>7, <2>2, <2>4 DEF Refresh, Task
      <3>4. t.rec.status = upstream' /\ t.pc \in {"cleanup", "update"}
            /\ (t.pc = "cleanup" => upstream' = "ended")
        BY <2>2, <3>1, <3>2, AfterCallType
      <3>5. QED
        BY <1>2, <3>3, <3>4
    <2>5. QED
      BY <2>3, <2>4
  <1>8. CASE ResultsNotFound(h)
    <2>1. t = [task[h] EXCEPT !.pc = "pending"]
      BY <1>1, <1>8, StepFields DEF ResultsNotFound
    <2>2. t.told = task[h].told /\ t.pc = "pending" /\ t.op = task[h].op
      BY <1>2, <2>1 DEF Task
    <2>3. QED
      BY <1>6, <1>8, <2>2 DEF ResultsNotFound
  <1>9. CASE RefreshPending(h)
    <2>1. PICK answer : t = [task[h] EXCEPT
            !.pc = "update", !.updated = TRUE,
            !.rec = MergeStoredBatchFromUpstream(task[h].rec, answer)]
      BY <1>1, <1>9, StepFields DEF RefreshPending
    <2>2. t.told = task[h].told /\ t.pc = "update" /\ t.op = task[h].op
      BY <1>2, <2>1 DEF Task
    <2>3. t.op = "results"
      BY <1>1, <1>9, <2>2 DEF RefreshPending, Deciding
    <2>4. QED
      BY <1>6, <1>9, <2>2, <2>3 DEF RefreshPending
  <1>10. CASE FetchResults(h)
    <2> DEFINE logged == task[h].rec.logged
                           \cup (IF task[h].rec.logged = {} THEN output ELSE {})
    <2> HIDE DEF logged
    <2>1. PICK updated \in {output # {}, TRUE} :
            t = [task[h] EXCEPT !.pc = AfterCall(task[h].rec), !.updated = updated,
                                !.rec.logged = logged]
      BY <1>1, <1>10, StepFields DEF FetchResults, logged
    <2>2. t.told = task[h].told /\ t.op = "results" /\ t.pc = AfterCall(task[h].rec)
      <3>1. t.told = task[h].told /\ t.op = task[h].op /\ t.pc = AfterCall(task[h].rec)
        BY <1>2, <2>1 DEF Task
      <3>2. QED
        BY <1>10, <3>1 DEF FetchResults
    <2>3. QED
      BY <1>6, <1>10, <1>ended, <2>2 DEF FetchResults
  <1>11. CASE Cleanup(h)
    <2>1. /\ t.told = task[h].told /\ t.pc = "update" /\ t.op = task[h].op
          /\ t.rec.status = task[h].rec.status
      <3>1. \/ t = [task[h] EXCEPT !.pc = "update", !.rec.file = 0, !.updated = TRUE]
            \/ t = [task[h] EXCEPT !.pc = "update"]
        BY <1>1, <1>11, StepFields DEF Cleanup
      <3>2. CASE t = [task[h] EXCEPT !.pc = "update"]
        BY <1>2, <3>2 DEF Task
      <3>3. CASE t = [task[h] EXCEPT !.pc = "update", !.rec.file = 0, !.updated = TRUE]
        <4>1. t.told = task[h].told /\ t.pc = "update" /\ t.op = task[h].op
              /\ t.rec = [task[h].rec EXCEPT !.file = 0]
          BY <1>2, <3>3 DEF Task
        <4>2. t.rec.status = task[h].rec.status
          BY <1>2, <4>1 DEF Task, Record
        <4>3. QED
          BY <4>1, <4>2
      <3>4. QED
        BY <3>1, <3>2, <3>3
    <2>2. QED
      BY <1>1, <1>6, <1>11, <2>1 DEF Cleanup, FreshAnswers
  <1>12. QED
    BY <1>4, <1>5, <1>7, <1>8, <1>10, <1>11, <1>9 DEF HandlerStep

LEMMA NextDeciding ==
    ASSUME BInv, [Next]_vars
    PROVE  Deciding' /\ FreshAnswers'
  <1>1. TypeOK /\ CopiesGood /\ Deciding /\ FreshAnswers /\ TypeOK' /\ Progress
    BY NextTypeOK, NextProgress DEF BInv
  <1>2. /\ told \in 0 .. 2 /\ Rank(upstream) \in 0 .. 2 /\ Rank(upstream') \in 0 .. 2
        /\ Rank(upstream) <= Rank(upstream') /\ (upstream = "ended" => upstream' = "ended")
    BY <1>1, TypeFacts, RecordFacts DEF TypeOK, Progress
  <1>3. ASSUME NEW h \in Handlers, task'[h] = task[h], record # NoRecord => record' # NoRecord
        PROVE  /\ task'[h].pc # "idle" => task'[h].told <= Rank(upstream') /\ record' # NoRecord
               /\ task'[h].pc = "cleanup" => upstream' = "ended"
               /\ task'[h].pc = "pending" => task'[h].op = "results"
               /\ task'[h].op \in {"get", "cancel"} /\ task'[h].pc \in {"cleanup", "update"}
                    => Rank(task'[h].rec.status) >= task'[h].told
    BY <1>1, <1>2, <1>3, TypeFacts DEF Deciding, FreshAnswers, Task
  <1>4. ASSUME UNCHANGED <<task, told>>, record # NoRecord => record' # NoRecord
        PROVE  Deciding' /\ FreshAnswers'
    <2>1. told' <= Rank(upstream')
      BY <1>1, <1>2, <1>4 DEF Deciding
    <2>2. QED
      BY <1>3, <1>4, <2>1 DEF Deciding, FreshAnswers
  <1>5. NewRecord # NoRecord
    BY DEF NewRecord, NoRecord
  <1>6. CASE CreateStep \/ Produce \/ UpstreamEnds \/ FlushUsage \/ UNCHANGED vars
    <2>1. UNCHANGED <<task, told>> /\ (record # NoRecord => record' # NoRecord)
      BY <1>5, <1>6 DEF CreateStep, StartCreate, SkipStage, RewriteStage, StageFails, Prepared,
          Submit, SubmitFails, SubmitUnanswered, Persist, PersistFails, RollbackFile,
          RollbackBatch, Produce, UpstreamEnds, FlushUsage, vars
    <2>2. QED
      BY <1>4, <2>1
  <1>7. ASSUME NEW h \in Handlers, HandlerStep(h)
        PROVE  Deciding' /\ FreshAnswers'
    <2>1. record' # NoRecord /\ \A g \in Handlers : g # h => task'[g] = task[g]
      BY <1>7, HandlerLeaves, HandlerFrame
    <2>2. told' <= Rank(upstream')
      <3>1. CASE Update(h)
        <4>1. task[h].rec \in Record /\ Rank(task[h].rec.status) <= Rank(upstream)
          BY <1>1, <3>1, TypeFacts DEF Update, CopiesGood, GoodCopy, Task
        <4>2. Rank(task[h].rec.status) \in 0 .. 2
          BY <4>1, RecordFacts DEF Record
        <4>3. told' \in {told, Rank(task[h].rec.status)} /\ told <= Rank(upstream)
          BY <1>1, <3>1 DEF Update, Deciding
        <4>4. QED
          BY <1>2, <4>1, <4>2, <4>3
      <3>2. CASE UNCHANGED told
        BY <1>1, <1>2, <3>2 DEF Deciding
      <3>3. QED
        BY <1>7, <3>1, <3>2 DEF HandlerStep, Read, CallFails, Refresh, FetchResults,
            ResultsNotFound, RefreshPending, Cleanup, UpdateFails
    <2>3. task'[h] \in Task
      BY <1>1, TypeFacts DEF TypeOK, Task
    <2>4. task'[h].pc # "idle" =>
              /\ task'[h].told <= Rank(upstream')
              /\ task'[h].pc = "cleanup" => upstream' = "ended"
              /\ task'[h].pc = "pending" => task'[h].op = "results"
              /\ task'[h].op \in {"get", "cancel"} /\ task'[h].pc \in {"cleanup", "update"}
                   => Rank(task'[h].rec.status) >= task'[h].told
      BY <1>7, <2>3, HandlerDecides
    <2>5. QED
      BY <1>3, <2>1, <2>2, <2>4 DEF Deciding, FreshAnswers
  <1>8. CASE Restart
    <2>1. \A h \in Handlers : task'[h] = Idle
      BY <1>8 DEF Restart
    <2>2. told' <= Rank(upstream')
      BY <1>1, <1>2, <1>8 DEF Restart, Deciding
    <2>3. QED
      BY <2>1, <2>2 DEF Deciding, FreshAnswers, Idle
  <1>9. QED
    BY <1>6, <1>7, <1>8 DEF Next

-----------------------------------------------------------------------------
LEMMA BatchInvariance == Spec => []BInv
  <1>1. BInv /\ [Next]_vars => BInv'
    <2> SUFFICES ASSUME BInv, [Next]_vars PROVE BInv'
      OBVIOUS
    <2>1. QED
      BY NextTypeOK, NextCopiesGood, NextStages, NextUnexcused, NextDeciding DEF BInv
  <1>2. QED
    BY InitBInv, <1>1, PTL DEF Spec

(* Type correctness of the batch, its provider and its requests. *)
THEOREM BatchTypeOK == Spec => []TypeOK
  <1>1. BInv => TypeOK
    BY DEF BInv
  <1>2. QED
    BY BatchInvariance, <1>1, PTL

(* However many requests log an item, the usage table has one row for it   *)
(* (deterministicBatchUsageID and the store that ignores a row it has);    *)
(* and an item the record says is logged has a row or is queued for one,   *)
(* unless the logger dropped an entry of it or the process ended first.    *)
THEOREM UsageOnce == Spec => []UsageAccounted
  <1>1. BInv => UsageAccounted
    <2> SUFFICES ASSUME BInv PROVE UsageAccounted
      OBVIOUS
    <2>1. TypeOK /\ OwnIDs /\ CopiesGood
      BY DEF BInv
    <2>2. ASSUME NEW r \in usage, NEW s \in usage, r.item = s.item
          PROVE  r = s
      <3>1. r = [id |-> r.id, item |-> r.item] /\ s = [id |-> s.id, item |-> s.item]
        BY <2>1, TypeFacts DEF Entry
      <3>2. r.id = s.id
        BY <2>1, <2>2 DEF OwnIDs
      <3>3. QED
        BY <2>2, <3>1, <3>2
    <2>3. ASSUME NEW i \in record.logged, i \notin lost
          PROVE  \E r \in usage \cup queue : r.item = i
      <3>1. record # NoRecord
        BY <2>3 DEF NoRecord
      <3>2. [id |-> i, item |-> i] \in usage \cup queue
        BY <2>1, <2>3, <3>1 DEF CopiesGood, GoodCopy, Accounted
      <3>3. [id |-> i, item |-> i].item = i
        OBVIOUS
      <3>4. QED
        BY <3>2, <3>3
    <2>4. QED
      BY <2>2, <2>3 DEF UsageAccounted
  <1>2. QED
    BY BatchInvariance, <1>1, PTL

(* What Create and the requests leave at the provider, a record knows of. *)
THEOREM NoOrphans == Spec => []NothingOrphaned
  <1>1. BInv => NothingOrphaned
    <2> SUFFICES ASSUME BInv, create.pc \in {"done", "failed"}, ~excused
                 PROVE  /\ \A f \in files : record.file = f
                        /\ upstream = "running" => record # NoRecord
                        /\ ~hints
      BY DEF NothingOrphaned
    <2>1. CopiesGood /\ Stages /\ Unexcused
      BY DEF BInv
    <2>2. \A f \in files : record.file = f
      <3>1. CASE create.pc = "done"
        BY <2>1, <3>1 DEF CopiesGood, GoodCopy, Stages, Unexcused
      <3>2. CASE create.pc = "failed"
        BY <2>1, <3>2 DEF Unexcused
      <3>3. QED
        BY <3>1, <3>2
    <2>3. QED
      BY <2>1, <2>2 DEF Stages, Unexcused
  <1>2. QED
    BY BatchInvariance, <1>1, PTL

(* A running batch has its input file, whoever cleans up after it. *)
THEOREM InputKept == Spec => []InputKeptWhileRunning
  <1>1. BInv => InputKeptWhileRunning
    BY DEF BInv, InputKeptWhileRunning, Stages, Unexcused
  <1>2. QED
    BY BatchInvariance, <1>1, PTL

(* No request answers a status behind one answered before it came in. *)
THEOREM AnswersFresh == Spec => []FreshAnswers
  <1>1. BInv => FreshAnswers
    BY DEF BInv
  <1>2. QED
    BY BatchInvariance, <1>1, PTL
=============================================================================
