------------------------- MODULE AsyncLoggerProofs -------------------------
(***************************************************************************)
(* For any number of Write calls and any buffer and batch sizes, the       *)
(* asynchronous logger is type-correct and implements DurableLog.          *)
(***************************************************************************)
EXTENDS AsyncLogger, FiniteSetTheorems, TLAPS

\* Every accepted entry is in exactly one place.
Places ==
    /\ buffer \cap batch = {}
    /\ (buffer \cup batch) \cap (stored \cup lost) = {}
    /\ \A e \in buffer \cup batch \cup stored \cup lost : write[e] = "queued"

\* How far Close has come bounds where Write and flushLoop can be.
Phases ==
    /\ DoneClosed => closed /\ \A e \in Entries : write[e] # "sending"
    /\ closer = "waitWrites" => closed
    /\ flusher \in {"draining", "finalFlush", "exited"} => DoneClosed
    /\ flusher \in {"finalFlush", "exited"} => buffer = {}
    /\ flusher = "exited" => batch = {}
    /\ storeClosed => flusher = "exited"

LInv == TypeOK /\ Places /\ Phases

LEMMA InitLInv == Init => LInv
  <1> SUFFICES ASSUME Init PROVE LInv
    OBVIOUS
  <1>1. TypeOK
    <2>1. Cardinality(buffer) <= BufferSize
      BY LoggerAssumption, FS_EmptySet DEF Init
    <2>2. QED
      BY <2>1 DEF Init, TypeOK
  <1>2. Places /\ Phases
    BY DEF Init, Places, Phases, DoneClosed
  <1>3. QED
    BY <1>1, <1>2 DEF LInv

(* The channel never holds more than its capacity. *)
LEMMA BufferBounded ==
    ASSUME TypeOK, NEW e \in Entries
    PROVE  /\ Cardinality(buffer) \in Nat
           /\ Cardinality(buffer) < BufferSize
                => Cardinality(buffer \cup {e}) <= BufferSize
           /\ Cardinality(buffer \ {e}) <= BufferSize
  <1>1. IsFiniteSet(buffer)
    BY LoggerAssumption, FS_Subset DEF TypeOK
  <1>2. Cardinality(buffer) \in Nat
    BY <1>1, FS_CardinalityType
  <1>3. Cardinality(buffer \cup {e}) <= Cardinality(buffer) + 1
    <2>1. Cardinality(buffer \cup {e}) =
            IF e \in buffer THEN Cardinality(buffer) ELSE Cardinality(buffer) + 1
      BY <1>1, FS_AddElement
    <2>2. QED
      BY <1>2, <2>1
  <1>4. Cardinality(buffer \ {e}) <= Cardinality(buffer)
    BY <1>1, <1>2, FS_RemoveElement
  <1>5. Cardinality(buffer \cup {e}) \in Nat /\ Cardinality(buffer \ {e}) \in Nat
    BY <1>1, FS_AddElement, FS_RemoveElement, FS_CardinalityType
  <1>6. Cardinality(buffer) <= BufferSize
    BY DEF TypeOK
  <1>7. QED
    BY <1>2, <1>3, <1>4, <1>5, <1>6, LoggerAssumption

LEMMA NextTypeOK == TypeOK /\ [Next]_vars => TypeOK'
  <1> SUFFICES ASSUME TypeOK, [Next]_vars PROVE TypeOK'
    OBVIOUS
  <1>1. ASSUME NEW e \in Entries, CheckClosed(e) \/ RegisterWrite(e) \/ RecheckClosed(e)
        PROVE  TypeOK'
    BY <1>1 DEF CheckClosed, RegisterWrite, RecheckClosed, WriteAt, loggerRest, TypeOK
  <1>2. ASSUME NEW e \in Entries, Send(e) PROVE TypeOK'
    <2>1. Cardinality(buffer') <= BufferSize /\ buffer' \in SUBSET Entries
      BY <1>2, BufferBounded DEF Send, TypeOK
    <2>2. QED
      BY <1>2, <2>1 DEF Send, WriteAt, loggerRest, TypeOK
  <1>3. CASE Receive \/ Drain
    <2>1. PICK e \in buffer : buffer' = buffer \ {e} /\ batch' = batch \cup {e}
      BY <1>3 DEF Receive, Drain
    <2>2. Cardinality(buffer') <= BufferSize
      BY <2>1, BufferBounded DEF TypeOK
    <2>3. QED
      BY <1>3, <2>1, <2>2 DEF Receive, Drain, TypeOK
  <1>4. CASE Tick \/ StartDraining \/ DrainComplete
    BY <1>4 DEF Tick, StartDraining, DrainComplete, TypeOK
  <1>5. CASE Flush \/ FinalFlush
    BY <1>5 DEF Flush, FinalFlush, WriteBatch, TypeOK
  <1>6. CASE BeginClose \/ SignalDone \/ CloseStore
    BY <1>6 DEF BeginClose, SignalDone, CloseStore, TypeOK
  <1>7. CASE UNCHANGED vars
    BY <1>7 DEF vars, TypeOK
  <1>8. QED
    BY <1>1, <1>2, <1>3, <1>4, <1>5, <1>6, <1>7 DEF Next, Write, FlushLoop, Close

LEMMA NextPlaces == TypeOK /\ Places /\ [Next]_vars => Places'
  <1> SUFFICES ASSUME TypeOK, Places, [Next]_vars PROVE Places'
    OBVIOUS
  <1> USE DEF Places
  <1>1. ASSUME NEW e \in Entries, CheckClosed(e) \/ RegisterWrite(e) \/ RecheckClosed(e)
        PROVE  Places'
    BY <1>1 DEF CheckClosed, RegisterWrite, RecheckClosed, WriteAt, loggerRest, TypeOK
  <1>2. ASSUME NEW e \in Entries, Send(e) PROVE Places'
    BY <1>2 DEF Send, WriteAt, loggerRest, TypeOK
  <1>3. CASE Receive \/ Drain
    BY <1>3 DEF Receive, Drain
  <1>4. CASE Tick \/ StartDraining \/ DrainComplete
    BY <1>4 DEF Tick, StartDraining, DrainComplete
  <1>5. CASE Flush \/ FinalFlush
    BY <1>5 DEF Flush, FinalFlush, WriteBatch
  <1>6. CASE BeginClose \/ SignalDone \/ CloseStore
    BY <1>6 DEF BeginClose, SignalDone, CloseStore
  <1>7. CASE UNCHANGED vars
    BY <1>7 DEF vars
  <1>8. QED
    BY <1>1, <1>2, <1>3, <1>4, <1>5, <1>6, <1>7 DEF Next, Write, FlushLoop, Close

LEMMA NextPhases == TypeOK /\ Phases /\ [Next]_vars => Phases'
  <1> SUFFICES ASSUME TypeOK, Phases, [Next]_vars PROVE Phases'
    OBVIOUS
  <1> USE DEF Phases, DoneClosed
  <1>1. ASSUME NEW e \in Entries, CheckClosed(e) \/ RegisterWrite(e) \/ RecheckClosed(e)
        PROVE  Phases'
    BY <1>1 DEF CheckClosed, RegisterWrite, RecheckClosed, WriteAt, loggerRest, TypeOK
  <1>2. ASSUME NEW e \in Entries, Send(e) PROVE Phases'
    \* Sending means that done is not closed yet.
    <2>1. ~DoneClosed
      BY <1>2 DEF Send, WriteAt
    <2>2. QED
      BY <1>2, <2>1 DEF Send, WriteAt, loggerRest, TypeOK
  <1>3. CASE Receive \/ Drain
    BY <1>3 DEF Receive, Drain
  <1>4. CASE Tick \/ StartDraining \/ DrainComplete
    BY <1>4 DEF Tick, StartDraining, DrainComplete
  <1>5. CASE Flush \/ FinalFlush
    BY <1>5 DEF Flush, FinalFlush, WriteBatch
  <1>6. CASE BeginClose
    BY <1>6 DEF BeginClose
  <1>7. CASE SignalDone
    <2>1. \A e \in Entries : write[e] # "sending"
      BY <1>7 DEF SignalDone, Registered
    <2>2. QED
      BY <1>7, <2>1 DEF SignalDone
  <1>8. CASE CloseStore
    BY <1>8 DEF CloseStore
  <1>9. CASE UNCHANGED vars
    BY <1>9 DEF vars
  <1>10. QED
    BY <1>1, <1>2, <1>3, <1>4, <1>5, <1>6, <1>7, <1>8, <1>9
    DEF Next, Write, FlushLoop, Close

LEMMA LoggerInvariance == Spec => []LInv
  <1>1. LInv /\ [Next]_vars => LInv'
    BY NextTypeOK, NextPlaces, NextPhases DEF LInv
  <1>2. QED
    BY <1>1, InitLInv, PTL DEF Spec

(* Types, and the bound on the channel. *)
THEOREM LoggerTypeCorrect == Spec => []TypeOK
  <1>1. LInv => TypeOK
    BY DEF LInv
  <1>2. QED
    BY <1>1, LoggerInvariance, PTL

(* The drain on shutdown races with no Write call. *)
THEOREM DrainSeesEverything == Spec => []DrainIsFinal
  <1>1. LInv => DrainIsFinal
    BY DEF LInv, Phases, DrainIsFinal
  <1>2. QED
    BY <1>1, LoggerInvariance, PTL

-----------------------------------------------------------------------------
\* The instance has a copy of Cardinality of its own.
LEMMA SameCardinality == \A S : Log!Cardinality(S) = Cardinality(S)
  BY DEF Log!Cardinality, Cardinality

(* A full channel means at least that many entries are pending.             *)
LEMMA PendingFull ==
    ASSUME TypeOK, Cardinality(buffer) >= BufferSize
    PROVE  Cardinality(buffer \cup batch) >= BufferSize
  <1>1. IsFiniteSet(buffer \cup batch)
    BY LoggerAssumption, FS_Subset DEF TypeOK
  <1>2. /\ Cardinality(buffer) \in Nat
        /\ Cardinality(buffer \cup batch) \in Nat
        /\ Cardinality(buffer) <= Cardinality(buffer \cup batch)
    BY <1>1, FS_Subset, FS_CardinalityType
  <1>3. QED
    BY <1>2, LoggerAssumption

(* Every step of the logger is a step of DurableLog or changes none of its  *)
(* variables.                                                               *)
LEMMA StepRefines == LInv /\ LInv' /\ [Next]_vars => [Log!Next]_(Log!logVars)
  <1> SUFFICES ASSUME LInv, LInv', [Next]_vars PROVE [Log!Next]_(Log!logVars)
    OBVIOUS
  <1> USE DEF LInv, Log!logVars
  <1>1. ASSUME NEW e \in Entries, CheckClosed(e) \/ RecheckClosed(e)
        PROVE  [Log!Next]_(Log!logVars)
    <2>1. CASE closed
      <3>1. write[e] # "dropped" /\ write' = [write EXCEPT ![e] = "dropped"]
        BY <1>1, <2>1 DEF CheckClosed, RecheckClosed, WriteAt
      <3>2. Dropped' = Dropped \cup {e}
        BY <3>1 DEF Dropped, TypeOK
      <3>3. Log!Fresh(e)
        BY <1>1 DEF CheckClosed, RecheckClosed, WriteAt, Places, Dropped, Log!Fresh
      <3>4. Log!Refuse(e)
        BY <1>1, <2>1, <3>2, <3>3 DEF CheckClosed, RecheckClosed, loggerRest, Log!Refuse
      <3>5. QED
        BY <3>4 DEF Log!Next
    <2>2. CASE ~closed
      <3>1. write[e] # "dropped" /\ \E to \in {"checked", "sending"} :
               write' = [write EXCEPT ![e] = to]
        BY <1>1, <2>2 DEF CheckClosed, RecheckClosed, WriteAt
      <3>2. Dropped' = Dropped
        BY <3>1 DEF Dropped, TypeOK
      <3>3. QED
        BY <1>1, <3>2 DEF CheckClosed, RecheckClosed, loggerRest
    <2>3. QED
      BY <2>1, <2>2
  <1>2. ASSUME NEW e \in Entries, RegisterWrite(e) PROVE UNCHANGED Log!logVars
    <2>1. Dropped' = Dropped
      BY <1>2 DEF RegisterWrite, WriteAt, Dropped, TypeOK
    <2>2. QED
      BY <1>2, <2>1 DEF RegisterWrite, loggerRest
  <1>3. ASSUME NEW e \in Entries, Send(e) PROVE [Log!Next]_(Log!logVars)
    <2> ~storeClosed /\ Log!Fresh(e)
      BY <1>3 DEF Send, WriteAt, Phases, Places, Dropped, Log!Fresh, DoneClosed
    <2>1. CASE /\ Cardinality(buffer) < BufferSize
               /\ write' = [write EXCEPT ![e] = "queued"]
               /\ buffer' = buffer \cup {e}
      <3>1. Dropped' = Dropped
        BY <1>3, <2>1 DEF Send, WriteAt, Dropped, TypeOK
      <3>2. Log!Accept(e)
        BY <1>3, <2>1, <3>1 DEF Send, loggerRest, Log!Accept
      <3>3. QED
        BY <3>2 DEF Log!Next
    <2>2. CASE /\ Cardinality(buffer) >= BufferSize
               /\ write' = [write EXCEPT ![e] = "dropped"]
               /\ buffer' = buffer
      <3>1. Dropped' = Dropped \cup {e}
        BY <2>2 DEF Dropped, TypeOK
      <3>2. Cardinality(buffer \cup batch) >= BufferSize
        BY <2>2, PendingFull
      <3>3. Log!Refuse(e)
        BY <1>3, <2>2, <3>1, <3>2, SameCardinality DEF Send, loggerRest, Log!Refuse
      <3>4. QED
        BY <3>3 DEF Log!Next
    <2>3. QED
      BY <1>3, <2>1, <2>2 DEF Send, WriteAt
  <1>4. CASE BeginClose
    BY <1>4 DEF BeginClose, Dropped, Log!BeginClosing, Log!Next
  <1>5. CASE Receive \/ Drain \/ Tick \/ StartDraining \/ DrainComplete \/ SignalDone
    <2>1. (buffer \cup batch)' = buffer \cup batch
      BY <1>5 DEF Receive, Drain, Tick, StartDraining, DrainComplete, SignalDone
    <2>2. QED
      BY <1>5, <2>1
      DEF Receive, Drain, Tick, StartDraining, DrainComplete, SignalDone, Dropped
  <1>6. CASE Flush \/ FinalFlush
    <2>1. PICK kept \in SUBSET batch : /\ stored' = stored \cup kept
                                       /\ lost' = lost \cup (batch \ kept)
      BY <1>6 DEF Flush, FinalFlush, WriteBatch
    <2>2. ~storeClosed
      BY <1>6 DEF Flush, FinalFlush, Phases
    <2>3. (buffer \cup batch)' = (buffer \cup batch) \ batch
      BY <1>6 DEF Flush, FinalFlush, Places
    <2>4. Log!HandOver(batch, kept)
      BY <1>6, <2>1, <2>2, <2>3 DEF Flush, FinalFlush, Dropped, Log!HandOver
    <2>5. QED
      BY <2>1, <2>4 DEF Log!Next
  <1>7. CASE CloseStore
    <2>1. buffer = {} /\ batch = {}
      BY <1>7 DEF CloseStore, Phases
    <2>2. CASE storeClosed
      BY <1>7, <2>2 DEF CloseStore, Dropped
    <2>3. CASE ~storeClosed
      <3>1. Log!Seal
        BY <1>7, <2>1, <2>3 DEF CloseStore, Phases, DoneClosed, Dropped, Log!Seal
      <3>2. QED
        BY <3>1 DEF Log!Next
    <2>4. QED
      BY <2>2, <2>3 DEF TypeOK
  <1>8. CASE UNCHANGED vars
    BY <1>8 DEF vars, Dropped
  <1>9. QED
    BY <1>1, <1>2, <1>3, <1>4, <1>5, <1>6, <1>7, <1>8 DEF Next, Write, FlushLoop, Close

(* The logger keeps the promise: no entry is dropped with room left in the  *)
(* channel before Close, no accepted entry is lost between the buffer and   *)
(* the store, none is written twice, none is left behind at shutdown.       *)
THEOREM LoggerImplementsDurableLog == Spec => ImplementsDurableLog
  <1>1. Init => Log!Init
    BY DEF Init, Dropped, Log!Init
  <1>2. QED
    BY <1>1, StepRefines, LoggerInvariance, PTL
    DEF Spec, ImplementsDurableLog, Log!Spec
=============================================================================
