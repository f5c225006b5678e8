---------------------------- MODULE AsyncLogger ----------------------------
(***************************************************************************)
(* The buffered asynchronous logger of usage records and of the audit log  *)
(* (internal/usage/logger.go; internal/auditlog/logger.go is the same      *)
(* code for another entry type).                                           *)
(*                                                                         *)
(* Actors: one goroutine per Write call, the flushLoop goroutine, and the  *)
(* caller of Close.  An entry stands for the Write call that offers it.    *)
(* The channel and the batch are sets: no property depends on their order, *)
(* so flushLoop may receive any buffered entry.                            *)
(***************************************************************************)
EXTENDS Naturals, FiniteSets

CONSTANTS Entries,              \* one per Write call
          BufferSize,           \* capacity of the buffer channel
          BatchFlushThreshold   \* batch length that triggers a flush

\* NewLogger replaces a BufferSize that is not positive.
ASSUME LoggerAssumption == /\ IsFiniteSet(Entries)
                           /\ BufferSize \in Nat \ {0}
                           /\ BatchFlushThreshold \in Nat \ {0}

VARIABLES write,        \* where each Write call is
          buffer,       \* entries in the channel
          batch,        \* entries flushLoop has received
          flusher,      \* where flushLoop is
          closer,       \* where Close is
          closed,       \* the atomic flag
          stored,       \* entries the store has kept
          lost,         \* entries of a batch the store failed to write
          storeClosed   \* store.Close was called

vars == <<write, buffer, batch, flusher, closer, closed, stored, lost, storeClosed>>

TypeOK ==
    /\ write \in [Entries -> {"ready", "checked", "registered", "sending",
                              "queued", "dropped"}]
    /\ buffer \in SUBSET Entries /\ Cardinality(buffer) <= BufferSize
    /\ batch \in SUBSET Entries
    /\ flusher \in {"selecting", "flushing", "draining", "finalFlush", "exited"}
    /\ closer \in {"none", "waitWrites", "waitFlusher", "done"}
    /\ closed \in BOOLEAN
    /\ stored \in SUBSET Entries
    /\ lost \in SUBSET Entries
    /\ storeClosed \in BOOLEAN

Init ==
    /\ write = [e \in Entries |-> "ready"]
    /\ buffer = {}
    /\ batch = {}
    /\ flusher = "selecting"
    /\ closer = "none"
    /\ closed = FALSE
    /\ stored = {}
    /\ lost = {}
    /\ storeClosed = FALSE

-----------------------------------------------------------------------------
(* Write *)
WriteAt(e, from, to) ==
    /\ write[e] = from
    /\ write' = [write EXCEPT ![e] = to]

loggerRest == <<batch, flusher, closer, closed, stored, lost, storeClosed>>

(* The first closed.Load: a closed logger drops the entry. *)
CheckClosed(e) ==
    /\ WriteAt(e, "ready", IF closed THEN "dropped" ELSE "checked")
    /\ UNCHANGED <<buffer, loggerRest>>

(* writes.Add(1) *)
RegisterWrite(e) ==
    /\ WriteAt(e, "checked", "registered")
    /\ UNCHANGED <<buffer, loggerRest>>

(* Mutant: no second look at the flag after registering. *)
SkipRecheck(e) ==
    /\ WriteAt(e, "registered", "sending")
    /\ UNCHANGED <<buffer, loggerRest>>

(* Mutant: the early return of the second look skips writes.Done(). *)
RecheckForgetsDone(e) ==
    /\ ~closed
    /\ WriteAt(e, "registered", "sending")
    /\ UNCHANGED <<buffer, loggerRest>>

(* The second closed.Load, then writes.Done() if the logger is closed. *)
RecheckClosed(e) ==
    /\ WriteAt(e, "registered", IF closed THEN "dropped" ELSE "sending")
    /\ UNCHANGED <<buffer, loggerRest>>

(* Mutant: one entry too many fits in the channel. *)
SendPastCapacity(e) ==
    /\ \/ /\ Cardinality(buffer) <= BufferSize
          /\ WriteAt(e, "sending", "queued")
          /\ buffer' = buffer \cup {e}
       \/ /\ Cardinality(buffer) > BufferSize
          /\ WriteAt(e, "sending", "dropped")
          /\ UNCHANGED buffer
    /\ UNCHANGED loggerRest

(* The select: send without blocking or drop, then writes.Done(). *)
Send(e) ==
    /\ \/ /\ Cardinality(buffer) < BufferSize
          /\ WriteAt(e, "sending", "queued")
          /\ buffer' = buffer \cup {e}
       \/ /\ Cardinality(buffer) >= BufferSize
          /\ WriteAt(e, "sending", "dropped")
          /\ UNCHANGED buffer
    /\ UNCHANGED loggerRest

\* The calls counted by the writes WaitGroup.
Registered == {e \in Entries : write[e] \in {"registered", "sending"}}

-----------------------------------------------------------------------------
(* Close *)
\* close(l.done) has happened.
DoneClosed == closer \in {"waitFlusher", "done"}

\* closed.Swap(true).  A later call sees the flag set and returns at once.
BeginClose ==
    /\ closer = "none"
    /\ ~closed
    /\ closed' = TRUE
    /\ closer' = "waitWrites"
    /\ UNCHANGED <<write, buffer, batch, flusher, stored, lost, storeClosed>>

(* writes.Wait() returns; close(l.done). *)
SignalDone ==
    /\ closer = "waitWrites"
    /\ Registered = {}
    /\ closer' = "waitFlusher"
    /\ UNCHANGED <<write, buffer, batch, flusher, closed, stored, lost, storeClosed>>

(* wg.Wait() returns; store.Close(). *)
CloseStore ==
    /\ closer = "waitFlusher"
    /\ flusher = "exited"
    /\ closer' = "done"
    /\ storeClosed' = TRUE
    /\ UNCHANGED <<write, buffer, batch, flusher, closed, stored, lost>>

-----------------------------------------------------------------------------
(* flushLoop: the select picks any ready case. *)
Receive ==
    /\ flusher = "selecting"
    /\ \E e \in buffer : buffer' = buffer \ {e} /\ batch' = batch \cup {e}
    /\ flusher' = IF Cardinality(batch') >= BatchFlushThreshold
                    THEN "flushing" ELSE "selecting"
    /\ UNCHANGED <<write, closer, closed, stored, lost, storeClosed>>

Tick ==
    /\ flusher = "selecting"
    /\ batch # {}
    /\ flusher' = "flushing"
    /\ UNCHANGED <<write, buffer, batch, closer, closed, stored, lost, storeClosed>>

(* Mutant: on shutdown the loop flushes what it holds without draining. *)
StopWithoutDraining ==
    /\ flusher = "selecting"
    /\ DoneClosed
    /\ flusher' = "finalFlush"
    /\ UNCHANGED <<write, buffer, batch, closer, closed, stored, lost, storeClosed>>

StartDraining ==
    /\ flusher = "selecting"
    /\ DoneClosed
    /\ flusher' = "draining"
    /\ UNCHANGED <<write, buffer, batch, closer, closed, stored, lost, storeClosed>>

Drain ==
    /\ flusher = "draining"
    /\ \E e \in buffer : buffer' = buffer \ {e} /\ batch' = batch \cup {e}
    /\ UNCHANGED <<write, flusher, closer, closed, stored, lost, storeClosed>>

DrainComplete ==
    /\ flusher = "draining"
    /\ buffer = {}
    /\ flusher' = "finalFlush"
    /\ UNCHANGED <<write, buffer, batch, closer, closed, stored, lost, storeClosed>>

(* flushBatch.  A failing WriteBatch may have kept part of the batch (the   *)
(* chunks before the failing one, or the documents of an unordered insert); *)
(* the loop only logs the error.                                            *)
WriteBatch ==
    \E kept \in SUBSET batch :
        /\ stored' = stored \cup kept
        /\ lost' = lost \cup (batch \ kept)

(* Mutant: the batch is not replaced after a periodic flush. *)
FlushKeepsBatch ==
    /\ flusher = "flushing"
    /\ WriteBatch
    /\ flusher' = "selecting"
    /\ UNCHANGED <<write, buffer, batch, closer, closed, storeClosed>>

Flush ==
    /\ flusher = "flushing"
    /\ WriteBatch
    /\ batch' = {}
    /\ flusher' = "selecting"
    /\ UNCHANGED <<write, buffer, closer, closed, storeClosed>>

(* The final flush, store.Flush, and the goroutine ends. *)
FinalFlush ==
    /\ flusher = "finalFlush"
    /\ WriteBatch
    /\ batch' = {}
    /\ flusher' = "exited"
    /\ UNCHANGED <<write, buffer, closer, closed, storeClosed>>

-----------------------------------------------------------------------------
Write(e) == CheckClosed(e) \/ RegisterWrite(e) \/ RecheckClosed(e) \/ Send(e)

FlushLoop == Receive \/ Tick \/ StartDraining \/ Drain \/ DrainComplete
             \/ Flush \/ FinalFlush

Close == SignalDone \/ CloseStore

Next == (\E e \in Entries : Write(e)) \/ FlushLoop \/ BeginClose \/ Close

Spec == Init /\ [][Next]_vars

(* A Write or Close in progress is carried on, and flushLoop runs: its      *)
(* ticker fires and WriteBatch is bounded by its context.  Nothing forces a *)
(* Write call or Close to start.                                            *)
Fairness ==
    /\ \A e \in Entries : WF_vars(write[e] # "ready" /\ Write(e))
    /\ WF_vars(FlushLoop)
    /\ WF_vars(Close)

FairSpec == Spec /\ Fairness

-----------------------------------------------------------------------------
(* The logger implements DurableLog: Write drops an entry only when the     *)
(* logger is being closed or BufferSize accepted entries are not yet        *)
(* written, an accepted entry reaches the store exactly once, and the store *)
(* is closed only when none is left behind.                                 *)
Dropped == {e \in Entries : write[e] = "dropped"}

Log == INSTANCE DurableLog WITH
           Capacity <- BufferSize,
           pending <- buffer \cup batch, refused <- Dropped,
           closing <- closed, sealed <- storeClosed
ImplementsDurableLog == Log!Spec

(* Once the flush loop has left its select, no Write call can still send:   *)
(* the drain sees everything that was accepted.                             *)
DrainIsFinal ==
    flusher \in {"draining", "finalFlush", "exited"} =>
        \A e \in Entries : write[e] # "sending"

(* Every accepted entry is eventually handed to the store, closed or not. *)
AcceptedIsFlushed ==
    \A e \in Entries : write[e] = "queued" ~> e \in stored \cup lost

(* Close, once called, comes to an end with the store closed. *)
CloseEnds == closed ~> storeClosed
=============================================================================
