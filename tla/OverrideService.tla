-------------------------- MODULE OverrideService --------------------------
(***************************************************************************)
(* The pricing overrides (internal/pricingoverrides/service.go), served by *)
(* several gateway instances that share one table.  In each instance every *)
(* operation runs under refreshMu: Upsert and Delete write the store, then *)
(* list it and publish the snapshot; if that refresh fails they undo the   *)
(* write, and if the undo fails too they refresh once more.                *)
(*                                                                         *)
(* internal/modeloverrides/service.go is the same code without the last    *)
(* refresh: its behaviours are those in which that refresh fails.          *)
(*                                                                         *)
(* A call that waits for refreshMu has read nothing yet, so it counts as   *)
(* idle until it has the lock.  The validation of Upsert and Delete cannot *)
(* fail: it rebuilds a snapshot of records that are already normalized.    *)
(***************************************************************************)
CONSTANTS Instances,    \* gateway processes
          Tasks,        \* goroutines that enter the service
          Refreshers,   \* the ones of StartBackgroundRefresh
          Home,         \* the instance each task runs in
          Selectors,    \* keys of the table
          Values        \* what an override may say

ASSUME OverrideAssumption == /\ Refreshers \subseteq Tasks
                             /\ Home \in [Tasks -> Instances]
                             /\ "absent" \notin Values
                             /\ "unknown" \notin Values
                             /\ "nobody" \notin Tasks

Handlers == Tasks \ Refreshers
Record   == Values \cup {"absent"}
Table    == [Selectors -> Record]

VARIABLES pc,         \* where each task is
          kind,       \* the operation it performs
          selector,   \* the record an Upsert or Delete is about
          previous,   \* that record in the snapshot, read under the lock
          listed,     \* what List returned
          holder,     \* the task that holds each instance's refreshMu
          store,      \* the table
          snapshot,   \* s.current of each instance
          storeUp     \* the environment: the store answers every call

\* History: what the properties remember and the code does not.
VARIABLES owner,      \* the task whose call last wrote each record
          served,     \* its instance has published what it wrote
          before,     \* the record under a task's write, if it was served
          sameHome    \* that record was written by the task's own instance

taskVars == <<pc, kind, selector, previous, listed, holder>>
history  == <<owner, served, before, sameHome>>
vars     == <<taskVars, store, snapshot, storeUp, history>>

PC == {"idle", "writing", "listing", "listed", "undoing", "reconciling"}

TypeOK ==
    /\ pc \in [Tasks -> PC]
    /\ kind \in [Tasks -> {"upsert", "delete", "refresh"}]
    /\ selector \in [Tasks -> Selectors]
    /\ previous \in [Tasks -> Record]
    /\ listed \in [Tasks -> Table]
    /\ holder \in [Instances -> Tasks \cup {"nobody"}]
    /\ \A t \in Tasks : pc[t] # "idle" <=> holder[Home[t]] = t
    /\ store \in Table
    /\ snapshot \in [Instances -> Table]
    /\ storeUp \in BOOLEAN
    /\ owner \in [Selectors -> Tasks]
    /\ served \in [Selectors -> BOOLEAN]
    /\ before \in [Tasks -> Record \cup {"unknown"}]
    /\ sameHome \in [Tasks -> BOOLEAN]

NoTable == [k \in Selectors |-> "absent"]

(* newResult has refreshed each instance; nobody has written since. *)
Init ==
    /\ pc = [t \in Tasks |-> "idle"]
    /\ kind = [t \in Tasks |-> "refresh"]
    /\ selector \in {[t \in Tasks |-> k] : k \in Selectors}
    /\ previous = [t \in Tasks |-> "absent"]
    /\ listed = [t \in Tasks |-> NoTable]
    /\ holder = [i \in Instances |-> "nobody"]
    /\ store \in Table
    /\ snapshot = [i \in Instances |-> store]
    /\ storeUp = TRUE
    /\ owner \in {[k \in Selectors |-> t] : t \in Tasks}
    /\ served = [k \in Selectors |-> TRUE]
    /\ before = [t \in Tasks |-> "unknown"]
    /\ sameHome = [t \in Tasks |-> FALSE]

-----------------------------------------------------------------------------
(* refreshMu.Lock(), and what the operation reads first. *)
Enter(t, op, place) ==
    /\ pc[t] = "idle"
    /\ holder[Home[t]] = "nobody"
    /\ holder' = [holder EXCEPT ![Home[t]] = t]
    /\ pc' = [pc EXCEPT ![t] = place]
    /\ kind' = [kind EXCEPT ![t] = op]
    /\ UNCHANGED <<listed, store, snapshot, storeUp, history>>

(* The operation returns: its locals are gone, refreshMu is unlocked. *)
Leave(t) ==
    /\ holder' = [holder EXCEPT ![Home[t]] = "nobody"]
    /\ pc' = [pc EXCEPT ![t] = "idle"]
    /\ kind' = [kind EXCEPT ![t] = "refresh"]
    /\ previous' = [previous EXCEPT ![t] = "absent"]
    /\ listed' = [listed EXCEPT ![t] = NoTable]
    /\ before' = [before EXCEPT ![t] = "unknown"]
    /\ sameHome' = [sameHome EXCEPT ![t] = FALSE]
    /\ UNCHANGED selector

GoTo(t, place) ==
    /\ pc' = [pc EXCEPT ![t] = place]
    /\ UNCHANGED <<kind, selector, previous, holder>>

(* A store call by t leaves record k as r. *)
Put(t, k, r) ==
    /\ store' = [store EXCEPT ![k] = r]
    /\ owner' = [owner EXCEPT ![k] = t]

-----------------------------------------------------------------------------
(* Upsert and Delete, up to the store call. *)
BeginWrite(t, k, op) ==
    /\ Enter(t, op, "writing")
    /\ selector' = [selector EXCEPT ![t] = k]
    /\ previous' = [previous EXCEPT ![t] = snapshot[Home[t]][k]]

(* Mutant: Refresh does not take the lock. *)
RefreshUnlocked(t) ==
    /\ pc[t] = "idle"
    /\ pc' = [pc EXCEPT ![t] = "listing"]
    /\ kind' = [kind EXCEPT ![t] = "refresh"]
    /\ UNCHANGED <<selector, previous, listed, holder, store, snapshot, storeUp, history>>

(* Refresh: a tick of the background refresher (a runtime refresh of the    *)
(* model overrides is one tick more). *)
BeginRefresh(t) ==
    /\ Enter(t, "refresh", "listing")
    /\ UNCHANGED <<selector, previous>>

(* What the store call of an Upsert or a Delete may leave; a Delete of a    *)
(* record that is not there is an error.                                    *)
Written(t) ==
    IF kind[t] = "upsert" THEN Values
    ELSE {"absent"} \ {store[selector[t]]}

(* The store call succeeds. *)
Write(t) ==
    /\ pc[t] = "writing"
    /\ \E r \in Written(t) : Put(t, selector[t], r)
    /\ GoTo(t, "listing")
    /\ served' = [served EXCEPT ![selector[t]] = FALSE]
    /\ before' = [before EXCEPT ![t] = IF served[selector[t]]
                                         THEN store[selector[t]] ELSE "unknown"]
    /\ sameHome' = [sameHome EXCEPT ![t] = Home[owner[selector[t]]] = Home[t]]
    /\ UNCHANGED <<listed, snapshot, storeUp>>

(* The store call fails (nothing to delete, a cancelled request, a store    *)
(* that is down): the caller gets the error.                                *)
WriteFails(t) ==
    /\ pc[t] = "writing"
    /\ Leave(t)
    /\ UNCHANGED <<store, snapshot, storeUp, owner, served>>

(* The store call took effect and reports an error all the same. *)
WriteUnsure(t) ==
    /\ pc[t] = "writing"
    /\ \E r \in Written(t) : Put(t, selector[t], r)
    /\ served' = [served EXCEPT ![selector[t]] = FALSE]
    /\ Leave(t)
    /\ UNCHANGED <<snapshot, storeUp>>

-----------------------------------------------------------------------------
(* refreshLocked: store.List. *)
List(t) ==
    /\ pc[t] \in {"listing", "reconciling"}
    /\ GoTo(t, "listed")
    /\ listed' = [listed EXCEPT ![t] = store]
    /\ UNCHANGED <<store, snapshot, storeUp, history>>

\* A Delete of a record the snapshot does not hold is not undone.
Undoable(t) == kind[t] = "upsert" \/ (kind[t] = "delete" /\ previous[t] # "absent")

(* Mutant: the error of List is ignored and an empty list is published. *)
ListErrorIgnored(t) ==
    /\ pc[t] = "listing"
    /\ t \in Handlers \/ ~storeUp
    /\ GoTo(t, "listed")
    /\ UNCHANGED <<listed, store, snapshot, storeUp, history>>

(* refreshLocked fails; a handler's request may be cancelled, the           *)
(* refresher and the last refresh have contexts of their own.               *)
ListFails(t) ==
    /\ \/ pc[t] = "listing" /\ (t \in Handlers \/ ~storeUp)
       \/ pc[t] = "reconciling" /\ ~storeUp
    /\ \/ /\ pc[t] = "listing" /\ Undoable(t)
          /\ GoTo(t, "undoing")
          /\ UNCHANGED <<listed, before, sameHome>>
       \/ /\ pc[t] = "reconciling" \/ ~Undoable(t)
          /\ Leave(t)
    /\ UNCHANGED <<store, snapshot, storeUp, owner, served>>

(* Mutant: records that are gone from the table stay in the snapshot. *)
SwapMerged(t) ==
    /\ pc[t] = "listed"
    /\ snapshot' = [snapshot EXCEPT ![Home[t]] =
          [k \in Selectors |-> IF listed[t][k] = "absent" THEN snapshot[Home[t]][k]
                                                          ELSE listed[t][k]]]
    /\ served' = [k \in Selectors |-> served[k] \/ Home[owner[k]] = Home[t]]
    /\ Leave(t)
    /\ UNCHANGED <<store, storeUp, owner>>

(* refreshLocked publishes the list, and the operation returns: nil, or the *)
(* error that led to the last refresh.                                      *)
Swap(t) ==
    /\ pc[t] = "listed"
    /\ snapshot' = [snapshot EXCEPT ![Home[t]] = listed[t]]
    /\ served' = [k \in Selectors |-> served[k] \/ Home[owner[k]] = Home[t]]
    /\ Leave(t)
    /\ UNCHANGED <<store, storeUp, owner>>

-----------------------------------------------------------------------------
\* The undo is a Delete, and another instance has deleted the record.
NothingToUndo(t) == previous[t] = "absent" /\ store[selector[t]] = "absent"

(* Mutant: the undo deletes the record even if it existed. *)
UndoDeletes(t) ==
    /\ pc[t] = "undoing"
    /\ store[selector[t]] # "absent"
    /\ Put(t, selector[t], "absent")
    /\ served' = [served EXCEPT ![selector[t]] = TRUE]
    /\ Leave(t)
    /\ UNCHANGED <<snapshot, storeUp>>

(* The undo succeeds: the record is again what the snapshot says it is. *)
Undo(t) ==
    /\ pc[t] = "undoing"
    /\ ~NothingToUndo(t)
    /\ Put(t, selector[t], previous[t])
    /\ served' = [served EXCEPT ![selector[t]] = TRUE]
    /\ Leave(t)
    /\ UNCHANGED <<snapshot, storeUp>>

(* The undo fails, possibly after it took effect. *)
UndoWithError(t) ==
    /\ pc[t] = "undoing"
    /\ \/ /\ NothingToUndo(t) \/ ~storeUp
          /\ UNCHANGED <<store, owner, served>>
       \/ /\ ~storeUp /\ ~NothingToUndo(t)
          /\ Put(t, selector[t], previous[t])
          /\ served' = [served EXCEPT ![selector[t]] = FALSE]

(* Mutant: the operation returns from a failed undo without unlocking. *)
UndoFailsKeepsLock(t) ==
    /\ UndoWithError(t)
    /\ pc' = [pc EXCEPT ![t] = "idle"]
    /\ UNCHANGED <<kind, selector, previous, holder, listed, snapshot, storeUp,
                   before, sameHome>>

(* reconcileSnapshotAfterRollbackFailureLocked is called. *)
UndoFails(t) ==
    /\ UndoWithError(t)
    /\ GoTo(t, "reconciling")
    /\ UNCHANGED <<listed, snapshot, storeUp, before, sameHome>>

-----------------------------------------------------------------------------
StoreChanges ==
    /\ storeUp' = ~storeUp
    /\ UNCHANGED <<taskVars, store, snapshot, history>>

Continue(t) ==
    \/ Write(t) \/ WriteFails(t) \/ WriteUnsure(t)
    \/ List(t) \/ ListFails(t) \/ Swap(t)
    \/ Undo(t) \/ UndoFails(t)

Next ==
    \/ \E t \in Handlers, k \in Selectors, op \in {"upsert", "delete"} :
          BeginWrite(t, k, op)
    \/ \E t \in Refreshers : BeginRefresh(t)
    \/ \E t \in Tasks : Continue(t)
    \/ StoreChanges

Spec == Init /\ [][Next]_vars

(* An operation that has the lock goes on: its store calls are bounded by   *)
(* contexts.  The refreshers keep ticking, and a sync.Mutex does not starve *)
(* the goroutine that waits for it.                                         *)
Fairness ==
    /\ \A t \in Tasks : WF_vars(Continue(t))
    /\ \A t \in Refreshers : SF_vars(BeginRefresh(t))

FairSpec == Spec /\ Fairness

-----------------------------------------------------------------------------
(* What an instance wrote and reported (the write succeeded, was undone, or *)
(* was reconciled) is what it serves, until somebody writes the record      *)
(* again: no refresh brings an older record back.                           *)
OwnWritesServed ==
    \A k \in Selectors : served[k] => snapshot[Home[owner[k]]][k] = store[k]

\* t has undone its write, and nobody else has written in between.
Undone(t) == /\ pc[t] = "undoing" /\ pc'[t] = "idle"
             /\ owner[selector[t]] = t /\ before[t] # "unknown"

(* A write that is undone leaves the record as it found it, if the record   *)
(* was last written by the same instance.                                   *)
OwnRecordsRestored ==
    [][\A t \in Tasks :
          Undone(t) /\ sameHome[t] => store'[selector[t]] = before[t]]_vars

(* Once writes stop and the store answers, every instance ends up serving   *)
(* the table.                                                               *)
Settled == storeUp /\ \A t \in Tasks : pc[t] \notin {"writing", "undoing"}
Converges == <>[]Settled => <>[](\A i \in Instances : snapshot[i] = store)

(* refreshMu is always released. *)
LockReleased ==
    \A i \in Instances : holder[i] # "nobody" ~> holder[i] = "nobody"
=============================================================================
