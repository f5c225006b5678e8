------------------------- MODULE RefreshedSnapshot -------------------------
(***************************************************************************)
(* The pattern the admin services share: the records of a table are cached *)
(* in a snapshot behind an RWMutex, and Refresh replaces the snapshot with *)
(* what store.List returned.  List runs without the lock, so a write of    *)
(* the store can fall between a List and the swap that publishes it.       *)
(*                                                                         *)
(* A record is abstracted to its status.  The sorted order and the maps    *)
(* keyed by secret hash are rebuilt with the snapshot and hold the same    *)
(* records.                                                                *)
(***************************************************************************)
CONSTANTS Tasks,    \* goroutines that write the table or refresh the snapshot
          Keys      \* record ids

VARIABLES pc,        \* where each task is
          arg,       \* the record a task writes
          store,     \* the table
          snapshot,  \* s.snapshot, published under s.mu
          listed     \* what a task's List returned

\* History: what the properties remember and the code does not.
VARIABLES dated,     \* records written since a task last wrote or listed
          missed     \* records the published snapshot is known to lag on

cacheVars == <<pc, arg, store, snapshot, listed, dated, missed>>

Status  == {"absent", "active", "inactive"}
Table   == [Keys -> Status]
NoTable == [k \in Keys |-> "absent"]

-----------------------------------------------------------------------------
GoTo(t, place) == pc' = [pc EXCEPT ![t] = place]

(* The tasks that hold a copy of a record they have yet to publish. *)
Holding == {t \in Tasks : pc[t] \in {"created", "deactivated", "listed"}}

(* Task t has written record k: the copies the others hold are out of date. *)
Outdates(t, k) ==
    dated' = [u \in Tasks |-> IF u \in Holding \ {t} THEN dated[u] \cup {k}
                                                      ELSE dated[u]]

(* store.List inside Refresh. *)
List(t) ==
    /\ pc[t] = "listing"
    /\ GoTo(t, "listed")
    /\ listed' = [listed EXCEPT ![t] = store]
    /\ dated' = [dated EXCEPT ![t] = {}]
    /\ UNCHANGED <<arg, store, snapshot, missed>>

(* List fails: Refresh returns an error and leaves the snapshot alone. *)
ListFails(t) ==
    /\ pc[t] = "listing"
    /\ GoTo(t, "idle")
    /\ UNCHANGED <<arg, store, snapshot, listed, dated, missed>>

(* The swap under s.mu. *)
Swap(t) ==
    /\ pc[t] = "listed"
    /\ GoTo(t, "idle")
    /\ snapshot' = listed[t]
    /\ listed' = [listed EXCEPT ![t] = NoTable]
    /\ missed' = dated[t]
    /\ dated' = [dated EXCEPT ![t] = {}]
    /\ UNCHANGED <<arg, store>>
=============================================================================
