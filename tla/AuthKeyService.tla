--------------------------- MODULE AuthKeyService ---------------------------
(***************************************************************************)
(* The managed auth keys (internal/authkeys/service.go): admin handlers    *)
(* that create, deactivate and import keys or refresh the runtime, and the *)
(* background refresher, all sharing one snapshot.                         *)
(*                                                                         *)
(* Nothing orders these tasks: Refresh holds no lock across its List, and  *)
(* the store has no versions.  Expiry is left out: Authenticate compares   *)
(* it with the clock at each use, whatever the snapshot's age.             *)
(***************************************************************************)
EXTENDS RefreshedSnapshot

CONSTANT Refresher   \* the task of StartBackgroundRefresh

ASSUME RefresherAssumption == Refresher \in Tasks

Handlers == Tasks \ {Refresher}

VARIABLES storeUp,   \* the environment: no store call fails
          issued     \* history: keys a successful Create has published

vars == <<cacheVars, storeUp, issued>>

PC == {"idle", "created", "deactivated", "importing", "listing", "listed"}

TypeOK ==
    /\ pc \in [Tasks -> PC]
    /\ arg \in [Tasks -> Keys]
    /\ store \in Table
    /\ snapshot \in Table
    /\ listed \in [Tasks -> Table]
    /\ dated \in [Tasks -> SUBSET Keys]
    /\ missed \in SUBSET Keys
    /\ storeUp \in BOOLEAN
    /\ issued \in SUBSET {k \in Keys : store[k] # "absent"}

(* newResult: the first Refresh has published the whole store. *)
Init ==
    /\ pc = [t \in Tasks |-> "idle"]
    /\ arg \in {[t \in Tasks |-> k] : k \in Keys}
    /\ store \in Table
    /\ snapshot = store
    /\ listed = [t \in Tasks |-> NoTable]
    /\ dated = [t \in Tasks |-> {}]
    /\ missed = {}
    /\ storeUp = TRUE
    /\ issued = {}

-----------------------------------------------------------------------------
(* One write of the table by task t. *)
Writes(t, k, status) ==
    /\ store' = [store EXCEPT ![k] = status]
    /\ Outdates(t, k)
    /\ UNCHANGED <<snapshot, listed, storeUp, issued>>

(* Mutant: the error of store.Create is ignored. *)
CreateIgnoresError(t, k) ==
    /\ pc[t] = "idle"
    /\ store[k] = "absent"
    /\ GoTo(t, "created")
    /\ arg' = [arg EXCEPT ![t] = k]
    /\ \E status \in {"absent", "active"} : Writes(t, k, status)
    /\ UNCHANGED missed

(* Create: store.Create has inserted a key with a fresh id. *)
CreateKey(t, k) ==
    /\ pc[t] = "idle"
    /\ store[k] = "absent"
    /\ GoTo(t, "created")
    /\ arg' = [arg EXCEPT ![t] = k]
    /\ Writes(t, k, "active")
    /\ UNCHANGED missed

(* Deactivate: store.Deactivate has updated an existing key. *)
DeactivateKey(t, k) ==
    /\ pc[t] = "idle"
    /\ store[k] # "absent"
    /\ GoTo(t, "deactivated")
    /\ arg' = [arg EXCEPT ![t] = k]
    /\ Writes(t, k, "inactive")
    /\ UNCHANGED missed

(* The write took effect but the store reported an error (a lost reply, a   *)
(* cancelled request): Create or Deactivate returns it and leaves the       *)
(* snapshot alone.                                                          *)
WriteFails(t, k) ==
    /\ pc[t] = "idle"
    /\ ~storeUp
    /\ \E status \in IF store[k] = "absent" THEN {"active"} ELSE {"inactive"} :
          Writes(t, k, status)
    /\ missed' = missed \cup {k}
    /\ UNCHANGED <<pc, arg>>

(* ImportRecords: one Upsert after another. *)
StartImport(t) ==
    /\ pc[t] = "idle"
    /\ GoTo(t, "importing")
    /\ UNCHANGED <<arg, store, snapshot, listed, dated, missed, storeUp, issued>>

ImportRecord(t, k) ==
    /\ pc[t] = "importing"
    /\ \E status \in {"active", "inactive"} : Writes(t, k, status)
    /\ missed' = missed \cup {k}
    /\ UNCHANGED <<pc, arg>>

(* The loop ends, or stops at an invalid record or a failed Upsert; only a  *)
(* complete import refreshes the snapshot.                                  *)
EndImport(t) ==
    /\ pc[t] = "importing"
    /\ GoTo(t, "listing") \/ GoTo(t, "idle")
    /\ UNCHANGED <<arg, store, snapshot, listed, dated, missed, storeUp, issued>>

-----------------------------------------------------------------------------
(* The snapshot is updated from t's own copy of the record it wrote. *)
Published(t, status) ==
    /\ snapshot' = [snapshot EXCEPT ![arg[t]] = status]
    /\ missed' = IF arg[t] \in dated[t] THEN missed \cup {arg[t]}
                                        ELSE missed \ {arg[t]}
    /\ dated' = [dated EXCEPT ![t] = {}]
    /\ GoTo(t, "listing")
    /\ UNCHANGED <<arg, store, listed, storeUp>>

(* applyUpsert, under s.mu. *)
ApplyUpsert(t) ==
    /\ pc[t] = "created"
    /\ Published(t, "active")
    /\ issued' = issued \cup {arg[t]}

(* Mutant: applyDeactivate is not called. *)
SkipDeactivate(t) ==
    /\ pc[t] = "deactivated"
    /\ Published(t, snapshot[arg[t]])
    /\ UNCHANGED issued

(* applyDeactivate, under s.mu: a key the snapshot does not hold is skipped. *)
DeactivateCached(t) ==
    /\ snapshot[arg[t]] # "absent"
    /\ Published(t, "inactive")

DeactivateUncached(t) ==
    /\ snapshot[arg[t]] = "absent"
    /\ missed' = missed \cup {arg[t]}
    /\ dated' = [dated EXCEPT ![t] = {}]
    /\ GoTo(t, "listing")
    /\ UNCHANGED <<arg, store, snapshot, listed, storeUp>>

ApplyDeactivate(t) ==
    /\ pc[t] = "deactivated"
    /\ DeactivateCached(t) \/ DeactivateUncached(t)
    /\ UNCHANGED issued

(* A tick of the background refresher, or an admin refresh of the runtime. *)
StartRefresh(t) ==
    /\ pc[t] = "idle"
    /\ GoTo(t, "listing")
    /\ UNCHANGED <<arg, store, snapshot, listed, dated, missed, storeUp, issued>>

(* Mutant: a list with the keys already cached is not swapped in. *)
RefreshNewKeysOnly(t) ==
    /\ \/ List(t)
       \/ (t \in Handlers \/ ~storeUp) /\ ListFails(t)
       \/ /\ \E k \in Keys : (listed[t][k] = "absent") # (snapshot[k] = "absent")
          /\ Swap(t)
       \/ /\ \A k \in Keys : (listed[t][k] = "absent") = (snapshot[k] = "absent")
          /\ pc[t] = "listed"
          /\ GoTo(t, "idle")
          /\ UNCHANGED <<arg, store, snapshot, listed, dated, missed>>
    /\ UNCHANGED <<storeUp, issued>>

(* Refresh: List, then the swap.  A handler's List also fails when its      *)
(* request is cancelled.  After a write the error is only logged.           *)
Refresh(t) ==
    /\ \/ List(t)
       \/ (t \in Handlers \/ ~storeUp) /\ ListFails(t)
       \/ Swap(t)
    /\ UNCHANGED <<storeUp, issued>>

StoreChanges ==
    /\ storeUp' = ~storeUp
    /\ UNCHANGED <<cacheVars, issued>>

-----------------------------------------------------------------------------
Continue(t) == ApplyUpsert(t) \/ ApplyDeactivate(t) \/ EndImport(t) \/ Refresh(t)

Write(t) ==
    \/ \E k \in Keys : CreateKey(t, k) \/ DeactivateKey(t, k) \/ WriteFails(t, k)
                       \/ ImportRecord(t, k)
    \/ StartImport(t)

Next ==
    \/ \E t \in Handlers : Write(t)
    \/ \E t \in Tasks : StartRefresh(t) \/ Continue(t)
    \/ StoreChanges

Spec == Init /\ [][Next]_vars

(* Handlers that were entered go on, and the refresher's ticker keeps       *)
(* firing.  No handler is obliged to start.                                 *)
Fairness ==
    /\ \A t \in Tasks : WF_vars(Continue(t))
    /\ WF_vars(StartRefresh(Refresher))

FairSpec == Spec /\ Fairness

-----------------------------------------------------------------------------
Writing(t) == pc[t] \in {"created", "deactivated"}

(* A record on which the snapshot differs from the store is accounted for:  *)
(* its writer has yet to publish it, or it was written without being        *)
(* published (an import, an error after the write), or it was published     *)
(* from a copy that was out of date.                                        *)
LagAccounted ==
    \A k \in Keys : \/ snapshot[k] = store[k]
                    \/ k \in missed
                    \/ \E t \in Tasks : Writing(t) /\ arg[t] = k

(* Keys are deactivated, never deleted: the snapshot holds no key that the  *)
(* store does not, however old the list it was taken from.                  *)
NoPhantomKeys ==
    \A k \in Keys : snapshot[k] # "absent" => store[k] # "absent"

(* Once writes stop and the store answers, the snapshot ends up equal to    *)
(* the store and stays so: every lag is repaired by the refresher.          *)
Settled == storeUp /\ \A t \in Tasks : ~Writing(t) /\ pc[t] # "importing"
Converges == <>[]Settled => <>[](snapshot = store)

(* TestServiceWriteOperationsIgnoreRefreshReconciliationFailures: a key     *)
(* whose Create returned authenticates from then on.  Refuted: a refresh    *)
(* that listed before the insert swaps its list in after Create returned.   *)
IssuedKeysStay ==
    (\A t \in Handlers : pc[t] = "idle") => \A k \in issued : snapshot[k] # "absent"
=============================================================================
