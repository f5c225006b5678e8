------------------------ MODULE AuthKeyServiceProofs ------------------------
(***************************************************************************)
(* For any set of handlers and keys, every lag of the auth key snapshot    *)
(* behind the store is accounted for, and it holds no phantom key.         *)
(***************************************************************************)
EXTENDS AuthKeyService, TLAPS

(* A task's copy of a record is the stored one unless it was outdated. *)
Copies ==
    \A t \in Tasks :
        /\ pc[t] = "listed" => \A k \in Keys : listed[t][k] = store[k] \/ k \in dated[t]
        /\ pc[t] = "created" => store[arg[t]] = "active" \/ arg[t] \in dated[t]
        /\ pc[t] = "deactivated" => store[arg[t]] = "inactive" \/ arg[t] \in dated[t]

(* Every record the service knows of, in whatever place, is stored. *)
Stored ==
    /\ NoPhantomKeys
    /\ \A t \in Tasks :
          /\ \A k \in Keys : listed[t][k] # "absent" => store[k] # "absent"
          /\ Writing(t) => store[arg[t]] # "absent"

KInv == TypeOK /\ Copies /\ Stored /\ LagAccounted

LEMMA InitKInv == Init => KInv
  <1> SUFFICES ASSUME Init PROVE KInv
    OBVIOUS
  <1>1. TypeOK
    BY DEF Init, TypeOK, Table, Status, NoTable, PC
  <1>2. Copies /\ Stored /\ LagAccounted
    BY DEF Init, Copies, Stored, NoPhantomKeys, LagAccounted, NoTable, Writing
  <1>3. QED
    BY <1>1, <1>2 DEF KInv

-----------------------------------------------------------------------------
(* A write keeps the invariant if the task that makes it holds no copy, or  *)
(* holds what it wrote; published says whether the snapshot will follow.    *)
LEMMA WriteStep ==
    ASSUME KInv, NEW t \in Handlers, NEW k \in Keys, NEW status \in {"active", "inactive"},
           Writes(t, k, status), pc[t] \in {"idle", "importing"}
    PROVE  /\ store' \in Table
           /\ store'[k] = status
           /\ \A j \in Keys \ {k} : store'[j] = store[j]
           /\ \A j \in Keys : store[j] # "absent" => store'[j] # "absent"
           /\ dated' \in [Tasks -> SUBSET Keys]
           /\ \A u \in Holding : dated'[u] = dated[u] \cup {k}
  <1> USE DEF KInv, TypeOK, Writes, Table, Status
  <1>1. store' \in Table /\ store'[k] = status /\ \A j \in Keys \ {k} : store'[j] = store[j]
    OBVIOUS
  <1>2. dated' \in [Tasks -> SUBSET Keys]
    BY DEF Outdates
  <1>3. \A u \in Holding : dated'[u] = dated[u] \cup {k}
    BY DEF Outdates, Holding
  <1>4. QED
    BY <1>1, <1>2, <1>3

LEMMA NextKInv == KInv /\ [Next]_vars => KInv'
  <1> SUFFICES ASSUME KInv, [Next]_vars PROVE KInv'
    OBVIOUS
  <1> USE RefresherAssumption DEF KInv, Handlers
  <1>1. ASSUME NEW t \in Handlers, NEW k \in Keys, CreateKey(t, k) \/ DeactivateKey(t, k)
        PROVE  KInv'
    <2> DEFINE status == IF store[k] = "absent" THEN "active" ELSE "inactive"
    <2>1. Writes(t, k, status) /\ pc[t] = "idle"
      BY <1>1 DEF CreateKey, DeactivateKey
    <2>2. /\ pc' = [pc EXCEPT ![t] = IF store[k] = "absent" THEN "created" ELSE "deactivated"]
          /\ arg' = [arg EXCEPT ![t] = k]
          /\ UNCHANGED <<snapshot, listed, storeUp, issued, missed>>
      BY <1>1 DEF CreateKey, DeactivateKey, GoTo, Writes
    <2>3. /\ store' \in Table
          /\ store'[k] = status
          /\ \A j \in Keys \ {k} : store'[j] = store[j]
          /\ \A j \in Keys : store[j] # "absent" => store'[j] # "absent"
          /\ dated' \in [Tasks -> SUBSET Keys]
          /\ \A u \in Holding : dated'[u] = dated[u] \cup {k}
      BY <2>1, WriteStep
    <2> HIDE DEF status
    <2>4. TypeOK'
      BY <2>2, <2>3 DEF TypeOK, PC
    <2>5. Copies'
      BY <2>1, <2>2, <2>3 DEF Copies, Holding, TypeOK, status
    <2>6. Stored'
      BY <2>2, <2>3 DEF Stored, NoPhantomKeys, Writing, TypeOK, status
    <2>7. LagAccounted'
      BY <2>1, <2>2, <2>3 DEF LagAccounted, Writing, TypeOK
    <2>8. QED
      BY <2>4, <2>5, <2>6, <2>7
  <1>2. ASSUME NEW t \in Handlers, NEW k \in Keys, WriteFails(t, k) \/ ImportRecord(t, k)
        PROVE  KInv'
    <2>1. PICK status \in {"active", "inactive"} : Writes(t, k, status)
      BY <1>2 DEF WriteFails, ImportRecord
    <2>2. /\ pc[t] \in {"idle", "importing"}
          /\ missed' = missed \cup {k}
          /\ UNCHANGED <<pc, arg, snapshot, listed, storeUp, issued>>
      BY <1>2, <2>1 DEF WriteFails, ImportRecord, Writes
    <2>3. /\ store' \in Table
          /\ store'[k] = status
          /\ \A j \in Keys \ {k} : store'[j] = store[j]
          /\ \A j \in Keys : store[j] # "absent" => store'[j] # "absent"
          /\ dated' \in [Tasks -> SUBSET Keys]
          /\ \A u \in Holding : dated'[u] = dated[u] \cup {k}
      BY <2>1, <2>2, WriteStep
    <2>4. TypeOK'
      BY <2>2, <2>3 DEF TypeOK
    <2>5. Copies'
      BY <2>2, <2>3 DEF Copies, Holding, TypeOK
    <2>6. Stored'
      BY <2>2, <2>3 DEF Stored, NoPhantomKeys, Writing, TypeOK
    <2>7. LagAccounted'
      BY <2>2, <2>3 DEF LagAccounted, Writing
    <2>8. QED
      BY <2>4, <2>5, <2>6, <2>7
  <1>3. ASSUME NEW t \in Tasks, StartImport(t) \/ EndImport(t) \/ StartRefresh(t)
        PROVE  KInv'
    <2>1. /\ pc[t] \in {"idle", "importing"}
          /\ pc' \in {[pc EXCEPT ![t] = q] : q \in {"importing", "listing", "idle"}}
          /\ UNCHANGED <<arg, store, snapshot, listed, dated, missed, storeUp, issued>>
      BY <1>3 DEF StartImport, EndImport, StartRefresh, GoTo
    <2>2. TypeOK'
      BY <2>1 DEF TypeOK, PC
    <2>3. Copies'
      BY <2>1 DEF Copies, TypeOK
    <2>4. Stored' /\ LagAccounted'
      BY <2>1 DEF Stored, NoPhantomKeys, LagAccounted, Writing, TypeOK
    <2>5. QED
      BY <2>2, <2>3, <2>4
  <1>4. ASSUME NEW t \in Tasks, ApplyUpsert(t) \/ (ApplyDeactivate(t) /\ DeactivateCached(t))
        PROVE  KInv'
    <2> DEFINE status == IF pc[t] = "created" THEN "active" ELSE "inactive"
    <2>1. /\ Writing(t)
          /\ Published(t, status)
          /\ UNCHANGED storeUp
          /\ issued' \in {issued, issued \cup {arg[t]}}
      BY <1>4 DEF ApplyUpsert, ApplyDeactivate, DeactivateCached, Published, Writing
    <2>2. /\ snapshot' = [snapshot EXCEPT ![arg[t]] = status]
          /\ missed' = IF arg[t] \in dated[t] THEN missed \cup {arg[t]}
                                              ELSE missed \ {arg[t]}
          /\ dated' = [dated EXCEPT ![t] = {}]
          /\ pc' = [pc EXCEPT ![t] = "listing"]
          /\ UNCHANGED <<arg, store, listed, storeUp>>
      BY <2>1 DEF Published, GoTo
    <2>3. store[arg[t]] = status \/ arg[t] \in dated[t]
      BY <2>1 DEF Copies, Writing
    <2>4. status \in {"active", "inactive"} /\ arg[t] \in Keys /\ store[arg[t]] # "absent"
      BY <2>1 DEF TypeOK, Stored
    <2> HIDE DEF status
    <2>5. TypeOK'
      BY <2>1, <2>2, <2>4 DEF TypeOK, PC, Table, Status
    <2>6. Copies'
      BY <2>2 DEF Copies, TypeOK
    <2>7. Stored'
      BY <2>2, <2>4 DEF Stored, NoPhantomKeys, Writing, TypeOK, Table
    <2>8. LagAccounted'
      BY <2>2, <2>3, <2>4 DEF LagAccounted, Writing, TypeOK, Table
    <2>9. QED
      BY <2>5, <2>6, <2>7, <2>8
  <1>5. ASSUME NEW t \in Tasks, ApplyDeactivate(t) /\ DeactivateUncached(t)
        PROVE  KInv'
    <2>1. /\ missed' = missed \cup {arg[t]}
          /\ dated' = [dated EXCEPT ![t] = {}]
          /\ pc' = [pc EXCEPT ![t] = "listing"]
          /\ UNCHANGED <<arg, store, snapshot, listed, storeUp, issued>>
      BY <1>5 DEF ApplyDeactivate, DeactivateUncached, GoTo
    <2>2. TypeOK'
      BY <2>1 DEF TypeOK, PC
    <2>3. Copies'
      BY <2>1 DEF Copies, TypeOK
    <2>4. Stored' /\ LagAccounted'
      BY <2>1 DEF Stored, NoPhantomKeys, LagAccounted, Writing, TypeOK
    <2>5. QED
      BY <2>2, <2>3, <2>4
  <1>6. ASSUME NEW t \in Tasks, Refresh(t) PROVE KInv'
    <2>1. CASE List(t)
      <3>1. /\ pc[t] = "listing"
            /\ pc' = [pc EXCEPT ![t] = "listed"]
            /\ listed' = [listed EXCEPT ![t] = store]
            /\ dated' = [dated EXCEPT ![t] = {}]
            /\ UNCHANGED <<arg, store, snapshot, missed, storeUp, issued>>
        BY <1>6, <2>1 DEF Refresh, List, GoTo
      <3>2. TypeOK'
        BY <3>1 DEF TypeOK, PC
      <3>3. Copies'
        BY <3>1 DEF Copies, TypeOK
      <3>4. Stored' /\ LagAccounted'
        BY <3>1 DEF Stored, NoPhantomKeys, LagAccounted, Writing, TypeOK
      <3>5. QED
        BY <3>2, <3>3, <3>4
    <2>2. CASE ListFails(t)
      <3>1. /\ pc[t] = "listing"
            /\ pc' = [pc EXCEPT ![t] = "idle"]
            /\ UNCHANGED <<arg, store, snapshot, listed, dated, missed, storeUp, issued>>
        BY <1>6, <2>2 DEF Refresh, ListFails, GoTo
      <3>2. TypeOK'
        BY <3>1 DEF TypeOK, PC
      <3>3. Copies' /\ Stored' /\ LagAccounted'
        BY <3>1 DEF Copies, Stored, NoPhantomKeys, LagAccounted, Writing, TypeOK
      <3>4. QED
        BY <3>2, <3>3
    <2>3. CASE Swap(t)
      <3>1. /\ pc[t] = "listed"
            /\ pc' = [pc EXCEPT ![t] = "idle"]
            /\ snapshot' = listed[t]
            /\ listed' = [listed EXCEPT ![t] = NoTable]
            /\ missed' = dated[t]
            /\ dated' = [dated EXCEPT ![t] = {}]
            /\ UNCHANGED <<arg, store, storeUp, issued>>
        BY <1>6, <2>3 DEF Refresh, Swap, GoTo
      <3>2. TypeOK'
        BY <3>1 DEF TypeOK, PC, Table, NoTable, Status
      <3>3. Copies'
        BY <3>1 DEF Copies, TypeOK
      <3>4. Stored'
        BY <3>1 DEF Stored, NoPhantomKeys, Writing, TypeOK, NoTable
      <3>5. LagAccounted'
        BY <3>1 DEF LagAccounted, Copies
      <3>6. QED
        BY <3>2, <3>3, <3>4, <3>5
    <2>4. QED
      BY <1>6, <2>1, <2>2, <2>3 DEF Refresh
  <1>7. CASE StoreChanges
    <2>1. UNCHANGED cacheVars /\ UNCHANGED issued /\ storeUp' \in BOOLEAN
      BY <1>7 DEF StoreChanges, TypeOK
    <2>2. QED
      BY <2>1 DEF cacheVars, TypeOK, Copies, Stored, NoPhantomKeys, LagAccounted, Writing
  <1>8. CASE UNCHANGED vars
    BY <1>8 DEF vars, cacheVars, TypeOK, Copies, Stored, NoPhantomKeys, LagAccounted, Writing
  <1>9. QED
    BY <1>1, <1>2, <1>3, <1>4, <1>5, <1>6, <1>7, <1>8
    DEF Next, Write, Continue, ApplyDeactivate

LEMMA KeyInvariance == Spec => []KInv
  BY InitKInv, NextKInv, PTL DEF Spec

-----------------------------------------------------------------------------
(* Types; every key a Create has published is stored. *)
THEOREM KeyTypesCorrect == Spec => []TypeOK
  <1>1. KInv => TypeOK
    BY DEF KInv
  <1>2. QED
    BY <1>1, KeyInvariance, PTL

(* The snapshot differs from the store only where an unpublished or an      *)
(* outdated write explains it.                                              *)
THEOREM SnapshotLagAccounted == Spec => []LagAccounted
  <1>1. KInv => LagAccounted
    BY DEF KInv
  <1>2. QED
    BY <1>1, KeyInvariance, PTL

(* The snapshot never invents a key. *)
THEOREM SnapshotGrounded == Spec => []NoPhantomKeys
  <1>1. KInv => NoPhantomKeys
    BY DEF KInv, Stored
  <1>2. QED
    BY <1>1, KeyInvariance, PTL
=============================================================================
