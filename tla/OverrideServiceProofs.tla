----------------------- MODULE OverrideServiceProofs -----------------------
(***************************************************************************)
(* For any number of instances, tasks and selectors: type correctness and  *)
(* mutual exclusion, what an instance wrote and reported is what it        *)
(* serves, and an undone write restores a record of the same instance.     *)
(***************************************************************************)
EXTENDS OverrideService, TLAPS

(* What an operation read under the lock still holds: no other task can     *)
(* publish a snapshot of its instance.                                      *)
PreviousCurrent ==
    \A t \in Tasks : pc[t] # "idle" /\ kind[t] # "refresh" =>
        previous[t] = snapshot[Home[t]][selector[t]]

(* A list is current on the records its own instance wrote last. *)
ListCurrent ==
    \A t \in Tasks : pc[t] = "listed" =>
        \A k \in Selectors : Home[owner[k]] = Home[t] => listed[t][k] = store[k]

(* A record the instance served before its write is the one it undoes to. *)
BeforeIsPrevious ==
    \A t \in Tasks : sameHome[t] /\ before[t] # "unknown" => before[t] = previous[t]

\* Only a write that was made can be undone.
Phases ==
    \A t \in Tasks : /\ pc[t] = "idle" => before[t] = "unknown"
                     /\ pc[t] \in {"writing", "undoing"} => kind[t] # "refresh"

OInv == /\ TypeOK /\ PreviousCurrent /\ ListCurrent
        /\ BeforeIsPrevious /\ Phases /\ OwnWritesServed

LEMMA InitOInv == Init => OInv
  <1> SUFFICES ASSUME Init PROVE OInv
    OBVIOUS
  <1> USE OverrideAssumption DEF Init
  <1>1. TypeOK
    BY DEF TypeOK, Table, Record, NoTable, PC
  <1>2. PreviousCurrent /\ ListCurrent /\ BeforeIsPrevious /\ Phases
    BY DEF PreviousCurrent, ListCurrent, BeforeIsPrevious, Phases
  <1>3. OwnWritesServed
    BY DEF OwnWritesServed
  <1>4. QED
    BY <1>1, <1>2, <1>3 DEF OInv

-----------------------------------------------------------------------------
(* Two tasks of one instance are never inside at the same time. *)
LEMMA Exclusion ==
    ASSUME TypeOK, NEW t \in Tasks, NEW u \in Tasks,
           pc[t] # "idle", pc[u] # "idle", Home[t] = Home[u]
    PROVE  t = u
  BY DEF TypeOK

LEMMA PutTypes ==
    ASSUME TypeOK, NEW t \in Tasks, NEW r \in Record, Put(t, selector[t], r)
    PROVE  store' \in Table /\ owner' \in [Selectors -> Tasks]
  BY DEF TypeOK, Put, Table

LEMMA WrittenTypes ==
    ASSUME NEW t \in Tasks, NEW r \in Written(t)
    PROVE  r \in Record
  BY DEF Written, Record

LEMMA LeaveTypes ==
    ASSUME TypeOK, NEW t \in Tasks, pc[t] # "idle", Leave(t)
    PROVE  /\ pc' \in [Tasks -> PC]
           /\ kind' \in [Tasks -> {"upsert", "delete", "refresh"}]
           /\ selector' \in [Tasks -> Selectors]
           /\ previous' \in [Tasks -> Record]
           /\ listed' \in [Tasks -> Table]
           /\ holder' \in [Instances -> Tasks \cup {"nobody"}]
           /\ \A u \in Tasks : pc'[u] # "idle" <=> holder'[Home[u]] = u
           /\ before' \in [Tasks -> Record \cup {"unknown"}]
           /\ sameHome' \in [Tasks -> BOOLEAN]
  <1> USE OverrideAssumption DEF TypeOK, Leave
  <1>1. NoTable \in Table
    BY DEF NoTable, Table, Record
  <1>2. \A u \in Tasks : pc'[u] # "idle" <=> holder'[Home[u]] = u
    OBVIOUS
  <1>3. QED
    BY <1>1, <1>2 DEF PC, Record

LEMMA GoToTypes ==
    ASSUME TypeOK, NEW t \in Tasks, pc[t] # "idle", NEW place \in PC \ {"idle"},
           GoTo(t, place)
    PROVE  /\ pc' \in [Tasks -> PC]
           /\ kind' \in [Tasks -> {"upsert", "delete", "refresh"}]
           /\ selector' \in [Tasks -> Selectors]
           /\ previous' \in [Tasks -> Record]
           /\ holder' \in [Instances -> Tasks \cup {"nobody"}]
           /\ \A u \in Tasks : pc'[u] # "idle" <=> holder'[Home[u]] = u
  BY DEF TypeOK, GoTo

LEMMA NextTypeOK == TypeOK /\ [Next]_vars => TypeOK'
  <1> SUFFICES ASSUME TypeOK, [Next]_vars PROVE TypeOK'
    OBVIOUS
  <1> USE OverrideAssumption
  <1>1. ASSUME NEW t \in Tasks, NEW op \in {"upsert", "delete", "refresh"},
               NEW place \in {"writing", "listing"}, Enter(t, op, place),
               selector' \in [Tasks -> Selectors], previous' \in [Tasks -> Record]
        PROVE  TypeOK'
    <2>1. \A u \in Tasks : pc'[u] # "idle" <=> holder'[Home[u]] = u
      BY <1>1 DEF TypeOK, Enter
    <2>2. pc' \in [Tasks -> PC]
      BY <1>1 DEF TypeOK, Enter, PC
    <2>3. holder' \in [Instances -> Tasks \cup {"nobody"}]
      BY <1>1 DEF TypeOK, Enter
    <2>4. QED
      BY <1>1, <2>1, <2>2, <2>3 DEF TypeOK, Enter, history
  <1>2. ASSUME NEW t \in Handlers, NEW k \in Selectors, NEW op \in {"upsert", "delete"},
               BeginWrite(t, k, op)
        PROVE  TypeOK'
    <2>1. snapshot[Home[t]][k] \in Record
      BY DEF TypeOK, Table, Handlers
    <2>2. selector' \in [Tasks -> Selectors] /\ previous' \in [Tasks -> Record]
      BY <1>2, <2>1 DEF BeginWrite, TypeOK
    <2>3. QED
      BY <1>1, <1>2, <2>2 DEF BeginWrite, Handlers
  <1>3. ASSUME NEW t \in Refreshers, BeginRefresh(t)
        PROVE  TypeOK'
    <2>1. selector' \in [Tasks -> Selectors] /\ previous' \in [Tasks -> Record]
      BY <1>3 DEF BeginRefresh, TypeOK
    <2>2. QED
      BY <1>1, <1>3, <2>1 DEF BeginRefresh
  <1>4. ASSUME NEW t \in Tasks, Write(t)
        PROVE  TypeOK'
    <2>1. PICK r \in Written(t) : Put(t, selector[t], r)
      BY <1>4 DEF Write
    <2>2. store' \in Table /\ owner' \in [Selectors -> Tasks]
      BY <2>1, PutTypes, WrittenTypes
    <2>3. pc[t] # "idle" /\ "listing" \in PC \ {"idle"} /\ GoTo(t, "listing")
      BY <1>4 DEF Write, PC
    <2>4. store[selector[t]] \in Record
      BY DEF TypeOK, Table
    <2>5. before' \in [Tasks -> Record \cup {"unknown"}] /\ sameHome' \in [Tasks -> BOOLEAN]
      BY <1>4, <2>4 DEF Write, TypeOK
    <2>6. served' \in [Selectors -> BOOLEAN]
      BY <1>4 DEF Write, TypeOK
    <2>7. QED
      BY <1>4, <2>2, <2>3, <2>5, <2>6, GoToTypes DEF Write, TypeOK
  <1>5. ASSUME NEW t \in Tasks, WriteFails(t)
        PROVE  TypeOK'
    BY <1>5, LeaveTypes DEF WriteFails, TypeOK
  <1>6. ASSUME NEW t \in Tasks, WriteUnsure(t)
        PROVE  TypeOK'
    <2>1. PICK r \in Written(t) : Put(t, selector[t], r)
      BY <1>6 DEF WriteUnsure
    <2>2. store' \in Table /\ owner' \in [Selectors -> Tasks]
      BY <2>1, PutTypes, WrittenTypes
    <2>3. served' \in [Selectors -> BOOLEAN]
      BY <1>6 DEF WriteUnsure, TypeOK
    <2>4. QED
      BY <1>6, <2>2, <2>3, LeaveTypes DEF WriteUnsure, TypeOK
  <1>7. ASSUME NEW t \in Tasks, List(t)
        PROVE  TypeOK'
    <2>1. pc[t] # "idle" /\ "listed" \in PC \ {"idle"} /\ GoTo(t, "listed")
      BY <1>7 DEF List, PC
    <2>2. listed' \in [Tasks -> Table]
      BY <1>7 DEF List, TypeOK
    <2>3. QED
      BY <1>7, <2>1, <2>2, GoToTypes DEF List, TypeOK, history
  <1>8. ASSUME NEW t \in Tasks, ListFails(t)
        PROVE  TypeOK'
    <2>1. CASE GoTo(t, "undoing") /\ UNCHANGED <<listed, before, sameHome>>
      <3>1. pc[t] # "idle" /\ "undoing" \in PC \ {"idle"}
        BY <1>8 DEF ListFails, PC
      <3>2. QED
        BY <1>8, <2>1, <3>1, GoToTypes DEF ListFails, TypeOK
    <2>2. CASE Leave(t)
      BY <1>8, <2>2, LeaveTypes DEF ListFails, TypeOK
    <2>3. QED
      BY <1>8, <2>1, <2>2 DEF ListFails
  <1>9. ASSUME NEW t \in Tasks, Swap(t)
        PROVE  TypeOK'
    <2>1. snapshot' \in [Instances -> Table] /\ served' \in [Selectors -> BOOLEAN]
      BY <1>9 DEF Swap, TypeOK
    <2>2. QED
      BY <1>9, <2>1, LeaveTypes DEF Swap, TypeOK
  <1>10. ASSUME NEW t \in Tasks, Undo(t)
         PROVE  TypeOK'
    <2>1. store' \in Table /\ owner' \in [Selectors -> Tasks]
      BY <1>10, PutTypes DEF Undo, TypeOK
    <2>2. served' \in [Selectors -> BOOLEAN]
      BY <1>10 DEF Undo, TypeOK
    <2>3. QED
      BY <1>10, <2>1, <2>2, LeaveTypes DEF Undo, TypeOK
  <1>11. ASSUME NEW t \in Tasks, UndoFails(t)
         PROVE  TypeOK'
    <2>1. pc[t] # "idle" /\ "reconciling" \in PC \ {"idle"} /\ GoTo(t, "reconciling")
      BY <1>11 DEF UndoFails, UndoWithError, PC
    <2>2. store' \in Table /\ owner' \in [Selectors -> Tasks] /\ served' \in [Selectors -> BOOLEAN]
      BY <1>11, PutTypes DEF UndoFails, UndoWithError, TypeOK
    <2>3. QED
      BY <1>11, <2>1, <2>2, GoToTypes DEF UndoFails, TypeOK
  <1>12. CASE StoreChanges
    BY <1>12 DEF StoreChanges, TypeOK, taskVars, history
  <1>13. CASE UNCHANGED vars
    BY <1>13 DEF vars, taskVars, history, TypeOK
  <1>14. QED
    BY <1>2, <1>3, <1>4, <1>5, <1>6, <1>7, <1>8, <1>9, <1>10, <1>11, <1>12, <1>13
    DEF Next, Continue

-----------------------------------------------------------------------------
(* Only Swap changes a snapshot, and it ends the one operation that relies  *)
(* on it.                                                                   *)
LEMMA NextPreviousCurrent == TypeOK /\ PreviousCurrent /\ [Next]_vars => PreviousCurrent'
  <1> SUFFICES ASSUME TypeOK, PreviousCurrent, [Next]_vars PROVE PreviousCurrent'
    OBVIOUS
  <1> USE DEF PreviousCurrent, TypeOK
  <1>1. ASSUME NEW t \in Handlers, NEW k \in Selectors, NEW op \in {"upsert", "delete"},
               BeginWrite(t, k, op)
        PROVE  PreviousCurrent'
    BY <1>1 DEF BeginWrite, Enter, Handlers
  <1>2. ASSUME NEW t \in Refreshers, BeginRefresh(t)
        PROVE  PreviousCurrent'
    BY <1>2, OverrideAssumption DEF BeginRefresh, Enter
  <1>3. ASSUME NEW t \in Tasks, snapshot' = snapshot,
               Leave(t) \/ (pc[t] # "idle" /\ \E place \in PC : GoTo(t, place))
        PROVE  PreviousCurrent'
    <2>1. CASE Leave(t)
      BY <1>3, <2>1 DEF Leave
    <2>2. ASSUME NEW place \in PC, pc[t] # "idle", GoTo(t, place)
          PROVE  PreviousCurrent'
      BY <1>3, <2>2 DEF GoTo
    <2>3. QED
      BY <1>3, <2>1, <2>2
  <1>4. ASSUME NEW t \in Tasks, Swap(t)
        PROVE  PreviousCurrent'
    <2>1. \A u \in Tasks : pc[u] # "idle" /\ Home[u] = Home[t] => u = t
      BY <1>4, Exclusion DEF Swap
    <2>2. QED
      BY <1>4, <2>1 DEF Swap, Leave
  <1>5. ASSUME NEW t \in Tasks, Write(t) \/ WriteFails(t) \/ WriteUnsure(t) \/ List(t)
                                \/ ListFails(t) \/ Undo(t) \/ UndoFails(t)
        PROVE  PreviousCurrent'
    <2>1. snapshot' = snapshot /\ pc[t] # "idle"
      BY <1>5 DEF Write, WriteFails, WriteUnsure, List, ListFails, Undo, UndoFails,
                  UndoWithError
    <2>2. Leave(t) \/ \E place \in PC : GoTo(t, place)
      BY <1>5 DEF Write, WriteFails, WriteUnsure, List, ListFails, Undo, UndoFails, PC
    <2>3. QED
      BY <1>3, <2>1, <2>2
  <1>6. CASE StoreChanges \/ UNCHANGED vars
    BY <1>6 DEF StoreChanges, vars, taskVars
  <1>7. QED
    BY <1>1, <1>2, <1>4, <1>5, <1>6 DEF Next, Continue

(* A store call of an instance comes when none of its tasks holds a list. *)
LEMMA NextListCurrent == TypeOK /\ ListCurrent /\ [Next]_vars => ListCurrent'
  <1> SUFFICES ASSUME TypeOK, ListCurrent, [Next]_vars PROVE ListCurrent'
    OBVIOUS
  <1> USE DEF ListCurrent, TypeOK, Table
  <1>1. ASSUME NEW t \in Tasks, NEW op, NEW place \in {"writing", "listing"},
               Enter(t, op, place)
        PROVE  ListCurrent'
    BY <1>1 DEF Enter, history
  <1>2. ASSUME NEW t \in Tasks, pc[t] # "idle", pc'[t] # "listed",
               \A u \in Tasks \ {t} : pc'[u] = pc[u] /\ listed'[u] = listed[u],
               \/ UNCHANGED <<store, owner>>
               \/ \E r : Put(t, selector[t], r)
        PROVE  ListCurrent'
    <2>1. CASE UNCHANGED <<store, owner>>
      <3> SUFFICES ASSUME NEW u \in Tasks, pc'[u] = "listed", NEW k \in Selectors,
                          Home[owner'[k]] = Home[u]
                   PROVE  listed'[u][k] = store'[k]
        OBVIOUS
      <3>1. pc[u] = "listed" /\ listed'[u] = listed[u]
        BY <1>2
      <3>2. QED
        BY <2>1, <3>1
    <2>2. ASSUME NEW r, Put(t, selector[t], r)
          PROVE  ListCurrent'
      <3> SUFFICES ASSUME NEW u \in Tasks, pc'[u] = "listed", NEW k \in Selectors,
                          Home[owner'[k]] = Home[u]
                   PROVE  listed'[u][k] = store'[k]
        OBVIOUS
      <3>1. u # t /\ pc[u] = "listed" /\ listed'[u] = listed[u]
        BY <1>2
      <3>2. Home[t] # Home[u]
        BY <1>2, <3>1, Exclusion
      <3>3. k # selector[t]
        BY <2>2, <3>2 DEF Put
      <3>4. QED
        BY <2>2, <3>1, <3>3 DEF Put
    <2>3. QED
      BY <1>2, <2>1, <2>2
  <1>3. ASSUME NEW t \in Tasks, Write(t) \/ WriteFails(t) \/ WriteUnsure(t)
                                \/ ListFails(t) \/ Swap(t) \/ Undo(t) \/ UndoFails(t)
        PROVE  ListCurrent'
    <2>1. pc[t] # "idle" /\ pc'[t] # "listed"
      BY <1>3 DEF Write, WriteFails, WriteUnsure, ListFails, Swap, Undo, UndoFails,
                  UndoWithError, GoTo, Leave
    <2>2. \A u \in Tasks \ {t} : pc'[u] = pc[u] /\ listed'[u] = listed[u]
      BY <1>3 DEF Write, WriteFails, WriteUnsure, ListFails, Swap, Undo, UndoFails,
                  GoTo, Leave
    <2>3. UNCHANGED <<store, owner>> \/ \E r : Put(t, selector[t], r)
      BY <1>3 DEF Write, WriteFails, WriteUnsure, ListFails, Swap, Undo, UndoFails,
                  UndoWithError
    <2>4. QED
      BY <1>2, <2>1, <2>2, <2>3
  <1>4. ASSUME NEW t \in Tasks, List(t)
        PROVE  ListCurrent'
    BY <1>4 DEF List, GoTo, history
  <1>5. CASE StoreChanges \/ UNCHANGED vars
    BY <1>5 DEF StoreChanges, vars, taskVars, history
  <1>6. QED
    BY <1>1, <1>3, <1>4, <1>5, OverrideAssumption
    DEF Next, Continue, BeginWrite, BeginRefresh, Handlers

LEMMA NextPhases == TypeOK /\ Phases /\ [Next]_vars => Phases'
  <1> SUFFICES ASSUME TypeOK, Phases, [Next]_vars PROVE Phases'
    OBVIOUS
  <1> USE DEF Phases, TypeOK
  <1>1. ASSUME NEW t \in Handlers, NEW k \in Selectors, NEW op \in {"upsert", "delete"},
               BeginWrite(t, k, op)
        PROVE  Phases'
    BY <1>1 DEF BeginWrite, Enter, history, Handlers
  <1>2. ASSUME NEW t \in Refreshers, BeginRefresh(t)
        PROVE  Phases'
    BY <1>2, OverrideAssumption DEF BeginRefresh, Enter, history
  <1>3. ASSUME NEW t \in Tasks, Leave(t)
        PROVE  Phases'
    BY <1>3 DEF Leave
  <1>4. ASSUME NEW t \in Tasks, NEW place \in {"listing", "listed", "reconciling"},
               pc[t] # "idle", GoTo(t, place),
               \A u \in Tasks \ {t} : before'[u] = before[u]
        PROVE  Phases'
    BY <1>4 DEF GoTo
  <1>5. ASSUME NEW t \in Tasks, Undoable(t), GoTo(t, "undoing"), UNCHANGED before
        PROVE  Phases'
    BY <1>5 DEF GoTo, Undoable
  <1>6. ASSUME NEW t \in Tasks, Write(t) \/ List(t) \/ UndoFails(t)
        PROVE  Phases'
    BY <1>4, <1>6 DEF Write, List, UndoFails, UndoWithError, history
  <1>7. ASSUME NEW t \in Tasks, WriteFails(t) \/ WriteUnsure(t) \/ Swap(t) \/ Undo(t)
        PROVE  Phases'
    BY <1>3, <1>7 DEF WriteFails, WriteUnsure, Swap, Undo
  <1>8. ASSUME NEW t \in Tasks, ListFails(t)
        PROVE  Phases'
    BY <1>3, <1>5, <1>8 DEF ListFails
  <1>9. CASE StoreChanges \/ UNCHANGED vars
    BY <1>9 DEF StoreChanges, vars, taskVars, history
  <1>10. QED
    BY <1>1, <1>2, <1>6, <1>7, <1>8, <1>9 DEF Next, Continue

(* The write finds what the instance serves, which is what it will undo to. *)
LEMMA NextBefore == OInv /\ [Next]_vars => BeforeIsPrevious'
  <1> SUFFICES ASSUME OInv, [Next]_vars PROVE BeforeIsPrevious'
    OBVIOUS
  <1> USE DEF OInv, BeforeIsPrevious, TypeOK
  <1>1. ASSUME NEW t \in Tasks, NEW op, NEW place, Enter(t, op, place),
               \A u \in Tasks \ {t} : previous'[u] = previous[u]
        PROVE  BeforeIsPrevious'
    BY <1>1 DEF Enter, history, Phases
  <1>2. ASSUME NEW t \in Tasks, Leave(t)
        PROVE  BeforeIsPrevious'
    BY <1>2 DEF Leave
  <1>3. ASSUME NEW t \in Tasks, NEW place, GoTo(t, place), UNCHANGED <<before, sameHome>>
        PROVE  BeforeIsPrevious'
    BY <1>3 DEF GoTo
  <1>4. ASSUME NEW t \in Tasks, Write(t)
        PROVE  BeforeIsPrevious'
    <2>1. previous[t] = snapshot[Home[t]][selector[t]]
      BY <1>4 DEF Write, PreviousCurrent, Phases
    <2>2. served[selector[t]] /\ Home[owner[selector[t]]] = Home[t]
            => store[selector[t]] = previous[t]
      BY <2>1 DEF OwnWritesServed
    <2>3. QED
      BY <1>4, <2>2 DEF Write, GoTo
  <1>5. ASSUME NEW t \in Tasks, Continue(t)
        PROVE  BeforeIsPrevious'
    BY <1>2, <1>3, <1>4, <1>5
    DEF Continue, WriteFails, WriteUnsure, List, ListFails, Swap, Undo, UndoFails, history
  <1>6. ASSUME NEW t \in Handlers, NEW k \in Selectors, NEW op \in {"upsert", "delete"},
               BeginWrite(t, k, op)
        PROVE  BeforeIsPrevious'
    BY <1>1, <1>6 DEF BeginWrite, Handlers
  <1>7. ASSUME NEW t \in Refreshers, BeginRefresh(t)
        PROVE  BeforeIsPrevious'
    BY <1>1, <1>7, OverrideAssumption DEF BeginRefresh
  <1>8. CASE StoreChanges \/ UNCHANGED vars
    BY <1>8 DEF StoreChanges, vars, taskVars, history
  <1>9. QED
    BY <1>5, <1>6, <1>7, <1>8 DEF Next

LEMMA NextServed == OInv /\ [Next]_vars => OwnWritesServed'
  <1> SUFFICES ASSUME OInv, [Next]_vars PROVE OwnWritesServed'
    OBVIOUS
  <1> USE DEF OInv, OwnWritesServed, TypeOK, Table
  <1>1. CASE UNCHANGED <<store, snapshot, owner, served>>
    BY <1>1
  <1>2. ASSUME NEW t \in Tasks, NEW r, Put(t, selector[t], r), UNCHANGED snapshot,
               served' = [served EXCEPT ![selector[t]] = FALSE]
        PROVE  OwnWritesServed'
    BY <1>2 DEF Put
  <1>3. ASSUME NEW t \in Tasks, Swap(t)
        PROVE  OwnWritesServed'
    <2> SUFFICES ASSUME NEW k \in Selectors, served'[k]
                 PROVE  snapshot'[Home[owner[k]]][k] = store[k]
      BY <1>3 DEF Swap
    <2>1. CASE Home[owner[k]] = Home[t]
      BY <1>3, <2>1, OverrideAssumption DEF Swap, ListCurrent
    <2>2. CASE Home[owner[k]] # Home[t]
      BY <1>3, <2>2, OverrideAssumption DEF Swap
    <2>3. QED
      BY <2>1, <2>2
  <1>4. ASSUME NEW t \in Tasks, Undo(t)
        PROVE  OwnWritesServed'
    <2>1. previous[t] = snapshot[Home[t]][selector[t]]
      BY <1>4 DEF Undo, PreviousCurrent, Phases
    <2>2. QED
      BY <1>4, <2>1 DEF Undo, Put
  <1>5. ASSUME NEW t \in Tasks, Continue(t)
        PROVE  OwnWritesServed'
    BY <1>1, <1>2, <1>3, <1>4, <1>5
    DEF Continue, Write, WriteFails, WriteUnsure, List, ListFails, UndoFails,
        UndoWithError, history
  <1>6. CASE (\E t \in Tasks, op \in {"upsert", "delete", "refresh"},
                 place \in {"writing", "listing"} : Enter(t, op, place))
             \/ StoreChanges \/ UNCHANGED vars
    BY <1>1, <1>6 DEF Enter, StoreChanges, vars, history
  <1>7. QED
    BY <1>5, <1>6, OverrideAssumption DEF Next, BeginWrite, BeginRefresh, Handlers

-----------------------------------------------------------------------------
LEMMA OverrideInvariance == Spec => []OInv
  <1>1. OInv /\ [Next]_vars => OInv'
    BY NextTypeOK, NextPreviousCurrent, NextListCurrent, NextPhases, NextBefore, NextServed
    DEF OInv
  <1>2. QED
    BY InitOInv, <1>1, PTL DEF Spec

(* Every variable keeps its type, and a task that is inside an operation    *)
(* holds the refreshMu of its instance.                                     *)
THEOREM OverrideTypesCorrect == Spec => []TypeOK
  <1>1. OInv => TypeOK
    BY DEF OInv
  <1>2. QED
    BY OverrideInvariance, <1>1, PTL

(* What an instance wrote and reported is what it serves: refreshMu keeps   *)
(* an older list from being published over it.                              *)
THEOREM ReportedIsServed == Spec => []OwnWritesServed
  <1>1. OInv => OwnWritesServed
    BY DEF OInv
  <1>2. QED
    BY OverrideInvariance, <1>1, PTL

(* An undone write restores a record that was last written, and served, by  *)
(* the same instance.                                                       *)
THEOREM UndoRestores == Spec => OwnRecordsRestored
  <1> DEFINE Restores == \A t \in Tasks :
               Undone(t) /\ sameHome[t] => store'[selector[t]] = before[t]
  <1>1. OInv /\ [Next]_vars => Restores
    <2> SUFFICES ASSUME OInv, [Next]_vars, NEW t \in Tasks, Undone(t), sameHome[t]
                 PROVE  store'[selector[t]] = before[t]
      OBVIOUS
    <2>1. before[t] = previous[t]
      BY DEF OInv, BeforeIsPrevious, Undone
    <2>2. Undo(t)
      BY DEF OInv, TypeOK, Undone, Next, Continue, BeginWrite, BeginRefresh, Enter,
             Write, WriteFails, WriteUnsure, List, ListFails, Swap, Undo, UndoFails,
             UndoWithError, GoTo, Leave, StoreChanges, vars, taskVars, Handlers
    <2>3. QED
      BY <2>1, <2>2 DEF OInv, TypeOK, Undo, Put, Table
  <1>2. QED
    BY OverrideInvariance, <1>1, PTL DEF Spec, OwnRecordsRestored
=============================================================================
