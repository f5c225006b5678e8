------------------------ MODULE ModelRegistryProofs ------------------------
(***************************************************************************)
(* For any providers, models, order of registration and coverage of the    *)
(* model lists, the registry's two maps and its cached slice agree, and    *)
(* refreshCh keeps metadata in step with the list.                         *)
(***************************************************************************)
EXTENDS ModelRegistry, WellFoundedInduction, TLAPS

(* A set of numbers that is not empty has a least one. *)
LEMMA MinExists ==
    ASSUME NEW S \in SUBSET Nat, S # {}
    PROVE  \E n \in S : \A k \in S : n <= k
  <1> DEFINE R == {s \in Nat \X Nat : s[1] < s[2]}
  <1>1. IsWellFoundedOn(R, Nat)
    BY NatLessThanWellFounded DEF OpToRel
  <1>2. PICK n \in S : \A k \in S : ~ (<<k, n>> \in R)
    <2> HIDE DEF R
    <2> QED
      BY <1>1, WFMin
  <1>3. \A k \in S : n <= k
    <2> SUFFICES ASSUME NEW k \in S PROVE n <= k
      OBVIOUS
    <2>1. ~ (k < n)
      BY <1>2
    <2>2. QED
      BY <2>1
  <1>4. QED
    BY <1>2, <1>3

(* The first provider that has a model is a provider that has it. *)
LEMMA FirstHas ==
    ASSUME NEW inv \in Inventory, NEW m \in Models, Has(inv, m) # {}
    PROVE  First(inv, m) \in Providers /\ inv[First(inv, m)][m] # Absent
  <1> DEFINE n == CHOOSE n \in Has(inv, m) : \A k \in Has(inv, m) : n <= k
  <1>1. Has(inv, m) \in SUBSET Nat
    BY DEF Has
  <1>2. n \in Has(inv, m)
    BY <1>1, MinExists
  <1>3. n \in 1 .. Len(Order) /\ inv[Order[n]][m] # Absent
    BY <1>2 DEF Has
  <1>4. Order[n] \in Providers
    BY <1>3, RegistryAssumption
  <1>5. QED
    BY <1>3, <1>4 DEF First

(* The names of a new inventory are typed, and are its names. *)
LEMMA FirstEntriesFacts ==
    ASSUME NEW inv \in Inventory, NEW twice \in [Providers -> SUBSET Models]
    PROVE  FirstEntries(inv, twice) \in Names /\ NamesOf(inv, FirstEntries(inv, twice))
  <1> DEFINE names == FirstEntries(inv, twice)
  <1>1. ASSUME NEW m \in Models, Has(inv, m) # {}
        PROVE  /\ names[m] \in Entry /\ names[m].by = First(inv, m)
               /\ names[m].meta = inv[First(inv, m)][m]
    <2>1. First(inv, m) \in Providers /\ inv[First(inv, m)][m] # Absent
      BY <1>1, FirstHas
    <2>2. inv[First(inv, m)][m] \in List
      BY <2>1 DEF Inventory
    <2>3. names[m] = [by |-> First(inv, m), meta |-> inv[First(inv, m)][m],
                      same |-> m \notin twice[First(inv, m)]]
      BY <1>1 DEF FirstEntries
    <2>4. QED
      BY <2>1, <2>2, <2>3 DEF Entry
  <1>2. ASSUME NEW m \in Models, Has(inv, m) = {}
        PROVE  names[m] = Absent
    BY <1>2 DEF FirstEntries
  <1>3. names = [m \in Models |-> names[m]]
    BY DEF FirstEntries
  <1> HIDE DEF names
  <1>4. names \in Names
    BY <1>1, <1>2, <1>3 DEF Names
  <1>5. NamesOf(inv, names)
    BY <1>1, <1>2, RegistryAssumption DEF NamesOf
  <1>6. QED
    BY <1>4, <1>5 DEF names

LEMMA GlobalFacts ==
    ASSUME NEW inv \in Inventory
    PROVE  rebuildGlobalModelMap(inv) \in Names /\ NamesOf(inv, rebuildGlobalModelMap(inv))
  <1>1. [p \in Providers |-> {}] \in [Providers -> SUBSET Models]
    OBVIOUS
  <1>2. QED
    BY <1>1, FirstEntriesFacts DEF rebuildGlobalModelMap

LEMMA NoNamesFacts == NoNames \in Names /\ NamesOf(NoModels, NoNames)
  <1>1. \A m \in Models : Has(NoModels, m) = {}
    BY RegistryAssumption DEF Has, NoModels
  <1>2. QED
    BY <1>1 DEF NoNames, Names, NamesOf

(* An inventory without names has no models: every provider is in Order. *)
LEMMA NoNamesNoModels ==
    ASSUME NEW inv \in Inventory, NamesOf(inv, NoNames)
    PROVE  ~Serves(inv)
  <1> SUFFICES ASSUME NEW p \in Providers, NEW m \in Models, inv[p][m] # Absent
               PROVE  FALSE
    BY DEF Serves
  <1>1. PICK n \in 1 .. Len(Order) : Order[n] = p
    BY RegistryAssumption
  <1>2. n \in Has(inv, m)
    BY <1>1 DEF Has
  <1>3. QED
    BY <1>2 DEF NamesOf, NoNames

(* Enriching changes no provider's models, and what the list covers is up  *)
(* to date afterwards.                                                     *)
Enriched(inv, list) ==
    \A p \in Providers, m \in Models :
        inv[p][m] # Absent /\ m \in Covers[list] => inv[p][m] = list

LEMMA EnrichFacts ==
    ASSUME NEW inv \in Inventory, NEW list \in List
    PROVE  LET new == enrichProviderModelMaps(inv, list)
           IN  /\ new \in Inventory
               /\ \A p \in Providers, m \in Models : new[p][m] = Absent <=> inv[p][m] = Absent
               /\ Enriched(new, list)
               /\ Serves(new) <=> Serves(inv)
  <1> DEFINE new == enrichProviderModelMaps(inv, list)
  <1>1. new \in Inventory
    BY DEF enrichProviderModelMaps, Inventory
  <1>2. \A p \in Providers, m \in Models :
          new[p][m] = IF inv[p][m] # Absent /\ m \in Covers[list] THEN list ELSE inv[p][m]
    BY DEF enrichProviderModelMaps
  <1>3. list # Absent
    BY RegistryAssumption
  <1>4. \A p \in Providers, m \in Models : new[p][m] = Absent <=> inv[p][m] = Absent
    BY <1>2, <1>3
  <1>5. Enriched(new, list)
    BY <1>2, <1>4 DEF Enriched
  <1>6. Serves(new) <=> Serves(inv)
    BY <1>4 DEF Serves
  <1>7. QED
    BY <1>1, <1>4, <1>5, <1>6

(* What enrichment sets on the entries of an inventory reaches its names. *)
LEMMA CarryOverFacts ==
    ASSUME NEW inv \in Inventory, NEW list \in List, NEW names \in Names, NamesOf(inv, names)
    PROVE  LET new == enrichProviderModelMaps(inv, list)
           IN  CarryOver(names, new) \in Names /\ NamesOf(new, CarryOver(names, new))
  <1> DEFINE new  == enrichProviderModelMaps(inv, list)
             over == CarryOver(names, new)
  <1>1. /\ new \in Inventory
        /\ \A p \in Providers, m \in Models : new[p][m] = Absent <=> inv[p][m] = Absent
    BY EnrichFacts
  <1> HIDE DEF new
  <1>2. \A m \in Models : Has(new, m) = Has(inv, m) /\ First(new, m) = First(inv, m)
    <2> SUFFICES ASSUME NEW m \in Models PROVE Has(new, m) = Has(inv, m)
      BY DEF First
    <2>1. \A n \in 1 .. Len(Order) : Order[n] \in Providers
      BY RegistryAssumption
    <2>2. QED
      BY <1>1, <2>1 DEF Has
  <1>3. ASSUME NEW m \in Models, Has(inv, m) = {}
        PROVE  over[m] = Absent
    BY <1>3 DEF NamesOf, CarryOver
  <1>4. ASSUME NEW m \in Models, Has(inv, m) # {}
        PROVE  /\ over[m] \in Entry /\ over[m].by = First(inv, m)
               /\ over[m].same => over[m].meta = new[First(inv, m)][m]
    <2>1. names[m] \in Entry /\ names[m].by = First(inv, m) /\ names[m] # Absent
      BY <1>4 DEF NamesOf, Names
    <2>2. CASE ~names[m].same
      BY <2>1, <2>2 DEF CarryOver
    <2>3. CASE names[m].same
      <3>1. First(inv, m) \in Providers /\ inv[First(inv, m)][m] # Absent
        BY <1>4, FirstHas
      <3>2. new[First(inv, m)][m] \in List
        BY <1>1, <3>1 DEF Inventory
      <3>3. over[m] = [names[m] EXCEPT !.meta = new[First(inv, m)][m]]
        BY <2>1, <2>3 DEF CarryOver
      <3>4. QED
        BY <2>1, <3>2, <3>3 DEF Entry
    <2>4. QED
      BY <2>2, <2>3
  <1>5. over = [m \in Models |-> over[m]]
    BY DEF CarryOver
  <1> HIDE DEF over
  <1>6. over \in Names
    BY <1>3, <1>4, <1>5 DEF Names
  <1>7. NamesOf(new, over)
    BY <1>2, <1>3, <1>4, RegistryAssumption DEF NamesOf
  <1>8. QED
    BY <1>6, <1>7 DEF new, over

-----------------------------------------------------------------------------
(* Who is in a cycle holds refreshCh, so nobody but the start-up goroutine *)
(* sets a list between the read of one and the swap.                       *)
LockHeld ==
    \A r \in Refreshers :
        task[r].step \in {"fetched", "enriched", "listFetched"} => refreshCh = r

ListRead ==
    \A r \in Refreshers :
        task[r].step = "enriched" =>
            /\ Enriched(task[r].inv, task[r].list)
            /\ startup.step \in {"fetch", "set"} => task[r].list = modelList

(* The names a refresher brings are those of the inventory it brings. *)
TaskNames == \A r \in Refreshers : NamesOf(task[r].inv, task[r].bare)

FetchedServes ==
    \A r \in Refreshers : task[r].step \in {"fetched", "enriched"} => Serves(task[r].inv)

Stopped ==
    ~up => /\ \A r \in Refreshers : task[r].step = "idle"
           /\ startup.step = "done" /\ listing = None /\ ~initialized

Ready == initialized => Serves(inventory)

RInv == /\ TypeOK /\ BareNamesFirstProvider /\ MetadataAccounted /\ ListingCurrent
        /\ LockHeld /\ ListRead /\ TaskNames /\ FetchedServes /\ Stopped /\ Ready

LEMMA NoModelsType == NoModels \in Inventory /\ ~Serves(NoModels)
  BY DEF NoModels, Inventory, Serves

LEMMA FetchedType ==
    ASSUME NEW models \in [Providers -> SUBSET Models]
    PROVE  /\ Fetched(models) \in Inventory
           /\ (\E p \in Providers : models[p] # {}) => Serves(Fetched(models))
  <1>1. 0 \in List /\ 0 # Absent
    BY RegistryAssumption DEF List
  <1>2. Fetched(models) \in Inventory
    BY <1>1 DEF Fetched, Inventory
  <1>3. ASSUME NEW p \in Providers, models[p] # {} PROVE Serves(Fetched(models))
    <2>1. PICK m \in Models : m \in models[p]
      BY <1>3
    <2>2. Fetched(models)[p][m] = 0
      BY <2>1 DEF Fetched
    <2>3. QED
      BY <1>1, <2>2 DEF Serves
  <1>4. QED
    BY <1>2, <1>3

LEMMA ConstantTypes == None \notin Refreshers /\ 0 \in List /\ 0 # Absent
  BY RegistryAssumption DEF List

LEMMA InitRInv == Init => RInv
  <1> SUFFICES ASSUME Init PROVE RInv
    OBVIOUS
  <1> USE NoModelsType, NoNamesFacts, ConstantTypes, RegistryAssumption
  <1>1. bare \in Names
    BY DEF Init
  <1>2. task \in [Refreshers ->
                    [step : {"idle", "providers", "fetched", "enriched", "save",
                             "list", "listFetched", "saveList"},
                     inv : Inventory, bare : Names, list : List]]
    BY DEF Init, IdleTask, Refreshers
  <1>3. published \in List /\ modelList \in List
    BY DEF Init, List
  <1>4. TypeOK
    BY <1>1, <1>2, <1>3 DEF Init, TypeOK
  <1>5. BareNamesFirstProvider /\ ListingCurrent
    BY DEF Init, BareNamesFirstProvider, ListingCurrent
  <1>6. MetadataAccounted
    BY DEF Init, MetadataAccounted, NoModels
  <1>7. LockHeld /\ ListRead /\ TaskNames /\ FetchedServes /\ Stopped /\ Ready
    BY DEF Init, LockHeld, ListRead, TaskNames, FetchedServes, Stopped, Ready, IdleTask
  <1>8. QED
    BY <1>4, <1>5, <1>6, <1>7 DEF RInv

Steps == {"idle", "providers", "fetched", "enriched", "save", "list", "listFetched", "saveList"}
Task  == [step : Steps, inv : Inventory, bare : Names, list : List]

LEMMA TaskType ==
    TypeOK => task \in [Refreshers -> Task]
  BY DEF TypeOK, Task, Steps

(* Where a refresher goes to is a task without data. *)
LEMMA GotoType ==
    ASSUME TypeOK, NEW r \in Refreshers, NEW step \in Steps
    PROVE  Goto(r, step) \in [Refreshers -> Task]
  <1>1. IdleTask \in Task
    BY NoModelsType, NoNamesFacts, ConstantTypes DEF IdleTask, Task, Steps
  <1>2. [IdleTask EXCEPT !.step = step] \in Task
    BY <1>1 DEF Task
  <1>3. QED
    BY <1>2, TaskType DEF Goto

LEMMA AfterTypes ==
    ASSUME NEW r \in Refreshers, NEW ok \in BOOLEAN
    PROVE  /\ AfterProviders(r, ok) \in {"save", "list", "idle"}
           /\ AfterList(r, ok) \in {"providers", "saveList", "idle"}
           /\ AfterSave(r) \in {"list", "idle"}
  BY DEF AfterProviders, AfterList, AfterSave, Refreshers

(* Enriching the registry keeps its types. *)
LEMMA EnrichLockedType ==
    ASSUME TypeOK, BareNamesFirstProvider, NEW list \in List, enrichModelsLocked(list)
    PROVE  /\ inventory' \in Inventory /\ bare' \in Names
           /\ listing' \in Inventory \cup {None}
           /\ overtaken' \in BOOLEAN
           /\ BareNamesFirstProvider'
  <1>1. inventory \in Inventory /\ bare \in Names /\ NamesOf(inventory, bare)
    BY DEF TypeOK, BareNamesFirstProvider
  <1>2. CASE /\ inventory' = enrichProviderModelMaps(inventory, list)
             /\ bare' = CarryOver(bare, inventory')
             /\ listing' = None /\ overtaken' = FALSE
    <2>1. inventory' \in Inventory
      BY <1>1, <1>2, EnrichFacts
    <2>2. bare' \in Names /\ NamesOf(inventory', bare')
      BY <1>1, <1>2, CarryOverFacts
    <2>3. QED
      BY <1>2, <2>1, <2>2 DEF BareNamesFirstProvider
  <1>3. CASE UNCHANGED <<inventory, bare, listing, overtaken>>
    BY <1>3 DEF TypeOK, BareNamesFirstProvider
  <1>4. QED
    BY <1>2, <1>3 DEF enrichModelsLocked

LEMMA NextTypeOK ==
    ASSUME TypeOK, BareNamesFirstProvider, TaskNames, [Next]_vars
    PROVE  TypeOK'
  <1> USE TaskType, NoModelsType, NoNamesFacts, ConstantTypes
  <1> USE DEF Task, Steps
  <1>1. CASE Start
    <2>1. inventory' \in Inventory /\ modelList' \in List
      <3>1. cache # None => /\ Fetched(cache.models) \in Inventory /\ cache.list \in List
        BY FetchedType DEF TypeOK, Cache
      <3>2. cache # None => enrichProviderModelMaps(Fetched(cache.models), cache.list) \in Inventory
        BY <3>1, EnrichFacts
      <3>3. QED
        BY <1>1, <3>1, <3>2 DEF Start, TypeOK
    <2>2. bare' \in Names
      BY <1>1, <2>1, GlobalFacts DEF Start, TypeOK
    <2>3. task' \in [Refreshers -> Task]
      BY <1>1 DEF Start, Refreshers
    <2>4. QED
      BY <1>1, <2>1, <2>2, <2>3 DEF Start, TypeOK, external
  <1>2. CASE Crash
    <2>1. bare' \in Names
      BY <1>2 DEF Crash
    <2>2. task' \in [Refreshers -> Task]
      BY <1>2 DEF Crash, IdleTask
    <2>3. QED
      BY <1>2, <2>1, <2>2 DEF Crash, TypeOK, external
  <1>3. CASE Publish
    <2>1. published' \in List
      BY <1>3, RegistryAssumption DEF Publish, TypeOK, List
    <2>2. QED
      BY <1>3, <2>1 DEF Publish, TypeOK, registry
  <1>4. CASE ListModelsWithProvider
    BY <1>4 DEF ListModelsWithProvider, TypeOK, external
  <1>5. CASE Tick \/ RefreshRuntime \/ RefreshAborted
    <2>1. IdleTask \in Task
      BY DEF IdleTask
    <2>2. task' \in [Refreshers -> Task]
      BY <1>5, <2>1 DEF Tick, RefreshRuntime, RefreshAborted, Refreshers
    <2>3. QED
      BY <1>5, <2>2 DEF Tick, RefreshRuntime, RefreshAborted, TypeOK, external, registry
  <1>6. ASSUME NEW r \in Refreshers,
               fetchAllProviderModels(r) \/ InitializeFails(r) \/ EnrichFetched(r)
                 \/ FetchList(r) \/ FetchListFails(r)
        PROVE  TypeOK'
    <2>1. CASE fetchAllProviderModels(r)
      <3>1. PICK models \in [Providers -> SUBSET Models],
                 twice \in [Providers -> SUBSET Models] :
              task' = [task EXCEPT ![r].step = "fetched", ![r].inv = Fetched(models),
                                   ![r].bare = FirstEntries(Fetched(models), twice)]
        BY <2>1 DEF fetchAllProviderModels
      <3>2. task' \in [Refreshers -> Task]
        <4>1. /\ Fetched(models) \in Inventory
              /\ FirstEntries(Fetched(models), twice) \in Names
          BY FetchedType, FirstEntriesFacts
        <4>2. QED
          BY <3>1, <4>1
      <3>3. QED
        BY <2>1, <3>2 DEF fetchAllProviderModels, TypeOK, external, registry
    <2>2. CASE InitializeFails(r) \/ FetchListFails(r)
      <3>1. task' \in [Refreshers -> Task]
        <4>1. /\ AfterProviders(r, FALSE) \in Steps
              /\ AfterList(r, FALSE) \in Steps
          BY AfterTypes
        <4>2. /\ Goto(r, AfterProviders(r, FALSE)) \in [Refreshers -> Task]
              /\ Goto(r, AfterList(r, FALSE)) \in [Refreshers -> Task]
          <5> HIDE DEF Task, Steps
          <5> QED
            BY <4>1, GotoType
        <4>3. QED
          BY <2>2, <4>2 DEF InitializeFails, FetchListFails
      <3>2. QED
        BY <2>2, <3>1 DEF InitializeFails, FetchListFails, TypeOK, external, registry
    <2>3. CASE EnrichFetched(r)
      <3>1. modelList \in List /\ task[r].inv \in Inventory
        BY DEF TypeOK
      <3> DEFINE inv == enrichProviderModelMaps(task[r].inv, modelList)
      <3>2. inv \in Inventory /\ CarryOver(task[r].bare, inv) \in Names
        BY <3>1, EnrichFacts, CarryOverFacts DEF TaskNames
      <3>3. task' = [task EXCEPT ![r].step = "enriched", ![r].list = modelList,
                                 ![r].inv = inv, ![r].bare = CarryOver(task[r].bare, inv)]
        BY <2>3 DEF EnrichFetched
      <3> HIDE DEF inv
      <3>4. task' \in [Refreshers -> Task]
        BY <3>1, <3>2, <3>3
      <3>5. QED
        BY <2>3, <3>4 DEF EnrichFetched, TypeOK, external, registry
    <2>4. CASE FetchList(r)
      <3>1. task' \in [Refreshers -> Task]
        BY <2>4 DEF FetchList, TypeOK
      <3>2. QED
        BY <2>4, <3>1 DEF FetchList, TypeOK, external, registry
    <2>5. QED
      BY <1>6, <2>1, <2>2, <2>3, <2>4
  <1>7. ASSUME NEW r \in Refreshers, applyFetchedInventory(r)
        PROVE  TypeOK'
    <2>1. task[r].inv \in Inventory /\ task[r].bare \in Names
      OBVIOUS
    <2>2. task' \in [Refreshers -> Task]
      BY <1>7, AfterTypes, GotoType DEF applyFetchedInventory
    <2>3. overtaken' \in BOOLEAN
      BY <1>7 DEF applyFetchedInventory, Overtaken
    <2>4. QED
      BY <1>7, <2>1, <2>2, <2>3 DEF applyFetchedInventory, TypeOK, external
  <1>8. ASSUME NEW r \in Refreshers, setModelListAndEnrich(r)
        PROVE  TypeOK'
    <2>1. task[r].list \in List
      OBVIOUS
    <2>2. task' \in [Refreshers -> Task]
      BY <1>8, AfterTypes, GotoType DEF setModelListAndEnrich
    <2>3. QED
      BY <1>8, <2>1, <2>2, EnrichLockedType DEF setModelListAndEnrich, TypeOK, external
  <1>9. CASE enrichModels
    <2>1. modelList \in List
      BY DEF TypeOK
    <2>2. QED
      BY <1>9, <2>1, EnrichLockedType DEF enrichModels, TypeOK, external
  <1>10. Snapshot \in Cache
    <2>1. [p \in Providers |-> {m \in Models : inventory[p][m] # Absent}] \in [Providers -> SUBSET Models]
      OBVIOUS
    <2>2. QED
      BY <2>1 DEF Snapshot, Cache, TypeOK
  <1>11. ASSUME NEW r \in Refreshers, SaveToCache(r)
         PROVE  TypeOK'
    <2>1. task' \in [Refreshers -> Task]
      BY <1>11, AfterTypes, GotoType DEF SaveToCache
    <2>2. QED
      BY <1>10, <1>11, <2>1 DEF SaveToCache, TypeOK, registry
  <1>12. CASE StartupFetch \/ SetModelList \/ StartupSave
    <2>1. CASE StartupFetch
      BY <2>1 DEF StartupFetch, TypeOK, external, registry
    <2>2. CASE SetModelList
      BY <2>2 DEF SetModelList, TypeOK, external
    <2>3. CASE StartupSave
      BY <1>10, <2>3 DEF StartupSave, TypeOK, registry
    <2>4. QED
      BY <1>12, <2>1, <2>2, <2>3
  <1>13. CASE UNCHANGED vars
    BY <1>13 DEF vars, external, registry, TypeOK
  <1>14. QED
    BY <1>1, <1>2, <1>3, <1>4, <1>5, <1>6, <1>7, <1>8, <1>9, <1>11, <1>12, <1>13 DEF Next

(* The steps that leave the maps alone. *)
Quiet ==
    \/ Publish \/ Tick \/ RefreshRuntime \/ RefreshAborted \/ StartupFetch \/ StartupSave
    \/ \E r \in Refreshers :
          \/ fetchAllProviderModels(r) \/ InitializeFails(r) \/ EnrichFetched(r)
          \/ FetchList(r) \/ FetchListFails(r) \/ SaveToCache(r)

LEMMA QuietFrame ==
    ASSUME TypeOK, Quiet
    PROVE  UNCHANGED <<up, inventory, bare, modelList, listing, initialized, overtaken>>
  BY DEF Quiet, Publish, Tick, RefreshRuntime, RefreshAborted, StartupFetch, StartupSave,
         fetchAllProviderModels, InitializeFails, EnrichFetched, FetchList, FetchListFails,
         SaveToCache, registry, external

LEMMA QuietStartup ==
    ASSUME TypeOK, Quiet
    PROVE  /\ startup'.step \in {"fetch", "set"} => startup.step \in {"fetch", "set"}
           /\ startup.step = "enrich" => startup'.step = "enrich"
           /\ startup.step = "done" => startup'.step = "done"
  BY DEF TypeOK, Quiet, Publish, Tick, RefreshRuntime, RefreshAborted, StartupFetch, StartupSave,
         fetchAllProviderModels, InitializeFails, EnrichFetched, FetchList, FetchListFails,
         SaveToCache

LEMMA NextCases ==
    Next <=> \/ Quiet
             \/ Start \/ Crash \/ ListModelsWithProvider \/ SetModelList \/ enrichModels
             \/ \E r \in Refreshers : applyFetchedInventory(r) \/ setModelListAndEnrich(r)
  BY DEF Next, Quiet

LEMMA NextMaps ==
    ASSUME RInv, [Next]_vars
    PROVE  BareNamesFirstProvider' /\ ListingCurrent'
  <1>1. TypeOK /\ BareNamesFirstProvider /\ TaskNames /\ ListingCurrent /\ Stopped
    BY DEF RInv
  <1>2. CASE Quiet \/ UNCHANGED vars
    BY <1>1, <1>2, QuietFrame DEF vars, registry, BareNamesFirstProvider, ListingCurrent
  <1>3. CASE Start \/ Crash \/ ListModelsWithProvider \/ SetModelList
    <2>1. CASE Start
      <3>1. CASE cache # None /\ bare' = rebuildGlobalModelMap(inventory')
        <4>1. inventory' \in Inventory
          <5>1. TypeOK'
            BY <1>1, NextTypeOK
          <5>2. QED
            BY <5>1 DEF TypeOK
        <4>2. NamesOf(inventory', bare')
          BY <3>1, <4>1, GlobalFacts
        <4>3. QED
          BY <1>1, <2>1, <4>2 DEF Start, Stopped, BareNamesFirstProvider, ListingCurrent
      <3>2. CASE UNCHANGED <<inventory, bare>>
        BY <1>1, <2>1, <3>2 DEF Start, Stopped, BareNamesFirstProvider, ListingCurrent
      <3>3. QED
        BY <2>1, <3>1, <3>2 DEF Start
    <2>2. CASE Crash
      BY <2>2, NoNamesFacts DEF Crash, BareNamesFirstProvider, ListingCurrent
    <2>3. CASE ListModelsWithProvider \/ SetModelList
      BY <1>1, <2>3 DEF ListModelsWithProvider, SetModelList,
                        BareNamesFirstProvider, ListingCurrent
    <2>4. QED
      BY <1>3, <2>1, <2>2, <2>3
  <1>4. ASSUME NEW list \in List, enrichModelsLocked(list)
        PROVE  BareNamesFirstProvider' /\ ListingCurrent'
    BY <1>1, <1>4, EnrichLockedType DEF enrichModelsLocked, ListingCurrent
  <1>5. CASE enrichModels
    BY <1>1, <1>4, <1>5 DEF enrichModels, TypeOK
  <1>6. ASSUME NEW r \in Refreshers, setModelListAndEnrich(r)
        PROVE  BareNamesFirstProvider' /\ ListingCurrent'
    <2>1. task[r].list \in List
      BY <1>1, TaskType DEF Task
    <2>2. QED
      BY <1>4, <1>6, <2>1 DEF setModelListAndEnrich
  <1>7. ASSUME NEW r \in Refreshers, applyFetchedInventory(r)
        PROVE  BareNamesFirstProvider' /\ ListingCurrent'
    BY <1>1, <1>7 DEF applyFetchedInventory, BareNamesFirstProvider, TaskNames, ListingCurrent
  <1>8. QED
    BY <1>2, <1>3, <1>5, <1>6, <1>7, NextCases

(* Whoever applies a list leaves nothing it covers behind. *)
LEMMA EnrichLockedMetadata ==
    ASSUME TypeOK, BareNamesFirstProvider, NEW list \in List, enrichModelsLocked(list)
    PROVE  Enriched(inventory', list)
  <1>1. inventory \in Inventory
    BY DEF TypeOK
  <1>2. CASE inventory' = enrichProviderModelMaps(inventory, list)
    BY <1>1, <1>2, EnrichFacts
  <1>3. CASE bare = NoNames /\ inventory' = inventory
    <2>1. ~Serves(inventory)
      BY <1>1, <1>3, NoNamesNoModels DEF BareNamesFirstProvider
    <2>2. QED
      BY <1>3, <2>1 DEF Serves, Enriched
  <1>4. QED
    BY <1>2, <1>3 DEF enrichModelsLocked

LEMMA NextMetadata ==
    ASSUME RInv, [Next]_vars
    PROVE  MetadataAccounted'
  <1>1. TypeOK /\ BareNamesFirstProvider /\ MetadataAccounted /\ ListRead /\ Stopped
    BY DEF RInv
  <1>2. CASE Quiet
    BY <1>1, <1>2, QuietFrame, QuietStartup DEF MetadataAccounted
  <1>3. CASE Start
    <2>1. CASE cache # None /\ inventory' = enrichProviderModelMaps(Fetched(cache.models), cache.list)
               /\ modelList' = cache.list
      <3>1. Fetched(cache.models) \in Inventory /\ cache.list \in List
        BY <1>1, <2>1, FetchedType DEF TypeOK, Cache
      <3>2. Enriched(inventory', modelList')
        BY <2>1, <3>1, EnrichFacts
      <3>3. QED
        BY <3>2 DEF Enriched, MetadataAccounted
    <2>2. CASE UNCHANGED <<inventory, modelList>>
      <3>1. startup.step = "done" /\ UNCHANGED overtaken
        BY <1>1, <1>3 DEF Start, Stopped
      <3>2. QED
        BY <1>1, <2>2, <3>1 DEF MetadataAccounted
    <2>3. QED
      BY <1>3, <2>1, <2>2 DEF Start
  <1>4. CASE Crash
    BY <1>4 DEF Crash, MetadataAccounted, NoModels
  <1>5. CASE ListModelsWithProvider
    BY <1>1, <1>5 DEF ListModelsWithProvider, MetadataAccounted
  <1>6. CASE SetModelList
    BY <1>1, <1>6 DEF SetModelList, MetadataAccounted, TypeOK
  <1>7. CASE enrichModels
    <2>1. Enriched(inventory', modelList)
      BY <1>1, <1>7, EnrichLockedMetadata DEF enrichModels, TypeOK
    <2>2. QED
      BY <1>7, <2>1 DEF enrichModels, Enriched, MetadataAccounted
  <1>8. ASSUME NEW r \in Refreshers, setModelListAndEnrich(r)
        PROVE  MetadataAccounted'
    <2>1. task[r].list \in List
      BY <1>1, TaskType DEF Task
    <2>2. Enriched(inventory', modelList')
      BY <1>1, <1>8, <2>1, EnrichLockedMetadata DEF setModelListAndEnrich
    <2>3. QED
      BY <2>2 DEF Enriched, MetadataAccounted
  <1>9. ASSUME NEW r \in Refreshers, applyFetchedInventory(r)
        PROVE  MetadataAccounted'
    <2>1. Enriched(inventory', task[r].list)
      BY <1>1, <1>9 DEF applyFetchedInventory, ListRead
    <2>2. modelList' = modelList /\ overtaken' = Overtaken(r)
      BY <1>9 DEF applyFetchedInventory
    <2>3. CASE Overtaken(r)
      BY <2>2, <2>3 DEF MetadataAccounted
    <2>4. CASE ~Overtaken(r)
      <3>1. task[r].list = modelList
        BY <1>1, <1>9, <2>4 DEF Overtaken, ListRead, applyFetchedInventory
      <3>2. QED
        BY <2>1, <2>2, <3>1 DEF Enriched, MetadataAccounted
    <2>5. QED
      BY <2>3, <2>4
  <1>10. CASE UNCHANGED vars
    BY <1>1, <1>10 DEF vars, registry, MetadataAccounted
  <1>11. QED
    BY <1>2, <1>3, <1>4, <1>5, <1>6, <1>7, <1>8, <1>9, <1>10, NextCases

(* A refresher that goes on without data is in no cycle. *)
LEMMA GotoStep ==
    ASSUME TypeOK, NEW r \in Refreshers, NEW step \in Steps
    PROVE  /\ Goto(r, step)[r].step = step
           /\ \A q \in Refreshers : q # r => Goto(r, step)[q] = task[q]
  BY TaskType DEF Goto, IdleTask

LEMMA NextLockHeld ==
    ASSUME RInv, [Next]_vars
    PROVE  LockHeld'
  <1> USE DEF LockHeld
  <1>1. TypeOK /\ LockHeld /\ Stopped
    BY DEF RInv
  <1> USE TaskType DEF Task, Steps
  <1>2. CASE Start \/ Crash \/ Tick \/ RefreshRuntime \/ RefreshAborted
    <2>1. CASE Start
      BY <1>1, <2>1 DEF Start, Refreshers
    <2>2. CASE Crash
      BY <2>2 DEF Crash, IdleTask
    <2>3. CASE Tick \/ RefreshRuntime \/ RefreshAborted
      BY <1>1, <2>3 DEF Tick, RefreshRuntime, RefreshAborted, IdleTask, Refreshers
    <2>4. QED
      BY <1>2, <2>1, <2>2, <2>3
  <1>3. CASE Publish \/ ListModelsWithProvider \/ StartupFetch \/ SetModelList \/ enrichModels
             \/ StartupSave \/ UNCHANGED vars
    BY <1>1, <1>3 DEF Publish, ListModelsWithProvider, StartupFetch, SetModelList, enrichModels,
                      StartupSave, vars
  <1>4. ASSUME NEW r \in Refreshers, fetchAllProviderModels(r) \/ FetchList(r)
        PROVE  LockHeld'
    BY <1>1, <1>4, ConstantTypes DEF fetchAllProviderModels, FetchList
  <1>5. ASSUME NEW r \in Refreshers, EnrichFetched(r)
        PROVE  LockHeld'
    BY <1>1, <1>5 DEF EnrichFetched
  <1>6. ASSUME NEW r \in Refreshers, NEW step \in {"idle", "save", "saveList", "list", "providers"},
               task' = Goto(r, step), refreshCh' = refreshCh \/ refreshCh = r
        PROVE  LockHeld'
    <2> HIDE DEF Task, Steps
    <2>1. step \in Steps
      BY DEF Steps
    <2>2. task'[r].step = step /\ \A q \in Refreshers : q # r => task'[q] = task[q]
      BY <1>1, <1>6, <2>1, GotoStep
    <2>3. QED
      BY <1>1, <1>6, <2>2
  <1>7. ASSUME NEW r \in Refreshers, InitializeFails(r) \/ FetchListFails(r)
                 \/ applyFetchedInventory(r) \/ setModelListAndEnrich(r) \/ SaveToCache(r)
        PROVE  LockHeld'
    <2>1. \E step \in {"idle", "save", "saveList", "list", "providers"} : task' = Goto(r, step)
      BY <1>7, AfterTypes DEF InitializeFails, FetchListFails, applyFetchedInventory,
                              setModelListAndEnrich, SaveToCache
    <2>2. refreshCh' = refreshCh \/ refreshCh = r
      BY <1>1, <1>7 DEF InitializeFails, FetchListFails, applyFetchedInventory,
                        setModelListAndEnrich, SaveToCache
    <2>3. QED
      BY <1>6, <2>1, <2>2
  <1>8. QED
    BY <1>2, <1>3, <1>4, <1>5, <1>7 DEF Next

(* Who is in a cycle that brings an inventory has just got it, or has it   *)
(* still; nobody comes by one in another way.                              *)
LEMMA CycleSteps ==
    ASSUME TypeOK, Next, NEW q \in Refreshers
    PROVE  /\ task'[q].step = "fetched" => task'[q] = task[q] \/ fetchAllProviderModels(q)
           /\ task'[q].step = "enriched" => task'[q] = task[q] \/ EnrichFetched(q)
  <1> USE TaskType DEF Task, Steps
  <1>1. CASE Start \/ Crash \/ Tick \/ RefreshRuntime \/ RefreshAborted
    BY <1>1 DEF Start, Crash, Tick, RefreshRuntime, RefreshAborted, IdleTask
  <1>2. CASE Publish \/ ListModelsWithProvider \/ StartupFetch \/ SetModelList \/ enrichModels
             \/ StartupSave
    BY <1>2 DEF Publish, ListModelsWithProvider, StartupFetch, SetModelList, enrichModels,
                StartupSave
  <1>3. ASSUME NEW r \in Refreshers,
               fetchAllProviderModels(r) \/ FetchList(r) \/ EnrichFetched(r)
        PROVE  /\ task'[q].step = "fetched" => task'[q] = task[q] \/ fetchAllProviderModels(q)
               /\ task'[q].step = "enriched" => task'[q] = task[q] \/ EnrichFetched(q)
    <2>1. CASE q = r
      <3>1. CASE fetchAllProviderModels(r) \/ EnrichFetched(r)
        BY <2>1, <3>1 DEF fetchAllProviderModels, EnrichFetched
      <3>2. CASE FetchList(r)
        BY <2>1, <3>2 DEF FetchList
      <3>3. QED
        BY <1>3, <3>1, <3>2
    <2>2. CASE q # r
      BY <1>3, <2>2 DEF fetchAllProviderModels, EnrichFetched, FetchList
    <2>3. QED
      BY <2>1, <2>2
  <1>4. ASSUME NEW r \in Refreshers, InitializeFails(r) \/ FetchListFails(r)
                 \/ applyFetchedInventory(r) \/ setModelListAndEnrich(r) \/ SaveToCache(r)
        PROVE  task'[q] = task[q] \/ task'[q].step \notin {"fetched", "enriched"}
    <2>1. PICK step \in {"idle", "save", "saveList", "list", "providers"} : task' = Goto(r, step)
      BY <1>4, AfterTypes DEF InitializeFails, FetchListFails, applyFetchedInventory,
                              setModelListAndEnrich, SaveToCache
    <2> HIDE DEF Task, Steps
    <2>2. step \in Steps
      BY DEF Steps
    <2>3. QED
      BY <2>1, <2>2, GotoStep
  <1>5. QED
    BY <1>1, <1>2, <1>3, <1>4 DEF Next

LEMMA NextFetchedServes ==
    ASSUME RInv, Next
    PROVE  FetchedServes'
  <1>1. TypeOK /\ FetchedServes
    BY DEF RInv
  <1> SUFFICES ASSUME NEW q \in Refreshers, task'[q].step \in {"fetched", "enriched"}
               PROVE  Serves(task'[q].inv)
    BY DEF FetchedServes
  <1>2. CASE task'[q] = task[q]
    BY <1>1, <1>2 DEF FetchedServes
  <1>3. CASE fetchAllProviderModels(q)
    <2>1. PICK models \in [Providers -> SUBSET Models],
               twice \in [Providers -> SUBSET Models] :
            /\ \E p \in Providers : models[p] # {}
            /\ task' = [task EXCEPT ![q].step = "fetched", ![q].inv = Fetched(models),
                                    ![q].bare = FirstEntries(Fetched(models), twice)]
      BY <1>3 DEF fetchAllProviderModels
    <2>2. task'[q].inv = Fetched(models)
      BY <1>1, <2>1, TaskType DEF Task
    <2>3. QED
      BY <2>1, <2>2, FetchedType
  <1>4. CASE EnrichFetched(q)
    <2>1. task[q].inv \in Inventory /\ modelList \in List /\ Serves(task[q].inv)
      BY <1>1, <1>4, TaskType DEF EnrichFetched, FetchedServes, Task, TypeOK
    <2>2. task'[q].inv = enrichProviderModelMaps(task[q].inv, modelList)
      BY <1>1, <1>4, TaskType DEF EnrichFetched, Task
    <2>3. QED
      BY <2>1, <2>2, EnrichFacts
  <1>5. QED
    BY <1>1, <1>2, <1>3, <1>4, CycleSteps

(* A refresher's names change with its inventory. *)
LEMMA NextTaskNames ==
    ASSUME RInv, [Next]_vars
    PROVE  TaskNames'
  <1>1. TypeOK /\ TaskNames
    BY DEF RInv
  <1> SUFFICES ASSUME NEW q \in Refreshers
               PROVE  NamesOf(task'[q].inv, task'[q].bare)
    BY DEF TaskNames
  <1>2. IdleTask.inv = NoModels /\ IdleTask.bare = NoNames
    BY DEF IdleTask
  <1>3. CASE task'[q].inv = task[q].inv /\ task'[q].bare = task[q].bare
    BY <1>1, <1>3 DEF TaskNames
  <1>4. CASE task'[q].inv = NoModels /\ task'[q].bare = NoNames
    BY <1>4, NoNamesFacts
  <1> USE TaskType DEF Task
  <1>5. CASE Start \/ Crash \/ Tick \/ RefreshRuntime \/ RefreshAborted
    <2>1. CASE Start \/ Tick \/ RefreshRuntime
      BY <1>1, <1>3, <2>1 DEF Start, Tick, RefreshRuntime
    <2>2. CASE Crash \/ RefreshAborted
      BY <1>1, <1>2, <1>3, <1>4, <2>2 DEF Crash, RefreshAborted
    <2>3. QED
      BY <1>5, <2>1, <2>2
  <1>6. CASE Publish \/ ListModelsWithProvider \/ StartupFetch \/ SetModelList \/ enrichModels
             \/ StartupSave \/ UNCHANGED vars
    BY <1>3, <1>6 DEF Publish, ListModelsWithProvider, StartupFetch, SetModelList, enrichModels,
                      StartupSave, vars
  <1>7. ASSUME NEW r \in Refreshers, fetchAllProviderModels(r)
        PROVE  NamesOf(task'[q].inv, task'[q].bare)
    <2>1. PICK models \in [Providers -> SUBSET Models],
               twice \in [Providers -> SUBSET Models] :
            task' = [task EXCEPT ![r].step = "fetched", ![r].inv = Fetched(models),
                                 ![r].bare = FirstEntries(Fetched(models), twice)]
      BY <1>7 DEF fetchAllProviderModels
    <2>2. CASE q = r
      <3>1. /\ task'[q].inv = Fetched(models)
            /\ task'[q].bare = FirstEntries(Fetched(models), twice)
        BY <1>1, <2>1, <2>2
      <3>2. QED
        BY <3>1, FetchedType, FirstEntriesFacts
    <2>3. CASE q # r
      BY <1>1, <1>3, <2>1, <2>3
    <2>4. QED
      BY <2>2, <2>3
  <1>8. ASSUME NEW r \in Refreshers, EnrichFetched(r)
        PROVE  NamesOf(task'[q].inv, task'[q].bare)
    <2> DEFINE inv == enrichProviderModelMaps(task[r].inv, modelList)
    <2>1. CASE q = r
      <3>1. task'[q].inv = inv /\ task'[q].bare = CarryOver(task[r].bare, inv)
        BY <1>1, <1>8, <2>1 DEF EnrichFetched
      <3>2. /\ task[r].inv \in Inventory /\ task[r].bare \in Names /\ modelList \in List
            /\ NamesOf(task[r].inv, task[r].bare)
        BY <1>1 DEF TypeOK, TaskNames
      <3>3. QED
        BY <3>1, <3>2, CarryOverFacts
    <2>2. CASE q # r
      BY <1>1, <1>3, <1>8, <2>2 DEF EnrichFetched
    <2>3. QED
      BY <2>1, <2>2
  <1>9. ASSUME NEW r \in Refreshers, FetchList(r)
        PROVE  NamesOf(task'[q].inv, task'[q].bare)
    BY <1>1, <1>3, <1>9 DEF FetchList
  <1>10. ASSUME NEW r \in Refreshers, InitializeFails(r) \/ FetchListFails(r)
                 \/ applyFetchedInventory(r) \/ setModelListAndEnrich(r) \/ SaveToCache(r)
         PROVE  NamesOf(task'[q].inv, task'[q].bare)
    <2>1. PICK step \in {"idle", "save", "saveList", "list", "providers"} : task' = Goto(r, step)
      BY <1>10, AfterTypes DEF InitializeFails, FetchListFails, applyFetchedInventory,
                              setModelListAndEnrich, SaveToCache
    <2>2. CASE q = r
      BY <1>1, <1>2, <1>4, <2>1, <2>2 DEF Goto, IdleTask
    <2>3. CASE q # r
      BY <1>1, <1>3, <2>1, <2>3 DEF Goto
    <2>4. QED
      BY <2>2, <2>3
  <1>11. QED
    BY <1>5, <1>6, <1>7, <1>8, <1>9, <1>10 DEF Next

LEMMA NextListRead ==
    ASSUME RInv, Next
    PROVE  ListRead'
  <1>1. TypeOK /\ ListRead /\ LockHeld /\ Stopped
    BY DEF RInv
  <1> SUFFICES ASSUME NEW q \in Refreshers, task'[q].step = "enriched"
               PROVE  /\ Enriched(task'[q].inv, task'[q].list)
                      /\ startup'.step \in {"fetch", "set"} => task'[q].list = modelList'
    BY DEF ListRead
  <1>2. CASE task'[q] = task[q]
    <2>1. Enriched(task'[q].inv, task'[q].list)
      BY <1>1, <1>2 DEF ListRead
    <2>2. ASSUME startup'.step \in {"fetch", "set"} PROVE task'[q].list = modelList'
      <3>1. CASE Quiet
        BY <1>1, <1>2, <2>2, <3>1, QuietFrame, QuietStartup DEF ListRead
      <3>2. CASE Start
        BY <1>1, <1>2, <3>2 DEF Start, Stopped
      <3>3. CASE Crash
        BY <2>2, <3>3 DEF Crash
      <3>4. CASE ListModelsWithProvider
        BY <1>1, <1>2, <2>2, <3>4 DEF ListModelsWithProvider, ListRead
      <3>5. CASE SetModelList \/ enrichModels
        BY <1>1, <2>2, <3>5 DEF SetModelList, enrichModels, TypeOK
      <3>6. ASSUME NEW r \in Refreshers, applyFetchedInventory(r)
            PROVE  task'[q].list = modelList'
        BY <1>1, <1>2, <2>2, <3>6 DEF applyFetchedInventory, ListRead
      <3>7. ASSUME NEW r \in Refreshers, setModelListAndEnrich(r)
            PROVE  FALSE
        <4>1. q = r
          BY <1>1, <1>2, <3>7, ConstantTypes DEF setModelListAndEnrich, LockHeld
        <4>2. QED
          BY <1>2, <3>7, <4>1 DEF setModelListAndEnrich
      <3>8. QED
        BY <3>1, <3>2, <3>3, <3>4, <3>5, <3>6, <3>7, NextCases
    <2>3. QED
      BY <2>1, <2>2
  <1>3. CASE EnrichFetched(q)
    <2>1. task[q].inv \in Inventory /\ modelList \in List
      BY <1>1, TaskType DEF Task, TypeOK
    <2>2. /\ task'[q].inv = enrichProviderModelMaps(task[q].inv, modelList)
          /\ task'[q].list = modelList
      BY <1>1, <1>3, TaskType DEF EnrichFetched, Task
    <2>3. modelList' = modelList
      BY <1>3 DEF EnrichFetched, registry
    <2>4. QED
      BY <2>1, <2>2, <2>3, EnrichFacts
  <1>4. QED
    BY <1>1, <1>2, <1>3, CycleSteps

-----------------------------------------------------------------------------
(* What is served stays served. *)
LEMMA NextServes ==
    ASSUME RInv, Next, up, up', Serves(inventory)
    PROVE  Serves(inventory')
  <1>1. TypeOK /\ FetchedServes
    BY DEF RInv
  <1>2. CASE Quiet
    BY <1>1, <1>2, QuietFrame
  <1>3. CASE Start \/ Crash
    BY <1>3 DEF Start, Crash
  <1>4. CASE ListModelsWithProvider \/ SetModelList
    BY <1>4 DEF ListModelsWithProvider, SetModelList
  <1>5. ASSUME NEW list \in List, enrichModelsLocked(list)
        PROVE  Serves(inventory')
    BY <1>1, <1>5, EnrichFacts DEF enrichModelsLocked, TypeOK
  <1>6. CASE enrichModels
    BY <1>1, <1>5, <1>6 DEF enrichModels, TypeOK
  <1>7. ASSUME NEW r \in Refreshers, setModelListAndEnrich(r)
        PROVE  Serves(inventory')
    <2>1. task[r].list \in List
      BY <1>1, TaskType DEF Task
    <2>2. QED
      BY <1>5, <1>7, <2>1 DEF setModelListAndEnrich
  <1>8. ASSUME NEW r \in Refreshers, applyFetchedInventory(r)
        PROVE  Serves(inventory')
    BY <1>1, <1>8 DEF applyFetchedInventory, FetchedServes
  <1>9. QED
    BY <1>2, <1>3, <1>4, <1>6, <1>7, <1>8, NextCases

LEMMA NextReady ==
    ASSUME RInv, Next
    PROVE  Ready'
  <1> SUFFICES ASSUME initialized' PROVE Serves(inventory')
    BY DEF Ready
  <1>1. TypeOK /\ FetchedServes /\ Ready /\ Stopped
    BY DEF RInv
  <1>2. CASE \E r \in Refreshers : applyFetchedInventory(r)
    BY <1>1, <1>2 DEF applyFetchedInventory, FetchedServes
  <1>3. CASE Crash \/ Start
    BY <1>1, <1>3 DEF Crash, Start, Stopped
  <1>4. CASE Quiet
    BY <1>1, <1>4, QuietFrame DEF Ready
  <1>5. CASE ListModelsWithProvider \/ SetModelList
    BY <1>1, <1>5 DEF ListModelsWithProvider, SetModelList, Ready
  <1>6. CASE enrichModels \/ \E r \in Refreshers : setModelListAndEnrich(r)
    <2>1. initialized /\ up' = up
      BY <1>6 DEF enrichModels, setModelListAndEnrich, external
    <2>2. up
      BY <1>1, <2>1 DEF Stopped, TypeOK
    <2>3. QED
      BY <1>1, <2>1, <2>2, NextServes DEF Ready, TypeOK
  <1>7. QED
    BY <1>2, <1>3, <1>4, <1>5, <1>6, NextCases

LEMMA NextStopped ==
    ASSUME RInv, [Next]_vars
    PROVE  Stopped'
  <1>1. TypeOK /\ Stopped
    BY DEF RInv
  <1> USE DEF Stopped
  <1>2. CASE Start \/ Crash
    BY <1>2 DEF Start, Crash, IdleTask
  <1>3. CASE Publish \/ UNCHANGED vars
    BY <1>1, <1>3 DEF Publish, vars, registry
  <1>4. CASE ListModelsWithProvider \/ Tick \/ RefreshRuntime
    BY <1>1, <1>4 DEF ListModelsWithProvider, Tick, RefreshRuntime
  <1>5. CASE \/ RefreshAborted \/ StartupFetch \/ SetModelList \/ enrichModels \/ StartupSave
             \/ \E r \in Refreshers :
                   \/ fetchAllProviderModels(r) \/ InitializeFails(r)
                   \/ EnrichFetched(r) \/ applyFetchedInventory(r)
                   \/ FetchList(r) \/ FetchListFails(r) \/ setModelListAndEnrich(r)
                   \/ SaveToCache(r)
    <2>1. up' = up
      BY <1>5 DEF RefreshAborted, StartupFetch, SetModelList, enrichModels, StartupSave,
                  fetchAllProviderModels, InitializeFails, EnrichFetched, applyFetchedInventory,
                  FetchList, FetchListFails, setModelListAndEnrich, SaveToCache
    <2>2. ~up => FALSE
      BY <1>1, <1>5 DEF RefreshAborted, StartupFetch, SetModelList, enrichModels, StartupSave,
                  fetchAllProviderModels, InitializeFails, EnrichFetched, applyFetchedInventory,
                  FetchList, FetchListFails, setModelListAndEnrich, SaveToCache, Refreshers
    <2>3. QED
      BY <2>1, <2>2
  <1>6. QED
    BY <1>2, <1>3, <1>4, <1>5 DEF Next

LEMMA RegistryInvariance == Spec => []RInv
  <1>1. RInv /\ [Next]_vars => RInv'
    <2> SUFFICES ASSUME RInv, [Next]_vars PROVE RInv'
      OBVIOUS
    <2>1. TypeOK' /\ BareNamesFirstProvider' /\ ListingCurrent' /\ MetadataAccounted'
          /\ LockHeld' /\ TaskNames' /\ Stopped'
      BY NextTypeOK, NextMaps, NextMetadata, NextLockHeld, NextTaskNames, NextStopped DEF RInv
    <2>2. CASE Next
      BY <2>1, <2>2, NextListRead, NextFetchedServes, NextReady DEF RInv
    <2>3. CASE UNCHANGED vars
      <3>1. ListRead' /\ FetchedServes' /\ Ready'
        BY <2>3 DEF vars, registry, RInv, ListRead, FetchedServes, Ready
      <3>2. QED
        BY <2>1, <3>1 DEF RInv
    <2>4. QED
      BY <2>2, <2>3
  <1>2. QED
    BY InitRInv, <1>1, PTL DEF Spec

(* Type correctness of the registry. *)
THEOREM RegistryTypeOK == Spec => []TypeOK
  <1>1. RInv => TypeOK
    BY DEF RInv
  <1>2. QED
    BY RegistryInvariance, <1>1, PTL

(* A bare name finds an entry of the first provider that has the model, as *)
(* enriched as the qualified one where the maps share it: what Initialize  *)
(* collects beside the providers' maps, what LoadFromCache rebuilds and    *)
(* what enrichment carries over agree.                                     *)
THEOREM BareNames == Spec => []BareNamesFirstProvider
  <1>1. RInv => BareNamesFirstProvider
    BY DEF RInv
  <1>2. QED
    BY RegistryInvariance, <1>1, PTL

(* Only the start-up goroutine, which does not take refreshCh, can leave   *)
(* metadata behind the list in force.                                      *)
THEOREM MetadataInStep == Spec => []MetadataAccounted
  <1>1. RInv => MetadataAccounted
    BY DEF RInv
  <1>2. QED
    BY RegistryInvariance, <1>1, PTL

(* The cached sorted slice is what sorting the maps now would give. *)
THEOREM ListingNeverStale == Spec => []ListingCurrent
  <1>1. RInv => ListingCurrent
    BY DEF RInv
  <1>2. QED
    BY RegistryInvariance, <1>1, PTL

(* No refresh, failed or not, leaves a running gateway without models. *)
THEOREM ModelsStay == Spec => ServedStays
  <1>1. RInv /\ [Next]_vars
          => [up /\ up' /\ (Serves(inventory) \/ initialized) => Serves(inventory')]_vars
    <2> SUFFICES ASSUME RInv, Next, up, up', Serves(inventory) \/ initialized
                 PROVE  Serves(inventory')
      OBVIOUS
    <2>1. Serves(inventory)
      BY DEF RInv, Ready
    <2>2. QED
      BY <2>1, NextServes
  <1>2. QED
    BY RegistryInvariance, <1>1, PTL DEF Spec, ServedStays
=============================================================================
