--------------------------- MODULE ModelRegistry ---------------------------
(***************************************************************************)
(* The model registry (internal/providers/registry*.go): which provider    *)
(* serves which model, with metadata from an external model list.  Both    *)
(* are read from a cache at start and refreshed from the network by four   *)
(* goroutines: the initial fetch, the fetch of the list at start, the      *)
(* ticker and an admin's refresh.  All but the list fetch at start take    *)
(* refreshCh around a cycle; saving the cache does not.                     *)
(*                                                                         *)
(* Of a model's metadata only the generation of the list it came from is   *)
(* kept, 0 is none.  A provider's answer stands for what the configured    *)
(* models make of it; it is a list, and may name a model twice.            *)
(***************************************************************************)
EXTENDS Naturals, Sequences

CONSTANTS Providers, Models,
          Order,        \* the providers as they were registered
          MaxList,      \* bound: generations of the model list
          Covers,       \* the models a generation has metadata for
          Absent,       \* the provider does not have the model
          None          \* nothing: no cache, no owner, no cached listing

Refreshers == {"boot", "ticker", "admin"}

VARIABLES published,    \* the generation the model list URL serves
          cache,        \* the cache backend
          up,           \* the process runs
          inventory,    \* r.modelsByProvider
          bare,         \* r.models: the entry a bare model name finds
          modelList,    \* r.modelList
          listing,      \* r.sortedModelsWithProvider
          initialized,
          refreshCh,    \* who holds it
          task,         \* the refreshers
          startup,      \* the goroutine that fetches the list at start
          overtaken     \* history: the inventory was published with an older list

external == <<published, cache>>
registry == <<inventory, bare, modelList, listing>>
vars == <<external, up, registry, initialized, refreshCh, task, startup, overtaken>>

List      == 0 .. MaxList
Inventory == [Providers -> [Models -> List \cup {Absent}]]
(* same: the provider's map holds the very entry the bare name finds.      *)
Entry     == [by : Providers, meta : List, same : BOOLEAN]
Names     == [Models -> Entry \cup {Absent}]
Cache     == [models : [Providers -> SUBSET Models], list : List]
NoModels  == [p \in Providers |-> [m \in Models |-> Absent]]
NoNames   == [m \in Models |-> Absent]

ASSUME RegistryAssumption ==
    /\ MaxList \in Nat \ {0}
    /\ Order \in Seq(Providers) /\ \A p \in Providers : \E n \in 1 .. Len(Order) : Order[n] = p
    /\ Covers \in [List -> SUBSET Models] /\ Covers[0] = {}
    /\ Absent \notin List /\ None \notin Cache \cup Inventory \cup List /\ Absent \notin Entry
    /\ None \notin Refreshers

Serves(inv) == \E p \in Providers, m \in Models : inv[p][m] # Absent

(* First provider wins. *)
Has(inv, m) == {n \in 1 .. Len(Order) : inv[Order[n]][m] # Absent}
First(inv, m) == Order[CHOOSE n \in Has(inv, m) : \A k \in Has(inv, m) : n <= k]

(* Of a model that a provider lists twice, the bare name finds the first   *)
(* entry and the provider's map keeps the last.                            *)
FirstEntries(inv, twice) ==
    [m \in Models |->
        IF Has(inv, m) = {} THEN Absent
        ELSE LET p == First(inv, m)
             IN  [by |-> p, meta |-> inv[p][m], same |-> m \notin twice[p]]]
rebuildGlobalModelMap(inv) == FirstEntries(inv, [p \in Providers |-> {}])

(* Models the list does not know keep what they have. *)
enrichProviderModelMaps(inv, list) ==
    [p \in Providers |-> [m \in Models |->
        IF inv[p][m] # Absent /\ m \in Covers[list] THEN list ELSE inv[p][m]]]

(* What is set on an entry that both maps hold is seen by its bare name.    *)
CarryOver(names, inv) ==
    [m \in Models |->
        IF names[m] # Absent /\ names[m].same
        THEN [names[m] EXCEPT !.meta = inv[names[m].by][m]]
        ELSE names[m]]

Fetched(models) ==
    [p \in Providers |-> [m \in Models |-> IF m \in models[p] THEN 0 ELSE Absent]]

IdleTask == [step |-> "idle", inv |-> NoModels, bare |-> NoNames, list |-> 0]

TypeOK ==
    /\ published \in List
    /\ cache \in Cache \cup {None}
    /\ up \in BOOLEAN
    /\ inventory \in Inventory
    /\ bare \in Names
    /\ modelList \in List
    /\ listing \in Inventory \cup {None}
    /\ initialized \in BOOLEAN
    /\ refreshCh \in Refreshers \cup {None}
    /\ task \in [Refreshers ->
                    [step : {"idle", "providers", "fetched", "enriched", "save",
                             "list", "listFetched", "saveList"},
                     inv : Inventory, bare : Names, list : List]]
    /\ startup \in [step : {"fetch", "set", "enrich", "save", "done"}, list : List]
    /\ overtaken \in BOOLEAN

Init ==
    /\ published = 1 /\ cache = None /\ up = FALSE
    /\ inventory = NoModels /\ bare = NoNames
    /\ modelList = 0 /\ listing = None /\ initialized = FALSE
    /\ refreshCh = None
    /\ task = [r \in Refreshers |-> IdleTask]
    /\ startup = [step |-> "done", list |-> 0]
    /\ overtaken = FALSE

-----------------------------------------------------------------------------
(* The process. *)

(* Mutant: the list of a cache that cannot be read is stored all the same. *)
StartWithoutList ==
    /\ ~up /\ up' = TRUE
    /\ modelList' = None
    /\ task' = [task EXCEPT !["boot"].step = "providers"]
    /\ startup' = [startup EXCEPT !.step = "fetch"]
    /\ UNCHANGED <<external, inventory, bare, listing, initialized, refreshCh, overtaken>>

(* LoadFromCache, then the goroutines start. *)
Start ==
    /\ ~up
    /\ up' = TRUE
    /\ \/ /\ cache # None
          /\ inventory' = enrichProviderModelMaps(Fetched(cache.models), cache.list)
          /\ bare' = rebuildGlobalModelMap(inventory')
          /\ modelList' = cache.list
       \/ UNCHANGED <<inventory, bare, modelList>>
    /\ task' = [task EXCEPT !["boot"].step = "providers"]
    /\ startup' = [startup EXCEPT !.step = "fetch"]
    /\ UNCHANGED <<external, listing, initialized, refreshCh, overtaken>>

Crash ==
    /\ up
    /\ up' = FALSE
    /\ inventory' = NoModels /\ bare' = NoNames
    /\ modelList' = 0 /\ listing' = None /\ initialized' = FALSE
    /\ refreshCh' = None
    /\ task' = [r \in Refreshers |-> IdleTask]
    /\ startup' = [step |-> "done", list |-> 0]
    /\ overtaken' = FALSE
    /\ UNCHANGED external

Publish ==
    /\ published < MaxList
    /\ published' = published + 1
    /\ UNCHANGED <<cache, up, registry, initialized, refreshCh, task, startup, overtaken>>

(* ListModelsWithProvider builds the sorted slice when there is none. *)
ListModelsWithProvider ==
    /\ up /\ listing = None
    /\ listing' = inventory
    /\ UNCHANGED <<external, up, inventory, bare, modelList, initialized, refreshCh, task,
                   startup, overtaken>>

-----------------------------------------------------------------------------
(* A round of the ticker refreshes the providers, then the list; an admin's *)
(* refresh does it the other way round and saves once, when it has models.  *)

Tick ==
    /\ up /\ task["ticker"].step = "idle"
    /\ task' = [task EXCEPT !["ticker"].step = "providers"]
    /\ UNCHANGED <<external, up, registry, initialized, refreshCh, startup, overtaken>>

RefreshRuntime ==
    /\ up /\ task["admin"].step = "idle"
    /\ task' = [task EXCEPT !["admin"].step = "list"]
    /\ UNCHANGED <<external, up, registry, initialized, refreshCh, startup, overtaken>>

(* Its client gives up: the steps that are left are skipped. *)
RefreshAborted ==
    /\ task["admin"].step \in {"list", "providers", "save"}
    /\ task' = [task EXCEPT !["admin"] = IdleTask]
    /\ UNCHANGED <<external, up, registry, initialized, refreshCh, startup, overtaken>>

AfterProviders(r, ok) ==
    CASE r = "admin"  -> IF ok \/ Serves(inventory) THEN "save" ELSE "idle"
      [] r = "ticker" -> IF ok THEN "save" ELSE "list"
      [] r = "boot"   -> IF ok THEN "save" ELSE "idle"
AfterList(r, ok) ==
    CASE r = "admin"  -> "providers"
      [] r # "admin"  -> IF ok THEN "saveList" ELSE "idle"
AfterSave(r) == IF r = "ticker" THEN "list" ELSE "idle"

Goto(r, step) == [task EXCEPT ![r] = [IdleTask EXCEPT !.step = step]]

-----------------------------------------------------------------------------
(* Initialize: the providers are asked, the list is read, and the enriched *)
(* inventory is swapped in.  An answer of none is an error and is dropped. *)

(* Mutant: an inventory without models is published as well. *)
PublishesNothing(r) ==
    /\ task[r].step = "providers" /\ refreshCh = None
    /\ task' = [task EXCEPT ![r].step = "fetched", ![r].inv = NoModels]
    /\ refreshCh' = r
    /\ UNCHANGED <<external, up, registry, initialized, startup, overtaken>>

fetchAllProviderModels(r) ==
    /\ task[r].step = "providers" /\ refreshCh = None
    /\ \E models, twice \in [Providers -> SUBSET Models] :
          /\ \E p \in Providers : models[p] # {}
          /\ \A p \in Providers : twice[p] \subseteq models[p]
          /\ task' = [task EXCEPT ![r].step = "fetched", ![r].inv = Fetched(models),
                                  ![r].bare = FirstEntries(Fetched(models), twice)]
    /\ refreshCh' = r
    /\ UNCHANGED <<external, up, registry, initialized, startup, overtaken>>

(* No provider answers, none has a model, or refreshCh was not free in time. *)
InitializeFails(r) ==
    /\ task[r].step = "providers"
    /\ task' = Goto(r, AfterProviders(r, FALSE))
    /\ UNCHANGED <<external, up, registry, initialized, refreshCh, startup, overtaken>>

EnrichFetched(r) ==
    /\ task[r].step = "fetched"
    /\ LET inv == enrichProviderModelMaps(task[r].inv, modelList)
       IN  task' = [task EXCEPT ![r].step = "enriched", ![r].list = modelList,
                                ![r].inv = inv, ![r].bare = CarryOver(@, inv)]
    /\ UNCHANGED <<external, up, registry, initialized, refreshCh, startup, overtaken>>

(* The start-up goroutine has set a list since r read the one before. *)
Overtaken(r) == task[r].list # modelList /\ startup.step \notin {"fetch", "set"}

(* Mutant: the sorted slices survive the swap. *)
SwapKeepsListing(r) ==
    /\ task[r].step = "enriched"
    /\ inventory' = task[r].inv
    /\ bare' = task[r].bare
    /\ overtaken' = Overtaken(r)
    /\ initialized' = TRUE
    /\ refreshCh' = None
    /\ task' = Goto(r, AfterProviders(r, TRUE))
    /\ UNCHANGED <<external, up, modelList, listing, startup>>

applyFetchedInventory(r) ==
    /\ task[r].step = "enriched"
    /\ inventory' = task[r].inv
    /\ bare' = task[r].bare
    /\ listing' = None
    /\ overtaken' = Overtaken(r)
    /\ initialized' = TRUE
    /\ refreshCh' = None
    /\ task' = Goto(r, AfterProviders(r, TRUE))
    /\ UNCHANGED <<external, up, modelList, startup>>

-----------------------------------------------------------------------------
(* The model list. *)

(* Mutant: the entries of the bare names stay the ones before. *)
EnrichQualified(list) ==
    /\ inventory' = enrichProviderModelMaps(inventory, list)
    /\ UNCHANGED bare
    /\ listing' = None
    /\ overtaken' = FALSE

(* An empty registry is left alone, its sorted slices too. *)
enrichModelsLocked(list) ==
    \/ /\ bare # NoNames
       /\ inventory' = enrichProviderModelMaps(inventory, list)
       /\ bare' = CarryOver(bare, inventory')
       /\ listing' = None
       /\ overtaken' = FALSE
    \/ bare = NoNames /\ UNCHANGED <<inventory, bare, listing, overtaken>>

FetchList(r) ==
    /\ task[r].step = "list" /\ refreshCh = None
    /\ task' = [task EXCEPT ![r].step = "listFetched", ![r].list = published]
    /\ refreshCh' = r
    /\ UNCHANGED <<external, up, registry, initialized, startup, overtaken>>

FetchListFails(r) ==
    /\ task[r].step = "list"
    /\ task' = Goto(r, AfterList(r, FALSE))
    /\ UNCHANGED <<external, up, registry, initialized, refreshCh, startup, overtaken>>

(* Mutant: the new list is stored and not applied. *)
SetListOnly(r) ==
    /\ task[r].step = "listFetched"
    /\ modelList' = task[r].list
    /\ refreshCh' = None
    /\ task' = Goto(r, AfterList(r, TRUE))
    /\ UNCHANGED <<external, up, inventory, bare, listing, initialized, startup, overtaken>>

setModelListAndEnrich(r) ==
    /\ task[r].step = "listFetched"
    /\ modelList' = task[r].list
    /\ enrichModelsLocked(task[r].list)
    /\ refreshCh' = None
    /\ task' = Goto(r, AfterList(r, TRUE))
    /\ UNCHANGED <<external, up, initialized, startup>>

(* The goroutine of providers.Init sets the list and enriches in two steps, *)
(* whoever holds refreshCh.                                                 *)
StartupFetch ==
    /\ startup.step = "fetch"
    /\ \/ startup' = [startup EXCEPT !.step = "set", !.list = published]
       \/ startup' = [startup EXCEPT !.step = "done"]
    /\ UNCHANGED <<external, up, registry, initialized, refreshCh, task, overtaken>>

SetModelList ==
    /\ startup.step = "set"
    /\ modelList' = startup.list
    /\ startup' = [startup EXCEPT !.step = "enrich", !.list = 0]
    /\ UNCHANGED <<external, up, inventory, bare, listing, initialized, refreshCh, task,
                   overtaken>>

enrichModels ==
    /\ startup.step = "enrich"
    /\ enrichModelsLocked(modelList)
    /\ startup' = [startup EXCEPT !.step = "save"]
    /\ UNCHANGED <<external, up, modelList, initialized, refreshCh, task>>

-----------------------------------------------------------------------------
(* SaveToCache copies the maps under the lock and writes the copy, which    *)
(* may fail.  The write is not delayed here: an older copy that lands on a  *)
(* newer one leaves what a crash before the newer save would have left.     *)

Snapshot ==
    [models |-> [p \in Providers |-> {m \in Models : inventory[p][m] # Absent}],
     list |-> modelList]

SaveToCache(r) ==
    /\ task[r].step \in {"save", "saveList"}
    /\ cache' \in {cache, Snapshot}
    /\ task' = Goto(r, IF task[r].step = "save" THEN AfterSave(r) ELSE "idle")
    /\ UNCHANGED <<published, up, registry, initialized, refreshCh, startup, overtaken>>

StartupSave ==
    /\ startup.step = "save"
    /\ cache' \in {cache, Snapshot}
    /\ startup' = [startup EXCEPT !.step = "done"]
    /\ UNCHANGED <<published, up, registry, initialized, refreshCh, task, overtaken>>

-----------------------------------------------------------------------------
Next ==
    \/ Start \/ Crash \/ Publish \/ ListModelsWithProvider
    \/ Tick \/ RefreshRuntime \/ RefreshAborted
    \/ \E r \in Refreshers :
          \/ fetchAllProviderModels(r) \/ InitializeFails(r)
          \/ EnrichFetched(r) \/ applyFetchedInventory(r)
          \/ FetchList(r) \/ FetchListFails(r) \/ setModelListAndEnrich(r)
          \/ SaveToCache(r)
    \/ StartupFetch \/ SetModelList \/ enrichModels \/ StartupSave

Spec == Init /\ [][Next]_vars

-----------------------------------------------------------------------------
(* The names of an inventory: a bare name finds an entry of the first      *)
(* provider that has the model, with the metadata that provider's own name *)
(* finds.  Only of a model its provider listed twice can the entry be      *)
(* another one, which enrichment does not reach.                           *)
NamesOf(inv, names) ==
    \A m \in Models :
        IF Has(inv, m) = {} THEN names[m] = Absent
        ELSE /\ names[m] # Absent
             /\ names[m].by = First(inv, m)
             /\ names[m].same => names[m].meta = inv[First(inv, m)][m]

(* Whoever replaces entries of one map replaces them in the other: the two *)
(* maps of the registry never disagree on who serves a model, nor on its   *)
(* metadata where they share the entry.                                    *)
BareNamesFirstProvider == NamesOf(inventory, bare)

(* What a model is priced and described with comes from the list in force, *)
(* except while the start-up goroutine is between its two steps, and when  *)
(* it has set a list between the read and the swap of an Initialize.  That *)
(* inventory stays behind until the next enrichment; refreshCh keeps the   *)
(* other refreshers from doing the same to each other.                     *)
MetadataAccounted ==
    \A p \in Providers, m \in Models :
        inventory[p][m] # Absent /\ m \in Covers[modelList]
            => inventory[p][m] = modelList \/ startup.step = "enrich" \/ overtaken

(* The sorted slice handed to the router and the dashboard is never older  *)
(* than the maps: whoever replaces them drops it.                          *)
ListingCurrent == listing \in {None, inventory}

(* A running gateway that has served models keeps serving some, whatever   *)
(* refreshes fail, and one that reports itself initialized has models.     *)
ServedStays ==
    [][up /\ up' /\ (Serves(inventory) \/ initialized) => Serves(inventory')]_vars
=============================================================================
