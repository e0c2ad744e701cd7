-------------------------- MODULE GameStateProofs ---------------------------
(***************************************************************************)
(* The handle and its condition evaluator stay in step, for any plugins,   *)
(* threads, requests and conditions, and whatever other programs do to the *)
(* files.  The invariants that are checked speak of the times between two  *)
(* calls; the inductive invariant says what holds at every step of a call: *)
(* what the readers have evaluated and not yet cached agrees with the      *)
(* handle as the cache does, except while a call is between changing the   *)
(* handle and telling the evaluator, and no thread holds the lock when it  *)
(* tells it.                                                               *)
(***************************************************************************)
EXTENDS GameState, NaturalsInduction, WellFoundedInduction, TLAPS

Scopes == {"WholePlugin", "HeaderOnly"}
File == [data : Nat, header : BOOLEAN, body : BOOLEAN]
Paths == Plugins \X Forms
Plugin == [data : Nat, scope : Scopes]
PluginMaps == UNION {[S -> Plugin] : S \in SUBSET Plugins}
Archives == UNION {ArchivesIn[d] : d \in DOMAIN ArchivesIn}
Caches == [plugins : PluginMaps, archive_paths : SUBSET Archives]

\* The plugins that a request has loaded, by their index in it.
LoadedType(loaded, scope) ==
    /\ \E n \in Nat : DOMAIN loaded \subseteq 1..n
    /\ \A i \in DOMAIN loaded : loaded[i] \in [name : Plugins, data : Nat, scope : {scope}]

\* The call in progress.
CallType ==
    \/ game = Idle
    \/ game \in [at : {"common"}, request : Seq(Paths), scope : Scopes, before : Caches]
    \/ /\ game.at \in {"resolve", "store"} /\ DOMAIN game = {"at", "scope", "before", "loaded"}
       /\ game.scope \in Scopes /\ game.before \in Caches
       /\ LoadedType(game.loaded, game.scope)
    \/ game = [at |-> "activate"]
    \/ game \in [at : {"save"}, order : Orders]
    \/ game \in [at : {"sort", "sorting"}, left : SUBSET Plugins, names : SUBSET Plugins,
                 seen : SUBSET Nat]

WorldType ==
    /\ files \in [Paths -> File]
    /\ saved \in [order : Seq(Plugins), active : SUBSET Plugins]

HandleType ==
    /\ load_order \in [order : Seq(Plugins), active : SUBSET Plugins, paths : SUBSET {ExtraPath},
                       read : BOOLEAN]
    /\ cache \in Caches

DatabaseType ==
    /\ DOMAIN evaluator = {"paths", "active", "versions", "crcs"}
    /\ DOMAIN conditions \subseteq Conditions
    /\ lists \in Nat
    /\ lock \in [writers : SUBSET Callers, readers : SUBSET Threads, poisoned : BOOLEAN]
    /\ DOMAIN pending = Threads
    /\ \A t \in Threads : pending[t] # None => pending[t].condition \in Conditions

CountsType == ops \in Nat /\ turns \in Nat /\ edits \in Nat

TypeOK == WorldType /\ HandleType /\ DatabaseType /\ CallType /\ CountsType

\* The lock excludes: no writer while there is a reader, and a thread that has
\* evaluated a condition, or that sorts, is a reader of a lock in good order.
LockExcludes ==
    /\ lock.readers # {} => lock.writers = {}
    /\ \A t \in Threads : pending[t] # None => t \in lock.readers
    /\ game.at = "sorting" => "game" \in lock.readers /\ ~lock.poisoned

\* What a condition's result should be, by the evaluator and the loaded plugins.
Agrees(c, v) ==
    /\ c.fn = "active" => v = (c.of \in evaluator.active)
    /\ c.fn = "file" => v = (ExtraPath \in evaluator.paths)
    /\ c.fn = "version" /\ c.of \in DOMAIN cache.plugins => v = cache.plugins[c.of].data
    /\ c.fn = "checksum" /\ c.of \in DOMAIN cache.plugins
           /\ cache.plugins[c.of].scope = "WholePlugin" => v = cache.plugins[c.of].data

\* Only while load_current_load_order_state is between its two halves may the
\* evaluator have other active plugins than the handle.
ActiveInStep ==
    ~lock.poisoned /\ game.at # "activate" =>
        evaluator.active = load_order.active \/ ~load_order.read

\* Only while store_plugins is between its two halves may the evaluator's view
\* of the loaded plugins differ from the handle's.
PluginsTold ==
    ~lock.poisoned /\ game.at # "store" => \A p \in DOMAIN cache.plugins : Told(p)

\* The same for the results that are cached or about to be.
ResultsAgree ==
    ~lock.poisoned /\ game.at # "store" =>
        /\ \A c \in DOMAIN conditions : Agrees(c, conditions[c])
        /\ \A t \in Threads :
              pending[t] # None => Agrees(pending[t].condition, pending[t].answer)

\* How far a load has changed the cache: not at all before the archives are found,
\* then the archives, and then the plugins.
StoredSoFar ==
    /\ game.at = "common" => game.before = cache
    /\ game.at \in {"resolve", "store"} => cache.archive_paths = find_archives(load_order.paths)
    /\ game.at = "resolve" => game.before.plugins = cache.plugins
    /\ game.at = "store" => cache.plugins = insert_plugins(game.before.plugins, game.loaded)

\* The order to be saved is the one in memory.
OrderHeld == game.at = "save" => load_order.order = game.order

\* A sort asks for loaded plugins, and has read only the lists as they are.
SortOfLoaded ==
    /\ game.at \in {"sort", "sorting"} => game.names \subseteq DOMAIN cache.plugins
    /\ game.at = "sort" => game.seen = {}
    /\ game.at = "sorting" => game.seen \subseteq {lists}

\* The names of the plugins that a request has loaded.
NamesOf(loaded) == {loaded[i].name : i \in DOMAIN loaded}

Inv ==
    /\ TypeOK /\ LockExcludes /\ PathsAgree /\ ActiveInStep /\ PluginsTold /\ ResultsAgree
    /\ StoredSoFar /\ OrderHeld /\ SortOfLoaded /\ MastersLoaded

-----------------------------------------------------------------------------
(* Helpers. *)

\* The empty function, which an emptied cache is.
LEMMA EmptyIsMap == Empty \in PluginMaps /\ DOMAIN Empty = {}
<1>1. Empty \in [{} -> Plugin] /\ DOMAIN Empty = {}
  BY DEF Empty
<1> QED
  BY <1>1 DEF PluginMaps

\* A function with one more value.
LEMMA InsertValue ==
    ASSUME NEW f, NEW key, NEW value, NEW x \in DOMAIN Insert(f, key, value)
    PROVE  \/ x = key /\ Insert(f, key, value)[x] = value
           \/ x \in DOMAIN f /\ Insert(f, key, value)[x] = f[x]
BY DEF Insert

\* One more result that agrees.
LEMMA StoredAgree ==
    ASSUME NEW f, NEW key, NEW value, Agrees(key, value), \A d \in DOMAIN f : Agrees(d, f[d])
    PROVE  LET g == Insert(f, key, value) IN \A d \in DOMAIN g : Agrees(d, g[d])
BY InsertValue

\* A map of plugins.
LEMMA MapOfPlugins ==
    ASSUME NEW f \in PluginMaps
    PROVE  DOMAIN f \subseteq Plugins /\ \A p \in DOMAIN f : f[p] \in Plugin
BY DEF PluginMaps

\* Who gets the lock for writing finds no result that is not cached yet.
LEMMA NothingPending ==
    ASSUME Inv, CanWrite
    PROVE  \A t \in Threads : pending[t] = None
BY DEF Inv, LockExcludes, CanWrite

\* Clearing the cache of results under the lock leaves none that disagrees.
LEMMA ClearedAgree ==
    ASSUME Inv, CanWrite, clear_condition_cache, pending' = pending
    PROVE  ResultsAgree'
<1>1. \A t \in Threads : pending'[t] = None
  BY NothingPending
<1>2. DOMAIN conditions' = {}
  BY EmptyIsMap DEF clear_condition_cache
<1> QED
  BY <1>1, <1>2 DEF ResultsAgree

\* Results that agree still do if neither they nor what they are about changes.
LEMMA UntouchedAgree ==
    ASSUME ResultsAgree, UNCHANGED <<evaluator, conditions, pending>>,
           cache'.plugins = cache.plugins, ~lock'.poisoned => ~lock.poisoned,
           game'.at # "store" => game.at # "store"
    PROVE  ResultsAgree'
BY DEF ResultsAgree, Agrees

\* The evaluator's answer is the one that agrees.
LEMMA AnswerAgrees ==
    ASSUME NEW c \in Conditions, \A p \in DOMAIN cache.plugins : Told(p)
    PROVE  Agrees(c, Answer(c))
<1>1. CASE c.fn = "active"
  BY <1>1 DEF Agrees, Answer
<1>2. CASE c.fn = "file"
  BY <1>2 DEF Agrees, Answer
<1>3. CASE c.fn = "version"
  BY <1>3 DEF Agrees, Answer, Told
<1>4. CASE c.fn = "checksum"
  BY <1>4 DEF Agrees, Answer, Told
<1> QED
  BY <1>1, <1>2, <1>3, <1>4, ConditionsAssumption

\* A bounded non-empty set of numbers has a maximum.
LEMMA MaxOfIndices ==
    ASSUME NEW n \in Nat, NEW S, S \subseteq 1..n, S # {}
    PROVE  Max(S) \in S
<1> DEFINE T == {n - k : k \in S}
<1>0. \A k \in S : n - k \in Nat
  OBVIOUS
<1>1. T \subseteq Nat /\ T # {}
  BY <1>0
<1>2. PICK x \in T : \A y \in T : ~(<<y, x>> \in OpToRel(<, Nat))
  BY <1>1, WFMin, NatLessThanWellFounded
<1>3. \A y \in T : ~(y < x)
  BY <1>1, <1>2 DEF OpToRel
<1>4. PICK m \in S : x = n - m
  OBVIOUS
<1>5. \A k \in S : m >= k
  BY <1>3, <1>4
<1> QED
  BY <1>5 DEF Max

\* What loads of a request has names, data and the scope asked for.
LEMMA LoadedOfType ==
    ASSUME WorldType, NEW request \in Seq(Paths), NEW scope \in Scopes
    PROVE  LoadedType(LoadedOf(request, scope), scope)
<1> DEFINE tried == [i \in DOMAIN request |-> try_load_plugin(request[i], scope)]
           those == {i \in DOMAIN request : tried[i] # None}
<1>1. LoadedOf(request, scope) = Restrict(tried, those)
  BY DEF LoadedOf
<1>2. DOMAIN LoadedOf(request, scope) = those
  BY <1>1 DEF Restrict
<1>3. Len(request) \in Nat /\ DOMAIN request = 1..Len(request)
  OBVIOUS
<1>4. ASSUME NEW i \in those
      PROVE  tried[i] \in [name : Plugins, data : Nat, scope : {scope}]
  <2>1. request[i] \in Paths
    OBVIOUS
  <2>2. request[i][1] \in Plugins
    BY <2>1 DEF Paths
  <2>3. FileAt(request[i]).data \in Nat
    <3>1. resolve_plugin_path(request[i]) = None \/ resolve_plugin_path(request[i]) \in Paths
      BY <2>1, <2>2 DEF resolve_plugin_path, Paths, Forms
    <3>2. FileAt(request[i]) = NoFile \/ FileAt(request[i]) \in File
      BY <3>1 DEF FileAt, WorldType
    <3> QED
      BY <3>2 DEF NoFile, File
  <2>4. try_load_plugin(request[i], scope) # None
    OBVIOUS
  <2>5. try_load_plugin(request[i], scope)
          = [name |-> request[i][1], data |-> FileAt(request[i]).data, scope |-> scope]
    BY <2>4 DEF try_load_plugin
  <2> QED
    BY <2>2, <2>3, <2>5
<1>5. \A i \in those : LoadedOf(request, scope)[i] = tried[i]
  BY <1>1 DEF Restrict
<1> QED
  BY <1>2, <1>3, <1>4, <1>5 DEF LoadedType

\* A name that was loaded has a last plugin with that name.
LEMMA LatestLoaded ==
    ASSUME NEW scope \in Scopes, NEW loaded, LoadedType(loaded, scope), NEW p \in NamesOf(loaded)
    PROVE  loaded[Max({i \in DOMAIN loaded : loaded[i].name = p})]
              \in [name : Plugins, data : Nat, scope : {scope}]
<1> DEFINE Of == {i \in DOMAIN loaded : loaded[i].name = p}
<1>1. PICK n \in Nat : DOMAIN loaded \subseteq 1..n
  BY DEF LoadedType
<1>2. Of \subseteq 1..n /\ Of # {}
  BY <1>1 DEF NamesOf
<1>3. Max(Of) \in Of
  BY <1>1, <1>2, MaxOfIndices
<1> QED
  BY <1>3 DEF LoadedType

\* insert_plugins gives a name that was loaded the scope asked for.
LEMMA InsertedScope ==
    ASSUME NEW plugins \in PluginMaps, NEW scope \in Scopes, NEW loaded, LoadedType(loaded, scope),
           NEW p \in NamesOf(loaded)
    PROVE  /\ insert_plugins(plugins, loaded)[p] \in Plugin
           /\ insert_plugins(plugins, loaded)[p].scope = scope
<1> DEFINE latest == loaded[Max({i \in DOMAIN loaded : loaded[i].name = p})]
<1>1. insert_plugins(plugins, loaded)[p] = [data |-> latest.data, scope |-> latest.scope]
  BY DEF insert_plugins, NamesOf
<1>2. latest \in [name : Plugins, data : Nat, scope : {scope}]
  BY LatestLoaded
<1> QED
  BY <1>1, <1>2 DEF Plugin

\* insert_plugins adds the names that were loaded and changes no other plugin.
LEMMA InsertedPlugins ==
    ASSUME NEW plugins \in PluginMaps, NEW scope \in Scopes, NEW loaded, LoadedType(loaded, scope)
    PROVE  /\ insert_plugins(plugins, loaded) \in PluginMaps
           /\ DOMAIN insert_plugins(plugins, loaded) = DOMAIN plugins \cup NamesOf(loaded)
           /\ \A p \in DOMAIN plugins \ NamesOf(loaded) :
                 insert_plugins(plugins, loaded)[p] = plugins[p]
<1> DEFINE inserted == insert_plugins(plugins, loaded)
           all == DOMAIN plugins \cup NamesOf(loaded)
<1>1. /\ inserted = [p \in all |-> inserted[p]]
      /\ \A p \in DOMAIN plugins \ NamesOf(loaded) : inserted[p] = plugins[p]
  BY DEF insert_plugins, NamesOf
<1>2. \A p \in NamesOf(loaded) : inserted[p] \in Plugin
  BY InsertedScope
<1>3. NamesOf(loaded) \subseteq Plugins
  BY DEF LoadedType, NamesOf
<1>4. DOMAIN plugins \subseteq Plugins /\ \A p \in DOMAIN plugins : plugins[p] \in Plugin
  BY MapOfPlugins
<1> HIDE DEF inserted
<1>5. inserted \in [all -> Plugin]
  BY <1>1, <1>2, <1>4
<1> QED
  BY <1>1, <1>3, <1>4, <1>5 DEF PluginMaps, inserted

\* Storing plugins whose masters are known leaves none without its masters.
LEMMA InsertKeepsMasters ==
    ASSUME cache.plugins \in PluginMaps, NEW scope \in Scopes, NEW loaded,
           LoadedType(loaded, scope), MastersLoaded,
           scope = "WholePlugin" /\ ResolvesRecordIds => resolve_record_ids(loaded),
           base_type' = base_type, cache'.plugins = insert_plugins(cache.plugins, loaded)
    PROVE  MastersLoaded'
<1> DEFINE names == NamesOf(loaded)
<1>1. /\ DOMAIN cache'.plugins = DOMAIN cache.plugins \cup names
      /\ \A p \in names : cache'.plugins[p].scope = scope
      /\ \A p \in DOMAIN cache.plugins \ names : cache'.plugins[p] = cache.plugins[p]
  <2>1. DOMAIN insert_plugins(cache.plugins, loaded) = DOMAIN cache.plugins \cup NamesOf(loaded)
    BY InsertedPlugins
  <2>2. ASSUME NEW p \in NamesOf(loaded)
        PROVE  insert_plugins(cache.plugins, loaded)[p].scope = scope
    BY InsertedScope
  <2>3. ASSUME NEW p \in DOMAIN cache.plugins \ NamesOf(loaded)
        PROVE  insert_plugins(cache.plugins, loaded)[p] = cache.plugins[p]
    BY InsertedPlugins
  <2> QED
    BY <2>1, <2>2, <2>3
<1> SUFFICES ASSUME ResolvesRecordIds, NEW p \in DOMAIN cache'.plugins,
                    cache'.plugins[p].scope = "WholePlugin"
             PROVE  Masters[p] \subseteq DOMAIN cache'.plugins
  BY DEF MastersLoaded, ResolvesRecordIds
<1>2. CASE p \in names
  BY <1>1, <1>2 DEF resolve_record_ids, NamesOf
<1>3. CASE p \in DOMAIN cache.plugins \ names
  BY <1>1, <1>3 DEF MastersLoaded
<1> QED
  BY <1>1, <1>2, <1>3

-----------------------------------------------------------------------------
(* Each step keeps the invariant. *)

\* set_additional_data_paths tells the load order and the evaluator.
LEMMA SetPathsInv ==
    ASSUME Inv, NEW paths \in SUBSET {ExtraPath}, set_additional_data_paths(paths)
    PROVE  Inv'
<1> USE DEF Inv, TypeOK, WorldType, HandleType, Caches, DatabaseType, CallType, CountsType,
            set_additional_data_paths, Begin, CanWrite, Return, clear_condition_cache, world, Idle,
            Empty
<1>1. (WorldType /\ DatabaseType /\ CallType /\ CountsType)'
  OBVIOUS
<1>2. HandleType'
  OBVIOUS
<1>3. LockExcludes'
  BY DEF LockExcludes
<1>4. (PathsAgree /\ ActiveInStep /\ PluginsTold /\ StoredSoFar /\ OrderHeld /\ SortOfLoaded /\
        MastersLoaded)'
  BY DEF PathsAgree, ActiveInStep, PluginsTold, Told, StoredSoFar, OrderHeld, SortOfLoaded,
         MastersLoaded, ResolvesRecordIds
<1>5. ResultsAgree'
  <2>1. lock' = lock /\ pending' = pending /\ CanWrite
    OBVIOUS
  <2>2. CASE lock.poisoned
    BY <2>1, <2>2 DEF ResultsAgree
  <2>3. CASE ~lock.poisoned
    BY <2>1, <2>3, ClearedAgree
  <2> QED
    BY <2>2, <2>3
<1> QED
  BY <1>1, <1>2, <1>3, <1>4, <1>5

\* load_plugins checks the request.
LEMMA LoadPluginsInv ==
    ASSUME Inv, NEW request \in Requests, NEW scope \in {"WholePlugin", "HeaderOnly"},
           load_plugins(request, scope)
    PROVE  Inv'
<1> USE DEF Inv, TypeOK, WorldType, HandleType, Caches, DatabaseType, CallType, CountsType,
            load_plugins, Begin, Return, world, database, Idle
<1>1. (WorldType /\ HandleType /\ DatabaseType /\ CountsType)'
  OBVIOUS
<1>2. CallType'
  <2>1. request \in Seq(Paths)
    BY RequestsAssumption DEF Paths, Forms
  <2>2. CASE game' = Idle
    BY <2>2
  <2>3. CASE game' = [at |-> "common", request |-> request, scope |-> scope,
                      before |-> cache]
    BY <2>1, <2>3 DEF Scopes
  <2> QED
    BY <2>2, <2>3
<1>3. LockExcludes'
  BY DEF LockExcludes
<1>4. (PathsAgree /\ ActiveInStep /\ PluginsTold /\ ResultsAgree)'
  BY DEF PathsAgree, ActiveInStep, PluginsTold, Told, ResultsAgree, Agrees
<1>5. (StoredSoFar /\ OrderHeld /\ SortOfLoaded /\ MastersLoaded)'
  BY DEF StoredSoFar, OrderHeld, SortOfLoaded, MastersLoaded, ResolvesRecordIds
<1> QED
  BY <1>1, <1>2, <1>3, <1>4, <1>5

\* clear_loaded_plugins empties the cache of plugins and nothing else.
LEMMA ClearPluginsInv ==
    ASSUME Inv, clear_loaded_plugins
    PROVE  Inv'
<1> USE DEF Inv, TypeOK, WorldType, HandleType, Caches, DatabaseType, CallType, CountsType,
            clear_loaded_plugins, Begin, Return, world, database, Idle
<1>1. (WorldType /\ DatabaseType /\ CallType /\ CountsType)'
  OBVIOUS
<1>2. HandleType'
  BY EmptyIsMap
<1>3. LockExcludes'
  BY DEF LockExcludes
<1>4. (PathsAgree /\ ActiveInStep)'
  BY DEF PathsAgree, ActiveInStep
<1>5. (PluginsTold /\ ResultsAgree /\ StoredSoFar /\ OrderHeld /\ SortOfLoaded /\ MastersLoaded)'
  <2>1. DOMAIN cache'.plugins = {}
    BY EmptyIsMap
  <2> QED
    BY <2>1 DEF PluginsTold, ResultsAgree, Agrees, StoredSoFar, OrderHeld, SortOfLoaded,
                MastersLoaded, ResolvesRecordIds
<1> QED
  BY <1>1, <1>2, <1>3, <1>4, <1>5

\* load_current_load_order_state, up to the evaluator.
LEMMA LoadStateInv ==
    ASSUME Inv, load_current_load_order_state
    PROVE  Inv'
<1> USE DEF Inv, TypeOK, WorldType, HandleType, Caches, DatabaseType, CallType, CountsType,
            load_current_load_order_state, Begin, Return, world, database, Idle
<1>1. (WorldType /\ DatabaseType /\ CallType /\ CountsType)'
  OBVIOUS
<1>2. HandleType'
  <2>1. CASE load_order' = [load_order EXCEPT !.order = saved.order, !.active = saved.active,
                                              !.read = TRUE]
    BY <2>1
  <2>2. CASE load_order' = load_order
    BY <2>2
  <2>3. CASE load_order' = [load_order EXCEPT !.order = <<>>, !.active = {}, !.read = FALSE]
    <3>1. <<>> \in Seq(Plugins) /\ {} \in SUBSET Plugins
      OBVIOUS
    <3> QED
      BY <2>3, <3>1
  <2> QED
    BY <2>1, <2>2, <2>3
<1>3. LockExcludes'
  BY DEF LockExcludes
<1>4. (PathsAgree /\ PluginsTold /\ ResultsAgree)'
  BY DEF PathsAgree, PluginsTold, Told, ResultsAgree, Agrees
<1>5. ActiveInStep'
  <2>1. CASE game' = [at |-> "activate"]
    BY <2>1 DEF ActiveInStep
  <2>2. CASE load_order' = load_order
    BY <2>2 DEF ActiveInStep
  <2>3. CASE load_order' = [load_order EXCEPT !.order = <<>>, !.active = {}, !.read = FALSE]
    <3>1. load_order'.read = FALSE
      BY <2>3
    <3> QED
      BY <3>1 DEF ActiveInStep
  <2> QED
    BY <2>1, <2>2, <2>3
<1>6. (StoredSoFar /\ OrderHeld /\ SortOfLoaded /\ MastersLoaded)'
  BY DEF StoredSoFar, OrderHeld, SortOfLoaded, MastersLoaded, ResolvesRecordIds
<1> QED
  BY <1>1, <1>2, <1>3, <1>4, <1>5, <1>6

\* set_load_order changes the order in memory.
LEMMA SetLoadOrderInv ==
    ASSUME Inv, NEW order \in Orders, set_load_order(order)
    PROVE  Inv'
<1> USE DEF Inv, TypeOK, WorldType, HandleType, Caches, DatabaseType, CallType, CountsType,
            set_load_order, Begin, Return, world, database, Idle
<1>1. HandleType'
  <2>1. order \in Seq(Plugins)
    BY SavedAssumption
  <2>2. load_order' = load_order \/ load_order' = [load_order EXCEPT !.order = order]
    OBVIOUS
  <2> QED
    BY <2>1, <2>2
<1>2. (WorldType /\ DatabaseType /\ CallType /\ CountsType)'
  OBVIOUS
<1>3. LockExcludes'
  BY DEF LockExcludes
<1>4. (PathsAgree /\ ActiveInStep /\ PluginsTold /\ ResultsAgree)'
  BY DEF PathsAgree, ActiveInStep, PluginsTold, Told, ResultsAgree, Agrees
<1>5. (StoredSoFar /\ OrderHeld /\ SortOfLoaded /\ MastersLoaded)'
  BY DEF StoredSoFar, OrderHeld, SortOfLoaded, MastersLoaded, ResolvesRecordIds
<1> QED
  BY <1>1, <1>2, <1>3, <1>4, <1>5

\* What saving puts on disk is an order and active plugins, and is the order in
\* memory, for OpenMW as far as the active plugins go.
LEMMA WhatIsSaved ==
    ASSUME HandleType, WorldType, NEW disk \in Saved
    PROVE  /\ disk \in [order : Seq(Plugins), active : SUBSET Plugins]
           /\ IF base_type # "OpenMW" THEN disk.order = load_order.order
              ELSE Within(disk.order, load_order.active)
                      = Within(load_order.order, load_order.active)
BY SavedAssumption DEF HandleType, WorldType, Saved

\* The order is saved, or not.
LEMMA SaveInv ==
    ASSUME Inv, save
    PROVE  Inv'
<1> USE DEF Inv, TypeOK, WorldType, HandleType, Caches, DatabaseType, CallType, CountsType, save,
            Return, database, Idle
<1>1. WorldType'
  <2>1. saved' = saved \/ saved' \in Saved
    OBVIOUS
  <2>2. saved' \in [order : Seq(Plugins), active : SUBSET Plugins]
    BY <2>1, WhatIsSaved
  <2> QED
    BY <2>2
<1>2. (HandleType /\ DatabaseType /\ CallType /\ CountsType)'
  OBVIOUS
<1>3. LockExcludes'
  BY DEF LockExcludes
<1>4. (PathsAgree /\ ActiveInStep /\ PluginsTold /\ ResultsAgree)'
  BY DEF PathsAgree, ActiveInStep, PluginsTold, Told, ResultsAgree, Agrees
<1>5. (StoredSoFar /\ OrderHeld /\ SortOfLoaded /\ MastersLoaded)'
  BY DEF StoredSoFar, OrderHeld, SortOfLoaded, MastersLoaded, ResolvesRecordIds
<1> QED
  BY <1>1, <1>2, <1>3, <1>4, <1>5

\* sort_plugins starts only on loaded plugins.
LEMMA SortPluginsInv ==
    ASSUME Inv, NEW names \in Sorts, sort_plugins(names)
    PROVE  Inv'
<1> USE DEF Inv, TypeOK, WorldType, HandleType, Caches, DatabaseType, CallType, CountsType,
            sort_plugins, Begin, Return, world, database, Idle
<1>1. (WorldType /\ HandleType /\ DatabaseType /\ CountsType)'
  OBVIOUS
<1>2. CallType'
  <2>1. names \subseteq Plugins
    BY SortsAssumption
  <2>2. CASE game' = Idle
    BY <2>2
  <2>3. CASE game' = [at |-> "sort", left |-> names, names |-> names, seen |-> {}]
    BY <2>1, <2>3
  <2> QED
    BY <2>2, <2>3
<1>3. LockExcludes'
  BY DEF LockExcludes
<1>4. (PathsAgree /\ ActiveInStep /\ PluginsTold /\ ResultsAgree)'
  BY DEF PathsAgree, ActiveInStep, PluginsTold, Told, ResultsAgree, Agrees
<1>5. (StoredSoFar /\ OrderHeld /\ SortOfLoaded /\ MastersLoaded)'
  BY DEF StoredSoFar, OrderHeld, SortOfLoaded, MastersLoaded, ResolvesRecordIds
<1> QED
  BY <1>1, <1>2, <1>3, <1>4, <1>5

\* The plugins are read, and none is stored yet.
LEMMA LoadCommonInv ==
    ASSUME Inv, load_plugins_common
    PROVE  Inv'
<1> USE DEF Inv, TypeOK, WorldType, HandleType, Caches, DatabaseType, CallType, CountsType,
            load_plugins_common, Return, Continue, world, database, Idle
<1>1. (WorldType /\ DatabaseType /\ CountsType)'
  OBVIOUS
<1>2. HandleType'
  <2>1. find_archives(load_order.paths) \subseteq Archives
    BY ArchivesAssumption DEF find_archives, Archives
  <2> QED
    BY <2>1
<1>3. CallType'
  <2>1. game \in [at : {"common"}, request : Seq(Paths), scope : Scopes, before : Caches]
    OBVIOUS
  <2>2. LoadedType(LoadedOf(game.request, game.scope), game.scope)
    BY <2>1, LoadedOfType
  <2>3. CASE game' = Idle
    BY <2>3
  <2>4. CASE game' = [at |-> "resolve", scope |-> game.scope, before |-> game.before,
                      loaded |-> LoadedOf(game.request, game.scope)]
    BY <2>1, <2>2, <2>4
  <2> QED
    BY <2>3, <2>4
<1>4. LockExcludes'
  BY DEF LockExcludes
<1>5. (PathsAgree /\ ActiveInStep)'
  BY DEF PathsAgree, ActiveInStep
<1>6. PluginsTold'
  BY DEF PluginsTold, Told
<1>7. ResultsAgree'
  <2>1. /\ UNCHANGED <<evaluator, conditions, pending, lock>>
        /\ cache'.plugins = cache.plugins /\ game.at # "store"
    OBVIOUS
  <2> QED
    BY <2>1, UntouchedAgree
<1>8. (StoredSoFar /\ OrderHeld /\ SortOfLoaded /\ MastersLoaded)'
  BY DEF StoredSoFar, OrderHeld, SortOfLoaded, MastersLoaded, ResolvesRecordIds
<1> QED
  BY <1>1, <1>2, <1>3, <1>4, <1>5, <1>6, <1>7, <1>8

\* The plugins are stored if their masters are known.
LEMMA ResolveInv ==
    ASSUME Inv, resolve_and_insert
    PROVE  Inv'
<1> USE DEF Inv, TypeOK, WorldType, HandleType, Caches, DatabaseType, CallType, CountsType,
            resolve_and_insert, Return, Continue, world, database, Idle
<1>1. (WorldType /\ DatabaseType /\ CallType /\ CountsType)'
  OBVIOUS
<1>2. HandleType'
  <2>1. cache' = cache \/ cache' = [cache EXCEPT !.plugins = insert_plugins(@, game.loaded)]
    OBVIOUS
  <2>2. /\ cache.plugins \in PluginMaps
        /\ game.scope \in Scopes /\ LoadedType(game.loaded, game.scope)
    OBVIOUS
  <2>3. insert_plugins(cache.plugins, game.loaded) \in PluginMaps
    BY <2>2, InsertedPlugins
  <2> QED
    BY <2>1, <2>3
<1>3. LockExcludes'
  BY DEF LockExcludes
<1>4. (PathsAgree /\ ActiveInStep /\ PluginsTold /\ ResultsAgree)'
  BY DEF PathsAgree, ActiveInStep, PluginsTold, Told, ResultsAgree, Agrees
<1>5. StoredSoFar'
  <2>1. CASE game' = Idle
    BY <2>1 DEF StoredSoFar
  <2>2. CASE game' # Idle
    <3>1. /\ game' = [game EXCEPT !.at = "store"] /\ load_order' = load_order
          /\ cache' = [cache EXCEPT !.plugins = insert_plugins(@, game.loaded)]
      BY <2>2
    <3>2. /\ game'.at = "store" /\ game'.before = game.before /\ game'.loaded = game.loaded
          /\ cache'.archive_paths = cache.archive_paths
          /\ cache'.plugins = insert_plugins(cache.plugins, game.loaded)
      BY <3>1
    <3>3. /\ game.before.plugins = cache.plugins
          /\ cache.archive_paths = find_archives(load_order.paths)
      BY DEF StoredSoFar
    <3>4. cache'.plugins = insert_plugins(game'.before.plugins, game'.loaded)
      BY <3>2, <3>3
    <3> QED
      BY <3>1, <3>2, <3>3, <3>4 DEF StoredSoFar
  <2> QED
    BY <2>1, <2>2
<1>7. (OrderHeld /\ SortOfLoaded)'
  BY DEF OrderHeld, SortOfLoaded
<1>6. MastersLoaded'
  <2>1. CASE cache' = cache
    BY <2>1 DEF MastersLoaded, ResolvesRecordIds
  <2>2. CASE cache' = [cache EXCEPT !.plugins = insert_plugins(@, game.loaded)]
    <3>1. /\ cache'.plugins = insert_plugins(cache.plugins, game.loaded)
          /\ cache.plugins \in PluginMaps
          /\ game.scope \in Scopes /\ LoadedType(game.loaded, game.scope)
      BY <2>2
    <3>2. CASE cache' = cache
      BY <3>2 DEF MastersLoaded, ResolvesRecordIds
    <3>3. CASE cache' # cache
      <4>1. game.scope = "WholePlugin" /\ ResolvesRecordIds => resolve_record_ids(game.loaded)
        BY <3>3
      <4> QED
        BY <3>1, <4>1, InsertKeepsMasters
    <3> QED
      BY <3>2, <3>3
  <2> QED
    BY <2>1, <2>2
<1> QED
  BY <1>1, <1>2, <1>3, <1>4, <1>5, <1>6, <1>7

\* The evaluator is told of all loaded plugins, and its results are dropped.
LEMMA StorePluginsInv ==
    ASSUME Inv, store_plugins
    PROVE  Inv'
<1> USE DEF Inv, TypeOK, WorldType, HandleType, Caches, DatabaseType, CallType, CountsType,
            store_plugins, Return, Continue, world, Idle, CanWrite, update_loaded_plugin_state,
            clear_condition_cache, Empty
<1>1. (WorldType /\ HandleType /\ DatabaseType /\ CallType /\ CountsType)'
  OBVIOUS
<1>2. LockExcludes'
  BY DEF LockExcludes
<1>3. (PathsAgree /\ ActiveInStep)'
  BY DEF PathsAgree, ActiveInStep
<1>4. PluginsTold'
  <2>1. CASE lock.poisoned
    BY <2>1 DEF PluginsTold
  <2>2. CASE ~lock.poisoned
    <3> DEFINE plugins == cache.plugins
               whole == {p \in DOMAIN plugins : plugins[p].scope = "WholePlugin"}
    <3>1. /\ evaluator'.versions = [p \in DOMAIN plugins |-> plugins[p].data]
          /\ evaluator'.crcs = [p \in whole |-> plugins[p].data]
      BY <2>2
    <3> QED
      BY <3>1 DEF PluginsTold, Told
  <2> QED
    BY <2>1, <2>2
<1>5. ResultsAgree'
  <2>1. lock' = lock /\ pending' = pending /\ CanWrite
    OBVIOUS
  <2>2. CASE lock.poisoned
    BY <2>1, <2>2 DEF ResultsAgree
  <2>3. CASE ~lock.poisoned
    BY <2>1, <2>3, ClearedAgree
  <2> QED
    BY <2>2, <2>3
<1>6. (StoredSoFar /\ OrderHeld /\ SortOfLoaded /\ MastersLoaded)'
  BY DEF StoredSoFar, OrderHeld, SortOfLoaded, MastersLoaded, ResolvesRecordIds
<1> QED
  BY <1>1, <1>2, <1>3, <1>4, <1>5, <1>6

\* The evaluator is told of the active plugins, and its results are dropped.
LEMMA SetActiveInv ==
    ASSUME Inv, set_active_plugins
    PROVE  Inv'
<1> USE DEF Inv, TypeOK, WorldType, HandleType, Caches, DatabaseType, CallType, CountsType,
            set_active_plugins, Return, Continue, world, Idle, CanWrite, clear_condition_cache,
            Empty
<1>1. (WorldType /\ HandleType /\ DatabaseType /\ CallType /\ CountsType)'
  OBVIOUS
<1>2. LockExcludes'
  BY DEF LockExcludes
<1>3. (PathsAgree /\ ActiveInStep /\ PluginsTold)'
  BY DEF PathsAgree, ActiveInStep, PluginsTold, Told
<1>4. ResultsAgree'
  <2>1. lock' = lock /\ pending' = pending /\ CanWrite
    OBVIOUS
  <2>2. CASE lock.poisoned
    BY <2>1, <2>2 DEF ResultsAgree
  <2>3. CASE ~lock.poisoned
    BY <2>1, <2>3, ClearedAgree
  <2> QED
    BY <2>2, <2>3
<1>5. (StoredSoFar /\ OrderHeld /\ SortOfLoaded /\ MastersLoaded)'
  BY DEF StoredSoFar, OrderHeld, SortOfLoaded, MastersLoaded, ResolvesRecordIds
<1> QED
  BY <1>1, <1>2, <1>3, <1>4, <1>5

\* sort_plugins becomes a reader, or gives up.
LEMMA SortReadLockInv ==
    ASSUME Inv, sort_read_lock
    PROVE  Inv'
<1> USE DEF Inv, TypeOK, WorldType, HandleType, Caches, DatabaseType, CallType, CountsType,
            sort_read_lock, Return, Continue, world, Idle, CanRead
<1>1. (WorldType /\ HandleType /\ CallType /\ CountsType)'
  OBVIOUS
<1>2. DatabaseType'
  <2>1. lock' = lock \/ lock' = [lock EXCEPT !.readers = @ \cup {"game"}]
    OBVIOUS
  <2> QED
    BY <2>1 DEF Threads
<1>3. LockExcludes'
  BY DEF LockExcludes
<1>4. (PathsAgree /\ ActiveInStep /\ PluginsTold)'
  BY DEF PathsAgree, ActiveInStep, PluginsTold, Told
<1>6. ResultsAgree'
  <2>1. /\ UNCHANGED <<evaluator, conditions, pending, cache>>
        /\ lock'.poisoned = lock.poisoned /\ game.at # "store"
    OBVIOUS
  <2> QED
    BY <2>1, UntouchedAgree
<1>5. (StoredSoFar /\ OrderHeld /\ MastersLoaded)'
  BY DEF StoredSoFar, OrderHeld, MastersLoaded, ResolvesRecordIds
<1>7. SortOfLoaded'
  BY DEF SortOfLoaded
<1> QED
  BY <1>1, <1>2, <1>3, <1>4, <1>5, <1>6, <1>7

\* sort_plugins reads the metadata of one plugin.
LEMMA SortingDataInv ==
    ASSUME Inv, to_plugin_sorting_data
    PROVE  Inv'
<1> USE DEF Inv, TypeOK, WorldType, HandleType, Caches, DatabaseType, CallType, CountsType,
            to_plugin_sorting_data, Continue, world, database, Idle
<1>1. (WorldType /\ HandleType /\ DatabaseType /\ CountsType)'
  OBVIOUS
<1>2. CallType'
  <2>1. game \in [at : {"sort", "sorting"}, left : SUBSET Plugins, names : SUBSET Plugins,
                   seen : SUBSET Nat]
    OBVIOUS
  <2>2. PICK p \in game.left :
                game' = [game EXCEPT !.left = @ \ {p}, !.seen = @ \cup {lists}]
    OBVIOUS
  <2> QED
    BY <2>1, <2>2
<1>3. LockExcludes'
  BY DEF LockExcludes
<1>4. (PathsAgree /\ ActiveInStep /\ PluginsTold /\ ResultsAgree)'
  BY DEF PathsAgree, ActiveInStep, PluginsTold, Told, ResultsAgree, Agrees
<1>5. (StoredSoFar /\ OrderHeld /\ SortOfLoaded /\ MastersLoaded)'
  BY DEF StoredSoFar, OrderHeld, SortOfLoaded, MastersLoaded, ResolvesRecordIds
<1> QED
  BY <1>1, <1>2, <1>3, <1>4, <1>5

\* sort_plugins gives back the lock.
LEMMA SortEndInv ==
    ASSUME Inv, sort_end
    PROVE  Inv'
<1> USE DEF Inv, TypeOK, WorldType, HandleType, Caches, DatabaseType, CallType, CountsType,
            sort_end, Return, Continue, world, Idle
<1>1. (WorldType /\ HandleType /\ DatabaseType /\ CallType /\ CountsType)'
  OBVIOUS
<1>2. LockExcludes'
  BY DEF LockExcludes
<1>3. (PathsAgree /\ ActiveInStep /\ PluginsTold /\ ResultsAgree)'
  BY DEF PathsAgree, ActiveInStep, PluginsTold, Told, ResultsAgree, Agrees
<1>4. (StoredSoFar /\ OrderHeld /\ SortOfLoaded /\ MastersLoaded)'
  BY DEF StoredSoFar, OrderHeld, SortOfLoaded, MastersLoaded, ResolvesRecordIds
<1> QED
  BY <1>1, <1>2, <1>3, <1>4

\* Another thread takes the lock.
LEMMA AcquireInv ==
    ASSUME Inv, NEW t \in Callers, NEW mode \in {"read", "write"}, Acquire(t, mode)
    PROVE  Inv'
<1> USE DEF Inv, TypeOK, WorldType, HandleType, Caches, DatabaseType, CallType, CountsType, Acquire,
            CanRead, CanWrite, world, handle
<1>1. (WorldType /\ HandleType /\ CallType /\ CountsType)'
  OBVIOUS
<1>2. DatabaseType'
  <2>1. CASE lock' = [lock EXCEPT !.readers = @ \cup {t}]
    BY <2>1 DEF Threads
  <2>2. CASE lock' = [lock EXCEPT !.writers = {t}]
    BY <2>2
  <2> QED
    BY <2>1, <2>2
<1>3. LockExcludes'
  <2>1. CASE CanRead /\ lock' = [lock EXCEPT !.readers = @ \cup {t}]
    BY <2>1 DEF LockExcludes
  <2>2. CASE CanWrite /\ lock' = [lock EXCEPT !.writers = {t}]
    BY <2>2 DEF LockExcludes
  <2> QED
    BY <2>1, <2>2
<1>4. (PathsAgree /\ ActiveInStep /\ PluginsTold /\ ResultsAgree)'
  BY DEF PathsAgree, ActiveInStep, PluginsTold, Told, ResultsAgree, Agrees
<1>5. (StoredSoFar /\ OrderHeld /\ SortOfLoaded /\ MastersLoaded)'
  BY DEF StoredSoFar, OrderHeld, SortOfLoaded, MastersLoaded, ResolvesRecordIds
<1> QED
  BY <1>1, <1>2, <1>3, <1>4, <1>5

\* Another thread changes the lists, and may poison the lock.
LEMMA WriteInv ==
    ASSUME Inv, NEW t \in Callers, Write(t)
    PROVE  Inv'
<1> USE DEF Inv, TypeOK, WorldType, HandleType, Caches, DatabaseType, CallType, CountsType, Write,
            Continue, world, handle
<1>1. (WorldType /\ HandleType /\ CallType /\ CountsType)'
  OBVIOUS
<1>2. DatabaseType'
  <2>1. \/ lock' = [lock EXCEPT !.writers = {}]
        \/ lock' = [lock EXCEPT !.writers = {}, !.poisoned = TRUE]
    OBVIOUS
  <2>2. lists' \in Nat
    OBVIOUS
  <2>3. lock' \in [writers : SUBSET Callers, readers : SUBSET Threads, poisoned : BOOLEAN]
    BY <2>1
  <2> QED
    BY <2>2, <2>3
<1>3. LockExcludes'
  BY DEF LockExcludes
<1>4. (PathsAgree /\ ActiveInStep /\ PluginsTold /\ ResultsAgree)'
  BY DEF PathsAgree, ActiveInStep, PluginsTold, Told, ResultsAgree, Agrees
<1>5. (StoredSoFar /\ OrderHeld)'
  BY DEF StoredSoFar, OrderHeld
<1>6. SortOfLoaded'
  <2>1. game.at # "sorting"
    BY DEF LockExcludes
  <2> QED
    BY <2>1 DEF SortOfLoaded
<1>7. MastersLoaded'
  BY DEF MastersLoaded, ResolvesRecordIds
<1> QED
  BY <1>1, <1>2, <1>3, <1>4, <1>5, <1>6, <1>7

\* Another thread gives back the lock.
LEMMA ReleaseReadInv ==
    ASSUME Inv, NEW t \in Callers, ReleaseRead(t)
    PROVE  Inv'
<1> USE DEF Inv, TypeOK, WorldType, HandleType, Caches, DatabaseType, CallType, CountsType,
            ReleaseRead, Continue, world, handle
<1>1. (WorldType /\ HandleType /\ DatabaseType /\ CallType /\ CountsType)'
  OBVIOUS
<1>2. LockExcludes'
  BY DEF LockExcludes
<1>3. (PathsAgree /\ ActiveInStep /\ PluginsTold /\ ResultsAgree)'
  BY DEF PathsAgree, ActiveInStep, PluginsTold, Told, ResultsAgree, Agrees
<1>4. (StoredSoFar /\ OrderHeld /\ SortOfLoaded /\ MastersLoaded)'
  BY DEF StoredSoFar, OrderHeld, SortOfLoaded, MastersLoaded, ResolvesRecordIds
<1> QED
  BY <1>1, <1>2, <1>3, <1>4

\* A reader evaluates a condition.
LEMMA EvaluateInv ==
    ASSUME Inv, NEW t \in Threads, NEW c \in Conditions, Evaluate(t, c)
    PROVE  Inv'
<1> USE DEF Inv, TypeOK, WorldType, HandleType, Caches, DatabaseType, CallType, CountsType,
            Evaluate, Continue, world, handle
<1>1. (WorldType /\ HandleType /\ DatabaseType /\ CallType /\ CountsType)'
  OBVIOUS
<1>2. LockExcludes'
  BY DEF LockExcludes
<1>3. (PathsAgree /\ ActiveInStep)'
  BY DEF PathsAgree, ActiveInStep
<1>4. PluginsTold'
  <2>1. CASE evaluator' = evaluator
    BY <2>1 DEF PluginsTold, Told
  <2>2. CASE /\ evaluator' # evaluator
             /\ evaluator' = [evaluator EXCEPT !.crcs = Insert(@, c.of, CrcRead(c.of))]
    <3>1. /\ evaluator'.versions = evaluator.versions
          /\ c.of \notin DOMAIN evaluator.crcs
          /\ evaluator'.crcs = Insert(evaluator.crcs, c.of, CrcRead(c.of))
      BY <2>2
    <3>2. \A p \in DOMAIN evaluator.crcs :
             p \in DOMAIN evaluator'.crcs /\ evaluator'.crcs[p] = evaluator.crcs[p]
      BY <3>1 DEF Insert
    <3> QED
      BY <3>1, <3>2 DEF PluginsTold, Told
  <2> QED
    BY <2>1, <2>2
<1>5. ResultsAgree'
  <2> SUFFICES ASSUME ~lock.poisoned, game.at # "store"
               PROVE  /\ \A d \in DOMAIN conditions : Agrees(d, conditions[d])'
                      /\ \A u \in Threads :
                            (pending[u] # None => Agrees(pending[u].condition, pending[u].answer))'
    BY DEF ResultsAgree
  <2>1. /\ evaluator'.active = evaluator.active /\ evaluator'.paths = evaluator.paths
        /\ cache' = cache
    OBVIOUS
  <2>2. \A d, v : Agrees(d, v) => Agrees(d, v)'
    BY <2>1 DEF Agrees
  <2>3. Agrees(c, Answer(c))
    BY AnswerAgrees DEF PluginsTold
  <2>4. \A d \in DOMAIN conditions : Agrees(d, conditions[d])'
    BY <2>2 DEF ResultsAgree
  <2>5. ASSUME NEW u \in Threads, pending'[u] # None
        PROVE  Agrees(pending[u].condition, pending[u].answer)'
    <3>1. CASE u = t
      <4>1. pending'[u].condition = c /\ pending'[u].answer = Answer(c)
        BY <3>1
      <4> QED
        BY <4>1, <2>2, <2>3
    <3>2. CASE u # t
      BY <2>2, <2>5, <3>2 DEF ResultsAgree
    <3> QED
      BY <3>1, <3>2
  <2> QED
    BY <2>4, <2>5
<1>6. (StoredSoFar /\ OrderHeld /\ SortOfLoaded /\ MastersLoaded)'
  BY DEF StoredSoFar, OrderHeld, SortOfLoaded, MastersLoaded, ResolvesRecordIds
<1> QED
  BY <1>1, <1>2, <1>3, <1>4, <1>5, <1>6

\* A reader caches its result.
LEMMA StoreInv ==
    ASSUME Inv, NEW t \in Threads, Store(t)
    PROVE  Inv'
<1> USE DEF Inv, TypeOK, WorldType, HandleType, Caches, DatabaseType, CallType, CountsType, Store,
            Continue, world, handle
<1>1. (WorldType /\ HandleType /\ CallType /\ CountsType)'
  OBVIOUS
<1>2. DatabaseType'
  <2>1. DOMAIN conditions' \subseteq DOMAIN conditions \cup {pending[t].condition}
    BY DEF Insert
  <2>2. pending[t].condition \in Conditions
    OBVIOUS
  <2> QED
    BY <2>1, <2>2
<1>3. LockExcludes'
  BY DEF LockExcludes
<1>4. (PathsAgree /\ ActiveInStep /\ PluginsTold)'
  BY DEF PathsAgree, ActiveInStep, PluginsTold, Told
<1>5. ResultsAgree'
  <2> SUFFICES ASSUME ~lock.poisoned, game.at # "store"
               PROVE  /\ \A d \in DOMAIN conditions' : Agrees(d, conditions[d])'
                      /\ \A u \in Threads : pending'[u] # None =>
                             Agrees(pending[u].condition, pending[u].answer)'
    BY DEF ResultsAgree
  <2>1. \A d, v : Agrees(d, v) => Agrees(d, v)'
    BY DEF Agrees
  <2>2. ASSUME NEW d \in DOMAIN conditions'
        PROVE  Agrees(d, conditions[d])'
    <3>1. conditions' = Insert(conditions, pending[t].condition, pending[t].answer)
      OBVIOUS
    <3>2. /\ \A e \in DOMAIN conditions : Agrees(e, conditions[e])
          /\ Agrees(pending[t].condition, pending[t].answer)
      BY DEF ResultsAgree
    <3>3. Agrees(d, conditions'[d])
      BY <3>1, <3>2, StoredAgree
    <3> QED
      BY <2>1, <3>3
  <2>3. ASSUME NEW u \in Threads, pending'[u] # None
        PROVE  Agrees(pending[u].condition, pending[u].answer)'
    <3>1. pending'[u] = pending[u]
      BY <2>3
    <3> QED
      BY <2>1, <2>3, <3>1 DEF ResultsAgree
  <2> QED
    BY <2>2, <2>3
<1>6. (StoredSoFar /\ OrderHeld /\ SortOfLoaded /\ MastersLoaded)'
  BY DEF StoredSoFar, OrderHeld, SortOfLoaded, MastersLoaded, ResolvesRecordIds
<1> QED
  BY <1>1, <1>2, <1>3, <1>4, <1>5, <1>6

\* Another program changes a file.
LEMMA OtherProgramInv ==
    ASSUME Inv, OtherProgram
    PROVE  Inv'
<1> USE DEF Inv, TypeOK, WorldType, HandleType, Caches, DatabaseType, CallType, CountsType,
            OtherProgram, handle, database
<1>1. WorldType'
  <2>1. CASE saved' = saved
    <3>1. PICK path \in Plugins \X Forms, file \in FileData \cup {NoFile} :
                  files' = [files EXCEPT ![path] = file]
      BY <2>1, SavedAssumption
    <3>2. file \in File
      <4>1. NoFile \in File
        BY DEF NoFile, File
      <4>2. FileData \subseteq File
        BY FilesAssumption DEF File
      <4> QED
        BY <4>1, <4>2
    <3> QED
      BY <2>1, <3>1, <3>2 DEF Paths
  <2>2. CASE files' = files /\ saved' \in [order : Orders, active : Actives]
    <3>1. saved' \in [order : Seq(Plugins), active : SUBSET Plugins]
      BY <2>2, SavedAssumption
    <3> QED
      BY <2>2, <3>1
  <2> QED
    BY <2>1, <2>2
<1>2. (HandleType /\ DatabaseType /\ CallType /\ CountsType)'
  OBVIOUS
<1>3. LockExcludes'
  BY DEF LockExcludes
<1>4. (PathsAgree /\ ActiveInStep /\ PluginsTold /\ ResultsAgree)'
  BY DEF PathsAgree, ActiveInStep, PluginsTold, Told, ResultsAgree, Agrees
<1>5. (StoredSoFar /\ OrderHeld /\ SortOfLoaded /\ MastersLoaded)'
  BY DEF StoredSoFar, OrderHeld, SortOfLoaded, MastersLoaded, ResolvesRecordIds
<1> QED
  BY <1>1, <1>2, <1>3, <1>4, <1>5

-----------------------------------------------------------------------------
(* The theorems. *)

\* The handle as new.
LEMMA InitInv == Init => Inv
<1> SUFFICES ASSUME Init PROVE Inv
  OBVIOUS
<1> USE DEF Init, Idle, new_condition_evaluator_state
<1>1. WorldType
  <2>1. files \in [Paths -> File]
    BY FilesAssumption DEF Paths, Forms, File
  <2>2. saved \in [order : Seq(Plugins), active : SUBSET Plugins]
    BY SavedAssumption
  <2> QED
    BY <2>1, <2>2 DEF WorldType
<1>2. HandleType
  <2>1. <<>> \in Seq(Plugins)
    OBVIOUS
  <2> QED
    BY <2>1, EmptyIsMap DEF HandleType, Caches
<1>3. DOMAIN conditions = {} /\ DOMAIN cache.plugins = {}
  BY EmptyIsMap
<1>4. DatabaseType
  BY <1>3 DEF DatabaseType
<1>5. CallType /\ CountsType
  BY DEF CallType, CountsType
<1>6. LockExcludes /\ PathsAgree /\ ActiveInStep /\ StoredSoFar /\ OrderHeld /\ SortOfLoaded
  BY DEF LockExcludes, PathsAgree, ActiveInStep, StoredSoFar, OrderHeld, SortOfLoaded
<1>7. PluginsTold /\ ResultsAgree /\ MastersLoaded
  BY <1>3 DEF PluginsTold, ResultsAgree, MastersLoaded
<1> QED
  BY <1>1, <1>2, <1>4, <1>5, <1>6, <1>7 DEF Inv, TypeOK

\* Every step of the handle, of another thread or of another program.
LEMMA NextInv == Inv /\ [Next]_vars => Inv'
<1> SUFFICES ASSUME Inv, [Next]_vars PROVE Inv'
  OBVIOUS
<1>1. CASE \E paths \in SUBSET {ExtraPath} : set_additional_data_paths(paths)
  BY <1>1, SetPathsInv
<1>2. CASE \E r \in Requests, scope \in {"WholePlugin", "HeaderOnly"} : load_plugins(r, scope)
  BY <1>2, LoadPluginsInv
<1>3. CASE clear_loaded_plugins
  BY <1>3, ClearPluginsInv
<1>4. CASE load_current_load_order_state
  BY <1>4, LoadStateInv
<1>5. CASE \E o \in Orders : set_load_order(o)
  BY <1>5, SetLoadOrderInv
<1>6. CASE \E names \in Sorts : sort_plugins(names)
  BY <1>6, SortPluginsInv
<1>7. CASE HandleSteps
  BY <1>7, LoadCommonInv, ResolveInv, StorePluginsInv, SetActiveInv, SaveInv, SortReadLockInv,
     SortingDataInv, SortEndInv DEF HandleSteps
<1>8. CASE \E t \in Callers, mode \in {"read", "write"} : Acquire(t, mode)
  BY <1>8, AcquireInv
<1>9. CASE \E t \in Callers : Write(t) \/ ReleaseRead(t)
  BY <1>9, WriteInv, ReleaseReadInv
<1>10. CASE \E t \in Threads, c \in Conditions : Evaluate(t, c)
  BY <1>10, EvaluateInv
<1>11. CASE \E t \in Threads : Store(t)
  BY <1>11, StoreInv
<1>12. CASE OtherProgram
  BY <1>12, OtherProgramInv
<1>13. CASE UNCHANGED vars
  <2> USE <1>13 DEF Inv, vars
  <2>1. TypeOK'
    BY DEF TypeOK, WorldType, HandleType, DatabaseType, CallType, CountsType
  <2>2. LockExcludes' /\ PathsAgree' /\ ActiveInStep' /\ StoredSoFar' /\ OrderHeld' /\ SortOfLoaded'
    BY DEF LockExcludes, PathsAgree, ActiveInStep, StoredSoFar, OrderHeld, SortOfLoaded
  <2>3. PluginsTold' /\ ResultsAgree' /\ MastersLoaded'
    BY DEF PluginsTold, Told, ResultsAgree, Agrees, MastersLoaded, ResolvesRecordIds
  <2> QED
    BY <2>1, <2>2, <2>3
<1> QED
  BY <1>1, <1>2, <1>3, <1>4, <1>5, <1>6, <1>7, <1>8, <1>9, <1>10, <1>11, <1>12, <1>13 DEF Next

\* The inductive invariant holds in every behaviour of the handle.
THEOREM Invariance == Spec => []Inv
BY InitInv, NextInv, PTL DEF Spec

\* What the invariant says of the times between calls is what is checked: the
\* evaluator knows the loaded plugins, has no stale result, and searches the
\* directories of the load order.
LEMMA InvInStep == Inv => EvaluatorInStep
<1> SUFFICES ASSUME Inv PROVE EvaluatorInStep
  OBVIOUS
<1>1. game = Idle => game.at # "store" /\ game.at # "activate"
  BY DEF Idle
<1>2. LoadedPluginsKnown
  BY <1>1 DEF Inv, PluginsTold, LoadedPluginsKnown
<1>3. ConditionsFresh
  <2> SUFFICES ASSUME game = Idle, ~lock.poisoned, NEW c \in DOMAIN conditions
               PROVE  /\ c.fn = "active" => conditions[c] = (c.of \in load_order.active)
                                            \/ ~load_order.read
                      /\ c.fn = "file" => conditions[c] = (ExtraPath \in load_order.paths)
                      /\ c.fn = "version" /\ c.of \in DOMAIN cache.plugins =>
                            conditions[c] = cache.plugins[c.of].data
                      /\ c.fn = "checksum" /\ c.of \in DOMAIN cache.plugins
                            /\ cache.plugins[c.of].scope = "WholePlugin" =>
                            conditions[c] = cache.plugins[c.of].data
    <3>1. \A c \in DOMAIN conditions : c.fn \in {"active", "file", "version", "checksum"}
      BY ConditionsAssumption DEF Inv, TypeOK, DatabaseType
    <3> QED
      BY <3>1 DEF ConditionsFresh
  <2>1. Agrees(c, conditions[c])
    BY <1>1 DEF Inv, ResultsAgree
  <2>2. evaluator.active = load_order.active \/ ~load_order.read
    BY <1>1 DEF Inv, ActiveInStep
  <2>3. evaluator.paths = load_order.paths
    BY DEF Inv, PathsAgree
  <2> QED
    BY <2>1, <2>2, <2>3 DEF Agrees
<1> QED
  BY <1>2, <1>3 DEF EvaluatorInStep, Inv

\* After every call the evaluator is in step with the handle, for any requests,
\* conditions, threads and number of calls.
THEOREM EvaluatorStaysInStep == Spec => []EvaluatorInStep
BY Invariance, InvInStep, PTL

\* No call leaves a fully loaded plugin without its masters.
THEOREM MastersStayLoaded == Spec => []MastersLoaded
<1>1. Inv => MastersLoaded
  BY DEF Inv
<1> QED
  BY <1>1, Invariance, PTL

\* What sort_plugins collects is of one moment, whatever the other threads do.
THEOREM SortInputsStayConsistent == Spec => []SortInputsAreConsistent
<1>1. Inv => SortInputsAreConsistent
  BY DEF Inv, LockExcludes, PluginsTold, SortOfLoaded, SortInputsAreConsistent,
         SortSeesLoadedState, SortReadsOneVersion
<1> QED
  BY <1>1, Invariance, PTL

\* Each result of load_plugins says what the cache holds after it, and each result
\* of set_load_order what is in memory and on disk: whether a failed call has
\* changed the handle depends on its error, for any game, requests and orders.
THEOREM OutcomesStayTrue == Spec => OutcomesAreTrue
<1> DEFINE LoadStep ==
              game.at \in {"common", "resolve", "store"} /\ game' = Idle =>
                 /\ result' = "IoError" => cache' = game.before
                 /\ result' # "IoError" => cache'.archive_paths = find_archives(load_order.paths)
                 /\ result' = "PluginDataError" => cache'.plugins = game.before.plugins
                 /\ result' \in {"ok", "DatabaseLockPoisoned"} =>
                       cache'.plugins = insert_plugins(game.before.plugins, game.loaded)
           OrderStep ==
              game.at = "save" /\ game' = Idle =>
                 /\ load_order'.order = game.order
                 /\ result' = "ok" =>
                       IF base_type # "OpenMW" THEN saved'.order = load_order'.order
                       ELSE Within(saved'.order, load_order'.active)
                               = Within(load_order'.order, load_order'.active)
<1>1. Inv /\ [Next]_vars => [LoadStep]_vars
  <2> SUFFICES ASSUME Inv, Next, game.at \in {"common", "resolve", "store"}, game' = Idle
               PROVE  LoadStep
    OBVIOUS
  <2>1. game # Idle
    BY DEF Idle
  <2>2. CASE load_plugins_common
    <3>1. result' = "IoError" /\ cache' = cache /\ game.before = cache
      BY <2>2 DEF load_plugins_common, Return, Idle, Inv, StoredSoFar
    <3> QED
      BY <3>1
  <2>3. CASE resolve_and_insert
    <3>1. result' = "PluginDataError" /\ cache' = cache /\ game.at = "resolve"
      BY <2>3 DEF resolve_and_insert, Return, Idle
    <3>2. /\ cache.archive_paths = find_archives(load_order.paths)
          /\ game.before.plugins = cache.plugins
      BY <3>1 DEF Inv, StoredSoFar
    <3> QED
      BY <3>1, <3>2
  <2>4. CASE store_plugins
    <3>1. result' \in {"ok", "DatabaseLockPoisoned"} /\ cache' = cache /\ game.at = "store"
      BY <2>4 DEF store_plugins, Return
    <3>2. /\ cache.archive_paths = find_archives(load_order.paths)
          /\ cache.plugins = insert_plugins(game.before.plugins, game.loaded)
      BY <3>1 DEF Inv, StoredSoFar
    <3> QED
      BY <3>1, <3>2
  <2>5. load_plugins_common \/ resolve_and_insert \/ store_plugins
    BY <2>1 DEF Next, HandleSteps, set_additional_data_paths, load_plugins,
       clear_loaded_plugins, load_current_load_order_state, set_load_order, sort_plugins,
       save, set_active_plugins, sort_read_lock, to_plugin_sorting_data, sort_end,
       Acquire, Write, ReleaseRead, Evaluate, Store, OtherProgram, Begin, handle
  <2> QED
    BY <2>2, <2>3, <2>4, <2>5
<1>2. Inv /\ [Next]_vars => [OrderStep]_vars
  <2> SUFFICES ASSUME Inv, Next, game.at = "save", game' = Idle
               PROVE  OrderStep
    OBVIOUS
  <2>1. game # Idle
    BY DEF Idle
  <2>2. save
    BY <2>1 DEF Next, HandleSteps, set_additional_data_paths, load_plugins, load_plugins_common,
       resolve_and_insert, store_plugins, clear_loaded_plugins, load_current_load_order_state,
       set_load_order, sort_plugins, set_active_plugins, sort_read_lock, to_plugin_sorting_data,
       sort_end, Acquire, Write, ReleaseRead, Evaluate, Store, OtherProgram, Begin, handle
  <2>3. /\ load_order' = load_order
        /\ result' = "ok" => saved' \in Saved
    BY <2>2 DEF save, Return
  <2>4. load_order.order = game.order
    BY DEF Inv, OrderHeld
  <2>5. ASSUME result' = "ok"
        PROVE  IF base_type # "OpenMW" THEN saved'.order = load_order.order
               ELSE Within(saved'.order, load_order.active)
                       = Within(load_order.order, load_order.active)
    BY <2>3, <2>5, WhatIsSaved DEF Inv, TypeOK
  <2> QED
    BY <2>3, <2>4, <2>5
<1>3. []Inv /\ [][Next]_vars => [][LoadStep]_vars /\ [][OrderStep]_vars
  BY <1>1, <1>2, PTL
<1>4. Spec => [][LoadStep]_vars /\ [][OrderStep]_vars
  BY <1>3, Invariance, PTL DEF Spec
<1> QED
  BY <1>4 DEF OutcomesAreTrue, LoadOutcomes, OrderOutcomes
=============================================================================
