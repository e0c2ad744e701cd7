------------------------------ MODULE GameState ------------------------------
(***************************************************************************)
(* game.rs: the state behind a Game handle and the calls that change it.   *)
(*                                                                         *)
(* Four things have to stay in step: the cache of loaded plugins, the load *)
(* order held in memory, what the condition evaluator has been told about  *)
(* both, and the results it has cached.  The last two are part of the      *)
(* Database, which the handle shares behind an RwLock with the caller's    *)
(* other threads: they read it (and so evaluate conditions), change its    *)
(* lists, and may panic while they hold it, which poisons the lock.        *)
(*                                                                         *)
(* A call of the handle is one action per stretch between two points where *)
(* another thread or another program can intervene.  What sort_plugins     *)
(* computes from what it reads is in PluginSort; what the lists hold is in *)
(* Database.  The load order, the evaluator and the parser are libraries:  *)
(* they are modelled from the way they are called here.                    *)
(***************************************************************************)
EXTENDS Integers, Sequences, FiniteSetsExt, Functions

CONSTANTS GameTypes,     \* the games that a handle is made for
          Plugins,       \* plugin names
          Masters,       \* the masters that each plugin's header names
          FileData,      \* what a plugin file may hold
          InitialFiles,  \* the plugin files at first
          Requests,      \* the lists of paths the caller asks to load
          ExtraPath,     \* an additional data path
          ArchivesIn,    \* the archives in the main directory and in ExtraPath
          Orders,        \* the load orders that may be on disk or set
          Actives,       \* the sets of active plugins that may be on disk
          InitialSaved,  \* the load order and active plugins on disk at first
          Sorts,         \* the sets of plugins the caller asks to sort
          Conditions,    \* the conditions that the metadata has
          Callers,       \* the caller's other threads
          MaxOps,        \* bound: calls of the handle
          MaxTurns,      \* bound: turns of the other threads
          MaxEdits       \* bound: changes made to files by other programs

ASSUME BoundsAssumption == MaxOps \in Nat /\ MaxTurns \in Nat /\ MaxEdits \in Nat
ASSUME MastersAssumption == Masters \in [Plugins -> SUBSET Plugins]
ASSUME CallersAssumption == "game" \notin Callers
ASSUME ConditionsAssumption ==
    \A c \in Conditions : c.fn \in {"active", "file", "version", "checksum"}
ASSUME RequestsAssumption == Requests \subseteq Seq(Plugins \X {"plain", "ghost"})
ASSUME ArchivesAssumption == DOMAIN ArchivesIn = {"main", ExtraPath}
ASSUME SortsAssumption == Sorts \subseteq SUBSET Plugins
ASSUME SavedAssumption ==
    /\ Orders \subseteq Seq(Plugins) /\ Actives \subseteq SUBSET Plugins
    /\ InitialSaved \in [order : Orders, active : Actives]
ASSUME FilesAssumption ==
    LET File == [data : Nat, header : BOOLEAN, body : BOOLEAN]
    IN /\ FileData \subseteq File
       /\ InitialFiles \in [Plugins \X {"plain", "ghost"} -> File]

VARIABLES base_type,   \* the handle's GameType
          files,       \* the plugin files, by plugin and by form of their path
          saved,       \* the load order and active plugins on disk
          load_order,  \* those held in memory, and the additional data paths
          cache,       \* GameCache: the loaded plugins and the archives found
          evaluator,   \* condition_evaluator_state
          conditions,  \* its cache of results
          lists,       \* how many times the database's lists have been changed
          lock,        \* the RwLock around the database
          pending,     \* what each reader has evaluated and not yet cached
          game,        \* the call of the handle in progress
          result,      \* what the last call returned
          ops, turns, edits

handle == <<load_order, cache, game, result>>
database == <<evaluator, conditions, lists, lock, pending>>
world == <<files, saved>>
vars == <<base_type, files, saved, load_order, cache, evaluator, conditions, lists, lock, pending, game,
          result, ops, turns, edits>>

Threads == Callers \cup {"game"}
None == <<>>
Idle == [at |-> "idle"]
Empty == [x \in {} |-> 0]
Insert(f, key, value) == [x \in DOMAIN f \cup {key} |-> IF x = key THEN value ELSE f[x]]

\* A path names the plugin's file as it is, or with .ghost added to its name.
Forms == {"plain", "ghost"}
NoFile == [data |-> 0, header |-> FALSE, body |-> FALSE]

\* GameType as load_plugins and resolve_plugin_path tell the types apart.
ResolvesRecordIds == base_type \in {"Morrowind", "OpenMW", "Starfield"}
GhostsSupported == base_type # "OpenMW"

-----------------------------------------------------------------------------
(* The database's lock.                                                    *)

CanRead == lock.writers = {}
CanWrite == lock.writers = {} /\ lock.readers = {}

-----------------------------------------------------------------------------
(* Files, and what loading one gives.                                      *)

exists(path) == files[path] # NoFile

resolve_plugin_path(path) ==
    IF GhostsSupported /\ ~exists(path)
    THEN IF path[2] = "plain" THEN <<path[1], "ghost">> ELSE None
    ELSE path

\* The file that is read: None is a path that no file has.
FileAt(path) ==
    LET resolved == resolve_plugin_path(path) IN IF resolved = None THEN NoFile ELSE files[resolved]

\* OpenMW's ghosts are ordinary files without a plugin's extension.
has_plugin_file_extension(path) == GhostsSupported \/ path[2] = "plain"

validate_plugin_path_and_header(path) ==
    has_plugin_file_extension(path) /\ FileAt(path).header

validate_plugin_paths(request) ==
    /\ IsInjective(request)
    /\ \A i \in DOMAIN request : validate_plugin_path_and_header(request[i])

find_archives(paths) == ArchivesIn["main"] \cup UNION {ArchivesIn[d] : d \in paths}

\* Plugin::new: None is an error, which is logged and the plugin left out.
try_load_plugin(path, scope) ==
    LET file == FileAt(path)
    IN IF file.header /\ (scope = "HeaderOnly" \/ file.body)
       THEN [name |-> path[1], data |-> file.data, scope |-> scope]
       ELSE None

\* The plugins of a request that load, by their index in it.
LoadedOf(request, scope) ==
    LET tried == [i \in DOMAIN request |-> try_load_plugin(request[i], scope)]
    IN Restrict(tried, {i \in DOMAIN request : tried[i] # None})

\* insert_plugins: of two plugins of one name the later stays.
insert_plugins(plugins, loaded) ==
    LET names == {loaded[i].name : i \in DOMAIN loaded}
        latest(name) == loaded[Max({i \in DOMAIN loaded : loaded[i].name = name})]
    IN [p \in DOMAIN plugins \cup names |->
           IF p \in names THEN [data |-> latest(p).data, scope |-> latest(p).scope]
           ELSE plugins[p]]

\* plugins_metadata and resolve_record_ids: every master has to be known.
resolve_record_ids(loaded) ==
    LET known == DOMAIN cache.plugins \cup {loaded[i].name : i \in DOMAIN loaded}
    IN \A i \in DOMAIN loaded : Masters[loaded[i].name] \subseteq known

-----------------------------------------------------------------------------
(* Conditions.  The evaluator answers from what it has been told; it reads *)
(* a CRC it was not told from the file, and keeps it.                      *)

CrcRead(p) == IF FileAt(<<p, "plain">>) = NoFile THEN 0 ELSE FileAt(<<p, "plain">>).data

Answer(c) ==
    CASE c.fn = "active" -> c.of \in evaluator.active
      [] c.fn = "file" -> ExtraPath \in evaluator.paths
      [] c.fn = "version" -> IF c.of \in DOMAIN evaluator.versions THEN evaluator.versions[c.of]
                             ELSE 0
      [] c.fn = "checksum" -> IF c.of \in DOMAIN evaluator.crcs THEN evaluator.crcs[c.of]
                              ELSE CrcRead(c.of)

clear_condition_cache == conditions' = Empty

\* Mutant: only the plugins just loaded are reported to the evaluator.
update_loaded_plugin_state_new(plugins) ==
    LET new == {p \in DOMAIN plugins : p \notin DOMAIN evaluator.versions}
    IN /\ clear_condition_cache
       /\ evaluator' = [evaluator EXCEPT !.versions = [p \in new |-> plugins[p].data], !.crcs = Empty]

\* Mutant: the condition cache is not cleared.
update_loaded_plugin_state_keeping(plugins) ==
    LET whole == {p \in DOMAIN plugins : plugins[p].scope = "WholePlugin"}
    IN /\ UNCHANGED conditions
       /\ evaluator' = [evaluator EXCEPT
             !.versions = [p \in DOMAIN plugins |-> plugins[p].data],
             !.crcs = [p \in whole |-> plugins[p].data]]

update_loaded_plugin_state(plugins) ==
    LET whole == {p \in DOMAIN plugins : plugins[p].scope = "WholePlugin"}
    IN /\ clear_condition_cache
       /\ evaluator' = [evaluator EXCEPT
             !.versions = [p \in DOMAIN plugins |-> plugins[p].data],
             !.crcs = [p \in whole |-> plugins[p].data]]

-----------------------------------------------------------------------------
(* Game::new and with_local_path, once the directories are found.          *)

new_condition_evaluator_state ==
    [paths |-> load_order.paths, active |-> {}, versions |-> Empty, crcs |-> Empty]

Init ==
    /\ base_type \in GameTypes
    /\ files = InitialFiles
    /\ saved = InitialSaved
    /\ load_order = [order |-> <<>>, active |-> {}, paths |-> {}, read |-> TRUE]
    /\ cache = [plugins |-> Empty, archive_paths |-> {}]
    /\ evaluator = new_condition_evaluator_state
    /\ conditions = Empty
    /\ lists = 0
    /\ lock = [writers |-> {}, readers |-> {}, poisoned |-> FALSE]
    /\ pending = [t \in Threads |-> None]
    /\ game = Idle
    /\ result = "new"
    /\ ops = 0 /\ turns = 0 /\ edits = 0

\* A call begins, and ends with what it returns.
Begin == game = Idle /\ ops < MaxOps /\ ops' = ops + 1 /\ UNCHANGED <<base_type, turns, edits, world>>
Return(r) == game' = Idle /\ result' = r
Continue == UNCHANGED <<base_type, ops, turns, edits, world>>

-----------------------------------------------------------------------------
(* The calls of the handle.                                                *)

\* Mutant: the load order is given the paths before the lock is taken.
set_additional_data_paths_early(paths) ==
    /\ Begin
    /\ CanWrite
    /\ load_order' = [load_order EXCEPT !.paths = paths]
    /\ \/ lock.poisoned /\ Return("DatabaseLockPoisoned") /\ UNCHANGED <<evaluator, conditions>>
       \/ ~lock.poisoned /\ clear_condition_cache /\ Return("ok")
          /\ evaluator' = [evaluator EXCEPT !.paths = paths]
    /\ UNCHANGED <<cache, lists, lock, pending>>

set_additional_data_paths(paths) ==
    /\ Begin
    /\ CanWrite
    /\ \/ /\ lock.poisoned
          /\ Return("DatabaseLockPoisoned")
          /\ UNCHANGED <<evaluator, conditions, load_order>>
       \/ /\ ~lock.poisoned
          /\ clear_condition_cache
          /\ load_order' = [load_order EXCEPT !.paths = paths]
          /\ evaluator' = [evaluator EXCEPT !.paths = paths]
          /\ Return("ok")
    /\ UNCHANGED <<cache, lists, lock, pending>>

\* load_plugins and load_plugin_headers, up to the checked paths.
load_plugins(request, scope) ==
    /\ Begin
    /\ \/ ~validate_plugin_paths(request) /\ Return("PluginValidationError")
       \/ validate_plugin_paths(request) /\ UNCHANGED result
          /\ game' = [at |-> "common", request |-> request, scope |-> scope,
                      before |-> cache]
    /\ UNCHANGED <<load_order, cache, database>>

\* Mutant: what was loaded before is discarded first.
load_plugins_common_discarding ==
    /\ game.at = "common"
    /\ \/ Return("IoError") /\ cache' = [cache EXCEPT !.plugins = Empty]
       \/ /\ game' = [at |-> "resolve", scope |-> game.scope, before |-> game.before,
                      loaded |-> LoadedOf(game.request, game.scope)]
          /\ UNCHANGED <<result, cache>>
    /\ Continue /\ UNCHANGED <<load_order, database>>

\* The directories may fail to be listed; a plugin that fails to load now,
\* because its file has changed since it was checked, is left out.
load_plugins_common ==
    /\ game.at = "common"
    /\ \/ Return("IoError") /\ UNCHANGED cache
       \/ /\ cache' = [cache EXCEPT !.archive_paths = find_archives(load_order.paths)]
          /\ game' = [at |-> "resolve", scope |-> game.scope, before |-> game.before,
                      loaded |-> LoadedOf(game.request, game.scope)]
          /\ UNCHANGED result
    /\ Continue /\ UNCHANGED <<load_order, database>>

\* Mutant: the error for a master that is not loaded is dropped.
resolve_and_insert_unchecked ==
    /\ game.at = "resolve"
    /\ cache' = [cache EXCEPT !.plugins = insert_plugins(@, game.loaded)]
    /\ game' = [game EXCEPT !.at = "store"] /\ UNCHANGED result
    /\ Continue /\ UNCHANGED <<load_order, database>>

\* Record IDs are resolved, then store_plugins inserts into the cache.
resolve_and_insert ==
    /\ game.at = "resolve"
    /\ IF game.scope = "WholePlugin" /\ ResolvesRecordIds /\ ~resolve_record_ids(game.loaded)
       THEN Return("PluginDataError") /\ UNCHANGED cache
       ELSE /\ cache' = [cache EXCEPT !.plugins = insert_plugins(@, game.loaded)]
            /\ game' = [game EXCEPT !.at = "store"]
            /\ UNCHANGED result
    /\ Continue /\ UNCHANGED <<load_order, database>>

\* Mutant: a poisoned lock is waited for.
store_plugins_waiting ==
    /\ game.at = "store"
    /\ CanWrite /\ ~lock.poisoned
    /\ update_loaded_plugin_state(cache.plugins)
    /\ Return("ok")
    /\ Continue /\ UNCHANGED <<load_order, cache, lists, lock, pending>>

\* The rest of store_plugins, once the database's lock is had.
store_plugins ==
    /\ game.at = "store"
    /\ CanWrite
    /\ \/ /\ lock.poisoned
          /\ Return("DatabaseLockPoisoned")
          /\ UNCHANGED <<evaluator, conditions>>
       \/ /\ ~lock.poisoned
          /\ update_loaded_plugin_state(cache.plugins)
          /\ Return("ok")
    /\ Continue /\ UNCHANGED <<load_order, cache, lists, lock, pending>>

clear_loaded_plugins ==
    /\ Begin
    /\ cache' = [cache EXCEPT !.plugins = Empty]
    /\ Return("ok")
    /\ UNCHANGED <<load_order, database>>

\* load_current_load_order_state: the library forgets what it held before it
\* reads, so that a load that fails may leave nothing (read is FALSE then).
load_current_load_order_state ==
    /\ Begin
    /\ \/ /\ load_order' = [load_order EXCEPT !.order = saved.order, !.active = saved.active,
                                            !.read = TRUE]
          /\ game' = [at |-> "activate"] /\ UNCHANGED result
       \/ /\ Return("LoadOrderError")
          /\ \/ UNCHANGED load_order
             \/ load_order' = [load_order EXCEPT !.order = <<>>, !.active = {}, !.read = FALSE]
    /\ UNCHANGED <<cache, database>>

\* Mutant: the condition cache is not cleared.
set_active_plugins_keeping ==
    /\ game.at = "activate"
    /\ CanWrite
    /\ \/ lock.poisoned /\ Return("DatabaseLockPoisoned") /\ UNCHANGED evaluator
       \/ ~lock.poisoned /\ Return("ok")
          /\ evaluator' = [evaluator EXCEPT !.active = load_order.active]
    /\ Continue /\ UNCHANGED <<load_order, cache, conditions, lists, lock, pending>>

set_active_plugins ==
    /\ game.at = "activate"
    /\ CanWrite
    /\ \/ /\ lock.poisoned
          /\ Return("DatabaseLockPoisoned")
          /\ UNCHANGED <<evaluator, conditions>>
       \/ /\ ~lock.poisoned
          /\ clear_condition_cache
          /\ evaluator' = [evaluator EXCEPT !.active = load_order.active]
          /\ Return("ok")
    /\ Continue /\ UNCHANGED <<load_order, cache, lists, lock, pending>>

\* set_load_order: the order is changed in memory, unless it is refused.
set_load_order(order) ==
    /\ Begin
    /\ \/ Return("LoadOrderError") /\ UNCHANGED load_order
       \/ /\ load_order' = [load_order EXCEPT !.order = order]
          /\ game' = [at |-> "save", order |-> order] /\ UNCHANGED result
    /\ UNCHANGED <<cache, database>>

\* The part of an order that is about some of the plugins.
Within(order, names) == SelectSeq(order, LAMBDA p : p \in names)

\* What is on disk when the order in memory has been saved: for OpenMW the inactive
\* plugins may be anywhere.  Whether active plugins are saved too is left open.
Saved ==
    LET orders == IF base_type # "OpenMW" THEN {load_order.order}
                  ELSE {o \in Orders : Within(o, load_order.active)
                                           = Within(load_order.order, load_order.active)}
    IN [order : orders, active : {saved.active, load_order.active}]

\* Mutant: what saving returns is ignored.
save_unchecked ==
    /\ game.at = "save"
    /\ saved' \in {saved} \cup Saved
    /\ Return("ok")
    /\ UNCHANGED <<base_type, files, load_order, cache, database, ops, turns, edits>>

\* Saving may fail, and may then have replaced what was on disk all the same.
save ==
    /\ game.at = "save"
    /\ \/ saved' \in Saved /\ Return("ok")
       \/ saved' \in {saved} \cup Saved /\ Return("SaveError")
    /\ UNCHANGED <<base_type, files, load_order, cache, database, ops, turns, edits>>

\* sort_plugins: all plugins have to be loaded.
sort_plugins(names) ==
    /\ Begin
    /\ \/ names \subseteq DOMAIN cache.plugins /\ UNCHANGED result
          /\ game' = [at |-> "sort", left |-> names, names |-> names, seen |-> {}]
       \/ ~(names \subseteq DOMAIN cache.plugins) /\ Return("PluginNotLoaded")
    /\ UNCHANGED <<load_order, cache, database>>

\* Mutant: a poisoned lock is read all the same.
sort_read_lock_anyway ==
    /\ game.at = "sort"
    /\ CanRead
    /\ lock' = [lock EXCEPT !.readers = @ \cup {"game"}]
    /\ game' = [game EXCEPT !.at = "sorting"]
    /\ UNCHANGED result
    /\ Continue /\ UNCHANGED <<load_order, cache, evaluator, conditions, lists, pending>>

sort_read_lock ==
    /\ game.at = "sort"
    /\ CanRead
    /\ \/ lock.poisoned /\ Return("DatabaseLockPoisoned") /\ UNCHANGED lock
       \/ /\ ~lock.poisoned
          /\ lock' = [lock EXCEPT !.readers = @ \cup {"game"}]
          /\ game' = [game EXCEPT !.at = "sorting"]
          /\ UNCHANGED result
    /\ Continue /\ UNCHANGED <<load_order, cache, evaluator, conditions, lists, pending>>

\* Mutant: the lock is given up and taken again between two plugins.
to_plugin_sorting_data_unlocked ==
    /\ game.at = "sorting" /\ pending["game"] = None
    /\ \E p \in game.left :
          game' = [game EXCEPT !.at = "sort", !.left = @ \ {p}, !.seen = @ \cup {lists}]
    /\ lock' = [lock EXCEPT !.readers = @ \ {"game"}]
    /\ Continue /\ UNCHANGED <<load_order, cache, result, evaluator, conditions, lists, pending>>

\* One plugin's metadata, of both lists, is read (and evaluated: Evaluate).
to_plugin_sorting_data ==
    /\ game.at = "sorting" /\ pending["game"] = None
    /\ \E p \in game.left :
          game' = [game EXCEPT !.left = @ \ {p}, !.seen = @ \cup {lists}]
    /\ Continue /\ UNCHANGED <<load_order, cache, result, database>>

\* The groups are read and the plugins sorted, or some step has failed.
sort_end ==
    /\ game.at = "sorting" /\ pending["game"] = None
    /\ \/ game.left = {} /\ Return("sorted")
       \/ Return("SortPluginsError")
    /\ lock' = [lock EXCEPT !.readers = @ \ {"game"}]
    /\ Continue /\ UNCHANGED <<load_order, cache, evaluator, conditions, lists, pending>>

-----------------------------------------------------------------------------
(* The caller's other threads, and other programs.                         *)

Acquire(t, mode) ==
    /\ turns < MaxTurns /\ turns' = turns + 1
    /\ t \notin lock.writers /\ t \notin lock.readers /\ ~lock.poisoned
    /\ \/ mode = "read" /\ CanRead /\ lock' = [lock EXCEPT !.readers = @ \cup {t}]
       \/ mode = "write" /\ CanWrite /\ lock' = [lock EXCEPT !.writers = {t}]
    /\ UNCHANGED <<base_type, world, handle, evaluator, conditions, lists, pending, ops, edits>>

\* Loading a list or changing user metadata, and then a panic or none.
Write(t) ==
    /\ t \in lock.writers
    /\ lists' = lists + 1
    /\ lock' \in {[lock EXCEPT !.writers = {}],
                  [lock EXCEPT !.writers = {}, !.poisoned = TRUE]}
    /\ Continue /\ UNCHANGED <<handle, evaluator, conditions, pending>>

ReleaseRead(t) ==
    /\ t \in lock.readers /\ t # "game" /\ pending[t] = None
    /\ lock' = [lock EXCEPT !.readers = @ \ {t}]
    /\ Continue /\ UNCHANGED <<handle, evaluator, conditions, lists, pending>>

\* A condition that is not cached is evaluated, and then the answer cached.
Evaluate(t, c) ==
    /\ t \in lock.readers /\ pending[t] = None
    /\ c \notin DOMAIN conditions
    /\ pending' = [pending EXCEPT ![t] = [condition |-> c, answer |-> Answer(c)]]
    /\ evaluator' = IF c.fn = "checksum" /\ c.of \notin DOMAIN evaluator.crcs /\ CrcRead(c.of) # 0
                    THEN [evaluator EXCEPT !.crcs = Insert(@, c.of, CrcRead(c.of))] ELSE evaluator
    /\ Continue /\ UNCHANGED <<handle, conditions, lists, lock>>

Store(t) ==
    /\ pending[t] # None
    /\ conditions' = Insert(conditions, pending[t].condition, pending[t].answer)
    /\ pending' = [pending EXCEPT ![t] = None]
    /\ Continue /\ UNCHANGED <<handle, evaluator, lists, lock>>

\* Another program installs, changes, ghosts or removes a plugin, or changes
\* the load order on disk.
OtherProgram ==
    /\ edits < MaxEdits /\ edits' = edits + 1
    /\ \/ /\ \E path \in Plugins \X Forms, file \in FileData \cup {NoFile} :
                files[path] # file /\ files' = [files EXCEPT ![path] = file]
          /\ UNCHANGED saved
       \/ /\ saved' \in [order : Orders, active : Actives] \ {saved}
          /\ UNCHANGED files
    /\ UNCHANGED <<base_type, handle, database, ops, turns>>

HandleSteps ==
    \/ load_plugins_common \/ resolve_and_insert \/ store_plugins \/ set_active_plugins \/ save
    \/ sort_read_lock \/ to_plugin_sorting_data \/ sort_end

Next ==
    \/ \E paths \in SUBSET {ExtraPath} : set_additional_data_paths(paths)
    \/ \E r \in Requests, scope \in {"WholePlugin", "HeaderOnly"} : load_plugins(r, scope)
    \/ clear_loaded_plugins
    \/ load_current_load_order_state
    \/ \E o \in Orders : set_load_order(o)
    \/ \E names \in Sorts : sort_plugins(names)
    \/ HandleSteps
    \/ \E t \in Callers, mode \in {"read", "write"} : Acquire(t, mode)
    \/ \E t \in Callers : Write(t) \/ ReleaseRead(t)
    \/ \E t \in Threads, c \in Conditions : Evaluate(t, c)
    \/ \E t \in Threads : Store(t)
    \/ OtherProgram

\* A thread that runs goes on, and the caller's threads give back the lock.
Fairness ==
    /\ WF_vars(HandleSteps)
    /\ \A t \in Callers : WF_vars(Write(t) \/ ReleaseRead(t))
    /\ \A t \in Threads : WF_vars(Store(t))

Spec == Init /\ [][Next]_vars /\ Fairness

-----------------------------------------------------------------------------
\* What the evaluator has been told of a loaded plugin is what is loaded.
Told(p) ==
    LET plugin == cache.plugins[p]
    IN /\ p \in DOMAIN evaluator.versions /\ evaluator.versions[p] = plugin.data
       /\ plugin.scope = "WholePlugin" =>
             p \in DOMAIN evaluator.crcs /\ evaluator.crcs[p] = plugin.data

\* Between calls, and unless the lock is poisoned, the evaluator knows the
\* version and the CRC of every loaded plugin, whatever mixture of whole and
\* header-only loads, reloads and clears led there (update_loaded_plugin_state
\* is given the whole cache, not the plugins just loaded).
LoadedPluginsKnown ==
    game = Idle /\ ~lock.poisoned => \A p \in DOMAIN cache.plugins : Told(p)

\* store_plugins fills the cache before it can fail on a poisoned lock, which
\* leaves plugins the evaluator knows nothing of; sort_plugins never evaluates
\* metadata in that state, because it needs the same lock.
SortSeesLoadedState ==
    game.at = "sorting" => \A p \in game.names : p \in DOMAIN cache.plugins /\ Told(p)

\* All that one call of sort_plugins reads of the lists is from one version of
\* them, however the caller's threads change them meanwhile.
SortReadsOneVersion == game.at = "sorting" => game.seen \subseteq {lists}

\* Between calls a cached result agrees with the handle: with the plugins that
\* are loaded, with the active plugins and with the additional data paths.
\* Readers evaluate and cache in two steps, at any time the lock lets them.  A
\* load order that could not be read may be left empty (see
\* load_current_load_order_state); no other failure breaks the agreement.
ConditionsFresh ==
    game = Idle /\ ~lock.poisoned =>
        \A c \in DOMAIN conditions :
            CASE c.fn = "active" -> conditions[c] = (c.of \in load_order.active)
                                    \/ ~load_order.read
              [] c.fn = "file" -> conditions[c] = (ExtraPath \in load_order.paths)
              [] c.fn = "version" ->
                    c.of \in DOMAIN cache.plugins => conditions[c] = cache.plugins[c.of].data
              [] c.fn = "checksum" ->
                    c.of \in DOMAIN cache.plugins /\ cache.plugins[c.of].scope = "WholePlugin" =>
                        conditions[c] = cache.plugins[c.of].data

\* Where record IDs are resolved, a plugin is fully loaded only together with
\* or after its masters, also when a master's file went bad between the check
\* of its header and the load, and no call leaves it without them.
MastersLoaded ==
    ResolvesRecordIds =>
        \A p \in DOMAIN cache.plugins :
            cache.plugins[p].scope = "WholePlugin" => Masters[p] \subseteq DOMAIN cache.plugins

\* The load order and the evaluator search the same directories, poisoned lock
\* or not: set_additional_data_paths takes the lock first.
PathsAgree == evaluator.paths = load_order.paths

\* The condition evaluator is in step with the handle after every call, also one
\* that failed halfway: it knows the loaded plugins, has no stale result in its
\* cache, and searches the same directories.
EvaluatorInStep == LoadedPluginsKnown /\ ConditionsFresh /\ PathsAgree

\* What sort_plugins collects is of one moment: the plugins that are loaded, as
\* the evaluator knows them, and one version of the lists.
SortInputsAreConsistent == SortSeesLoadedState /\ SortReadsOneVersion

\* What load_plugins leaves behind, once its paths have been found valid.  Only an
\* IoError leaves the cache as it was before the call.  Any other result leaves the
\* archives as they are found now, also a PluginDataError, after which the plugins
\* are still the old ones.  The plugins that were loaded are stored if the result is
\* Ok, and if it is DatabaseLockPoisoned.
LoadOutcomes ==
    [][game.at \in {"common", "resolve", "store"} /\ game' = Idle =>
          /\ result' = "IoError" => cache' = game.before
          /\ result' # "IoError" => cache'.archive_paths = find_archives(load_order.paths)
          /\ result' = "PluginDataError" => cache'.plugins = game.before.plugins
          /\ result' \in {"ok", "DatabaseLockPoisoned"} =>
                cache'.plugins = insert_plugins(game.before.plugins, game.loaded)]_vars

\* What set_load_order leaves behind once it has accepted an order: that order is
\* held in memory, also if it was not saved; it is on disk too if the result is Ok,
\* of which for OpenMW only the order of the active plugins can be relied on.
OrderOutcomes ==
    [][game.at = "save" /\ game' = Idle =>
          /\ load_order'.order = game.order
          /\ result' = "ok" =>
                IF base_type # "OpenMW" THEN saved'.order = load_order'.order
                ELSE Within(saved'.order, load_order'.active)
                        = Within(load_order'.order, load_order'.active)]_vars

\* A caller may rely on what a call returned for what it has left behind: in the
\* cache of load_plugins and load_plugin_headers, and in memory and on disk of
\* set_load_order.
OutcomesAreTrue == LoadOutcomes /\ OrderOutcomes

\* Every call of the handle returns, with the lock poisoned or not.
CallsReturn == game # Idle ~> game = Idle
=============================================================================
