# libloot: TLA+ models

libloot reads a game's plugins and two lists of metadata about them (a
masterlist and the user's own list), answers questions about both, and decides
in which order the plugins load. This directory holds TLA+ models of that
library and of the C++, Python and Node.js wrappers around it, TLC
configurations that check them on small instances, and TLAPS proofs for every
instance.

Paths below are relative to the repository's root. `PROJECT.json` names, for
each definition, the lines that it models.

## 1. Inventory

| Component | State | Operations | What makes it correct |
|---|---|---|---|
| path search (`src/sorting/search.rs`, `plugins.rs`) | two queues, two visited sets, parents/children maps, `paths_cache` | `bidirectional_bfs`, `path_exists`, `find_path`, `PathFinder::path` | exact answer; a real path; only true facts cached; returns |
| plugin graph (`plugins.rs`) | nodes, edges, `paths_cache` | `add_edge`, `is_path_cached`, add-unless-cycle | no constraint lost through a wrong cache entry |
| groups graph (`groups.rs`) | nodes and edges of groups | `build_groups_graph`, `sorted_group_nodes`, `find_path` | rejects undefined and cyclic groups; deterministic order; preferred path |
| group edges (`plugins.rs`) | DFS stack and colours, edge stack, finished/unfinishable groups | `add_group_edges`, `GroupsPathVisitor` | ordered groups give ordered plugins, whatever the shape |
| overlap edges (`plugins.rs`) | loop position | `add_overlap_edges` | compared plugins end up ordered; no cycle |
| tie-break edges (`plugins.rs`) | `new_load_order`, `processed_nodes`, window, `range_start` | `add_tie_break_edges`, `pin_node_position` | one order left; a good order is kept; no cycle; ends |
| sort (`plugins.rs`, `validate.rs`) | three graphs in turn, result | `sort_plugins`, `sort_plugins_partition`, validation | all dependencies respected; early loaders first; idempotent; ends |
| cycle detection (`search.rs`) | DFS, trail | `find_cycle`, `CycleDetector` | reports a cycle exactly if there is one, and one that closes |
| game handle (`game.rs`) | plugin cache, archive paths, load order, shared database | load/clear plugins, load order state, data paths, `sort_plugins` | the evaluator's data agrees with what is loaded, after failures too |
| database (`database/`) | masterlist, userlist, condition evaluator | load, query with merge/evaluate, set/discard user metadata, write | a failure changes nothing; user metadata survives a save and a load; merging rules |
| metadata documents (`metadata/metadata_document.rs`) | entries by name, by regex, ordered names, groups, messages, tags | load, save, set, remove, clear, preludes, anchors | the three plugin collections stay in step; errors point at the right file |
| metadata types (`metadata/*.rs`) | values | parsing, writing, `merge_metadata`, `format`, choice of a language | what is written is what is read; merge and choice rules |
| YAML (`metadata/yaml/`) | text, anchors | emit, parse, merge keys | round trip; anchors before aliases |
| plugin (`plugin/`) | what was read from one file | `Plugin::new`, tags, version, overlaps | assets are those the game loads; whole versions |
| archives (`archive/`) | parsed archives | find, parse, overlap of assets | paths as in the archive; overlap exact |
| logging (`logging.rs`, wrappers) | global `RwLock` of callback and level | log, set callback, set level | no deadlock; recovers from poisoning; no error lost |
| wrappers (`cpp/`, `python/`, `nodejs/`, `ffi-errors/`) | C++ copies of metadata; a shared handle of the database | conversions, merges, comparisons, exceptions, locking | copies agree with the originals; causes survive; calls are atomic |
| version, crate root, test support | - | - | not modelled |

Interaction. A `Game` owns the plugin cache and the load order and shares its
`Database` behind an `RwLock` with whoever holds a handle of it, on any thread.
`load_plugins` starts rayon workers, which log. `sort_plugins` reads the cache
and, under the read lock, the metadata, whose conditions are evaluated against
what the handle has told the evaluator; the sort itself runs on one thread.
Inside a sort everything is shared through one graph and its cache: group,
overlap and tie-break edges are each added on the strength of searches, and
every search leaves facts in `paths_cache` that later calls trust.

What is hard to test here. The sort is a long sequence of mutations whose later
steps rely on properties of all earlier ones; the code itself calls some of its
checks "just in case" and some states "impossible", and the models settle those
beliefs. A call of the handle updates several things in turn, any of which may
fail, while other threads use the database and other programs change the files.
A list is written by one set of rules and read by another. The wrappers repeat
logic in C++ and add locks of their own (the logger's, the interpreter's).
`PROJECT.json` lists each hazard at its line with the properties about it.

## 2. Modules

### Sorting

```
Reachability             paths, cycles, topological orders: the reference
 +- PathContract         what one search promises
 +- PathSearch           the search itself           -> implements PathContract
 |   +- PathSearchProofs
 +- PluginGraph          graph and cache, built on PathContract's promise
 |   +- TieBreak         add_tie_break_edges, pin_node_position
 |   |   +- TieBreakProofs
 |   +- PluginData (with GroupsGraph)
 |       +- GroupEdges   add_group_edges
 |       |   +- GroupEdgesProofs (with TieBreakProofs, for PluginGraph's lemmas)
 |       +- OverlapEdges add_overlap_edges
 |           PluginSort  = GroupEdges + OverlapEdges + TieBreak + validation
 |            +- MCSort, PluginSortProofs
 GroupsGraph +- GroupsPath       groups.rs find_path
 CycleSearch                     search.rs find_cycle
  +- CycleSearchProofs (with Reachability)
 MCSearches                      = PathSearch, CycleSearch, GroupsPath, TieBreak
```

**Reachability** defines a path and a cycle without recursion: b is reachable
from a if every set that holds a and is closed under the edges holds b; a graph
has a cycle if some non-empty set has, from each member, an edge to a member.
TLC evaluates these on small graphs and the provers can use them as they are.
The module also has the lemmas about them.

**PathSearch** has one action per part of the loop of `bidirectional_bfs`
(`PopFront`/`Exhausted`, `MeetForward`/`ExpandForward`,
`MeetReverse`/`ExpandReverse`) and of `PathFinder::path` (`WalkBack`, `WalkOn`).
`CheckCache` is the early return of `path_exists`. The order in which petgraph
yields neighbours is left open. The graph starts acyclic and the cache sound
with every edge in it, as it is whenever the code searches: `PluginSort` shows
both.

**PathContract** is the abstract view: while a call runs it may add to the cache
pairs (from, x) and (x, to) that are paths; when it returns, the answer is
exact. `PathSearch` implements it under a refinement mapping that hides
everything but the cache and the answer.

**PluginGraph** gives the effect of `add_edge`, `path_exists` and of the pattern
"not if cached, not if there is a path back" (`AddUnlessCycle`) on a graph
value. A search is one step and adds any set of up to `MaxLearnt` of the pairs
the contract allows, so that everything built on it holds for whichever entries
the real search leaves behind.

**GroupsGraph** builds the groups graph from the two lists (nodes in index
order, edges in insertion order, because the depth-first search depends on
both), and the order in which groups are searched: the one sequence that has
each name behind the smaller ones.

**GroupEdges** is `depth_first_search` with `GroupsPathVisitor`: `StartSearch`,
`TreeEdge`, `CrossEdge`, `FinishGroup`, and `TryGroupEdge` for one pair of
plugins. There is no action for a back edge: the groups graph has been checked
for cycles. **OverlapEdges** has one action per outcome of the inner loop's
body. **TieBreak** has one action per case of a window (`KeepOrder`,
`StartWithPath`, `PinPath`) and per case of `pin_node_position` (`SkipPinned`,
`PinNode`).

**PluginSort** composes them. `phase` and `part` are the position in
`sort_plugins` and `sort_plugins_partition`, `outcome` the kind of error. After
a successful sort `Resort` applies the result and sorts again, once.

**CycleSearch** is `find_cycle` with the trail of `CycleDetector`, on graphs
with loops, several edges between two nodes and two nodes of one name. An edge
is its place in the order of adding, so the edges of a node that are still to
be processed are a set, whose least is next.
**GroupsPath** is `find_path`: distances by Bellman-Ford over weights of
-1000000 and 1 rounded as `f32` rounds them, and the walk back.

Abstractions. A plugin or group name is its place in the lexicographical order
(case folding and `.ghost` are left out). The four lists of files to load after
are one set, because they differ in the type of edge only, and edge types are
only displayed. `masters()` and `do_records_overlap` may fail for chosen plugins
and pairs. Which cycle is reported is in `CycleSearch`; logging and messages are
left out. `topological_sort` may return any topological order. With no plugins
`sort_plugins` returns at once; the model assumes there is one. The sorting data
is collected before the model's first step: a failure there (an unknown plugin,
a condition that cannot be evaluated, `override_record_count`) returns an error
and changes nothing.

### Metadata

```
YamlScalars         strings, quoting, what a reader finds
 +- MetadataTypes   files, messages, tags, cleaning data, locations, groups
     +- PluginMetadata          a plugin's entry, merging, conditions
         +- MetadataRoundTrip   one piece of metadata, written and read
         +- MetadataDocument    one list: load, save, edit
             +- Database        both lists, files, queries
             +- CppMetadata     the wrappers' metadata objects
YamlAnchors, Prelude, MergeKeys, MessageFormat, MessageLanguage   alone
MCDatabase          = Database
MCFormats           = MetadataRoundTrip and the modules that stand alone, with
                      AssetPaths, PluginLoad and Description of the next section
```

**YamlScalars** keeps a string as a name and gives it a class (a word, something
a reader takes for a number, for a key, for a list, ...), because that is all
that quoting and reading depend on. **MetadataTypes** and **PluginMetadata**
translate `emit_yaml` and `try_from_yaml` of every type as functions between
values and nodes. **MetadataDocument** has the three collections of plugin
entries (`plugins`, `regex_plugins`, `ordered_plugin_names`) and every operation
on a list. **Database** has one action per public call, with a disk on which
writes fail part of the way and a restart that forgets both lists.
`UserlistRoundTrips` is about userlists that are `Plain`, and `SafeMetadataSurvives`
about `Safe` values: of what is neither they say nothing, and two runs that
expect a violation say it (section 3). A write that fails leaves a file that
cannot be loaded, because `std::fs::write` truncates first; nothing prevents that.

**YamlAnchors** writes items in order with the two passes of `save`: counting
and emitting. **Prelude** works on lines and columns: the replacement of the
prelude and the mapping of positions back. **MergeKeys**, **MessageFormat** and
**MessageLanguage** are pure algorithms checked against definitions of what they
should compute; the last has the C++ copy beside the Rust original.

### The handle, plugins and archives

**GameState** is `game.rs`. One action is a stretch of a call between two points
where another thread or program may intervene. Other threads read the database
(and so fill the condition cache), change its lists and panic; files are
replaced. What the libraries behind load order, conditions and plugin files do
is external and modelled from the calls made. What a failed call has changed
depends on the error, and `OutcomesAreTrue` says what for each: `load_plugins`
sets the archive paths once the plugins are validated and stores the plugins
before it takes the lock, so a `DatabaseLockPoisoned` leaves everything loaded;
`set_load_order` has its order in memory also if saving fails. For OpenMW a save
that succeeds keeps the order of the active plugins only (`Saved`). **PluginLoad** is `Plugin::new`
for two plugins at once: which archives belong to a plugin in each game, reading
them, and the walk that compares assets. **AssetPaths** reads the folder and
file records of BSAs, with the offsets into their buffers, and the names of BA2s. **Description** takes Bash Tags and
a version from a text of tokens; the regular expressions are matched by
definition, leftmost and greedy with backtracking. `MCGameState` instantiates
the handle, and `MCFormats` the three others.

### Logging and the wrappers

**Logging** has threads that run small programs of logging calls over the global
lock, callbacks that panic when they run or when they are dropped, the mutex of
the C++ sink and the interpreter of the Python sink. The C++ wrapper's callback
is a global function object that changes outside the lock. **ErrorMapping** follows an
error to the exception that is raised, through the text that C++ parses again.
**CppMetadata** lets one program edit a C++ object and another make the same
calls on its Rust twin, as Python and Node.js hold it.

**DatabaseHandle** is the wrapper of `Database` that threads share: taking the
lock, two steps that stand for work on several parts of the contents, errors,
panics (which C++ and Node.js programs do not survive and Python programs do),
and for Python who has the interpreter. The Node.js methods take the lock as the
C++ ones do, from one thread. That std's lock prefers waiting writers is left
out: it only takes choices away, and no method takes the lock twice.
**AtomicDatabase** is what callers are promised; `CallsAreAtomic` is the
refinement. `MCWrappers` has an instance of each of the four modules for C++ and
Python; a Node.js handle is a C++ handle with one thread.

## 3. Runs

Three of the twelve runs (`searches`, `formats`, `wrappers`) have several
subjects that share no state. Their MC modules instantiate one component for
each, and a variable `subject`, chosen in the initial state, says which of them
a behaviour is about; the variables of the others keep one value. So each
subject is explored exactly as it would be alone.

A property with others in brackets is their conjunction: the promise that a
caller would name, and the parts in which the modules state it.

| Run | Subject and instance | Properties |
|---|---|---|
| `searches` | plugins: every acyclic graph on 4 vertices, every sound cache that holds the edges, a query between two vertices and one from a vertex to itself (vertices are interchangeable) | `CacheSound`, `ImplementsContract` |
| | cycle: every list of up to 4 edges on 3 nodes, with and without a repeated name | `CyclesReported` (`CycleFoundIffCyclic`, `ReportedCycleCloses`, `TrailIsStack`) |
| | groups: acyclic graphs on 4 groups with edges of either list, five name orders | `PathIsBest` |
| | all three searches | `SearchesReturn` |
| | ties: tie-breaking alone on every acyclic graph of 5 plugins | `NewOrderBreaksTies` (`NewOrderIsPath`, `TiesBroken`), `KeepsGoodOrder` |
| `ties` | 4 plugins, every acyclic set of constraints up to renaming x all 24 load orders; up to 8 pairs learnt by a search | `CacheSound`, `StaysAcyclic`, `UniqueOrder`, `Idempotent`, `Terminates` |
| `sort` | 3 plugins of every kind, up to 2 dependencies, early loaders, unreadable masters; faulty groups; all acyclic graphs on 3 groups x all placings of the plugins x at most one constraint; all 543 acyclic graphs on 4 groups with one group empty; all override counts up to 2, all overlaps, assets, constraints, an unreadable pair | `DependenciesRespected`, `EarlyLoadersFirst`, `PartGroupsOrdered`, `PartOverlapsOrdered`, `Idempotent` |
| `overlap_documented` | 2 plugins | `OverlapDocumented` is violated |
| `cross_edges_ignored` | 2 plugins | `CrossEdgesIgnored` is violated |
| `database` | 4 calls and restarts over four paths: a masterlist, a list that is refused, an absent one, one without a directory; names in two cases, repeated regular expressions, cyclic and repeated groups | `CollectionsInStep`, `WrittenListsAreFaithful` (`UserlistRoundTrips`, `MinimalListIsFaithful`), `QueriesMergeLists` (`GroupsAgreeWithGraph`, `UserMetadataComesFirst`), `FailureChangesNoList`, `DiscardIsExact` (`DiscardRestoresMasterlist`, `DiscardIsSpecific`) |
| `written_userlist_loads` | two calls | `WrittenUserlistLoads` is violated |
| `written_userlist_is_whole` | one call and a save | `WrittenUserlistIsWhole` is violated |
| `game_state` | OpenMW and Starfield, 2 plugins of which one is the other's master and ghosted, 2 calls, a turn of another thread, a changed file | `EvaluatorInStep` (`LoadedPluginsKnown`, `ConditionsFresh`, `PathsAgree`), `MastersLoaded`, `SortInputsAreConsistent` (`SortSeesLoadedState`, `SortReadsOneVersion`), `OutcomesAreTrue` (`LoadOutcomes`, `OrderOutcomes`), `CallsReturn` |
| `formats` | metadata: every type with every kind of string and mixture of optional fields | `WrittenMetadataSurvives` (`SafeMetadataSurvives`, `ChangesAreKnown`) |
| | anchors: every document of up to 4 of 7 items, all options | `AnchorsAreSound` (`AliasesFollowAnchors`, `AnchorsAreUsed`, `NothingWrittenTwice`, `AnchorsAreCommon`) |
| | prelude: masterlists of up to 4 lines, preludes of up to 3, up to 3 columns | `ListsAreResolved` (`LocationsMapBack`, `ReplacementIsStable`) |
| | merge keys: nested, of one and of several mappings | `ListsAreResolved` (`NoMergeKeyLeft`, `OwnKeysWin`) |
| | message text: every text of up to 6 tokens, one or two substitutions | `MessagesAsMeant` (`FormatSubstitutes`) |
| | language: every message of up to 4 texts in 5 languages, every reader | `MessagesAsMeant` (`BestTextChosen`, `CppChoosesTheSame`) |
| | archive: both formats with whole, damaged and oddly spelled records, BSAs with a folder's offset anywhere from the file's start to past its end | `PluginsAreRead` (`StoresAssetPaths`, `OffsetsAreChecked`) |
| | plugins: two plugins, every rule of finding archives, ghosted, linked and unreadable files | `PluginsAreRead` (`OverlapIffSharedAsset`, `AssetsCountedOnce`) |
| | tags, version: short descriptions of tokens | `PluginsAreRead` (`TagsAsListed`; `VersionIsWhole`, `VersionWordPreferred`) |
| `written_metadata_is_whole` | one item, written and read | `WrittenMetadataIsWhole` is violated |
| `wrappers` | python handle: 3 threads, two on one object, 3 calls of a reader, a load and an edit, panics, messages; cpp handle: the same threads, 4 calls | `LockProtects`, `CallsAreAtomic`, `PoisonedRefused`, `OnlyLoggersBlock` |
| | rust, cpp and python log: a caller, a worker and a thread that changes the logger, panicking callbacks | `LoggerKeepsPromises` (`CallbackInForce` but for C++, `LevelInForce`, `ErrorsDelivered` but for Python) |
| | cpp and python errors: every kind of error, names made of the characters the formats use | `CausesSurvive` (with `PluginNotLoadedIsRaised`) |
| | twins: 4 edits, merges and stores of one object and its twin | `TwinsAgree` (with `StoredAsHeld`, `OrderAgreesWithEquality`) |
| | cpp handle; rust and cpp log | `WaitsEnd` |

### Bounds

Four vertices are the smallest graph in which the two frontiers can
meet, pass and run dry in all combinations, and in which a path can be pinned
into the middle of another; five plugins, in the subject `ties` of `searches`, let a pinned path of
length two fall between placed nodes. Four groups are the smallest graph with a
branch, a merge and a forward edge, which is what finished and unfinishable
groups are about. `MaxLearnt` bounds the pairs that one step of searching adds
to the cache. An acyclic graph on 4 plugins has at most 6 pairs joined by a path
and one on 3 has 3, so 8 in `ties` and 6 in `sort` is no restriction; in
`searches` it is 0, so that there what tie-breaking searches leaves the cache as
it is, to make room for a larger graph. The proofs have no bound.

In the database two entries that share a name ignoring case, two that share a
regular expression and one edit after each are what it takes for the collections
to part; four calls hold them all. A call of the handle has at most one turn of
another thread between two of its steps that matters, and a second call shows
what a failed first one left behind. OpenMW has a second data path and a load
order that is not saved whole, Starfield has ghosted plugins; a call's other
steps are the same in every game. Three threads are the least for two
readers and a writer, and four calls let one thread return to what the others
left. Texts and names are as long as the longest pattern that the code looks
for, and one token.

### Fairness

A search, a sort, `find_cycle` and `find_path` run on one thread and never wait,
so weak fairness of all their steps is justified (`MCSearches`, `PluginSort`). In `GameState`, and in `MCWrappers` for C++ threads that call a
database, a thread that is in a call goes on whenever it is not waiting for the
lock, and a thread that has the lock gets to its end: weak fairness of each
thread's own steps. The threads that log are the same, with callbacks that
return or panic. Nothing stronger is assumed, and nothing at all of Python
threads, which can wait for each other (see `OnlyLoggersBlock`, and Python's
`load_plugins` below). Deadlock checking is off where the system really stops:
every call has been made and every thread has ended.

Every property of a passing run has a mutant in `PROJECT.json`: a plausible slip
in one mapped definition that makes TLC report that property.

### Where the documentation and the code disagree

Five runs show it: TLC finds the documented property violated, and the findings
in `PROJECT.json` quote the text.

* `overlap_documented`: `docs/api/sorting.rst` says that each plugin that
  overrides records is compared with all others. `add_overlap_edges` compares a
  pair only from the one that is first by name, and skips it if it has neither
  overrides nor assets.
* `cross_edges_ignored`: edges from a non-master to a master are said to be
  ignored; `validate_plugin` and `validate_files` report them as a cycle.
* `written_userlist_loads`: entries with only a name give a `plugins` key
  without a value, which is refused when the file that was written is loaded.
* `written_userlist_is_whole`: `src/database/mod.rs` promises a file with "all
  loaded user-added metadata". `save` leaves the groups out if there is one
  only, also if it is a default group that the user has changed. Of two entries
  with one regular expression the first is written twice
  (`ordered_plugins_iter`), which violates the same property.
* `written_metadata_is_whole`: the same promise, about one item. A lone text
  that is not in English is English when read (`LoneForeign`). A tag to add
  whose name starts with "-" comes back as one to remove, and a Bash Tag, a
  tag's name or a group's `after` name that YAML takes for a number or a key
  makes a file that cannot be loaded (`YamlScalars!write_unquoted_str`); these
  violate it too.

The other disagreements that the models have are behaviours of the definitions
named here. The properties of the passing runs are stated so that they leave
exactly these cases out, and no run is about them.

Written and read metadata
* A language that YAML takes for a number or a key makes a file that cannot be
  loaded; languages are words here.
* Regular expressions are merged after the plugin's own entry wherever they are
  listed (`find_plugin`; `docs/metadata/file_structure.rst` says in listed
  order), and `merge_metadata` does not replace a group although its comment
  says so.
* `src/metadata/error.rs` takes 2 from the column of a position in a prelude. On
  a blank line, which is not indented, the column is 0 and the subtraction
  overflows: a build with overflow checks panics, and one without reports a
  column near 2^64. `Prelude!adjust_location` has both outcomes (with
  `UsizeValues` for 2^64), and `LocationsMapBack` is about all other positions.
* The last English text is used and not the first (`MessageLanguage!Look`;
  `docs/metadata/data_structures/message.rst` says the first).

Searches, plugins and archives
* From 17 user edges on, `f32` no longer tells one masterlist edge from two
  (`GroupsPath!f32`); the graphs of `searches` are shorter.
* A file in the root of a BA2 loses the last byte of its name
  (`AssetPaths`); `StoresAssetPaths` speaks of files in folders.
* A BSA whose folder has an offset below the folder records panics in a build
  with overflow checks; without them the offset wraps round to one past the
  buffer, and is an error (`AssetPaths!name_offsets`). `OffsetsAreChecked`
  allows a panic for such an offset only.
* `1.11,` is taken for version `1.1`, although a comment in `src/plugin/mod.rs`
  says that a version in front of a comma does not match (`Description`).

Wrappers
* `SetLoggingCallback` of C++ assigns a `std::function` without a lock, before
  the logger is told, so that another thread may be in it. `Logging` has the
  assignment as two steps (`AssignStoredCallback`, `StoredCallbackAssigned`) and
  notes a race when the function is called or assigned between them or a call
  of it is under way; from then on the process goes on or ends (`Crash`).
  `LoggerKeepsPromises` and `WaitsEnd` say nothing of a behaviour after a race,
  and `CallbackInForce` is not claimed for C++ at all.
* A level that is set before the first callback has an effect after all
  (`Logging!set_log_level`).
* Python's `load_plugins` waits for its workers attached to the interpreter,
  which a worker needs to log: the subject `python log` has that wait, which is
  why `WaitsEnd` leaves it out.
* Python raises `ValueError` for a master that is not loaded
  (`ErrorMapping!VerboseErrorPython`); `PluginNotLoadedIsRaised` is about C++.
* An explicit empty group comes back to C++ as none (`CppMetadata!ToCpp`); no
  instance has an empty group.

## 4. Proofs

Checked by TLAPS for every value of the constants.

**Reachability** has the graph lemmas: reachability is reflexive and
transitive, an added edge extends it in the only way it can, and an added edge
a -> b keeps a graph acyclic if there is no path from b to a. `RunsEndAlike`
is about runs of determined steps. **TieBreakProofs** begins with what
`add_edge`, `LearnFrom` and `AddUnlessCycle` preserve, which follows from them.

**PathSearchProofs.** `AnswersAreCorrect`, `SearchKeepsCacheSound`,
`PathsAreValid` and `SearchImplementsContract`. The properties are not inductive
by themselves. The invariant `IInv` adds what each side has established:
everything visited forwards is reachable from the start and everything visited
in reverse reaches the end; every visited vertex is queued, being expanded, or
has had all its neighbours visited; and every visited vertex but the start (the
end) has a visited parent (child) that an edge joins it to, so the walk that
rebuilds the path finds no hole. The hard case is a search that fails: if the
forward queue is empty, the visited set is closed under the edges, so by the
definition of `Reach` it holds everything reachable and the end is not in it;
the reverse side is symmetric.

**CycleSearchProofs.** `CyclesAreReported`: find_cycle returns a cycle exactly
when there is one, and what it returns closes, for any number of nodes and any
edges. `TrailIsStack` is needed for the second half: the trail follows the
stack, and a back edge's target is grey and so on the stack, so its name is
found on the trail, maybe at an earlier node of the same name, and the walk
closes from there by name. The nodes of the stack from the target on are the
cycle. For the first half a finished node has to be on no cycle. What is grey
is on the stack, each node once (`GreyOnStack`); an edge that has been processed
led to a black node or to the next one of the stack (`ProcessedEdges`); and no
edge leaves the black nodes and no cycle is among them (`Settled`). That last
one is not inductive, because find_cycle starts a search from every node, also
from black ones, and marks them grey again. While one of those is looked at it
is alone on the stack, and the black nodes are settled together with it
(`BlackSettled`); its edges lead to black nodes only, so it is finished at once.
The theorem's assumptions are that `NodeCount` is a number and that every graph
is a sequence of edges between its nodes.

**PluginSortProofs.** `TypesHold`, `CacheStaysSound` and `NoCycleAfterCheck`,
from one invariant `IInv`: types, the work lists of each phase hold plugins of
the graph only, the cache is sound, and from the first check on the graph is
acyclic. Acyclicity needs the sound cache (a cached pair both stops an edge and
answers a search), and the cache's soundness needs that edges are never removed.
Group and overlap edges follow from `AddUnlessCycle`. For `pin_node_position`
the argument is that the edge in front is added after a search has found no path
back, and that the edge behind runs along a path that is already there (every
node from the insert position on is reachable from the pinned one), so it can
close no cycle; no property of the order of `new_load_order` is needed.

The second part proves what the order is like: `OverlapsGetOrdered`,
`OneOrderIsLeft`, `DependenciesAreRespected` and `EarlyLoadersAreFirst`, from
`OrderInv`. It says, phase by phase, what the graph already holds: the nodes
are those of the part in hand, the validation has found nothing wrong in any part, the edges of the specific and early-loader phases
(`HardPairs`) are in the graph from then on, each pair that the overlap loop
has passed is ordered one way or the other, tie-breaking is in a state that
`TieInv` allows, and a part that is done is a topological order of its hard
edges. Two facts that no single phase shows make the theorems hold for the
whole load order: a dependency between two parts is in the order that the parts
are put together or the validation refuses it, and an early loader that is
not a blueprint master is in the first part that has plugins, or the validation
refuses it. Position in the whole
order follows from `Result` being the three parts one after the other.

The third part, `GroupsGetOrdered`, takes `GroupInv` (next) through the phases:
it holds from the first group search of a part on, because what it says of the
plugin graph is that there are paths, and later phases only add edges.

The fourth part, `SortingIsIdempotent`, compares two sorts although a behaviour
goes through them one after the other. The current load order is used in one
place only, `add_tie_break_edges`, but what a search has cached decides which
edges are added before that, and so which of several graphs there is. Three
facts bridge it.

* *The paths are determined.* A state of the group and overlap phases with the
  plugin graph replaced by its set of paths is a configuration, and a step is a
  turn of it (`GroupStepTurns`, `OverlapStepTurns`). Whatever the cache holds, a
  pair that is tried is joined in one direction afterwards, the one it was
  joined in before if there was one (`AddedPaths`), so a turn is determined by
  the configuration (`TurnDetermined`). The group searches start in one order
  only (`OneGroupOrder`). Two runs of determined turns from one start end alike
  (`RunsEndAlike`), so that the paths that a part's plugins come to before
  tie-breaking, `Settles`, are a function of the input (`SettlesOnce`).
* *The first result agrees with them.* The order of a part that is done is a
  topological order of those paths (`GoodFor`).
* *Tie-breaking keeps it.* In the second sort no path contradicts the load order
  (`InOrder`), so tie-breaking leaves it (`GoodOrderStays`, from
  `GoodOrderTaken`), and since it leaves one order only, the result is that one.

`ReplayInv` carries this through the phases: the phases before the sorting
refuse nothing that they let pass the first time (`InputFine`, `CheckPassed`),
the group and overlap phases are on a run from the part's start (`OnItsRun`),
the paths it came to are still there while tie-break edges are added
(`PathsSettled`), each part that is done has a good order (`PartsGood`), and in a
second sort the parts that are done have their old orders (`SecondSort`).

The proof found the one exception that `Idempotent` makes. A pair of plugins
whose records cannot be read stops the sort when the overlap loop gets to it,
but not if an edge joins the two; and if a path of several edges was in the
cache when such an edge was to be added, it was not. The model leaves open what
searches cache, so there is a sort that succeeds and a second one that stops,
with four plugins. In the code, whose searches do the same in both sorts, it
takes records that can be read at one time and not at another.

**GroupEdgesProofs.** The invariant `GroupInv` of one `add_group_edges`, for any
acyclic groups graph. Searches share work, which is what makes the result hard
to see: a group from which all was ordered is *finished*, and later searches
neither add its edges nor hand its plugins on. What the searches promise is
said of each group on the current path that the visitor may still finish (a
*watched* group: not finished or ignored, and not *unfinishable* unless the
search started there). `WatchedSettled`: the plugins of a watched group are
ordered with those of every group behind the edges that have been searched to
their end, from its place on the path to the path's end, and with the groups on
the path after it. An edge to a group that this search has been through already
does not hand on the plugins of the path, so everything on the path becomes
unfinishable. For the start this is only cautious: `BlackSettled` says that the
start was ordered with everything behind such a group when the search first came
through.
`FinishedDone` turns that into a fact about whole groups when a group is
finished, and `SearchesCover` says that each plugin's group is done, still to
be searched from, or being searched from now, so that at the end all are done.
`DefaultLast` is needed because the default group is ignored in all searches
but the last, and that one starts there. The walk along a path of groups that
such an argument seems to need is in `GroupReach`'s definition by closed sets:
the groups with which a group is settled are closed under the edges. The last
section gives the configurations and turns of the second-sort argument.

**TieBreakProofs.** `TiesGetBroken` and `GoodOrdersAreKept`, about tie-breaking
alone (`TieSpec`) and, through the same step lemma, for `PluginSort`. `TieInv`
says that each plugin of `new_load_order` has a path to the next at every step
(`NewOrderIsPath`); that every plugin whose window is past is in it
(`PastPlaced`); that a window's first plugin, if it has no place yet, can be
reached from the last of them (`CurrentFits`); that the plugins still to be
pinned are ordered among themselves, behind the one pinned last and before the
window's first (`PinsFit`); and that while no edge contradicts the load order
nothing is pinned (`GoodOrderTaken`). The hard step is `pin_node_position`. The
node goes behind the last plugin that it has no path to, to which an edge from
that plugin can therefore be added, and every plugin after it is reachable from
it. If there is no such plugin from `range_start` on, no edge is added in
front: it is `PinsFit` that says the plugin before has a path to the node.
Inserting there keeps the sequence ordered, for every length, and the cached
pairs that a search leaves behind may be any that the contract allows. Once all
nodes are in such a sequence every two are ordered, which leaves one
topological order: `UniqueOrder`.

Assumptions of the sorting proofs: `Plugins` is a finite, non-empty set of
numbers, the group names are too and include the default group, and inputs are
well formed. `MaxLearnt` may be any number, so the search's contract is used in
full.

**GameStateProofs.** `EvaluatorStaysInStep`, `MastersStayLoaded`,
`SortInputsStayConsistent` and `OutcomesStayTrue`, for any plugins, requests,
files, conditions and other threads. The properties speak of the time between
two calls, which a step inside a call says nothing about, so the invariant
`Inv` says what holds at each of the points where a call can be interrupted:
the active plugins differ from the evaluator's only between the two halves of
`load_current_load_order_state` (`ActiveInStep`), and the loaded plugins and
the results only between the two halves of `store_plugins` (`PluginsTold`,
`ResultsAgree`); what a load has stored so far, and what it had before
(`StoredSoFar`); that the order to be saved is in memory (`OrderHeld`); and that
a sort has read one version of the lists (`SortOfLoaded`). `ResultsAgree` has to
cover the answers that a reader has computed and not yet cached: such a thread
is a reader of the lock (`LockExcludes`), so no call tells the evaluator
anything, or clears the cache, until the answer is in it. That is what keeps a
late answer from being stored over a cleared cache. `OutcomesStayTrue` is an
action property: each call's last step has the outcome that its result stands
for, by `StoredSoFar` and `OrderHeld` of the state before; what is on disk
afterwards is what `Saved` keeps of the order (`WhatIsSaved`). Assumed of the constants:
requests are sequences of paths of plugins, a condition is of one of the four
kinds, and what is on disk at first is well formed.

**DatabaseHandleProofs.** `LockProtectsAlways`, `HandleIsAtomic`,
`PoisonedAlwaysRefused` and `OnlyLoggersEverBlock`, for any number of threads,
objects and calls and for all three languages. The invariant `LockProtects` says that a writer is the only
holder of the lock, that a poisoned lock has no holder, that the two parts of
the contents agree unless a writer is halfway or the lock is poisoned, that they
then differ by that writer's change, and that a reader halfway has read the part
that is still there. Each part is needed for the refinement: a reader's second
step maps to an abstract read only if both parts are what it saw at first, and a
writer's to an abstract write only if it changes the version by one. A panic
halfway maps to a refusal because the abstract version is the part that is
written last. `OnlyLoggersBlock` needs `InterpreterInv`
besides: of the Python threads in a method, all but the one that has the
interpreter are suspended in Python's logging. Nothing is assumed of the
constants beyond what the module states.

Each of these invariants was an invariant of a TLC run before it was proved,
`ReplayInv` without `Settles`, which quantifies over all runs from a start.

Only model-checked:

* every liveness property, which is out of the prover's reach;
* `PathIsBest`, which compares sums of weights along whole paths, an induction
  over data, and does not hold for every graph (section 3);
* the properties of `Database` and of the `formats` run: they are about folds
  over lists, recursive parsers and writers, which are inductions over data;
* `LoggerKeepsPromises`, `CausesSurvive` and `TwinsAgree`, which are stated of
  instances that share one run.

## 5. Not modelled, and the plan

Not modelled: the layout of YAML text (indentation, line breaks), the YAML
reader beyond the classes of scalars, the libraries that read plugins, keep the
load order and evaluate conditions (external, by the way they are used), the
wrappers' other methods that only pass a call on, `version.rs`, and test support. A
logging callback that itself logs, or sets the level or the callback, is not
modelled either: the lock is held while it runs, and nothing promises that such
a call returns. In `CppMetadata` names end in at most
one `.ghost` and languages are not empty: the conversions trim a second `.ghost`
again, and give an empty language its default only on the way to Rust.

Further work, in order:

1. Proofs about lists: a failed call changes no list (`FailureChangesNoList`),
   `CollectionsInStep`, and `AliasesFollowAnchors` for every document.
2. `Logging`: `CallbackInForce` for any number of threads.
3. The refinement of one `add_group_edges` by its promise, that the plugins of
   ordered groups are ordered and nothing but such pairs is added.
