----------------------------- MODULE PluginSort -----------------------------
(***************************************************************************)
(* A whole sort: Game::sort_plugins from the groups graph on, sort_plugins *)
(* and sort_plugins_partition of sorting/plugins.rs with the checks of     *)
(* sorting/validate.rs.  Masters, blueprint masters and other plugins are  *)
(* sorted one after the other, each in a graph of its own; the result is   *)
(* masters, others, blueprint masters.                                     *)
(*                                                                         *)
(* After a successful sort the result may be applied and sorted again,     *)
(* with the same metadata and the result as the current load order.        *)
(***************************************************************************)
EXTENDS GroupEdges, OverlapEdges, TieBreak

CONSTANT Inputs     \* what a caller may sort: see IsInput

\* The hardcoded plugins, first to last, and the groups of both lists.
IsMetadata(m) ==
    /\ m.early \in Seq(Plugins)
    /\ \A i, j \in 1..Len(m.early) : i # j => m.early[i] # m.early[j]
    /\ IsGroupList(m.masterlist_groups)
    /\ IsGroupList(m.user_groups)

IsInput(i) ==
    /\ i.data \in PluginDataType
    /\ i.order \in SetToSeqs(Plugins)      \* the current load order
    /\ IsMetadata(i.metadata)

\* With no plugins at all sort_plugins returns at once.
ASSUME PluginsGiven == Plugins # {}
ASSUME InputsAssumption == \A i \in Inputs : IsInput(i)

VARIABLES
    input,          \* early loaders and groups: fixed during a sort
    order,          \* the current load order
    part,           \* the partition being sorted
    phase,
    sorted,         \* the load order of each partition sorted so far
    outcome,        \* "none" while running, then "ok" or the kind of error
    previous        \* <<>>, or the result that was applied before this sort

sortVars == <<input, order, part, phase, sorted, outcome, previous>>
vars == <<graph, nodes, data, groupVars, overlap_pairs, tieVars, sortVars>>

Parts == {"masters", "blueprints", "others"}

PartOf(V) ==
    [masters    |-> {p \in V : p \in data.is_master /\ ~is_blueprint_master(p)},
     blueprints |-> {p \in V : is_blueprint_master(p)},
     others     |-> {p \in V : p \notin data.is_master}]

\* The partitions are sorted in this order.
PartAfter == [masters |-> "blueprints", blueprints |-> "others", others |-> "end"]

\* p comes before q in the sequence s.
Before(s, p, q) == \E i, j \in 1..Len(s) : i < j /\ s[i] = p /\ s[j] = q

Result == sorted.masters \o sorted.others \o sorted.blueprints

\* The values of a finished or not yet started search, used as a reset.
IdleGroups ==
    /\ groups_graph = [nodes |-> <<>>, succ |-> [g \in GroupNames |-> <<>>]]
    /\ starts = <<>> /\ ignored = NoGroup /\ stack = <<>> /\ colour = White
    /\ edge_stack = <<>> /\ candidates = {} /\ finished = {}
    /\ unfinishable = {}

IdleTies ==
    /\ load_order = <<>> /\ window = 1 /\ new_load_order = <<>>
    /\ to_pin = <<>> /\ range_start = 0 /\ tie_pc = "done"

Init ==
    /\ \E i \in Inputs :
          data = i.data /\ order = i.order /\ input = i.metadata
    /\ graph = EmptyGraph
    /\ nodes = {}
    /\ IdleGroups
    /\ overlap_pairs = {}
    /\ IdleTies
    /\ part = "masters"
    /\ phase = "build_groups"
    /\ sorted = [q \in Parts |-> <<>>]
    /\ outcome = "none"
    /\ previous = <<>>

Fail(kind) ==
    /\ outcome' = kind
    /\ phase' = "end"

-----------------------------------------------------------------------------
\* build_groups_graph, then validate_plugin_groups.  The groups graph is kept
\* in the input's place until a partition needs it.

GroupsGraphOfInput ==
    BuiltGroupsGraph(input.masterlist_groups, input.user_groups)

GroupsCyclic ==
    ~Acyclic(GroupNames, GroupPairs(input.masterlist_groups, input.user_groups))

GroupsUndefined ==
    UndefinedGroups(input.masterlist_groups, input.user_groups) # {}

PluginGroupUndefined ==
    \E p \in Plugins : group(p) \notin ToSet(GroupsGraphOfInput.nodes)

BuildGroups ==
    /\ phase = "build_groups"
    /\ \/ GroupsUndefined /\ Fail("undefined_group")
       \/ ~GroupsUndefined /\ GroupsCyclic /\ Fail("cyclic_groups")
       \/ /\ ~GroupsUndefined /\ ~GroupsCyclic
          /\ PluginGroupUndefined
          /\ Fail("undefined_group")
       \/ /\ ~GroupsUndefined /\ ~GroupsCyclic /\ ~PluginGroupUndefined
          /\ phase' = "validate"
          /\ UNCHANGED outcome
    /\ UNCHANGED <<graph, nodes, data, groupVars, overlap_pairs, tieVars,
                   input, order, part, sorted, previous>>

\* validate_specific_and_hardcoded_edges.  A blueprint master among a plugin's
\* masters is only logged, among its files it is an error.
Misplaced(p) ==
    LET parts == PartOf(Plugins) IN
    \/ /\ p \in parts.masters
       /\ (data.masters[p] \cup data.files_after[p]) \cap parts.others # {}
    \/ data.files_after[p] \cap parts.blueprints # {}

EarlyMisplaced ==
    LET parts == PartOf(Plugins) IN
    parts.masters # {} /\ ToSet(input.early) \cap parts.others # {}

\* The plugins that validate_plugin fails on: it is run on the masters and then
\* on the other plugins, each in the order of their names.
Rejected ==
    LET parts == PartOf(Plugins) IN
    {p \in parts.masters \cup parts.others :
        p \in data.masters_unreadable \/ Misplaced(p)}

ValidatedBefore(p, q) ==
    \/ p \in data.is_master /\ q \notin data.is_master
    \/ p < q /\ (p \in data.is_master <=> q \in data.is_master)

\* Validation stops at the first of the plugins it fails on.
FailAtFirst(bad) ==
    \E p \in bad :
        /\ \A q \in bad \ {p} : ValidatedBefore(p, q)
        /\ Fail(IF p \in data.masters_unreadable THEN "plugin_data" ELSE "cycle")

StartPart(q) ==
    /\ part' = q
    /\ nodes' = PartOf(Plugins)[q]
    /\ graph' = EmptyGraph
    /\ phase' = "specific"

\* Validation as it would be if the files of non-masters were not looked at.
ValidateMastersOnly ==
    /\ phase = "validate"
    /\ LET bad == Rejected \cap data.is_master IN
       \/ /\ FailAtFirst(bad)
          /\ UNCHANGED <<part, nodes, graph>>
       \/ /\ bad = {}
          /\ EarlyMisplaced
          /\ Fail("cycle")
          /\ UNCHANGED <<part, nodes, graph>>
       \/ /\ bad = {}
          /\ ~EarlyMisplaced
          /\ StartPart("masters")
          /\ UNCHANGED outcome
    /\ UNCHANGED <<data, groupVars, overlap_pairs, tieVars, input, order,
                   sorted, previous>>

Validate ==
    /\ phase = "validate"
    /\ \/ /\ FailAtFirst(Rejected)
          /\ UNCHANGED <<part, nodes, graph>>
       \/ /\ Rejected = {}
          /\ EarlyMisplaced
          /\ Fail("cycle")
          /\ UNCHANGED <<part, nodes, graph>>
       \/ /\ Rejected = {}
          /\ ~EarlyMisplaced
          /\ StartPart("masters")
          /\ UNCHANGED outcome
    /\ UNCHANGED <<data, groupVars, overlap_pairs, tieVars, input, order,
                   sorted, previous>>

-----------------------------------------------------------------------------
\* sort_plugins_partition.

\* The edges of add_specific_edges.  Those for master flags never occur,
\* because a graph holds either masters or other plugins.
SpecificPairs(V) ==
    {e \in V \X V : \/ e[1] \in data.masters[e[2]] \cup data.files_after[e[2]]
                    \/ e[1] \in data.is_master /\ e[2] \notin data.is_master}

add_specific_edges ==
    /\ phase = "specific"
    /\ IF nodes \cap data.masters_unreadable # {}
       THEN Fail("plugin_data") /\ UNCHANGED graph
       ELSE /\ graph' = AddEdges(graph, SpecificPairs(nodes))
            /\ phase' = "early"
            /\ UNCHANGED outcome
    /\ UNCHANGED <<nodes, data, groupVars, overlap_pairs, tieVars, input, order,
                   part, sorted, previous>>

\* p and q are early loaders of the graph with no other between them.
NextEarly(V, p, q) ==
    \E i, j \in 1..Len(input.early) :
        /\ i < j /\ input.early[i] = p /\ input.early[j] = q
        /\ \A k \in (i + 1)..(j - 1) : input.early[k] \notin V

\* p is the last early loader of the graph.
LastEarly(V, p) ==
    \E i \in 1..Len(input.early) :
        /\ input.early[i] = p
        /\ \A k \in (i + 1)..Len(input.early) : input.early[k] \notin V

\* The early loaders chained to each other only.
EarlyPairsChainOnly(V) == {e \in V \X V : NextEarly(V, e[1], e[2])}

\* The early loaders of the graph in their hardcoded order, and the last of
\* them before everything else.
EarlyPairs(V) ==
    {e \in V \X V : \/ NextEarly(V, e[1], e[2])
                    \/ LastEarly(V, e[1]) /\ e[2] \notin ToSet(input.early)}

add_early_loading_plugin_edges ==
    /\ phase = "early"
    /\ graph' = AddEdges(graph, EarlyPairs(nodes))
    /\ phase' = "first_check"
    /\ UNCHANGED <<nodes, data, groupVars, overlap_pairs, tieVars, input, order,
                   part, sorted, outcome, previous>>

\* check_for_cycles, then get_default_group_node.
FirstCheck ==
    /\ phase = "first_check"
    /\ \/ /\ ~AcyclicFor(graph)
          /\ Fail("cycle")
          /\ UNCHANGED groupVars
       \/ /\ AcyclicFor(graph)
          /\ DefaultGroup \notin ToSet(GroupsGraphOfInput.nodes)
          /\ Fail("undefined_group")
          /\ UNCHANGED groupVars
       \/ /\ AcyclicFor(graph)
          /\ DefaultGroup \in ToSet(GroupsGraphOfInput.nodes)
          /\ GroupsAtStart(GroupsGraphOfInput)
          /\ phase' = "groups"
          /\ UNCHANGED outcome
    /\ UNCHANGED <<graph, nodes, data, overlap_pairs, tieVars, input, order,
                   part, sorted, previous>>

add_group_edges ==
    /\ phase = "groups"
    /\ GroupStep
    /\ UNCHANGED <<nodes, data, overlap_pairs, tieVars, sortVars>>

GroupsFinished ==
    /\ phase = "groups"
    /\ GroupsDone
    /\ overlap_pairs' = LoopPairs(nodes)
    /\ phase' = "overlap"
    /\ UNCHANGED <<graph, nodes, data, groupVars, tieVars, input, order, part,
                   sorted, outcome, previous>>

add_overlap_edges ==
    /\ phase = "overlap"
    /\ OverlapStep
    /\ UNCHANGED <<nodes, data, groupVars, tieVars, sortVars>>

OverlapError ==
    /\ phase = "overlap"
    /\ OverlapFails
    /\ Fail("plugin_data")
    /\ UNCHANGED <<graph, nodes, data, groupVars, overlap_pairs, tieVars, input,
                   order, part, sorted, previous>>

\* The nodes sorted by load_order_index: exactly one sequence.
SortedByIndex(V) ==
    {s \in SetToSeqs(V) :
        \A i, j \in 1..Cardinality(V) : i < j => Before(order, s[i], s[j])}

\* The nodes sorted by load_order_index the wrong way round.
OverlapsFinishedReversed ==
    /\ phase = "overlap"
    /\ overlap_pairs = {}
    /\ \E s \in SortedByIndex(nodes) : load_order' = Reverse(s)
    /\ window' = 1
    /\ new_load_order' = <<>>
    /\ to_pin' = <<>>
    /\ range_start' = 0
    /\ tie_pc' = "window"
    /\ phase' = "ties"
    /\ UNCHANGED <<graph, nodes, data, groupVars, overlap_pairs, input, order,
                   part, sorted, outcome, previous>>

OverlapsFinished ==
    /\ phase = "overlap"
    /\ overlap_pairs = {}
    /\ load_order' \in SortedByIndex(nodes)
    /\ window' = 1
    /\ new_load_order' = <<>>
    /\ to_pin' = <<>>
    /\ range_start' = 0
    /\ tie_pc' = "window"
    /\ phase' = "ties"
    /\ UNCHANGED <<graph, nodes, data, groupVars, overlap_pairs, input, order,
                   part, sorted, outcome, previous>>

add_tie_break_edges ==
    /\ phase = "ties"
    /\ TieStep
    /\ UNCHANGED <<nodes, data, groupVars, overlap_pairs, sortVars>>

\* The second check_for_cycles.
SecondCheck ==
    /\ phase = "ties"
    /\ tie_pc = "done"
    /\ IF AcyclicFor(graph)
       THEN phase' = "topological_sort" /\ UNCHANGED outcome
       ELSE Fail("cycle")
    /\ UNCHANGED <<graph, nodes, data, groupVars, overlap_pairs, tieVars, input,
                   order, part, sorted, previous>>

\* petgraph's toposort returns some topological order.
topological_sort ==
    /\ phase = "topological_sort"
    /\ \E s \in TopologicalOrders(nodes, graph.edges, Cardinality(nodes)) :
          sorted' = [sorted EXCEPT ![part] = s]
    /\ IF part = "others"
       THEN /\ outcome' = "ok"
            /\ phase' = "end"
            /\ UNCHANGED <<part, nodes, graph>>
       ELSE StartPart(PartAfter[part]) /\ UNCHANGED outcome
    /\ UNCHANGED <<data, groupVars, overlap_pairs, tieVars, input, order,
                   previous>>

\* The caller applies the result and sorts again.
Resort ==
    /\ phase = "end"
    /\ outcome = "ok"
    /\ previous = <<>>
    /\ previous' = Result
    /\ order' = Result
    /\ part' = "masters"
    /\ phase' = "build_groups"
    /\ sorted' = [q \in Parts |-> <<>>]
    /\ outcome' = "none"
    /\ UNCHANGED <<graph, nodes, data, groupVars, overlap_pairs, tieVars, input>>

Next ==
    \/ BuildGroups \/ Validate
    \/ add_specific_edges \/ add_early_loading_plugin_edges \/ FirstCheck
    \/ add_group_edges \/ GroupsFinished
    \/ add_overlap_edges \/ OverlapError \/ OverlapsFinished
    \/ add_tie_break_edges
    \/ SecondCheck \/ topological_sort
    \/ Resort

Spec == Init /\ [][Next]_vars

\* A sort runs on one thread and never blocks.
FairSpec == Spec /\ WF_vars(Next)

-----------------------------------------------------------------------------
Phases == {"build_groups", "validate", "specific", "early", "first_check",
           "groups", "overlap", "ties", "topological_sort", "end"}

CheckedPhases == {"groups", "overlap", "ties", "topological_sort"}

Outcomes == {"none", "ok", "cycle", "cyclic_groups", "undefined_group",
             "plugin_data"}

TypeOK ==
    /\ data \in PluginDataType
    /\ IsMetadata(input)
    /\ order \in Seq(Plugins)
    /\ nodes \in SUBSET Plugins
    /\ graph \in Graphs
    /\ graph.edges \in SUBSET (nodes \X nodes)
    /\ candidates \in SUBSET (Nat \X Plugins \X Plugins)
    /\ overlap_pairs \in SUBSET Pairs
    /\ load_order \in Seq(Plugins)
    /\ new_load_order \in Seq(Plugins)
    /\ to_pin \in Seq(Plugins)
    /\ range_start \in 0..Len(new_load_order)
    /\ part \in Parts
    /\ phase \in Phases
    /\ outcome \in Outcomes
    /\ sorted \in [Parts -> Seq(Plugins)]
    /\ previous \in Seq(Plugins)

\* A pair in paths_cache is a path of the graph, in every phase.  add_edge
\* drops an edge whose pair is cached, so an unsound entry (one left from a
\* search that walked the wrong way, say) silently loses a constraint.
CacheSound == CacheSoundFor(graph)

\* After the first check_for_cycles no step closes a cycle, although group and
\* overlap edges are added after a search in one direction only and tie-break
\* edges are added by position alone: the second check_for_cycles and the
\* error of topological_sort are never reached.
StaysAcyclic == phase \in CheckedPhases => AcyclicFor(graph)

\* When the tie-break edges are in, the plugin graph has only one topological
\* order: check_path_is_hamiltonian never has anything to log.
UniqueOrder ==
    phase = "topological_sort" =>
        \A s \in TopologicalOrders(nodes, graph.edges, Cardinality(nodes)) :
            \A i \in 1..(Len(s) - 1) : <<s[i], s[i + 1]>> \in graph.edges

\* A successful sort has every plugin once, after all its masters and all the
\* files it loads after, across the three graphs too.  The one exception is a
\* blueprint master of a plugin that is not one, which the game ignores.
DependenciesRespected ==
    outcome = "ok" =>
        /\ Len(Result) = Cardinality(Plugins)
        /\ \A p \in Plugins, q \in Plugins :
              \/ Before(Result, p, q)
              \/ /\ p \notin data.files_after[q]
                 /\ p \notin data.masters[q] \/ ( /\ is_blueprint_master(p)
                                                  /\ ~is_blueprint_master(q))

\* A successful sort puts the hardcoded plugins first and in their order,
\* unless they are blueprint masters, whatever partition they are in.
EarlyLoadersFirst ==
    outcome = "ok" =>
        \A i \in 1..Len(input.early), q \in Plugins :
            LET p == input.early[i] IN
            \/ is_blueprint_master(p)
            \/ q \in {input.early[j] : j \in 1..i}
            \/ Before(Result, p, q)

\* Plugins whose groups are ordered are ordered when the group edges are in.
PartGroupsOrdered == phase = "overlap" => GroupsOrdered

\* Two plugins that the overlap loops compared are ordered when the loops end:
\* the edge was added, or it was skipped for a path the other way.
PartOverlapsOrdered ==
    phase = "ties" =>
        \A p, q \in nodes :
            ( /\ p < q
              /\ ~Skipped(p)
              /\ RecordsDecide(p, q) \/ AssetsDecide(p, q) ) =>
                HasPath(graph, p, q) \/ HasPath(graph, q, p)

\* What the documentation of the overlap edges says: for each plugin that
\* overrides records all other plugins are looked at, and an edge goes from
\* the one of two overlapping plugins that overrides more, unless it would
\* close a cycle.
OverlapDocumented ==
    phase = "ties" =>
        \A p, q \in nodes :
            ( /\ p # q
              /\ data.override_count[p] > 0
              /\ RecordsDecide(p, q) ) =>
                HasPath(graph, p, q) \/ HasPath(graph, q, p)

\* What the comment on the three graphs in sort_plugins says: an edge from one
\* partition to another is ignored, so a cyclic interaction is only ever
\* reported for the plugins of one partition.
CrossEdgesIgnored ==
    outcome = "cycle" =>
        \E q \in Parts :
            LET V == PartOf(Plugins)[q] IN
            ~Acyclic(Plugins, SpecificPairs(V) \cup EarlyPairs(V))

\* Applying a sort's result and sorting again gives the same result, as the
\* comment on the sort by name in sort_plugins wants it.  The one thing that
\* may stop a second sort is a pair of plugins whose records cannot be read: it
\* is passed over where an edge joins the two, and whether one does depends on
\* what the searches before it have cached, which the model leaves open.
Idempotent ==
    previous # <<>> =>
        /\ \/ outcome \in {"none", "ok"}
           \/ outcome = "plugin_data" /\ \E p, q \in Plugins : RecordsFail(p, q)
        /\ outcome = "ok" => Result = previous

\* Every sort comes to its end.
Terminates == <>[](phase = "end")
=============================================================================
