----------------------------- MODULE GroupEdges -----------------------------
(***************************************************************************)
(* add_group_edges of sorting/plugins.rs: a depth-first search of the      *)
(* groups graph from every group, with GroupsPathVisitor adding an edge    *)
(* from every plugin of the groups on the current path to every plugin of  *)
(* the group reached, unless that would close a cycle.                     *)
(***************************************************************************)
EXTENDS PluginData

VARIABLES
    groups_graph,
    starts,          \* the start groups of the searches to come
    ignored,         \* group_node_to_ignore_as_source
    stack,           \* depth_first_search's stack of (group, next edge)
    colour,          \* depth_first_search's colour_map
    edge_stack,      \* the visitor's stack of [source, plugins]
    candidates,      \* the edges that visit_tree_edge has still to try, as
                     \* (place in edge_stack, from plugin, to plugin)
    finished,        \* finished_group_vertices, shared by all searches
    unfinishable     \* unfinishable_nodes, of one search

groupVars == <<groups_graph, starts, ignored, stack, colour, edge_stack,
               candidates, finished, unfinishable>>

White == [g \in GroupNames |-> "white"]

\* The searches without the last one, so that nothing is put behind the
\* plugins of the default group.
GroupsAtStartWithoutDefault(gg) ==
    /\ groups_graph' = gg
    /\ starts' \in sorted_group_nodes(gg)
    /\ ignored' = NoGroup
    /\ stack' = <<>>
    /\ colour' = White
    /\ edge_stack' = <<>>
    /\ candidates' = {}
    /\ finished' = {}
    /\ unfinishable' = {}

\* The searches: one from each group that ignores the default group as a
\* source, then one from the default group that does not.
GroupsAtStart(gg) ==
    /\ groups_graph' = gg
    /\ \E s \in sorted_group_nodes(gg) : starts' = Append(s, DefaultGroup)
    /\ ignored' = NoGroup
    /\ stack' = <<>>
    /\ colour' = White
    /\ edge_stack' = <<>>
    /\ candidates' = {}
    /\ finished' = {}
    /\ unfinishable' = {}

StartSearch ==
    /\ stack = <<>>
    /\ starts # <<>>
    /\ starts' = Tail(starts)
    /\ ignored' = IF Len(starts) = 1 THEN NoGroup ELSE DefaultGroup
    /\ stack' = <<<<Head(starts), 1>>>>
    /\ colour' = [White EXCEPT ![Head(starts)] = "grey"]
    /\ edge_stack' = <<>>
    /\ unfinishable' = {}
    /\ UNCHANGED <<graph, groups_graph, candidates, finished>>

Searching == stack # <<>> /\ candidates = {}
source == Last(stack)[1]
EdgesLeft == Last(stack)[2] <= Len(groups_graph.succ[source])
target == groups_graph.succ[source][Last(stack)[2]]

\* The stack once the edge at its top has been taken from the iterator.
Stepped ==
    [stack EXCEPT ![Len(stack)] = <<source, Last(stack)[2] + 1>>]

should_ignore_source_node(g) == g = ignored \/ g \in finished

\* visit_tree_edge, then the search goes on from the target.
TreeEdge ==
    /\ Searching
    /\ EdgesLeft
    /\ colour[target] = "white"
    /\ edge_stack' =
          Append(edge_stack,
                 [source  |-> source,
                  plugins |-> IF should_ignore_source_node(source) THEN {}
                              ELSE find_plugins_in_group(source)])
    /\ candidates' = {c \in (1..Len(edge_stack')) \X nodes \X nodes :
                         /\ c[2] \in edge_stack'[c[1]].plugins
                         /\ c[3] \in find_plugins_in_group(target)}
    /\ colour' = [colour EXCEPT ![target] = "grey"]
    /\ stack' = Append(Stepped, <<target, 1>>)
    /\ UNCHANGED <<graph, groups_graph, starts, ignored, finished,
                   unfinishable>>

\* visit_forward_or_cross_edge: what is behind the target has been searched
\* from somewhere else, so nothing on the path can be finished by this search.
CrossEdge ==
    /\ Searching
    /\ EdgesLeft
    /\ colour[target] = "black"
    /\ unfinishable' = unfinishable \cup {source}
                          \cup {edge_stack[i].source : i \in 1..Len(edge_stack)}
    /\ stack' = Stepped
    /\ UNCHANGED <<graph, groups_graph, starts, ignored, colour, edge_stack,
                   candidates, finished>>

\* finish_node without the check for unfinishable nodes.
FinishGroupAlways ==
    /\ Searching
    /\ ~EdgesLeft
    /\ colour' = [colour EXCEPT ![source] = "black"]
    /\ finished' = IF source # ignored THEN finished \cup {source}
                   ELSE finished
    /\ edge_stack' = IF edge_stack = <<>> THEN <<>> ELSE Front(edge_stack)
    /\ stack' = Front(stack)
    /\ UNCHANGED <<graph, groups_graph, starts, ignored, candidates,
                   unfinishable>>

\* finish_node.
FinishGroup ==
    /\ Searching
    /\ ~EdgesLeft
    /\ colour' = [colour EXCEPT ![source] = "black"]
    /\ finished' = IF source # ignored /\ source \notin unfinishable
                   THEN finished \cup {source} ELSE finished
    /\ edge_stack' = IF edge_stack = <<>> THEN <<>> ELSE Front(edge_stack)
    /\ stack' = Front(stack)
    /\ UNCHANGED <<graph, groups_graph, starts, ignored, candidates,
                   unfinishable>>

\* The order of the loops of add_plugin_graph_edges and add_edges_from_plugin:
\* down the path, then by plugin.
NoLater(c, d) ==
    \/ c[1] < d[1]
    \/ c[1] = d[1] /\ c[2] < d[2]
    \/ c[1] = d[1] /\ c[2] = d[2] /\ c[3] <= d[3]

\* add_edges_from_plugin, for one pair of plugins.
TryGroupEdge ==
    \E c \in candidates :
        /\ \A d \in candidates : NoLater(c, d)
        /\ graph' \in AddUnlessCycle(graph, c[2], c[3])
        /\ candidates' = candidates \ {c}
        /\ UNCHANGED <<groups_graph, starts, ignored, stack, colour, edge_stack,
                       finished, unfinishable>>

GroupStep ==
    StartSearch \/ TreeEdge \/ CrossEdge \/ FinishGroup \/ TryGroupEdge

GroupsDone == stack = <<>> /\ starts = <<>> /\ candidates = {}

-----------------------------------------------------------------------------

GroupReach(g, h) == Reach(GroupNames, GroupEdgePairs(groups_graph), g, h)

\* Every two plugins of the graph whose groups are ordered are ordered
\* themselves once all searches are done: either the group edge was added or a
\* path the other way was there.  The searches share what they have finished,
\* so a group wrongly taken as finished leaves plugins unordered.
GroupsOrdered ==
    GroupsDone =>
        \A p, q \in nodes :
            (group(p) # group(q) /\ GroupReach(group(p), group(q))) =>
                HasPath(graph, p, q) \/ HasPath(graph, q, p)
=============================================================================
