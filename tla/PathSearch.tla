----------------------------- MODULE PathSearch -----------------------------
(***************************************************************************)
(* One call of path_exists or find_path on the plugin graph: the           *)
(* bidirectional breadth-first search of sorting/search.rs with its two    *)
(* visitors, PathCacher and PathFinder, and the walk that rebuilds the     *)
(* path from the forward parents and the reverse children.                 *)
(*                                                                         *)
(* The order in which petgraph yields a vertex's neighbours is left open:  *)
(* newly visited neighbours are queued in any order.  The maps and the     *)
(* path are PathFinder's; PathCacher keeps none, so after path_exists they *)
(* mean nothing.                                                           *)
(***************************************************************************)
EXTENDS Reachability, SequencesExt

CONSTANTS Vertices,     \* the graph's nodes
          Queries,      \* the (from, to) pairs a caller may ask about
          NoVertex      \* the absent entry of a map or an Option

ASSUME VerticesFinite == IsFiniteSet(Vertices)
ASSUME QueriesAssumption == Queries \subseteq Vertices \X Vertices
ASSUME NoVertexAssumption == NoVertex \notin Vertices

VARIABLES
    graph_edges,       \* the graph searched: fixed during a call
    from_index, to_index,
    wants_path,        \* TRUE for find_path, FALSE for path_exists
    cache,             \* paths_cache, as the set of its (from, to) pairs
    forward_queue, reverse_queue,
    forward_visited, reverse_visited,
    forward_current, reverse_current,
    forward_parents, reverse_children,
    intersection_node,
    path,              \* the path rebuilt so far, first vertex first
    found,             \* what bidirectional_bfs returned
    pc

queryVars == <<graph_edges, from_index, to_index, wants_path>>
visitVars == <<forward_visited, reverse_visited, forward_parents,
               reverse_children, cache>>
queueVars == <<forward_queue, reverse_queue, forward_current,
               reverse_current>>
answerVars == <<intersection_node, path, found>>
vars == <<queryVars, visitVars, queueVars, answerVars, pc>>

VertexPairs == Vertices \X Vertices

\* Every pair of distinct vertices joined by a path.
PathPairs(E) ==
    {e \in VertexPairs : e[1] # e[2] /\ Reach(Vertices, E, e[1], e[2])}

\* A search starts after the first cycle check, so the graph has no cycle, and
\* with a cache that add_edge and earlier searches have filled.
Init ==
    /\ graph_edges \in {E \in SUBSET VertexPairs : Acyclic(Vertices, E)}
    /\ cache \in {C \in SUBSET PathPairs(graph_edges) : graph_edges \subseteq C}
    /\ from_index \in Vertices
    /\ to_index \in Vertices
    /\ <<from_index, to_index>> \in Queries
    /\ wants_path \in BOOLEAN
    /\ forward_queue = <<from_index>>
    /\ reverse_queue = <<to_index>>
    /\ forward_visited = {from_index}
    /\ reverse_visited = {to_index}
    /\ forward_current = NoVertex
    /\ reverse_current = NoVertex
    /\ forward_parents = [v \in Vertices |-> NoVertex]
    /\ reverse_children = [v \in Vertices |-> NoVertex]
    /\ intersection_node = NoVertex
    /\ path = <<>>
    /\ found = FALSE
    /\ pc = IF wants_path THEN "pop" ELSE "cached"

\* path_exists consults the cache first; find_path does not.
CheckCache ==
    /\ pc = "cached"
    /\ IF <<from_index, to_index>> \in cache
       THEN pc' = "done" /\ found' = TRUE
       ELSE pc' = "pop" /\ found' = FALSE
    /\ UNCHANGED <<queryVars, visitVars, queueVars, intersection_node, path>>

\* The head of the while loop as it would be if the queues were only peeked at.
PopFrontPeek ==
    /\ pc = "pop"
    /\ forward_queue # <<>>
    /\ reverse_queue # <<>>
    /\ forward_current' = Head(forward_queue)
    /\ reverse_current' = Head(reverse_queue)
    /\ pc' = "forward"
    /\ UNCHANGED <<queryVars, visitVars, answerVars, forward_queue,
                   reverse_queue>>

\* The head of the while loop: both queues are popped, or the search fails.
PopFront ==
    /\ pc = "pop"
    /\ forward_queue # <<>>
    /\ reverse_queue # <<>>
    /\ forward_current' = Head(forward_queue)
    /\ reverse_current' = Head(reverse_queue)
    /\ forward_queue' = Tail(forward_queue)
    /\ reverse_queue' = Tail(reverse_queue)
    /\ pc' = "forward"
    /\ UNCHANGED <<queryVars, visitVars, answerVars>>

Exhausted ==
    /\ pc = "pop"
    /\ forward_queue = <<>> \/ reverse_queue = <<>>
    /\ pc' = "done"
    /\ UNCHANGED <<queryVars, visitVars, queueVars, answerVars>>

\* visit_intersection_node, and the return of bidirectional_bfs.
Intersect(node) ==
    /\ found' = TRUE
    /\ intersection_node' = node
    /\ pc' = IF wants_path THEN "back" ELSE "done"
    /\ path' = <<node>>
    /\ UNCHANGED <<queryVars, visitVars, queueVars>>

MeetForward ==
    /\ pc = "forward"
    /\ forward_current = to_index \/ forward_current \in reverse_visited
    /\ Intersect(forward_current)

\* The forward expansion skipping what the other side has visited.
ExpandForwardApart ==
    /\ pc = "forward"
    /\ forward_current # to_index
    /\ forward_current \notin reverse_visited
    /\ LET new == {v \in Vertices : /\ <<forward_current, v>> \in graph_edges
                                    /\ v \notin forward_visited
                                    /\ v \notin reverse_visited}
       IN /\ forward_visited' = forward_visited \cup new
          /\ \E s \in SetToSeqs(new) : forward_queue' = forward_queue \o s
          /\ forward_parents' =
                [v \in Vertices |-> IF v \in new THEN forward_current
                                    ELSE forward_parents[v]]
          /\ cache' = cache \cup {<<from_index, v>> : v \in new}
    /\ pc' = "reverse"
    /\ UNCHANGED <<queryVars, reverse_visited, reverse_children, reverse_queue,
                   forward_current, reverse_current, answerVars>>

ExpandForward ==
    /\ pc = "forward"
    /\ forward_current # to_index
    /\ forward_current \notin reverse_visited
    /\ LET new == {v \in Vertices : /\ <<forward_current, v>> \in graph_edges
                                    /\ v \notin forward_visited}
       IN /\ forward_visited' = forward_visited \cup new
          /\ \E s \in SetToSeqs(new) : forward_queue' = forward_queue \o s
          /\ forward_parents' =
                [v \in Vertices |-> IF v \in new THEN forward_current
                                    ELSE forward_parents[v]]
          /\ cache' = cache \cup {<<from_index, v>> : v \in new}
    /\ pc' = "reverse"
    /\ UNCHANGED <<queryVars, reverse_visited, reverse_children, reverse_queue,
                   forward_current, reverse_current, answerVars>>

MeetReverse ==
    /\ pc = "reverse"
    /\ reverse_current = from_index \/ reverse_current \in forward_visited
    /\ Intersect(reverse_current)

\* The reverse expansion caching the pair the wrong way round.
ExpandReverseSwapped ==
    /\ pc = "reverse"
    /\ reverse_current # from_index
    /\ reverse_current \notin forward_visited
    /\ LET new == {v \in Vertices : /\ <<v, reverse_current>> \in graph_edges
                                    /\ v \notin reverse_visited}
       IN /\ reverse_visited' = reverse_visited \cup new
          /\ \E s \in SetToSeqs(new) : reverse_queue' = reverse_queue \o s
          /\ reverse_children' =
                [v \in Vertices |-> IF v \in new THEN reverse_current
                                    ELSE reverse_children[v]]
          /\ cache' = cache \cup {<<to_index, v>> : v \in new}
    /\ pc' = "pop"
    /\ UNCHANGED <<queryVars, forward_visited, forward_parents, forward_queue,
                   forward_current, reverse_current, answerVars>>

\* The reverse expansion forgetting the children map.
ExpandReverseChildless ==
    /\ pc = "reverse"
    /\ reverse_current # from_index
    /\ reverse_current \notin forward_visited
    /\ LET new == {v \in Vertices : /\ <<v, reverse_current>> \in graph_edges
                                    /\ v \notin reverse_visited}
       IN /\ reverse_visited' = reverse_visited \cup new
          /\ \E s \in SetToSeqs(new) : reverse_queue' = reverse_queue \o s
          /\ cache' = cache \cup {<<v, to_index>> : v \in new}
    /\ pc' = "pop"
    /\ UNCHANGED <<queryVars, forward_visited, forward_parents, forward_queue,
                   reverse_children, forward_current, reverse_current,
                   answerVars>>

\* The reverse expansion replacing what the cache already has.
ExpandReverseReplacing ==
    /\ pc = "reverse"
    /\ reverse_current # from_index
    /\ reverse_current \notin forward_visited
    /\ LET new == {v \in Vertices : /\ <<v, reverse_current>> \in graph_edges
                                    /\ v \notin reverse_visited}
       IN /\ reverse_visited' = reverse_visited \cup new
          /\ \E s \in SetToSeqs(new) : reverse_queue' = reverse_queue \o s
          /\ reverse_children' =
                [v \in Vertices |-> IF v \in new THEN reverse_current
                                    ELSE reverse_children[v]]
          /\ cache' = {<<v, to_index>> : v \in new}
    /\ pc' = "pop"
    /\ UNCHANGED <<queryVars, forward_visited, forward_parents, forward_queue,
                   forward_current, reverse_current, answerVars>>

ExpandReverse ==
    /\ pc = "reverse"
    /\ reverse_current # from_index
    /\ reverse_current \notin forward_visited
    /\ LET new == {v \in Vertices : /\ <<v, reverse_current>> \in graph_edges
                                    /\ v \notin reverse_visited}
       IN /\ reverse_visited' = reverse_visited \cup new
          /\ \E s \in SetToSeqs(new) : reverse_queue' = reverse_queue \o s
          /\ reverse_children' =
                [v \in Vertices |-> IF v \in new THEN reverse_current
                                    ELSE reverse_children[v]]
          /\ cache' = cache \cup {<<v, to_index>> : v \in new}
    /\ pc' = "pop"
    /\ UNCHANGED <<queryVars, forward_visited, forward_parents, forward_queue,
                   forward_current, reverse_current, answerVars>>

\* PathFinder::path: from the intersection back to the start along the
\* parents, then on to the end along the children.  A missing parent or child
\* is the error the code calls impossible.
WalkBack ==
    /\ pc = "back"
    /\ LET parent == forward_parents[path[1]] IN
       IF path[1] = from_index
       THEN pc' = "on" /\ UNCHANGED path
       ELSE IF parent = NoVertex
            THEN pc' = "error" /\ UNCHANGED path
            ELSE pc' = "back" /\ path' = <<parent>> \o path
    /\ UNCHANGED <<queryVars, visitVars, queueVars, intersection_node, found>>

WalkOn ==
    /\ pc = "on"
    /\ LET child == reverse_children[path[Len(path)]] IN
       IF path[Len(path)] = to_index
       THEN pc' = "done" /\ UNCHANGED path
       ELSE IF child = NoVertex
            THEN pc' = "error" /\ UNCHANGED path
            ELSE pc' = "on" /\ path' = Append(path, child)
    /\ UNCHANGED <<queryVars, visitVars, queueVars, intersection_node, found>>

Next ==
    \/ CheckCache
    \/ PopFront \/ Exhausted
    \/ MeetForward \/ ExpandForward
    \/ MeetReverse \/ ExpandReverse
    \/ WalkBack \/ WalkOn

Spec == Init /\ [][Next]_vars

-----------------------------------------------------------------------------

TypeOK ==
    /\ graph_edges \in SUBSET VertexPairs
    /\ from_index \in Vertices
    /\ to_index \in Vertices
    /\ wants_path \in BOOLEAN
    /\ cache \in SUBSET VertexPairs
    /\ forward_queue \in Seq(Vertices)
    /\ reverse_queue \in Seq(Vertices)
    /\ forward_visited \in SUBSET Vertices
    /\ reverse_visited \in SUBSET Vertices
    /\ forward_current \in Vertices \cup {NoVertex}
    /\ reverse_current \in Vertices \cup {NoVertex}
    /\ forward_parents \in [Vertices -> Vertices \cup {NoVertex}]
    /\ reverse_children \in [Vertices -> Vertices \cup {NoVertex}]
    /\ intersection_node \in Vertices \cup {NoVertex}
    /\ path \in Seq(Vertices)
    /\ found \in BOOLEAN
    /\ pc \in {"cached", "pop", "forward", "reverse", "back", "on", "done",
               "error"}

\* bidirectional_bfs and path_exists answer TRUE exactly if the graph has a
\* path from the first vertex to the second, although each side gives up as
\* soon as the other side's queue is empty.
AnswerCorrect ==
    pc \in {"back", "on", "done"} =>
        (found <=> Reach(Vertices, graph_edges, from_index, to_index))

\* Whatever PathCacher and PathFinder add to paths_cache is a path of the
\* graph, so a later add_edge or path_exists that trusts it is right.
CacheSound ==
    \A e \in cache : Reach(Vertices, graph_edges, e[1], e[2])

\* find_path returns a path of the graph from the first vertex to the second
\* and never reports PrecedingNodeNotFound or FollowingNodeNotFound: the two
\* halves of the walk meet and neither map has a hole.
PathValid ==
    /\ pc # "error"
    /\ (pc = "done" /\ found /\ wants_path) =>
           IsPath(graph_edges, path, from_index, to_index)

\* The search implements the contract that its callers rely on.
Contract == INSTANCE PathContract WITH
    answer <- [done  |-> pc = "done",
               found |-> pc = "done" /\ found,
               path  |-> IF pc = "done" /\ found /\ wants_path
                         THEN path ELSE <<>>]

ImplementsContract == Contract!ContractSpec
=============================================================================
