----------------------------- MODULE GroupsPath -----------------------------
(***************************************************************************)
(* groups.rs: find_path, which Database::groups_path calls on the graph of *)
(* the masterlist's and the user's groups.  Edges weigh -1000000 and 1, as *)
(* f32 values, and petgraph's bellman_ford finds the distances from the    *)
(* first group; the path is then read backwards from the second.           *)
(***************************************************************************)
EXTENDS GroupsGraph

CONSTANTS Lists,   \* the pairs of a masterlist's and a user's list of groups
          Rivals   \* the sequences of groups that PathIsBest compares with

VARIABLES lists,          \* the two lists of groups
          gg,             \* the graph that build_groups_graph makes of them
          ends,           \* from_group_name and to_group_name
          round, index,   \* bellman_ford: the round, and the node it is at
          updated,        \* whether a distance has changed in this round
          distances, predecessors,
          current, path,  \* find_path: the node it is at, and the path so far
          result

vars == <<lists, gg, ends, round, index, updated, distances, predecessors, current, path, result>>

GroupCount == Len(gg.nodes)

\* update_edge gives an edge that both lists have the user's type.
EdgeType(g, h) == IF h \in Targets(lists.userlist, g) THEN "UserLoadAfter" ELSE "MasterlistLoadAfter"

-----------------------------------------------------------------------------
(* Sums of whole numbers in f32: exact to 2^24, then to the nearest        *)
(* multiple of 2, 4, ... with ties to the one whose last bit is 0.         *)

ToMultiple(n, unit) ==
    LET down == (n \div unit) * unit
        twice == 2 * (n - down)
    IN IF twice < unit \/ (twice = unit /\ (n \div unit) % 2 = 0) THEN down ELSE down + unit

f32(x) ==
    LET n == IF x < 0 THEN -x ELSE x
        m == IF n < 2^24 THEN n
             ELSE IF n < 2^25 THEN ToMultiple(n, 2)
             ELSE IF n < 2^26 THEN ToMultiple(n, 4) ELSE ToMultiple(n, 8)
    IN IF x < 0 THEN -m ELSE m

\* Mutant: a user's edge is as good as one of the masterlist.
WeightEven(g, h) == 1

Weight(g, h) == IF EdgeType(g, h) = "UserLoadAfter" THEN -1000000 ELSE 1

Infinite == 2^30   \* the distance of a group that has not been reached

-----------------------------------------------------------------------------
Init ==
    /\ lists \in Lists
    /\ gg = BuiltGroupsGraph(lists.masterlist, lists.userlist)
    /\ ends \in GroupNames \X GroupNames
    /\ round = 1 /\ index = 1 /\ updated = FALSE
    /\ distances = [g \in GroupNames |-> IF g = ends[1] THEN 0 ELSE Infinite]
    /\ predecessors = [g \in GroupNames |-> NoGroup]
    /\ current = NoGroup /\ path = <<>>
    /\ result = "running"

find_node_by_weight(g) == g \in ToSet(gg.nodes)

Defined == find_node_by_weight(ends[1]) /\ find_node_by_weight(ends[2])

UndefinedGroup ==
    /\ result = "running" /\ current = NoGroup
    /\ ~Defined
    /\ result' = "UndefinedGroup"
    /\ UNCHANGED <<lists, gg, ends, round, index, updated, distances, predecessors, current, path>>

\* The edges of a node, which petgraph gives from the last added to the first.
relax(g) ==
    FoldLeft(LAMBDA s, h :
                LET d == f32(s.distances[g] + Weight(g, h))
                IN IF s.distances[g] # Infinite /\ d < s.distances[h]
                   THEN [distances |-> [s.distances EXCEPT ![h] = d],
                         predecessors |-> [s.predecessors EXCEPT ![h] = g],
                         updated |-> TRUE]
                   ELSE s,
             [distances |-> distances, predecessors |-> predecessors, updated |-> updated],
             Reverse(gg.succ[g]))

Relax ==
    /\ result = "running" /\ current = NoGroup /\ Defined
    /\ round < GroupCount /\ index <= GroupCount
    /\ LET s == relax(gg.nodes[index])
       IN /\ distances' = s.distances /\ predecessors' = s.predecessors
          /\ updated' = s.updated
    /\ index' = index + 1
    /\ UNCHANGED <<lists, gg, ends, round, current, path, result>>

NextRound ==
    /\ result = "running" /\ current = NoGroup /\ Defined
    /\ round < GroupCount /\ index = GroupCount + 1
    /\ round' = IF updated THEN round + 1 ELSE GroupCount
    /\ index' = 1 /\ updated' = FALSE
    /\ UNCHANGED <<lists, gg, ends, distances, predecessors, current, path, result>>

\* A distance that can still be lowered is taken for a cycle.
CheckForNegativeCycle ==
    /\ result = "running" /\ current = NoGroup /\ Defined
    /\ round >= GroupCount
    /\ LET lower(g, h) == distances[g] # Infinite
                              /\ f32(distances[g] + Weight(g, h)) < distances[h]
       IN IF \E g \in ToSet(gg.nodes) : \E h \in ToSet(gg.succ[g]) : lower(g, h)
          THEN result' = "NegativeCycle" /\ UNCHANGED <<current, path>>
          ELSE current' = ends[2] /\ path' = <<ends[2]>> /\ UNCHANGED result
    /\ UNCHANGED <<lists, gg, ends, round, index, updated, distances, predecessors>>

\* Mutant: a group without a predecessor is not the end of the loop.
WalkBackStaying ==
    /\ result = "running" /\ current # NoGroup
    /\ \/ current = ends[1] /\ result' = "found" /\ UNCHANGED <<current, path>>
       \/ /\ current # ends[1] /\ predecessors[current] # NoGroup
          /\ path' = <<predecessors[current]>> \o path
          /\ current' = predecessors[current]
          /\ UNCHANGED result
    /\ UNCHANGED <<lists, gg, ends, round, index, updated, distances, predecessors>>

\* One turn of find_path's loop, or its end.
WalkBack ==
    /\ result = "running" /\ current # NoGroup
    /\ LET preceding == predecessors[current]
       IN \/ current = ends[1] /\ result' = "found" /\ UNCHANGED <<current, path>>
          \/ /\ current # ends[1] /\ preceding \in {NoGroup, current}
             /\ result' = "none" /\ path' = <<>> /\ UNCHANGED current
          \/ /\ current # ends[1] /\ preceding \notin {NoGroup, current}
             /\ path' = <<preceding>> \o path
             /\ current' = preceding
             /\ UNCHANGED result
    /\ UNCHANGED <<lists, gg, ends, round, index, updated, distances, predecessors>>

Next == UndefinedGroup \/ Relax \/ NextRound \/ CheckForNegativeCycle \/ WalkBack

Spec == Init /\ [][Next]_vars /\ WF_vars(Next)

-----------------------------------------------------------------------------
JoinsEnds(p) ==
    /\ p # <<>> /\ Head(p) = ends[1] /\ Last(p) = ends[2]
    /\ \A i \in 1..(Len(p) - 1) : p[i + 1] \in ToSet(gg.succ[p[i]])

UserEdges(p) == Cardinality({i \in 1..(Len(p) - 1) : EdgeType(p[i], p[i + 1]) = "UserLoadAfter"})

Worse(p, q) ==
    \/ UserEdges(p) < UserEdges(q)
    \/ UserEdges(p) = UserEdges(q) /\ Len(p) > Len(q)

\* groups_path: "the path that maximises the amount of user metadata involved
\* while minimising the amount of masterlist metadata involved"; it is empty
\* only if there is no path, and no graph without cycles is taken for a cycle.
PathIsBest ==
    /\ result # "NegativeCycle"
    /\ result = "found" => JoinsEnds(path) /\ \A q \in Rivals : JoinsEnds(q) => ~Worse(path, q)
    /\ result = "none" => \A q \in Rivals : ~JoinsEnds(q)
=============================================================================
