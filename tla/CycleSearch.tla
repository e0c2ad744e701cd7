----------------------------- MODULE CycleSearch -----------------------------
(***************************************************************************)
(* search.rs: find_cycle, a depth-first search from every node in turn     *)
(* whose visitor, CycleDetector, keeps one trail of vertices over all the  *)
(* searches.  The groups graph and the plugins graph are both checked with *)
(* it, and its trail is the cycle that the user is told to break.          *)
(*                                                                         *)
(* An edge is <<source, target>>; its place in the sequence of edges, the  *)
(* order in which they were added, stands for its type.  There may be      *)
(* several edges between two nodes, and two nodes may have one name (a     *)
(* plugin can be given to sort_plugins twice).                             *)
(***************************************************************************)
EXTENDS Integers, Sequences, FiniteSets, SequencesExt

CONSTANTS NodeCount,  \* the number of nodes
          EdgeLists,  \* the edges a graph may have, in the order they are added
          Namings     \* the names the nodes may have

VARIABLES digraph,      \* the edges
          name,         \* the names
          next_start,   \* the next node that find_cycle searches from
          colour_map,
          stack,        \* the nodes being visited, each with its unprocessed edges
          trail,        \* CycleDetector: the vertices, each with the edge that leaves it
          found_cycle,
          result        \* what find_cycle returns

cycleVars == <<digraph, name, next_start, colour_map, stack, trail, found_cycle, result>>

Nodes == 1..NodeCount

\* edges(): the edges that leave a node.  They are taken in the order they were
\* added.
edges(n) == {i \in DOMAIN digraph : digraph[i][1] = n}

Searching == [state |-> "searching"]
Some(cycle) == [state |-> "some", cycle |-> cycle]
NoCycle == [state |-> "none"]

CycleInit ==
    /\ digraph \in EdgeLists
    /\ name \in Namings
    /\ next_start = 1
    /\ colour_map = [n \in Nodes |-> "White"]
    /\ stack = <<>>
    /\ trail = <<>>
    /\ found_cycle = FALSE
    /\ result = Searching

\* The next search starts: also from a node that an earlier one has finished.
Start ==
    /\ result = Searching /\ stack = <<>> /\ ~found_cycle
    /\ next_start \in Nodes
    /\ stack' = <<[node |-> next_start, unprocessed |-> edges(next_start)]>>
    /\ colour_map' = [colour_map EXCEPT ![next_start] = "Grey"]
    /\ next_start' = next_start + 1
    /\ UNCHANGED <<digraph, name, trail, found_cycle, result>>

Return ==
    /\ result = Searching /\ stack = <<>>
    /\ \/ found_cycle /\ result' = Some(trail)
       \/ ~found_cycle /\ next_start \notin Nodes /\ result' = NoCycle
    /\ UNCHANGED <<digraph, name, next_start, colour_map, stack, trail, found_cycle>>

\* The trail once an edge's source is added to it.
Pushed(e) == Append(trail, [name |-> name[digraph[e][1]], edge |-> e])

visit_tree_edge(e) ==
    /\ trail' = IF found_cycle THEN trail ELSE Pushed(e)
    /\ UNCHANGED found_cycle

\* Mutant: the cut takes the target itself off the trail.
visit_back_edge_short(e) ==
    LET pushed == Pushed(e)
        pos == SelectInSeq(pushed, LAMBDA v : v.name = name[digraph[e][2]])
    IN IF found_cycle THEN UNCHANGED <<trail, found_cycle>>
       ELSE trail' = SubSeq(pushed, pos + 1, Len(pushed)) /\ found_cycle' = TRUE

\* Mutant: the target is looked for before the edge's source is added.
visit_back_edge_unpushed(e) ==
    LET pos == SelectInSeq(trail, LAMBDA v : v.name = name[digraph[e][2]])
    IN IF found_cycle \/ pos = 0 THEN UNCHANGED <<trail, found_cycle>>
       ELSE trail' = SubSeq(Pushed(e), pos, Len(trail) + 1) /\ found_cycle' = TRUE

\* The trail is cut to start at the edge's target, which is found by its name.
visit_back_edge(e) ==
    LET pushed == Pushed(e)
        pos == SelectInSeq(pushed, LAMBDA v : v.name = name[digraph[e][2]])
    IN IF found_cycle THEN UNCHANGED <<trail, found_cycle>>
       ELSE IF pos # 0
       THEN trail' = SubSeq(pushed, pos, Len(pushed)) /\ found_cycle' = TRUE
       ELSE trail' = pushed /\ UNCHANGED found_cycle

\* Mutant: the visitor forgets to drop a vertex that leads nowhere.
finish_node_keeping == UNCHANGED trail

finish_node == trail' = IF found_cycle \/ trail = <<>> THEN trail ELSE Front(trail)

\* Mutant: an edge to a node that is finished is looked at and not taken off.
ProcessEdgePeeking ==
    /\ result = Searching /\ stack # <<>> /\ Last(stack).unprocessed # {}
    /\ LET e == Min(Last(stack).unprocessed)
           target == digraph[e][2]
           rest == [stack EXCEPT ![Len(stack)].unprocessed = @ \ {e}]
       IN \/ /\ colour_map[target] = "White"
             /\ visit_tree_edge(e)
             /\ colour_map' = [colour_map EXCEPT ![target] = "Grey"]
             /\ stack' = Append(rest, [node |-> target, unprocessed |-> edges(target)])
          \/ /\ colour_map[target] = "Grey"
             /\ visit_back_edge(e)
             /\ stack' = rest /\ UNCHANGED colour_map
          \/ colour_map[target] = "Black" /\ UNCHANGED <<stack, colour_map, trail, found_cycle>>
    /\ UNCHANGED <<digraph, name, next_start, result>>

\* One turn of depth_first_search's loop: an edge of the last node...
ProcessEdge ==
    /\ result = Searching /\ stack # <<>> /\ Last(stack).unprocessed # {}
    /\ LET e == Min(Last(stack).unprocessed)
           target == digraph[e][2]
           rest == [stack EXCEPT ![Len(stack)].unprocessed = @ \ {e}]
       IN \/ /\ colour_map[target] = "White"
             /\ visit_tree_edge(e)
             /\ colour_map' = [colour_map EXCEPT ![target] = "Grey"]
             /\ stack' = Append(rest, [node |-> target, unprocessed |-> edges(target)])
          \/ /\ colour_map[target] = "Grey"
             /\ visit_back_edge(e)
             /\ stack' = rest /\ UNCHANGED colour_map
          \/ /\ colour_map[target] = "Black"
             /\ stack' = rest /\ UNCHANGED <<colour_map, trail, found_cycle>>
    /\ UNCHANGED <<digraph, name, next_start, result>>

\* ... or its end.
FinishNode ==
    /\ result = Searching /\ stack # <<>> /\ Last(stack).unprocessed = {}
    /\ colour_map' = [colour_map EXCEPT ![Last(stack).node] = "Black"]
    /\ finish_node
    /\ stack' = Front(stack)
    /\ UNCHANGED <<digraph, name, next_start, found_cycle, result>>

CycleStep == Start \/ ProcessEdge \/ FinishNode \/ Return

CycleSpec == CycleInit /\ [][CycleStep]_cycleVars /\ WF_cycleVars(CycleStep)

-----------------------------------------------------------------------------
\* Some set of nodes has, for each of them, an edge to another of it.
CycleIn(S) ==
    S # {} /\ \A n \in S : \E i \in DOMAIN digraph : digraph[i][1] = n /\ digraph[i][2] \in S

IsCyclic == \E S \in SUBSET Nodes : CycleIn(S)

\* find_cycle finds a cycle exactly when there is one, although it starts again
\* from nodes that are already black and marks them grey once more.
CycleFoundIffCyclic ==
    result # Searching => (result.state = "some") = IsCyclic

\* Each vertex is left by the edge it is reported with, for a node of the next
\* one's name, and the last edge leads to the first vertex.
Closes(c) ==
    /\ c # <<>>
    /\ \A i \in DOMAIN c :
          /\ name[digraph[c[i].edge][1]] = c[i].name
          /\ name[digraph[c[i].edge][2]] = c[IF i = Len(c) THEN 1 ELSE i + 1].name

\* What find_cycle returns is a walk that closes.  No vertex of an earlier
\* search is left over in it.
ReportedCycleCloses == result.state = "some" => Closes(result.cycle)

\* The trail is the path of tree edges from the start of the search to the node
\* being visited.
TrailFollowsStack ==
    IF stack = <<>> THEN trail = <<>>
    ELSE /\ Len(trail) = Len(stack) - 1
         /\ \A i \in DOMAIN trail : digraph[trail[i].edge] = <<stack[i].node, stack[i + 1].node>>

\* It is so while nothing has been found, so that a back edge's target is always
\* found in the trail, and the error branch is never taken.
TrailIsStack == ~found_cycle /\ result = Searching => TrailFollowsStack

CyclesReported == CycleFoundIffCyclic /\ ReportedCycleCloses /\ TrailIsStack
=============================================================================
