------------------------------ MODULE TieBreak ------------------------------
(***************************************************************************)
(* add_tie_break_edges and pin_node_position of sorting/plugins.rs: walk   *)
(* the vertices in their existing load order, two neighbours at a time,    *)
(* and add edges until only one topological order of the graph is left.    *)
(*                                                                         *)
(* processed_nodes is not a variable: every statement that puts a node     *)
(* into new_load_order also puts it into processed_nodes and no other does.*)
(***************************************************************************)
EXTENDS PluginGraph

VARIABLES
    load_order,       \* the nodes sorted by load_order_index
    window,           \* position in load_order of the current node
    new_load_order,
    to_pin,           \* nodes of the path found that are still to be pinned
    range_start,      \* zero-based, as in the code
    tie_pc            \* "window", "pin" or "done"

tieVars == <<load_order, window, new_load_order, to_pin, range_start, tie_pc>>

current == load_order[window]
next == load_order[window + 1]
Processed(node) == node \in ToSet(new_load_order)

TieAtStart(order) ==
    /\ load_order = order
    /\ window = 1
    /\ new_load_order = <<>>
    /\ to_pin = <<>>
    /\ range_start = 0
    /\ tie_pc = "window"

WindowsLeft == tie_pc = "window" /\ window < Len(load_order)

\* The graphs find_path(next, current) may leave behind.
Searched == LearnFrom(graph, Learnable(graph, next, current))

\* The edge between the neighbours going the wrong way.
KeepOrderSwapped ==
    /\ WindowsLeft
    /\ ~HasPath(graph, current, next)
    /\ \E g \in Searched : graph' = add_edge(g, next, current)
    /\ new_load_order' = IF Processed(current) THEN new_load_order
                         ELSE Append(new_load_order, current)
    /\ window' = window + 1
    /\ tie_pc' = "window"
    /\ range_start' = 0
    /\ UNCHANGED <<load_order, to_pin>>

\* There is no path from next to current: next can load after current.  If
\* current was placed before and is not last, next must be pinned.
KeepOrder ==
    /\ WindowsLeft
    /\ ~HasPath(graph, next, current)
    /\ \E g \in Searched : graph' = add_edge(g, current, next)
    /\ IF ~Processed(current)
       THEN /\ new_load_order' = Append(new_load_order, current)
            /\ UNCHANGED to_pin
            /\ window' = window + 1
            /\ tie_pc' = "window"
       ELSE /\ UNCHANGED new_load_order
            /\ IF Last(new_load_order) # current
               THEN to_pin' = <<next>> /\ tie_pc' = "pin" /\ UNCHANGED window
               ELSE /\ UNCHANGED to_pin
                    /\ window' = window + 1
                    /\ tie_pc' = "window"
    /\ range_start' = 0
    /\ UNCHANGED load_order

\* There is a path from next to current and current is the first node: the
\* path starts the new load order.
StartWithPath ==
    /\ WindowsLeft
    /\ window = 1
    /\ \E p \in FindPaths(graph, next, current) :
          new_load_order' = new_load_order \o p
    /\ graph' \in Searched
    /\ window' = window + 1
    /\ UNCHANGED <<load_order, to_pin, range_start, tie_pc>>

\* There is a path from next to a later current: its nodes, without current,
\* are pinned one by one.
PinPath ==
    /\ WindowsLeft
    /\ window > 1
    /\ \E p \in FindPaths(graph, next, current) : to_pin' = Front(p)
    /\ graph' \in Searched
    /\ range_start' = 0
    /\ tie_pc' = "pin"
    /\ UNCHANGED <<load_order, window, new_load_order>>

\* pin_node_position for a node that already has its place.
SkipPinned ==
    /\ tie_pc = "pin"
    /\ to_pin # <<>>
    /\ Processed(Head(to_pin))
    /\ to_pin' = Tail(to_pin)
    /\ UNCHANGED <<graph, load_order, window, new_load_order, range_start,
                   tie_pc>>

\* The walk looking for the last node with no path to this one.
PreviousPositionSwapped(node) ==
    LET S == {k \in (range_start + 1)..Len(new_load_order) :
                 ~path_exists(graph, new_load_order[k], node)}
    IN IF S = {} THEN range_start ELSE Max(S)

\* The one-based position, within the range, of the last node that this one
\* has no path to; range_start if there is none.
PreviousPosition(node) ==
    LET S == {k \in (range_start + 1)..Len(new_load_order) :
                 ~path_exists(graph, node, new_load_order[k])}
    IN IF S = {} THEN range_start ELSE Max(S)

\* What the searches of one backwards walk from the end may have cached.
PinLearnable(node, previous) ==
    UNION {Learnable(graph, node, new_load_order[k]) :
              k \in {i \in (range_start + 1)..Len(new_load_order) :
                        i >= previous
                        /\ ~is_path_cached(graph, node, new_load_order[i])}}

\* Pinning that forgets the edge from the node in front.
PinNodeWithoutPreceding ==
    /\ tie_pc = "pin"
    /\ to_pin # <<>>
    /\ LET node == Head(to_pin)
           previous == PreviousPosition(node)
           insert == previous + 1
       IN /\ ~Processed(node)
          /\ \E g \in LearnFrom(graph, PinLearnable(node, previous)) :
                graph' = IF insert <= Len(new_load_order)
                         THEN add_edge(g, node, new_load_order[insert])
                         ELSE g
          /\ new_load_order' = InsertAt(new_load_order, insert, node)
          /\ range_start' = insert
    /\ to_pin' = Tail(to_pin)
    /\ UNCHANGED <<load_order, window, tie_pc>>

\* pin_node_position for a node without a place: just after the last node of
\* the range that it can load after, with an edge from the node before it and
\* one to the node behind it.
PinNode ==
    /\ tie_pc = "pin"
    /\ to_pin # <<>>
    /\ LET node == Head(to_pin)
           previous == PreviousPosition(node)
           insert == previous + 1
       IN /\ ~Processed(node)
          /\ \E g \in LearnFrom(graph, PinLearnable(node, previous)) :
                LET h == IF previous > range_start
                         THEN add_edge(g, new_load_order[previous], node)
                         ELSE g
                IN graph' = IF insert <= Len(new_load_order)
                            THEN add_edge(h, node, new_load_order[insert])
                            ELSE h
          /\ new_load_order' = InsertAt(new_load_order, insert, node)
          /\ range_start' = insert
    /\ to_pin' = Tail(to_pin)
    /\ UNCHANGED <<load_order, window, tie_pc>>

\* The end of a window that does not move on.
EndWindowStuck ==
    /\ tie_pc = "pin"
    /\ to_pin = <<>>
    /\ new_load_order' = IF Processed(current) THEN new_load_order
                         ELSE Append(new_load_order, current)
    /\ range_start' = 0
    /\ tie_pc' = "window"
    /\ UNCHANGED <<graph, load_order, to_pin, window>>

\* The end of a window in which nodes were pinned: current goes last unless it
\* has a place.
EndWindow ==
    /\ tie_pc = "pin"
    /\ to_pin = <<>>
    /\ new_load_order' = IF Processed(current) THEN new_load_order
                         ELSE Append(new_load_order, current)
    /\ window' = window + 1
    /\ range_start' = 0
    /\ tie_pc' = "window"
    /\ UNCHANGED <<graph, load_order, to_pin>>

\* The last pair of neighbours left out.
TieDoneEarly ==
    /\ tie_pc = "window"
    /\ window >= Len(load_order) - 1
    /\ tie_pc' = "done"
    /\ UNCHANGED <<graph, load_order, window, new_load_order, to_pin,
                   range_start>>

TieDone ==
    /\ tie_pc = "window"
    /\ window >= Len(load_order)
    /\ tie_pc' = "done"
    /\ UNCHANGED <<graph, load_order, window, new_load_order, to_pin,
                   range_start>>

TieStep ==
    \/ KeepOrder \/ StartWithPath \/ PinPath
    \/ SkipPinned \/ PinNode \/ EndWindow
    \/ TieDone

\* Tie-breaking by itself: of a graph without cycles whose cache can be trusted,
\* and of any order of its nodes.
TieInit ==
    /\ graph \in Graphs
    /\ CacheSoundFor(graph) /\ AcyclicFor(graph)
    /\ \E V \in SUBSET Plugins :
          graph.edges \subseteq V \X V /\ load_order \in SetToSeqs(V)
    /\ TieAtStart(load_order)

TieSpec == TieInit /\ [][TieStep]_<<graph, tieVars>>

-----------------------------------------------------------------------------

\* The load order that is recorded as it evolves is a path through the graph:
\* each node has a path to the one behind it.  Every later pinning relies on
\* it, because it looks for one place in this order only.
NewOrderIsPath ==
    \A i \in 1..(Len(new_load_order) - 1) :
        HasPath(graph, new_load_order[i], new_load_order[i + 1])

\* When all windows are done every two nodes are joined by a path one way or
\* the other, those that never got a place in new_load_order included, so that
\* only one topological order is left.
TiesBroken ==
    tie_pc = "done" =>
        \A p, q \in ToSet(load_order) :
            p = q \/ HasPath(graph, p, q) \/ HasPath(graph, q, p)

\* What add_tie_break_edges is for: the order it records is a path as it grows,
\* and at the end no two nodes are without an order.
NewOrderBreaksTies == NewOrderIsPath /\ TiesBroken

InOrder ==
    \A i, j \in 1..Len(load_order) :
        <<load_order[i], load_order[j]>> \in graph.edges => i < j

\* If the existing load order satisfies every edge there is, no step adds an
\* edge that it does not satisfy: a good load order is left as it is.
KeepsGoodOrder == [][InOrder => InOrder']_<<graph, tieVars>>
=============================================================================
