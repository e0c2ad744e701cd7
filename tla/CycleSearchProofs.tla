------------------------- MODULE CycleSearchProofs --------------------------
(***************************************************************************)
(* find_cycle reports a cycle exactly when there is one, for any number of *)
(* nodes, any edges and any names.                                         *)
(*                                                                         *)
(* What makes it hard is that a search may start at a node that an earlier *)
(* one has finished, and mark it grey again: for as long as it is looked   *)
(* at, the black nodes by themselves are not closed under the edges.  They *)
(* are together with that node, all of whose edges lead to finished nodes.  *)
(***************************************************************************)
EXTENDS CycleSearch, Reachability

\* What the stack and the trail are sequences of.
Frames == [node : Nodes, unprocessed : SUBSET (DOMAIN digraph)]
TrailVertices == [name : {name[n] : n \in Nodes}, edge : DOMAIN digraph]

\* The types of the search's variables while it looks for a cycle.
TypeOK ==
    /\ digraph \in Seq(Nodes \X Nodes)
    /\ next_start \in 1..(NodeCount + 1)
    /\ colour_map \in [Nodes -> {"White", "Grey", "Black"}]
    /\ stack \in Seq(Frames)
    /\ \A k \in 1..Len(stack) : stack[k].unprocessed \subseteq edges(stack[k].node)
    /\ trail \in Seq(TrailVertices)
    /\ \A i \in 1..Len(trail) : trail[i].name = name[digraph[trail[i].edge][1]]

\* The grey nodes are those of the stack, each once.
GreyOnStack ==
    /\ \A n \in Nodes :
          colour_map[n] = "Grey" <=> \E k \in 1..Len(stack) : stack[k].node = n
    /\ \A j, k \in 1..Len(stack) : j # k => stack[j].node # stack[k].node

Blacks == {n \in Nodes : colour_map[n] = "Black"}

\* Every search so far has coloured its start.
StartsColoured == \A n \in 1..(next_start - 1) : colour_map[n] # "White"

\* An edge that has been processed led to a finished node, or to the next one
\* of the stack.
ProcessedEdges ==
    \A k \in 1..Len(stack) : \A e \in edges(stack[k].node) \ stack[k].unprocessed :
        \/ digraph[e][2] \in Blacks
        \/ k < Len(stack) /\ digraph[e][2] = stack[k + 1].node

\* No edge leaves the set and no cycle is in it.
Settled(T) ==
    /\ \A i \in DOMAIN digraph : digraph[i][1] \in T => digraph[i][2] \in T
    /\ \A S \in SUBSET T : ~CycleIn(S)

\* The black nodes are settled, or were before the search started at one.
BlackSettled ==
    \/ Settled(Blacks)
    \/ Len(stack) = 1 /\ Settled(Blacks \cup {stack[1].node})

\* Until a cycle is found.
SearchInv ==
    /\ TypeOK /\ GreyOnStack /\ StartsColoured /\ ProcessedEdges /\ BlackSettled
    /\ TrailFollowsStack

\* Once a cycle has been found.
FoundInv == IsCyclic /\ Closes(trail)

\* What is returned.
ResultInv ==
    \/ result = Searching
    \/ result = Some(trail) /\ found_cycle
    \/ result = NoCycle /\ ~found_cycle /\ ~IsCyclic

\* The inductive invariant.
IInv ==
    /\ found_cycle \in BOOLEAN
    /\ ~found_cycle => SearchInv
    /\ found_cycle => FoundInv
    /\ ResultInv

\* What the constants have to be.
InputsFine == NodeCount \in Nat /\ EdgeLists \subseteq Seq(Nodes \X Nodes)

\* Before the first search no node has a colour and nothing has been found.
LEMMA InitIInv ==
    ASSUME InputsFine, CycleInit
    PROVE  IInv
<1>1. /\ digraph \in Seq(Nodes \X Nodes) /\ next_start = 1 /\ stack = <<>>
      /\ colour_map = [n \in Nodes |-> "White"] /\ trail = <<>>
      /\ found_cycle = FALSE /\ result = Searching /\ NodeCount \in Nat
  BY DEF CycleInit, InputsFine
<1>2. TypeOK
  <2>1. <<>> \in Seq(Frames) /\ <<>> \in Seq(TrailVertices)
    OBVIOUS
  <2>2. Len(stack) = 0 /\ Len(trail) = 0
    BY <1>1
  <2>3. next_start \in 1..(NodeCount + 1)
    BY <1>1
  <2>4. colour_map \in [Nodes -> {"White", "Grey", "Black"}]
    BY <1>1
  <2> QED
    BY <1>1, <2>1, <2>2, <2>3, <2>4 DEF TypeOK
<1>3. GreyOnStack /\ StartsColoured /\ ProcessedEdges /\ TrailFollowsStack
  <2>1. Len(stack) = 0
    BY <1>1
  <2> QED
    BY <1>1, <2>1 DEF GreyOnStack, StartsColoured, ProcessedEdges, TrailFollowsStack
<1>4. BlackSettled
  <2>1. Blacks = {}
    BY <1>1 DEF Blacks
  <2> QED
    BY <2>1 DEF BlackSettled, Settled, CycleIn
<1> QED
  BY <1>1, <1>2, <1>3, <1>4 DEF IInv, SearchInv, ResultInv

\* What is said of the graph and its names alone stays true.
LEMMA GraphFixed ==
    ASSUME digraph' = digraph, name' = name
    PROVE  /\ IsCyclic' <=> IsCyclic
           /\ \A T : Settled(T)' <=> Settled(T)
           /\ \A c : Closes(c)' <=> Closes(c)
           /\ \A n : edges(n)' = edges(n)
           /\ Frames' = Frames /\ TrailVertices' = TrailVertices
<1>1. \A S : CycleIn(S)' <=> CycleIn(S)
  BY DEF CycleIn
<1> QED
  BY <1>1 DEF IsCyclic, Settled, Closes, edges, Frames, TrailVertices, Nodes

\* Once a cycle has been found the search does nothing more to it.
LEMMA FoundStays ==
    ASSUME IInv, found_cycle, CycleStep
    PROVE  IInv'
<1>1. /\ digraph' = digraph /\ name' = name /\ trail' = trail
      /\ found_cycle' = found_cycle /\ (result' = result \/ result' = Some(trail))
      /\ result = Searching
  BY DEF CycleStep, Start, ProcessEdge, FinishNode, Return, visit_tree_edge,
         visit_back_edge, finish_node
<1>2. FoundInv'
  BY <1>1, GraphFixed DEF IInv, FoundInv
<1>3. ResultInv'
  BY <1>1 DEF ResultInv, Searching, Some
<1> QED
  BY <1>1, <1>2, <1>3 DEF IInv

\* The black nodes of an idle search are settled and no node is grey.
LEMMA IdleSearch ==
    ASSUME SearchInv, stack = <<>>
    PROVE  /\ Settled(Blacks)
           /\ \A n \in Nodes : colour_map[n] \in {"White", "Black"}
           /\ trail = <<>>
<1>1. Len(stack) = 0
  OBVIOUS
<1>2. Settled(Blacks)
  BY <1>1 DEF SearchInv, BlackSettled
<1>3. \A n \in Nodes : colour_map[n] # "Grey"
  BY <1>1 DEF SearchInv, GreyOnStack
<1> QED
  BY <1>2, <1>3 DEF SearchInv, TypeOK, TrailFollowsStack

\* The next search starts, at a node without a colour or at a finished one.
LEMMA StartKeeps ==
    ASSUME InputsFine, IInv, Start
    PROVE  IInv'
<1>1. /\ SearchInv /\ stack = <<>> /\ ~found_cycle /\ found_cycle' = found_cycle
      /\ digraph' = digraph /\ name' = name /\ trail' = trail /\ result' = result
      /\ result = Searching /\ next_start \in Nodes /\ next_start' = next_start + 1
      /\ stack' = <<[node |-> next_start, unprocessed |-> edges(next_start)]>>
      /\ colour_map' = [colour_map EXCEPT ![next_start] = "Grey"]
  BY DEF Start, IInv
<1>2. /\ Settled(Blacks) /\ trail = <<>>
      /\ \A n \in Nodes : colour_map[n] \in {"White", "Black"}
  BY <1>1, IdleSearch
<1>3. /\ Len(stack') = 1 /\ stack'[1] \in Frames /\ stack' \in Seq(Frames)
      /\ stack'[1].node = next_start /\ stack'[1].unprocessed = edges(next_start)
  <2>1. edges(next_start) \in SUBSET (DOMAIN digraph)
    BY DEF edges
  <2>2. [node |-> next_start, unprocessed |-> edges(next_start)] \in Frames
    BY <1>1, <2>1 DEF Frames
  <2> QED
    BY <1>1, <2>2
<1>4. /\ colour_map' \in [Nodes -> {"White", "Grey", "Black"}]
      /\ \A n \in Nodes : colour_map'[n] = IF n = next_start THEN "Grey"
                                           ELSE colour_map[n]
  BY <1>1 DEF SearchInv, TypeOK
<1>5. TypeOK'
  <2>1. next_start' \in 1..(NodeCount + 1)
    BY <1>1 DEF InputsFine, Nodes
  <2>2. /\ Nodes' = Nodes /\ Frames' = Frames /\ TrailVertices' = TrailVertices
        /\ \A n : edges(n)' = edges(n)
    BY <1>1, GraphFixed DEF Nodes
  <2> QED
    BY <1>1, <1>3, <1>4, <2>1, <2>2 DEF SearchInv, TypeOK
<1>6. GreyOnStack'
  BY <1>1, <1>2, <1>3, <1>4 DEF GreyOnStack, Nodes
<1>7. StartsColoured'
  BY <1>1, <1>4 DEF SearchInv, TypeOK, StartsColoured, InputsFine, Nodes
<1>8. ProcessedEdges'
  <2>1. \A n : edges(n)' = edges(n)
    BY <1>1, GraphFixed
  <2> QED
    BY <1>3, <2>1 DEF ProcessedEdges
<1>9. BlackSettled'
  <2>1. \A T : Settled(T)' <=> Settled(T)
    BY <1>1, GraphFixed
  <2>2. CASE colour_map[next_start] = "White"
    <3>1. Blacks' = Blacks
      BY <1>1, <1>4, <2>2 DEF Blacks, Nodes
    <3> QED
      BY <1>2, <2>1, <3>1 DEF BlackSettled
  <2>3. CASE colour_map[next_start] = "Black"
    <3>1. (Blacks \cup {stack[1].node})' = Blacks
      BY <1>1, <1>3, <1>4, <2>3 DEF Blacks, Nodes
    <3> QED
      BY <1>2, <1>3, <2>1, <3>1 DEF BlackSettled
  <2> QED
    BY <1>1, <1>2, <2>2, <2>3
<1>10. TrailFollowsStack'
  <2>1. Len(trail') = 0 /\ stack' # <<>>
    BY <1>1, <1>2, <1>3
  <2> QED
    BY <1>1, <1>2, <1>3, <2>1 DEF TrailFollowsStack
<1> QED
  BY <1>1, <1>5, <1>6, <1>7, <1>8, <1>9, <1>10 DEF IInv, SearchInv, ResultInv

\* find_cycle returns without a cycle when every node is finished.
LEMMA ReturnKeeps ==
    ASSUME InputsFine, IInv, ~found_cycle, Return
    PROVE  IInv'
<1>1. /\ SearchInv /\ stack = <<>> /\ result' = NoCycle /\ next_start \notin Nodes
      /\ UNCHANGED <<digraph, name, next_start, colour_map, stack, trail, found_cycle>>
  BY DEF Return, IInv
<1>2. /\ Settled(Blacks) /\ \A n \in Nodes : colour_map[n] \in {"White", "Black"}
  BY <1>1, IdleSearch
<1>3. Nodes \subseteq Blacks
  <2>1. next_start = NodeCount + 1 /\ NodeCount \in Nat
    BY <1>1 DEF SearchInv, TypeOK, InputsFine, Nodes
  <2>2. \A n \in Nodes : n \in 1..(next_start - 1)
    BY <2>1 DEF Nodes
  <2> QED
    BY <1>1, <1>2, <2>2 DEF SearchInv, StartsColoured, Blacks
<1>4. ~IsCyclic
  BY <1>2, <1>3 DEF IsCyclic, Settled
<1>5. SearchInv'
  <2>1. /\ Frames' = Frames /\ TrailVertices' = TrailVertices
        /\ \A n : edges(n)' = edges(n) /\ \A T : Settled(T)' <=> Settled(T)
        /\ Blacks' = Blacks /\ Nodes' = Nodes
    BY <1>1, GraphFixed DEF Blacks, Nodes
  <2> QED
    BY <1>1, <2>1
    DEF SearchInv, TypeOK, GreyOnStack, StartsColoured, ProcessedEdges, BlackSettled,
        TrailFollowsStack
<1>6. ~IsCyclic'
  BY <1>1, <1>4, GraphFixed
<1> QED
  BY <1>1, <1>5, <1>6 DEF IInv, ResultInv

\* The stack without the edge e of its last node.
Rest(e, n, rest) ==
    /\ rest \in Seq(Frames) /\ Len(rest) = n
    /\ \A k \in 1..n : /\ rest[k].node = stack[k].node
                       /\ rest[k].unprocessed \subseteq stack[k].unprocessed
    /\ \A k \in 1..n : \A d \in stack[k].unprocessed :
          d \in rest[k].unprocessed \/ (k = n /\ d = e)

\* The edge that is processed leaves the last node of the stack, and is the
\* only thing that is taken from it.
LEMMA EdgeTaken ==
    ASSUME SearchInv, stack # <<>>, Last(stack).unprocessed # {},
           NEW e, e = Min(Last(stack).unprocessed)
    PROVE  /\ e \in DOMAIN digraph /\ digraph[e] \in Nodes \X Nodes
           /\ digraph[e][1] = stack[Len(stack)].node
           /\ Len(stack) \in Nat /\ Len(stack) >= 1
           /\ Rest(e, Len(stack), [stack EXCEPT ![Len(stack)].unprocessed = @ \ {e}])
<1> DEFINE n == Len(stack)
           frame == [stack[n] EXCEPT !.unprocessed = stack[n].unprocessed \ {e}]
<1>1. n \in Nat /\ n >= 1 /\ n \in 1..n /\ stack \in Seq(Frames) /\ stack[n] \in Frames
  BY DEF SearchInv, TypeOK
<1>2. /\ stack[n].unprocessed \subseteq edges(stack[n].node)
      /\ stack[n].unprocessed \subseteq DOMAIN digraph
  BY <1>1 DEF SearchInv, TypeOK, Frames
<1>3. DOMAIN digraph \subseteq Nat /\ \A i \in DOMAIN digraph : digraph[i] \in Nodes \X Nodes
  BY DEF SearchInv, TypeOK
<1>4. e \in stack[n].unprocessed
  BY <1>2, <1>3, MinOfNumbers DEF Last
<1>5. e \in DOMAIN digraph /\ digraph[e] \in Nodes \X Nodes /\ digraph[e][1] = stack[n].node
  BY <1>2, <1>3, <1>4 DEF edges
<1>6. PICK rest : rest = [stack EXCEPT ![n] = frame]
  OBVIOUS
<1>7. rest = [stack EXCEPT ![Len(stack)].unprocessed = @ \ {e}]
  BY <1>6
<1>8. /\ frame \in Frames /\ frame.node = stack[n].node
      /\ frame.unprocessed = stack[n].unprocessed \ {e}
  BY <1>1 DEF Frames
<1> HIDE DEF frame
<1>9. /\ rest \in Seq(Frames) /\ Len(rest) = n
      /\ \A k \in 1..n : rest[k] = IF k = n THEN frame ELSE stack[k]
  BY <1>1, <1>6, <1>8, ExceptSeq
<1>10. n \in Nat /\ n >= 1 /\ n = Len(stack)
  BY <1>1
<1> HIDE DEF n
<1>11. Rest(e, n, rest)
  <2>1. ASSUME NEW k \in 1..n
        PROVE  /\ rest[k].node = stack[k].node
               /\ rest[k].unprocessed \subseteq stack[k].unprocessed
               /\ \A d \in stack[k].unprocessed :
                     d \in rest[k].unprocessed \/ (k = n /\ d = e)
    <3>1. CASE k = n
      <4>1. rest[k] = frame
        BY <1>9, <3>1
      <4> QED
        BY <1>8, <3>1, <4>1
    <3>2. CASE k # n
      <4>1. rest[k] = stack[k]
        BY <1>9, <3>2
      <4> QED
        BY <4>1
    <3> QED
      BY <3>1, <3>2
  <2> QED
    BY <1>9, <2>1 DEF Rest
<1> QED
  BY <1>5, <1>10, <1>11, <1>7

\* What the trail says, in terms of the stack.
LEMMA TrailOfStack ==
    ASSUME SearchInv, stack # <<>>
    PROVE  /\ trail \in Seq(TrailVertices) /\ Len(trail) = Len(stack) - 1
           /\ \A i \in 1..(Len(stack) - 1) :
                 digraph[trail[i].edge] = <<stack[i].node, stack[i + 1].node>>
<1>1. trail \in Seq(TrailVertices)
  BY DEF SearchInv, TypeOK
<1>2. /\ Len(trail) = Len(stack) - 1
      /\ \A i \in DOMAIN trail :
            digraph[trail[i].edge] = <<stack[i].node, stack[i + 1].node>>
  BY DEF SearchInv, TrailFollowsStack
<1>3. DOMAIN trail = 1..(Len(stack) - 1)
  BY <1>1, <1>2
<1> QED
  BY <1>1, <1>2, <1>3

\* The edge's source, which is the last node of the stack, is put on the trail.
LEMMA PushedTrail ==
    ASSUME SearchInv, stack # <<>>, NEW e \in DOMAIN digraph,
           digraph[e][1] = stack[Len(stack)].node
    PROVE  /\ Pushed(e) \in Seq(TrailVertices) /\ Len(Pushed(e)) = Len(stack)
           /\ \A i \in 1..Len(stack) :
                 /\ Pushed(e)[i].name = name[stack[i].node]
                 /\ digraph[Pushed(e)[i].edge][1] = stack[i].node
                 /\ digraph[Pushed(e)[i].edge][2] = IF i = Len(stack) THEN digraph[e][2]
                                                  ELSE stack[i + 1].node
<1> DEFINE n == Len(stack)
<1>1. PICK x : x = [name |-> name[digraph[e][1]], edge |-> e]
  OBVIOUS
<1>2. /\ n \in Nat /\ n >= 1 /\ digraph[e][1] \in Nodes
      /\ x.name = name[stack[n].node] /\ x.edge = e /\ digraph[e][1] = stack[n].node
  BY <1>1 DEF SearchInv, TypeOK
<1>3. x \in TrailVertices
  BY <1>1, <1>2 DEF TrailVertices
<1>4. /\ trail \in Seq(TrailVertices) /\ Len(trail) = n - 1
      /\ \A i \in 1..(n - 1) :
            digraph[trail[i].edge] = <<stack[i].node, stack[i + 1].node>>
  BY TrailOfStack
<1>5. \A i \in 1..(n - 1) : trail[i].name = name[digraph[trail[i].edge][1]]
  BY <1>2, <1>4 DEF SearchInv, TypeOK
<1> HIDE DEF n
<1>6. PICK pushed : pushed = Pushed(e)
  OBVIOUS
<1>7. /\ pushed \in Seq(TrailVertices) /\ Len(pushed) = n /\ pushed[n] = x
      /\ \A i \in 1..(n - 1) : pushed[i] = trail[i]
  BY <1>1, <1>2, <1>3, <1>4, <1>6, AppendProperties DEF Pushed
<1>8. ASSUME NEW i \in 1..n
      PROVE  /\ pushed[i].name = name[stack[i].node]
             /\ digraph[pushed[i].edge][1] = stack[i].node
             /\ digraph[pushed[i].edge][2] = IF i = n THEN digraph[e][2]
                                           ELSE stack[i + 1].node
  <2>1. CASE i = n
    BY <1>2, <1>7, <2>1
  <2>2. CASE i # n
    <3>1. i \in 1..(n - 1) /\ pushed[i] = trail[i]
      BY <1>2, <1>7, <2>2
    <3>2. digraph[trail[i].edge] = <<stack[i].node, stack[i + 1].node>>
      BY <1>4, <3>1
    <3>3. /\ digraph[trail[i].edge][1] = stack[i].node
          /\ digraph[trail[i].edge][2] = stack[i + 1].node
      BY <3>2
    <3>4. trail[i].name = name[stack[i].node]
      BY <1>5, <3>1, <3>3
    <3> QED
      BY <2>2, <3>1, <3>3, <3>4
  <2> QED
    BY <2>1, <2>2
<1> QED
  BY <1>6, <1>7, <1>8 DEF n

\* After a tree edge its target is the last of the stack.
LEMMA TreeEdgeKeeps ==
    ASSUME IInv, ~found_cycle, ProcessEdge,
           NEW e, e = Min(Last(stack).unprocessed), colour_map[digraph[e][2]] = "White"
    PROVE  IInv'
<1> DEFINE n == Len(stack)
<1>1. PICK v : v = digraph[e][2]
  OBVIOUS
<1>2. PICK rest : rest = [stack EXCEPT ![Len(stack)].unprocessed = @ \ {e}]
  OBVIOUS
<1>3. /\ SearchInv /\ stack # <<>> /\ Last(stack).unprocessed # {}
      /\ UNCHANGED <<digraph, name, next_start, found_cycle, result>> /\ result = Searching
      /\ colour_map' = [colour_map EXCEPT ![v] = "Grey"]
      /\ stack' = Append(rest, [node |-> v, unprocessed |-> edges(v)])
      /\ trail' = Pushed(e)
  BY <1>1, <1>2 DEF ProcessEdge, IInv, visit_tree_edge
<1>4. /\ e \in DOMAIN digraph /\ digraph[e] \in Nodes \X Nodes /\ v \in Nodes
      /\ digraph[e][1] = stack[n].node /\ n \in Nat /\ n >= 1
      /\ rest \in Seq(Frames) /\ Len(rest) = n
      /\ \A k \in 1..n : /\ rest[k].node = stack[k].node
                         /\ rest[k].unprocessed \subseteq stack[k].unprocessed
      /\ \A k \in 1..n : \A d \in stack[k].unprocessed :
            d \in rest[k].unprocessed \/ (k = n /\ d = e)
  <2>1. /\ e \in DOMAIN digraph /\ digraph[e] \in Nodes \X Nodes
        /\ digraph[e][1] = stack[n].node /\ n \in Nat /\ n >= 1 /\ Rest(e, n, rest)
    BY <1>2, <1>3, EdgeTaken
  <2>2. v \in Nodes
    BY <1>1, <2>1
  <2> QED
    BY <2>1, <2>2 DEF Rest
<1>5. PICK frame : frame = [node |-> v, unprocessed |-> edges(v)]
  OBVIOUS
<1>6. frame \in Frames /\ frame.node = v /\ frame.unprocessed = edges(v)
  BY <1>4, <1>5 DEF Frames, edges
<1>7. /\ stack' \in Seq(Frames) /\ Len(stack') = n + 1 /\ stack'[n + 1] = frame
      /\ \A k \in 1..n : stack'[k] = rest[k]
  BY <1>3, <1>4, <1>5, <1>6, AppendProperties
<1>8. /\ trail' \in Seq(TrailVertices) /\ Len(trail') = n
      /\ \A i \in 1..n :
            /\ trail'[i].name = name[stack[i].node]
            /\ digraph[trail'[i].edge][1] = stack[i].node
            /\ digraph[trail'[i].edge][2] = IF i = n THEN v ELSE stack[i + 1].node
  BY <1>1, <1>3, <1>4, PushedTrail
<1> HIDE DEF n
<1>9. /\ colour_map' \in [Nodes -> {"White", "Grey", "Black"}]
      /\ \A m \in Nodes : colour_map'[m] = IF m = v THEN "Grey" ELSE colour_map[m]
      /\ colour_map[v] = "White" /\ Blacks' = Blacks
  BY <1>1, <1>3, <1>4 DEF SearchInv, TypeOK, Blacks, Nodes
<1>10. /\ Nodes' = Nodes /\ Frames' = Frames /\ TrailVertices' = TrailVertices
       /\ \A m : edges(m)' = edges(m) /\ \A T : Settled(T)' <=> Settled(T)
  BY <1>3, GraphFixed DEF Nodes
<1>11. TypeOK'
  <2>1. ASSUME NEW k \in 1..(n + 1)
        PROVE  stack'[k].unprocessed \subseteq edges(stack'[k].node)
    <3>1. CASE k = n + 1
      BY <1>6, <1>7, <3>1
    <3>2. CASE k # n + 1
      <4>1. k \in 1..n /\ stack'[k] = rest[k]
        BY <1>4, <1>7, <3>2
      <4>2. stack[k].unprocessed \subseteq edges(stack[k].node)
        BY <1>3, <4>1 DEF SearchInv, TypeOK, n
      <4> QED
        BY <1>4, <4>1, <4>2
    <3> QED
      BY <3>1, <3>2
  <2>2. \A i \in 1..n : trail'[i].name = name[digraph[trail'[i].edge][1]]
    BY <1>8
  <2> QED
    BY <1>3, <1>7, <1>8, <1>9, <1>10, <2>1, <2>2 DEF SearchInv, TypeOK
<1>12. GreyOnStack'
  <2>1. \A k \in 1..n : stack[k].node # v
    BY <1>3, <1>4, <1>9 DEF SearchInv, GreyOnStack, n
  <2>2. \A k \in 1..(n + 1) : stack'[k].node = IF k = n + 1 THEN v ELSE stack[k].node
    BY <1>4, <1>6, <1>7
  <2>3. \A m \in Nodes : colour_map[m] = "Grey" <=> \E k \in 1..n : stack[k].node = m
    BY <1>3 DEF SearchInv, GreyOnStack, n
  <2>4. \A j, k \in 1..n : j # k => stack[j].node # stack[k].node
    BY <1>3 DEF SearchInv, GreyOnStack, n
  <2>5. ASSUME NEW m \in Nodes
        PROVE  colour_map'[m] = "Grey" <=> \E k \in 1..(n + 1) : stack'[k].node = m
    <3>1. CASE m = v
      BY <1>4, <1>9, <2>2, <3>1
    <3>2. CASE m # v
      <4>1. colour_map'[m] = colour_map[m]
        BY <1>9, <3>2
      <4>2. \A k \in 1..n : k \in 1..(n + 1) /\ k # n + 1
        BY <1>4
      <4> QED
        BY <1>4, <2>2, <2>3, <3>2, <4>1, <4>2
    <3> QED
      BY <3>1, <3>2
  <2>6. \A j, k \in 1..(n + 1) : j # k => stack'[j].node # stack'[k].node
    BY <1>4, <2>1, <2>2, <2>4
  <2> QED
    BY <1>7, <1>10, <2>5, <2>6 DEF GreyOnStack
<1>13. StartsColoured'
  BY <1>3, <1>9 DEF SearchInv, TypeOK, StartsColoured, Nodes
<1>14. ProcessedEdges'
  <2> SUFFICES ASSUME NEW k \in 1..(n + 1),
                      NEW d \in edges(stack'[k].node) \ stack'[k].unprocessed
               PROVE  \/ digraph[d][2] \in Blacks
                      \/ k < n + 1 /\ digraph[d][2] = stack'[k + 1].node
    BY <1>3, <1>7, <1>9, <1>10 DEF ProcessedEdges
  <2>1. k # n + 1
    BY <1>6, <1>7
  <2>2. k \in 1..n /\ d \in edges(stack[k].node) \ rest[k].unprocessed
    BY <1>4, <1>7, <2>1
  <2>3. CASE d = e /\ k = n
    BY <1>1, <1>4, <1>6, <1>7, <2>3
  <2>4. CASE ~(d = e /\ k = n)
    <3>1. d \notin stack[k].unprocessed
      BY <1>4, <2>2, <2>4
    <3>2. \/ digraph[d][2] \in Blacks
          \/ k < n /\ digraph[d][2] = stack[k + 1].node
      BY <1>3, <2>2, <3>1 DEF SearchInv, ProcessedEdges, n
    <3>3. k < n => stack'[k + 1].node = stack[k + 1].node
      BY <1>4, <1>7, <2>2
    <3> QED
      BY <1>4, <2>2, <3>2, <3>3
  <2> QED
    BY <2>3, <2>4
<1>15. BlackSettled'
  <2>1. ASSUME Len(stack) = 1, Settled(Blacks \cup {stack[1].node})
        PROVE  FALSE
    <3>1. v \in Blacks \cup {stack[1].node}
      BY <1>1, <1>4, <2>1 DEF Settled, n
    <3>2. v \notin Blacks
      BY <1>9 DEF Blacks
    <3>3. v # stack[1].node
      BY <1>3, <1>4, <1>9, <2>1 DEF SearchInv, GreyOnStack, n
    <3> QED
      BY <3>1, <3>2, <3>3
  <2>2. Settled(Blacks)
    BY <1>3, <2>1 DEF SearchInv, BlackSettled
  <2> QED
    BY <1>9, <1>10, <2>2 DEF BlackSettled
<1>16. TrailFollowsStack'
  <2>1. ASSUME NEW i \in 1..n
        PROVE  digraph[trail'[i].edge] = <<stack'[i].node, stack'[i + 1].node>>
    <3>1. trail'[i].edge \in DOMAIN digraph
      <4>1. trail'[i] \in TrailVertices
        BY <1>8
      <4> QED
        BY <4>1 DEF TrailVertices
    <3>2. digraph[trail'[i].edge] = <<digraph[trail'[i].edge][1], digraph[trail'[i].edge][2]>>
      <4>1. \A d \in DOMAIN digraph : digraph[d] \in Nodes \X Nodes
        BY <1>3 DEF SearchInv, TypeOK
      <4>2. digraph[trail'[i].edge] \in Nodes \X Nodes
        BY <1>3, <3>1, <4>1
      <4> QED
        BY <4>2
    <3>3. digraph[trail'[i].edge][1] = stack'[i].node
      BY <1>4, <1>7, <1>8
    <3>4. digraph[trail'[i].edge][2] = stack'[i + 1].node
      <4>1. CASE i = n
        BY <1>6, <1>7, <1>8, <4>1
      <4>2. CASE i # n
        <5>1. i + 1 \in 1..n
          BY <1>4, <4>2
        <5>2. stack'[i + 1].node = stack[i + 1].node
          BY <1>4, <1>7, <5>1
        <5> QED
          BY <1>8, <4>2, <5>2
      <4> QED
        BY <4>1, <4>2
    <3> QED
      BY <3>2, <3>3, <3>4
  <2>2. stack' # <<>> /\ DOMAIN trail' = 1..n /\ Len(trail') = Len(stack') - 1
    BY <1>4, <1>7, <1>8
  <2> QED
    BY <1>3, <2>1, <2>2 DEF TrailFollowsStack
<1> QED
  BY <1>3, <1>11, <1>12, <1>13, <1>14, <1>15, <1>16 DEF IInv, SearchInv, ResultInv

\* After a back edge a cycle has been found: the nodes from the edge's target to
\* its source are one, and the trail is cut to close.
LEMMA BackEdgeKeeps ==
    ASSUME IInv, ~found_cycle, ProcessEdge,
           NEW e, e = Min(Last(stack).unprocessed), colour_map[digraph[e][2]] = "Grey"
    PROVE  IInv'
<1> DEFINE n == Len(stack)
<1>1. PICK v : v = digraph[e][2]
  OBVIOUS
<1>2. PICK pushed : pushed = Pushed(e)
  OBVIOUS
<1>3. PICK I : I = {i \in 1..Len(pushed) : pushed[i].name = name[v]}
  OBVIOUS
<1>4. PICK pos : pos = IF I # {} THEN Min(I) ELSE 0
  OBVIOUS
<1>5. /\ SearchInv /\ stack # <<>> /\ Last(stack).unprocessed # {}
      /\ UNCHANGED <<digraph, name, next_start, colour_map, result>> /\ result = Searching
      /\ pos # 0 => trail' = SubSeq(pushed, pos, Len(pushed)) /\ found_cycle' = TRUE
  <2>1. visit_back_edge(e)
    BY DEF ProcessEdge
  <2>2. pos # 0 => trail' = SubSeq(pushed, pos, Len(pushed)) /\ found_cycle' = TRUE
    BY <1>1, <1>2, <1>3, <1>4, <2>1 DEF visit_back_edge, SelectInSeq
  <2>3. SearchInv
    BY DEF IInv
  <2>4. /\ stack # <<>> /\ Last(stack).unprocessed # {} /\ result = Searching
        /\ UNCHANGED <<digraph, name, next_start, result>>
    BY DEF ProcessEdge
  <2>5. UNCHANGED colour_map
    BY DEF ProcessEdge
  <2> QED
    BY <2>2, <2>3, <2>4, <2>5
<1>6. /\ e \in DOMAIN digraph /\ v \in Nodes /\ digraph[e][1] = stack[n].node
      /\ n \in Nat /\ n >= 1
  BY <1>1, <1>5, EdgeTaken
<1>7. /\ pushed \in Seq(TrailVertices) /\ Len(pushed) = n
      /\ \A i \in 1..n :
            /\ pushed[i].name = name[stack[i].node]
            /\ digraph[pushed[i].edge][1] = stack[i].node
            /\ digraph[pushed[i].edge][2] = IF i = n THEN v ELSE stack[i + 1].node
  BY <1>1, <1>2, <1>5, <1>6, PushedTrail
<1>8. PICK j \in 1..n : stack[j].node = v
  <2>1. GreyOnStack
    BY <1>5 DEF SearchInv
  <2>2. \E k \in 1..Len(stack) : stack[k].node = v
    BY <1>1, <1>6, <2>1 DEF GreyOnStack
  <2> QED
    BY <2>2
<1>9. \A i \in 1..n : stack[i].node \in Nodes
  <2>1. stack \in Seq(Frames)
    BY <1>5 DEF SearchInv, TypeOK
  <2>2. \A i \in 1..n : stack[i] \in Frames
    BY <2>1
  <2> QED
    BY <2>2 DEF Frames
<1> HIDE DEF n
<1>10. pos \in 1..n /\ pushed[pos].name = name[v]
  <2>1. j \in I /\ I \subseteq Nat /\ \A i \in I : i \in 1..n /\ pushed[i].name = name[v]
    BY <1>3, <1>6, <1>7, <1>8
  <2>2. pos \in I
    BY <1>4, <2>1, MinOfNumbers
  <2> QED
    BY <2>1, <2>2
<1>11. /\ found_cycle' = TRUE /\ Len(trail') = n - pos + 1
       /\ trail' \in Seq(TrailVertices)
       /\ \A i \in 1..(n - pos + 1) : trail'[i] = pushed[pos + i - 1]
  <2>1. /\ trail' = SubSeq(pushed, pos, n) /\ found_cycle' = TRUE
    BY <1>5, <1>6, <1>7, <1>10
  <2>2. \A i \in pos..n : pushed[i] \in TrailVertices
    BY <1>6, <1>7, <1>10
  <2> QED
    BY <1>6, <1>10, <2>1, <2>2, SubSeqProperties
<1>12. IsCyclic
  <2>1. PICK S : S = {stack[i].node : i \in j..n}
    OBVIOUS
  <2>2. S \in SUBSET Nodes /\ S # {}
    BY <1>6, <1>8, <1>9, <2>1
  <2>3. ASSUME NEW i \in j..n
        PROVE  \E d \in DOMAIN digraph : digraph[d][1] = stack[i].node /\ digraph[d][2] \in S
    <3>1. i \in 1..n /\ pushed[i] \in TrailVertices
      BY <1>6, <1>7, <1>8
    <3>2. pushed[i].edge \in DOMAIN digraph
      BY <3>1 DEF TrailVertices
    <3>3. digraph[pushed[i].edge][2] \in S
      <4>1. CASE i = n
        <5>1. v \in S
          BY <1>6, <1>8, <2>1
        <5> QED
          BY <1>7, <3>1, <4>1, <5>1
      <4>2. CASE i # n
        <5>1. i + 1 \in j..n
          BY <1>6, <1>8, <4>2
        <5>2. stack[i + 1].node \in S
          BY <2>1, <5>1
        <5> QED
          BY <1>7, <3>1, <4>2, <5>2
      <4> QED
        BY <4>1, <4>2
    <3> QED
      BY <1>7, <3>1, <3>2, <3>3
  <2>4. CycleIn(S)
    BY <2>1, <2>2, <2>3 DEF CycleIn
  <2> QED
    BY <2>2, <2>4 DEF IsCyclic
<1>13. Closes(trail)'
  <2>1. ASSUME NEW i \in 1..(n - pos + 1)
        PROVE  /\ name[digraph[trail'[i].edge][1]] = trail'[i].name
               /\ name[digraph[trail'[i].edge][2]]
                    = trail'[IF i = n - pos + 1 THEN 1 ELSE i + 1].name
    <3>1. /\ pos + i - 1 \in 1..n /\ trail'[i] = pushed[pos + i - 1]
          /\ (pos + i - 1 = n <=> i = n - pos + 1)
      BY <1>6, <1>10, <1>11
    <3>2. name[digraph[trail'[i].edge][1]] = trail'[i].name
      BY <1>7, <3>1
    <3>3. CASE i = n - pos + 1
      <4>1. 1 \in 1..(n - pos + 1) /\ pos + 1 - 1 = pos
        BY <1>6, <1>10
      <4>2. trail'[1] = pushed[pos]
        BY <1>11, <4>1
      <4>3. digraph[trail'[i].edge][2] = v
        BY <1>7, <3>1, <3>3
      <4> QED
        BY <1>10, <3>2, <3>3, <4>2, <4>3
    <3>4. CASE i # n - pos + 1
      <4>1. /\ i + 1 \in 1..(n - pos + 1) /\ pos + (i + 1) - 1 = pos + i - 1 + 1
            /\ pos + i - 1 + 1 \in 1..n
        BY <1>6, <1>10, <3>4
      <4>2. trail'[i + 1] = pushed[pos + i - 1 + 1]
        BY <1>11, <4>1
      <4>3. digraph[trail'[i].edge][2] = stack[pos + i - 1 + 1].node
        BY <1>7, <3>1, <3>4
      <4>4. pushed[pos + i - 1 + 1].name = name[stack[pos + i - 1 + 1].node]
        BY <1>7, <4>1
      <4> QED
        BY <3>2, <3>4, <4>2, <4>3, <4>4
    <3> QED
      BY <3>3, <3>4
  <2>2. DOMAIN trail' = 1..(n - pos + 1) /\ trail' # <<>>
    BY <1>6, <1>10, <1>11
  <2> QED
    BY <1>5, <1>11, <2>1, <2>2 DEF Closes
<1>14. IsCyclic'
  BY <1>5, <1>12, GraphFixed
<1> QED
  BY <1>5, <1>11, <1>13, <1>14 DEF IInv, FoundInv, ResultInv

\* An edge to a finished node changes nothing else.
LEMMA BlackEdgeKeeps ==
    ASSUME IInv, ~found_cycle, ProcessEdge,
           NEW e, e = Min(Last(stack).unprocessed), colour_map[digraph[e][2]] = "Black"
    PROVE  IInv'
<1> DEFINE n == Len(stack)
<1>1. PICK rest : rest = [stack EXCEPT ![Len(stack)].unprocessed = @ \ {e}]
  OBVIOUS
<1>2. /\ SearchInv /\ stack # <<>> /\ Last(stack).unprocessed # {} /\ stack' = rest
      /\ result = Searching
      /\ UNCHANGED <<digraph, name, next_start, colour_map, trail, found_cycle, result>>
  BY <1>1 DEF ProcessEdge, IInv
<1>3. /\ e \in DOMAIN digraph /\ digraph[e][2] \in Nodes /\ n \in Nat /\ n >= 1
      /\ stack' \in Seq(Frames) /\ Len(stack') = n
      /\ \A k \in 1..n : /\ stack'[k].node = stack[k].node
                         /\ stack'[k].unprocessed \subseteq stack[k].unprocessed
      /\ \A k \in 1..n : \A d \in stack[k].unprocessed :
            d \in stack'[k].unprocessed \/ (k = n /\ d = e)
  <2>1. /\ e \in DOMAIN digraph /\ digraph[e] \in Nodes \X Nodes
        /\ n \in Nat /\ n >= 1 /\ Rest(e, n, rest)
    BY <1>1, <1>2, EdgeTaken
  <2> QED
    BY <1>2, <2>1 DEF Rest
<1>4. /\ Frames' = Frames /\ TrailVertices' = TrailVertices /\ Nodes' = Nodes
      /\ Blacks' = Blacks /\ \A m : edges(m)' = edges(m)
      /\ \A T : Settled(T)' <=> Settled(T)
  BY <1>2, GraphFixed DEF Nodes, Blacks
<1> HIDE DEF n
<1>5. TypeOK'
  <2>1. \A k \in 1..n : stack'[k].unprocessed \subseteq edges(stack'[k].node)
    BY <1>2, <1>3 DEF SearchInv, TypeOK, n
  <2> QED
    BY <1>2, <1>3, <1>4, <2>1 DEF SearchInv, TypeOK
<1>6. GreyOnStack' /\ StartsColoured'
  <2>1. Len(stack) = n
    BY DEF n
  <2> QED
    BY <1>2, <1>3, <1>4, <2>1 DEF SearchInv, GreyOnStack, StartsColoured
<1>7. ProcessedEdges'
  <2>1. ASSUME NEW k \in 1..n, NEW d \in edges(stack[k].node) \ stack'[k].unprocessed
        PROVE  \/ digraph[d][2] \in Blacks
               \/ k < n /\ digraph[d][2] = stack[k + 1].node
    <3>1. CASE d \in stack[k].unprocessed
      <4>1. d = e
        BY <1>3, <3>1, <2>1
      <4> QED
        BY <1>3, <4>1 DEF Blacks
    <3>2. CASE d \notin stack[k].unprocessed
      BY <1>2, <2>1, <3>2 DEF SearchInv, ProcessedEdges, n
    <3> QED
      BY <3>1, <3>2
  <2>2. \A k \in 1..n : k < n => stack'[k + 1].node = stack[k + 1].node
    BY <1>3
  <2> QED
    BY <1>2, <1>3, <1>4, <2>1, <2>2 DEF ProcessedEdges
<1>8. BlackSettled'
  <2>1. n = 1 => stack'[1].node = stack[1].node
    BY <1>3
  <2> QED
    BY <1>2, <1>3, <1>4, <2>1 DEF SearchInv, BlackSettled, n
<1>9. TrailFollowsStack'
  <2>1. /\ trail \in Seq(TrailVertices) /\ Len(trail) = n - 1
        /\ \A i \in 1..(n - 1) :
              digraph[trail[i].edge] = <<stack[i].node, stack[i + 1].node>>
    BY <1>2, TrailOfStack DEF n
  <2>2. stack' # <<>> /\ DOMAIN trail = 1..(n - 1)
    BY <1>3, <2>1
  <2>3. ASSUME NEW i \in 1..(n - 1)
        PROVE  stack'[i].node = stack[i].node /\ stack'[i + 1].node = stack[i + 1].node
    BY <1>3
  <2> QED
    BY <1>2, <1>3, <2>1, <2>2, <2>3 DEF TrailFollowsStack
<1> QED
  BY <1>2, <1>5, <1>6, <1>7, <1>8, <1>9 DEF IInv, SearchInv, ResultInv

\* The edges of a node that is finished lead to finished nodes.
LEMMA FinishedSettled ==
    ASSUME SearchInv, stack # <<>>, Last(stack).unprocessed = {}
    PROVE  Settled(Blacks \cup {Last(stack).node})
<1> DEFINE n == Len(stack)
<1>1. PICK top : top = Last(stack).node
  OBVIOUS
<1>2. /\ n \in Nat /\ n >= 1 /\ stack[n] \in Frames /\ top = stack[n].node
      /\ stack[n].unprocessed = {}
  BY <1>1 DEF SearchInv, TypeOK, Last
<1>3. top \in Nodes /\ top \notin Blacks
  <2>1. top \in Nodes
    BY <1>2 DEF Frames
  <2>2. colour_map[top] = "Grey"
    BY <1>2, <2>1 DEF SearchInv, GreyOnStack
  <2> QED
    BY <2>1, <2>2 DEF Blacks
<1>4. \A i \in DOMAIN digraph : digraph[i][1] = top => digraph[i][2] \in Blacks
  <2>1. \A i \in edges(stack[n].node) \ stack[n].unprocessed : digraph[i][2] \in Blacks
    BY <1>2 DEF SearchInv, ProcessedEdges
  <2> QED
    BY <1>2, <2>1 DEF edges
<1>5. CASE Settled(Blacks)
  <2>1. \A i \in DOMAIN digraph : digraph[i][1] \in Blacks => digraph[i][2] \in Blacks
    BY <1>5 DEF Settled
  <2>2. ASSUME NEW S \in SUBSET (Blacks \cup {top}), CycleIn(S)
        PROVE  FALSE
    <3>1. /\ S # {}
          /\ \A m \in S : \E i \in DOMAIN digraph : digraph[i][1] = m /\ digraph[i][2] \in S
      BY <2>2 DEF CycleIn
    <3>2. \A m \in S : \E i \in DOMAIN digraph :
             digraph[i][1] = m /\ digraph[i][2] \in S \ {top}
      BY <1>3, <1>4, <2>1, <3>1
    <3>3. CycleIn(S \ {top})
      BY <3>1, <3>2 DEF CycleIn
    <3>4. S \ {top} \in SUBSET Blacks
      OBVIOUS
    <3> QED
      BY <1>5, <3>3, <3>4 DEF Settled
  <2> QED
    BY <1>1, <1>4, <2>1, <2>2 DEF Settled
<1>6. CASE ~Settled(Blacks)
  BY <1>1, <1>2, <1>6 DEF SearchInv, BlackSettled
<1> QED
  BY <1>5, <1>6

\* The last node of the stack is finished.
LEMMA FinishKeeps ==
    ASSUME InputsFine, IInv, ~found_cycle, FinishNode
    PROVE  IInv'
<1> DEFINE n == Len(stack)
<1>1. PICK top : top = Last(stack).node
  OBVIOUS
<1>2. /\ SearchInv /\ stack # <<>> /\ Last(stack).unprocessed = {} /\ result = Searching
      /\ UNCHANGED <<digraph, name, next_start, found_cycle, result>>
      /\ stack' = Front(stack) /\ colour_map' = [colour_map EXCEPT ![top] = "Black"]
      /\ trail' = IF trail = <<>> THEN trail ELSE Front(trail)
  BY <1>1 DEF FinishNode, finish_node, IInv
<1>3. /\ n \in Nat /\ n >= 1 /\ stack \in Seq(Frames) /\ stack[n] \in Frames
      /\ top = stack[n].node
  BY <1>1, <1>2 DEF SearchInv, TypeOK, Last
<1>4. /\ stack' \in Seq(Frames) /\ Len(stack') = n - 1
      /\ \A k \in 1..(n - 1) : stack'[k] = stack[k]
  BY <1>2, <1>3, FrontFacts
<1>5. /\ trail \in Seq(TrailVertices) /\ Len(trail) = n - 1
      /\ \A i \in 1..(n - 1) :
            digraph[trail[i].edge] = <<stack[i].node, stack[i + 1].node>>
  BY <1>2, TrailOfStack
<1>6. /\ Settled(Blacks \cup {top})
  BY <1>1, <1>2, FinishedSettled
<1>7. top \in Nodes
  BY <1>3 DEF Frames
<1> HIDE DEF n
<1>8. /\ colour_map' \in [Nodes -> {"White", "Grey", "Black"}]
      /\ \A m \in Nodes : colour_map'[m] = IF m = top THEN "Black" ELSE colour_map[m]
      /\ Blacks' = Blacks \cup {top}
  BY <1>2, <1>7 DEF SearchInv, TypeOK, Blacks, Nodes
<1>9. /\ Nodes' = Nodes /\ Frames' = Frames /\ TrailVertices' = TrailVertices
      /\ \A m : edges(m)' = edges(m) /\ \A T : Settled(T)' <=> Settled(T)
  BY <1>2, GraphFixed DEF Nodes
<1>10. /\ trail' \in Seq(TrailVertices) /\ Len(trail') = IF n = 1 THEN 0 ELSE n - 2
       /\ \A i \in 1..(n - 2) : trail'[i] = trail[i]
       /\ n = 1 => trail' = <<>>
  <2>1. CASE trail = <<>>
    <3>1. n = 1 /\ trail' = <<>> /\ Len(trail') = 0
      BY <1>2, <1>3, <1>5, <2>1
    <3>2. 1..(n - 2) = {} /\ trail' \in Seq(TrailVertices)
      BY <3>1
    <3> QED
      BY <3>1, <3>2
  <2>2. CASE trail # <<>>
    <3>1. n # 1
      BY <1>3, <1>5, <2>2
    <3>2. Front(trail) = trail'
      BY <1>2, <2>2
    <3>3. /\ trail' \in Seq(TrailVertices) /\ Len(trail') = n - 1 - 1
          /\ \A i \in 1..(n - 1 - 1) : trail'[i] = trail[i]
      BY <1>5, <2>2, <3>2, FrontFacts
    <3>4. n - 1 - 1 = n - 2
      BY <1>3
    <3> QED
      BY <3>1, <3>3, <3>4
  <2> QED
    BY <2>1, <2>2
<1>11. TypeOK'
  <2>1. \A k \in 1..(n - 1) : stack'[k].unprocessed \subseteq edges(stack'[k].node)
    BY <1>2, <1>3, <1>4 DEF SearchInv, TypeOK, n
  <2>2. ASSUME NEW i \in 1..Len(trail')
        PROVE  trail'[i].name = name[digraph[trail'[i].edge][1]]
    <3>1. i \in 1..Len(trail) /\ trail'[i] = trail[i]
      BY <1>3, <1>5, <1>10
    <3> QED
      BY <1>2, <3>1 DEF SearchInv, TypeOK
  <2> QED
    BY <1>2, <1>4, <1>8, <1>9, <1>10, <2>1, <2>2 DEF SearchInv, TypeOK
<1>12. GreyOnStack'
  <2>1. /\ \A m \in Nodes : colour_map[m] = "Grey" <=> \E k \in 1..n : stack[k].node = m
        /\ \A j, k \in 1..n : j # k => stack[j].node # stack[k].node
    BY <1>2 DEF SearchInv, GreyOnStack, n
  <2>2. ASSUME NEW m \in Nodes
        PROVE  colour_map'[m] = "Grey" <=> \E k \in 1..(n - 1) : stack'[k].node = m
    <3>1. CASE m = top
      <4>1. \A k \in 1..(n - 1) : stack'[k].node # top
        BY <1>3, <1>4, <2>1
      <4> QED
        BY <1>8, <3>1, <4>1
    <3>2. CASE m # top
      <4>1. \A k \in 1..n : stack[k].node = m => k \in 1..(n - 1)
        BY <1>3, <3>2
      <4>2. colour_map'[m] = colour_map[m]
        BY <1>8, <3>2
      <4>3. \A k \in 1..(n - 1) : k \in 1..n /\ stack'[k].node = stack[k].node
        BY <1>3, <1>4
      <4> QED
        BY <2>1, <4>1, <4>2, <4>3
    <3> QED
      BY <3>1, <3>2
  <2>3. \A j, k \in 1..(n - 1) : j # k => stack'[j].node # stack'[k].node
    BY <1>3, <1>4, <2>1
  <2> QED
    BY <1>4, <1>9, <2>2, <2>3 DEF GreyOnStack
<1>13. StartsColoured'
  <2>1. \A m \in Nodes : colour_map[m] # "White" => colour_map'[m] # "White"
    BY <1>8
  <2>2. ASSUME NEW m \in 1..(next_start - 1)
        PROVE  m \in Nodes
    <3>1. next_start \in 1..(NodeCount + 1) /\ NodeCount \in Nat
      BY <1>2 DEF SearchInv, TypeOK, InputsFine
    <3> QED
      BY <3>1 DEF Nodes
  <2> QED
    BY <1>2, <2>1, <2>2 DEF SearchInv, StartsColoured
<1>14. ProcessedEdges'
  <2>1. ASSUME NEW k \in 1..(n - 1), NEW d \in edges(stack[k].node) \ stack[k].unprocessed
        PROVE  \/ digraph[d][2] \in Blacks'
               \/ k < n - 1 /\ digraph[d][2] = stack'[k + 1].node
    <3>1. digraph[d][2] \in Blacks \/ digraph[d][2] = stack[k + 1].node
      BY <1>2, <1>3, <2>1 DEF SearchInv, ProcessedEdges, n
    <3>2. k = n - 1 \/ (k < n - 1 /\ stack'[k + 1] = stack[k + 1])
      BY <1>3, <1>4
    <3>3. k = n - 1 => stack[k + 1].node = top
      BY <1>3
    <3> QED
      BY <1>8, <3>1, <3>2, <3>3
  <2> QED
    BY <1>2, <1>4, <1>9, <2>1 DEF ProcessedEdges
<1>15. BlackSettled'
  BY <1>6, <1>8, <1>9 DEF BlackSettled
<1>16. TrailFollowsStack'
  <2>1. CASE n = 1
    BY <1>4, <1>10, <2>1 DEF TrailFollowsStack
  <2>2. CASE n # 1
    <3>1. stack' # <<>> /\ DOMAIN trail' = 1..(n - 2) /\ Len(trail') = Len(stack') - 1
      BY <1>3, <1>4, <1>10, <2>2
    <3>2. ASSUME NEW i \in 1..(n - 2)
          PROVE  digraph[trail'[i].edge] = <<stack'[i].node, stack'[i + 1].node>>
      <4>1. /\ i \in 1..(n - 1) /\ i + 1 \in 1..(n - 1) /\ trail'[i] = trail[i]
            /\ stack'[i] = stack[i] /\ stack'[i + 1] = stack[i + 1]
        BY <1>3, <1>4, <1>10
      <4> QED
        BY <1>5, <4>1
    <3> QED
      BY <1>2, <3>1, <3>2 DEF TrailFollowsStack
  <2> QED
    BY <2>1, <2>2
<1> QED
  BY <1>2, <1>11, <1>12, <1>13, <1>14, <1>15, <1>16 DEF IInv, SearchInv, ResultInv

\* Every step keeps the invariant.
LEMMA NextIInv ==
    ASSUME InputsFine, IInv, [CycleStep]_cycleVars
    PROVE  IInv'
<1>1. CASE UNCHANGED cycleVars
  <2>1. /\ UNCHANGED <<digraph, name, next_start, colour_map, stack>>
        /\ UNCHANGED <<trail, found_cycle, result>>
    BY <1>1 DEF cycleVars
  <2>2. /\ Frames' = Frames /\ TrailVertices' = TrailVertices /\ Nodes' = Nodes
        /\ \A n : edges(n)' = edges(n) /\ \A T : Settled(T)' <=> Settled(T)
        /\ Blacks' = Blacks /\ (IsCyclic' <=> IsCyclic)
        /\ \A c : Closes(c)' <=> Closes(c)
    BY <2>1, GraphFixed DEF Blacks, Nodes
  <2>3. SearchInv => SearchInv'
    BY <2>1, <2>2
    DEF SearchInv, TypeOK, GreyOnStack, StartsColoured, ProcessedEdges, BlackSettled,
        TrailFollowsStack
  <2> QED
    BY <2>1, <2>2, <2>3 DEF IInv, FoundInv, ResultInv
<1>2. CASE found_cycle /\ CycleStep
  BY <1>2, FoundStays
<1>3. CASE ~found_cycle /\ Start
  BY <1>3, StartKeeps
<1>4. CASE ~found_cycle /\ ProcessEdge
  <2>1. PICK e : e = Min(Last(stack).unprocessed)
    OBVIOUS
  <2>2. \/ colour_map[digraph[e][2]] = "White"
        \/ colour_map[digraph[e][2]] = "Grey"
        \/ colour_map[digraph[e][2]] = "Black"
    BY <1>4, <2>1 DEF ProcessEdge
  <2> QED
    BY <1>4, <2>1, <2>2, TreeEdgeKeeps, BackEdgeKeeps, BlackEdgeKeeps
<1>5. CASE ~found_cycle /\ FinishNode
  BY <1>5, FinishKeeps
<1>6. CASE ~found_cycle /\ Return
  BY <1>6, ReturnKeeps
<1>7. CASE ~found_cycle /\ CycleStep
  BY <1>3, <1>4, <1>5, <1>6, <1>7 DEF CycleStep
<1> QED
  BY <1>1, <1>2, <1>7

\* What is proved by induction over the steps says what the runs check.
LEMMA IInvReports ==
    ASSUME IInv
    PROVE  CyclesReported
<1>1. CycleFoundIffCyclic
  <2>1. CASE result = Some(trail) /\ found_cycle
    <3>1. result.state = "some" /\ IsCyclic
      BY <2>1 DEF IInv, FoundInv, Some
    <3>2. IsCyclic = TRUE
      BY <3>1 DEF IsCyclic
    <3> QED
      BY <3>1, <3>2 DEF CycleFoundIffCyclic
  <2>2. CASE result = NoCycle /\ ~IsCyclic
    <3>1. (result.state = "some") = FALSE
      BY <2>2 DEF NoCycle
    <3>2. IsCyclic = FALSE
      BY <2>2 DEF IsCyclic
    <3> QED
      BY <3>1, <3>2 DEF CycleFoundIffCyclic
  <2>3. CASE result = Searching
    BY <2>3 DEF CycleFoundIffCyclic
  <2> QED
    BY <2>1, <2>2, <2>3 DEF IInv, ResultInv
<1>2. ReportedCycleCloses
  BY DEF ReportedCycleCloses, IInv, FoundInv, ResultInv, Searching, Some, NoCycle
<1>3. TrailIsStack
  BY DEF TrailIsStack, IInv, SearchInv
<1> QED
  BY <1>1, <1>2, <1>3 DEF CyclesReported

\* find_cycle reports a cycle exactly when the graph has one, and what it reports
\* closes, for any number of nodes, any edges and any names.
THEOREM CyclesAreReported ==
    ASSUME NodeCount \in Nat, EdgeLists \subseteq Seq(Nodes \X Nodes)
    PROVE  CycleSpec => []CyclesReported
<1>1. InputsFine
  BY DEF InputsFine
<1>2. CycleInit => IInv
  BY <1>1, InitIInv
<1>3. IInv /\ [CycleStep]_cycleVars => IInv'
  BY <1>1, NextIInv
<1>4. IInv => CyclesReported
  BY IInvReports
<1> QED
  BY <1>2, <1>3, <1>4, PTL DEF CycleSpec
=============================================================================
