-------------------------- MODULE GroupEdgesProofs --------------------------
(***************************************************************************)
(* The group searches order all plugins whose groups are ordered, whatever *)
(* the groups graph: the hard part is that the searches share the groups   *)
(* they have finished, whose plugins later searches pass over.             *)
(*                                                                         *)
(* A group of the path is watched if the search may still come to a        *)
(* conclusion about it: it is not passed over as a source and, unless the  *)
(* search started there, no edge below it led to a group that was searched *)
(* before.  The invariant says of every watched group that its plugins are *)
(* ordered with the plugins of everything behind the edges that have been  *)
(* searched to their end, from its place in the path to the path's end.    *)
(* An edge to a group searched before keeps that for the start group only, *)
(* because of all it has been ordered with everything behind such a group. *)
(*                                                                         *)
(* The last part is about what the searches come to: which plugins they    *)
(* join by paths depends on where they start and on nothing they cache.    *)
(***************************************************************************)
EXTENDS GroupEdges, TieBreakProofs, NaturalsInduction

Node(k) == stack[k][1]
Succ(g) == groups_graph.succ[g]

\* The edges from the k-th group of the path that were searched to their end:
\* the last one taken leads to the next group of the path, if there is one.
Taken(k) == 1..(IF k = Len(stack) THEN stack[k][2] - 1 ELSE stack[k][2] - 2)

PairOrdered(p, q) == HasPath(graph, p, q) \/ HasPath(graph, q, p)

\* All plugins of two groups are ordered, or about to be.
Settled(g, h) ==
    \A p, q \in nodes :
        (group(p) = g /\ group(q) = h) =>
            PairOrdered(p, q) \/ \E c \in candidates : c[2] = p /\ c[3] = q

\* The plugins of g are settled with those of all groups from t on.
SettledFrom(g, t) ==
    \A u \in GroupNames : (u # g /\ GroupReach(t, u)) => Settled(g, u)

\* A group about which there is nothing left to do.
GroupDone(g) ==
    \A p, q \in nodes :
        (group(p) = g /\ group(q) # g /\ GroupReach(g, group(q))) =>
            PairOrdered(p, q)

Watched(k) ==
    /\ ~should_ignore_source_node(Node(k))
    /\ k = 1 \/ Node(k) \notin unfinishable

-----------------------------------------------------------------------------
GroupTypes ==
    /\ \A g \in GroupNames : Succ(g) \in Seq(GroupNames)
    /\ starts \in Seq(GroupNames)
    /\ stack \in Seq(GroupNames \X (Nat \ {0}))
    /\ colour \in [GroupNames -> {"white", "grey", "black"}]
    /\ edge_stack \in Seq([source : GroupNames, plugins : SUBSET nodes])
    /\ candidates \subseteq Nat \X nodes \X nodes
    /\ finished \subseteq GroupNames

\* The path that is searched, and the visitor's copy of it.
PathShape ==
    /\ stack = <<>> => candidates = {}
    /\ stack # <<>> => Len(edge_stack) = Len(stack) - 1
    /\ \A k \in 1..Len(edge_stack) :
          /\ edge_stack[k].source = Node(k)
          /\ \/ should_ignore_source_node(Node(k))
             \/ edge_stack[k].plugins = find_plugins_in_group(Node(k))
    /\ \A k \in 1..(Len(stack) - 1) :
          Node(k + 1) = Succ(Node(k))[stack[k][2] - 1]

\* The default group is ignored until the last search, which starts there.
DefaultLast ==
    /\ starts # <<>> => starts[Len(starts)] = DefaultGroup
    /\ ignored = NoGroup \/ (ignored = DefaultGroup /\ starts # <<>>)

WatchedSettled ==
    \A k \in 1..Len(stack) : Watched(k) =>
        /\ \A j \in k..Len(stack) : \A i \in Taken(j) :
              SettledFrom(Node(k), Succ(Node(j))[i])
        /\ \A j \in (k + 1)..Len(stack) :
              Node(j) # Node(k) => Settled(Node(k), Node(j))

BlackSettled ==
    (stack # <<>> /\ Watched(1)) =>
        \A t \in GroupNames : colour[t] = "black" => SettledFrom(Node(1), t)

FinishedDone == \A g \in finished : GroupDone(g)

SearchesCover ==
    \A p \in nodes :
        \/ GroupDone(group(p))
        \/ group(p) \in ToSet(starts)
        \/ stack # <<>> /\ group(p) = Node(1)

GroupInv ==
    /\ GroupTypes
    /\ PathShape
    /\ DefaultLast
    /\ WatchedSettled
    /\ BlackSettled
    /\ FinishedDone
    /\ SearchesCover

-----------------------------------------------------------------------------
(* The groups graph. *)

\* What is below a number of a finite set.
LEMMA BelowFinite ==
    ASSUME NEW S, S \subseteq Nat, IsFiniteSet(S), NEW x \in S
    PROVE  /\ IsFiniteSet(Below(S, x))
           /\ Cardinality(S) \in Nat
           /\ Cardinality(Below(S, x)) \in Nat
           /\ Cardinality(Below(S, x)) <= Cardinality(S)
<1>1. Below(S, x) \subseteq S
  BY DEF Below
<1> QED
  BY <1>1, FS_Subset, FS_CardinalityType

\* The lower of two numbers has less below it.
LEMMA LowerHasLessBelow ==
    ASSUME NEW S, S \subseteq Nat, IsFiniteSet(S), NEW x \in S, NEW y \in S, x < y
    PROVE  Cardinality(Below(S, x)) < Cardinality(Below(S, y))
<1>1. x \notin Below(S, x)
  BY DEF Below
<1>2. Cardinality(Below(S, x) \cup {x}) = Cardinality(Below(S, x)) + 1
  BY <1>1, BelowFinite, FS_AddElement
<1>3. Below(S, x) \cup {x} \subseteq Below(S, y)
  <2> SUFFICES ASSUME NEW z \in S, z < x \/ z = x
               PROVE  z < y
    BY DEF Below
  <2>1. x \in Nat /\ y \in Nat /\ z \in Nat
    OBVIOUS
  <2> QED
    BY <2>1
<1>4. Cardinality(Below(S, x) \cup {x}) <= Cardinality(Below(S, y))
  BY <1>3, BelowFinite, FS_Subset
<1>5. Cardinality(Below(S, x)) \in Nat /\ Cardinality(Below(S, y)) \in Nat
  BY BelowFinite
<1> QED
  BY <1>2, <1>4, <1>5

\* A non-empty finite set of numbers has one with all the others below it.
LEMMA MostBelow ==
    ASSUME NEW S, S \subseteq Nat, IsFiniteSet(S), S # {}
    PROVE  \E x \in S : Cardinality(Below(S, x)) = Cardinality(S) - 1
<1> DEFINE above(x) == Cardinality(S) - Cardinality(Below(S, x))
           T == {above(x) : x \in S}
<1>1. ASSUME NEW x \in S
      PROVE  above(x) \in Nat
  <2>1. /\ Cardinality(S) \in Nat /\ Cardinality(Below(S, x)) \in Nat
        /\ Cardinality(Below(S, x)) <= Cardinality(S)
    BY BelowFinite
  <2> QED
    BY <2>1
<1>2. T \subseteq Nat /\ T # {}
  BY <1>1
<1>3. Min(T) \in T /\ \A n \in T : Min(T) <= n
  BY <1>2, MinOfNumbers
<1>4. PICK x \in S : Min(T) = above(x)
  BY <1>3
<1>5. ASSUME NEW y \in S
      PROVE  ~(x < y)
  <2>1. above(x) <= above(y)
    BY <1>3, <1>4
  <2>2. /\ Cardinality(S) \in Nat
        /\ Cardinality(Below(S, x)) \in Nat /\ Cardinality(Below(S, y)) \in Nat
    BY BelowFinite
  <2>3. Cardinality(Below(S, y)) <= Cardinality(Below(S, x))
    BY <2>1, <2>2
  <2>4. x < y => Cardinality(Below(S, x)) < Cardinality(Below(S, y))
    BY LowerHasLessBelow
  <2> QED
    BY <2>2, <2>3, <2>4
<1>6. ASSUME NEW y \in S
      PROVE  y < x <=> y # x
  <2>1. x \in Nat /\ y \in Nat
    OBVIOUS
  <2> QED
    BY <1>5, <2>1
<1>7. Below(S, x) = S \ {x}
  BY <1>6 DEF Below
<1> QED
  BY <1>7, FS_RemoveElement

\* Ascending(S) is a sequence of members of S.
LEMMA AscendingType ==
    ASSUME NEW S, S \subseteq GroupNames
    PROVE  Ascending(S) \in Seq(S)
<1>1. S \subseteq Nat /\ IsFiniteSet(S)
  BY GroupNamesAssumption, FS_Subset
<1>2. Cardinality(S) \in Nat
  BY <1>1, FS_CardinalityType
<1>3. ASSUME NEW i \in 1..Cardinality(S)
      PROVE  Min({x \in S : Cardinality(Below(S, x)) >= i - 1}) \in S
  <2> DEFINE T == {x \in S : Cardinality(Below(S, x)) >= i - 1}
  <2>1. S # {}
    BY <1>2, FS_EmptySet
  <2>2. PICK x \in S : Cardinality(Below(S, x)) = Cardinality(S) - 1
    BY <1>1, <2>1, MostBelow
  <2>3. T # {}
    BY <1>2, <2>2
  <2>4. Min(T) \in T
    BY <1>1, <2>3, MinOfNumbers
  <2> QED
    BY <2>4
<1>4. Ascending(S) \in [1..Cardinality(S) -> S]
  BY <1>3 DEF Ascending
<1> QED
  BY <1>2, <1>4, SeqDef

\* The groups graph lists groups only.
LEMMA BuiltGroupsGraphType ==
    ASSUME NEW m, NEW u, IsGroupList(m), IsGroupList(u)
    PROVE  /\ BuiltGroupsGraph(m, u).nodes \in Seq(GroupNames)
           /\ \A g \in GroupNames :
                 BuiltGroupsGraph(m, u).succ[g] \in Seq(GroupNames)
<1>1. ASSUME NEW S, S \subseteq GroupNames
      PROVE  Ascending(S) \in Seq(GroupNames)
  BY <1>1, AscendingType, SeqMonotonic
<1>2. BuiltGroupsGraph(m, u).nodes \in Seq(GroupNames)
  <2>1. DOMAIN m \subseteq GroupNames /\ DOMAIN u \ DOMAIN m \subseteq GroupNames
    BY DEF IsGroupList
  <2> QED
    BY <1>1, <2>1, ConcatProperties DEF BuiltGroupsGraph
<1>3. ASSUME NEW g \in GroupNames
      PROVE  BuiltGroupsGraph(m, u).succ[g] \in Seq(GroupNames)
  <2>1. /\ Targets(m, g) \subseteq GroupNames
        /\ Targets(u, g) \ Targets(m, g) \subseteq GroupNames
    BY DEF IsGroupList, Targets
  <2> QED
    BY <1>1, <2>1, ConcatProperties DEF BuiltGroupsGraph
<1> QED
  BY <1>2, <1>3

-----------------------------------------------------------------------------
(* The steps of a search. *)

\* What the searches are given: a graph that can be trusted over the plugins
\* at hand, each in some group.
Setting ==
    /\ nodes \in SUBSET Plugins
    /\ GraphOver(graph, nodes)
    /\ \A p \in nodes : group(p) \in GroupNames

\* The plugins and their groups, which no step of a search changes.
Fixed == UNCHANGED <<nodes, data>>

\* An edge added between two nodes unless there is a path back keeps the graph
\* in order.
LEMMA NodesAddUnlessCycle ==
    ASSUME nodes \in SUBSET Plugins, GraphOver(graph, nodes),
           NEW a \in nodes, NEW b \in nodes, NEW h \in AddUnlessCycle(graph, a, b)
    PROVE  /\ GraphOver(h, nodes)
           /\ graph.edges \subseteq h.edges
           /\ HasPath(h, a, b) \/ HasPath(h, b, a)
BY AddUnlessCycleOver

\* A step of the group searches adds edges between nodes only, closes no cycle
\* and leaves a candidate only when its plugins are ordered.
LEMMA GroupStepKeeps ==
    ASSUME nodes \in SUBSET Plugins, GraphOver(graph, nodes),
           candidates \subseteq Nat \X nodes \X nodes,
           GroupStep
    PROVE  /\ GraphOver(graph', nodes)
           /\ graph.edges \subseteq graph'.edges
           /\ candidates' \subseteq Nat \X nodes \X nodes
           /\ \A c \in candidates :
                 \/ c \in candidates'
                 \/ HasPath(graph', c[2], c[3]) \/ HasPath(graph', c[3], c[2])
<1>1. CASE StartSearch \/ CrossEdge \/ FinishGroup
  BY <1>1 DEF StartSearch, CrossEdge, FinishGroup
<1>2. CASE TreeEdge
  <2>1. graph' = graph /\ candidates = {}
    BY <1>2 DEF TreeEdge, Searching
  <2>2. candidates' \subseteq (1..Len(edge_stack')) \X nodes \X nodes
    BY <1>2 DEF TreeEdge
  <2>3. 1..Len(edge_stack') \subseteq Nat
    OBVIOUS
  <2> QED
    BY <2>1, <2>2, <2>3
<1>3. CASE TryGroupEdge
  <2>1. PICK c \in candidates : /\ graph' \in AddUnlessCycle(graph, c[2], c[3])
                                /\ candidates' = candidates \ {c}
    BY <1>3 DEF TryGroupEdge
  <2>2. c[2] \in nodes /\ c[3] \in nodes
    BY <2>1
  <2>3. graph' \in AddUnlessCycle(graph, c[2], c[3])
    BY <2>1
  <2>4. /\ GraphOver(graph', nodes) /\ graph.edges \subseteq graph'.edges
        /\ HasPath(graph', c[2], c[3]) \/ HasPath(graph', c[3], c[2])
    BY <2>2, <2>3, NodesAddUnlessCycle
  <2> QED
    BY <2>1, <2>4
<1> QED
  BY <1>1, <1>2, <1>3 DEF GroupStep

\* What is settled stays settled, and what is done stays done.
LEMMA SettledStays ==
    ASSUME Setting, GroupInv, GroupStep, Fixed
    PROVE  /\ groups_graph' = groups_graph
           /\ \A g, t : GroupReach(g, t)' <=> GroupReach(g, t)
           /\ \A g, t : Settled(g, t) => Settled(g, t)'
           /\ \A g, t : SettledFrom(g, t) => SettledFrom(g, t)'
           /\ \A g : GroupDone(g) => GroupDone(g)'
<1>1. groups_graph' = groups_graph
  BY DEF GroupStep, StartSearch, TreeEdge, CrossEdge, FinishGroup, TryGroupEdge
<1>2. \A g, t : GroupReach(g, t)' <=> GroupReach(g, t)
  BY <1>1 DEF GroupReach
<1>3. \A p : group(p)' = group(p)
  BY DEF Fixed, group
<1>4. /\ graph.edges \subseteq graph'.edges
      /\ \A c \in candidates :
            \/ c \in candidates'
            \/ HasPath(graph', c[2], c[3]) \/ HasPath(graph', c[3], c[2])
  BY GroupStepKeeps DEF Setting, GroupInv, GroupTypes
<1>5. \A p, q : PairOrdered(p, q) => PairOrdered(p, q)'
  BY <1>4, ReachMonotonic DEF PairOrdered, HasPath
<1>6. ASSUME NEW g, NEW t, Settled(g, t)
      PROVE  Settled(g, t)'
  <2> SUFFICES ASSUME NEW p \in nodes, NEW q \in nodes,
                      group(p) = g, group(q) = t
               PROVE  \/ PairOrdered(p, q)'
                      \/ \E c \in candidates' : c[2] = p /\ c[3] = q
    BY <1>3 DEF Settled, Fixed
  <2>1. CASE PairOrdered(p, q)
    BY <1>5, <2>1
  <2>2. CASE \E c \in candidates : c[2] = p /\ c[3] = q
    <3>1. PICK c \in candidates : c[2] = p /\ c[3] = q
      BY <2>2
    <3> QED
      BY <1>4, <3>1 DEF PairOrdered
  <2> QED
    BY <1>6, <2>1, <2>2 DEF Settled
<1>7. ASSUME NEW g, NEW t, SettledFrom(g, t)
      PROVE  SettledFrom(g, t)'
  BY <1>2, <1>6, <1>7 DEF SettledFrom
<1>8. ASSUME NEW g, GroupDone(g)
      PROVE  GroupDone(g)'
  <2> SUFFICES ASSUME NEW p \in nodes, NEW q \in nodes,
                      group(p) = g, group(q) # g, GroupReach(g, group(q))
               PROVE  PairOrdered(p, q)'
    BY <1>2, <1>3 DEF GroupDone, Fixed
  <2>1. PairOrdered(p, q)
    BY <1>8 DEF GroupDone
  <2> QED
    BY <1>5, <2>1
<1> QED
  BY <1>1, <1>2, <1>6, <1>7, <1>8

\* The search starts at, and goes on from, groups of the path.
LEMMA PathGroups ==
    ASSUME GroupTypes, NEW k \in 1..Len(stack)
    PROVE  /\ Node(k) \in GroupNames
           /\ stack[k][2] \in Nat \ {0}
           /\ stack[k] = <<Node(k), stack[k][2]>>
BY DEF GroupTypes, Node

LEMMA TopOfPath ==
    ASSUME GroupTypes, Searching
    PROVE  /\ Len(stack) \in Nat \ {0}
           /\ source = Node(Len(stack))
           /\ Last(stack) = stack[Len(stack)]
           /\ Stepped \in Seq(GroupNames \X (Nat \ {0}))
           /\ Len(Stepped) = Len(stack)
           /\ \A k \in 1..(Len(stack) - 1) : Stepped[k] = stack[k]
           /\ Stepped[Len(stack)] = <<source, stack[Len(stack)][2] + 1>>
           /\ EdgesLeft => /\ stack[Len(stack)][2] \in 1..Len(Succ(source))
                           /\ target = Succ(source)[stack[Len(stack)][2]]
                           /\ target \in GroupNames
<1>1. stack \in Seq(GroupNames \X (Nat \ {0})) /\ stack # <<>>
  BY DEF GroupTypes, Searching
<1>2. Len(stack) \in Nat \ {0}
  BY <1>1
<1>3. Last(stack) = stack[Len(stack)] /\ source = Node(Len(stack))
  BY DEF Last, source, Node
<1>4. /\ source \in GroupNames
      /\ stack[Len(stack)][2] \in Nat \ {0}
  BY <1>2, <1>3, PathGroups
<1>5. /\ Stepped \in Seq(GroupNames \X (Nat \ {0}))
      /\ Len(Stepped) = Len(stack)
      /\ \A k \in 1..(Len(stack) - 1) : Stepped[k] = stack[k]
      /\ Stepped[Len(stack)] = <<source, stack[Len(stack)][2] + 1>>
  BY <1>1, <1>2, <1>3, <1>4 DEF Stepped
<1>6. ASSUME EdgesLeft
      PROVE  /\ stack[Len(stack)][2] \in 1..Len(Succ(source))
             /\ target = Succ(source)[stack[Len(stack)][2]]
             /\ target \in GroupNames
  <2>1. Succ(source) \in Seq(GroupNames)
    BY <1>4 DEF GroupTypes
  <2>2. stack[Len(stack)][2] <= Len(Succ(source))
    BY <1>3, <1>6 DEF EdgesLeft, Succ
  <2> QED
    BY <1>3, <1>4, <2>1, <2>2, ElementOfSeq DEF target, Succ
<1> QED
  BY <1>2, <1>3, <1>5, <1>6

\* What is behind a group is the groups its edges lead to and what is behind
\* them.
LEMMA ReachBySucc ==
    ASSUME GroupTypes, NEW g \in GroupNames, NEW u, u # g, GroupReach(g, u)
    PROVE  \E i \in 1..Len(Succ(g)) : /\ Succ(g)[i] \in GroupNames
                                      /\ GroupReach(Succ(g)[i], u)
<1> DEFINE E == GroupEdgePairs(groups_graph)
<1>1. E \subseteq GroupNames \X GroupNames
  BY DEF GroupEdgePairs
<1>2. PICK y \in GroupNames : <<g, y>> \in E /\ Reach(GroupNames, E, y, u)
  BY <1>1, ReachFirstEdge DEF GroupReach
<1>3. y \in ToSet(Succ(g))
  BY <1>2 DEF GroupEdgePairs, Succ
<1>4. Succ(g) \in Seq(GroupNames)
  BY DEF GroupTypes
<1>5. PICK i \in 1..Len(Succ(g)) : Succ(g)[i] = y
  BY <1>3, <1>4 DEF ToSet
<1> QED
  BY <1>2, <1>5 DEF GroupReach

\* A watched group is settled with all that is behind the end of the path when
\* the end has no edges left.
LEMMA EndOfPathSettled ==
    ASSUME GroupInv, Searching, ~EdgesLeft,
           NEW k \in 1..Len(stack), Watched(k)
    PROVE  SettledFrom(Node(k), source)
<1> DEFINE m == Len(stack)
<1>1. /\ m \in Nat \ {0} /\ k \in 1..m
      /\ source = Node(m) /\ Last(stack) = stack[m]
      /\ source \in GroupNames
      /\ stack[m][2] \in Nat
  BY TopOfPath, PathGroups DEF GroupInv
<1>2. Succ(source) \in Seq(GroupNames)
  BY <1>1 DEF GroupInv, GroupTypes
<1>3. stack[m][2] > Len(Succ(source))
  BY <1>1, <1>2 DEF EdgesLeft, Succ
<1>4. /\ \A j \in k..m : \A i \in Taken(j) :
            SettledFrom(Node(k), Succ(Node(j))[i])
      /\ \A j \in (k + 1)..m :
            Node(j) # Node(k) => Settled(Node(k), Node(j))
  BY DEF GroupInv, WatchedSettled
<1> SUFFICES ASSUME NEW u \in GroupNames, u # Node(k), GroupReach(source, u)
             PROVE  Settled(Node(k), u)
  BY DEF SettledFrom
<1>5. CASE u = source
  <2>1. k # m
    BY <1>1, <1>5
  <2>2. m \in (k + 1)..m
    BY <1>1, <2>1
  <2> QED
    BY <1>1, <1>4, <1>5, <2>2
<1>6. CASE u # source
  <2>1. PICK i \in 1..Len(Succ(source)) : /\ Succ(source)[i] \in GroupNames
                                          /\ GroupReach(Succ(source)[i], u)
    BY <1>1, <1>6, ReachBySucc DEF GroupInv
  <2>2. i \in Taken(m)
    BY <1>1, <1>2, <1>3, <2>1 DEF Taken
  <2>3. m \in k..m
    BY <1>1
  <2>4. SettledFrom(Node(k), Succ(source)[i])
    BY <1>1, <1>4, <2>2, <2>3
  <2> QED
    BY <2>1, <2>4 DEF SettledFrom
<1> QED
  BY <1>5, <1>6

\* A group settled with all that is behind it, with no edges left to try, is
\* done.
LEMMA SettledIsDone ==
    ASSUME Setting, candidates = {}, NEW g, SettledFrom(g, g)
    PROVE  GroupDone(g)
BY DEF Setting, SettledFrom, Settled, GroupDone

\* A group that is watched after a step that passes over no less was watched
\* before it, if it is where it was.
LEMMA WatchedBefore ==
    ASSUME ignored' = ignored, finished \subseteq finished',
           unfinishable \subseteq unfinishable',
           NEW k, Node(k)' = Node(k), Watched(k)'
    PROVE  Watched(k)
BY DEF Watched, should_ignore_source_node

\* The steps leave the groups' types alone.
LEMMA TypesStay ==
    ASSUME Setting, GroupInv, GroupStep, Fixed
    PROVE  GroupTypes'
<1>1. candidates' \subseteq Nat \X nodes' \X nodes'
  BY GroupStepKeeps DEF Setting, GroupInv, GroupTypes, Fixed
<1>2. groups_graph' = groups_graph
  BY SettledStays
<1>3. \A g : find_plugins_in_group(g) \subseteq nodes
  BY DEF find_plugins_in_group
<1> USE <1>1, <1>2 DEF GroupInv, Succ, Fixed
<1>4. CASE StartSearch
  <2>1. Head(starts) \in GroupNames /\ Tail(starts) \in Seq(GroupNames)
    BY <1>4 DEF StartSearch, GroupTypes
  <2>2. stack' \in Seq(GroupNames \X (Nat \ {0}))
    BY <1>4, <2>1 DEF StartSearch
  <2>3. colour' \in [GroupNames -> {"white", "grey", "black"}]
    BY <1>4, <2>1 DEF StartSearch, White
  <2> QED
    BY <1>4, <2>1, <2>2, <2>3 DEF StartSearch, GroupTypes
<1>5. CASE TreeEdge
  <2>1. /\ source \in GroupNames /\ target \in GroupNames
        /\ Stepped \in Seq(GroupNames \X (Nat \ {0}))
    BY <1>5, TopOfPath, PathGroups DEF TreeEdge
  <2>2. edge_stack' \in Seq([source : GroupNames, plugins : SUBSET nodes])
    <3>1. [source  |-> source,
           plugins |-> IF should_ignore_source_node(source) THEN {}
                       ELSE find_plugins_in_group(source)]
              \in [source : GroupNames, plugins : SUBSET nodes]
      BY <1>3, <2>1
    <3> QED
      BY <1>5, <3>1 DEF TreeEdge, GroupTypes
  <2>3. stack' \in Seq(GroupNames \X (Nat \ {0}))
    BY <1>5, <2>1 DEF TreeEdge
  <2> QED
    BY <1>5, <2>1, <2>2, <2>3 DEF TreeEdge, GroupTypes
<1>6. CASE CrossEdge
  <2>1. Stepped \in Seq(GroupNames \X (Nat \ {0}))
    BY <1>6, TopOfPath DEF CrossEdge
  <2> QED
    BY <1>6, <2>1 DEF CrossEdge, GroupTypes
<1>7. CASE FinishGroup
  <2>1. source \in GroupNames
    BY <1>7, TopOfPath, PathGroups DEF FinishGroup
  <2>2. Front(stack) \in Seq(GroupNames \X (Nat \ {0}))
    BY <1>7, FrontFacts DEF FinishGroup, Searching, GroupTypes
  <2>3. edge_stack' \in Seq([source : GroupNames, plugins : SUBSET nodes])
    BY <1>7, FrontFacts DEF FinishGroup, GroupTypes
  <2> QED
    BY <1>7, <2>1, <2>2, <2>3 DEF FinishGroup, GroupTypes
<1>8. CASE TryGroupEdge
  BY <1>8 DEF TryGroupEdge, GroupTypes
<1> QED
  BY <1>4, <1>5, <1>6, <1>7, <1>8 DEF GroupStep

\* A search starts.
LEMMA StartSearchKeeps ==
    ASSUME Setting, GroupInv, StartSearch, Fixed
    PROVE  GroupInv'
<1>1. GroupStep
  BY DEF GroupStep
<1>2. GroupTypes'
  BY <1>1, TypesStay
<1>3. /\ stack = <<>> /\ starts # <<>>
      /\ candidates' = {} /\ edge_stack' = <<>>
      /\ starts' = Tail(starts) /\ finished' = finished
      /\ stack' = <<<<Head(starts), 1>>>>
      /\ colour' = [White EXCEPT ![Head(starts)] = "grey"]
  BY DEF StartSearch, GroupInv, PathShape
<1>4. Len(stack') = 1 /\ stack' # <<>> /\ Node(1)' = Head(starts) /\ stack'[1][2] = 1
  BY <1>3 DEF Node
<1>5. PathShape'
  BY <1>3, <1>4 DEF PathShape
<1>6. starts \in Seq(GroupNames)
  BY DEF GroupInv, GroupTypes
<1>7. DefaultLast'
  <2>1. starts[Len(starts)] = DefaultGroup
    BY <1>3 DEF GroupInv, DefaultLast
  <2>2. Len(starts) \in Nat \ {0} /\ Len(starts') = Len(starts) - 1
    BY <1>3, <1>6
  <2>3. starts' # <<>> => starts'[Len(starts')] = starts[Len(starts)]
    BY <1>3, <1>6, <2>2, HeadTailProperties
  <2>4. ignored' = IF Len(starts) = 1 THEN NoGroup ELSE DefaultGroup
    BY DEF StartSearch
  <2>5. Len(starts) # 1 => starts' # <<>>
    BY <2>2
  <2> QED
    BY <2>1, <2>3, <2>4, <2>5 DEF DefaultLast
<1>8. WatchedSettled'
  <2>1. Taken(1)' = {}
    BY <1>4 DEF Taken
  <2> QED
    BY <1>4, <2>1 DEF WatchedSettled
<1>9. BlackSettled'
  BY <1>3 DEF BlackSettled, White
<1>10. FinishedDone'
  BY <1>1, <1>3, SettledStays DEF GroupInv, FinishedDone
<1>11. SearchesCover'
  <2> SUFFICES ASSUME NEW p \in nodes
               PROVE  \/ GroupDone(group(p))'
                      \/ group(p) \in ToSet(starts')
                      \/ group(p) = Node(1)'
    BY <1>4 DEF SearchesCover, Fixed, group
  <2>1. GroupDone(group(p)) \/ group(p) \in ToSet(starts)
    BY <1>3 DEF GroupInv, SearchesCover
  <2>2. CASE GroupDone(group(p))
    BY <1>1, <2>2, SettledStays DEF Fixed, group
  <2>3. CASE group(p) \in ToSet(starts)
    <3>1. PICK i \in 1..Len(starts) : starts[i] = group(p)
      BY <1>6, <2>3 DEF ToSet
    <3>2. CASE i = 1
      BY <1>4, <3>1, <3>2
    <3>3. CASE i # 1
      <4>1. i - 1 \in 1..Len(starts') /\ starts'[i - 1] = starts[i]
        BY <1>3, <1>6, <3>3, HeadTailProperties
      <4>2. starts' \in Seq(GroupNames)
        BY <1>2 DEF GroupTypes
      <4> QED
        BY <3>1, <4>1, <4>2 DEF ToSet
    <3> QED
      BY <3>2, <3>3
  <2> QED
    BY <2>1, <2>2, <2>3
<1> QED
  BY <1>2, <1>5, <1>7, <1>8, <1>9, <1>10, <1>11 DEF GroupInv

\* An edge is tried.
LEMMA TryGroupEdgeKeeps ==
    ASSUME Setting, GroupInv, TryGroupEdge, Fixed
    PROVE  GroupInv'
<1>1. GroupStep
  BY DEF GroupStep
<1>2. GroupTypes'
  BY <1>1, TypesStay
<1>3. /\ UNCHANGED <<groups_graph, starts, ignored, stack, colour, edge_stack,
                     finished, unfinishable>>
      /\ candidates # {}
  BY DEF TryGroupEdge
<1>4. stack # <<>>
  BY <1>3 DEF GroupInv, PathShape
<1>5. PathShape'
  BY <1>3, <1>4
  DEF GroupInv, PathShape, Node, Succ, should_ignore_source_node,
      find_plugins_in_group, group, Fixed
<1>6. DefaultLast'
  BY <1>3 DEF GroupInv, DefaultLast
<1>7. /\ \A k : Node(k)' = Node(k) /\ Taken(k)' = Taken(k)
      /\ \A k : Watched(k)' <=> Watched(k)
      /\ \A g : Succ(g)' = Succ(g)
  BY <1>3 DEF Node, Taken, Watched, Succ, should_ignore_source_node
<1>8. WatchedSettled'
  <2> SUFFICES ASSUME NEW k \in 1..Len(stack), Watched(k)
               PROVE  /\ \A j \in k..Len(stack) : \A i \in Taken(j) :
                            SettledFrom(Node(k), Succ(Node(j))[i])'
                      /\ \A j \in (k + 1)..Len(stack) :
                            Node(j) # Node(k) => Settled(Node(k), Node(j))'
    BY <1>3, <1>7 DEF WatchedSettled
  <2> QED
    BY <1>1, <1>3, <1>7, SettledStays DEF GroupInv, WatchedSettled
<1>9. BlackSettled'
  BY <1>1, <1>3, <1>7, SettledStays DEF GroupInv, BlackSettled
<1>10. FinishedDone'
  BY <1>1, <1>3, SettledStays DEF GroupInv, FinishedDone
<1>11. SearchesCover'
  BY <1>1, <1>3, <1>7, SettledStays DEF GroupInv, SearchesCover, Fixed, group
<1> QED
  BY <1>2, <1>5, <1>6, <1>8, <1>9, <1>10, <1>11 DEF GroupInv

\* An edge leads to a group that was searched before.
LEMMA CrossEdgeKeeps ==
    ASSUME Setting, GroupInv, CrossEdge, Fixed
    PROVE  GroupInv'
<1> DEFINE m == Len(stack)
<1>1. GroupStep
  BY DEF GroupStep
<1>2. GroupTypes'
  BY <1>1, TypesStay
<1>3. /\ UNCHANGED <<groups_graph, starts, ignored, colour, edge_stack,
                     candidates, finished>>
      /\ stack' = Stepped /\ stack # <<>>
      /\ unfinishable' = unfinishable \cup {source}
                            \cup {edge_stack[i].source : i \in 1..Len(edge_stack)}
      /\ colour[target] = "black"
      /\ Searching /\ EdgesLeft
  BY DEF CrossEdge, Searching
<1>4. /\ m \in Nat \ {0} /\ Len(stack') = m
      /\ source = Node(m)
      /\ \A k \in 1..(m - 1) : stack'[k] = stack[k]
      /\ stack'[m] = <<source, stack[m][2] + 1>>
      /\ stack[m][2] \in Nat \ {0}
      /\ target = Succ(source)[stack[m][2]] /\ target \in GroupNames
  BY <1>3, TopOfPath DEF GroupInv
<1>5. ASSUME NEW k \in 1..m
      PROVE  Node(k)' = Node(k)
  BY <1>4 DEF Node
<1>6. Len(edge_stack) = m - 1 /\ Len(edge_stack') = m - 1
  BY <1>3 DEF GroupInv, PathShape
<1>7. PathShape'
  <2>1. stack' # <<>>
    BY <1>4
  <2>2. ASSUME NEW k \in 1..(m - 1)
        PROVE  /\ edge_stack'[k].source = Node(k)'
               /\ \/ should_ignore_source_node(Node(k))'
                  \/ edge_stack'[k].plugins = find_plugins_in_group(Node(k))'
               /\ Node(k + 1)' = Succ(Node(k))'[stack'[k][2] - 1]
    <3>1. k \in 1..m /\ k + 1 \in 1..m
      BY <1>4
    <3> QED
      BY <1>3, <1>4, <1>5, <1>6, <3>1
      DEF GroupInv, PathShape, Succ, should_ignore_source_node,
          find_plugins_in_group, group, Fixed
  <2> QED
    BY <1>4, <1>6, <2>1, <2>2 DEF PathShape
<1>8. DefaultLast'
  BY <1>3 DEF GroupInv, DefaultLast
<1>9. ASSUME NEW k \in 1..m, Watched(k)'
      PROVE  k = 1 /\ Watched(k)
  <2>1. Watched(k)
    BY <1>3, <1>5, <1>9, WatchedBefore
  <2>2. Node(k) \in unfinishable'
    <3>1. CASE k = m
      BY <1>3, <1>4, <3>1
    <3>2. CASE k # m
      <4>1. k \in 1..Len(edge_stack)
        BY <1>4, <1>6, <3>2
      <4> QED
        BY <1>3, <4>1 DEF GroupInv, PathShape
    <3> QED
      BY <3>1, <3>2
  <2> QED
    BY <1>5, <1>9, <2>1, <2>2 DEF Watched
<1>10. ASSUME NEW j \in 1..m, NEW i \in Taken(j)'
       PROVE  i \in Taken(j) \/ (j = m /\ Succ(Node(j))[i] = target)
  BY <1>4 DEF Taken
<1>11. WatchedSettled'
  <2> SUFFICES ASSUME Watched(1)'
               PROVE  /\ \A j \in 1..m : \A i \in Taken(j)' :
                            SettledFrom(Node(1), Succ(Node(j))[i])'
                      /\ \A j \in 2..m :
                            (Node(j) # Node(1) => Settled(Node(1), Node(j)))'
    BY <1>4, <1>9 DEF WatchedSettled
  <2>1. 1 \in 1..m /\ Watched(1)
    BY <1>4, <1>9
  <2>2. /\ \A j \in 1..m : \A i \in Taken(j) :
              SettledFrom(Node(1), Succ(Node(j))[i])
        /\ \A j \in 2..m : Node(j) # Node(1) => Settled(Node(1), Node(j))
    BY <2>1 DEF GroupInv, WatchedSettled
  <2>3. SettledFrom(Node(1), target)
    BY <1>3, <1>4, <2>1 DEF GroupInv, BlackSettled
  <2>4. \A g : Succ(g)' = Succ(g)
    BY <1>3 DEF Succ
  <2> QED
    BY <1>1, <1>5, <1>10, <2>1, <2>2, <2>3, <2>4, SettledStays
<1>12. BlackSettled'
  <2>1. 1 \in 1..m
    BY <1>4
  <2> QED
    BY <1>1, <1>3, <1>5, <1>9, <2>1, SettledStays DEF GroupInv, BlackSettled
<1>13. FinishedDone'
  BY <1>1, <1>3, SettledStays DEF GroupInv, FinishedDone
<1>14. SearchesCover'
  <2>1. 1 \in 1..m /\ stack' # <<>>
    BY <1>4
  <2> QED
    BY <1>1, <1>3, <1>5, <2>1, SettledStays
    DEF GroupInv, SearchesCover, Fixed, group
<1> QED
  BY <1>2, <1>7, <1>8, <1>11, <1>12, <1>13, <1>14 DEF GroupInv

\* An edge leads to a group that this search has not come to.
LEMMA TreeEdgeKeeps ==
    ASSUME Setting, GroupInv, TreeEdge, Fixed
    PROVE  GroupInv'
<1>1. PICK m \in Nat \ {0} : m = Len(stack)
  BY TopOfPath DEF TreeEdge, GroupInv
<1> DEFINE passed == [source  |-> source,
                      plugins |-> IF should_ignore_source_node(source) THEN {}
                                  ELSE find_plugins_in_group(source)]
<1>2. GroupStep
  BY DEF GroupStep
<1>3. GroupTypes'
  BY <1>2, TypesStay
<1>4. /\ UNCHANGED <<graph, groups_graph, starts, ignored, finished, unfinishable>>
      /\ stack' = Append(Stepped, <<target, 1>>) /\ stack # <<>>
      /\ edge_stack' = Append(edge_stack, passed)
      /\ colour[target] = "white"
      /\ colour' = [colour EXCEPT ![target] = "grey"]
      /\ candidates' = {c \in (1..Len(edge_stack')) \X nodes \X nodes :
                           /\ c[2] \in edge_stack'[c[1]].plugins
                           /\ c[3] \in find_plugins_in_group(target)}
      /\ Searching /\ EdgesLeft
  BY DEF TreeEdge, Searching
<1>5. /\ m \in Nat \ {0} /\ m = Len(stack)
      /\ source = Node(m) /\ stack[m][2] \in Nat \ {0}
  BY <1>4, <1>1, TopOfPath, PathGroups DEF GroupInv
<1>6. target = Succ(source)[stack[m][2]] /\ target \in GroupNames
  BY <1>4, <1>1, TopOfPath DEF GroupInv
<1>7. /\ Len(stack') = m + 1
      /\ \A k \in 1..(m - 1) : stack'[k] = stack[k]
      /\ stack'[m] = <<source, stack[m][2] + 1>>
      /\ stack'[m + 1] = <<target, 1>>
  <2>1. /\ Stepped \in Seq(GroupNames \X (Nat \ {0})) /\ Len(Stepped) = m
        /\ \A k \in 1..(m - 1) : Stepped[k] = stack[k]
        /\ Stepped[m] = <<source, stack[m][2] + 1>>
    BY <1>4, <1>1, TopOfPath DEF GroupInv
  <2> QED
    BY <1>4, <1>5, <1>6, <2>1
<1>8. Node(m + 1)' = target /\ Node(m)' = source
  BY <1>7 DEF Node
<1>9. ASSUME NEW k \in 1..m
      PROVE  Node(k)' = Node(k)
  <2>1. CASE k = m
    BY <1>5, <1>8, <2>1
  <2>2. CASE k # m
    <3>1. k \in 1..(m - 1)
      BY <1>5, <2>2
    <3> QED
      BY <1>7, <3>1 DEF Node
  <2> QED
    BY <2>1, <2>2
<1>10. /\ Len(edge_stack) = m - 1 /\ Len(edge_stack') = m
       /\ \A k \in 1..(m - 1) : edge_stack'[k] = edge_stack[k]
       /\ edge_stack'[m] = passed
  <2>1. edge_stack \in Seq([source : GroupNames, plugins : SUBSET nodes])
    BY DEF GroupInv, GroupTypes
  <2>2. Len(edge_stack) = m - 1
    BY <1>4, <1>1 DEF GroupInv, PathShape
  <2> QED
    BY <1>4, <1>5, <2>1, <2>2
<1>11. ASSUME NEW k \in 1..m
       PROVE  /\ edge_stack'[k].source = Node(k)
              /\ \/ should_ignore_source_node(Node(k))
                 \/ edge_stack'[k].plugins = find_plugins_in_group(Node(k))
  <2>1. CASE k = m
    BY <1>5, <1>10, <2>1
  <2>2. CASE k # m
    <3>1. k \in 1..(m - 1)
      BY <2>2
    <3>2. k \in 1..Len(edge_stack) /\ edge_stack'[k] = edge_stack[k]
      BY <1>10, <3>1
    <3> QED
      BY <3>2 DEF GroupInv, PathShape
  <2> QED
    BY <2>1, <2>2
<1>12. ASSUME NEW k \in 1..m
       PROVE  Node(k + 1)' = Succ(Node(k))'[stack'[k][2] - 1]
  <2>1. CASE k = m
    <3>1. stack'[m][2] - 1 = stack[m][2]
      BY <1>5, <1>7
    <3>2. Succ(Node(m))' = Succ(source)
      BY <1>4, <1>8 DEF Succ
    <3> QED
      BY <1>8, <1>6, <2>1, <3>1, <3>2
  <2>2. CASE k # m
    <3>1. k \in 1..(m - 1) /\ k + 1 \in 1..m
      BY <1>5, <2>2
    <3> QED
      BY <1>4, <1>7, <1>9, <1>1, <3>1 DEF GroupInv, PathShape, Succ
  <2> QED
    BY <2>1, <2>2
<1>13. stack' # <<>>
  BY <1>5, <1>7
<1>14. PathShape'
  <2>1. ASSUME NEW k \in 1..m
        PROVE  /\ edge_stack'[k].source = Node(k)'
               /\ \/ should_ignore_source_node(Node(k))'
                  \/ edge_stack'[k].plugins = find_plugins_in_group(Node(k))'
    BY <1>4, <1>9, <1>11
    DEF should_ignore_source_node, find_plugins_in_group, group, Fixed
  <2>2. Len(edge_stack') = Len(stack') - 1 /\ Len(stack') - 1 = m
    BY <1>5, <1>7, <1>10
  <2> QED
    BY <1>12, <1>13, <2>1, <2>2 DEF PathShape
<1>15. DefaultLast'
  BY <1>4 DEF GroupInv, DefaultLast
<1>16. ASSUME NEW k \in 1..m, Watched(k)'
       PROVE  Watched(k) /\ Settled(Node(k), Node(m + 1))'
  <2>1. Watched(k)
    BY <1>4, <1>9, <1>16, WatchedBefore
  <2>2. edge_stack'[k].plugins = find_plugins_in_group(Node(k))
    BY <1>11, <2>1 DEF Watched
  <2>3. ASSUME NEW p \in nodes, NEW q \in nodes,
               group(p) = Node(k), group(q) = target
        PROVE  \E c \in candidates' : c[2] = p /\ c[3] = q
    <3>1. k \in 1..Len(edge_stack')
      BY <1>10
    <3>2. p \in edge_stack'[k].plugins /\ q \in find_plugins_in_group(target)
      BY <2>2, <2>3 DEF find_plugins_in_group
    <3>3. <<k, p, q>> \in candidates'
      BY <1>4, <3>1, <3>2
    <3> QED
      BY <3>3
  <2> QED
    BY <1>9, <1>8, <2>1, <2>3 DEF Settled, Fixed, group
<1>17. /\ \A j \in 1..m : Taken(j)' = Taken(j)
       /\ Taken(m + 1)' = {}
  BY <1>5, <1>7 DEF Taken
<1>18. WatchedSettled'
  <2> SUFFICES ASSUME NEW k \in 1..(m + 1), Watched(k)'
               PROVE  /\ \A j \in k..(m + 1) : \A i \in Taken(j)' :
                            SettledFrom(Node(k), Succ(Node(j))[i])'
                      /\ \A j \in (k + 1)..(m + 1) :
                            (Node(j) # Node(k) => Settled(Node(k), Node(j)))'
    BY <1>7 DEF WatchedSettled
  <2>1. CASE k = m + 1
    BY <1>5, <1>17, <2>1
  <2>2. CASE k # m + 1
    <3>1. k \in 1..m /\ Watched(k)
      BY <1>5, <1>16, <2>2
    <3>2. /\ \A j \in k..m : \A i \in Taken(j) :
                SettledFrom(Node(k), Succ(Node(j))[i])
          /\ \A j \in (k + 1)..m :
                Node(j) # Node(k) => Settled(Node(k), Node(j))
      BY <1>1, <3>1 DEF GroupInv, WatchedSettled
    <3>3. \A g : Succ(g)' = Succ(g)
      BY <1>4 DEF Succ
    <3>4. ASSUME NEW j \in k..(m + 1), NEW i \in Taken(j)'
          PROVE  SettledFrom(Node(k), Succ(Node(j))[i])'
      <4>1. j \in k..m /\ j \in 1..m /\ i \in Taken(j)
        BY <1>5, <1>17, <3>1, <3>4
      <4>2. SettledFrom(Node(k), Succ(Node(j))[i])
        BY <3>2, <4>1
      <4> QED
        BY <1>2, <1>9, <3>1, <3>3, <4>1, <4>2, SettledStays
    <3>5. ASSUME NEW j \in (k + 1)..(m + 1)
          PROVE  (Node(j) # Node(k) => Settled(Node(k), Node(j)))'
      <4>1. CASE j = m + 1
        BY <1>9, <1>8, <1>16, <3>1, <4>1
      <4>2. CASE j # m + 1
        <5>1. j \in (k + 1)..m /\ j \in 1..m
          BY <1>5, <3>1, <4>2
        <5> QED
          BY <1>2, <1>9, <3>1, <3>2, <5>1, SettledStays
      <4> QED
        BY <4>1, <4>2
    <3> QED
      BY <3>4, <3>5
  <2> QED
    BY <2>1, <2>2
<1>19. BlackSettled'
  <2>1. 1 \in 1..m
    BY <1>5
  <2>2. \A t \in GroupNames : colour'[t] = "black" => colour[t] = "black"
    BY <1>4, <1>6 DEF GroupInv, GroupTypes
  <2> QED
    BY <1>2, <1>4, <1>9, <1>16, <2>1, <2>2, SettledStays
    DEF GroupInv, BlackSettled
<1>20. FinishedDone'
  BY <1>2, <1>4, SettledStays DEF GroupInv, FinishedDone
<1>21. SearchesCover'
  <2>1. 1 \in 1..m
    BY <1>5
  <2> QED
    BY <1>2, <1>4, <1>9, <1>13, <2>1, SettledStays
    DEF GroupInv, SearchesCover, Fixed, group
<1> QED
  BY <1>3, <1>14, <1>15, <1>18, <1>19, <1>20, <1>21 DEF GroupInv

\* A group has no edges left.
LEMMA FinishGroupKeeps ==
    ASSUME Setting, GroupInv, FinishGroup, Fixed
    PROVE  GroupInv'
<1>1. PICK m \in Nat \ {0} : m = Len(stack)
  BY TopOfPath DEF FinishGroup, GroupInv
<1>2. GroupStep
  BY DEF GroupStep
<1>3. GroupTypes'
  BY <1>2, TypesStay
<1>4. /\ UNCHANGED <<graph, groups_graph, starts, ignored, candidates,
                     unfinishable>>
      /\ stack' = Front(stack) /\ stack # <<>>
      /\ edge_stack' = IF edge_stack = <<>> THEN <<>> ELSE Front(edge_stack)
      /\ colour' = [colour EXCEPT ![source] = "black"]
      /\ finished' = IF source # ignored /\ source \notin unfinishable
                     THEN finished \cup {source} ELSE finished
      /\ candidates = {} /\ candidates' = {}
      /\ Searching /\ ~EdgesLeft
  BY DEF FinishGroup, Searching
<1>5. source = Node(m) /\ source \in GroupNames /\ m \in 1..Len(stack)
  BY <1>1, <1>4, TopOfPath, PathGroups DEF GroupInv
<1>6. /\ Len(stack') = m - 1
      /\ \A k \in 1..(m - 1) : stack'[k] = stack[k]
  BY <1>1, <1>4, FrontFacts DEF GroupInv, GroupTypes
<1>7. ASSUME NEW k \in 1..(m - 1)
      PROVE  Node(k)' = Node(k)
  BY <1>6 DEF Node
<1>8. ASSUME NEW k \in 1..m, Watched(k)
      PROVE  SettledFrom(Node(k), source)
  BY <1>1, <1>4, <1>8, EndOfPathSettled
<1>9. ASSUME NEW k \in 1..(m - 1), Watched(k)'
      PROVE  Watched(k)
  BY <1>4, <1>7, <1>9, WatchedBefore
<1>10. PathShape'
  <2>1. Len(edge_stack) = m - 1
    BY <1>1, <1>4 DEF GroupInv, PathShape
  <2>2. edge_stack \in Seq([source : GroupNames, plugins : SUBSET nodes])
    BY DEF GroupInv, GroupTypes
  <2>3. CASE m = 1
    <3>1. edge_stack = <<>> /\ edge_stack' = <<>> /\ stack' = <<>>
      BY <1>3, <1>4, <1>6, <2>1, <2>2, <2>3 DEF GroupTypes
    <3> QED
      BY <1>4, <3>1 DEF PathShape
  <2>4. CASE m # 1
    <3>1. m - 1 \in Nat \ {0}
      BY <2>4
    <3>2. edge_stack # <<>>
      BY <2>1, <3>1
    <3>3. /\ Len(edge_stack') = m - 1 - 1
          /\ \A k \in 1..(m - 1 - 1) : edge_stack'[k] = edge_stack[k]
      BY <1>4, <2>1, <2>2, <3>2, FrontFacts
    <3>4. stack' # <<>>
      BY <1>6, <3>1
    <3>5. ASSUME NEW k \in 1..(m - 1 - 1)
          PROVE  /\ edge_stack'[k].source = Node(k)'
                 /\ \/ should_ignore_source_node(Node(k))'
                    \/ edge_stack'[k].plugins = find_plugins_in_group(Node(k))'
                 /\ Node(k + 1)' = Succ(Node(k))'[stack'[k][2] - 1]
      <4>1. k \in 1..(m - 1) /\ k + 1 \in 1..(m - 1)
        BY <3>1
      <4>2. finished \subseteq finished'
        BY <1>4
      <4>3. /\ edge_stack[k].source = Node(k)
            /\ \/ should_ignore_source_node(Node(k))
               \/ edge_stack[k].plugins = find_plugins_in_group(Node(k))
            /\ Node(k + 1) = Succ(Node(k))[stack[k][2] - 1]
        BY <1>1, <2>1, <4>1 DEF GroupInv, PathShape
      <4>4. Node(k)' = Node(k) /\ Node(k + 1)' = Node(k + 1)
        BY <1>7, <4>1
      <4> QED
        BY <1>4, <1>6, <3>3, <4>1, <4>2, <4>3, <4>4
        DEF Succ, should_ignore_source_node, find_plugins_in_group, group, Fixed
    <3> QED
      BY <1>4, <1>6, <3>3, <3>4, <3>5 DEF PathShape
  <2> QED
    BY <2>3, <2>4
<1>11. DefaultLast'
  BY <1>4 DEF GroupInv, DefaultLast
<1>12. ASSUME NEW j \in 1..(m - 1), NEW i \in Taken(j)'
       PROVE  \/ i \in Taken(j)
              \/ j = m - 1 /\ Succ(Node(j))[i] = source
  <2>1. j \in Nat /\ j <= m - 1 /\ j # m
    OBVIOUS
  <2>2. stack[j][2] \in Nat
    BY <1>1, <2>1, PathGroups DEF GroupInv
  <2>3. CASE j = m - 1
    <3>1. i \in 1..(stack[j][2] - 1)
      BY <1>6, <2>3 DEF Taken
    <3>2. Taken(j) = 1..(stack[j][2] - 2)
      BY <1>1, <2>1 DEF Taken
    <3>3. Node(j + 1) = Succ(Node(j))[stack[j][2] - 1] /\ j + 1 = m
      BY <1>1, <2>3 DEF GroupInv, PathShape
    <3>4. i = stack[j][2] - 1 \/ i \in 1..(stack[j][2] - 2)
      BY <2>2, <3>1
    <3> QED
      BY <1>5, <2>3, <3>2, <3>3, <3>4
  <2>4. CASE j # m - 1
    BY <1>1, <1>6, <2>1, <2>4 DEF Taken
  <2> QED
    BY <2>3, <2>4
<1>13. WatchedSettled'
  <2> SUFFICES ASSUME NEW k \in 1..(m - 1), Watched(k)'
               PROVE  /\ \A j \in k..(m - 1) : \A i \in Taken(j)' :
                            SettledFrom(Node(k), Succ(Node(j))[i])'
                      /\ \A j \in (k + 1)..(m - 1) :
                            (Node(j) # Node(k) => Settled(Node(k), Node(j)))'
    BY <1>6 DEF WatchedSettled
  <2>1. Watched(k) /\ k \in 1..m /\ k \in 1..Len(stack)
    BY <1>1, <1>9
  <2>2. /\ \A j \in k..m : \A i \in Taken(j) :
              SettledFrom(Node(k), Succ(Node(j))[i])
        /\ \A j \in (k + 1)..m :
              Node(j) # Node(k) => Settled(Node(k), Node(j))
    BY <1>1, <2>1 DEF GroupInv, WatchedSettled
  <2>3. \A g : Succ(g)' = Succ(g)
    BY <1>4 DEF Succ
  <2>4. SettledFrom(Node(k), source)
    BY <1>8, <2>1
  <2>5. ASSUME NEW j \in k..(m - 1), NEW i \in Taken(j)'
        PROVE  SettledFrom(Node(k), Succ(Node(j))[i])'
    <3>1. j \in 1..(m - 1) /\ j \in k..m
      OBVIOUS
    <3>2. SettledFrom(Node(k), Succ(Node(j))[i])
      BY <1>12, <2>2, <2>4, <2>5, <3>1
    <3> QED
      BY <1>2, <1>7, <2>3, <3>1, <3>2, SettledStays
  <2>6. ASSUME NEW j \in (k + 1)..(m - 1)
        PROVE  (Node(j) # Node(k) => Settled(Node(k), Node(j)))'
    <3>1. j \in (k + 1)..m /\ j \in 1..(m - 1)
      OBVIOUS
    <3> QED
      BY <1>2, <1>7, <2>2, <3>1, SettledStays
  <2> QED
    BY <2>5, <2>6
<1>14. BlackSettled'
  <2> SUFFICES ASSUME stack' # <<>>, Watched(1)',
                      NEW t \in GroupNames, colour'[t] = "black"
               PROVE  SettledFrom(Node(1), t)'
    BY DEF BlackSettled
  <2>1. 1 \in 1..(m - 1) /\ 1 \in 1..m
    <3>1. stack' \in Seq(GroupNames \X (Nat \ {0}))
      BY <1>3 DEF GroupTypes
    <3>2. Len(stack') \in Nat \ {0}
      BY <3>1
    <3> QED
      BY <1>6, <3>2
  <2>2. Watched(1)
    BY <1>9, <2>1
  <2>3. SettledFrom(Node(1), t)
    <3>1. CASE t = source
      BY <1>8, <2>1, <2>2, <3>1
    <3>2. CASE t # source
      <4>1. colour[t] = "black"
        BY <1>4, <3>2 DEF GroupInv, GroupTypes
      <4> QED
        BY <1>4, <2>2, <4>1 DEF GroupInv, BlackSettled
    <3> QED
      BY <3>1, <3>2
  <2> QED
    BY <1>2, <1>7, <2>1, <2>3, SettledStays
<1>15. ASSUME NEW k \in 1..m, Watched(k), k = m
       PROVE  GroupDone(source)
  BY <1>4, <1>5, <1>8, <1>15, SettledIsDone
<1>16. FinishedDone'
  <2> SUFFICES ASSUME NEW g \in finished'
               PROVE  GroupDone(g)
    BY <1>2, SettledStays DEF FinishedDone
  <2>1. CASE g \in finished
    BY <2>1 DEF GroupInv, FinishedDone
  <2>2. CASE g \notin finished
    <3>1. g = source /\ source # ignored /\ source \notin unfinishable
      BY <1>4, <2>2
    <3>2. Watched(m)
      BY <1>5, <2>2, <3>1 DEF Watched, should_ignore_source_node
    <3> QED
      BY <1>15, <3>1, <3>2
  <2> QED
    BY <2>1, <2>2
<1>17. SearchesCover'
  <2> SUFFICES ASSUME NEW p \in nodes
               PROVE  \/ GroupDone(group(p))
                      \/ group(p) \in ToSet(starts)
                      \/ stack' # <<>> /\ group(p) = Node(1)'
    BY <1>2, <1>4, SettledStays DEF SearchesCover, Fixed, group
  <2>1. \/ GroupDone(group(p))
        \/ group(p) \in ToSet(starts)
        \/ group(p) = Node(1)
    BY DEF GroupInv, SearchesCover
  <2>2. CASE m # 1
    <3>1. 1 \in 1..(m - 1)
      BY <2>2
    <3>2. stack' # <<>>
      BY <1>6, <3>1
    <3> QED
      BY <1>7, <2>1, <3>1, <3>2
  <2>3. CASE m = 1 /\ group(p) = Node(1)
    <3>1. CASE Node(1) \in finished
      BY <2>3, <3>1 DEF GroupInv, FinishedDone
    <3>2. CASE Node(1) = ignored
      <4>1. ignored # NoGroup
        BY <1>5, <2>3, <3>2, NoGroupAssumption
      <4>2. starts # <<>> /\ starts[Len(starts)] = ignored
        BY <4>1 DEF GroupInv, DefaultLast
      <4>3. starts \in Seq(GroupNames)
        BY DEF GroupInv, GroupTypes
      <4>4. ignored \in ToSet(starts)
        BY <4>2, <4>3 DEF ToSet
      <4> QED
        BY <2>3, <3>2, <4>4
    <3>3. CASE Node(1) \notin finished /\ Node(1) # ignored
      <4>1. Watched(1)
        BY <3>3 DEF Watched, should_ignore_source_node
      <4> QED
        BY <1>5, <1>15, <2>3, <4>1
    <3> QED
      BY <3>1, <3>2, <3>3
  <2> QED
    BY <2>1, <2>2, <2>3
<1> QED
  BY <1>3, <1>10, <1>11, <1>13, <1>14, <1>16, <1>17 DEF GroupInv

\* The searches keep the invariant.
LEMMA GroupStepInv ==
    ASSUME Setting, GroupInv, GroupStep, Fixed
    PROVE  GroupInv'
BY StartSearchKeeps, TreeEdgeKeeps, CrossEdgeKeeps, FinishGroupKeeps,
   TryGroupEdgeKeeps
DEF GroupStep

\* The searches start in it, if every plugin's group is in the groups graph.
LEMMA GroupStartInv ==
    ASSUME NEW gg, GroupsAtStart(gg), Fixed, UNCHANGED graph,
           gg.nodes \in Seq(GroupNames),
           \A g \in GroupNames : gg.succ[g] \in Seq(GroupNames),
           \A p \in nodes : group(p) \in ToSet(gg.nodes)
    PROVE  GroupInv'
<1>1. PICK s \in sorted_group_nodes(gg) : starts' = Append(s, DefaultGroup)
  BY DEF GroupsAtStart
<1>2. ToSet(gg.nodes) \subseteq GroupNames
  BY DEF ToSet
<1>3. /\ s \in [1..Len(gg.nodes) -> ToSet(gg.nodes)]
      /\ ToSet(s) = ToSet(gg.nodes)
  BY DEF sorted_group_nodes
<1>4. s \in Seq(GroupNames)
  <2>1. Len(gg.nodes) \in Nat
    OBVIOUS
  <2>2. s \in [1..Len(gg.nodes) -> GroupNames]
    BY <1>2, <1>3
  <2> QED
    BY <2>1, <2>2, SeqDef
<1>5. /\ starts' \in Seq(GroupNames) /\ starts' # <<>>
      /\ starts'[Len(starts')] = DefaultGroup
      /\ ToSet(s) \subseteq ToSet(starts')
  <2>1. /\ starts' \in Seq(GroupNames) /\ Len(starts') = Len(s) + 1
        /\ starts'[Len(s) + 1] = DefaultGroup
        /\ \A i \in 1..Len(s) : starts'[i] = s[i]
    BY <1>1, <1>4, DefaultGroupAssumption
  <2>2. Len(s) \in Nat
    BY <1>4
  <2>3. starts' # <<>>
    BY <2>1, <2>2
  <2>4. ASSUME NEW i \in 1..Len(s)
        PROVE  i \in 1..Len(starts') /\ starts'[i] = s[i]
    BY <2>1, <2>2
  <2>5. ToSet(s) \subseteq ToSet(starts')
    BY <1>4, <2>1, <2>4 DEF ToSet
  <2> QED
    BY <2>1, <2>3, <2>5
<1>6. /\ groups_graph' = gg /\ ignored' = NoGroup /\ stack' = <<>>
      /\ colour' = White /\ edge_stack' = <<>> /\ candidates' = {}
      /\ finished' = {}
  BY DEF GroupsAtStart
<1>7. GroupTypes'
  BY <1>5, <1>6 DEF GroupTypes, Succ, White
<1>8. PathShape' /\ DefaultLast'
  BY <1>5, <1>6 DEF PathShape, DefaultLast
<1>9. WatchedSettled' /\ BlackSettled' /\ FinishedDone'
  BY <1>6 DEF WatchedSettled, BlackSettled, FinishedDone
<1>10. SearchesCover'
  BY <1>3, <1>5 DEF SearchesCover, Fixed, group
<1> QED
  BY <1>7, <1>8, <1>9, <1>10 DEF GroupInv

\* When they are done, every two plugins whose groups are ordered are ordered.
LEMMA GroupInvOrders ==
    ASSUME GroupInv
    PROVE  GroupsOrdered
<1> SUFFICES ASSUME GroupsDone, NEW p \in nodes, NEW q \in nodes,
                    group(p) # group(q), GroupReach(group(p), group(q))
             PROVE  HasPath(graph, p, q) \/ HasPath(graph, q, p)
  BY DEF GroupsOrdered
<1>1. GroupDone(group(p))
  BY DEF GroupsDone, GroupInv, SearchesCover, ToSet
<1> QED
  BY <1>1 DEF GroupDone, PairOrdered

-----------------------------------------------------------------------------
(* Orders. *)

\* s lists all of S, n places long, and follows the relation Q.
Follows(n, S, Q, s) ==
    /\ s \in [1..n -> S]
    /\ \A v \in S : \E i \in 1..n : s[i] = v
    /\ \A i, j \in 1..n : i < j => <<s[i], s[j]>> \in Q

\* Only one listing of a set follows an asymmetric relation.
LEMMA SameOrder ==
    ASSUME NEW n \in Nat, NEW S, NEW Q,
           \A x, y \in S : ~(<<x, y>> \in Q /\ <<y, x>> \in Q),
           NEW s, Follows(n, S, Q, s), NEW t, Follows(n, S, Q, t)
    PROVE  s = t
<1> USE DEF Follows
<1> SUFFICES ASSUME s # t
             PROVE  FALSE
  OBVIOUS
<1> DEFINE D == {i \in 1..n : s[i] # t[i]}
<1>1. D # {} /\ D \subseteq Nat
  <2>1. PICK i \in 1..n : s[i] # t[i]
    OBVIOUS
  <2>2. i \in D /\ D \subseteq Nat
    BY <2>1
  <2> HIDE DEF D
  <2> QED
    BY <2>2
<1> HIDE DEF D
<1>2. PICK i \in D : \A j \in D : i <= j
  BY <1>1, MinOfNumbers
<1> USE DEF D
<1>3. i \in 1..n /\ s[i] # t[i] /\ \A j \in 1..n : j < i => s[j] = t[j]
  BY <1>2
<1>4. PICK j \in 1..n : t[j] = s[i]
  BY <1>3
<1>5. PICK k \in 1..n : s[k] = t[i]
  BY <1>3
<1>6. ASSUME NEW a \in 1..n, NEW b \in 1..n, a # b
      PROVE  s[a] # s[b] /\ t[a] # t[b]
  <2>1. \/ <<s[a], s[b]>> \in Q /\ <<t[a], t[b]>> \in Q
        \/ <<s[b], s[a]>> \in Q /\ <<t[b], t[a]>> \in Q
    <3>1. a < b \/ b < a
      BY <1>6
    <3> QED
      BY <3>1
  <2> QED
    BY <1>6, <2>1
<1>7. j > i
  <2>1. j # i
    BY <1>3, <1>4
  <2>2. ASSUME j < i
        PROVE  FALSE
    <3>1. s[j] = s[i] /\ j # i
      BY <1>3, <1>4, <2>2
    <3> QED
      BY <1>3, <1>6, <3>1
  <2> QED
    BY <2>1, <2>2
<1>8. k > i
  <2>1. k # i
    BY <1>3, <1>5
  <2>2. ASSUME k < i
        PROVE  FALSE
    <3>1. t[k] = t[i] /\ k # i
      BY <1>3, <1>5, <2>2
    <3> QED
      BY <1>3, <1>6, <3>1
  <2> QED
    BY <2>1, <2>2
<1>9. <<t[i], s[i]>> \in Q /\ <<s[i], t[i]>> \in Q
  BY <1>3, <1>4, <1>5, <1>7, <1>8
<1> QED
  BY <1>3, <1>9

-----------------------------------------------------------------------------
(* The searches as a run.  Which pairs a path search caches is left open,   *)
(* and with it which edges are added: an edge whose pair is cached is not.  *)
(* The paths of the graph do not depend on it.  A configuration has these   *)
(* paths in place of the graph, and what is left to do of the group         *)
(* searches and of the overlap loops behind them; a turn, the step from one *)
(* configuration to the next, is determined by the first of the two.        *)

\* A state of the group searches and the overlap loops, with the paths of the
\* graph instead of the graph.
Configs ==
    [paths        : SUBSET Pairs,
     starts       : Seq(GroupNames),
     ignored      : GroupNames \cup {NoGroup},
     stack        : Seq(GroupNames \X (Nat \ {0})),
     colour       : [GroupNames -> {"white", "grey", "black"}],
     edge_stack   : Seq([source : GroupNames, plugins : SUBSET Plugins]),
     candidates   : SUBSET (Nat \X Plugins \X Plugins),
     finished     : SUBSET GroupNames,
     unfinishable : SUBSET GroupNames,
     pairs        : SUBSET Pairs]

Exploring(c) == c.stack # <<>> /\ c.candidates = {}
TopGroup(c) == Last(c.stack)[1]
NextEdge(c) == Last(c.stack)[2]
EdgeIsLeft(w, c) == NextEdge(c) <= Len(w.succ[TopGroup(c)])
NextTarget(w, c) == w.succ[TopGroup(c)][NextEdge(c)]
Moved(c) == [c.stack EXCEPT ![Len(c.stack)] = <<TopGroup(c), NextEdge(c) + 1>>]
PassedOver(c) == TopGroup(c) = c.ignored \/ TopGroup(c) \in c.finished

StartTurn(c, d) ==
    /\ c.stack = <<>>
    /\ c.candidates = {}
    /\ c.starts # <<>>
    /\ d = [paths |-> c.paths, starts |-> Tail(c.starts),
            ignored |-> IF Len(c.starts) = 1 THEN NoGroup ELSE DefaultGroup,
            stack |-> <<<<Head(c.starts), 1>>>>,
            colour |-> [White EXCEPT ![Head(c.starts)] = "grey"],
            edge_stack |-> <<>>, candidates |-> c.candidates,
            finished |-> c.finished, unfinishable |-> {}, pairs |-> c.pairs]

\* The visitor's entry for the group at the top.
Entry(w, c) ==
    [source  |-> TopGroup(c),
     plugins |-> IF PassedOver(c) THEN {} ELSE w.members[TopGroup(c)]]

TreeTurn(w, c, d) ==
    /\ Exploring(c) /\ EdgeIsLeft(w, c)
    /\ c.colour[NextTarget(w, c)] = "white"
    /\ LET edges == Append(c.edge_stack, Entry(w, c))
           tries == {x \in (1..Len(edges)) \X w.nodes \X w.nodes :
                        /\ x[2] \in edges[x[1]].plugins
                        /\ x[3] \in w.members[NextTarget(w, c)]}
       IN d = [paths |-> c.paths, starts |-> c.starts, ignored |-> c.ignored,
               stack |-> Append(Moved(c), <<NextTarget(w, c), 1>>),
               colour |-> [c.colour EXCEPT ![NextTarget(w, c)] = "grey"],
               edge_stack |-> edges, candidates |-> tries,
               finished |-> c.finished, unfinishable |-> c.unfinishable,
               pairs |-> c.pairs]

CrossTurn(w, c, d) ==
    /\ Exploring(c) /\ EdgeIsLeft(w, c)
    /\ c.colour[NextTarget(w, c)] = "black"
    /\ d = [paths |-> c.paths, starts |-> c.starts, ignored |-> c.ignored,
            stack |-> Moved(c), colour |-> c.colour,
            edge_stack |-> c.edge_stack, candidates |-> c.candidates,
            finished |-> c.finished,
            unfinishable |-> c.unfinishable \cup {TopGroup(c)}
                \cup {c.edge_stack[i].source : i \in 1..Len(c.edge_stack)},
            pairs |-> c.pairs]

Finished(c) ==
    IF TopGroup(c) # c.ignored /\ TopGroup(c) \notin c.unfinishable
    THEN c.finished \cup {TopGroup(c)} ELSE c.finished

FinishTurn(w, c, d) ==
    /\ Exploring(c) /\ ~EdgeIsLeft(w, c)
    /\ d = [paths |-> c.paths, starts |-> c.starts, ignored |-> c.ignored,
            stack |-> Front(c.stack),
            colour |-> [c.colour EXCEPT ![TopGroup(c)] = "black"],
            edge_stack |-> IF c.edge_stack = <<>> THEN <<>> ELSE Front(c.edge_stack),
            candidates |-> c.candidates, finished |-> Finished(c),
            unfinishable |-> c.unfinishable, pairs |-> c.pairs]

TryTurn(c, d) ==
    \E x \in c.candidates :
        /\ \A y \in c.candidates : NoLater(x, y)
        /\ d = [paths |-> Joined(c.paths, x[2], x[3]), starts |-> c.starts,
                ignored |-> c.ignored, stack |-> c.stack, colour |-> c.colour,
                edge_stack |-> c.edge_stack, candidates |-> c.candidates \ {x},
                finished |-> c.finished, unfinishable |-> c.unfinishable,
                pairs |-> c.pairs]

GroupTurn(w, c, d) ==
    \/ StartTurn(c, d) \/ TreeTurn(w, c, d) \/ CrossTurn(w, c, d)
    \/ FinishTurn(w, c, d) \/ TryTurn(c, d)

SearchesOver(c) == c.stack = <<>> /\ c.starts = <<>> /\ c.candidates = {}

\* The pair of plugins to join, the one that loads first in front; w.overrides
\* has the pairs that are ordered by what they override.
WithOverlap(w, R, p, q) ==
    IF <<p, q>> \in w.overrides THEN Joined(R, p, q)
    ELSE IF <<q, p>> \in w.overrides THEN Joined(R, q, p)
    ELSE R

PairTurn(w, c, d) ==
    /\ SearchesOver(c)
    /\ \E e \in c.pairs :
          /\ \A f \in c.pairs : e[1] < f[1] \/ (e[1] = f[1] /\ e[2] <= f[2])
          /\ d = [paths |-> WithOverlap(w, c.paths, e[1], e[2]),
                  starts |-> c.starts, ignored |-> c.ignored,
                  stack |-> c.stack, colour |-> c.colour,
                  edge_stack |-> c.edge_stack, candidates |-> c.candidates,
                  finished |-> c.finished, unfinishable |-> c.unfinishable,
                  pairs |-> c.pairs \ {e}]

Turn(w, c, d) == GroupTurn(w, c, d) \/ PairTurn(w, c, d)

Turns(w) == {e \in Configs \X Configs : Turn(w, e[1], e[2])}

AllOver(c) == SearchesOver(c) /\ c.pairs = {}

\* A turn is determined by the state before it.
LEMMA TurnDetermined ==
    ASSUME NEW w, NEW c \in Configs, NEW d, NEW e, Turn(w, c, d), Turn(w, c, e)
    PROVE  d = e
<1>1. /\ c.candidates \subseteq Nat \X Plugins \X Plugins
      /\ c.pairs \subseteq Plugins \X Plugins
  BY DEF Configs, Pairs
<1>2. CASE TryTurn(c, d)
  <2>1. TryTurn(c, e)
    BY <1>2 DEF Turn, GroupTurn, PairTurn, StartTurn, TreeTurn, CrossTurn, FinishTurn,
                TryTurn, Exploring, SearchesOver
  <2>2. PICK x \in c.candidates :
            /\ \A y \in c.candidates : NoLater(x, y)
            /\ d = [paths |-> Joined(c.paths, x[2], x[3]), starts |-> c.starts,
                    ignored |-> c.ignored, stack |-> c.stack,
                    colour |-> c.colour, edge_stack |-> c.edge_stack,
                    candidates |-> c.candidates \ {x}, finished |-> c.finished,
                    unfinishable |-> c.unfinishable, pairs |-> c.pairs]
    BY <1>2 DEF TryTurn
  <2>3. PICK y \in c.candidates :
            /\ \A z \in c.candidates : NoLater(y, z)
            /\ e = [paths |-> Joined(c.paths, y[2], y[3]), starts |-> c.starts,
                    ignored |-> c.ignored, stack |-> c.stack,
                    colour |-> c.colour, edge_stack |-> c.edge_stack,
                    candidates |-> c.candidates \ {y}, finished |-> c.finished,
                    unfinishable |-> c.unfinishable, pairs |-> c.pairs]
    BY <2>1 DEF TryTurn
  <2>4. x = y
    <3>1. NoLater(x, y) /\ NoLater(y, x)
      BY <2>2, <2>3
    <3>2. /\ x = <<x[1], x[2], x[3]>> /\ y = <<y[1], y[2], y[3]>>
          /\ x[1] \in Nat /\ x[2] \in Nat /\ x[3] \in Nat
          /\ y[1] \in Nat /\ y[2] \in Nat /\ y[3] \in Nat
      BY <1>1, PluginsAssumption
    <3>3. x[1] = y[1] /\ x[2] = y[2] /\ x[3] = y[3]
      BY <3>1, <3>2 DEF NoLater
    <3> QED
      BY <3>2, <3>3
  <2> QED
    BY <2>2, <2>3, <2>4
<1>3. CASE PairTurn(w, c, d)
  <2>1. PairTurn(w, c, e)
    BY <1>3 DEF Turn, GroupTurn, PairTurn, StartTurn, TreeTurn, CrossTurn, FinishTurn,
                TryTurn, Exploring, SearchesOver
  <2>2. PICK x \in c.pairs :
            /\ \A y \in c.pairs : x[1] < y[1] \/ (x[1] = y[1] /\ x[2] <= y[2])
            /\ d = [paths |-> WithOverlap(w, c.paths, x[1], x[2]),
                    starts |-> c.starts, ignored |-> c.ignored,
                    stack |-> c.stack, colour |-> c.colour,
                    edge_stack |-> c.edge_stack, candidates |-> c.candidates,
                    finished |-> c.finished, unfinishable |-> c.unfinishable,
                    pairs |-> c.pairs \ {x}]
    BY <1>3 DEF PairTurn
  <2>3. PICK y \in c.pairs :
            /\ \A z \in c.pairs : y[1] < z[1] \/ (y[1] = z[1] /\ y[2] <= z[2])
            /\ e = [paths |-> WithOverlap(w, c.paths, y[1], y[2]),
                    starts |-> c.starts, ignored |-> c.ignored,
                    stack |-> c.stack, colour |-> c.colour,
                    edge_stack |-> c.edge_stack, candidates |-> c.candidates,
                    finished |-> c.finished, unfinishable |-> c.unfinishable,
                    pairs |-> c.pairs \ {y}]
    BY <2>1 DEF PairTurn
  <2>4. x = y
    <3>1. /\ x = <<x[1], x[2]>> /\ y = <<y[1], y[2]>>
          /\ x[1] \in Nat /\ x[2] \in Nat /\ y[1] \in Nat /\ y[2] \in Nat
      BY <1>1, PluginsAssumption
    <3>2. x[1] = y[1] /\ x[2] = y[2]
      BY <2>2, <2>3, <3>1
    <3> QED
      BY <3>1, <3>2
  <2> QED
    BY <2>2, <2>3, <2>4
<1>4. CASE StartTurn(c, d)
  <2>1. StartTurn(c, e)
    BY <1>4 DEF Turn, GroupTurn, PairTurn, StartTurn, TreeTurn, CrossTurn, FinishTurn,
                TryTurn, Exploring, SearchesOver
  <2> QED
    BY <1>4, <2>1 DEF StartTurn
<1>5. CASE TreeTurn(w, c, d)
  <2>1. TreeTurn(w, c, e)
    BY <1>5 DEF Turn, GroupTurn, PairTurn, StartTurn, TreeTurn, CrossTurn, FinishTurn,
                TryTurn, Exploring, SearchesOver
  <2> QED
    BY <1>5, <2>1 DEF TreeTurn
<1>6. CASE CrossTurn(w, c, d)
  <2>1. CrossTurn(w, c, e)
    BY <1>6 DEF Turn, GroupTurn, PairTurn, StartTurn, TreeTurn, CrossTurn, FinishTurn,
                TryTurn, Exploring, SearchesOver
  <2> QED
    BY <1>6, <2>1 DEF CrossTurn
<1>7. CASE FinishTurn(w, c, d)
  <2>1. FinishTurn(w, c, e)
    BY <1>7 DEF Turn, GroupTurn, PairTurn, StartTurn, TreeTurn, CrossTurn, FinishTurn,
                TryTurn, Exploring, SearchesOver
  <2> QED
    BY <1>7, <2>1 DEF FinishTurn
<1> QED
  BY <1>2, <1>3, <1>4, <1>5, <1>6, <1>7 DEF Turn, GroupTurn

\* Nothing follows when all is over.
LEMMA OverIsOver ==
    ASSUME NEW w, NEW c, AllOver(c), NEW d
    PROVE  ~Turn(w, c, d)
BY DEF AllOver, SearchesOver, Turn, GroupTurn, PairTurn, StartTurn, TreeTurn,
       CrossTurn, FinishTurn, TryTurn, Exploring

\* Where the searches and the loops are, the pairs P still to be visited.
Config(P) ==
    [paths        |-> PathsOf(graph.edges),
     starts       |-> starts,
     ignored      |-> ignored,
     stack        |-> stack,
     colour       |-> colour,
     edge_stack   |-> edge_stack,
     candidates   |-> candidates,
     finished     |-> finished,
     unfinishable |-> unfinishable,
     pairs        |-> P]

\* w tells of the groups what the searches see of them.
GroupsOf(w) ==
    /\ w.nodes = nodes
    /\ w.succ = groups_graph.succ
    /\ \A g \in GroupNames : w.members[g] = find_plugins_in_group(g)

\* A step of the group searches is a turn, whatever the cache holds.
LEMMA GroupStepTurns ==
    ASSUME Setting, GroupInv, GroupStep, Fixed, NEW w, GroupsOf(w), NEW P
    PROVE  Turn(w, Config(P), Config(P)')
<1>0. PICK c : c = [paths |-> PathsOf(graph.edges), starts |-> starts,
           ignored |-> ignored, stack |-> stack, colour |-> colour,
           edge_stack |-> edge_stack, candidates |-> candidates,
           finished |-> finished, unfinishable |-> unfinishable, pairs |-> P]
  OBVIOUS
<1>1. /\ c.paths = PathsOf(graph.edges) /\ c.starts = starts /\ c.ignored = ignored
      /\ c.stack = stack /\ c.colour = colour /\ c.edge_stack = edge_stack
      /\ c.candidates = candidates /\ c.finished = finished
      /\ c.unfinishable = unfinishable /\ c.pairs = P
  BY <1>0
<1>2. PICK d : d = [paths |-> PathsOf(graph'.edges), starts |-> starts',
           ignored |-> ignored', stack |-> stack', colour |-> colour',
           edge_stack |-> edge_stack', candidates |-> candidates',
           finished |-> finished', unfinishable |-> unfinishable', pairs |-> P]
  OBVIOUS
<1> SUFFICES Turn(w, c, d)
  BY <1>0, <1>2 DEF Config, PathsOf
<1>3. /\ TopGroup(c) = source /\ NextEdge(c) = Last(stack)[2]
      /\ EdgeIsLeft(w, c) <=> EdgesLeft
      /\ NextTarget(w, c) = target /\ Moved(c) = Stepped
      /\ PassedOver(c) <=> should_ignore_source_node(source)
      /\ Exploring(c) <=> Searching
  BY <1>1
  DEF TopGroup, NextEdge, EdgeIsLeft, NextTarget, Moved, PassedOver, Exploring,
      source, EdgesLeft, target, Stepped, should_ignore_source_node, Searching, GroupsOf
<1>4. Searching => source \in GroupNames /\ (EdgesLeft => target \in GroupNames)
  <2>1. Searching => source = stack[Len(stack)][1] /\ Len(stack) \in 1..Len(stack)
    BY TopOfPath DEF GroupInv, Node
  <2> QED
    BY <2>1, TopOfPath DEF GroupInv, GroupTypes
<1>5. stack = <<>> => candidates = {}
  BY DEF GroupInv, PathShape
<1>6. CASE StartSearch
  <2>1. d = [paths |-> c.paths, starts |-> Tail(c.starts),
             ignored |-> IF Len(c.starts) = 1 THEN NoGroup ELSE DefaultGroup,
             stack |-> <<<<Head(c.starts), 1>>>>,
             colour |-> [White EXCEPT ![Head(c.starts)] = "grey"],
             edge_stack |-> <<>>, candidates |-> c.candidates,
             finished |-> c.finished, unfinishable |-> {}, pairs |-> c.pairs]
    BY <1>0, <1>1, <1>2, <1>6 DEF StartSearch
  <2> QED
    BY <1>1, <1>5, <1>6, <2>1 DEF StartSearch, StartTurn, GroupTurn, Turn
<1>7. CASE TreeEdge
  <2>1. Entry(w, c) = [source  |-> source,
                       plugins |-> IF should_ignore_source_node(source) THEN {}
                                   ELSE find_plugins_in_group(source)]
    BY <1>3, <1>4, <1>7 DEF TreeEdge, Entry, GroupsOf
  <2> DEFINE edges == Append(c.edge_stack, Entry(w, c))
  <2>2. edge_stack' = edges
    BY <1>1, <1>7, <2>1 DEF TreeEdge
  <2>3. candidates' = {x \in (1..Len(edges)) \X w.nodes \X w.nodes :
                          /\ x[2] \in edges[x[1]].plugins
                          /\ x[3] \in w.members[NextTarget(w, c)]}
    <3>1. w.members[NextTarget(w, c)] = find_plugins_in_group(target) /\ w.nodes = nodes
      BY <1>3, <1>4, <1>7 DEF TreeEdge, GroupsOf
    <3>2. candidates' = {x \in (1..Len(edge_stack')) \X nodes \X nodes :
                          /\ x[2] \in edge_stack'[x[1]].plugins
                          /\ x[3] \in find_plugins_in_group(target)}
      BY <1>7 DEF TreeEdge
    <3> HIDE DEF edges
    <3> QED
      BY <2>2, <3>1, <3>2
  <2> HIDE DEF edges
  <2>4. d = [paths |-> c.paths, starts |-> c.starts, ignored |-> c.ignored,
             stack |-> Append(Moved(c), <<NextTarget(w, c), 1>>),
             colour |-> [c.colour EXCEPT ![NextTarget(w, c)] = "grey"],
             edge_stack |-> edges, candidates |-> candidates',
             finished |-> c.finished, unfinishable |-> c.unfinishable,
             pairs |-> c.pairs]
    BY <1>0, <1>1, <1>2, <1>3, <1>7, <2>2 DEF TreeEdge
  <2>5. TreeTurn(w, c, d)
    BY <1>1, <1>3, <1>7, <2>3, <2>4 DEF TreeEdge, TreeTurn, edges
  <2> QED
    BY <2>5 DEF GroupTurn, Turn
<1>8. CASE CrossEdge
  <2>0. unfinishable' = c.unfinishable \cup {TopGroup(c)}
                          \cup {c.edge_stack[i].source : i \in 1..Len(c.edge_stack)}
    BY <1>1, <1>3, <1>8 DEF CrossEdge
  <2>1. d = [paths |-> c.paths, starts |-> c.starts, ignored |-> c.ignored,
             stack |-> Moved(c), colour |-> c.colour,
             edge_stack |-> c.edge_stack, candidates |-> c.candidates,
             finished |-> c.finished,
             unfinishable |-> unfinishable', pairs |-> c.pairs]
    BY <1>0, <1>1, <1>2, <1>3, <1>8 DEF CrossEdge
  <2> QED
    BY <1>1, <1>3, <1>8, <2>0, <2>1 DEF CrossEdge, CrossTurn, GroupTurn, Turn
<1>9. CASE FinishGroup
  <2>1. d = [paths |-> c.paths, starts |-> c.starts, ignored |-> c.ignored,
             stack |-> Front(c.stack),
             colour |-> [c.colour EXCEPT ![TopGroup(c)] = "black"],
             edge_stack |-> IF c.edge_stack = <<>> THEN <<>> ELSE Front(c.edge_stack),
             candidates |-> c.candidates, finished |-> Finished(c),
             unfinishable |-> c.unfinishable, pairs |-> c.pairs]
    BY <1>0, <1>1, <1>2, <1>3, <1>9 DEF FinishGroup, Finished
  <2> QED
    BY <1>1, <1>3, <1>9, <2>1 DEF FinishGroup, FinishTurn, GroupTurn, Turn
<1>10. CASE TryGroupEdge
  <2>1. PICK x \in candidates :
            /\ \A y \in candidates : NoLater(x, y)
            /\ graph' \in AddUnlessCycle(graph, x[2], x[3])
            /\ candidates' = candidates \ {x}
            /\ UNCHANGED <<groups_graph, starts, ignored, stack, colour, edge_stack,
                           finished, unfinishable>>
    BY <1>10 DEF TryGroupEdge
  <2>2. x[2] \in Plugins /\ x[3] \in Plugins
    BY <2>1 DEF GroupInv, GroupTypes, Setting
  <2>3. PathsOf(graph'.edges) = Joined(PathsOf(graph.edges), x[2], x[3])
    <3>1. PICK h \in AddUnlessCycle(graph, x[2], x[3]) : h = graph'
      BY <2>1
    <3>2. PathsOf(h.edges) = Joined(PathsOf(graph.edges), x[2], x[3])
      BY <2>2, AddedPaths DEF Setting, GraphOver
    <3> QED
      BY <3>1, <3>2
  <2>4. d = [paths |-> Joined(c.paths, x[2], x[3]), starts |-> c.starts,
             ignored |-> c.ignored, stack |-> c.stack, colour |-> c.colour,
             edge_stack |-> c.edge_stack, candidates |-> c.candidates \ {x},
             finished |-> c.finished, unfinishable |-> c.unfinishable,
             pairs |-> c.pairs]
    BY <1>0, <1>1, <1>2, <2>1, <2>3
  <2> QED
    BY <1>1, <2>1, <2>4 DEF TryTurn, GroupTurn, Turn
<1> QED
  BY <1>6, <1>7, <1>8, <1>9, <1>10 DEF GroupStep

\* The searches' state has the type of a configuration.
LEMMA GroupConfigType ==
    ASSUME Setting, GroupInv, unfinishable \subseteq GroupNames, NEW P \in SUBSET Pairs
    PROVE  Config(P) \in Configs
<1>1. PathsOf(graph.edges) \subseteq Pairs
  BY DEF PathsOf
<1>2. ignored \in GroupNames \cup {NoGroup}
  BY DefaultGroupAssumption DEF GroupInv, DefaultLast
<1>3. edge_stack \in Seq([source : GroupNames, plugins : SUBSET Plugins])
  <2>1. [source : GroupNames, plugins : SUBSET nodes] \subseteq
            [source : GroupNames, plugins : SUBSET Plugins]
    BY DEF Setting
  <2> QED
    BY <2>1, SeqMonotonic DEF GroupInv, GroupTypes
<1>4. candidates \subseteq Nat \X Plugins \X Plugins
  BY DEF GroupInv, GroupTypes, Setting
<1>5. /\ starts \in Seq(GroupNames)
      /\ stack \in Seq(GroupNames \X (Nat \ {0}))
      /\ colour \in [GroupNames -> {"white", "grey", "black"}]
      /\ finished \subseteq GroupNames
  BY DEF GroupInv, GroupTypes
<1> QED
  BY <1>1, <1>2, <1>3, <1>4, <1>5 DEF Config, Configs

\* Only groups are unfinishable.
LEMMA UnfinishableStay ==
    ASSUME GroupInv, GroupStep, unfinishable \subseteq GroupNames
    PROVE  unfinishable' \subseteq GroupNames
<1>1. CASE CrossEdge
  <2>1. source \in GroupNames
    <3>1. source = stack[Len(stack)][1] /\ Len(stack) \in 1..Len(stack)
      BY <1>1, TopOfPath DEF GroupInv, Node, CrossEdge
    <3> QED
      BY <3>1 DEF GroupInv, GroupTypes
  <2>2. \A i \in 1..Len(edge_stack) : edge_stack[i].source \in GroupNames
    <3>1. edge_stack \in Seq([source : GroupNames, plugins : SUBSET nodes])
      BY DEF GroupInv, GroupTypes
    <3>2. ASSUME NEW i \in 1..Len(edge_stack)
          PROVE  edge_stack[i] \in [source : GroupNames, plugins : SUBSET nodes]
      BY <3>1, ElementOfSeq
    <3> QED
      BY <3>2
  <2> QED
    BY <1>1, <2>1, <2>2 DEF CrossEdge
<1>2. CASE StartSearch \/ TreeEdge \/ FinishGroup \/ TryGroupEdge
  BY <1>2 DEF StartSearch, TreeEdge, FinishGroup, TryGroupEdge
<1> QED
  BY <1>1, <1>2 DEF GroupStep
=============================================================================
