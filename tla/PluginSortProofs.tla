-------------------------- MODULE PluginSortProofs --------------------------
(***************************************************************************)
(* Safety of a whole sort, for every set of plugins, every input and every *)
(* number of paths a search may cache: the types, the soundness of the     *)
(* path cache and the absence of cycles after the first check.             *)
(*                                                                         *)
(* The properties are not inductive.  A step of the group, overlap and     *)
(* tie-break phases keeps the edges between nodes of the graph only if the *)
(* work it has still to do names such nodes, and closes no cycle only if   *)
(* the cache can be trusted, so IInv adds both.  The parts that follow add *)
(* an invariant each: OrderInv for the order that comes out, GroupsInv for *)
(* the groups and ReplayInv for a second sort.                             *)
(***************************************************************************)
EXTENDS PluginSort, GroupEdgesProofs, TieBreakProofs

\* What is left to do names nodes of the graph only.
WorkInNodes ==
    /\ phase = "groups" =>
          \A c \in candidates : c[2] \in nodes /\ c[3] \in nodes
    /\ phase = "overlap" => overlap_pairs \subseteq nodes \X nodes
    /\ phase = "ties" => TieStateOver(nodes)

IInv ==
    /\ TypeOK
    /\ WorkInNodes
    /\ CacheSound
    /\ StaysAcyclic

-----------------------------------------------------------------------------
\* In the checked phases the graph can be trusted and has no cycle.
LEMMA CheckedGraph ==
    ASSUME IInv, phase \in CheckedPhases
    PROVE  nodes \in SUBSET Plugins /\ GraphOver(graph, nodes)
BY DEF IInv, TypeOK, CacheSound, StaysAcyclic, GraphOver, SoundGraph

\* A step of the group searches adds edges between nodes only, and closes no
\* cycle.
LEMMA GroupEdgesKeep ==
    ASSUME IInv, phase = "groups", GroupStep
    PROVE  /\ GraphOver(graph', nodes)
           /\ graph.edges \subseteq graph'.edges
           /\ candidates' \in SUBSET (Nat \X Plugins \X Plugins)
           /\ \A c \in candidates' : c[2] \in nodes /\ c[3] \in nodes
<1>1. nodes \in SUBSET Plugins /\ GraphOver(graph, nodes)
  BY CheckedGraph DEF CheckedPhases
<1>2. candidates \subseteq Nat \X nodes \X nodes
  BY DEF IInv, TypeOK, WorkInNodes
<1>3. /\ GraphOver(graph', nodes) /\ graph.edges \subseteq graph'.edges
      /\ candidates' \subseteq Nat \X nodes \X nodes
  BY <1>1, <1>2, GroupStepKeeps
<1> QED
  BY <1>1, <1>3

\* So does a turn of the overlap loops, and it leaves its pair ordered if it
\* came to a decision about it.
LEMMA OverlapStepKeeps ==
    ASSUME IInv, phase = "overlap", OverlapStep
    PROVE  /\ GraphOver(graph', nodes)
           /\ graph.edges \subseteq graph'.edges
           /\ overlap_pairs' \subseteq nodes \X nodes
           /\ \E e \in overlap_pairs :
                 /\ overlap_pairs' = overlap_pairs \ {e}
                 /\ RecordsDecide(e[1], e[2]) \/ AssetsDecide(e[1], e[2]) =>
                       HasPath(graph', e[1], e[2]) \/ HasPath(graph', e[2], e[1])
<1>1. nodes \in SUBSET Plugins /\ GraphOver(graph, nodes)
  BY CheckedGraph DEF CheckedPhases
<1>2. overlap_pairs \subseteq nodes \X nodes
  BY DEF IInv, WorkInNodes
<1>3. PICK e \in overlap_pairs : \/ SkipPair(e[1], e[2])
                                 \/ RecordOverlap(e[1], e[2])
                                 \/ AssetOverlap(e[1], e[2])
  BY DEF OverlapStep
<1>4. e[1] \in nodes /\ e[2] \in nodes /\ e = <<e[1], e[2]>>
  BY <1>2, <1>3
<1>5. overlap_pairs' = overlap_pairs \ {e}
  BY <1>3, <1>4 DEF SkipPair, RecordOverlap, AssetOverlap, VisitPair
<1>6. \/ graph' = graph
      \/ graph' \in AddUnlessCycle(graph, e[1], e[2])
      \/ graph' \in AddUnlessCycle(graph, e[2], e[1])
  BY <1>3 DEF SkipPair, RecordOverlap, AssetOverlap
<1>7. GraphOver(graph', nodes) /\ graph.edges \subseteq graph'.edges
  <2>1. CASE graph' = graph
    BY <1>1, <2>1 DEF GraphOver
  <2>2. CASE graph' \in AddUnlessCycle(graph, e[1], e[2])
    BY <1>1, <1>4, <2>2, NodesAddUnlessCycle
  <2>3. CASE graph' \in AddUnlessCycle(graph, e[2], e[1])
    BY <1>1, <1>4, <2>3, NodesAddUnlessCycle
  <2> QED
    BY <1>6, <2>1, <2>2, <2>3
<1>8. ASSUME RecordsDecide(e[1], e[2]) \/ AssetsDecide(e[1], e[2])
      PROVE  HasPath(graph', e[1], e[2]) \/ HasPath(graph', e[2], e[1])
  <2>1. CASE SkipPair(e[1], e[2])
    <3>1. DirectEdge(e[1], e[2]) /\ graph' = graph
      BY <1>8, <2>1 DEF SkipPair
    <3> QED
      BY <3>1, ReachEdge DEF DirectEdge, HasPath
  <2>2. CASE ~SkipPair(e[1], e[2])
    <3>1. \/ graph' \in AddUnlessCycle(graph, e[1], e[2])
          \/ graph' \in AddUnlessCycle(graph, e[2], e[1])
      BY <1>3, <2>2 DEF RecordOverlap, AssetOverlap
    <3> QED
      BY <1>1, <1>4, <3>1, NodesAddUnlessCycle
  <2> QED
    BY <2>1, <2>2
<1> QED
  BY <1>2, <1>5, <1>7, <1>8

-----------------------------------------------------------------------------
\* The graph at the start of a partition.
LEMMA EmptyGraphOver ==
    ASSUME NEW V \in SUBSET Plugins
    PROVE  /\ EmptyGraph \in Graphs
           /\ EmptyGraph.edges \subseteq V \X V
           /\ CacheSoundFor(EmptyGraph)
BY DEF EmptyGraph, Graphs, CacheSoundFor

\* A partition is made of plugins.
LEMMA PartsArePlugins ==
    ASSUME NEW q \in Parts
    PROVE  PartOf(Plugins)[q] \in SUBSET Plugins
BY DEF Parts, PartOf

\* The initial states satisfy the invariant.
LEMMA InitIInv ==
    ASSUME Init
    PROVE  IInv
<1>1. PICK i \in Inputs : data = i.data /\ order = i.order /\ input = i.metadata
  BY DEF Init
<1>2. IsInput(i)
  BY InputsAssumption
<1>3. order \in Seq(Plugins)
  <2>1. Cardinality(Plugins) \in Nat
    BY PluginsAssumption, FS_CardinalityType
  <2> QED
    BY <1>1, <1>2, <2>1, FunctionIsSeq DEF IsInput, SetToSeqs
<1>4. data \in PluginDataType /\ IsMetadata(input)
  BY <1>1, <1>2 DEF IsInput
<1>5. /\ graph \in Graphs
      /\ graph.edges \in SUBSET (nodes \X nodes)
      /\ CacheSound
  BY EmptyGraphOver DEF Init, CacheSound
<1>6. <<>> \in Seq(Plugins) /\ 0 \in 0..Len(<<>>)
  OBVIOUS
<1>7. sorted \in [Parts -> Seq(Plugins)]
  BY <1>6 DEF Init
<1>8. TypeOK
  BY <1>3, <1>4, <1>5, <1>6, <1>7
  DEF Init, IdleGroups, IdleTies, TypeOK, Parts, Phases, Outcomes
<1> QED
  BY <1>5, <1>8 DEF Init, IInv, WorkInNodes, StaysAcyclic, CheckedPhases

\* What starting a partition leaves behind.
LEMMA StartPartKeeps ==
    ASSUME NEW q \in Parts, StartPart(q)
    PROVE  /\ part' \in Parts /\ phase' = "specific"
           /\ nodes' \in SUBSET Plugins
           /\ graph' \in Graphs /\ graph'.edges \subseteq nodes' \X nodes'
           /\ CacheSoundFor(graph')
BY PartsArePlugins, EmptyGraphOver DEF StartPart

\* A graph that satisfies what the invariant says of graphs still does so.
LEMMA GraphStepKeeps ==
    ASSUME IInv, nodes' = nodes, GraphOver(graph', nodes)
    PROVE  /\ graph' \in Graphs
           /\ graph'.edges \in SUBSET (nodes' \X nodes')
           /\ CacheSound' /\ StaysAcyclic'
BY DEF GraphOver, SoundGraph, CacheSound, StaysAcyclic

\* Every step keeps the invariant.
LEMMA NextIInv ==
    ASSUME IInv, [Next]_vars
    PROVE  IInv'
<1> USE DEF IInv
<1>1. CASE UNCHANGED vars
  BY <1>1 DEF vars, groupVars, tieVars, sortVars, TypeOK, WorkInNodes,
              CacheSound, StaysAcyclic, TieStateOver
<1>2. CASE BuildGroups
  BY <1>2 DEF BuildGroups, Fail, groupVars, tieVars, TypeOK, WorkInNodes,
              CacheSound, StaysAcyclic, CheckedPhases, Phases, Outcomes
<1>3. CASE Validate
  <2>1. UNCHANGED <<data, groupVars, overlap_pairs, tieVars, input, order,
                    sorted, previous>>
    BY <1>3 DEF Validate
  <2>2. CASE StartPart("masters") /\ UNCHANGED outcome
    BY <2>1, <2>2, StartPartKeeps
    DEF groupVars, tieVars, TypeOK, WorkInNodes, CacheSound, StaysAcyclic,
        CheckedPhases, Phases, Parts
  <2>3. CASE /\ \E kind \in Outcomes : Fail(kind)
             /\ UNCHANGED <<part, nodes, graph>>
    BY <2>1, <2>3
    DEF Fail, groupVars, tieVars, TypeOK, WorkInNodes, CacheSound, StaysAcyclic,
        CheckedPhases, Phases
  <2> QED
    BY <1>3, <2>2, <2>3 DEF Validate, FailAtFirst, Outcomes
<1>4. CASE add_specific_edges
  <2>1. SpecificPairs(nodes) \subseteq nodes \X nodes
    BY DEF SpecificPairs
  <2>2. /\ graph' \in Graphs
        /\ graph'.edges \subseteq nodes \X nodes
        /\ CacheSoundFor(graph')
    <3>1. SoundGraph(AddEdges(graph, SpecificPairs(nodes)))
      BY <2>1, AddEdgesSound DEF TypeOK, CacheSound, SoundGraph, Pairs
    <3>2. AddEdges(graph, SpecificPairs(nodes)).edges \subseteq nodes \X nodes
      BY <2>1 DEF AddEdges, TypeOK
    <3>3. graph' = graph \/ graph' = AddEdges(graph, SpecificPairs(nodes))
      BY <1>4 DEF add_specific_edges
    <3> QED
      BY <3>1, <3>2, <3>3 DEF SoundGraph, TypeOK, CacheSound
  <2> QED
    BY <1>4, <2>2
    DEF add_specific_edges, Fail, groupVars, tieVars, TypeOK, WorkInNodes,
        CacheSound, StaysAcyclic, CheckedPhases, Phases, Outcomes
<1>5. CASE add_early_loading_plugin_edges
  <2>1. EarlyPairs(nodes) \subseteq nodes \X nodes
    BY DEF EarlyPairs
  <2>2. graph' = AddEdges(graph, EarlyPairs(nodes))
    BY <1>5 DEF add_early_loading_plugin_edges
  <2>3. SoundGraph(graph')
    BY <2>1, <2>2, AddEdgesSound DEF TypeOK, CacheSound, SoundGraph, Pairs
  <2>4. graph'.edges \subseteq nodes \X nodes
    BY <2>1, <2>2 DEF AddEdges, TypeOK
  <2> QED
    BY <1>5, <2>3, <2>4
    DEF add_early_loading_plugin_edges, groupVars, tieVars, TypeOK, WorkInNodes,
        CacheSound, StaysAcyclic, CheckedPhases, Phases, SoundGraph
<1>6. CASE FirstCheck
  BY <1>6
  DEF FirstCheck, GroupsAtStart, Fail, groupVars, tieVars, TypeOK, WorkInNodes,
      CacheSound, StaysAcyclic, CheckedPhases, Phases, Outcomes
<1>7. CASE add_group_edges
  <2>1. phase = "groups" /\ GroupStep /\ UNCHANGED nodes
    BY <1>7 DEF add_group_edges
  <2>2. /\ GraphOver(graph', nodes)
        /\ candidates' \in SUBSET (Nat \X Plugins \X Plugins)
        /\ \A c \in candidates' : c[2] \in nodes' /\ c[3] \in nodes'
    BY <2>1, GroupEdgesKeep
  <2>3. /\ graph' \in Graphs
        /\ graph'.edges \in SUBSET (nodes' \X nodes')
        /\ CacheSound' /\ StaysAcyclic'
    BY <2>1, <2>2, GraphStepKeeps
  <2> QED
    BY <1>7, <2>2, <2>3
    DEF add_group_edges, tieVars, sortVars, TypeOK, WorkInNodes
<1>8. CASE GroupsFinished
  <2>1. LoopPairs(nodes) \subseteq nodes \X nodes
    BY DEF LoopPairs
  <2> QED
    BY <1>8, <2>1
    DEF GroupsFinished, groupVars, tieVars, TypeOK, WorkInNodes, CacheSound,
        StaysAcyclic, CheckedPhases, Phases, Pairs
<1>9. CASE add_overlap_edges
  <2>1. phase = "overlap" /\ OverlapStep /\ UNCHANGED nodes
    BY <1>9 DEF add_overlap_edges
  <2>2. /\ GraphOver(graph', nodes)
        /\ overlap_pairs' \subseteq nodes' \X nodes'
    BY <2>1, OverlapStepKeeps
  <2>3. /\ graph' \in Graphs
        /\ graph'.edges \in SUBSET (nodes' \X nodes')
        /\ CacheSound' /\ StaysAcyclic'
    BY <2>1, <2>2, GraphStepKeeps
  <2> QED
    BY <1>9, <2>2, <2>3
    DEF add_overlap_edges, groupVars, tieVars, sortVars, TypeOK, WorkInNodes,
        Pairs
<1>10. CASE OverlapError
  BY <1>10
  DEF OverlapError, Fail, groupVars, tieVars, TypeOK, WorkInNodes, CacheSound,
      StaysAcyclic, CheckedPhases, Phases, Outcomes
<1>11. CASE OverlapsFinished
  <2>1. Cardinality(nodes) \in Nat
    BY PluginsAssumption, FS_Subset, FS_CardinalityType DEF TypeOK
  <2>2. load_order' \in Seq(nodes)
    BY <1>11, <2>1, FunctionIsSeq
    DEF OverlapsFinished, SortedByIndex, SetToSeqs
  <2>3. load_order' \in Seq(Plugins)
    BY <2>2, SeqMonotonic DEF TypeOK
  <2>4. TieStateOver(nodes)'
    BY <1>11, <2>2 DEF OverlapsFinished, TieStateOver
  <2> QED
    BY <1>11, <2>3, <2>4
    DEF OverlapsFinished, groupVars, TypeOK, WorkInNodes, CacheSound,
        StaysAcyclic, CheckedPhases, Phases
<1>12. CASE add_tie_break_edges
  <2>1. phase = "ties" /\ TieStep /\ UNCHANGED nodes
    BY <1>12 DEF add_tie_break_edges
  <2>2. nodes \in SUBSET Plugins /\ GraphOver(graph, nodes)
    BY <2>1, CheckedGraph DEF CheckedPhases
  <2>3. GraphOver(graph', nodes)
    BY <2>1, <2>2, TieStepKeeps DEF WorkInNodes
  <2>4. TieStateOver(nodes)'
    BY <2>1, <2>2, TieStepKeeps DEF WorkInNodes, TieStateOver
  <2>5. /\ graph' \in Graphs
        /\ graph'.edges \in SUBSET (nodes' \X nodes')
        /\ CacheSound' /\ StaysAcyclic'
    BY <2>1, <2>3, GraphStepKeeps
  <2>6. /\ load_order' \in Seq(Plugins)
        /\ new_load_order' \in Seq(Plugins)
        /\ to_pin' \in Seq(Plugins)
    BY <2>1, <2>2, <2>4, SeqMonotonic DEF TieStateOver
  <2> QED
    BY <1>12, <2>4, <2>5, <2>6
    DEF add_tie_break_edges, groupVars, sortVars, TypeOK, WorkInNodes,
        TieStateOver
<1>13. CASE SecondCheck
  BY <1>13
  DEF SecondCheck, Fail, groupVars, tieVars, TypeOK, WorkInNodes, CacheSound,
      StaysAcyclic, CheckedPhases, Phases, Outcomes
<1>14. CASE topological_sort
  <2>1. Cardinality(nodes) \in Nat
    BY PluginsAssumption, FS_Subset, FS_CardinalityType DEF TypeOK
  <2>2. sorted' \in [Parts -> Seq(Plugins)]
    <3>1. PICK s \in TopologicalOrders(nodes, graph.edges, Cardinality(nodes)) :
              sorted' = [sorted EXCEPT ![part] = s]
      BY <1>14 DEF topological_sort
    <3>2. s \in Seq(nodes)
      BY <2>1, FunctionIsSeq DEF TopologicalOrders
    <3>3. s \in Seq(Plugins)
      BY <3>2, SeqMonotonic DEF TypeOK
    <3> QED
      BY <3>1, <3>3 DEF TypeOK
  <2>3. UNCHANGED <<data, groupVars, overlap_pairs, tieVars, input, order,
                    previous>>
    BY <1>14 DEF topological_sort
  <2>4. CASE part = "others"
    BY <1>14, <2>2, <2>3, <2>4
    DEF topological_sort, groupVars, tieVars, TypeOK, WorkInNodes, CacheSound,
        StaysAcyclic, CheckedPhases, Phases, Outcomes
  <2>5. CASE part # "others"
    <3>1. PartAfter[part] \in Parts
      BY <2>5 DEF PartAfter, Parts, TypeOK
    <3> QED
      BY <1>14, <2>2, <2>3, <2>5, <3>1, StartPartKeeps
      DEF topological_sort, groupVars, tieVars, TypeOK, WorkInNodes, CacheSound,
          StaysAcyclic, CheckedPhases, Phases
  <2> QED
    BY <2>4, <2>5
<1>15. CASE Resort
  <2>1. Result \in Seq(Plugins)
    <3>1. /\ sorted.masters \in Seq(Plugins)
          /\ sorted.others \in Seq(Plugins)
          /\ sorted.blueprints \in Seq(Plugins)
      BY DEF TypeOK, Parts
    <3> QED
      BY <3>1, ConcatProperties DEF Result
  <2> QED
    BY <1>15, <2>1
    DEF Resort, groupVars, tieVars, TypeOK, WorkInNodes, CacheSound,
        StaysAcyclic, CheckedPhases, Phases, Outcomes, Parts
<1> QED
  BY <1>1, <1>2, <1>3, <1>4, <1>5, <1>6, <1>7, <1>8, <1>9, <1>10, <1>11, <1>12,
     <1>13, <1>14, <1>15 DEF Next

-----------------------------------------------------------------------------
\* The invariant holds throughout every behaviour.
THEOREM Invariance == Spec => []IInv
<1>1. Init => IInv
  BY InitIInv
<1>2. IInv /\ [Next]_vars => IInv'
  BY NextIInv
<1> QED
  BY <1>1, <1>2, PTL DEF Spec

\* Every variable keeps its type; in particular the edges of the graph join
\* nodes of the partition being sorted and range_start stays within the load
\* order it indexes.
THEOREM TypesHold == Spec => []TypeOK
<1>1. IInv => TypeOK
  BY DEF IInv
<1> QED
  BY <1>1, Invariance, PTL

\* paths_cache never holds a pair without a path, so add_edge never drops an
\* ordering constraint that is not implied.
THEOREM CacheStaysSound == Spec => []CacheSound
<1>1. IInv => CacheSound
  BY DEF IInv
<1> QED
  BY <1>1, Invariance, PTL

\* Group, overlap and tie-break edges never close a cycle: after the first
\* check_for_cycles of a partition its sort cannot fail with a cycle.
THEOREM NoCycleAfterCheck == Spec => []StaysAcyclic
<1>1. IInv => StaysAcyclic
  BY DEF IInv
<1> QED
  BY <1>1, Invariance, PTL

-----------------------------------------------------------------------------
(* The order that comes out.  Besides IInv it rests on what validation let  *)
(* through, on the edges that each phase has put in by the time it ends, on *)
(* the invariant of tie-breaking, and on the orders of the parts that are   *)
(* done.                                                                    *)

SortingPhases == {"specific", "early", "first_check"} \cup CheckedPhases

\* The graph is that of the part being sorted.
PartInHand ==
    /\ phase # "end" => outcome = "none"
    /\ outcome = "ok" => part = "others"
    /\ phase \in {"build_groups", "validate"} => part = "masters"
    /\ phase \in SortingPhases => nodes = PartOf(Plugins)[part]

\* What is being sorted has been validated.
Accepted ==
    phase \in SortingPhases \/ outcome = "ok" => Rejected = {} /\ ~EarlyMisplaced

\* The edges that are there whatever else is.
HardPairs(V) == SpecificPairs(V) \cup EarlyPairs(V)

HardEdgesIn ==
    /\ phase = "specific" => graph = EmptyGraph
    /\ phase = "early" => SpecificPairs(nodes) \subseteq graph.edges
                          /\ graph.cache \subseteq graph.edges
    /\ phase = "first_check" \/ phase \in CheckedPhases =>
          HardPairs(nodes) \subseteq graph.edges

\* The pairs that the overlap loops have come to a decision about are ordered.
Decided(p, q) == RecordsDecide(p, q) \/ AssetsDecide(p, q)

OverlapsSoFar ==
    phase = "overlap" =>
        \A e \in LoopPairs(nodes) \ overlap_pairs :
            Decided(e[1], e[2]) =>
                HasPath(graph, e[1], e[2]) \/ HasPath(graph, e[2], e[1])

TiesSoFar ==
    /\ phase \in {"ties", "topological_sort"} => TieInv(nodes)
    /\ phase = "topological_sort" => tie_pc = "done"

PartDone(q) ==
    \/ outcome = "ok"
    \/ part = "blueprints" /\ q = "masters"
    \/ part = "others" /\ q # "others"

\* The parts that are done are in an order that satisfies their hard edges.
PartsSorted ==
    \A q \in Parts :
        PartDone(q) =>
            LET V == PartOf(Plugins)[q]
            IN sorted[q] \in TopologicalOrders(V, HardPairs(V), Cardinality(V))

OrderInv ==
    /\ PartInHand /\ Accepted /\ HardEdgesIn
    /\ OverlapsSoFar /\ PartOverlapsOrdered
    /\ TiesSoFar /\ PartsSorted

-----------------------------------------------------------------------------
\* No step changes what is sorted.
LEMMA InputsFixed ==
    ASSUME [Next]_vars
    PROVE  data' = data /\ input' = input
BY DEF Next, vars, sortVars, BuildGroups, Validate, add_specific_edges,
       add_early_loading_plugin_edges, FirstCheck, add_group_edges,
       GroupsFinished, add_overlap_edges, OverlapError, OverlapsFinished,
       add_tie_break_edges, SecondCheck, topological_sort, Resort

\* So the sets computed from it do not change either.
LEMMA DerivedFixed ==
    ASSUME data' = data, input' = input
    PROVE  /\ PartOf(Plugins)' = PartOf(Plugins)
           /\ Rejected' = Rejected /\ EarlyMisplaced' = EarlyMisplaced
           /\ \A V : /\ SpecificPairs(V)' = SpecificPairs(V)
                     /\ EarlyPairs(V)' = EarlyPairs(V)
                     /\ HardPairs(V)' = HardPairs(V)
                     /\ LoopPairs(V)' = LoopPairs(V)
           /\ \A p, q : /\ Decided(p, q)' = Decided(p, q)
                        /\ Skipped(p)' = Skipped(p)
BY DEF PartOf, Rejected, Misplaced, EarlyMisplaced, SpecificPairs, EarlyPairs,
       HardPairs, NextEarly, LastEarly, LoopPairs, Decided, RecordsDecide,
       AssetsDecide, CountsDiffer, Skipped, is_blueprint_master

\* In the phases in between a step only adds edges.
LEMMA EdgesGrow ==
    ASSUME IInv, Next, phase \in CheckedPhases, phase' \in CheckedPhases
    PROVE  graph.edges \subseteq graph'.edges /\ nodes' = nodes /\ part' = part
<1>1. CASE add_group_edges
  BY <1>1, GroupEdgesKeep DEF add_group_edges, sortVars
<1>2. CASE add_overlap_edges
  BY <1>2, OverlapStepKeeps DEF add_overlap_edges, sortVars
<1>3. CASE add_tie_break_edges
  <2>1. nodes \in SUBSET Plugins /\ GraphOver(graph, nodes)
    BY CheckedGraph
  <2> QED
    BY <1>3, <2>1, TieStepKeeps DEF add_tie_break_edges, sortVars, IInv, WorkInNodes
<1>4. CASE GroupsFinished \/ OverlapError \/ OverlapsFinished \/ SecondCheck
  BY <1>4 DEF GroupsFinished, OverlapError, OverlapsFinished, SecondCheck
<1>5. CASE \/ BuildGroups \/ Validate \/ add_specific_edges \/ Resort
           \/ add_early_loading_plugin_edges \/ FirstCheck \/ topological_sort
  BY <1>5 DEF BuildGroups, Validate, add_specific_edges, Resort, Fail, StartPart,
              add_early_loading_plugin_edges, FirstCheck, topological_sort,
              CheckedPhases
<1> QED
  BY <1>1, <1>2, <1>3, <1>4, <1>5 DEF Next

\* Each part of the invariant in turn.
LEMMA PartInHandStays ==
    ASSUME IInv, PartInHand, Next
    PROVE  PartInHand'
<1>1. data' = data
  BY InputsFixed
<1>2. PartOf(Plugins)' = PartOf(Plugins)
  BY <1>1 DEF PartOf, is_blueprint_master
<1>3. part \in Parts
  BY DEF IInv, TypeOK
<1>4. CASE \/ BuildGroups \/ Validate \/ add_specific_edges \/ Resort
           \/ add_early_loading_plugin_edges \/ FirstCheck
  BY <1>2, <1>4
  DEF BuildGroups, Validate, FailAtFirst, add_specific_edges, Resort, Fail,
      StartPart, add_early_loading_plugin_edges, FirstCheck, PartInHand,
      SortingPhases, CheckedPhases
<1>5. CASE \/ add_group_edges \/ add_overlap_edges \/ add_tie_break_edges
           \/ GroupsFinished \/ OverlapError \/ OverlapsFinished \/ SecondCheck
  BY <1>2, <1>5
  DEF add_group_edges, add_overlap_edges, add_tie_break_edges, GroupsFinished,
      OverlapError, OverlapsFinished, SecondCheck, Fail, PartInHand,
      SortingPhases, CheckedPhases, sortVars
<1>6. CASE topological_sort
  BY <1>2, <1>3, <1>6
  DEF topological_sort, StartPart, PartInHand, SortingPhases, CheckedPhases
<1> QED
  BY <1>4, <1>5, <1>6 DEF Next

LEMMA AcceptedStays ==
    ASSUME PartInHand, Accepted, Next
    PROVE  Accepted'
<1>1. Rejected' = Rejected /\ EarlyMisplaced' = EarlyMisplaced
  BY InputsFixed, DerivedFixed
<1>2. CASE BuildGroups \/ Resort
  BY <1>2 DEF BuildGroups, Resort, Fail, Accepted, PartInHand, SortingPhases,
              CheckedPhases
<1>3. CASE Validate
  BY <1>1, <1>3
  DEF Validate, FailAtFirst, Fail, StartPart, Accepted, PartInHand, SortingPhases,
      CheckedPhases
<1>4. CASE ~BuildGroups /\ ~Resort /\ ~Validate
  <2>1. phase \in SortingPhases
    BY <1>4
    DEF Next, add_specific_edges, add_early_loading_plugin_edges, FirstCheck,
        add_group_edges, GroupsFinished, add_overlap_edges, OverlapError,
        OverlapsFinished, add_tie_break_edges, SecondCheck, topological_sort,
        SortingPhases, CheckedPhases
  <2> QED
    BY <1>1, <2>1 DEF Accepted
<1> QED
  BY <1>2, <1>3, <1>4

LEMMA HardEdgesStay ==
    ASSUME IInv, HardEdgesIn, Next
    PROVE  HardEdgesIn'
<1>1. \A V : /\ SpecificPairs(V)' = SpecificPairs(V)
             /\ EarlyPairs(V)' = EarlyPairs(V)
             /\ HardPairs(V)' = HardPairs(V)
  BY InputsFixed, DerivedFixed
<1>2. CASE \/ BuildGroups \/ Validate \/ Resort \/ topological_sort
  BY <1>2
  DEF BuildGroups, Validate, FailAtFirst, Resort, topological_sort, Fail,
      StartPart, HardEdgesIn, CheckedPhases
<1>3. CASE add_specific_edges
  <2>1. CASE phase' = "early"
    <3>1. /\ graph' = AddEdges(EmptyGraph, SpecificPairs(nodes))
          /\ nodes' = nodes
      BY <1>3, <2>1 DEF add_specific_edges, Fail, HardEdgesIn
    <3>2. /\ graph'.edges = SpecificPairs(nodes)
          /\ graph'.cache = SpecificPairs(nodes)
      BY <3>1 DEF AddEdges, EmptyGraph
    <3> QED
      BY <1>1, <2>1, <3>1, <3>2 DEF HardEdgesIn, CheckedPhases
  <2>2. CASE phase' = "end"
    BY <2>2 DEF HardEdgesIn, CheckedPhases
  <2> QED
    BY <1>3, <2>1, <2>2 DEF add_specific_edges, Fail
<1>4. CASE add_early_loading_plugin_edges
  <2>1. /\ SpecificPairs(nodes) \subseteq graph.edges
        /\ graph.cache \subseteq graph.edges
        /\ graph'.edges = graph.edges \cup (EarlyPairs(nodes) \ graph.cache)
        /\ nodes' = nodes /\ phase' = "first_check"
    BY <1>4 DEF add_early_loading_plugin_edges, HardEdgesIn, AddEdges
  <2>2. HardPairs(nodes) \subseteq graph'.edges
    BY <2>1 DEF HardPairs
  <2> QED
    BY <1>1, <2>1, <2>2 DEF HardEdgesIn, CheckedPhases
<1>5. CASE FirstCheck
  BY <1>1, <1>5 DEF FirstCheck, Fail, HardEdgesIn, CheckedPhases
<1>6. CASE phase \in CheckedPhases /\ phase' \in CheckedPhases
  BY <1>1, <1>6, EdgesGrow DEF HardEdgesIn, CheckedPhases
<1>7. CASE phase \in CheckedPhases /\ phase' = "end"
  BY <1>7 DEF HardEdgesIn, CheckedPhases
<1>8. CASE \/ add_group_edges \/ add_overlap_edges \/ add_tie_break_edges
           \/ GroupsFinished \/ OverlapError \/ OverlapsFinished \/ SecondCheck
  BY <1>6, <1>7, <1>8
  DEF add_group_edges, add_overlap_edges, add_tie_break_edges, GroupsFinished,
      OverlapError, OverlapsFinished, SecondCheck, Fail, CheckedPhases, sortVars
<1> QED
  BY <1>2, <1>3, <1>4, <1>5, <1>8 DEF Next

LEMMA OverlapsStay ==
    ASSUME IInv, OverlapsSoFar, PartOverlapsOrdered, Next
    PROVE  OverlapsSoFar' /\ PartOverlapsOrdered'
<1>1. /\ \A V : LoopPairs(V)' = LoopPairs(V)
      /\ \A p, q : Decided(p, q)' = Decided(p, q) /\ Skipped(p)' = Skipped(p)
  BY InputsFixed, DerivedFixed
<1>2. CASE GroupsFinished
  <2>1. overlap_pairs' = LoopPairs(nodes') /\ phase' = "overlap"
    BY <1>2 DEF GroupsFinished
  <2> QED
    BY <1>1, <2>1 DEF OverlapsSoFar, PartOverlapsOrdered
<1>3. CASE add_overlap_edges
  <2>1. phase = "overlap" /\ phase' = "overlap" /\ nodes' = nodes
    BY <1>3 DEF add_overlap_edges, sortVars
  <2>2. PICK e \in overlap_pairs :
            /\ overlap_pairs' = overlap_pairs \ {e}
            /\ Decided(e[1], e[2]) =>
                  HasPath(graph', e[1], e[2]) \/ HasPath(graph', e[2], e[1])
    BY <1>3, <2>1, OverlapStepKeeps DEF add_overlap_edges, Decided
  <2>3. \A x, y : HasPath(graph, x, y) => HasPath(graph', x, y)
    BY <2>1, EdgesGrow, ReachMonotonic DEF HasPath, CheckedPhases
  <2>4. \A f \in LoopPairs(nodes) \ overlap_pairs' :
            Decided(f[1], f[2]) =>
                HasPath(graph', f[1], f[2]) \/ HasPath(graph', f[2], f[1])
    BY <2>1, <2>2, <2>3 DEF OverlapsSoFar
  <2> QED
    BY <1>1, <2>1, <2>4 DEF OverlapsSoFar, PartOverlapsOrdered
<1>4. CASE OverlapsFinished
  <2>1. /\ phase = "overlap" /\ phase' = "ties" /\ overlap_pairs = {}
        /\ graph' = graph /\ nodes' = nodes
    BY <1>4 DEF OverlapsFinished
  <2>2. SUFFICES ASSUME NEW p \in nodes, NEW q \in nodes,
                        p < q, ~Skipped(p), Decided(p, q)
                 PROVE  HasPath(graph, p, q) \/ HasPath(graph, q, p)
    BY <1>1, <2>1 DEF OverlapsSoFar, PartOverlapsOrdered, Decided
  <2>3. <<p, q>> \in LoopPairs(nodes)
    BY <2>2 DEF LoopPairs
  <2> QED
    BY <2>1, <2>2, <2>3 DEF OverlapsSoFar
<1>5. CASE add_tie_break_edges
  <2>1. phase = "ties" /\ phase' = "ties" /\ nodes' = nodes
    BY <1>5 DEF add_tie_break_edges, sortVars
  <2>2. \A x, y : HasPath(graph, x, y) => HasPath(graph', x, y)
    BY <2>1, EdgesGrow, ReachMonotonic DEF HasPath, CheckedPhases
  <2> QED
    BY <1>1, <2>1, <2>2 DEF OverlapsSoFar, PartOverlapsOrdered, Decided
<1>6. CASE \/ BuildGroups \/ Validate \/ add_specific_edges \/ Resort
           \/ add_early_loading_plugin_edges \/ FirstCheck \/ topological_sort
           \/ OverlapError \/ SecondCheck \/ add_group_edges
  <2>1. phase' # "overlap" /\ phase' # "ties"
    BY <1>6
    DEF BuildGroups, Validate, FailAtFirst, add_specific_edges, Resort, Fail,
        StartPart, add_early_loading_plugin_edges, FirstCheck, topological_sort,
        OverlapError, SecondCheck, add_group_edges, sortVars
  <2> QED
    BY <2>1 DEF OverlapsSoFar, PartOverlapsOrdered
<1> QED
  BY <1>2, <1>3, <1>4, <1>5, <1>6 DEF Next

\* Tie-breaking starts in its invariant.
TieStart ==
    \A V \in SUBSET Plugins :
        ( /\ GraphOver(graph, V) /\ load_order \in SetToSeqs(V)
          /\ TieAtStart(load_order) ) => TieInv(V)

LEMMA TieStartHolds == TieStart
BY TieStartInv DEF TieStart

LEMMA TiesStay ==
    ASSUME IInv, TiesSoFar, Next
    PROVE  TiesSoFar'
<1>1. CASE OverlapsFinished
  <2>1. nodes \in SUBSET Plugins /\ GraphOver(graph, nodes)
    BY <1>1, CheckedGraph DEF OverlapsFinished, CheckedPhases
  <2>2. /\ nodes' = nodes /\ graph' = graph /\ phase' = "ties"
        /\ load_order' \in SetToSeqs(nodes) /\ TieAtStart(load_order)'
    BY <1>1 DEF OverlapsFinished, SortedByIndex, TieAtStart
  <2>3. TieStart'
    BY TieStartHolds, PTL
  <2>4. TieInv(nodes)'
    BY <2>1, <2>2, <2>3 DEF TieStart
  <2> QED
    BY <2>2, <2>4 DEF TiesSoFar
<1>2. CASE add_tie_break_edges
  <2>1. phase = "ties" /\ phase' = "ties" /\ nodes' = nodes /\ TieStep
    BY <1>2 DEF add_tie_break_edges, sortVars
  <2>2. TieInv(nodes)'
    BY <2>1, TieStepInv DEF TiesSoFar, IInv, TypeOK, TieInv
  <2> QED
    BY <2>1, <2>2 DEF TiesSoFar
<1>3. CASE SecondCheck
  <2>1. /\ phase = "ties" /\ tie_pc = "done"
        /\ nodes' = nodes /\ graph' = graph /\ UNCHANGED tieVars
    BY <1>3 DEF SecondCheck
  <2>2. TieInv(nodes)'
    BY <2>1
    DEF TiesSoFar, tieVars, TieInv, TieStateOver, OrderOf, NewOrderIsPath,
        PastPlaced, CurrentFits, PinsFit, GoodOrderTaken, InOrder, Processed,
        current, next
  <2> QED
    BY <2>1, <2>2 DEF TiesSoFar, tieVars
<1>4. CASE \/ BuildGroups \/ Validate \/ add_specific_edges \/ Resort
           \/ add_early_loading_plugin_edges \/ FirstCheck \/ topological_sort
           \/ OverlapError \/ add_group_edges \/ GroupsFinished
           \/ add_overlap_edges
  <2>1. phase' # "ties" /\ phase' # "topological_sort"
    BY <1>4
    DEF BuildGroups, Validate, FailAtFirst, add_specific_edges, Resort, Fail,
        StartPart, add_early_loading_plugin_edges, FirstCheck, topological_sort,
        OverlapError, add_group_edges, GroupsFinished, add_overlap_edges, sortVars
  <2> QED
    BY <2>1 DEF TiesSoFar
<1> QED
  BY <1>1, <1>2, <1>3, <1>4 DEF Next

\* An order that satisfies more edges satisfies fewer.
LEMMA FewerEdges ==
    ASSUME NEW V, NEW E, NEW F \in SUBSET E, NEW n,
           NEW s \in TopologicalOrders(V, E, n)
    PROVE  s \in TopologicalOrders(V, F, n)
BY DEF TopologicalOrders

LEMMA PartsSortedStay ==
    ASSUME IInv, PartInHand, HardEdgesIn, PartsSorted, Next
    PROVE  PartsSorted'
<1>1. /\ PartOf(Plugins)' = PartOf(Plugins)
      /\ \A V : HardPairs(V)' = HardPairs(V)
  BY InputsFixed, DerivedFixed
<1>2. CASE topological_sort
  <2>1. phase = "topological_sort" /\ nodes = PartOf(Plugins)[part]
        /\ HardPairs(nodes) \subseteq graph.edges
        /\ part \in Parts /\ sorted \in [Parts -> Seq(Plugins)]
    BY <1>2 DEF topological_sort, PartInHand, HardEdgesIn, SortingPhases,
                CheckedPhases, IInv, TypeOK
  <2>2. PICK s \in TopologicalOrders(nodes, graph.edges, Cardinality(nodes)) :
            sorted' = [sorted EXCEPT ![part] = s]
    BY <1>2 DEF topological_sort
  <2>3. s \in TopologicalOrders(nodes, HardPairs(nodes), Cardinality(nodes))
    BY <2>1, FewerEdges
  <2>4. \A q \in Parts : PartDone(q)' => q = part \/ PartDone(q)
    BY <1>2, <2>1 DEF topological_sort, StartPart, PartAfter, PartDone, Parts,
                      PartInHand
  <2> QED
    BY <1>1, <2>1, <2>2, <2>3, <2>4 DEF PartsSorted
<1>3. CASE Resort
  <2>1. \A q \in Parts : ~PartDone(q)'
    BY <1>3 DEF Resort, PartDone
  <2> QED
    BY <2>1 DEF PartsSorted
<1>4. CASE Validate
  <2>1. \A q \in Parts : ~PartDone(q)'
    BY <1>4 DEF Validate, FailAtFirst, Fail, StartPart, PartDone, PartInHand
  <2> QED
    BY <2>1 DEF PartsSorted
<1>5. CASE ~topological_sort /\ ~Resort /\ ~Validate
  <2>1. part' = part /\ sorted' = sorted /\ outcome' # "ok"
    BY <1>5
    DEF Next, BuildGroups, add_specific_edges, add_early_loading_plugin_edges,
        FirstCheck, add_group_edges, GroupsFinished, add_overlap_edges,
        OverlapError, OverlapsFinished, add_tie_break_edges, SecondCheck,
        Fail, PartInHand, sortVars
  <2>2. \A q \in Parts : PartDone(q)' => PartDone(q)
    BY <2>1 DEF PartDone
  <2> QED
    BY <1>1, <2>1, <2>2 DEF PartsSorted
<1> QED
  BY <1>2, <1>3, <1>4, <1>5

\* The initial states satisfy it.
LEMMA InitOrderInv ==
    ASSUME Init
    PROVE  OrderInv
BY DEF Init, OrderInv, PartInHand, Accepted, HardEdgesIn, OverlapsSoFar,
       PartOverlapsOrdered, TiesSoFar, PartsSorted, PartDone, SortingPhases,
       CheckedPhases

\* And every step keeps it.
LEMMA NextOrderInv ==
    ASSUME IInv, OrderInv, [Next]_vars
    PROVE  OrderInv'
<1>1. CASE Next
  BY <1>1, PartInHandStays, AcceptedStays, HardEdgesStay, OverlapsStay, TiesStay,
     PartsSortedStay DEF OrderInv
<1>2. CASE UNCHANGED vars
  <2>1. data' = data /\ input' = input
    BY <1>2, InputsFixed
  <2>2. /\ PartOf(Plugins)' = PartOf(Plugins)
        /\ Rejected' = Rejected /\ EarlyMisplaced' = EarlyMisplaced
        /\ \A V : /\ SpecificPairs(V)' = SpecificPairs(V)
                  /\ HardPairs(V)' = HardPairs(V)
                  /\ LoopPairs(V)' = LoopPairs(V)
        /\ \A p, q : Decided(p, q)' = Decided(p, q) /\ Skipped(p)' = Skipped(p)
    BY <2>1, DerivedFixed
  <2>3. /\ phase' = phase /\ outcome' = outcome /\ part' = part /\ nodes' = nodes
        /\ graph' = graph /\ sorted' = sorted /\ overlap_pairs' = overlap_pairs
        /\ UNCHANGED tieVars
    BY <1>2 DEF vars, sortVars
  <2>4. (PartInHand /\ Accepted /\ HardEdgesIn /\ PartsSorted)'
    BY <2>2, <2>3
    DEF OrderInv, PartInHand, Accepted, HardEdgesIn, PartsSorted, PartDone
  <2>5. (OverlapsSoFar /\ PartOverlapsOrdered)'
    BY <2>2, <2>3 DEF OrderInv, OverlapsSoFar, PartOverlapsOrdered, Decided
  <2>6. TiesSoFar'
    BY <2>3
    DEF OrderInv, TiesSoFar, tieVars, TieInv, TieStateOver, OrderOf,
        NewOrderIsPath, PastPlaced, CurrentFits, PinsFit, GoodOrderTaken,
        InOrder, Processed, current, next
  <2> QED
    BY <2>4, <2>5, <2>6 DEF OrderInv
<1> QED
  BY <1>1, <1>2

THEOREM OrderInvariance == Spec => []OrderInv
<1>1. Init => OrderInv
  BY InitOrderInv
<1>2. IInv /\ OrderInv /\ [Next]_vars => OrderInv'
  BY NextOrderInv
<1> QED
  BY <1>1, <1>2, Invariance, PTL DEF Spec

\* Two plugins that the overlap loops compared are ordered when tie-breaking
\* begins and stay so.
THEOREM OverlapsGetOrdered == Spec => []PartOverlapsOrdered
<1>1. OrderInv => PartOverlapsOrdered
  BY DEF OrderInv
<1> QED
  BY <1>1, OrderInvariance, PTL

-----------------------------------------------------------------------------
(* The groups: the searches start with the group of every plugin known, and *)
(* what they have ordered is still ordered while overlap edges are added.   *)

GroupsKnown == phase \notin {"build_groups", "end"} => ~PluginGroupUndefined

GroupsInv ==
    /\ GroupsKnown
    /\ phase = "groups" => GroupInv
    /\ PartGroupsOrdered

\* Every plugin of a partition is in a group.
LEMMA PluginsHaveGroups ==
    ASSUME TypeOK
    PROVE  \A p \in nodes : group(p) \in GroupNames
BY DefaultGroupAssumption DEF TypeOK, PluginDataType, group

LEMMA GroupsStay ==
    ASSUME IInv, GroupsInv, Next
    PROVE  GroupsInv'
<1>1. data' = data /\ input' = input
  BY InputsFixed
<1>2. /\ \A p : group(p)' = group(p)
      /\ GroupsGraphOfInput' = GroupsGraphOfInput
      /\ PluginGroupUndefined' <=> PluginGroupUndefined
  BY <1>1 DEF group, GroupsGraphOfInput, PluginGroupUndefined
<1>3. GroupsKnown'
  BY <1>2
  DEF Next, BuildGroups, Validate, FailAtFirst, add_specific_edges, Resort,
      Fail, StartPart, add_early_loading_plugin_edges, FirstCheck,
      add_group_edges, GroupsFinished, add_overlap_edges, OverlapError,
      OverlapsFinished, add_tie_break_edges, SecondCheck, topological_sort,
      sortVars, GroupsInv, GroupsKnown
<1>4. CASE FirstCheck
  <2>1. CASE phase' = "groups"
    <3>1. /\ GroupsAtStart(GroupsGraphOfInput) /\ UNCHANGED graph
          /\ Fixed /\ phase = "first_check"
      BY <1>4, <2>1 DEF FirstCheck, Fail, Fixed
    <3>2. IsGroupList(input.masterlist_groups) /\ IsGroupList(input.user_groups)
      BY DEF IInv, TypeOK, IsMetadata
    <3>3. /\ GroupsGraphOfInput.nodes \in Seq(GroupNames)
          /\ \A g \in GroupNames : GroupsGraphOfInput.succ[g] \in Seq(GroupNames)
      BY <3>2, BuiltGroupsGraphType DEF GroupsGraphOfInput
    <3>4. \A p \in nodes : group(p) \in ToSet(GroupsGraphOfInput.nodes)
      BY <3>1 DEF GroupsInv, GroupsKnown, PluginGroupUndefined, IInv, TypeOK
    <3>5. GroupInv'
      BY <3>1, <3>3, <3>4, GroupStartInv
    <3> QED
      BY <1>3, <2>1, <3>5 DEF GroupsInv, PartGroupsOrdered
  <2>2. CASE phase' # "groups"
    BY <1>3, <1>4, <2>2 DEF FirstCheck, Fail, GroupsInv, PartGroupsOrdered
  <2> QED
    BY <2>1, <2>2
<1>5. CASE add_group_edges
  <2>1. phase = "groups" /\ phase' = "groups" /\ GroupStep /\ Fixed
    BY <1>5 DEF add_group_edges, sortVars, Fixed
  <2>2. Setting
    BY <2>1, CheckedGraph, PluginsHaveGroups DEF Setting, CheckedPhases, IInv
  <2>3. GroupInv'
    BY <2>1, <2>2, GroupStepInv DEF GroupsInv
  <2> QED
    BY <1>3, <2>1, <2>3 DEF GroupsInv, PartGroupsOrdered
<1>6. CASE GroupsFinished
  <2>1. /\ phase = "groups" /\ phase' = "overlap"
        /\ UNCHANGED <<graph, nodes, data, groupVars>>
    BY <1>6 DEF GroupsFinished
  <2>2. GroupsOrdered
    BY <2>1, GroupInvOrders DEF GroupsInv
  <2>3. GroupsOrdered'
    BY <1>2, <2>1, <2>2
    DEF GroupsOrdered, GroupsDone, GroupReach, HasPath, groupVars
  <2> QED
    BY <1>3, <2>1, <2>3 DEF GroupsInv, PartGroupsOrdered
<1>7. CASE add_overlap_edges
  <2>1. /\ phase = "overlap" /\ phase' = "overlap"
        /\ UNCHANGED <<nodes, data, groupVars>>
    BY <1>7 DEF add_overlap_edges, sortVars
  <2>2. \A x, y : HasPath(graph, x, y) => HasPath(graph', x, y)
    BY <2>1, EdgesGrow, ReachMonotonic DEF HasPath, CheckedPhases
  <2>3. GroupsOrdered'
    BY <1>2, <2>1, <2>2
    DEF GroupsInv, PartGroupsOrdered, GroupsOrdered, GroupsDone, GroupReach,
        groupVars
  <2> QED
    BY <1>3, <2>1, <2>3 DEF GroupsInv, PartGroupsOrdered
<1>8. CASE \/ BuildGroups \/ Validate \/ add_specific_edges \/ Resort
           \/ add_early_loading_plugin_edges \/ topological_sort
           \/ OverlapError \/ OverlapsFinished \/ add_tie_break_edges
           \/ SecondCheck
  <2>1. phase' # "groups" /\ phase' # "overlap"
    BY <1>8
    DEF BuildGroups, Validate, FailAtFirst, add_specific_edges, Resort, Fail,
        StartPart, add_early_loading_plugin_edges, topological_sort,
        OverlapError, OverlapsFinished, add_tie_break_edges, SecondCheck, sortVars
  <2> QED
    BY <1>3, <2>1 DEF GroupsInv, PartGroupsOrdered
<1> QED
  BY <1>4, <1>5, <1>6, <1>7, <1>8 DEF Next

\* A step that changes nothing keeps it too.
LEMMA GroupsStutter ==
    ASSUME GroupsInv, UNCHANGED vars
    PROVE  GroupsInv'
<1>1. /\ UNCHANGED <<graph, nodes, data, groups_graph, starts, ignored, stack, colour>>
      /\ UNCHANGED <<edge_stack, candidates, finished, unfinishable, input, phase>>
  BY DEF vars, groupVars, sortVars
<1>2. /\ \A p : group(p)' = group(p)
      /\ \A g : find_plugins_in_group(g)' = find_plugins_in_group(g)
      /\ \A g : Succ(g)' = Succ(g)
      /\ \A k : /\ Node(k)' = Node(k) /\ Taken(k)' = Taken(k)
                /\ Watched(k)' <=> Watched(k)
      /\ \A g, h : GroupReach(g, h)' <=> GroupReach(g, h)
      /\ \A p, q : PairOrdered(p, q)' <=> PairOrdered(p, q)
  BY <1>1 DEF group, find_plugins_in_group, Succ, Node, Taken, Watched, GroupReach,
              should_ignore_source_node, PairOrdered
<1>3. \A g, t : Settled(g, t)' <=> Settled(g, t)
  BY <1>1, <1>2 DEF Settled
<1>4. /\ \A g, t : SettledFrom(g, t)' <=> SettledFrom(g, t)
      /\ \A g : GroupDone(g)' <=> GroupDone(g)
  BY <1>1, <1>2, <1>3 DEF SettledFrom, GroupDone
<1>5. GroupsKnown' /\ PartGroupsOrdered'
  BY <1>1, <1>2
  DEF GroupsInv, GroupsKnown, PluginGroupUndefined, GroupsGraphOfInput,
      PartGroupsOrdered, GroupsOrdered, GroupsDone
<1>6. ASSUME phase = "groups"
      PROVE  GroupInv'
  <2>1. GroupTypes' /\ PathShape' /\ DefaultLast'
    BY <1>1, <1>2, <1>6
    DEF GroupsInv, GroupInv, GroupTypes, PathShape, DefaultLast,
        should_ignore_source_node
  <2>2. WatchedSettled'
    BY <1>1, <1>2, <1>3, <1>4, <1>6 DEF GroupsInv, GroupInv, WatchedSettled
  <2>3. BlackSettled' /\ FinishedDone' /\ SearchesCover'
    BY <1>1, <1>2, <1>4, <1>6
    DEF GroupsInv, GroupInv, BlackSettled, FinishedDone, SearchesCover
  <2> QED
    BY <2>1, <2>2, <2>3 DEF GroupInv
<1> QED
  BY <1>1, <1>5, <1>6 DEF GroupsInv

\* The groups of the plugins stay known, and the searches in their invariant.
THEOREM GroupsInvariance == Spec => []GroupsInv
<1>1. Init => GroupsInv
  BY DEF Init, GroupsInv, GroupsKnown, PartGroupsOrdered
<1>2. IInv /\ GroupsInv /\ [Next]_vars => GroupsInv'
  BY GroupsStay, GroupsStutter
<1> QED
  BY <1>1, <1>2, Invariance, PTL DEF Spec

\* Plugins whose groups are ordered are ordered when the group searches end,
\* although each search passes over the groups that earlier ones finished and
\* drops every edge that would close a cycle.
THEOREM GroupsGetOrdered == Spec => []PartGroupsOrdered
<1>1. GroupsInv => PartGroupsOrdered
  BY DEF GroupsInv
<1> QED
  BY <1>1, GroupsInvariance, PTL

-----------------------------------------------------------------------------
\* As many different members as V has are all members of V.
Enumerates(len, S, list) ==
    list \in [1..len -> S] /\ \A i, j \in 1..len : i # j => list[i] # list[j]

LEMMA EnumerationsCover ==
    ASSUME NEW V, IsFiniteSet(V), NEW n \in Nat, n = Cardinality(V),
           NEW s, Enumerates(n, V, s)
    PROVE  \A v \in V : \E i \in 1..n : v = s[i]
<1>1. PICK f \in [1..n -> V] : f = s
  BY DEF Enumerates
<1>2. \A i, j \in 1..n : i # j => f[i] # f[j]
  BY <1>1 DEF Enumerates
<1>3. \A v \in V : \E i \in 1..n : v = f[i]
  BY <1>2, EnumerationCovers
<1> QED
  BY <1>1, <1>3

\* Where no two vertices are unordered, neighbours in a topological order have
\* an edge between them.
LEMMA NeighboursJoined ==
    ASSUME NEW U, NEW V \in SUBSET U, IsFiniteSet(V), NEW E, E \subseteq V \X V,
           \A p, q \in V : p = q \/ Reach(U, E, p, q) \/ Reach(U, E, q, p),
           NEW s \in TopologicalOrders(V, E, Cardinality(V)),
           NEW i \in 1..(Cardinality(V) - 1)
    PROVE  <<s[i], s[i + 1]>> \in E
<1>1. Cardinality(V) \in Nat
  BY FS_CardinalityType
<1>2. PICK n \in Nat : n = Cardinality(V)
  BY <1>1
<1>3. /\ s \in [1..n -> V]
      /\ \A j, k \in 1..n : j # k => s[j] # s[k]
      /\ \A j, k \in 1..n : <<s[j], s[k]>> \in E => j < k
  BY <1>2 DEF TopologicalOrders
<1>4. \A v \in V : \E j \in 1..n : v = s[j]
  <2>1. Enumerates(n, V, s)
    BY <1>3 DEF Enumerates
  <2> QED
    BY <1>2, <2>1, EnumerationsCover
<1>5. \A a, b \in 1..n : Reach(U, E, s[a], s[b]) => a <= b
  BY <1>3, <1>4, PathGoesForward
<1>6. i \in 1..n /\ i + 1 \in 1..n /\ i # i + 1 /\ ~(i + 1 <= i)
  BY <1>2
<1>7. Reach(U, E, s[i], s[i + 1]) /\ s[i] # s[i + 1] /\ s[i] \in V
  BY <1>3, <1>5, <1>6
<1>8. E \subseteq U \X U /\ s[i] \in U
  BY <1>7
<1>9. PICK y \in U : <<s[i], y>> \in E /\ Reach(U, E, y, s[i + 1])
  BY <1>7, <1>8, ReachFirstEdge
<1>10. y \in V
  BY <1>9
<1>11. PICK k \in 1..n : y = s[k]
  BY <1>4, <1>10
<1>12. k <= i + 1 /\ i < k
  BY <1>3, <1>5, <1>6, <1>9, <1>11
<1>13. k = i + 1
  BY <1>6, <1>12
<1> QED
  BY <1>9, <1>11, <1>13

\* When tie-breaking is done the graph has one topological order only: its
\* neighbours are joined by edges, so check_path_is_hamiltonian has nothing to
\* log and it does not matter which order toposort returns.
THEOREM OneOrderIsLeft == Spec => []UniqueOrder
<1>1. ASSUME IInv, OrderInv
      PROVE  UniqueOrder
  <2>1. SUFFICES ASSUME phase = "topological_sort",
                        NEW s \in TopologicalOrders(nodes, graph.edges,
                                                    Cardinality(nodes)),
                        NEW i \in 1..(Len(s) - 1)
                 PROVE  <<s[i], s[i + 1]>> \in graph.edges
    BY DEF UniqueOrder
  <2>2. /\ TieInv(nodes) /\ tie_pc = "done" /\ nodes \in SUBSET Plugins
        /\ graph.edges \subseteq nodes \X nodes
    BY <1>1, <2>1 DEF OrderInv, TiesSoFar, IInv, TypeOK
  <2>3. IsFiniteSet(nodes) /\ Cardinality(nodes) \in Nat
    BY <2>2, PluginsAssumption, FS_Subset, FS_CardinalityType
  <2>4. \A v \in nodes : v \in ToSet(load_order)
    <3>1. \A v \in nodes : \E k \in 1..Len(load_order) : v = load_order[k]
      BY <2>2 DEF TieInv, OrderOf
    <3>2. DOMAIN load_order = 1..Len(load_order)
      BY <2>2, LenProperties DEF TieInv, TieStateOver
    <3> QED
      BY <3>1, <3>2 DEF ToSet
  <2>5. \A p, q \in nodes :
            \/ p = q
            \/ Reach(Plugins, graph.edges, p, q)
            \/ Reach(Plugins, graph.edges, q, p)
    BY <2>2, <2>4, TieInvBreaksTies DEF TiesBroken, HasPath
  <2>6. Len(s) = Cardinality(nodes)
    BY <2>3, FunctionIsSeq DEF TopologicalOrders
  <2> QED
    BY <2>1, <2>2, <2>3, <2>5, <2>6, NeighboursJoined
<1> QED
  BY <1>1, Invariance, OrderInvariance, PTL

-----------------------------------------------------------------------------
(* The result of a sort, put together from the orders of its parts. *)

Lists(s, p) == \E i \in 1..Len(s) : s[i] = p

\* What comes before what in two sequences one after the other.
LEMMA BeforeInConcat ==
    ASSUME NEW S, NEW s \in Seq(S), NEW t \in Seq(S), NEW p, NEW q
    PROVE  /\ Before(s, p, q) => Before(s \o t, p, q)
           /\ Before(t, p, q) => Before(s \o t, p, q)
           /\ Lists(s, p) /\ Lists(t, q) => Before(s \o t, p, q)
           /\ Lists(s, p) \/ Lists(t, p) => Lists(s \o t, p)
<1>1. Len(s) \in Nat /\ Len(t) \in Nat
  BY LenProperties
<1>2. /\ Len(s \o t) = Len(s) + Len(t)
      /\ \A i \in 1..(Len(s) + Len(t)) :
            (s \o t)[i] = IF i <= Len(s) THEN s[i] ELSE t[i - Len(s)]
  BY ConcatProperties
<1>3. \A i \in 1..Len(s) : i \in 1..Len(s \o t) /\ (s \o t)[i] = s[i]
  BY <1>1, <1>2
<1>4. ASSUME NEW j \in 1..Len(t)
      PROVE  /\ Len(s) + j \in 1..Len(s \o t)
             /\ (s \o t)[Len(s) + j] = t[j]
             /\ \A i \in 1..Len(s) : i < Len(s) + j
             /\ \A k \in 1..Len(t) : j < k => Len(s) + j < Len(s) + k
  <2>1. Len(s) + j \in 1..(Len(s) + Len(t)) /\ ~(Len(s) + j <= Len(s))
        /\ (Len(s) + j) - Len(s) = j
    BY <1>1
  <2> QED
    BY <1>1, <1>2, <2>1
<1> HIDE DEF Before
<1>5. Before(s, p, q) => Before(s \o t, p, q)
  BY <1>3 DEF Before
<1>6. Before(t, p, q) => Before(s \o t, p, q)
  <2> SUFFICES ASSUME NEW i \in 1..Len(t), NEW j \in 1..Len(t),
                      i < j, t[i] = p, t[j] = q
               PROVE  Before(s \o t, p, q)
    BY DEF Before
  <2>1. /\ Len(s) + i \in 1..Len(s \o t) /\ Len(s) + j \in 1..Len(s \o t)
        /\ (s \o t)[Len(s) + i] = p /\ (s \o t)[Len(s) + j] = q
        /\ Len(s) + i < Len(s) + j
    BY <1>4
  <2> QED
    BY <2>1 DEF Before
<1>7. ASSUME NEW i \in 1..Len(s), s[i] = p, NEW j \in 1..Len(t), t[j] = q
      PROVE  Before(s \o t, p, q)
  <2>1. /\ i \in 1..Len(s \o t) /\ Len(s) + j \in 1..Len(s \o t)
        /\ (s \o t)[i] = p /\ (s \o t)[Len(s) + j] = q
        /\ i < Len(s) + j
    BY <1>3, <1>4, <1>7
  <2> QED
    BY <2>1 DEF Before
<1>8. Lists(s, p) => Lists(s \o t, p)
  BY <1>3 DEF Lists
<1>9. Lists(t, p) => Lists(s \o t, p)
  BY <1>4 DEF Lists
<1>10. Lists(s, p) /\ Lists(t, q) => Before(s \o t, p, q)
  BY <1>7 DEF Lists
<1> QED
  BY <1>5, <1>6, <1>8, <1>9, <1>10

\* The parts are the kinds of plugins.
LEMMA PartsAreKinds ==
    ASSUME IInv
    PROVE  LET parts == PartOf(Plugins) IN
           /\ \A q \in Parts : parts[q] \in SUBSET Plugins
           /\ \A p \in Plugins :
                 /\ p \in parts.masters \/ p \in parts.others \/ p \in parts.blueprints
                 /\ p \in parts.blueprints <=> is_blueprint_master(p)
                 /\ p \in parts.masters => p \notin parts.others
                 /\ p \in parts.blueprints => p \notin parts.others
                 /\ p \in parts.blueprints => p \notin parts.masters
BY DEF PartOf, Parts, is_blueprint_master

\* A part whose order is known.
SortedPart(q) ==
    LET V == PartOf(Plugins)[q]
        s == sorted[q]
    IN /\ V \in SUBSET Plugins /\ IsFiniteSet(V) /\ Cardinality(V) \in Nat
       /\ s \in Seq(Plugins) /\ Len(s) = Cardinality(V)
       /\ \A i \in 1..Len(s) : s[i] \in V
       /\ \A v \in V : \E i \in 1..Len(s) : s[i] = v
       /\ \A i, j \in 1..Len(s) : i # j => s[i] # s[j]
       /\ \A i, j \in 1..Len(s) : <<s[i], s[j]>> \in HardPairs(V) => i < j

\* After a successful sort that is every part.
LEMMA EveryPartSorted ==
    ASSUME IInv, OrderInv, outcome = "ok", NEW q \in Parts
    PROVE  SortedPart(q)
<1> DEFINE V == PartOf(Plugins)[q]
           s == sorted[q]
<1>1. s \in TopologicalOrders(V, HardPairs(V), Cardinality(V))
  BY DEF OrderInv, PartsSorted, PartDone
<1>2. V \in SUBSET Plugins
  BY PartsArePlugins
<1>3. IsFiniteSet(V) /\ Cardinality(V) \in Nat
  BY <1>2, PluginsAssumption, FS_Subset, FS_CardinalityType
<1>4. /\ s \in [1..Cardinality(V) -> V]
      /\ \A i, j \in 1..Cardinality(V) : i # j => s[i] # s[j]
      /\ \A i, j \in 1..Cardinality(V) : <<s[i], s[j]>> \in HardPairs(V) => i < j
  BY <1>1 DEF TopologicalOrders
<1> HIDE DEF V, s
<1>5. s \in Seq(V) /\ Len(s) = Cardinality(V)
  BY <1>3, <1>4, FunctionIsSeq
<1>6. s \in Seq(Plugins)
  BY <1>2, <1>5, SeqMonotonic
<1>7. \A v \in V : \E i \in 1..Len(s) : v = s[i]
  <2>1. Enumerates(Cardinality(V), V, s)
    BY <1>4 DEF Enumerates
  <2> QED
    BY <1>3, <1>5, <2>1, EnumerationsCover
<1> QED
  BY <1>2, <1>3, <1>4, <1>5, <1>6, <1>7 DEF SortedPart, V, s

\* Within a part the hard edges decide.
LEMMA HardEdgeOrders ==
    ASSUME NEW q, SortedPart(q), NEW x, NEW y,
           <<x, y>> \in HardPairs(PartOf(Plugins)[q])
    PROVE  Before(sorted[q], x, y)
<1>1. x \in PartOf(Plugins)[q] /\ y \in PartOf(Plugins)[q]
  BY DEF HardPairs, SpecificPairs, EarlyPairs
<1> QED
  BY <1>1 DEF SortedPart, Before

\* What comes before in a part is transitive.
LEMMA BeforeTransitive ==
    ASSUME NEW q, SortedPart(q), NEW x, NEW y, NEW z,
           Before(sorted[q], x, y), Before(sorted[q], y, z)
    PROVE  Before(sorted[q], x, z)
<1> DEFINE s == sorted[q]
<1>1. PICK i \in 1..Len(s), j \in 1..Len(s) : i < j /\ s[i] = x /\ s[j] = y
  BY DEF Before
<1>2. PICK k \in 1..Len(s), l \in 1..Len(s) : k < l /\ s[k] = y /\ s[l] = z
  BY DEF Before
<1>3. j = k /\ Len(s) \in Nat
  BY <1>1, <1>2 DEF SortedPart
<1>4. i < l
  BY <1>1, <1>2, <1>3
<1> QED
  BY <1>1, <1>2, <1>4 DEF Before

\* Between two parts their places in the result decide.
LEMMA ResultOrders ==
    ASSUME IInv, OrderInv, outcome = "ok", NEW p \in Plugins, NEW q \in Plugins
    PROVE  LET parts == PartOf(Plugins) IN
           /\ \A k \in Parts : Before(sorted[k], p, q) => Before(Result, p, q)
           /\ p \in parts.masters /\ q \in parts.others => Before(Result, p, q)
           /\ p \in parts.masters /\ q \in parts.blueprints => Before(Result, p, q)
           /\ p \in parts.others /\ q \in parts.blueprints => Before(Result, p, q)
<1> DEFINE m == sorted.masters
           o == sorted.others
           b == sorted.blueprints
           parts == PartOf(Plugins)
<1>1. SortedPart("masters") /\ SortedPart("others") /\ SortedPart("blueprints")
  BY EveryPartSorted DEF Parts
<1>2. /\ m \in Seq(Plugins) /\ o \in Seq(Plugins) /\ b \in Seq(Plugins)
      /\ m \o o \in Seq(Plugins)
  BY <1>1, ConcatProperties DEF SortedPart
<1>3. /\ \A v \in parts.masters : Lists(m, v)
      /\ \A v \in parts.others : Lists(o, v)
      /\ \A v \in parts.blueprints : Lists(b, v)
  BY <1>1 DEF SortedPart, Lists
<1>4. Result = (m \o o) \o b
  BY DEF Result
<1> HIDE DEF m, o, b, parts
<1>5. /\ Before(m, p, q) \/ Before(o, p, q) => Before(m \o o, p, q)
      /\ Before(m \o o, p, q) \/ Before(b, p, q) => Before(Result, p, q)
  BY <1>2, <1>4, BeforeInConcat
<1>6. p \in parts.masters /\ q \in parts.others => Before(Result, p, q)
  BY <1>2, <1>3, <1>5, BeforeInConcat
<1>7. p \in parts.masters \/ p \in parts.others => Lists(m \o o, p)
  BY <1>2, <1>3, BeforeInConcat
<1>8. (p \in parts.masters \/ p \in parts.others) /\ q \in parts.blueprints =>
          Before(Result, p, q)
  BY <1>2, <1>3, <1>4, <1>7, BeforeInConcat
<1>9. \A k \in Parts : Before(sorted[k], p, q) => Before(Result, p, q)
  BY <1>5 DEF Parts, m, o, b
<1> QED
  BY <1>6, <1>8, <1>9 DEF parts

\* The result lists every plugin once.
LEMMA ResultLength ==
    ASSUME IInv, OrderInv, outcome = "ok"
    PROVE  Len(Result) = Cardinality(Plugins)
<1> DEFINE parts == PartOf(Plugins)
<1>1. SortedPart("masters") /\ SortedPart("others") /\ SortedPart("blueprints")
  BY EveryPartSorted DEF Parts
<1>2. PICK M \in SUBSET Plugins, O \in SUBSET Plugins, B \in SUBSET Plugins :
          /\ M = parts.masters /\ O = parts.others /\ B = parts.blueprints
          /\ IsFiniteSet(M) /\ IsFiniteSet(O) /\ IsFiniteSet(B)
          /\ Cardinality(M) \in Nat /\ Cardinality(O) \in Nat /\ Cardinality(B) \in Nat
          /\ sorted.masters \in Seq(Plugins) /\ Len(sorted.masters) = Cardinality(M)
          /\ sorted.others \in Seq(Plugins) /\ Len(sorted.others) = Cardinality(O)
          /\ sorted.blueprints \in Seq(Plugins)
          /\ Len(sorted.blueprints) = Cardinality(B)
  BY <1>1 DEF SortedPart
<1>3. /\ M \cap O = {} /\ (M \cup O) \cap B = {}
      /\ (M \cup O) \cup B = Plugins
  BY <1>2, PartsAreKinds
<1>4. Cardinality({}) = 0
  BY FS_EmptySet
<1>5. IsFiniteSet(M \cup O)
  BY PluginsAssumption, FS_Subset
<1>6. Cardinality(M \cup O) = Cardinality(M) + Cardinality(O) - Cardinality(M \cap O)
  BY <1>2, FS_Union
<1>7. Cardinality((M \cup O) \cup B) =
          Cardinality(M \cup O) + Cardinality(B) - Cardinality((M \cup O) \cap B)
  BY <1>2, <1>5, FS_Union
<1>8. Cardinality(Plugins) = Cardinality(M) + Cardinality(O) + Cardinality(B)
  <2>1. Cardinality(M \cap O) = 0 /\ Cardinality((M \cup O) \cap B) = 0
    BY <1>3, <1>4
  <2>2. Cardinality((M \cup O) \cup B) = Cardinality(Plugins)
    BY <1>3
  <2> QED
    BY <1>2, <1>6, <1>7, <2>1, <2>2
<1>9. Len(Result) = Len(sorted.masters) + Len(sorted.others) + Len(sorted.blueprints)
  <2>1. /\ sorted.masters \o sorted.others \in Seq(Plugins)
        /\ Len(sorted.masters \o sorted.others) =
              Len(sorted.masters) + Len(sorted.others)
    BY <1>2, ConcatProperties
  <2>2. Len((sorted.masters \o sorted.others) \o sorted.blueprints) =
            Len(sorted.masters \o sorted.others) + Len(sorted.blueprints)
    BY <1>2, <2>1, ConcatProperties
  <2> QED
    BY <2>1, <2>2 DEF Result
<1> QED
  BY <1>2, <1>8, <1>9

\* A successful sort has every plugin once, behind its masters and all the
\* files it loads after, whatever parts they are in: hard edges order a part,
\* and validation lets no dependency through that points to a later part.
THEOREM DependenciesAreRespected == Spec => []DependenciesRespected
<1>1. ASSUME IInv, OrderInv
      PROVE  DependenciesRespected
  <2>1. SUFFICES ASSUME outcome = "ok", NEW p \in Plugins, NEW q \in Plugins,
                        \/ p \in data.files_after[q]
                        \/ /\ p \in data.masters[q]
                           /\ ~(is_blueprint_master(p) /\ ~is_blueprint_master(q))
                 PROVE  Before(Result, p, q)
    BY <1>1, ResultLength DEF DependenciesRespected
  <2> DEFINE parts == PartOf(Plugins)
  <2>2. Rejected = {}
    BY <1>1, <2>1 DEF OrderInv, Accepted
  <2>3. /\ p \in parts.masters \/ p \in parts.others \/ p \in parts.blueprints
        /\ q \in parts.masters \/ q \in parts.others \/ q \in parts.blueprints
        /\ p \in parts.blueprints <=> is_blueprint_master(p)
        /\ q \in parts.blueprints <=> is_blueprint_master(q)
    BY <1>1, PartsAreKinds
  <2>4. ASSUME NEW k \in Parts, p \in parts[k], q \in parts[k]
        PROVE  Before(Result, p, q)
    <3>1. <<p, q>> \in HardPairs(parts[k])
      BY <2>1, <2>4 DEF HardPairs, SpecificPairs
    <3>2. Before(sorted[k], p, q)
      BY <1>1, <2>1, <3>1, EveryPartSorted, HardEdgeOrders
    <3> QED
      BY <1>1, <2>1, <3>2, ResultOrders
  <2>6. /\ p \in parts.masters /\ q \in parts.others => Before(Result, p, q)
        /\ p \in parts.masters /\ q \in parts.blueprints => Before(Result, p, q)
        /\ p \in parts.others /\ q \in parts.blueprints => Before(Result, p, q)
    BY <1>1, <2>1, ResultOrders
  <2>7. q \in parts.masters \cup parts.others => ~Misplaced(q)
    BY <2>2 DEF Rejected
  <2>8. ~(p \in parts.others /\ q \in parts.masters)
    BY <2>1, <2>7 DEF Misplaced
  <2>9. p \in parts.blueprints /\ q \notin parts.blueprints => FALSE
    BY <2>1, <2>3, <2>7 DEF Misplaced
  <2> HIDE DEF parts
  <2> QED
    BY <2>3, <2>4, <2>6, <2>8, <2>9 DEF Parts
<1> QED
  BY <1>1, Invariance, OrderInvariance, PTL

-----------------------------------------------------------------------------
\* Early loaders of one part are sorted in their hardcoded order: each has an
\* edge to the next one there is.
LEMMA EarlyChain ==
    ASSUME IInv, NEW q \in Parts, SortedPart(q),
           NEW i \in 1..Len(input.early), input.early[i] \in PartOf(Plugins)[q],
           NEW j \in 1..Len(input.early), input.early[j] \in PartOf(Plugins)[q],
           i < j
    PROVE  Before(sorted[q], input.early[i], input.early[j])
<1> DEFINE V == PartOf(Plugins)[q]
           s == sorted[q]
           n == Len(input.early)
           e(k) == input.early[k]
<1>1. n \in Nat
  BY LenProperties DEF IInv, TypeOK, IsMetadata
<1>2. /\ Len(s) \in Nat
      /\ \A v \in V : \E c \in 1..Len(s) : s[c] = v
      /\ \A c, d \in 1..Len(s) : c # d => s[c] # s[d]
      /\ \A c, d \in 1..Len(s) : <<s[c], s[d]>> \in HardPairs(V) => c < d
  BY DEF SortedPart
<1> HIDE DEF V, s
<1>3. PICK a \in 1..Len(s) : s[a] = e(i)
  BY <1>2 DEF V
<1> DEFINE Behind(k) == e(k) \in V => k = i \/ \E c \in 1..Len(s) : s[c] = e(k) /\ a < c
           S == {m \in 1..n : i <= m /\ \A k \in i..m : Behind(k)}
<1>4. i \in S
  BY <1>1
<1>5. PICK x \in S : \A m \in S : m <= x
  BY <1>1, <1>4, MaxOfBounded
<1>6. ASSUME x < n
      PROVE  FALSE
  <2>1. Behind(x + 1)
    <3>1. SUFFICES ASSUME e(x + 1) \in V
                   PROVE  \E c \in 1..Len(s) : s[c] = e(x + 1) /\ a < c
      OBVIOUS
    <3> DEFINE K == {k \in 1..x : i <= k /\ e(k) \in V}
    <3>2. x \in Nat /\ i <= x
      BY <1>1
    <3>3. i \in K
      BY <3>2 DEF V
    <3>4. PICK k \in K : \A l \in K : l <= k
      BY <3>2, <3>3, MaxOfBounded
    <3>5. \A l \in (k + 1)..((x + 1) - 1) : e(l) \notin V
      BY <3>2, <3>4
    <3>6. k \in 1..n /\ x + 1 \in 1..n /\ k < x + 1
      BY <1>1, <1>6, <3>2
    <3>7. NextEarly(V, e(k), e(x + 1))
      BY <3>5, <3>6 DEF NextEarly
    <3>8. <<e(k), e(x + 1)>> \in HardPairs(V)
      BY <3>1, <3>7 DEF HardPairs, EarlyPairs
    <3>9. PICK c \in 1..Len(s) : s[c] = e(k) /\ a <= c
      <4>1. k \in i..x /\ e(k) \in V
        BY <1>1
      <4>2. CASE k = i
        BY <1>2, <1>3, <4>2
      <4>3. CASE k # i
        BY <1>2, <4>1, <4>3
      <4> QED
        BY <4>2, <4>3
    <3>10. PICK d \in 1..Len(s) : s[d] = e(x + 1)
      BY <1>2, <3>1
    <3>11. c < d
      BY <1>2, <3>8, <3>9, <3>10
    <3> QED
      BY <1>2, <3>9, <3>10, <3>11
  <2>2. x + 1 \in S
    <3>1. \A k \in i..(x + 1) : k \in i..x \/ k = x + 1
      BY <1>1
    <3>2. \A k \in i..(x + 1) : Behind(k)
      BY <2>1, <3>1
    <3>3. x + 1 \in 1..n /\ i <= x + 1
      BY <1>1, <1>6
    <3> HIDE DEF Behind
    <3> QED
      BY <3>2, <3>3
  <2> QED
    BY <1>1, <1>5, <2>2
<1>7. j \in i..x
  BY <1>1, <1>6
<1>8. Behind(j)
  BY <1>7
<1>9. PICK c \in 1..Len(s) : s[c] = e(j) /\ a < c
  BY <1>8 DEF V
<1> QED
  BY <1>3, <1>9 DEF Before, s

\* A successful sort puts the hardcoded plugins first and in their order.
THEOREM EarlyLoadersAreFirst == Spec => []EarlyLoadersFirst
<1>1. ASSUME IInv, OrderInv
      PROVE  EarlyLoadersFirst
  <2>1. SUFFICES ASSUME outcome = "ok",
                        NEW i \in 1..Len(input.early), NEW q \in Plugins,
                        ~is_blueprint_master(input.early[i]),
                        \A j \in 1..i : q # input.early[j]
                 PROVE  Before(Result, input.early[i], q)
    BY DEF EarlyLoadersFirst
  <2> DEFINE parts == PartOf(Plugins)
             n == Len(input.early)
  <2>2. n \in Nat /\ \A k \in 1..n : input.early[k] \in Plugins
    BY <1>1, LenProperties, ElementOfSeq DEF IInv, TypeOK, IsMetadata
  <2>3. PICK p \in Plugins : p = input.early[i]
    BY <2>2
  <2>4. /\ p \in parts.masters \/ p \in parts.others
        /\ q \in parts.masters \/ q \in parts.others \/ q \in parts.blueprints
    BY <1>1, <2>1, <2>3, PartsAreKinds
  <2>5. ASSUME NEW k \in Parts, p \in parts[k], q \in parts[k]
        PROVE  Before(Result, p, q)
    <3>1. SortedPart(k)
      BY <1>1, <2>1, EveryPartSorted
    <3>2. CASE q \in ToSet(input.early)
      <4>1. PICK j \in 1..n : q = input.early[j]
        BY <1>1, <3>2, LenProperties DEF ToSet, IInv, TypeOK, IsMetadata
      <4>2. i < j
        BY <2>1, <2>2, <4>1
      <4>3. Before(sorted[k], p, q)
        BY <1>1, <2>3, <2>5, <3>1, <4>1, <4>2, EarlyChain
      <4> QED
        BY <1>1, <2>1, <4>3, ResultOrders
    <3>3. CASE q \notin ToSet(input.early)
      <4> DEFINE K == {l \in 1..n : i <= l /\ input.early[l] \in parts[k]}
      <4>1. i \in K
        BY <2>2, <2>3, <2>5
      <4>2. PICK l \in K : \A m \in K : m <= l
        BY <2>2, <4>1, MaxOfBounded
      <4>3. LastEarly(parts[k], input.early[l])
        <5>1. \A m \in (l + 1)..n : input.early[m] \notin parts[k]
          BY <2>2, <4>2
        <5> QED
          BY <5>1 DEF LastEarly
      <4>4. <<input.early[l], q>> \in HardPairs(parts[k])
        BY <2>5, <3>3, <4>3 DEF HardPairs, EarlyPairs
      <4>5. Before(sorted[k], input.early[l], q)
        BY <3>1, <4>4, HardEdgeOrders
      <4>6. Before(Result, input.early[l], q)
        BY <1>1, <2>1, <2>2, <4>5, ResultOrders
      <4> QED
        <5>1. CASE l = i
          BY <2>3, <4>6, <5>1
        <5>2. CASE l # i
          <6>1. Before(sorted[k], p, input.early[l])
            BY <1>1, <2>2, <2>3, <2>5, <3>1, <5>2, EarlyChain
          <6>2. Before(sorted[k], p, q)
            BY <3>1, <4>5, <6>1, BeforeTransitive
          <6> QED
            BY <1>1, <2>1, <6>2, ResultOrders
        <5> QED
          BY <5>1, <5>2
    <3> QED
      BY <3>2, <3>3
  <2>6. /\ p \in parts.masters /\ q \in parts.others => Before(Result, p, q)
        /\ p \in parts.masters /\ q \in parts.blueprints => Before(Result, p, q)
        /\ p \in parts.others /\ q \in parts.blueprints => Before(Result, p, q)
    BY <1>1, <2>1, ResultOrders
  <2>7. ~(p \in parts.others /\ q \in parts.masters)
    <3>1. p \in ToSet(input.early)
      BY <1>1, <2>3, LenProperties DEF ToSet, IInv, TypeOK, IsMetadata
    <3>2. ~EarlyMisplaced
      BY <1>1, <2>1 DEF OrderInv, Accepted
    <3> QED
      BY <3>1, <3>2 DEF EarlyMisplaced
  <2> HIDE DEF parts
  <2> QED
    BY <2>3, <2>4, <2>5, <2>6, <2>7 DEF Parts
<1> QED
  BY <1>1, Invariance, OrderInvariance, PTL

-----------------------------------------------------------------------------
(* A second sort.  Sorting again with the result as the load order gives    *)
(* the result again, for two reasons.  First, the paths of a part's graph   *)
(* before tie-breaking do not depend on the load order: the group searches  *)
(* and the overlap loops are a run of turns that are determined, whatever   *)
(* is cached, from a start that the input determines.  Second, the first    *)
(* sort's order of a part satisfies these paths, so that tie-breaking finds *)
(* a good order in the second sort, keeps it and leaves no other.  ReplayInv*)
(* says how far both have got.                                              *)

\* The deepest search tree from a group has a depth.
LEMMA MaxPathLengthType ==
    ASSUME NEW gg, NEW g
    PROVE  MaxPathLength(gg, g) \in Nat
<1> DEFINE n == Cardinality(GroupNames)
           S == {1} \cup (PathLengths(gg, g) \cap (1..n))
<1>1. n \in Nat /\ n # 0
  BY GroupNamesAssumption, DefaultGroupAssumption, FS_CardinalityType, FS_EmptySet
<1>2. S \subseteq 1..n /\ S # {}
  BY <1>1
<1> HIDE DEF S
<1>3. Max(S) \in S
  BY <1>1, <1>2, MaxOfBounded
<1> QED
  BY <1>1, <1>2, <1>3 DEF MaxPathLength, S

\* What the groups are sorted by.
GroupKey(gg, g) == IF is_root_node(gg, g) THEN MaxPathLength(gg, g) ELSE 0
GroupIndex(gg, g) == CHOOSE i \in 1..Len(gg.nodes) : gg.nodes[i] = g

\* The search from g comes before the one from h.
SearchedBefore(gg, g, h) ==
    \/ GroupKey(gg, g) > GroupKey(gg, h)
    \/ GroupKey(gg, g) = GroupKey(gg, h) /\ GroupIndex(gg, g) < GroupIndex(gg, h)

\* sorted_group_nodes sorts by it.
LEMMA GroupOrderSorts ==
    ASSUME NEW gg, gg.nodes \in Seq(GroupNames), NEW s \in sorted_group_nodes(gg)
    PROVE  /\ s \in [1..Len(gg.nodes) -> ToSet(gg.nodes)]
           /\ \A g \in ToSet(gg.nodes) : \E i \in 1..Len(gg.nodes) : s[i] = g
           /\ \A i, j \in 1..Len(gg.nodes) : i < j => SearchedBefore(gg, s[i], s[j])
<1> DEFINE key == [g \in ToSet(gg.nodes) |->
                      IF is_root_node(gg, g) THEN MaxPathLength(gg, g) ELSE 0]
           index(g) == CHOOSE i \in 1..Len(gg.nodes) : gg.nodes[i] = g
<1>1. /\ s \in [1..Len(gg.nodes) -> ToSet(gg.nodes)]
      /\ ToSet(s) = ToSet(gg.nodes)
      /\ \A i, j \in 1..Len(gg.nodes) : i < j =>
             \/ key[s[i]] > key[s[j]]
             \/ key[s[i]] = key[s[j]] /\ index(s[i]) < index(s[j])
  BY Zenon DEF sorted_group_nodes
<1>2. DOMAIN s = 1..Len(gg.nodes)
  BY <1>1
<1>3. \A g \in ToSet(gg.nodes) : \E i \in 1..Len(gg.nodes) : s[i] = g
  <2>1. \A g : g \in ToSet(s) <=> \E i \in 1..Len(gg.nodes) : s[i] = g
    BY <1>2 DEF ToSet
  <2> QED
    BY <1>1, <2>1
<1>4. \A g \in ToSet(gg.nodes) : key[g] = GroupKey(gg, g)
  BY DEF GroupKey
<1>5. \A g : index(g) = GroupIndex(gg, g)
  BY DEF GroupIndex
<1> HIDE DEF key, index
<1>6. \A i \in 1..Len(gg.nodes) : s[i] \in ToSet(gg.nodes)
  BY <1>1
<1> QED
  BY <1>1, <1>3, <1>4, <1>5, <1>6 DEF SearchedBefore

\* There is only one order to search the groups in.
LEMMA OneGroupOrder ==
    ASSUME NEW gg, gg.nodes \in Seq(GroupNames),
           NEW s \in sorted_group_nodes(gg), NEW t \in sorted_group_nodes(gg)
    PROVE  s = t
<1>1. PICK n \in Nat : n = Len(gg.nodes)
  BY LenProperties
<1>2. PICK G : G = ToSet(gg.nodes)
  OBVIOUS
<1>3. PICK Q : Q = {e \in G \X G : SearchedBefore(gg, e[1], e[2])}
  OBVIOUS
<1>4. \A g \in G : GroupKey(gg, g) \in Nat /\ GroupIndex(gg, g) \in Nat
  <2>1. \A g \in G : \E i \in 1..n : gg.nodes[i] = g
    BY <1>1, <1>2, LenProperties DEF ToSet
  <2>2. \A g \in G : GroupIndex(gg, g) \in 1..n
    BY <1>1, <2>1 DEF GroupIndex
  <2> QED
    BY <2>2, MaxPathLengthType DEF GroupKey
<1>5. \A x, y \in G : ~(<<x, y>> \in Q /\ <<y, x>> \in Q)
  <2> SUFFICES ASSUME NEW x \in G, NEW y \in G, SearchedBefore(gg, x, y),
                      SearchedBefore(gg, y, x)
               PROVE  FALSE
    BY <1>3
  <2> QED
    BY <1>4 DEF SearchedBefore
<1>6. ASSUME NEW u \in sorted_group_nodes(gg)
      PROVE  Follows(n, G, Q, u)
  <2>1. /\ u \in [1..n -> G] /\ \A g \in G : \E i \in 1..n : u[i] = g
        /\ \A i, j \in 1..n : i < j => SearchedBefore(gg, u[i], u[j])
    BY <1>1, <1>2, GroupOrderSorts
  <2>2. \A i, j \in 1..n : i < j => <<u[i], u[j]>> \in Q
    BY <1>3, <2>1
  <2> QED
    BY <2>1, <2>2 DEF Follows
<1>7. Follows(n, G, Q, s) /\ Follows(n, G, Q, t)
  BY <1>6
<1> QED
  BY <1>5, <1>7, SameOrder

-----------------------------------------------------------------------------
\* What the searches and the loops over the plugins V are given.
World(V) ==
    [nodes     |-> V,
     succ      |-> GroupsGraphOfInput.succ,
     members   |-> [g \in GroupNames |-> {p \in V : group(p) = g}],
     overrides |-> {e \in Pairs :
        \/ /\ RecordsDecide(e[1], e[2])
           /\ data.override_count[e[1]] > data.override_count[e[2]]
        \/ /\ AssetsDecide(e[1], e[2])
           /\ data.asset_count[e[1]] > data.asset_count[e[2]]}]

\* Where they start.
IsStart(V, c) ==
    \E s \in sorted_group_nodes(GroupsGraphOfInput) :
        c = [paths |-> PathsOf(HardPairs(V)), starts |-> Append(s, DefaultGroup),
             ignored |-> NoGroup, stack |-> <<>>, colour |-> White,
             edge_stack |-> <<>>, candidates |-> {}, finished |-> {},
             unfinishable |-> {}, pairs |-> LoopPairs(V)]

\* c is on a run of the searches and loops for the plugins V.
RunReaches(V, c) ==
    \E b \in Configs : IsStart(V, b) /\ Reach(Configs, Turns(World(V)), b, c)

\* The paths there are when nothing is left to do.
Settles(V, R) ==
    \E c \in Configs : RunReaches(V, c) /\ AllOver(c) /\ c.paths = R

\* Whatever the searches cache, the paths come out the same.
LEMMA SettlesOnce ==
    ASSUME TypeOK, NEW V, NEW R, NEW Q, Settles(V, R), Settles(V, Q)
    PROVE  R = Q
<1>1. PICK c \in Configs : RunReaches(V, c) /\ AllOver(c) /\ c.paths = R
  BY DEF Settles
<1>2. PICK d \in Configs : RunReaches(V, d) /\ AllOver(d) /\ d.paths = Q
  BY DEF Settles
<1>3. PICK E : E = Turns(World(V))
  OBVIOUS
<1>4. PICK a \in Configs : IsStart(V, a) /\ Reach(Configs, E, a, c)
  BY <1>1, <1>3 DEF RunReaches
<1>5. PICK b \in Configs : IsStart(V, b) /\ Reach(Configs, E, b, d)
  BY <1>2, <1>3 DEF RunReaches
<1>6. GroupsGraphOfInput.nodes \in Seq(GroupNames)
  BY BuiltGroupsGraphType DEF TypeOK, IsMetadata, GroupsGraphOfInput
<1>7. a = b
  BY <1>4, <1>5, <1>6, OneGroupOrder DEF IsStart
<1>8. /\ E \subseteq Configs \X Configs
      /\ \A x, y, z \in Configs : <<x, y>> \in E /\ <<x, z>> \in E => y = z
  BY <1>3, TurnDetermined DEF Turns
<1>9. \A x \in Configs : <<c, x>> \notin E /\ <<d, x>> \notin E
  BY <1>1, <1>2, <1>3, OverIsOver DEF Turns
<1>10. c = d
  BY <1>4, <1>5, <1>7, <1>8, <1>9, RunsEndAlike
<1> QED
  BY <1>1, <1>2, <1>10

\* A run goes on with a turn.
LEMMA RunGoesOn ==
    ASSUME NEW V, NEW c \in Configs, RunReaches(V, c), NEW d \in Configs,
           Turn(World(V), c, d)
    PROVE  RunReaches(V, d)
<1>1. <<c, d>> \in Turns(World(V))
  BY DEF Turns
<1> QED
  BY <1>1, ReachEdge, ReachTransitive DEF RunReaches

\* A turn of the loops over the plugins that does not fail is a turn, whatever
\* the cache holds: a pair is passed over for an edge only if its plugins are
\* joined already.
LEMMA OverlapStepTurns ==
    ASSUME data \in PluginDataType, SoundGraph(graph),
           stack = <<>>, starts = <<>>, candidates = {},
           overlap_pairs \subseteq Pairs, UNCHANGED <<groupVars, data>>, OverlapStep
    PROVE  Turn(World(nodes), Config(overlap_pairs), Config(overlap_pairs)')
<1>1. PICK e \in overlap_pairs : \/ SkipPair(e[1], e[2])
                                 \/ RecordOverlap(e[1], e[2])
                                 \/ AssetOverlap(e[1], e[2])
  BY DEF OverlapStep
<1>2. PICK p \in Plugins, q \in Plugins : e = <<p, q>>
  BY DEF Pairs
<1>3. PICK w : w = World(nodes)
  OBVIOUS
<1>4. PICK R : R = PathsOf(graph.edges)
  OBVIOUS
<1>5. /\ data.override_count[p] \in Nat /\ data.override_count[q] \in Nat
      /\ data.asset_count[p] \in Nat /\ data.asset_count[q] \in Nat
  BY DEF PluginDataType
<1>6. /\ <<p, q>> \in w.overrides <=>
             \/ /\ RecordsDecide(p, q)
                /\ data.override_count[p] > data.override_count[q]
             \/ /\ AssetsDecide(p, q)
                /\ data.asset_count[p] > data.asset_count[q]
      /\ <<q, p>> \in w.overrides <=>
             \/ /\ RecordsDecide(p, q)
                /\ data.override_count[q] > data.override_count[p]
             \/ /\ AssetsDecide(p, q)
                /\ data.asset_count[q] > data.asset_count[p]
  <2>1. {p, q} = {q, p}
    OBVIOUS
  <2>2. RecordsDecide(p, q) <=> RecordsDecide(q, p)
    BY <2>1 DEF RecordsDecide, CountsDiffer, overlaps
  <2>3. AssetsDecide(p, q) <=> AssetsDecide(q, p)
    BY <2>1, <2>2 DEF AssetsDecide, overlaps
  <2>4. /\ <<p, q>> \in Pairs /\ <<q, p>> \in Pairs
        /\ <<p, q>>[1] = p /\ <<p, q>>[2] = q /\ <<q, p>>[1] = q /\ <<q, p>>[2] = p
    BY DEF Pairs
  <2>5. w.overrides = {f \in Pairs :
            \/ /\ RecordsDecide(f[1], f[2])
               /\ data.override_count[f[1]] > data.override_count[f[2]]
            \/ /\ AssetsDecide(f[1], f[2])
               /\ data.asset_count[f[1]] > data.asset_count[f[2]]}
    BY <1>3 DEF World
  <2> QED
    BY <2>2, <2>3, <2>4, <2>5
<1>7. \A a, b \in Plugins : \A h \in AddUnlessCycle(graph, a, b) :
          PathsOf(h.edges) = Joined(R, a, b)
  BY <1>4, AddedPaths
<1>8. PathsOf(graph'.edges) = WithOverlap(w, R, p, q)
  <2>1. CASE SkipPair(p, q) /\ DirectEdge(p, q)
    <3>1. <<p, q>> \in R \/ <<q, p>> \in R
      BY <1>4, <2>1, ReachEdge DEF DirectEdge, PathsOf, Pairs
    <3>2. graph' = graph /\ Joined(R, p, q) = R /\ Joined(R, q, p) = R
      BY <2>1, <3>1 DEF SkipPair, Joined
    <3> QED
      BY <1>4, <3>2 DEF WithOverlap
  <2>2. CASE SkipPair(p, q) /\ ~DirectEdge(p, q)
    <3>1. graph' = graph /\ ~RecordsDecide(p, q) /\ ~AssetsDecide(p, q)
      BY <2>2 DEF SkipPair
    <3> QED
      BY <1>4, <1>6, <3>1 DEF WithOverlap
  <2>3. CASE RecordOverlap(p, q)
    <3>1. /\ RecordsDecide(p, q) /\ ~AssetsDecide(p, q)
          /\ data.override_count[p] # data.override_count[q]
          /\ IF data.override_count[p] > data.override_count[q]
             THEN graph' \in AddUnlessCycle(graph, p, q)
             ELSE graph' \in AddUnlessCycle(graph, q, p)
      BY <2>3 DEF RecordOverlap, AssetsDecide, RecordsDecide, CountsDiffer
    <3>2. CASE data.override_count[p] > data.override_count[q]
      BY <1>5, <1>6, <1>7, <3>1, <3>2 DEF WithOverlap
    <3>3. CASE ~(data.override_count[p] > data.override_count[q])
      BY <1>5, <1>6, <1>7, <3>1, <3>3 DEF WithOverlap
    <3> QED
      BY <3>2, <3>3
  <2>4. CASE AssetOverlap(p, q)
    <3>1. /\ AssetsDecide(p, q) /\ ~RecordsDecide(p, q)
          /\ data.asset_count[p] # data.asset_count[q]
          /\ IF data.asset_count[p] > data.asset_count[q]
             THEN graph' \in AddUnlessCycle(graph, p, q)
             ELSE graph' \in AddUnlessCycle(graph, q, p)
      BY <2>4 DEF AssetOverlap, AssetsDecide
    <3>2. CASE data.asset_count[p] > data.asset_count[q]
      BY <1>5, <1>6, <1>7, <3>1, <3>2 DEF WithOverlap
    <3>3. CASE ~(data.asset_count[p] > data.asset_count[q])
      BY <1>5, <1>6, <1>7, <3>1, <3>3 DEF WithOverlap
    <3> QED
      BY <3>2, <3>3
  <2> QED
    BY <1>1, <1>2, <2>1, <2>2, <2>3, <2>4
<1>9. /\ \A f \in overlap_pairs : p < f[1] \/ (p = f[1] /\ q <= f[2])
      /\ overlap_pairs' = overlap_pairs \ {e}
  BY <1>1, <1>2
  DEF SkipPair, RecordOverlap, AssetOverlap, VisitPair, IsFirstPair
<1>10. PICK c : c = Config(overlap_pairs)
  OBVIOUS
<1>11. /\ c.paths = R /\ c.starts = <<>> /\ c.ignored = ignored /\ c.stack = <<>>
       /\ c.colour = colour /\ c.edge_stack = edge_stack /\ c.candidates = {}
       /\ c.finished = finished /\ c.unfinishable = unfinishable
       /\ c.pairs = overlap_pairs
  BY <1>4, <1>10 DEF Config
<1>12. PICK d : d = Config(overlap_pairs)'
  OBVIOUS
<1>13. d = [paths |-> WithOverlap(w, c.paths, e[1], e[2]), starts |-> c.starts,
            ignored |-> c.ignored, stack |-> c.stack, colour |-> c.colour,
            edge_stack |-> c.edge_stack, candidates |-> c.candidates,
            finished |-> c.finished, unfinishable |-> c.unfinishable,
            pairs |-> c.pairs \ {e}]
  <2>1. d = [paths |-> PathsOf(graph'.edges), starts |-> starts',
             ignored |-> ignored', stack |-> stack', colour |-> colour',
             edge_stack |-> edge_stack', candidates |-> candidates',
             finished |-> finished', unfinishable |-> unfinishable',
             pairs |-> overlap_pairs']
    BY <1>12 DEF Config, PathsOf
  <2> QED
    BY <1>2, <1>8, <1>9, <1>11, <2>1 DEF groupVars
<1>14. Turn(w, c, d)
  BY <1>2, <1>9, <1>11, <1>13 DEF Turn, PairTurn, SearchesOver
<1> QED
  BY <1>3, <1>10, <1>12, <1>14

\* Only one topological order is left where all vertices are ordered.
LEMMA OneTopologicalOrder ==
    ASSUME NEW U, NEW V \in SUBSET U, IsFiniteSet(V), NEW E, E \subseteq V \X V,
           Acyclic(U, E),
           \A p, q \in V : p = q \/ Reach(U, E, p, q) \/ Reach(U, E, q, p),
           NEW s \in TopologicalOrders(V, E, Cardinality(V)),
           NEW t \in TopologicalOrders(V, E, Cardinality(V))
    PROVE  s = t
<1>1. PICK n \in Nat : n = Cardinality(V)
  BY FS_CardinalityType
<1>2. PICK Q : Q = {e \in V \X V : e[1] # e[2] /\ Reach(U, E, e[1], e[2])}
  OBVIOUS
<1>3. \A x, y \in V : ~(<<x, y>> \in Q /\ <<y, x>> \in Q)
  <2> SUFFICES ASSUME NEW x \in V, NEW y \in V, x # y,
                      Reach(U, E, x, y), Reach(U, E, y, x)
               PROVE  FALSE
    BY <1>2
  <2>1. E \subseteq U \X U /\ x \in U /\ y \in U
    OBVIOUS
  <2> QED
    BY <2>1, AcyclicAntisymmetric
<1>4. ASSUME NEW o \in TopologicalOrders(V, E, Cardinality(V))
      PROVE  Follows(n, V, Q, o)
  <2>1. /\ o \in [1..n -> V]
        /\ \A i, j \in 1..n : i # j => o[i] # o[j]
        /\ \A i, j \in 1..n : <<o[i], o[j]>> \in E => i < j
    BY <1>1 DEF TopologicalOrders
  <2>2. \A v \in V : \E i \in 1..n : v = o[i]
    BY <1>1, <2>1, EnumerationCovers
  <2>3. \A a, b \in 1..n : Reach(U, E, o[a], o[b]) => a <= b
    BY <2>1, <2>2, PathGoesForward
  <2>4. ASSUME NEW i \in 1..n, NEW j \in 1..n, i < j
        PROVE  <<o[i], o[j]>> \in Q
    <3>1. o[i] # o[j] /\ o[i] \in V /\ o[j] \in V
      BY <2>1, <2>4
    <3>2. ~Reach(U, E, o[j], o[i])
      BY <2>3, <2>4
    <3> QED
      BY <1>2, <3>1, <3>2
  <2> QED
    BY <2>1, <2>2, <2>4 DEF Follows
<1> QED
  BY <1>3, <1>4, SameOrder

-----------------------------------------------------------------------------
\* A part that gets past every check, whatever its order.
Sortable(V) ==
    /\ V \cap data.masters_unreadable = {}
    /\ Acyclic(Plugins, HardPairs(V))
    /\ DefaultGroup \in ToSet(GroupsGraphOfInput.nodes)

\* An order of such a part that satisfies the paths that come out of it.
GoodFor(V, s) ==
    /\ Sortable(V)
    /\ \E R : /\ Settles(V, R)
              /\ s \in TopologicalOrders(V, {e \in R : e[1] # e[2]}, Cardinality(V))

GroupsFine == ~GroupsUndefined /\ ~GroupsCyclic /\ ~PluginGroupUndefined

\* The input has passed the checks that come before the parts are sorted.
InputFine ==
    /\ phase \notin {"build_groups", "end"} \/ outcome = "ok" \/ previous # <<>> =>
          GroupsFine
    /\ phase \in SortingPhases \/ outcome = "ok" \/ previous # <<>> =>
          Rejected = {} /\ ~EarlyMisplaced

\* Until the first check the graph has the hard edges and no others.
HardEdgesOnly ==
    /\ phase = "early" => graph.edges = SpecificPairs(nodes)
                          /\ graph.cache = SpecificPairs(nodes)
    /\ phase = "first_check" => graph.edges = HardPairs(nodes)

CheckPassed ==
    /\ phase \in {"early", "first_check"} => nodes \cap data.masters_unreadable = {}
    /\ phase \in CheckedPhases => Sortable(nodes)

\* The searches and loops are on a run that starts where this part's runs do.
RunAt == Config(IF phase = "groups" THEN LoopPairs(nodes) ELSE overlap_pairs)

OnItsRun ==
    /\ phase \in {"groups", "overlap"} => RunReaches(nodes, RunAt)
    /\ phase = "groups" =>
          groups_graph = GroupsGraphOfInput /\ unfinishable \subseteq GroupNames
    /\ phase = "overlap" => stack = <<>> /\ starts = <<>> /\ candidates = {}

\* What the run came to is in the graph while tie-break edges are added.
PathsSettled ==
    phase \in {"ties", "topological_sort"} =>
        \E R : Settles(nodes, R) /\ R \subseteq PathsOf(graph.edges)

PartsGood ==
    \A q \in Parts : PartDone(q) => GoodFor(PartOf(Plugins)[q], sorted[q])

OrderListsOnce ==
    \A i, j \in 1..Len(order) : i # j => order[i] # order[j]

\* A second sort goes the way of the first.
Replays(old) ==
    /\ order = old.masters \o old.others \o old.blueprints
    /\ \A q \in Parts : GoodFor(PartOf(Plugins)[q], old[q])
    /\ \A q \in Parts : PartDone(q) => sorted[q] = old[q]
    /\ phase \in {"ties", "topological_sort"} => load_order = old[part] /\ InOrder

SecondSort ==
    previous # <<>> =>
        /\ previous = order
        /\ \/ outcome \in {"none", "ok"}
           \/ outcome = "plugin_data" /\ \E p, q \in Plugins : RecordsFail(p, q)
        /\ \E old \in [Parts -> Seq(Plugins)] : Replays(old)

ReplayInv ==
    /\ InputFine /\ HardEdgesOnly /\ CheckPassed /\ OnItsRun /\ PathsSettled
    /\ PartsGood /\ OrderListsOnce /\ SecondSort

-----------------------------------------------------------------------------
\* What depends on the input only does not change.
LEMMA WorldFixed ==
    ASSUME data' = data, input' = input
    PROVE  /\ GroupsGraphOfInput' = GroupsGraphOfInput
           /\ GroupsFine' <=> GroupsFine
           /\ \A V : World(V)' = World(V)
           /\ \A V : Sortable(V)' <=> Sortable(V)
           /\ \A V, c : IsStart(V, c)' <=> IsStart(V, c)
           /\ \A V, c : RunReaches(V, c)' <=> RunReaches(V, c)
           /\ \A V, R : Settles(V, R)' <=> Settles(V, R)
           /\ \A V, s : GoodFor(V, s)' <=> GoodFor(V, s)
           /\ \A p, q : RecordsFail(p, q)' <=> RecordsFail(p, q)
<1>1. GroupsGraphOfInput' = GroupsGraphOfInput
  BY DEF GroupsGraphOfInput
<1>2. \A p : group(p)' = group(p)
  BY DEF group
<1>3. GroupsFine' <=> GroupsFine
  BY <1>1, <1>2
  DEF GroupsFine, GroupsUndefined, GroupsCyclic, PluginGroupUndefined
<1>4. \A p, q : /\ RecordsDecide(p, q)' <=> RecordsDecide(p, q)
                /\ AssetsDecide(p, q)' <=> AssetsDecide(p, q)
                /\ RecordsFail(p, q)' <=> RecordsFail(p, q)
  BY DEF RecordsDecide, AssetsDecide, RecordsFail, CountsDiffer
<1>5. \A V : /\ HardPairs(V)' = HardPairs(V) /\ LoopPairs(V)' = LoopPairs(V)
  BY DerivedFixed
<1>6. ASSUME NEW V
      PROVE  World(V)' = World(V)
  BY <1>1, <1>2, <1>4 DEF World
<1>7. ASSUME NEW V
      PROVE  Sortable(V)' <=> Sortable(V)
  BY <1>1, <1>5 DEF Sortable
<1>8. ASSUME NEW V, NEW c
      PROVE  IsStart(V, c)' <=> IsStart(V, c)
  BY <1>1, <1>5 DEF IsStart
<1>9. ASSUME NEW V, NEW c
      PROVE  RunReaches(V, c)' <=> RunReaches(V, c)
  BY <1>6, <1>8 DEF RunReaches
<1>10. ASSUME NEW V, NEW R
       PROVE  Settles(V, R)' <=> Settles(V, R)
  BY <1>9 DEF Settles
<1>11. ASSUME NEW V, NEW s
       PROVE  GoodFor(V, s)' <=> GoodFor(V, s)
  BY <1>7, <1>10 DEF GoodFor
<1> QED
  BY <1>1, <1>3, <1>4, <1>6, <1>7, <1>8, <1>9, <1>10, <1>11

\* The input's checks depend on nothing that changes.
LEMMA InputFineStays ==
    ASSUME InputFine, PartInHand, Next
    PROVE  InputFine'
<1>1. Rejected' = Rejected /\ EarlyMisplaced' = EarlyMisplaced
      /\ (GroupsFine' <=> GroupsFine)
  BY InputsFixed, DerivedFixed, WorldFixed
<1>2. CASE BuildGroups
  BY <1>1, <1>2 DEF BuildGroups, Fail, InputFine, PartInHand, SortingPhases,
                    CheckedPhases, GroupsFine
<1>3. CASE Validate
  BY <1>1, <1>3 DEF Validate, FailAtFirst, Fail, StartPart, InputFine, PartInHand,
                    SortingPhases, CheckedPhases
<1>4. CASE Resort
  BY <1>1, <1>4 DEF Resort, InputFine
<1>5. CASE ~BuildGroups /\ ~Validate /\ ~Resort
  <2>1. phase \in SortingPhases /\ previous' = previous
    BY <1>5
    DEF Next, add_specific_edges, add_early_loading_plugin_edges, FirstCheck,
        add_group_edges, GroupsFinished, add_overlap_edges, OverlapError,
        OverlapsFinished, add_tie_break_edges, SecondCheck, topological_sort,
        SortingPhases, CheckedPhases, sortVars
  <2>2. phase \notin {"build_groups", "end"}
    BY <2>1 DEF SortingPhases, CheckedPhases
  <2> QED
    BY <1>1, <2>1, <2>2 DEF InputFine
<1> QED
  BY <1>2, <1>3, <1>4, <1>5

\* add_edge has nothing to drop while the cache holds the edges and no more.
LEMMA HardEdgesOnlyStay ==
    ASSUME HardEdgesIn, HardEdgesOnly, Next
    PROVE  HardEdgesOnly'
<1>1. \A V : /\ SpecificPairs(V)' = SpecificPairs(V)
             /\ HardPairs(V)' = HardPairs(V)
  BY InputsFixed, DerivedFixed
<1>2. CASE add_specific_edges
  <2>1. CASE phase' = "early"
    <3>1. /\ graph' = AddEdges(EmptyGraph, SpecificPairs(nodes))
          /\ nodes' = nodes
      BY <1>2, <2>1 DEF add_specific_edges, Fail, HardEdgesIn
    <3>2. /\ graph'.edges = SpecificPairs(nodes)
          /\ graph'.cache = SpecificPairs(nodes)
      BY <3>1 DEF AddEdges, EmptyGraph
    <3> QED
      BY <1>1, <2>1, <3>1, <3>2 DEF HardEdgesOnly
  <2>2. CASE phase' = "end"
    BY <2>2 DEF HardEdgesOnly
  <2> QED
    BY <1>2, <2>1, <2>2 DEF add_specific_edges, Fail
<1>3. CASE add_early_loading_plugin_edges
  <2>1. /\ graph.edges = SpecificPairs(nodes) /\ graph.cache = SpecificPairs(nodes)
        /\ graph'.edges = graph.edges \cup (EarlyPairs(nodes) \ graph.cache)
        /\ nodes' = nodes /\ phase' = "first_check"
    BY <1>3 DEF add_early_loading_plugin_edges, HardEdgesOnly, AddEdges
  <2>2. graph'.edges = HardPairs(nodes)
    BY <2>1 DEF HardPairs
  <2> QED
    BY <1>1, <2>1, <2>2 DEF HardEdgesOnly
<1>4. CASE ~add_specific_edges /\ ~add_early_loading_plugin_edges
  <2>1. phase' # "early" /\ phase' # "first_check"
    BY <1>4
    DEF Next, BuildGroups, Validate, FailAtFirst, Fail, StartPart, FirstCheck,
        add_group_edges, GroupsFinished, add_overlap_edges, OverlapError,
        OverlapsFinished, add_tie_break_edges, SecondCheck, topological_sort,
        Resort, sortVars
  <2> QED
    BY <2>1 DEF HardEdgesOnly
<1> QED
  BY <1>2, <1>3, <1>4

\* FirstCheck lets sortable parts pass only.
LEMMA CheckPassedStays ==
    ASSUME IInv, HardEdgesOnly, CheckPassed, Next
    PROVE  CheckPassed'
<1>1. data' = data /\ \A V : Sortable(V)' <=> Sortable(V)
  BY InputsFixed, WorldFixed
<1>2. CASE add_specific_edges \/ add_early_loading_plugin_edges
  BY <1>1, <1>2 DEF add_specific_edges, add_early_loading_plugin_edges, Fail,
                    CheckPassed, CheckedPhases
<1>3. CASE FirstCheck
  <2>1. CASE phase' = "groups"
    <3>1. /\ Sortable(nodes) /\ nodes' = nodes
      BY <1>3, <2>1
      DEF FirstCheck, Fail, HardEdgesOnly, CheckPassed, Sortable, AcyclicFor
    <3> QED
      BY <1>1, <2>1, <3>1 DEF CheckPassed
  <2>2. CASE phase' = "end"
    BY <2>2 DEF CheckPassed, CheckedPhases
  <2> QED
    BY <1>3, <2>1, <2>2 DEF FirstCheck, Fail
<1>4. CASE phase \in CheckedPhases /\ phase' \in CheckedPhases
  <2>1. nodes' = nodes
    BY <1>4, EdgesGrow
  <2> QED
    BY <1>1, <1>4, <2>1 DEF CheckPassed, CheckedPhases
<1>5. CASE \/ BuildGroups \/ Validate \/ topological_sort \/ Resort
  BY <1>5 DEF BuildGroups, Validate, FailAtFirst, Fail, StartPart,
              topological_sort, Resort, CheckPassed, CheckedPhases
<1>6. CASE phase' = "end"
  BY <1>6 DEF CheckPassed, CheckedPhases
<1>7. CASE \/ add_group_edges \/ add_overlap_edges \/ add_tie_break_edges
           \/ GroupsFinished \/ OverlapError \/ OverlapsFinished \/ SecondCheck
  BY <1>4, <1>6, <1>7
  DEF add_group_edges, add_overlap_edges, add_tie_break_edges, GroupsFinished,
      OverlapError, OverlapsFinished, SecondCheck, Fail, CheckedPhases, sortVars
<1> QED
  BY <1>2, <1>3, <1>5, <1>7 DEF Next

\* Everything on a run is a configuration.
LEMMA RunType ==
    ASSUME NEW V, NEW c, RunReaches(V, c)
    PROVE  c \in Configs
<1>1. PICK b \in Configs : Reach(Configs, Turns(World(V)), b, c)
  BY DEF RunReaches
<1>2. Closed(Configs, Turns(World(V)))
  BY DEF Closed, Turns
<1> QED
  BY <1>1, <1>2 DEF Reach

\* So is the start.
LEMMA StartType ==
    ASSUME TypeOK, NEW V \in SUBSET Plugins, NEW c, IsStart(V, c)
    PROVE  c \in Configs /\ RunReaches(V, c)
<1>1. PICK s \in sorted_group_nodes(GroupsGraphOfInput) :
        c = [paths |-> PathsOf(HardPairs(V)), starts |-> Append(s, DefaultGroup),
             ignored |-> NoGroup, stack |-> <<>>, colour |-> White,
             edge_stack |-> <<>>, candidates |-> {}, finished |-> {},
             unfinishable |-> {}, pairs |-> LoopPairs(V)]
  BY DEF IsStart
<1>2. GroupsGraphOfInput.nodes \in Seq(GroupNames)
  BY BuiltGroupsGraphType DEF TypeOK, IsMetadata, GroupsGraphOfInput
<1>3. PICK n \in Nat : n = Len(GroupsGraphOfInput.nodes)
  BY <1>2, LenProperties
<1>4. s \in [1..n -> ToSet(GroupsGraphOfInput.nodes)]
  BY <1>2, <1>3, GroupOrderSorts
<1>5. ToSet(GroupsGraphOfInput.nodes) \subseteq GroupNames
  BY <1>2, LenProperties, ElementOfSeq DEF ToSet
<1>6. s \in Seq(GroupNames)
  <2>1. s \in [1..n -> GroupNames]
    BY <1>4, <1>5
  <2> QED
    BY <2>1, FunctionIsSeq
<1>7. Append(s, DefaultGroup) \in Seq(GroupNames)
  BY <1>6, DefaultGroupAssumption, AppendProperties
<1>8. PathsOf(HardPairs(V)) \subseteq Pairs /\ LoopPairs(V) \subseteq Pairs
  BY DEF PathsOf, LoopPairs, Pairs
<1>9. White \in [GroupNames -> {"white", "grey", "black"}]
  BY DEF White
<1>10. c \in Configs
  BY <1>1, <1>7, <1>8, <1>9 DEF Configs
<1> QED
  BY <1>10, ReachReflexive DEF RunReaches

\* GroupConfigType, to be used of the state after a step.
ConfigsTyped ==
    (Setting /\ GroupInv /\ unfinishable \subseteq GroupNames) =>
        \A P \in SUBSET Pairs : Config(P) \in Configs

LEMMA ConfigsAreTyped == ConfigsTyped
BY GroupConfigType DEF ConfigsTyped

\* The run starts with FirstCheck, and every step of the searches and of the
\* loops is a turn of it.
LEMMA OnItsRunStays ==
    ASSUME IInv, GroupsInv, HardEdgesOnly, OnItsRun, Next
    PROVE  OnItsRun'
<1>1. /\ data' = data /\ input' = input
      /\ GroupsGraphOfInput' = GroupsGraphOfInput
      /\ \A V, c : RunReaches(V, c)' <=> RunReaches(V, c)
      /\ \A V : LoopPairs(V)' = LoopPairs(V)
  BY InputsFixed, WorldFixed, DerivedFixed
<1>2. TypeOK
  BY DEF IInv
<1>3. CASE FirstCheck
  <2>1. CASE phase' = "groups"
    <3>1. /\ GroupsAtStart(GroupsGraphOfInput) /\ graph' = graph /\ nodes' = nodes
          /\ graph.edges = HardPairs(nodes)
      BY <1>3, <2>1 DEF FirstCheck, Fail, HardEdgesOnly
    <3>2. PICK c : c = RunAt'
      OBVIOUS
    <3>3. c = [paths |-> PathsOf(graph'.edges), starts |-> starts',
               ignored |-> ignored', stack |-> stack', colour |-> colour',
               edge_stack |-> edge_stack', candidates |-> candidates',
               finished |-> finished', unfinishable |-> unfinishable',
               pairs |-> LoopPairs(nodes)]
      BY <1>1, <2>1, <3>1, <3>2 DEF RunAt, Config, PathsOf
    <3>4. IsStart(nodes, c)
      BY <3>1, <3>3 DEF GroupsAtStart, IsStart
    <3>5. RunReaches(nodes, c)
      BY <1>2, <3>4, StartType DEF TypeOK
    <3>6. RunReaches(nodes, RunAt)'
      BY <1>1, <3>1, <3>2, <3>5
    <3> QED
      BY <1>1, <2>1, <3>1, <3>6 DEF OnItsRun, GroupsAtStart
  <2>2. CASE phase' = "end"
    BY <2>2 DEF OnItsRun
  <2> QED
    BY <1>3, <2>1, <2>2 DEF FirstCheck, Fail
<1>4. CASE add_group_edges
  <2>1. phase = "groups" /\ phase' = "groups" /\ GroupStep /\ Fixed /\ nodes' = nodes
    BY <1>4 DEF add_group_edges, sortVars, Fixed
  <2>2. Setting /\ GroupInv
    BY <2>1, CheckedGraph, PluginsHaveGroups
    DEF Setting, CheckedPhases, IInv, GroupsInv
  <2>3. GroupInv' /\ GraphOver(graph', nodes)
    BY <2>1, <2>2, GroupStepInv, GroupEdgesKeep
  <2>4. Setting'
    BY <1>1, <2>1, <2>2, <2>3 DEF Setting, group
  <2>5. unfinishable \subseteq GroupNames /\ unfinishable' \subseteq GroupNames
    BY <2>1, <2>2, UnfinishableStay DEF OnItsRun
  <2>6. PICK P \in SUBSET Pairs : P = LoopPairs(nodes)
    BY <1>2 DEF LoopPairs, Pairs, TypeOK
  <2>7. PICK c : c = Config(P)
    OBVIOUS
  <2>8. PICK d : d = Config(P)'
    OBVIOUS
  <2>9. ConfigsTyped'
    BY ConfigsAreTyped, PTL
  <2>10. d \in Configs
    BY <2>3, <2>4, <2>5, <2>8, <2>9 DEF ConfigsTyped
  <2>11. PICK w : w = World(nodes)
    OBVIOUS
  <2>12. GroupsOf(w)
    BY <2>1, <2>11 DEF GroupsOf, World, OnItsRun, find_plugins_in_group
  <2>13. Turn(w, c, d)
    BY <2>1, <2>2, <2>7, <2>8, <2>12, GroupStepTurns
  <2>14. RunReaches(nodes, c) /\ c \in Configs
    BY <2>1, <2>6, <2>7, RunType DEF OnItsRun, RunAt
  <2>15. RunReaches(nodes, d)
    BY <2>10, <2>11, <2>13, <2>14, RunGoesOn
  <2>16. d = RunAt'
    BY <1>1, <2>1, <2>6, <2>8 DEF RunAt, Config, PathsOf
  <2>17. RunReaches(nodes, RunAt)'
    BY <1>1, <2>1, <2>15, <2>16
  <2>18. groups_graph' = groups_graph
    BY <2>1 DEF GroupStep, StartSearch, TreeEdge, CrossEdge, FinishGroup, TryGroupEdge
  <2> QED
    BY <1>1, <2>1, <2>5, <2>17, <2>18 DEF OnItsRun
<1>5. CASE GroupsFinished
  <2>1. /\ phase = "groups" /\ phase' = "overlap" /\ GroupsDone
        /\ overlap_pairs' = LoopPairs(nodes)
        /\ UNCHANGED <<graph, nodes, groupVars>>
    BY <1>5 DEF GroupsFinished
  <2>2. RunAt' = RunAt
    BY <2>1 DEF RunAt, Config, PathsOf, groupVars
  <2>3. RunReaches(nodes, RunAt)'
    BY <1>1, <2>1, <2>2 DEF OnItsRun
  <2> QED
    BY <2>1, <2>3 DEF OnItsRun, GroupsDone, groupVars
<1>6. CASE add_overlap_edges
  <2>1. /\ phase = "overlap" /\ phase' = "overlap" /\ OverlapStep
        /\ UNCHANGED <<nodes, data, groupVars>>
        /\ stack = <<>> /\ starts = <<>> /\ candidates = {}
    BY <1>6 DEF add_overlap_edges, OnItsRun, sortVars
  <2>2. PICK c : c = Config(overlap_pairs)
    OBVIOUS
  <2>3. PICK d : d = Config(overlap_pairs)'
    OBVIOUS
  <2>4. data \in PluginDataType /\ SoundGraph(graph) /\ overlap_pairs \subseteq Pairs
    BY <1>2 DEF TypeOK, IInv, CacheSound, SoundGraph
  <2>5. Turn(World(nodes), c, d)
    BY <2>1, <2>2, <2>3, <2>4, OverlapStepTurns
  <2>6. RunReaches(nodes, c) /\ c \in Configs
    BY <2>1, <2>2, RunType DEF OnItsRun, RunAt
  <2>7. d \in Configs
    <3>1. overlap_pairs' \subseteq Pairs
      BY <2>1, <2>4 DEF OverlapStep, SkipPair, RecordOverlap, AssetOverlap, VisitPair
    <3>2. d = [paths |-> PathsOf(graph'.edges), starts |-> c.starts,
               ignored |-> c.ignored, stack |-> c.stack, colour |-> c.colour,
               edge_stack |-> c.edge_stack, candidates |-> c.candidates,
               finished |-> c.finished, unfinishable |-> c.unfinishable,
               pairs |-> overlap_pairs']
      BY <2>1, <2>2, <2>3 DEF Config, PathsOf, groupVars
    <3>3. PathsOf(graph'.edges) \subseteq Pairs
      BY DEF PathsOf
    <3> QED
      BY <2>6, <3>1, <3>2, <3>3 DEF Configs
  <2>8. RunReaches(nodes, d)
    BY <2>5, <2>6, <2>7, RunGoesOn
  <2>9. d = RunAt'
    BY <2>1, <2>3 DEF RunAt
  <2>10. RunReaches(nodes, RunAt)'
    BY <1>1, <2>1, <2>8, <2>9
  <2> QED
    BY <2>1, <2>10 DEF OnItsRun, groupVars
<1>7. CASE ~FirstCheck /\ ~add_group_edges /\ ~GroupsFinished /\ ~add_overlap_edges
  <2>1. phase' # "groups" /\ phase' # "overlap"
    BY <1>7
    DEF Next, BuildGroups, Validate, FailAtFirst, add_specific_edges, Resort, Fail,
        StartPart, add_early_loading_plugin_edges, topological_sort,
        OverlapError, OverlapsFinished, add_tie_break_edges, SecondCheck, sortVars
  <2> QED
    BY <2>1 DEF OnItsRun
<1> QED
  BY <1>3, <1>4, <1>5, <1>6, <1>7

\* More edges, more paths.
LEMMA MorePaths ==
    ASSUME NEW E, NEW F, E \subseteq F
    PROVE  PathsOf(E) \subseteq PathsOf(F)
BY ReachMonotonic DEF PathsOf

\* What is in the graph when the loops end is what every such run comes to.
LEMMA RunOverSettles ==
    ASSUME OnItsRun, phase = "overlap", overlap_pairs = {}
    PROVE  Settles(nodes, PathsOf(graph.edges))
<1>1. PICK c : c = RunAt
  OBVIOUS
<1>2. c.paths = PathsOf(graph.edges) /\ AllOver(c)
  BY <1>1 DEF OnItsRun, RunAt, Config, AllOver, SearchesOver
<1>3. RunReaches(nodes, c) /\ c \in Configs
  BY <1>1, RunType DEF OnItsRun
<1> QED
  BY <1>2, <1>3 DEF Settles

\* Tie-breaking only adds to it.
LEMMA PathsSettledStay ==
    ASSUME IInv, OnItsRun, PathsSettled, Next
    PROVE  PathsSettled'
<1>1. \A V, R : Settles(V, R)' <=> Settles(V, R)
  BY InputsFixed, WorldFixed
<1>2. CASE OverlapsFinished
  <2>1. /\ phase = "overlap" /\ overlap_pairs = {}
        /\ graph' = graph /\ nodes' = nodes
    BY <1>2 DEF OverlapsFinished
  <2>2. Settles(nodes, PathsOf(graph.edges))
    BY <2>1, RunOverSettles
  <2> QED
    BY <1>1, <2>1, <2>2 DEF PathsSettled
<1>3. CASE /\ phase \in {"ties", "topological_sort"}
           /\ phase' \in {"ties", "topological_sort"}
  <2>1. graph.edges \subseteq graph'.edges /\ nodes' = nodes
    BY <1>3, EdgesGrow DEF CheckedPhases
  <2>2. PICK R : Settles(nodes, R) /\ R \subseteq PathsOf(graph.edges)
    BY <1>3 DEF PathsSettled
  <2>3. R \subseteq PathsOf(graph'.edges)
    BY <2>1, <2>2, MorePaths
  <2> QED
    BY <1>1, <2>1, <2>2, <2>3 DEF PathsSettled
<1>4. CASE phase \notin {"ties", "topological_sort"} /\ ~OverlapsFinished
  <2>1. phase' \notin {"ties", "topological_sort"}
    BY <1>4
    DEF Next, BuildGroups, Validate, FailAtFirst, add_specific_edges, Resort, Fail,
        StartPart, add_early_loading_plugin_edges, topological_sort, FirstCheck,
        OverlapError, add_tie_break_edges, SecondCheck, sortVars,
        add_group_edges, GroupsFinished, add_overlap_edges
  <2> QED
    BY <2>1 DEF PathsSettled
<1>5. CASE phase' \notin {"ties", "topological_sort"}
  BY <1>5 DEF PathsSettled
<1> QED
  BY <1>2, <1>3, <1>4, <1>5

\* The part whose order comes out is in an order that is good for it.
LEMMA SortedIsGood ==
    ASSUME IInv, CheckPassed, PathsSettled, phase = "topological_sort",
           NEW s \in TopologicalOrders(nodes, graph.edges, Cardinality(nodes))
    PROVE  GoodFor(nodes, s)
<1>1. PICK R : Settles(nodes, R) /\ R \subseteq PathsOf(graph.edges)
  BY DEF PathsSettled
<1>2. /\ nodes \in SUBSET Plugins /\ IsFiniteSet(nodes)
      /\ graph.edges \subseteq nodes \X nodes
  BY PluginsAssumption, FS_Subset DEF IInv, TypeOK
<1>3. PICK n \in Nat : n = Cardinality(nodes)
  BY <1>2, FS_CardinalityType
<1>4. /\ s \in [1..n -> nodes]
      /\ \A i, j \in 1..n : i # j => s[i] # s[j]
      /\ \A i, j \in 1..n : <<s[i], s[j]>> \in graph.edges => i < j
  BY <1>3 DEF TopologicalOrders
<1>5. \A v \in nodes : \E i \in 1..n : v = s[i]
  BY <1>2, <1>3, <1>4, EnumerationCovers
<1>6. PICK E : E = graph.edges
  OBVIOUS
<1>7. \A a, b \in 1..n : Reach(Plugins, E, s[a], s[b]) => a <= b
  BY <1>2, <1>4, <1>5, <1>6, PathGoesForward
<1>8. ASSUME NEW i \in 1..n, NEW j \in 1..n, <<s[i], s[j]>> \in R, s[i] # s[j]
      PROVE  i < j
  <2>1. Reach(Plugins, E, s[i], s[j])
    BY <1>1, <1>6, <1>8 DEF PathsOf
  <2>2. i <= j /\ i # j
    BY <1>7, <1>8, <2>1
  <2> QED
    BY <2>2
<1>9. s \in TopologicalOrders(nodes, {e \in R : e[1] # e[2]}, n)
  BY <1>4, <1>8 DEF TopologicalOrders
<1> QED
  BY <1>1, <1>3, <1>9 DEF GoodFor, CheckPassed, CheckedPhases

\* topological_sort adds a part in an order that is good for it.
LEMMA PartsGoodStay ==
    ASSUME IInv, PartInHand, CheckPassed, PathsSettled, PartsGood, Next
    PROVE  PartsGood'
<1>1. /\ PartOf(Plugins)' = PartOf(Plugins)
      /\ \A V, s : GoodFor(V, s)' <=> GoodFor(V, s)
  BY InputsFixed, DerivedFixed, WorldFixed
<1>2. CASE topological_sort
  <2>1. phase = "topological_sort" /\ nodes = PartOf(Plugins)[part]
        /\ part \in Parts /\ sorted \in [Parts -> Seq(Plugins)]
    BY <1>2 DEF topological_sort, PartInHand, SortingPhases, CheckedPhases, IInv, TypeOK
  <2>2. PICK s \in TopologicalOrders(nodes, graph.edges, Cardinality(nodes)) :
            sorted' = [sorted EXCEPT ![part] = s]
    BY <1>2 DEF topological_sort
  <2>3. GoodFor(nodes, s)
    BY <2>1, SortedIsGood
  <2>4. \A q \in Parts : PartDone(q)' => q = part \/ PartDone(q)
    BY <1>2, <2>1 DEF topological_sort, StartPart, PartAfter, PartDone, Parts,
                      PartInHand
  <2> QED
    BY <1>1, <2>1, <2>2, <2>3, <2>4 DEF PartsGood
<1>3. CASE Resort \/ Validate
  <2>1. \A q \in Parts : ~PartDone(q)'
    BY <1>3 DEF Resort, Validate, FailAtFirst, Fail, StartPart, PartDone, PartInHand
  <2> QED
    BY <2>1 DEF PartsGood
<1>4. CASE ~topological_sort /\ ~Resort /\ ~Validate
  <2>1. part' = part /\ sorted' = sorted /\ outcome' # "ok"
    BY <1>4
    DEF Next, BuildGroups, add_specific_edges, add_early_loading_plugin_edges,
        FirstCheck, add_group_edges, GroupsFinished, add_overlap_edges,
        OverlapError, OverlapsFinished, add_tie_break_edges, SecondCheck,
        Fail, PartInHand, sortVars
  <2>2. \A q \in Parts : PartDone(q)' => PartDone(q)
    BY <2>1 DEF PartDone
  <2> QED
    BY <1>1, <2>1, <2>2 DEF PartsGood
<1> QED
  BY <1>2, <1>3, <1>4

\* The result lists no plugin twice.
LEMMA ResultListsOnce ==
    ASSUME IInv, OrderInv, outcome = "ok"
    PROVE  \A i, j \in 1..Len(Result) : i # j => Result[i] # Result[j]
<1> DEFINE m == sorted.masters
           o == sorted.others
           b == sorted.blueprints
           parts == PartOf(Plugins)
<1>1. SortedPart("masters") /\ SortedPart("others") /\ SortedPart("blueprints")
  BY EveryPartSorted DEF Parts
<1>2. /\ m \in Seq(Plugins) /\ o \in Seq(Plugins) /\ b \in Seq(Plugins)
      /\ m \o o \in Seq(Plugins)
  BY <1>1, ConcatProperties DEF SortedPart
<1>3. /\ \A i \in 1..Len(m) : m[i] \in parts.masters
      /\ \A i \in 1..Len(o) : o[i] \in parts.others
      /\ \A i \in 1..Len(b) : b[i] \in parts.blueprints
      /\ \A i, j \in 1..Len(m) : i # j => m[i] # m[j]
      /\ \A i, j \in 1..Len(o) : i # j => o[i] # o[j]
      /\ \A i, j \in 1..Len(b) : i # j => b[i] # b[j]
  BY <1>1 DEF SortedPart
<1>4. Result = (m \o o) \o b
  BY DEF Result
<1> HIDE DEF m, o, b
<1>5. /\ Len(m) \in Nat /\ Len(o) \in Nat /\ Len(b) \in Nat
      /\ Len(m \o o) = Len(m) + Len(o)
      /\ \A i \in 1..(Len(m) + Len(o)) :
            (m \o o)[i] = IF i <= Len(m) THEN m[i] ELSE o[i - Len(m)]
  BY <1>2, LenProperties, ConcatProperties
<1>6. /\ Len(Result) = Len(m) + Len(o) + Len(b)
      /\ \A i \in 1..(Len(m) + Len(o) + Len(b)) :
            Result[i] = IF i <= Len(m) + Len(o) THEN (m \o o)[i]
                        ELSE b[i - (Len(m) + Len(o))]
  <2>1. /\ Len((m \o o) \o b) = Len(m \o o) + Len(b)
        /\ \A i \in 1..(Len(m \o o) + Len(b)) :
              ((m \o o) \o b)[i] = IF i <= Len(m \o o) THEN (m \o o)[i]
                                   ELSE b[i - Len(m \o o)]
    BY <1>2, ConcatProperties
  <2> QED
    BY <1>4, <1>5, <2>1
<1>7. ASSUME NEW i \in 1..Len(Result), NEW j \in 1..Len(Result), i < j
      PROVE  Result[i] # Result[j]
  <2>1. CASE j <= Len(m)
    <3>1. i \in 1..Len(m) /\ j \in 1..Len(m) /\ Result[i] = m[i] /\ Result[j] = m[j]
      BY <1>5, <1>6, <1>7, <2>1
    <3> QED
      BY <1>3, <1>7, <3>1
  <2>2. CASE i <= Len(m) /\ Len(m) < j /\ j <= Len(m) + Len(o)
    <3>1. /\ i \in 1..Len(m) /\ j - Len(m) \in 1..Len(o)
          /\ Result[i] = m[i] /\ Result[j] = o[j - Len(m)]
      BY <1>5, <1>6, <1>7, <2>2
    <3> QED
      BY <1>1, <1>3, <3>1, PartsAreKinds DEF SortedPart
  <2>3. CASE i <= Len(m) /\ Len(m) + Len(o) < j
    <3>1. /\ i \in 1..Len(m) /\ j - (Len(m) + Len(o)) \in 1..Len(b)
          /\ Result[i] = m[i] /\ Result[j] = b[j - (Len(m) + Len(o))]
      BY <1>5, <1>6, <1>7, <2>3
    <3> QED
      BY <1>1, <1>3, <3>1, PartsAreKinds DEF SortedPart
  <2>4. CASE Len(m) < i /\ j <= Len(m) + Len(o)
    <3>1. /\ i - Len(m) \in 1..Len(o) /\ j - Len(m) \in 1..Len(o)
          /\ Result[i] = o[i - Len(m)] /\ Result[j] = o[j - Len(m)]
          /\ i - Len(m) # j - Len(m)
      BY <1>5, <1>6, <1>7, <2>4
    <3> QED
      BY <1>3, <3>1
  <2>5. CASE Len(m) < i /\ i <= Len(m) + Len(o) /\ Len(m) + Len(o) < j
    <3>1. /\ i - Len(m) \in 1..Len(o) /\ j - (Len(m) + Len(o)) \in 1..Len(b)
          /\ Result[i] = o[i - Len(m)] /\ Result[j] = b[j - (Len(m) + Len(o))]
      BY <1>5, <1>6, <1>7, <2>5
    <3> QED
      BY <1>1, <1>3, <3>1, PartsAreKinds DEF SortedPart
  <2>6. CASE Len(m) + Len(o) < i
    <3>1. /\ i - (Len(m) + Len(o)) \in 1..Len(b) /\ j - (Len(m) + Len(o)) \in 1..Len(b)
          /\ Result[i] = b[i - (Len(m) + Len(o))]
          /\ Result[j] = b[j - (Len(m) + Len(o))]
          /\ i - (Len(m) + Len(o)) # j - (Len(m) + Len(o))
      BY <1>5, <1>6, <1>7, <2>6
    <3> QED
      BY <1>3, <3>1
  <2> QED
    BY <1>5, <1>6, <1>7, <2>1, <2>2, <2>3, <2>4, <2>5, <2>6
<1>8. \A i, j \in 1..Len(Result) : i # j => i < j \/ j < i
  BY <1>5, <1>6
<1> QED
  BY <1>7, <1>8

\* The load order is the caller's or a result.
LEMMA OrderListsOnceStays ==
    ASSUME IInv, OrderInv, OrderListsOnce, Next
    PROVE  OrderListsOnce'
<1>1. CASE Resort
  BY <1>1, ResultListsOnce DEF Resort, OrderListsOnce
<1>2. CASE ~Resort
  <2>1. order' = order
    BY <1>2
    DEF Next, BuildGroups, Validate, add_specific_edges,
        add_early_loading_plugin_edges, FirstCheck, add_group_edges,
        GroupsFinished, add_overlap_edges, OverlapError, OverlapsFinished,
        add_tie_break_edges, SecondCheck, topological_sort, sortVars
  <2> QED
    BY <2>1 DEF OrderListsOnce
<1> QED
  BY <1>1, <1>2

-----------------------------------------------------------------------------
\* In a load order made of the parts' orders the parts' orders are found again.
LEMMA FoundAgain ==
    ASSUME TypeOK, OrderListsOnce, NEW old \in [Parts -> Seq(Plugins)],
           order = old.masters \o old.others \o old.blueprints,
           NEW q \in Parts, NEW V \in SUBSET Plugins, GoodFor(V, old[q]),
           NEW s \in SortedByIndex(V)
    PROVE  s = old[q]
<1>1. IsFiniteSet(V) /\ Cardinality(V) \in Nat
  BY PluginsAssumption, FS_Subset, FS_CardinalityType
<1>2. PICK n \in Nat : n = Cardinality(V)
  BY <1>1
<1>3. PICK t : t = old[q]
  OBVIOUS
<1>4. /\ t \in [1..n -> V] /\ \A i, j \in 1..n : i # j => t[i] # t[j]
      /\ t \in Seq(V) /\ Len(t) = n
  <2>1. t \in [1..n -> V] /\ \A i, j \in 1..n : i # j => t[i] # t[j]
    BY <1>2, <1>3 DEF GoodFor, TopologicalOrders
  <2> QED
    BY <2>1, FunctionIsSeq
<1>5. /\ s \in [1..n -> V] /\ \A i, j \in 1..n : i # j => s[i] # s[j]
      /\ \A i, j \in 1..n : i < j => Before(order, s[i], s[j])
  BY <1>2 DEF SortedByIndex, SetToSeqs
<1>6. PICK Q : Q = {e \in V \X V : Before(order, e[1], e[2])}
  OBVIOUS
<1>7. \A x, y \in V : ~(<<x, y>> \in Q /\ <<y, x>> \in Q)
  <2> SUFFICES ASSUME NEW x \in V, NEW y \in V,
                      Before(order, x, y), Before(order, y, x)
               PROVE  FALSE
    BY <1>6
  <2>1. Len(order) \in Nat
    BY LenProperties DEF TypeOK
  <2>2. PICK i \in 1..Len(order), j \in 1..Len(order) :
            i < j /\ order[i] = x /\ order[j] = y
    BY DEF Before
  <2>3. PICK k \in 1..Len(order), l \in 1..Len(order) :
            k < l /\ order[k] = y /\ order[l] = x
    BY DEF Before
  <2>4. i = l /\ j = k
    BY <2>2, <2>3 DEF OrderListsOnce
  <2> QED
    BY <2>1, <2>2, <2>3, <2>4
<1>8. \A x, y : Before(t, x, y) => Before(order, x, y)
  <2>1. /\ old.masters \in Seq(Plugins) /\ old.others \in Seq(Plugins)
        /\ old.blueprints \in Seq(Plugins)
        /\ old.masters \o old.others \in Seq(Plugins)
    BY ConcatProperties DEF Parts
  <2>2. \A x, y :
            Before(old.masters, x, y) \/ Before(old.others, x, y) =>
                Before(old.masters \o old.others, x, y)
    BY <2>1, BeforeInConcat
  <2>3. PICK m \in Seq(Plugins), b \in Seq(Plugins) :
            m = old.masters \o old.others /\ b = old.blueprints
    BY <2>1
  <2>4. \A x, y : Before(m, x, y) \/ Before(b, x, y) => Before(order, x, y)
    <3>1. order = m \o b
      BY <2>3
    <3> QED
      BY <3>1, BeforeInConcat
  <2>5. t = old.masters \/ t = old.others \/ t = old.blueprints
    BY <1>3 DEF Parts
  <2>6. CASE t = old.masters
    BY <2>2, <2>3, <2>4, <2>6
  <2>7. CASE t = old.others
    BY <2>2, <2>3, <2>4, <2>7
  <2>8. CASE t = old.blueprints
    BY <2>3, <2>4, <2>8
  <2> QED
    BY <2>5, <2>6, <2>7, <2>8
<1>9. Follows(n, V, Q, s)
  <2>1. \A v \in V : \E i \in 1..n : v = s[i]
    <3>1. Enumerates(n, V, s)
      BY <1>5 DEF Enumerates
    <3> QED
      BY <1>1, <1>2, <3>1, EnumerationsCover
  <2>2. \A i \in 1..n : s[i] \in V
    BY <1>5
  <2> QED
    BY <1>5, <1>6, <2>1, <2>2 DEF Follows
<1>10. Follows(n, V, Q, t)
  <2>1. \A v \in V : \E i \in 1..n : v = t[i]
    <3>1. Enumerates(n, V, t)
      BY <1>4 DEF Enumerates
    <3> QED
      BY <1>1, <1>2, <3>1, EnumerationsCover
  <2>2. \A i \in 1..n : t[i] \in V
    BY <1>4
  <2>3. \A i, j \in 1..n : i < j => Before(t, t[i], t[j])
    BY <1>4 DEF Before
  <2> QED
    BY <1>4, <1>6, <1>8, <2>1, <2>2, <2>3 DEF Follows
<1>11. s = t
  BY <1>7, <1>9, <1>10, SameOrder
<1> QED
  BY <1>3, <1>11

\* It satisfies the edges of the graph if it satisfies the paths they come from.
LEMMA OldOrderIsGood ==
    ASSUME IInv, phase \in CheckedPhases, Settles(nodes, PathsOf(graph.edges)),
           NEW t, GoodFor(nodes, t), NEW i \in 1..Len(t), NEW j \in 1..Len(t),
           <<t[i], t[j]>> \in graph.edges
    PROVE  i < j
<1>1. PICK R : /\ Settles(nodes, R)
               /\ t \in TopologicalOrders(nodes, {e \in R : e[1] # e[2]},
                                           Cardinality(nodes))
  BY DEF GoodFor
<1>2. R = PathsOf(graph.edges)
  BY <1>1, SettlesOnce DEF IInv
<1>3. PICK n \in Nat : n = Cardinality(nodes)
  BY PluginsAssumption, FS_Subset, FS_CardinalityType DEF IInv, TypeOK
<1>4. /\ t \in [1..n -> nodes] /\ Len(t) = n
      /\ \A k, l \in 1..n : <<t[k], t[l]>> \in {e \in R : e[1] # e[2]} => k < l
  <2>1. /\ t \in [1..n -> nodes]
        /\ \A k, l \in 1..n : <<t[k], t[l]>> \in {e \in R : e[1] # e[2]} => k < l
    BY <1>1, <1>3 DEF TopologicalOrders
  <2> QED
    BY <2>1, FunctionIsSeq
<1>5. PICK a \in Plugins, b \in Plugins :
          a = t[i] /\ b = t[j] /\ <<a, b>> \in graph.edges
  BY <1>4 DEF IInv, TypeOK
<1>6. a # b
  <2> SUFFICES ASSUME a = b
               PROVE  FALSE
    OBVIOUS
  <2>1. {a} \in SUBSET Plugins /\ {a} # {}
        /\ \A x \in {a} : \E y \in {a} : <<x, y>> \in graph.edges
    BY <1>5
  <2>2. Acyclic(Plugins, graph.edges)
    BY CheckedGraph DEF GraphOver, AcyclicFor
  <2> QED
    BY <2>1, <2>2 DEF Acyclic
<1>7. <<a, b>> \in R
  <2>1. Reach(Plugins, graph.edges, a, b)
    BY <1>5, ReachEdge
  <2> QED
    BY <1>2, <2>1 DEF PathsOf, Pairs
<1> QED
  BY <1>4, <1>5, <1>6, <1>7

\* A sort that starts from the orders of the parts comes to them again.
LEMMA SortsTheSame ==
    ASSUME IInv, OrderInv, phase = "topological_sort", InOrder,
           NEW s \in TopologicalOrders(nodes, graph.edges, Cardinality(nodes))
    PROVE  s = load_order
<1>1. /\ TieInv(nodes) /\ tie_pc = "done" /\ nodes \in SUBSET Plugins
      /\ graph.edges \subseteq nodes \X nodes
  BY DEF OrderInv, TiesSoFar, IInv, TypeOK
<1>2. IsFiniteSet(nodes) /\ Cardinality(nodes) \in Nat
  BY <1>1, PluginsAssumption, FS_Subset, FS_CardinalityType
<1>3. /\ load_order \in Seq(nodes) /\ Len(load_order) \in Nat
      /\ \A i, j \in 1..Len(load_order) : i # j => load_order[i] # load_order[j]
      /\ \A v \in nodes : \E i \in 1..Len(load_order) : v = load_order[i]
  BY <1>1, LenProperties DEF TieInv, TieStateOver, OrderOf
<1>4. DOMAIN load_order = 1..Len(load_order)
  BY <1>3, LenProperties
<1>5. \A p, q \in nodes :
          \/ p = q
          \/ Reach(Plugins, graph.edges, p, q)
          \/ Reach(Plugins, graph.edges, q, p)
  <2>1. \A v \in nodes : v \in ToSet(load_order)
    BY <1>3, <1>4 DEF ToSet
  <2> QED
    BY <1>1, <2>1, TieInvBreaksTies DEF TiesBroken, HasPath
<1>6. load_order \in [1..Len(load_order) -> nodes]
  BY <1>3, <1>4, ElementOfSeq
<1>7. Len(load_order) = Cardinality(nodes)
  <2>1. load_order \in Bijection(1..Len(load_order), nodes)
    BY <1>3, <1>6 DEF Bijection, Injection, Surjection, IsInjective
  <2> QED
    BY <1>3, <2>1, FS_CountingElements DEF ExistsBijection
<1>8. load_order \in TopologicalOrders(nodes, graph.edges, Cardinality(nodes))
  BY <1>3, <1>6, <1>7 DEF TopologicalOrders, InOrder
<1>9. Acyclic(Plugins, graph.edges)
  BY CheckedGraph DEF CheckedPhases, GraphOver, AcyclicFor
<1> QED
  BY <1>1, <1>2, <1>5, <1>8, <1>9, OneTopologicalOrder

\* In the second sort a check that the first has passed does not fail.
LEMMA SecondOutcome ==
    ASSUME IInv, OrderInv, InputFine, HardEdgesOnly, SecondSort, Next,
           previous # <<>>, phase # "end"
    PROVE  \/ outcome' \in {"none", "ok"}
           \/ outcome' = "plugin_data" /\ \E p, q \in Plugins : RecordsFail(p, q)
<1>1. outcome = "none" /\ (phase \in SortingPhases => nodes = PartOf(Plugins)[part])
  BY DEF OrderInv, PartInHand
<1>2. phase \in SortingPhases => Sortable(nodes)
  <2>1. part \in Parts
    BY DEF IInv, TypeOK
  <2> QED
    BY <1>1, <2>1 DEF SecondSort, Replays, GoodFor
<1>3. CASE BuildGroups
  BY <1>1, <1>3 DEF BuildGroups, InputFine, GroupsFine
<1>4. CASE Validate
  <2>1. Rejected = {} /\ ~EarlyMisplaced
    BY DEF InputFine
  <2> QED
    BY <1>1, <1>4, <2>1 DEF Validate, FailAtFirst
<1>5. CASE add_specific_edges
  BY <1>1, <1>2, <1>5 DEF add_specific_edges, SortingPhases, Sortable
<1>6. CASE FirstCheck
  BY <1>1, <1>2, <1>6
  DEF FirstCheck, SortingPhases, Sortable, HardEdgesOnly, AcyclicFor
<1>7. CASE OverlapError
  <2>1. PICK e \in overlap_pairs : RecordsFail(e[1], e[2])
    BY <1>7 DEF OverlapError, OverlapFails
  <2>2. e[1] \in Plugins /\ e[2] \in Plugins
    BY DEF IInv, TypeOK, Pairs
  <2>3. outcome' = "plugin_data"
    BY <1>7 DEF OverlapError, Fail
  <2> QED
    BY <2>1, <2>2, <2>3
<1>8. CASE SecondCheck
  <2>1. AcyclicFor(graph)
    BY <1>8 DEF SecondCheck, IInv, StaysAcyclic, CheckedPhases
  <2> QED
    BY <1>1, <1>8, <2>1 DEF SecondCheck
<1>9. CASE topological_sort
  BY <1>1, <1>9 DEF topological_sort
<1>10. CASE ~ (\/ BuildGroups \/ Validate \/ add_specific_edges \/ FirstCheck
               \/ OverlapError \/ SecondCheck \/ topological_sort)
  BY <1>1, <1>10
  DEF Next, add_early_loading_plugin_edges, add_group_edges, GroupsFinished,
      add_overlap_edges, OverlapsFinished, add_tie_break_edges, Resort, sortVars
<1> QED
  BY <1>3, <1>4, <1>5, <1>6, <1>7, <1>8, <1>9, <1>10

\* And it goes on along the orders that the first has left.
LEMMA ReplaysOn ==
    ASSUME IInv, OrderInv, GroupsInv, OnItsRun, OrderListsOnce, Next, ~Resort,
           NEW old \in [Parts -> Seq(Plugins)], Replays(old)
    PROVE  Replays(old)'
<1>1. /\ PartOf(Plugins)' = PartOf(Plugins)
      /\ \A V, s : GoodFor(V, s)' <=> GoodFor(V, s)
  BY InputsFixed, DerivedFixed, WorldFixed
<1>2. order' = order
  BY DEF Next, BuildGroups, Validate, add_specific_edges,
      add_early_loading_plugin_edges, FirstCheck, add_group_edges,
      GroupsFinished, add_overlap_edges, OverlapError, OverlapsFinished,
      add_tie_break_edges, SecondCheck, topological_sort, sortVars
<1>3. /\ order' = old.masters \o old.others \o old.blueprints
      /\ \A q \in Parts : GoodFor(PartOf(Plugins)[q], old[q])'
  BY <1>1, <1>2 DEF Replays
<1>4. part \in Parts /\ nodes \in SUBSET Plugins
  BY DEF IInv, TypeOK
<1>5. CASE OverlapsFinished
  <2>1. /\ phase = "overlap" /\ overlap_pairs = {} /\ nodes = PartOf(Plugins)[part]
        /\ load_order' \in SortedByIndex(nodes) /\ graph' = graph
        /\ part' = part /\ sorted' = sorted /\ outcome' = outcome
    BY <1>5 DEF OverlapsFinished, OrderInv, PartInHand, SortingPhases, CheckedPhases
  <2>2. PICK t : t = old[part]
    OBVIOUS
  <2>3. GoodFor(nodes, t)
    BY <1>4, <2>1, <2>2 DEF Replays
  <2>4. load_order' = t
    BY <1>4, <2>1, <2>2, <2>3, FoundAgain DEF IInv, Replays
  <2>5. Settles(nodes, PathsOf(graph.edges))
    BY <2>1, RunOverSettles
  <2>6. \A i, j \in 1..Len(t) : <<t[i], t[j]>> \in graph.edges => i < j
    BY <2>1, <2>3, <2>5, OldOrderIsGood DEF CheckedPhases
  <2>7. InOrder'
    BY <2>1, <2>4, <2>6 DEF InOrder
  <2>8. \A q \in Parts : PartDone(q)' => sorted'[q] = old[q]
    BY <2>1 DEF PartDone, Replays
  <2> QED
    BY <1>3, <2>1, <2>2, <2>4, <2>7, <2>8 DEF Replays
<1>6. CASE add_tie_break_edges
  <2>1. /\ phase = "ties" /\ phase' = "ties" /\ TieStep /\ TieInv(nodes)
        /\ part' = part /\ sorted' = sorted /\ outcome' = outcome
    BY <1>6 DEF add_tie_break_edges, OrderInv, TiesSoFar, sortVars
  <2>2. load_order' = load_order
    BY <2>1 DEF TieStep, KeepOrder, StartWithPath, PinPath, SkipPinned, PinNode,
                EndWindow, TieDone
  <2>3. InOrder'
    BY <1>4, <2>1, GoodOrderStays DEF Replays
  <2>4. \A q \in Parts : PartDone(q)' => sorted'[q] = old[q]
    BY <2>1 DEF PartDone, Replays
  <2> QED
    BY <1>3, <2>1, <2>2, <2>3, <2>4 DEF Replays
<1>7. CASE SecondCheck
  <2>1. /\ phase = "ties" /\ outcome' # "ok"
        /\ UNCHANGED <<graph, load_order, part, sorted>>
    BY <1>7 DEF SecondCheck, Fail, tieVars, OrderInv, PartInHand
  <2>2. InOrder' /\ load_order' = old[part']
    BY <2>1 DEF Replays, InOrder
  <2>3. \A q \in Parts : PartDone(q)' => sorted'[q] = old[q]
    BY <2>1 DEF PartDone, Replays
  <2> QED
    BY <1>3, <2>2, <2>3 DEF Replays
<1>8. CASE topological_sort
  <2>1. /\ phase = "topological_sort" /\ phase' \notin {"ties", "topological_sort"}
        /\ sorted \in [Parts -> Seq(Plugins)]
    BY <1>8 DEF topological_sort, StartPart, IInv, TypeOK
  <2>2. PICK s \in TopologicalOrders(nodes, graph.edges, Cardinality(nodes)) :
            sorted' = [sorted EXCEPT ![part] = s]
    BY <1>8 DEF topological_sort
  <2>3. s = old[part]
    BY <2>1, SortsTheSame DEF Replays
  <2>4. \A q \in Parts : PartDone(q)' => q = part \/ PartDone(q)
    BY <1>4, <1>8, <2>1
    DEF topological_sort, StartPart, PartAfter, PartDone, Parts, OrderInv, PartInHand
  <2>5. \A q \in Parts : PartDone(q)' => sorted'[q] = old[q]
    BY <1>4, <2>1, <2>2, <2>3, <2>4 DEF Replays
  <2> QED
    BY <1>3, <2>1, <2>5 DEF Replays
<1>9. CASE /\ ~OverlapsFinished /\ ~add_tie_break_edges
           /\ ~SecondCheck /\ ~topological_sort
  <2>1. phase' \notin {"ties", "topological_sort"}
    BY <1>9
    DEF Next, BuildGroups, Validate, FailAtFirst, add_specific_edges, Fail,
        StartPart, add_early_loading_plugin_edges, FirstCheck, OverlapError,
        add_group_edges, GroupsFinished, add_overlap_edges, sortVars
  <2>2. sorted' = sorted /\ outcome' # "ok" /\ (part' = part \/ part' = "masters")
    BY <1>9
    DEF Next, BuildGroups, Validate, FailAtFirst, add_specific_edges, Fail,
        StartPart, add_early_loading_plugin_edges, FirstCheck, OverlapError,
        add_group_edges, GroupsFinished, add_overlap_edges, sortVars, OrderInv,
        PartInHand
  <2>3. \A q \in Parts : PartDone(q)' => sorted'[q] = old[q]
    BY <2>2 DEF PartDone, Replays
  <2> QED
    BY <1>3, <2>1, <2>3 DEF Replays
<1> QED
  BY <1>5, <1>6, <1>7, <1>8, <1>9

\* A second sort starts from a result and replays the sort it comes from.
LEMMA SecondSortStays ==
    ASSUME IInv, OrderInv, GroupsInv, ReplayInv, Next
    PROVE  SecondSort'
<1>1. \A p, q : RecordsFail(p, q)' <=> RecordsFail(p, q)
  BY InputsFixed, WorldFixed
<1>2. CASE Resort
  <2>1. /\ outcome = "ok" /\ previous' = Result /\ order' = Result
        /\ outcome' = "none" /\ part' = "masters" /\ phase' = "build_groups"
    BY <1>2 DEF Resort
  <2>2. /\ PartOf(Plugins)' = PartOf(Plugins)
        /\ \A V, s : GoodFor(V, s)' <=> GoodFor(V, s)
    BY InputsFixed, DerivedFixed, WorldFixed
  <2>3. \A q \in Parts : GoodFor(PartOf(Plugins)[q], sorted[q])
    BY <2>1 DEF ReplayInv, PartsGood, PartDone
  <2>4. PICK old \in [Parts -> Seq(Plugins)] : old = sorted
    BY DEF IInv, TypeOK
  <2>5. order' = old.masters \o old.others \o old.blueprints
    BY <2>1, <2>4 DEF Result
  <2>6. \A q \in Parts : ~PartDone(q)'
    BY <2>1 DEF PartDone
  <2>7. Replays(old)'
    BY <2>1, <2>2, <2>3, <2>4, <2>5, <2>6 DEF Replays
  <2> QED
    BY <2>1, <2>7 DEF SecondSort
<1>3. CASE ~Resort
  <2>1. previous' = previous /\ order' = order /\ phase # "end"
    BY <1>3
    DEF Next, BuildGroups, Validate, add_specific_edges,
        add_early_loading_plugin_edges, FirstCheck, add_group_edges,
        GroupsFinished, add_overlap_edges, OverlapError, OverlapsFinished,
        add_tie_break_edges, SecondCheck, topological_sort, sortVars
  <2>2. SUFFICES ASSUME previous # <<>>
                 PROVE  SecondSort'
    BY <2>1 DEF SecondSort
  <2>3. /\ InputFine /\ HardEdgesOnly /\ SecondSort /\ OnItsRun /\ OrderListsOnce
    BY DEF ReplayInv
  <2>4. \/ outcome' \in {"none", "ok"}
        \/ outcome' = "plugin_data" /\ \E p, q \in Plugins : RecordsFail(p, q)
    BY <2>1, <2>2, <2>3, SecondOutcome
  <2>5. PICK old \in [Parts -> Seq(Plugins)] : Replays(old)
    BY <2>2, <2>3 DEF SecondSort
  <2>6. Replays(old)'
    BY <1>3, <2>3, <2>5, ReplaysOn
  <2>7. previous' = order'
    BY <2>1, <2>2, <2>3 DEF SecondSort
  <2> QED
    BY <1>1, <2>4, <2>6, <2>7 DEF SecondSort
<1> QED
  BY <1>2, <1>3

\* The initial states satisfy the invariant of the second sort.
LEMMA InitReplayInv ==
    ASSUME Init
    PROVE  ReplayInv
<1>1. OrderListsOnce
  <2>1. PICK i \in Inputs : order = i.order
    BY DEF Init
  <2>2. PICK n \in Nat : n = Cardinality(Plugins)
    BY PluginsAssumption, FS_CardinalityType
  <2>3. order \in [1..n -> Plugins] /\ \A k, l \in 1..n : k # l => order[k] # order[l]
    BY <2>1, <2>2, InputsAssumption DEF IsInput, SetToSeqs
  <2> QED
    BY <2>3, FunctionIsSeq DEF OrderListsOnce
<1> QED
  BY <1>1
  DEF Init, ReplayInv, InputFine, HardEdgesOnly, CheckPassed, OnItsRun,
      PathsSettled, PartsGood, PartDone, SecondSort, SortingPhases, CheckedPhases

\* A step that changes nothing keeps it.
LEMMA ReplayStutter ==
    ASSUME ReplayInv, UNCHANGED vars
    PROVE  ReplayInv'
<1>1. /\ UNCHANGED <<graph, nodes, data, groups_graph, starts, ignored, stack, colour>>
      /\ UNCHANGED <<edge_stack, candidates, finished, unfinishable, overlap_pairs>>
      /\ UNCHANGED <<load_order, input, order, part, phase, sorted, outcome, previous>>
  BY DEF vars, groupVars, tieVars, sortVars
<1>2. /\ PartOf(Plugins)' = PartOf(Plugins)
      /\ Rejected' = Rejected /\ EarlyMisplaced' = EarlyMisplaced
      /\ \A V : /\ SpecificPairs(V)' = SpecificPairs(V)
                /\ HardPairs(V)' = HardPairs(V)
                /\ LoopPairs(V)' = LoopPairs(V)
  BY <1>1, DerivedFixed
<1>3. /\ GroupsGraphOfInput' = GroupsGraphOfInput
      /\ GroupsFine' <=> GroupsFine
      /\ \A V : Sortable(V)' <=> Sortable(V)
      /\ \A V, c : RunReaches(V, c)' <=> RunReaches(V, c)
      /\ \A V, R : Settles(V, R)' <=> Settles(V, R)
      /\ \A V, s : GoodFor(V, s)' <=> GoodFor(V, s)
      /\ \A p, q : RecordsFail(p, q)' <=> RecordsFail(p, q)
  BY <1>1, WorldFixed
<1>4. InputFine' /\ HardEdgesOnly' /\ CheckPassed' /\ PathsSettled'
  BY <1>1, <1>2, <1>3
  DEF ReplayInv, InputFine, HardEdgesOnly, CheckPassed, PathsSettled
<1>5. PartsGood' /\ OrderListsOnce'
  BY <1>1, <1>2, <1>3 DEF ReplayInv, PartsGood, PartDone, OrderListsOnce
<1>6. OnItsRun'
  <2>1. RunAt' = RunAt
    BY <1>1, <1>2 DEF RunAt, Config
  <2> QED
    BY <1>1, <1>3, <2>1 DEF ReplayInv, OnItsRun
<1>7. SecondSort'
  <2>1. \A old : Replays(old)' <=> Replays(old)
    BY <1>1, <1>2, <1>3 DEF Replays, PartDone, InOrder
  <2> QED
    BY <1>1, <1>3, <2>1 DEF ReplayInv, SecondSort
<1> QED
  BY <1>4, <1>5, <1>6, <1>7 DEF ReplayInv

\* It holds throughout every behaviour.
THEOREM ReplayInvariance == Spec => []ReplayInv
<1>1. Init => ReplayInv
  BY InitReplayInv
<1>2. IInv /\ OrderInv /\ GroupsInv /\ ReplayInv /\ [Next]_vars => ReplayInv'
  <2>1. ASSUME IInv, OrderInv, GroupsInv, ReplayInv, Next
        PROVE  ReplayInv'
    BY <2>1, InputFineStays, HardEdgesOnlyStay, CheckPassedStays, OnItsRunStays,
       PathsSettledStay, PartsGoodStay, OrderListsOnceStays, SecondSortStays
    DEF ReplayInv, OrderInv
  <2> QED
    BY <2>1, ReplayStutter
<1> QED
  BY <1>1, <1>2, Invariance, OrderInvariance, GroupsInvariance, PTL DEF Spec

\* Applying the result of a sort and sorting again gives the same result.
THEOREM SortingIsIdempotent == Spec => []Idempotent
<1>1. ASSUME IInv, ReplayInv, previous # <<>>, outcome = "ok"
      PROVE  Result = previous
  <2>1. PICK old \in [Parts -> Seq(Plugins)] : Replays(old)
    BY <1>1 DEF ReplayInv, SecondSort
  <2>2. \A q \in Parts : sorted[q] = old[q]
    BY <1>1, <2>1 DEF Replays, PartDone
  <2>3. /\ sorted.masters = old.masters /\ sorted.others = old.others
        /\ sorted.blueprints = old.blueprints
    BY <2>2 DEF Parts
  <2> QED
    BY <1>1, <2>1, <2>3 DEF ReplayInv, SecondSort, Replays, Result
<1>2. IInv /\ ReplayInv => Idempotent
  BY <1>1 DEF ReplayInv, SecondSort, Idempotent
<1> QED
  BY <1>2, Invariance, ReplayInvariance, PTL
=============================================================================
