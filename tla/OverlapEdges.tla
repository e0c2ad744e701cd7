---------------------------- MODULE OverlapEdges ----------------------------
(***************************************************************************)
(* add_overlap_edges of sorting/plugins.rs: of two plugins that override   *)
(* the same records, the one that overrides more loads first; failing      *)
(* that, of two whose archives hold the same assets, the one that loads    *)
(* more does.                                                              *)
(***************************************************************************)
EXTENDS PluginData

VARIABLE overlap_pairs      \* the pairs of plugins the loops have still to visit

overlaps(S, p, q) == {p, q} \in S

\* The outer loop skips a plugin with neither overrides nor assets.
Skipped(p) == data.override_count[p] = 0 /\ data.asset_count[p] = 0

\* The pairs the two loops visit: the inner loop takes only the plugins behind
\* the outer one.
LoopPairs(V) == {e \in V \X V : e[1] < e[2] /\ ~Skipped(e[1])}

\* The order of the two loops.
IsFirstPair(e) ==
    \A f \in overlap_pairs : e[1] < f[1] \/ (e[1] = f[1] /\ e[2] <= f[2])

DirectEdge(p, q) == <<p, q>> \in graph.edges \/ <<q, p>> \in graph.edges

CountsDiffer(p, q) == data.override_count[p] # data.override_count[q]

\* do_records_overlap is only called, and so only fails, for different counts.
RecordsFail(p, q) ==
    CountsDiffer(p, q) /\ overlaps(data.records_unreadable, p, q)

RecordsDecide(p, q) ==
    CountsDiffer(p, q) /\ overlaps(data.records_overlap, p, q)

AssetsDecide(p, q) ==
    /\ ~RecordsDecide(p, q)
    /\ data.asset_count[p] # data.asset_count[q]
    /\ overlaps(data.assets_overlap, p, q)

\* One turn of the inner loop that does not fail.
VisitPair(p, q) ==
    /\ IsFirstPair(<<p, q>>)
    /\ DirectEdge(p, q) \/ ~RecordsFail(p, q)
    /\ overlap_pairs' = overlap_pairs \ {<<p, q>>}

\* A pair without a decision ending the loop instead of the turn.
SkipPairBreak(p, q) ==
    /\ IsFirstPair(<<p, q>>)
    /\ DirectEdge(p, q) \/ ~RecordsFail(p, q)
    /\ \/ DirectEdge(p, q)
       \/ ~RecordsDecide(p, q) /\ ~AssetsDecide(p, q)
    /\ overlap_pairs' = {}
    /\ UNCHANGED graph

SkipPair(p, q) ==
    /\ VisitPair(p, q)
    /\ \/ DirectEdge(p, q)
       \/ ~RecordsDecide(p, q) /\ ~AssetsDecide(p, q)
    /\ UNCHANGED graph

RecordOverlap(p, q) ==
    /\ VisitPair(p, q)
    /\ ~DirectEdge(p, q)
    /\ RecordsDecide(p, q)
    /\ IF data.override_count[p] > data.override_count[q]
       THEN graph' \in AddUnlessCycle(graph, p, q)
       ELSE graph' \in AddUnlessCycle(graph, q, p)

AssetOverlap(p, q) ==
    /\ VisitPair(p, q)
    /\ ~DirectEdge(p, q)
    /\ AssetsDecide(p, q)
    /\ IF data.asset_count[p] > data.asset_count[q]
       THEN graph' \in AddUnlessCycle(graph, p, q)
       ELSE graph' \in AddUnlessCycle(graph, q, p)

OverlapStep ==
    \E e \in overlap_pairs :
        \/ SkipPair(e[1], e[2])
        \/ RecordOverlap(e[1], e[2])
        \/ AssetOverlap(e[1], e[2])

\* do_records_overlap returns an error, and so does the sort.
OverlapFails ==
    \E e \in overlap_pairs :
        /\ IsFirstPair(e)
        /\ ~DirectEdge(e[1], e[2])
        /\ RecordsFail(e[1], e[2])
=============================================================================
