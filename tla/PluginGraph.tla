---------------------------- MODULE PluginGraph -----------------------------
(***************************************************************************)
(* PluginsGraph of sorting/plugins.rs: the graph of the plugins being      *)
(* sorted and the cache of the paths known to exist in it.  The operators  *)
(* give the effect of each method on a graph value; the modules that add   *)
(* edges are built from them.                                              *)
(*                                                                         *)
(* A plugin is the number of its place in the lexicographical order of the *)
(* plugin names, which is the order of the node indices.  The type of an   *)
(* edge is left out: it is only ever displayed.  A path search is taken by *)
(* its contract (PathContract, which PathSearch implements): the answer is *)
(* exact, and any set of up to MaxLearnt of the pairs it may have walked   *)
(* over is added to the cache.                                             *)
(***************************************************************************)
EXTENDS Reachability, SequencesExt

CONSTANTS Plugins,      \* every plugin given to the sort
          MaxLearnt     \* bound on the pairs one search adds to the cache

ASSUME PluginsAssumption == Plugins \subseteq Nat /\ IsFiniteSet(Plugins)
ASSUME MaxLearntAssumption == MaxLearnt \in Nat

VARIABLE graph          \* [edges, cache], both sets of (from, to) pairs

Pairs == Plugins \X Plugins

Graphs == [edges : SUBSET Pairs, cache : SUBSET Pairs]

EmptyGraph == [edges |-> {}, cache |-> {}]

HasPath(g, a, b) == Reach(Plugins, g.edges, a, b)

is_path_cached(g, a, b) == <<a, b>> \in g.cache

\* add_edge caching the pair the wrong way round.
AddEdgeCachingSwapped(g, a, b) ==
    IF is_path_cached(g, a, b)
    THEN g
    ELSE [edges |-> g.edges \cup {<<a, b>>}, cache |-> g.cache \cup {<<b, a>>}]

add_edge(g, a, b) ==
    IF is_path_cached(g, a, b)
    THEN g
    ELSE [edges |-> g.edges \cup {<<a, b>>}, cache |-> g.cache \cup {<<a, b>>}]

\* add_edge for each pair of a set: the order does not matter, because every
\* pair is cached by itself alone.
AddEdges(g, S) ==
    [edges |-> g.edges \cup (S \ g.cache), cache |-> g.cache \cup S]

\* What one search from a to b may have walked over.
Learnable(g, a, b) ==
    {<<a, x>> : x \in Descendants(Plugins, g.edges, a) \ {a}}
        \cup {<<x, b>> : x \in Ancestors(Plugins, g.edges, b) \ {b}}

LearnFrom(g, S) ==
    {[edges |-> g.edges, cache |-> g.cache \cup X] :
        X \in {Y \in SUBSET S : Cardinality(Y) <= MaxLearnt}}

path_exists(g, a, b) == is_path_cached(g, a, b) \/ HasPath(g, a, b)

\* The graphs path_exists may leave behind.
AfterPathExists(g, a, b) ==
    IF is_path_cached(g, a, b) THEN {g} ELSE LearnFrom(g, Learnable(g, a, b))

\* The way group and overlap edges are added: not if the path is known, and
\* not if there is a path back.
AddUnlessCycle(g, a, b) ==
    IF is_path_cached(g, a, b)
    THEN {g}
    ELSE {IF path_exists(g, b, a) THEN h ELSE add_edge(h, a, b) :
             h \in AfterPathExists(g, b, a)}

\* The paths find_path may return: in a graph without cycles every walk is a
\* simple path.
FindPaths(g, a, b) ==
    {p \in UNION {[1..n -> Plugins] : n \in 1..Cardinality(Plugins)} :
        IsPath(g.edges, p, a, b)}

-----------------------------------------------------------------------------

\* A cached pair is a path of the graph.  add_edge returns early on a cached
\* pair, so an unsound entry would silently drop an ordering constraint.
CacheSoundFor(g) == \A e \in g.cache : HasPath(g, e[1], e[2])

AcyclicFor(g) == Acyclic(Plugins, g.edges)
=============================================================================
