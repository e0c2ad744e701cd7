--------------------------- MODULE TieBreakProofs ---------------------------
(***************************************************************************)
(* The methods of the plugins graph, for any number of plugins and any     *)
(* number of pairs that a search may cache, and tie-breaking with them,    *)
(* for every graph without cycles and every load order.                    *)
(***************************************************************************)
EXTENDS TieBreak, FiniteSetTheorems, WellFoundedInduction, SequenceTheorems

(* What the methods of PluginsGraph preserve: the cache stays sound and no  *)
(* cycle is closed.                                                         *)

\* A graph whose cache can be trusted.
SoundGraph(g) == g \in Graphs /\ CacheSoundFor(g)

\* Pairs that may be put into the cache of g.
SoundPairs(g, S) ==
    S \subseteq Pairs /\ \A e \in S : HasPath(g, e[1], e[2])

\* A graph is determined by its edges and its cache.
LEMMA GraphFields ==
    ASSUME NEW g \in Graphs
    PROVE  /\ g.edges \subseteq Plugins \X Plugins
           /\ g.cache \subseteq Plugins \X Plugins
           /\ g = [edges |-> g.edges, cache |-> g.cache]
BY DEF Graphs, Pairs

\* add_edge adds a path and nothing else, keeps the cache sound, and closes no
\* cycle unless there was a path back.
LEMMA AddEdgeSound ==
    ASSUME NEW g, SoundGraph(g), NEW a \in Plugins, NEW b \in Plugins
    PROVE  /\ SoundGraph(add_edge(g, a, b))
           /\ g.edges \subseteq add_edge(g, a, b).edges
           /\ HasPath(add_edge(g, a, b), a, b)
           /\ (AcyclicFor(g) /\ ~HasPath(g, b, a)) =>
                  AcyclicFor(add_edge(g, a, b))
<1> DEFINE h == add_edge(g, a, b)
<1>1. g \in Graphs /\ CacheSoundFor(g)
  BY DEF SoundGraph
<1>2. /\ g.edges \subseteq Plugins \X Plugins
      /\ g.cache \subseteq Plugins \X Plugins
  BY <1>1, GraphFields
<1>3. CASE is_path_cached(g, a, b)
  <2>1. h = g
    BY <1>3 DEF add_edge
  <2>2. HasPath(g, a, b)
    BY <1>1, <1>3 DEF CacheSoundFor, is_path_cached
  <2> QED
    BY <1>1, <2>1, <2>2 DEF SoundGraph
<1>4. CASE ~is_path_cached(g, a, b)
  <2>1. /\ h.edges = g.edges \cup {<<a, b>>}
        /\ h.cache = g.cache \cup {<<a, b>>}
        /\ h = [edges |-> g.edges \cup {<<a, b>>},
                cache |-> g.cache \cup {<<a, b>>}]
    BY <1>4 DEF add_edge
  <2>2. h \in Graphs
    BY <1>2, <2>1 DEF Graphs, Pairs
  <2>3. HasPath(h, a, b)
    BY <2>1, ReachEdge DEF HasPath
  <2>4. CacheSoundFor(h)
    <3> SUFFICES ASSUME NEW e \in h.cache
                 PROVE  HasPath(h, e[1], e[2])
      BY DEF CacheSoundFor
    <3>1. CASE e \in g.cache
      <4>1. Reach(Plugins, g.edges, e[1], e[2])
        BY <1>1, <3>1 DEF CacheSoundFor, HasPath
      <4>2. g.edges \subseteq h.edges
        BY <2>1
      <4> QED
        BY <4>1, <4>2, ReachMonotonic DEF HasPath
    <3>2. CASE e = <<a, b>>
      BY <2>3, <3>2
    <3> QED
      BY <2>1, <3>1, <3>2
  <2>5. (AcyclicFor(g) /\ ~HasPath(g, b, a)) => AcyclicFor(h)
    BY <1>2, <2>1, AcyclicAddEdge DEF AcyclicFor, HasPath
  <2> QED
    BY <2>1, <2>2, <2>3, <2>4, <2>5 DEF SoundGraph
<1> QED
  BY <1>3, <1>4

\* A batch of add_edge calls keeps the cache sound.
LEMMA AddEdgesSound ==
    ASSUME NEW g, SoundGraph(g), NEW S \in SUBSET Pairs
    PROVE  SoundGraph(AddEdges(g, S))
<1> DEFINE h == AddEdges(g, S)
<1>1. /\ g.edges \subseteq Plugins \X Plugins
      /\ g.cache \subseteq Plugins \X Plugins
      /\ CacheSoundFor(g)
  BY GraphFields DEF SoundGraph
<1>2. /\ h.edges = g.edges \cup (S \ g.cache)
      /\ h.cache = g.cache \cup S
      /\ h \in Graphs
  BY <1>1 DEF AddEdges, Graphs, Pairs
<1>3. ASSUME NEW e \in h.cache
      PROVE  HasPath(h, e[1], e[2])
  <2>1. CASE e \in g.cache
    <3>1. Reach(Plugins, g.edges, e[1], e[2])
      BY <1>1, <2>1 DEF CacheSoundFor, HasPath
    <3> QED
      BY <1>2, <3>1, ReachMonotonic DEF HasPath
  <2>2. CASE e \in S \ g.cache
    <3>1. e = <<e[1], e[2]>> /\ e \in h.edges
      BY <1>2, <2>2 DEF Pairs
    <3> QED
      BY <3>1, ReachEdge DEF HasPath
  <2> QED
    BY <1>2, <2>1, <2>2
<1> QED
  BY <1>2, <1>3 DEF SoundGraph, CacheSoundFor

\* Everything a search may have walked over is a path.
LEMMA LearnableSound ==
    ASSUME NEW g, NEW a \in Plugins, NEW b \in Plugins
    PROVE  SoundPairs(g, Learnable(g, a, b))
BY DEF SoundPairs, Learnable, Descendants, Ancestors, Pairs, HasPath

\* Caching paths changes no edge and keeps the cache sound.
LEMMA LearnSound ==
    ASSUME NEW g, SoundGraph(g), NEW S, SoundPairs(g, S),
           NEW h \in LearnFrom(g, S)
    PROVE  /\ SoundGraph(h)
           /\ h.edges = g.edges
<1>1. PICK X \in SUBSET S : h = [edges |-> g.edges, cache |-> g.cache \cup X]
  BY DEF LearnFrom
<1>2. /\ g.edges \subseteq Plugins \X Plugins
      /\ g.cache \subseteq Plugins \X Plugins
      /\ CacheSoundFor(g)
  BY GraphFields DEF SoundGraph
<1>3. h.edges = g.edges /\ h.cache = g.cache \cup X
  BY <1>1
<1>4. h \in Graphs
  BY <1>1, <1>2 DEF Graphs, Pairs, SoundPairs
<1>5. CacheSoundFor(h)
  BY <1>2, <1>3 DEF CacheSoundFor, HasPath, SoundPairs
<1> QED
  BY <1>3, <1>4, <1>5 DEF SoundGraph

\* With a sound cache path_exists says whether there is a path.
LEMMA PathExistsExact ==
    ASSUME NEW g, SoundGraph(g), NEW a, NEW b
    PROVE  path_exists(g, a, b) <=> HasPath(g, a, b)
BY DEF path_exists, is_path_cached, SoundGraph, CacheSoundFor

\* path_exists changes no edge and keeps the cache sound.
LEMMA AfterPathExistsSound ==
    ASSUME NEW g, SoundGraph(g), NEW a \in Plugins, NEW b \in Plugins,
           NEW h \in AfterPathExists(g, a, b)
    PROVE  /\ SoundGraph(h)
           /\ h.edges = g.edges
BY LearnableSound, LearnSound DEF AfterPathExists

\* An edge added unless there is a path back keeps the cache sound and the
\* graph free of cycles, loses no edge and leaves its ends ordered.
LEMMA AddUnlessCycleSound ==
    ASSUME NEW g, SoundGraph(g), NEW a \in Plugins, NEW b \in Plugins,
           NEW h \in AddUnlessCycle(g, a, b)
    PROVE  /\ SoundGraph(h)
           /\ g.edges \subseteq h.edges
           /\ AcyclicFor(g) => AcyclicFor(h)
           /\ HasPath(h, a, b) \/ HasPath(h, b, a)
<1>1. CASE is_path_cached(g, a, b)
  <2>1. h = g
    BY <1>1 DEF AddUnlessCycle
  <2>2. HasPath(g, a, b)
    BY <1>1 DEF is_path_cached, SoundGraph, CacheSoundFor
  <2> QED
    BY <2>1, <2>2
<1>2. CASE ~is_path_cached(g, a, b)
  <2>1. PICK k \in AfterPathExists(g, b, a) :
            h = IF path_exists(g, b, a) THEN k ELSE add_edge(k, a, b)
    BY <1>2 DEF AddUnlessCycle
  <2>2. SoundGraph(k) /\ k.edges = g.edges
    BY AfterPathExistsSound
  <2>3. CASE HasPath(g, b, a)
    <3>1. h = k
      BY <2>1, <2>3, PathExistsExact
    <3> QED
      BY <2>2, <2>3, <3>1 DEF AcyclicFor, HasPath
  <2>4. CASE ~HasPath(g, b, a)
    <3>1. h = add_edge(k, a, b)
      BY <2>1, <2>4, PathExistsExact
    <3>2. ~HasPath(k, b, a)
      BY <2>2, <2>4 DEF HasPath
    <3>3. AcyclicFor(g) => AcyclicFor(k)
      BY <2>2 DEF AcyclicFor
    <3> QED
      BY <2>2, <3>1, <3>2, <3>3, AddEdgeSound
  <2> QED
    BY <2>3, <2>4
<1> QED
  BY <1>1, <1>2

-----------------------------------------------------------------------------
\* A graph over the vertices V that can be trusted and has no cycle.
GraphOver(g, V) ==
    SoundGraph(g) /\ AcyclicFor(g) /\ g.edges \subseteq V \X V

\* add_edge keeps all of it, unless there was a path back.
LEMMA AddEdgeOver ==
    ASSUME NEW V \in SUBSET Plugins, NEW g, GraphOver(g, V),
           NEW a \in V, NEW b \in V, ~HasPath(g, b, a)
    PROVE  GraphOver(add_edge(g, a, b), V)
<1>1. SoundGraph(add_edge(g, a, b)) /\ AcyclicFor(add_edge(g, a, b))
  BY AddEdgeSound DEF GraphOver
<1>2. add_edge(g, a, b).edges \subseteq g.edges \cup {<<a, b>>}
  BY DEF add_edge
<1> QED
  BY <1>1, <1>2 DEF GraphOver

\* add_edge along a path keeps all of it.
LEMMA AddEdgeAlongPathOver ==
    ASSUME NEW V \in SUBSET Plugins, NEW g, GraphOver(g, V),
           NEW a \in V, NEW b \in V, a # b, HasPath(g, a, b)
    PROVE  GraphOver(add_edge(g, a, b), V)
<1>1. g.edges \subseteq Plugins \X Plugins
  BY GraphFields DEF GraphOver, SoundGraph
<1>2. ~HasPath(g, b, a)
  BY <1>1, AcyclicAntisymmetric DEF AcyclicFor, HasPath, GraphOver
<1> QED
  BY <1>2, AddEdgeOver

\* Caching paths keeps all of it.
LEMMA LearnOver ==
    ASSUME NEW V, NEW g, GraphOver(g, V), NEW S, SoundPairs(g, S),
           NEW h \in LearnFrom(g, S)
    PROVE  GraphOver(h, V) /\ h.edges = g.edges
BY LearnSound DEF GraphOver, AcyclicFor

\* An edge added unless there is a path back keeps all of it, and leaves its
\* two plugins ordered.
LEMMA AddUnlessCycleOver ==
    ASSUME NEW V \in SUBSET Plugins, NEW g, GraphOver(g, V),
           NEW a \in V, NEW b \in V, NEW h \in AddUnlessCycle(g, a, b)
    PROVE  /\ GraphOver(h, V)
           /\ g.edges \subseteq h.edges
           /\ HasPath(h, a, b) \/ HasPath(h, b, a)
<1>1. /\ SoundGraph(h) /\ AcyclicFor(h)
      /\ g.edges \subseteq h.edges
      /\ HasPath(h, a, b) \/ HasPath(h, b, a)
  BY AddUnlessCycleSound DEF GraphOver
<1>2. h.edges \subseteq g.edges \cup {<<a, b>>}
  <2>1. \A k \in AfterPathExists(g, b, a) : k.edges = g.edges
    BY AfterPathExistsSound DEF GraphOver
  <2>2. \A k : add_edge(k, a, b).edges \subseteq k.edges \cup {<<a, b>>}
    BY DEF add_edge
  <2> QED
    BY <2>1, <2>2 DEF AddUnlessCycle
<1> QED
  BY <1>1, <1>2 DEF GraphOver

\* The paths of a graph with the edges E.
PathsOf(E) == {e \in Pairs : Reach(Plugins, E, e[1], e[2])}

\* The paths there are once a has a path to b, or already had one back.
Joined(R, a, b) ==
    IF <<a, b>> \in R \/ <<b, a>> \in R THEN R
    ELSE R \cup {e \in Pairs : <<e[1], a>> \in R /\ <<b, e[2]>> \in R}

\* Whatever is in the cache, adding an edge unless that would close a cycle
\* changes the paths of the graph in the same way.
LEMMA AddedPaths ==
    ASSUME NEW g, SoundGraph(g), NEW a \in Plugins, NEW b \in Plugins,
           NEW h \in AddUnlessCycle(g, a, b)
    PROVE  PathsOf(h.edges) = Joined(PathsOf(g.edges), a, b)
<1> DEFINE R == PathsOf(g.edges)
<1>1. \A x, y \in Plugins : <<x, y>> \in R <=> HasPath(g, x, y)
  BY DEF PathsOf, HasPath, Pairs
<1>2. CASE is_path_cached(g, a, b)
  <2>1. h = g
    BY <1>2 DEF AddUnlessCycle
  <2>2. HasPath(g, a, b)
    BY <1>2 DEF is_path_cached, SoundGraph, CacheSoundFor
  <2> QED
    BY <1>1, <2>1, <2>2 DEF Joined
<1>3. CASE ~is_path_cached(g, a, b)
  <2>1. PICK k \in AfterPathExists(g, b, a) :
            h = IF path_exists(g, b, a) THEN k ELSE add_edge(k, a, b)
    BY <1>3 DEF AddUnlessCycle
  <2>2. SoundGraph(k) /\ k.edges = g.edges
    BY AfterPathExistsSound
  <2>3. CASE HasPath(g, b, a)
    <3>1. h = k
      BY <2>1, <2>3, PathExistsExact
    <3> QED
      BY <1>1, <2>2, <2>3, <3>1 DEF Joined
  <2>4. CASE ~HasPath(g, b, a) /\ is_path_cached(k, a, b)
    <3>1. h = k
      BY <2>1, <2>4, PathExistsExact DEF add_edge
    <3>2. HasPath(k, a, b)
      BY <2>2, <2>4 DEF is_path_cached, SoundGraph, CacheSoundFor
    <3>3. HasPath(g, a, b)
      BY <2>2, <3>2 DEF HasPath
    <3> QED
      BY <1>1, <2>2, <3>1, <3>3 DEF Joined
  <2>5. CASE ~HasPath(g, b, a) /\ ~is_path_cached(k, a, b)
    <3>1. h.edges = g.edges \cup {<<a, b>>}
      BY <2>1, <2>2, <2>5, PathExistsExact DEF add_edge
    <3>2. g.edges \subseteq Plugins \X Plugins
      BY GraphFields DEF SoundGraph
    <3>3. \A x, y \in Plugins : Reach(Plugins, h.edges, x, y) <=>
              \/ Reach(Plugins, g.edges, x, y)
              \/ Reach(Plugins, g.edges, x, a) /\ Reach(Plugins, g.edges, b, y)
      <4>1. PICK E \in SUBSET (Plugins \X Plugins) : E = g.edges
        BY <3>2
      <4>2. h.edges = E \cup {<<a, b>>}
        BY <3>1, <4>1
      <4>3. \A x, y \in Plugins : Reach(Plugins, E \cup {<<a, b>>}, x, y) <=>
              \/ Reach(Plugins, E, x, y)
              \/ Reach(Plugins, E, x, a) /\ Reach(Plugins, E, b, y)
        BY PathsWithOneMoreEdge
      <4> QED
        BY <4>1, <4>2, <4>3
    <3>4. CASE HasPath(g, a, b)
      <4>1. \A x, y \in Plugins :
                Reach(Plugins, h.edges, x, y) <=> Reach(Plugins, g.edges, x, y)
        BY <3>3, <3>4, ReachTransitive DEF HasPath
      <4>2. PathsOf(h.edges) = R
        BY <4>1 DEF PathsOf, Pairs
      <4> QED
        BY <1>1, <3>4, <4>2 DEF Joined
    <3>5. CASE ~HasPath(g, a, b)
      <4>1. Joined(R, a, b) =
                R \cup {e \in Pairs : <<e[1], a>> \in R /\ <<b, e[2]>> \in R}
        BY <1>1, <2>5, <3>5 DEF Joined
      <4>2. \A e \in Pairs : e[1] \in Plugins /\ e[2] \in Plugins
        BY DEF Pairs
      <4>3. \A e \in Pairs : e \in PathsOf(h.edges) <=> e \in Joined(R, a, b)
        BY <1>1, <3>3, <4>1, <4>2 DEF PathsOf, HasPath
      <4>4. PathsOf(h.edges) \subseteq Pairs /\ Joined(R, a, b) \subseteq Pairs
        BY <4>1 DEF PathsOf
      <4> QED
        BY <4>3, <4>4
    <3> QED
      BY <3>4, <3>5
  <2> QED
    BY <2>3, <2>4, <2>5
<1> QED
  BY <1>2, <1>3

-----------------------------------------------------------------------------
(* Tie-breaking. *)

\* What the tie-break loops keep of their own state.
TieStateOver(V) ==
    /\ load_order \in Seq(V)
    /\ new_load_order \in Seq(V)
    /\ to_pin \in Seq(V)
    /\ window \in Nat \ {0}
    /\ range_start \in 0..Len(new_load_order)
    /\ tie_pc = "pin" => window < Len(load_order)

\* load_order is an order of the nodes V.
OrderOf(V) ==
    /\ \A i, j \in 1..Len(load_order) :
          i # j => load_order[i] # load_order[j]
    /\ \A v \in V : \E i \in 1..Len(load_order) : v = load_order[i]

\* Every node that the windows have gone past has a place, and the first
\* window is the only one to meet an empty new load order.
PastPlaced ==
    /\ \A i \in 1..(window - 1) : Processed(load_order[i])
    /\ window = 1 => new_load_order = <<>>
    /\ window > 1 => window <= Len(load_order)
    /\ tie_pc = "done" => window >= Len(load_order)

\* A current node without a place can be put last.
CurrentFits ==
    ( /\ new_load_order # <<>>
      /\ window <= Len(load_order)
      /\ ~Processed(current) ) => HasPath(graph, Last(new_load_order), current)

\* The nodes still to be pinned are ordered among themselves, behind the last
\* one pinned, and before a current node without a place; the next node is
\* one of them unless it has its place.
PinsFit ==
    tie_pc = "pin" =>
        /\ window > 1
        /\ \A i, j \in 1..Len(to_pin) : i < j => HasPath(graph, to_pin[i], to_pin[j])
        /\ \A i \in 1..Len(to_pin) :
              /\ range_start > 0 => HasPath(graph, new_load_order[range_start], to_pin[i])
              /\ ~Processed(current) => HasPath(graph, to_pin[i], current)
        /\ Processed(next) \/ next \in ToSet(to_pin)

\* While the load order satisfies every edge it is taken over as it is.
GoodOrderTaken ==
    InOrder =>
        /\ tie_pc # "pin"
        /\ \A k \in 1..Len(new_load_order) :
              \E i \in 1..(window - 1) : new_load_order[k] = load_order[i]

TieInv(V) ==
    /\ GraphOver(graph, V) /\ TieStateOver(V) /\ OrderOf(V)
    /\ NewOrderIsPath
    /\ PastPlaced /\ CurrentFits /\ PinsFit
    /\ GoodOrderTaken

-----------------------------------------------------------------------------
(* Numbers and sequences. *)

\* A bounded non-empty set of numbers has a maximum.
LEMMA MaxOfBounded ==
    ASSUME NEW n \in Nat, NEW S, S \subseteq 1..n, S # {}
    PROVE  Max(S) \in S /\ \A k \in S : k <= Max(S)
<1> DEFINE T == {n - k : k \in S}
<1>1. \A k \in S : n - k \in Nat
  OBVIOUS
<1>2. T \subseteq Nat /\ T # {}
  BY <1>1
<1>3. PICK x \in T : \A y \in T : ~(<<y, x>> \in OpToRel(<, Nat))
  BY <1>2, WFMin, NatLessThanWellFounded
<1>4. \A y \in T : ~(y < x)
  BY <1>2, <1>3 DEF OpToRel
<1>5. PICK m \in S : x = n - m
  OBVIOUS
<1>6. \A k \in S : m >= k
  BY <1>4, <1>5
<1> QED
  BY <1>6 DEF Max

\* A function on 1..n is a sequence.
LEMMA FunctionIsSeq ==
    ASSUME NEW n \in Nat, NEW S, NEW f \in [1..n -> S]
    PROVE  f \in Seq(S) /\ Len(f) = n
BY SeqDef

\* Inserting into a sequence.
LEMMA InsertAtType ==
    ASSUME NEW S, NEW s \in Seq(S), NEW e \in S, NEW i \in 1..(Len(s) + 1)
    PROVE  /\ InsertAt(s, i, e) \in Seq(S)
           /\ Len(InsertAt(s, i, e)) = Len(s) + 1
<1>1. /\ SubSeq(s, 1, i - 1) \in Seq(S)
      /\ Len(SubSeq(s, 1, i - 1)) = i - 1
  BY SubSeqProperties, ElementOfSeq
<1>2. /\ SubSeq(s, i, Len(s)) \in Seq(S)
      /\ Len(SubSeq(s, i, Len(s))) = Len(s) - i + 1
  BY SubSeqProperties, ElementOfSeq
<1>3. <<e>> \in Seq(S) /\ Len(<<e>>) = 1
  OBVIOUS
<1> DEFINE t == SubSeq(s, 1, i - 1) \o <<e>>
<1>4. t \in Seq(S) /\ Len(t) = i
  BY <1>1, <1>3, ConcatProperties
<1>5. /\ t \o SubSeq(s, i, Len(s)) \in Seq(S)
      /\ Len(t \o SubSeq(s, i, Len(s))) = Len(s) + 1
  <2> HIDE DEF t
  <2> QED
    BY <1>2, <1>4, ConcatProperties
<1> QED
  BY <1>5 DEF InsertAt

\* Its elements: those before the place, the new one, and the rest.
LEMMA InsertAtElements ==
    ASSUME NEW S, NEW s \in Seq(S), NEW e \in S, NEW i \in 1..(Len(s) + 1)
    PROVE  /\ \A k \in 1..(i - 1) : InsertAt(s, i, e)[k] = s[k]
           /\ InsertAt(s, i, e)[i] = e
           /\ \A k \in (i + 1)..(Len(s) + 1) : InsertAt(s, i, e)[k] = s[k - 1]
<1> DEFINE left == SubSeq(s, 1, i - 1)
           right == SubSeq(s, i, Len(s))
           t == left \o <<e>>
<1>1. /\ left \in Seq(S) /\ Len(left) = i - 1
      /\ \A k \in 1..(i - 1) : left[k] = s[k]
  BY SubSeqProperties, ElementOfSeq
<1>2. /\ right \in Seq(S) /\ Len(right) = Len(s) - i + 1
      /\ \A k \in 1..(Len(s) - i + 1) : right[k] = s[i + k - 1]
  BY SubSeqProperties, ElementOfSeq
<1>3. <<e>> \in Seq(S) /\ Len(<<e>>) = 1 /\ <<e>>[1] = e
  OBVIOUS
<1> HIDE DEF left, right
<1>4. /\ t \in Seq(S) /\ Len(t) = i
      /\ \A k \in 1..i : t[k] = IF k <= i - 1 THEN left[k] ELSE <<e>>[k - (i - 1)]
  BY <1>1, <1>3, ConcatProperties
<1>5. Len(s) \in Nat
  BY LenProperties
<1>6. \A k \in 1..(Len(s) + 1) :
          (t \o right)[k] = IF k <= i THEN t[k] ELSE right[k - i]
  <2> HIDE DEF t
  <2> QED
    BY <1>2, <1>4, <1>5, ConcatProperties
<1>7. ASSUME NEW k \in 1..(i - 1)
      PROVE  (t \o right)[k] = s[k]
  BY <1>1, <1>4, <1>5, <1>6
<1>8. (t \o right)[i] = e
  BY <1>3, <1>4, <1>5, <1>6
<1>9. ASSUME NEW k \in (i + 1)..(Len(s) + 1)
      PROVE  (t \o right)[k] = s[k - 1]
  <2>1. k - i \in 1..(Len(s) - i + 1) /\ i + (k - i) - 1 = k - 1 /\ ~(k <= i)
    BY <1>5
  <2>2. right[k - i] = s[k - 1]
    BY <1>2, <2>1
  <2>3. k \in 1..(Len(s) + 1)
    BY <1>5
  <2> HIDE DEF t
  <2> QED
    BY <1>6, <2>1, <2>2, <2>3
<1> QED
  BY <1>7, <1>8, <1>9 DEF InsertAt, left, right

\* Vertices that each have a path to the one behind them.
LEMMA ChainReaches ==
    ASSUME NEW V, NEW E, NEW s, NEW n \in Nat,
           \A i \in 1..(n - 1) : Reach(V, E, s[i], s[i + 1]),
           NEW a \in 1..n, NEW b \in 1..n, a <= b
    PROVE  Reach(V, E, s[a], s[b])
<1> DEFINE S == {k \in 1..n : a <= k /\ \A m \in a..k : Reach(V, E, s[a], s[m])}
<1>1. a \in S
  BY ReachReflexive
<1>2. Max(S) \in S /\ \A k \in S : k <= Max(S)
  BY <1>1, MaxOfBounded
<1>3. PICK x \in S : \A k \in S : k <= x
  BY <1>2
<1>4. CASE x = n
  BY <1>4
<1>5. CASE x < n
  <2>1. Reach(V, E, s[x], s[x + 1]) /\ Reach(V, E, s[a], s[x])
    BY <1>5
  <2>2. Reach(V, E, s[a], s[x + 1])
    BY <2>1, ReachTransitive
  <2>3. x + 1 \in S
    <3>1. \A m \in a..(x + 1) : m \in a..x \/ m = x + 1
      OBVIOUS
    <3> QED
      BY <1>5, <2>2, <3>1
  <2> QED
    BY <1>3, <2>3
<1> QED
  BY <1>4, <1>5

-----------------------------------------------------------------------------
\* Where pin_node_position puts a node: the node has no path to the one before
\* the place and a path to every one behind it.
LEMMA PreviousPositionPlaces ==
    ASSUME NEW V, new_load_order \in Seq(V), NEW node,
           range_start \in 0..Len(new_load_order)
    PROVE  /\ PreviousPosition(node) \in range_start..Len(new_load_order)
           /\ PreviousPosition(node) > range_start =>
                 ~path_exists(graph, node,
                              new_load_order[PreviousPosition(node)])
           /\ \A k \in (PreviousPosition(node) + 1)..Len(new_load_order) :
                 path_exists(graph, node, new_load_order[k])
<1> DEFINE S == {k \in (range_start + 1)..Len(new_load_order) :
                    ~path_exists(graph, node, new_load_order[k])}
<1>1. Len(new_load_order) \in Nat
  BY LenProperties
<1>2. CASE S = {}
  <2>1. PreviousPosition(node) = range_start
    BY <1>2 DEF PreviousPosition
  <2> QED
    BY <1>1, <1>2, <2>1
<1>3. CASE S # {}
  <2>1. PreviousPosition(node) = Max(S)
    BY <1>3 DEF PreviousPosition
  <2>2. S \subseteq 1..Len(new_load_order)
    BY <1>1
  <2>3. Max(S) \in S /\ \A k \in S : k <= Max(S)
    BY <1>1, <1>3, <2>2, MaxOfBounded
  <2>4. PICK m \in S : m = PreviousPosition(node)
    BY <2>1, <2>3
  <2>5. ASSUME NEW k \in (m + 1)..Len(new_load_order)
        PROVE  path_exists(graph, node, new_load_order[k])
    <3>1. k \in (range_start + 1)..Len(new_load_order) /\ ~(k <= m)
      BY <1>1, <2>2
    <3>2. k \notin S
      BY <2>1, <2>3, <2>4, <3>1
    <3> QED
      BY <3>1, <3>2
  <2>6. /\ m \in range_start..Len(new_load_order)
        /\ ~path_exists(graph, node, new_load_order[m])
    BY <1>1
  <2> QED
    BY <2>4, <2>5, <2>6
<1> QED
  BY <1>2, <1>3

\* What the searches of one pinning may have walked over are paths.
LEMMA PinLearnableSound ==
    ASSUME NEW V \in SUBSET Plugins, new_load_order \in Seq(V),
           range_start \in 0..Len(new_load_order),
           NEW node \in V, NEW before
    PROVE  SoundPairs(graph, PinLearnable(node, before))
<1> DEFINE K == {i \in (range_start + 1)..Len(new_load_order) :
                    /\ i >= before
                    /\ ~is_path_cached(graph, node, new_load_order[i])}
<1>1. \A k \in K : new_load_order[k] \in Plugins
  BY LenProperties, ElementOfSeq
<1>2. \A k \in K : SoundPairs(graph, Learnable(graph, node, new_load_order[k]))
  BY <1>1, LearnableSound
<1>3. PinLearnable(node, before) =
          UNION {Learnable(graph, node, new_load_order[k]) : k \in K}
  BY DEF PinLearnable
<1> HIDE DEF K
<1> QED
  BY <1>2, <1>3 DEF SoundPairs

\* A path found from a node of the graph stays among the nodes.
LEMMA FindPathsInNodes ==
    ASSUME NEW V \in SUBSET Plugins, graph.edges \subseteq V \X V,
           NEW a \in V, NEW b, NEW p \in FindPaths(graph, a, b)
    PROVE  /\ p \in Seq(V)
           /\ Front(p) \in Seq(V)
<1>1. PICK n \in Nat : n >= 1 /\ p \in [1..n -> Plugins]
  BY FS_CardinalityType, PluginsAssumption DEF FindPaths
<1>2. p \in Seq(Plugins) /\ Len(p) = n
  BY <1>1, FunctionIsSeq
<1>3. /\ p[1] = a
      /\ \A i \in 1..(n - 1) : <<p[i], p[i + 1]>> \in graph.edges
  BY <1>2 DEF FindPaths, IsPath
<1>4. \A i \in 1..n : p[i] \in V
  <2> SUFFICES ASSUME NEW i \in 1..n
               PROVE  p[i] \in V
    OBVIOUS
  <2>1. CASE i = 1
    BY <1>3, <2>1
  <2>2. CASE i # 1
    <3>1. i - 1 \in 1..(n - 1) /\ (i - 1) + 1 = i
      BY <1>1, <2>2
    <3>2. <<p[i - 1], p[i]>> \in graph.edges
      BY <1>3, <3>1
    <3> QED
      BY <3>2
  <2> QED
    BY <2>1, <2>2
<1>5. p \in [1..n -> V]
  BY <1>1, <1>4
<1>6. p \in Seq(V)
  BY <1>5, FunctionIsSeq
<1>7. \A i \in 1..(Len(p) - 1) : p[i] \in V
  BY <1>1, <1>2, <1>4
<1>8. Front(p) \in Seq(V)
  BY <1>1, <1>2, <1>7, SubSeqProperties DEF Front
<1> QED
  BY <1>6, <1>8

\* An edge between two neighbours in the existing load order, after a search
\* for a path back.
LEMMA KeepOrderKeeps ==
    ASSUME NEW V \in SUBSET Plugins, GraphOver(graph, V), TieStateOver(V),
           KeepOrder
    PROVE  /\ GraphOver(graph', V) /\ TieStateOver(V)'
           /\ graph.edges \subseteq graph'.edges
           /\ graph'.edges \subseteq graph.edges \cup {<<current, next>>}
           /\ HasPath(graph', current, next)
<1>1. Len(load_order) \in Nat /\ Len(new_load_order) \in Nat
  BY LenProperties DEF TieStateOver
<1>2. current \in V /\ next \in V
  BY <1>1, ElementOfSeq DEF KeepOrder, WindowsLeft, TieStateOver, current, next
<1>3. PICK g \in Searched : graph' = add_edge(g, current, next)
  BY DEF KeepOrder
<1>4. SoundPairs(graph, Learnable(graph, next, current))
  BY <1>2, LearnableSound
<1>5. GraphOver(g, V) /\ g.edges = graph.edges
  BY <1>4, LearnOver DEF Searched
<1>6. ~HasPath(g, next, current)
  BY <1>5 DEF KeepOrder, HasPath
<1>7. GraphOver(graph', V)
  BY <1>2, <1>3, <1>5, <1>6, AddEdgeOver
<1>8. g.edges \subseteq graph'.edges /\ HasPath(graph', current, next)
  BY <1>2, <1>3, <1>5, AddEdgeSound DEF GraphOver
<1>9. graph'.edges \subseteq graph.edges \cup {<<current, next>>}
  BY <1>3, <1>5 DEF add_edge
<1>10. TieStateOver(V)'
  <2>1. Append(new_load_order, current) \in Seq(V)
    BY <1>2, AppendProperties DEF TieStateOver
  <2>2. <<next>> \in Seq(V)
    BY <1>2
  <2>3. new_load_order' \in Seq(V) /\ to_pin' \in Seq(V) /\ load_order' \in Seq(V)
    BY <2>1, <2>2 DEF KeepOrder, TieStateOver
  <2>4. window' \in Nat \ {0} /\ range_start' = 0
    BY DEF KeepOrder, TieStateOver
  <2>5. Len(new_load_order') \in Nat
    BY <2>3, LenProperties
  <2>6. tie_pc' = "pin" => window' < Len(load_order')
    BY DEF KeepOrder, WindowsLeft
  <2> QED
    BY <2>3, <2>4, <2>5, <2>6 DEF TieStateOver
<1> QED
  BY <1>5, <1>7, <1>8, <1>9, <1>10

\* The two actions that only take over a path.
LEMMA TakePathKeeps ==
    ASSUME NEW V \in SUBSET Plugins, GraphOver(graph, V), TieStateOver(V),
           StartWithPath \/ PinPath
    PROVE  /\ GraphOver(graph', V) /\ TieStateOver(V)'
           /\ graph'.edges = graph.edges
<1>1. Len(load_order) \in Nat /\ Len(new_load_order) \in Nat
  BY LenProperties DEF TieStateOver
<1>2. current \in V /\ next \in V
  BY <1>1, ElementOfSeq
  DEF StartWithPath, PinPath, WindowsLeft, TieStateOver, current, next
<1>3. SoundPairs(graph, Learnable(graph, next, current))
  BY <1>2, LearnableSound
<1>4. GraphOver(graph', V) /\ graph'.edges = graph.edges
  BY <1>3, LearnOver DEF Searched, StartWithPath, PinPath
<1>5. \A p \in FindPaths(graph, next, current) :
          p \in Seq(V) /\ Front(p) \in Seq(V)
  BY <1>2, FindPathsInNodes DEF GraphOver
<1>6. CASE StartWithPath
  <2>1. PICK p \in Seq(V) : new_load_order' = new_load_order \o p
    BY <1>5, <1>6 DEF StartWithPath
  <2>2. /\ new_load_order' \in Seq(V)
        /\ Len(new_load_order') = Len(new_load_order) + Len(p)
        /\ Len(p) \in Nat
    BY <2>1, ConcatProperties, LenProperties DEF TieStateOver
  <2> QED
    BY <1>1, <1>4, <1>6, <2>2 DEF StartWithPath, WindowsLeft, TieStateOver
<1>7. CASE PinPath
  BY <1>1, <1>4, <1>5, <1>7 DEF PinPath, WindowsLeft, TieStateOver
<1> QED
  BY <1>6, <1>7

\* Pinning: the node has no path to the one it is put behind, and the edge to
\* the one it is put before goes along a path there is.
LEMMA PinNodeKeeps ==
    ASSUME NEW V \in SUBSET Plugins, GraphOver(graph, V), TieStateOver(V),
           PinNode
    PROVE  LET node == Head(to_pin)
               before == PreviousPosition(node)
               insert == before + 1
           IN /\ node \in V /\ before \in range_start..Len(new_load_order)
              /\ GraphOver(graph', V) /\ TieStateOver(V)'
              /\ graph.edges \subseteq graph'.edges
              /\ before > range_start =>
                    HasPath(graph', new_load_order[before], node)
              /\ insert <= Len(new_load_order) =>
                    HasPath(graph', node, new_load_order[insert])
<1> DEFINE node == Head(to_pin)
           before == PreviousPosition(node)
           insert == before + 1
<1>1. Len(new_load_order) \in Nat /\ range_start \in 0..Len(new_load_order)
  BY LenProperties DEF TieStateOver
<1>2. node \in V /\ Tail(to_pin) \in Seq(V)
  BY HeadTailProperties DEF PinNode, TieStateOver
<1>3. /\ before \in range_start..Len(new_load_order)
      /\ before > range_start => ~path_exists(graph, node, new_load_order[before])
      /\ \A k \in (before + 1)..Len(new_load_order) :
            path_exists(graph, node, new_load_order[k])
  BY PreviousPositionPlaces DEF TieStateOver
<1>4. ~Processed(node)
  BY DEF PinNode
<1>5. PICK g \in LearnFrom(graph, PinLearnable(node, before)) :
          LET h == IF before > range_start
                   THEN add_edge(g, new_load_order[before], node)
                   ELSE g
          IN graph' = IF insert <= Len(new_load_order)
                      THEN add_edge(h, node, new_load_order[insert])
                      ELSE h
  BY DEF PinNode
<1> DEFINE h == IF before > range_start
                THEN add_edge(g, new_load_order[before], node)
                ELSE g
<1>6. GraphOver(g, V) /\ g.edges = graph.edges
  BY <1>2, PinLearnableSound, LearnOver DEF TieStateOver
<1>7. /\ GraphOver(h, V) /\ g.edges \subseteq h.edges
      /\ before > range_start => HasPath(h, new_load_order[before], node)
  <2>1. CASE before > range_start
    <3>1. new_load_order[before] \in V
      BY <1>1, <1>3, <2>1, ElementOfSeq DEF TieStateOver
    <3>2. ~HasPath(g, node, new_load_order[before])
      BY <1>3, <1>6, <2>1, PathExistsExact DEF GraphOver, HasPath
    <3>3. LET k == add_edge(g, new_load_order[before], node)
          IN g.edges \subseteq k.edges /\ HasPath(k, new_load_order[before], node)
      BY <1>2, <1>6, <3>1, AddEdgeSound DEF GraphOver
    <3> QED
      BY <1>2, <1>6, <2>1, <3>1, <3>2, <3>3, AddEdgeOver
  <2>2. CASE ~(before > range_start)
    BY <1>6, <2>2
  <2> QED
    BY <2>1, <2>2
<1>8. /\ GraphOver(graph', V) /\ h.edges \subseteq graph'.edges
      /\ insert <= Len(new_load_order) =>
            HasPath(graph', node, new_load_order[insert])
  <2>1. CASE insert <= Len(new_load_order)
    <3>1. insert \in 1..Len(new_load_order)
      BY <1>1, <1>3, <2>1
    <3>2. new_load_order[insert] \in V
      BY <3>1, ElementOfSeq DEF TieStateOver
    <3>3. node # new_load_order[insert]
      BY <1>4, <3>1, LenProperties DEF Processed, ToSet, TieStateOver
    <3>4. HasPath(graph, node, new_load_order[insert])
      BY <1>1, <1>3, <2>1, PathExistsExact DEF GraphOver
    <3>5. HasPath(h, node, new_load_order[insert])
      BY <1>6, <1>7, <3>4, ReachMonotonic DEF HasPath
    <3>6. GraphOver(add_edge(h, node, new_load_order[insert]), V)
      BY <1>2, <1>7, <3>2, <3>3, <3>5, AddEdgeAlongPathOver
    <3>7. LET k == add_edge(h, node, new_load_order[insert])
          IN h.edges \subseteq k.edges /\ HasPath(k, node, new_load_order[insert])
      BY <1>2, <1>7, <3>2, AddEdgeSound DEF GraphOver
    <3> QED
      BY <1>5, <2>1, <3>6, <3>7
  <2>2. CASE ~(insert <= Len(new_load_order))
    BY <1>5, <1>7, <2>2
  <2> QED
    BY <2>1, <2>2
<1>9. TieStateOver(V)'
  <2>1. insert \in 1..(Len(new_load_order) + 1)
    BY <1>1, <1>3
  <2>2. /\ new_load_order' = InsertAt(new_load_order, insert, node)
        /\ range_start' = insert
        /\ to_pin' = Tail(to_pin)
        /\ UNCHANGED <<load_order, window, tie_pc>>
    BY DEF PinNode
  <2>3. /\ new_load_order' \in Seq(V)
        /\ Len(new_load_order') = Len(new_load_order) + 1
    BY <1>2, <2>1, <2>2, InsertAtType DEF TieStateOver
  <2> HIDE DEF insert, node
  <2> QED
    BY <1>1, <1>2, <2>1, <2>2, <2>3 DEF TieStateOver
<1>10. graph.edges \subseteq graph'.edges
  BY <1>6, <1>7, <1>8
<1>11. before > range_start => HasPath(graph', new_load_order[before], node)
  BY <1>7, <1>8, ReachMonotonic DEF HasPath
<1> HIDE DEF h
<1> QED
  BY <1>2, <1>3, <1>8, <1>9, <1>10, <1>11, Zenon

\* A step of the tie-break loops adds edges between nodes only, and closes no
\* cycle.
LEMMA TieStepKeeps ==
    ASSUME NEW V \in SUBSET Plugins, GraphOver(graph, V), TieStateOver(V),
           TieStep
    PROVE  /\ GraphOver(graph', V) /\ TieStateOver(V)'
           /\ graph.edges \subseteq graph'.edges
<1>1. CASE KeepOrder
  BY <1>1, KeepOrderKeeps
<1>2. CASE StartWithPath \/ PinPath
  BY <1>2, TakePathKeeps
<1>3. CASE SkipPinned
  <2>1. Tail(to_pin) \in Seq(V)
    BY <1>3, HeadTailProperties DEF SkipPinned, TieStateOver
  <2> QED
    BY <1>3, <2>1 DEF SkipPinned, TieStateOver
<1>4. CASE PinNode
  BY <1>4, PinNodeKeeps
<1>5. CASE EndWindow
  <2>1. current \in V
    BY <1>5, LenProperties, ElementOfSeq DEF EndWindow, TieStateOver, current
  <2>2. new_load_order' \in Seq(V)
    BY <1>5, <2>1, AppendProperties DEF EndWindow, TieStateOver
  <2>3. Len(new_load_order') \in Nat
    BY <2>2, LenProperties
  <2> QED
    BY <1>5, <2>2, <2>3 DEF EndWindow, TieStateOver
<1>6. CASE TieDone
  BY <1>6 DEF TieDone, TieStateOver
<1> QED
  BY <1>1, <1>2, <1>3, <1>4, <1>5, <1>6 DEF TieStep

-----------------------------------------------------------------------------
\* The numbers and nodes that the actions name.
LEMMA TieFacts ==
    ASSUME NEW V \in SUBSET Plugins, TieStateOver(V)
    PROVE  /\ Len(load_order) \in Nat /\ Len(new_load_order) \in Nat
           /\ Len(to_pin) \in Nat
           /\ window \in Nat /\ window >= 1 /\ range_start \in 0..Len(new_load_order)
           /\ \A i \in 1..Len(load_order) : load_order[i] \in V
           /\ \A i \in 1..Len(new_load_order) : new_load_order[i] \in V
           /\ \A i \in 1..Len(to_pin) : to_pin[i] \in V
           /\ \A x : Processed(x) <=> \E i \in 1..Len(new_load_order) : x = new_load_order[i]
           /\ \A x : x \in ToSet(to_pin) <=> \E i \in 1..Len(to_pin) : x = to_pin[i]
           /\ new_load_order = <<>> <=> Len(new_load_order) = 0
BY LenProperties, ElementOfSeq, EmptySeq DEF TieStateOver, Processed, ToSet

\* Putting a node last that the last one has a path to.
LEMMA AppendKeepsPath ==
    ASSUME NEW V \in SUBSET Plugins, TieStateOver(V), NewOrderIsPath,
           NEW x \in V, new_load_order' = Append(new_load_order, x),
           graph.edges \subseteq graph'.edges,
           new_load_order # <<>> => HasPath(graph, Last(new_load_order), x)
    PROVE  /\ NewOrderIsPath'
           /\ \A y : Processed(y) => Processed(y)'
           /\ Processed(x)'
           /\ new_load_order' # <<>> /\ Last(new_load_order)' = x
<1>1. Len(new_load_order) \in Nat /\ new_load_order \in Seq(V)
  BY TieFacts DEF TieStateOver
<1>2. /\ new_load_order' \in Seq(V)
      /\ new_load_order' # <<>>
      /\ Len(new_load_order') = Len(new_load_order) + 1
      /\ \A i \in 1..Len(new_load_order) : new_load_order'[i] = new_load_order[i]
      /\ new_load_order'[Len(new_load_order) + 1] = x
  BY <1>1, AppendProperties
<1>3. NewOrderIsPath'
  <2> SUFFICES ASSUME NEW i \in 1..Len(new_load_order)
               PROVE  HasPath(graph', new_load_order'[i], new_load_order'[i + 1])
    BY <1>1, <1>2 DEF NewOrderIsPath
  <2>1. HasPath(graph, new_load_order'[i], new_load_order'[i + 1])
    <3>1. CASE i = Len(new_load_order)
      BY <1>1, <1>2, <3>1, EmptySeq DEF Last
    <3>2. CASE i < Len(new_load_order)
      <4>1. i \in 1..(Len(new_load_order) - 1) /\ i + 1 \in 1..Len(new_load_order)
        BY <1>1, <3>2
      <4>2. HasPath(graph, new_load_order[i], new_load_order[i + 1])
        BY <4>1 DEF NewOrderIsPath
      <4> QED
        BY <1>2, <4>1, <4>2
    <3> QED
      BY <1>1, <3>1, <3>2
  <2> QED
    BY <2>1, ReachMonotonic DEF HasPath
<1>4. DOMAIN new_load_order = 1..Len(new_load_order)
  BY <1>1, LenProperties
<1>5. DOMAIN new_load_order' = 1..(Len(new_load_order) + 1)
  BY <1>2, LenProperties
<1>6. \A y : Processed(y) => Processed(y)'
  <2> SUFFICES ASSUME NEW i \in 1..Len(new_load_order)
               PROVE  \E j \in 1..(Len(new_load_order) + 1) :
                         new_load_order[i] = new_load_order'[j]
    BY <1>4, <1>5 DEF Processed, ToSet
  <2> QED
    BY <1>1, <1>2
<1>7. Processed(x)'
  BY <1>1, <1>2, <1>5 DEF Processed, ToSet
<1> QED
  BY <1>2, <1>3, <1>6, <1>7 DEF Last

\* Steps that leave the new load order alone leave it a path.
LEMMA SameOrderKeepsPath ==
    ASSUME NewOrderIsPath, UNCHANGED new_load_order,
           graph.edges \subseteq graph'.edges
    PROVE  NewOrderIsPath' /\ \A y : Processed(y) <=> Processed(y)'
BY ReachMonotonic DEF NewOrderIsPath, HasPath, Processed

\* KeepOrder keeps the new load order a path that fits.
LEMMA KeepOrderFits ==
    ASSUME NEW V \in SUBSET Plugins, TieInv(V), KeepOrder
    PROVE  (NewOrderIsPath /\ PastPlaced /\ CurrentFits /\ PinsFit)'
<1>1. /\ GraphOver(graph, V) /\ TieStateOver(V) /\ NewOrderIsPath
      /\ PastPlaced /\ CurrentFits
  BY DEF TieInv
<1>2. /\ Len(load_order) \in Nat /\ window \in Nat /\ window >= 1
      /\ window < Len(load_order) /\ tie_pc = "window"
  BY <1>1, TieFacts DEF KeepOrder, WindowsLeft
<1>3. PICK c \in V, n \in V : /\ c = current /\ n = next
                             /\ c = load_order[window] /\ n = load_order[window + 1]
  BY <1>1, <1>2, TieFacts DEF current, next
<1>4. graph.edges \subseteq graph'.edges /\ HasPath(graph', c, n)
  BY <1>1, <1>3, KeepOrderKeeps
<1>5. load_order' = load_order /\ range_start' = 0
  BY DEF KeepOrder
<1>6. /\ \A i \in 1..(window - 1) : Processed(load_order[i])
      /\ window = 1 => new_load_order = <<>>
  BY <1>1 DEF PastPlaced
<1>7. CASE ~Processed(c)
  <2>1. /\ new_load_order' = Append(new_load_order, c)
        /\ window' = window + 1 /\ tie_pc' = "window"
    BY <1>3, <1>7 DEF KeepOrder
  <2>2. new_load_order # <<>> => HasPath(graph, Last(new_load_order), c)
    BY <1>1, <1>2, <1>3, <1>7 DEF CurrentFits
  <2>3. /\ NewOrderIsPath'
        /\ \A y : Processed(y) => Processed(y)'
        /\ Processed(c)'
        /\ new_load_order' # <<>> /\ Last(new_load_order)' = c
    BY <1>1, <1>4, <2>1, <2>2, AppendKeepsPath
  <2>4. PastPlaced'
    <3>1. \A i \in 1..window : Processed(load_order[i])'
      BY <1>2, <1>3, <1>5, <1>6, <2>3
    <3> QED
      BY <1>2, <1>5, <2>1, <3>1 DEF PastPlaced
  <2>5. CurrentFits'
    BY <1>2, <1>3, <1>4, <1>5, <2>1, <2>3 DEF CurrentFits, current
  <2> QED
    BY <2>1, <2>3, <2>4, <2>5 DEF PinsFit
<1>8. CASE Processed(c) /\ Last(new_load_order) # c
  <2>1. /\ new_load_order' = new_load_order /\ to_pin' = <<n>>
        /\ window' = window /\ tie_pc' = "pin"
    BY <1>3, <1>8 DEF KeepOrder
  <2>2. NewOrderIsPath' /\ \A y : Processed(y) <=> Processed(y)'
    BY <1>1, <1>4, <2>1, SameOrderKeepsPath
  <2>3. PastPlaced'
    BY <1>2, <1>5, <1>6, <2>1, <2>2 DEF PastPlaced
  <2>4. current' = c /\ next' = n
    BY <1>3, <1>5, <2>1 DEF current, next
  <2>5. CurrentFits'
    BY <1>8, <2>2, <2>4 DEF CurrentFits
  <2>6. PinsFit'
    <3>1. n \in ToSet(to_pin')
      BY <2>1 DEF ToSet
    <3>2. window > 1
      BY <1>1, <1>2, <1>6, <1>8, TieFacts
    <3> QED
      BY <1>5, <1>8, <2>1, <2>2, <2>4, <3>1, <3>2 DEF PinsFit
  <2> QED
    BY <2>2, <2>3, <2>5, <2>6
<1>9. CASE Processed(c) /\ Last(new_load_order) = c
  <2>1. /\ new_load_order' = new_load_order
        /\ window' = window + 1 /\ tie_pc' = "window"
    BY <1>3, <1>9 DEF KeepOrder
  <2>2. NewOrderIsPath' /\ \A y : Processed(y) <=> Processed(y)'
    BY <1>1, <1>4, <2>1, SameOrderKeepsPath
  <2>3. new_load_order # <<>>
    BY <1>1, <1>9, TieFacts
  <2>4. PastPlaced'
    <3>1. \A i \in 1..window : Processed(load_order[i])'
      BY <1>2, <1>3, <1>5, <1>6, <1>9, <2>2
    <3> QED
      BY <1>2, <1>5, <2>1, <3>1 DEF PastPlaced
  <2>5. CurrentFits'
    BY <1>3, <1>4, <1>5, <1>9, <2>1 DEF CurrentFits, current
  <2> QED
    BY <2>1, <2>2, <2>4, <2>5 DEF PinsFit
<1> QED
  BY <1>7, <1>8, <1>9

\* The nodes of a path that was found, and of its front.
FoundPath(V, a, b, p) ==
    /\ p \in Seq(V) /\ Len(p) \in Nat /\ Len(p) > 1
    /\ p[1] = a /\ p[Len(p)] = b
    /\ \A i \in 1..(Len(p) - 1) : HasPath(graph, p[i], p[i + 1])
    /\ \A i, j \in 1..Len(p) : i <= j => HasPath(graph, p[i], p[j])
    /\ Front(p) \in Seq(V) /\ Len(Front(p)) = Len(p) - 1
    /\ \A i \in 1..(Len(p) - 1) : Front(p)[i] = p[i]

\* That is what find_path finds between two different nodes.
LEMMA FindPathsElements ==
    ASSUME NEW V \in SUBSET Plugins, graph.edges \subseteq V \X V,
           NEW a \in V, NEW b \in V, NEW p \in FindPaths(graph, a, b), a # b
    PROVE  FoundPath(V, a, b, p)
<1>1. p \in Seq(V) /\ Front(p) \in Seq(V)
  BY FindPathsInNodes
<1>2. Len(p) \in Nat
  BY <1>1, LenProperties
<1>3. /\ Len(p) > 0 /\ p[1] = a /\ p[Len(p)] = b
      /\ \A i \in 1..(Len(p) - 1) : <<p[i], p[i + 1]>> \in graph.edges
  BY DEF FindPaths, IsPath
<1>4. Len(p) > 1
  BY <1>2, <1>3
<1>5. \A i \in 1..(Len(p) - 1) : HasPath(graph, p[i], p[i + 1])
  BY <1>3, ReachEdge DEF HasPath
<1>6. \A i, j \in 1..Len(p) : i <= j => HasPath(graph, p[i], p[j])
  BY <1>2, <1>5, ChainReaches DEF HasPath
<1>7. \A i \in 1..(Len(p) - 1) : p[i] \in V
  BY <1>1, <1>2, ElementOfSeq
<1>8. /\ Len(Front(p)) = Len(p) - 1
      /\ \A i \in 1..(Len(p) - 1) : Front(p)[i] = p[i]
  BY <1>2, <1>4, <1>7, SubSeqProperties DEF Front
<1> QED
  BY <1>1, <1>2, <1>3, <1>4, <1>5, <1>6, <1>8 DEF FoundPath

\* What both actions that take over a path begin from.
LEMMA TakePathFacts ==
    ASSUME NEW V \in SUBSET Plugins, TieInv(V), WindowsLeft
    PROVE  /\ GraphOver(graph, V) /\ TieStateOver(V)
           /\ window \in 1..(Len(load_order) - 1) /\ Len(load_order) \in Nat
           /\ current \in V /\ next \in V /\ current # next
           /\ current = load_order[window] /\ next = load_order[window + 1]
           /\ tie_pc = "window"
<1>1. GraphOver(graph, V) /\ TieStateOver(V) /\ OrderOf(V)
  BY DEF TieInv
<1>2. /\ window \in 1..(Len(load_order) - 1) /\ Len(load_order) \in Nat
      /\ tie_pc = "window"
  BY <1>1, TieFacts DEF WindowsLeft
<1>3. current \in V /\ next \in V
  BY <1>1, <1>2, TieFacts DEF current, next
<1>4. current # next
  BY <1>1, <1>2 DEF OrderOf, current, next
<1> QED
  BY <1>1, <1>2, <1>3, <1>4 DEF current, next

\* A path that starts the new load order.
LEMMA StartWithPathFits ==
    ASSUME NEW V \in SUBSET Plugins, TieInv(V), StartWithPath
    PROVE  (NewOrderIsPath /\ PastPlaced /\ CurrentFits /\ PinsFit)'
<1>1. /\ GraphOver(graph, V) /\ TieStateOver(V)
      /\ window = 1 /\ Len(load_order) \in Nat /\ Len(load_order) > 1
      /\ tie_pc = "window"
  BY TakePathFacts DEF StartWithPath
<1>2. PICK c \in V, n \in V : /\ c = current /\ n = next /\ c # n
                             /\ c = load_order[1] /\ n = load_order[2]
  BY <1>1, TakePathFacts DEF StartWithPath
<1>3. PICK p \in FindPaths(graph, n, c) : new_load_order' = new_load_order \o p
  BY <1>2 DEF StartWithPath
<1>4. /\ p \in Seq(V) /\ Len(p) \in Nat /\ Len(p) > 1
      /\ p[1] = n /\ p[Len(p)] = c
      /\ \A i \in 1..(Len(p) - 1) : HasPath(graph, p[i], p[i + 1])
  <2>1. graph.edges \subseteq V \X V
    BY <1>1 DEF GraphOver
  <2>2. FoundPath(V, n, c, p)
    BY <1>2, <2>1, FindPathsElements
  <2> QED
    BY <2>2 DEF FoundPath
<1>5. new_load_order' = p
  BY <1>1, <1>3, <1>4, ConcatEmptySeq DEF TieInv, PastPlaced
<1>6. /\ graph'.edges = graph.edges
      /\ window' = 2 /\ load_order' = load_order /\ tie_pc' = "window"
  BY <1>1, TakePathKeeps DEF StartWithPath
<1>7. NewOrderIsPath'
  BY <1>4, <1>5, <1>6 DEF NewOrderIsPath, HasPath
<1>8. Processed(n)' /\ Processed(c)'
  <2>1. DOMAIN p = 1..Len(p)
    BY <1>4, LenProperties
  <2> QED
    BY <1>4, <1>5, <2>1 DEF Processed, ToSet
<1>9. current' = n
  BY <1>2, <1>6 DEF current
<1>10. PastPlaced'
  <2>1. \A i \in 1..(2 - 1) : i = 1
    OBVIOUS
  <2>2. \A i \in 1..(2 - 1) : Processed(load_order[i])'
    BY <1>2, <1>6, <1>8, <2>1
  <2> QED
    BY <1>1, <1>6, <2>2 DEF PastPlaced
<1> QED
  BY <1>6, <1>7, <1>8, <1>9, <1>10 DEF CurrentFits, PinsFit

\* A path whose nodes are to be pinned.
LEMMA PinPathFits ==
    ASSUME NEW V \in SUBSET Plugins, TieInv(V), PinPath
    PROVE  (NewOrderIsPath /\ PastPlaced /\ CurrentFits /\ PinsFit)'
<1>1. /\ GraphOver(graph, V) /\ TieStateOver(V)
      /\ window \in 1..(Len(load_order) - 1) /\ Len(load_order) \in Nat
      /\ window > 1
  BY TakePathFacts DEF PinPath
<1>2. PICK c \in V, n \in V : /\ c = current /\ n = next /\ c # n
                             /\ c = load_order[window] /\ n = load_order[window + 1]
  BY TakePathFacts DEF PinPath
<1>3. PICK p \in FindPaths(graph, n, c) : to_pin' = Front(p)
  BY <1>2 DEF PinPath
<1>4. /\ Len(p) \in Nat /\ Len(p) > 1
      /\ p[1] = n /\ p[Len(p)] = c
      /\ \A i, j \in 1..Len(p) : i <= j => HasPath(graph, p[i], p[j])
      /\ Front(p) \in Seq(V) /\ Len(Front(p)) = Len(p) - 1
      /\ \A i \in 1..(Len(p) - 1) : Front(p)[i] = p[i]
  <2>1. graph.edges \subseteq V \X V
    BY <1>1 DEF GraphOver
  <2>2. FoundPath(V, n, c, p)
    BY <1>2, <2>1, FindPathsElements
  <2> QED
    BY <2>2 DEF FoundPath
<1>5. /\ graph'.edges = graph.edges
      /\ load_order' = load_order /\ window' = window /\ tie_pc' = "pin"
      /\ new_load_order' = new_load_order /\ range_start' = 0
  BY <1>1, TakePathKeeps DEF PinPath
<1>6. NewOrderIsPath' /\ \A y : Processed(y) <=> Processed(y)'
  BY <1>5, SameOrderKeepsPath DEF TieInv
<1>7. PastPlaced'
  BY <1>1, <1>5, <1>6 DEF TieInv, PastPlaced
<1>8. current' = c /\ next' = n
  BY <1>2, <1>5 DEF current, next
<1>9. CurrentFits'
  BY <1>2, <1>5, <1>6, <1>8 DEF TieInv, CurrentFits, HasPath
<1>10. PinsFit'
  <2>1. \A i, j \in 1..Len(to_pin') : i < j => HasPath(graph', to_pin'[i], to_pin'[j])
    BY <1>3, <1>4, <1>5 DEF HasPath
  <2>2. \A i \in 1..Len(to_pin') : HasPath(graph', to_pin'[i], c)
    BY <1>3, <1>4, <1>5 DEF HasPath
  <2>3. n \in ToSet(to_pin')
    <3>1. DOMAIN Front(p) = 1..Len(Front(p))
      BY <1>4, LenProperties
    <3>2. 1 \in DOMAIN Front(p) /\ Front(p)[1] = n
      BY <1>4, <3>1
    <3> QED
      BY <1>3, <3>2 DEF ToSet
  <2> QED
    BY <1>1, <1>5, <1>8, <2>1, <2>2, <2>3 DEF PinsFit
<1> QED
  BY <1>6, <1>7, <1>9, <1>10

\* A node to be pinned that already has its place.
LEMMA SkipPinnedFits ==
    ASSUME NEW V \in SUBSET Plugins, TieInv(V), SkipPinned
    PROVE  (NewOrderIsPath /\ PastPlaced /\ CurrentFits /\ PinsFit)'
<1>1. TieStateOver(V) /\ Len(to_pin) \in Nat /\ tie_pc = "pin"
  BY TieFacts DEF TieInv, SkipPinned
<1>2. /\ graph' = graph /\ load_order' = load_order /\ window' = window
      /\ new_load_order' = new_load_order /\ range_start' = range_start
      /\ tie_pc' = tie_pc
  BY DEF SkipPinned
<1>3. /\ to_pin' = Tail(to_pin) /\ Len(to_pin) > 0
      /\ Len(to_pin') = Len(to_pin) - 1
      /\ \A i \in 1..(Len(to_pin) - 1) : to_pin'[i] = to_pin[i + 1]
      /\ Head(to_pin) = to_pin[1] /\ Processed(to_pin[1])
      /\ DOMAIN to_pin = 1..Len(to_pin) /\ DOMAIN to_pin' = 1..(Len(to_pin) - 1)
  BY <1>1, HeadTailProperties, EmptySeq, LenProperties DEF SkipPinned, TieStateOver
<1>4. (NewOrderIsPath /\ PastPlaced /\ CurrentFits)'
  BY <1>2 DEF TieInv, NewOrderIsPath, PastPlaced, CurrentFits, Processed, current
<1>5. /\ window > 1
      /\ \A i, j \in 1..Len(to_pin) : i < j => HasPath(graph, to_pin[i], to_pin[j])
      /\ \A i \in 1..Len(to_pin) :
            /\ range_start > 0 => HasPath(graph, new_load_order[range_start], to_pin[i])
            /\ ~Processed(current) => HasPath(graph, to_pin[i], current)
      /\ Processed(next) \/ next \in ToSet(to_pin)
  BY <1>1 DEF TieInv, PinsFit
<1>6. current' = current /\ next' = next /\ \A y : Processed(y)' <=> Processed(y)
  BY <1>2 DEF current, next, Processed
<1>7. \A i, j \in 1..Len(to_pin') : i < j => HasPath(graph, to_pin'[i], to_pin'[j])
  <2> SUFFICES ASSUME NEW i \in 1..(Len(to_pin) - 1), NEW j \in 1..(Len(to_pin) - 1), i < j
               PROVE  HasPath(graph, to_pin[i + 1], to_pin[j + 1])
    BY <1>3
  <2>1. i + 1 \in 1..Len(to_pin) /\ j + 1 \in 1..Len(to_pin) /\ i + 1 < j + 1
    BY <1>1
  <2> QED
    BY <1>5, <2>1
<1>8. ASSUME NEW i \in 1..Len(to_pin')
      PROVE  /\ range_start > 0 => HasPath(graph, new_load_order[range_start], to_pin'[i])
             /\ ~Processed(current) => HasPath(graph, to_pin'[i], current)
  <2>1. i + 1 \in 1..Len(to_pin) /\ to_pin'[i] = to_pin[i + 1]
    BY <1>1, <1>3
  <2> QED
    BY <1>5, <2>1
<1>9. Processed(next) \/ next \in ToSet(to_pin')
  <2>1. CASE next \in ToSet(to_pin)
    <3>1. PICK k \in 1..Len(to_pin) : next = to_pin[k]
      BY <1>3, <2>1 DEF ToSet
    <3>2. CASE k = 1
      BY <1>3, <3>1, <3>2
    <3>3. CASE k > 1
      <4>1. k - 1 \in 1..(Len(to_pin) - 1) /\ (k - 1) + 1 = k
        BY <1>1, <3>3
      <4>2. to_pin'[k - 1] = next
        BY <1>3, <3>1, <4>1
      <4> QED
        BY <1>3, <4>1, <4>2 DEF ToSet
    <3> QED
      BY <1>1, <3>2, <3>3
  <2> QED
    BY <1>5, <2>1
<1>10. PinsFit'
  BY <1>2, <1>5, <1>6, <1>7, <1>8, <1>9 DEF PinsFit
<1> QED
  BY <1>4, <1>10

\* What a pinning does to the new load order and the nodes left to pin.
LEMMA PinNodeFacts ==
    ASSUME NEW V \in SUBSET Plugins, GraphOver(graph, V), TieStateOver(V),
           PinNode
    PROVE  \E insert \in 1..(Len(new_load_order) + 1) :
              /\ insert - 1 >= range_start
              /\ Len(to_pin) > 0 /\ to_pin[1] \in V /\ ~Processed(to_pin[1])
              /\ graph.edges \subseteq graph'.edges
              /\ insert - 1 > range_start =>
                    HasPath(graph', new_load_order[insert - 1], to_pin[1])
              /\ insert <= Len(new_load_order) =>
                    HasPath(graph', to_pin[1], new_load_order[insert])
              /\ Len(new_load_order') = Len(new_load_order) + 1
              /\ \A k \in 1..(insert - 1) : new_load_order'[k] = new_load_order[k]
              /\ new_load_order'[insert] = to_pin[1]
              /\ \A k \in (insert + 1)..(Len(new_load_order) + 1) :
                    new_load_order'[k] = new_load_order[k - 1]
              /\ range_start' = insert
<1> DEFINE insert == PreviousPosition(Head(to_pin)) + 1
<1>1. Len(new_load_order) \in Nat /\ range_start \in 0..Len(new_load_order)
  BY TieFacts
<1>2. Len(to_pin) > 0 /\ Head(to_pin) = to_pin[1]
  BY TieFacts, HeadTailProperties, EmptySeq DEF PinNode, TieStateOver
<1>3. ~Processed(to_pin[1])
  BY <1>2 DEF PinNode
<1>4. /\ new_load_order' = InsertAt(new_load_order, insert, to_pin[1])
      /\ range_start' = insert
  BY <1>2 DEF PinNode
<1>5. /\ to_pin[1] \in V
      /\ PreviousPosition(to_pin[1]) \in range_start..Len(new_load_order)
      /\ graph.edges \subseteq graph'.edges
      /\ PreviousPosition(to_pin[1]) > range_start =>
            HasPath(graph', new_load_order[PreviousPosition(to_pin[1])], to_pin[1])
      /\ PreviousPosition(to_pin[1]) + 1 <= Len(new_load_order) =>
            HasPath(graph', to_pin[1], new_load_order[PreviousPosition(to_pin[1]) + 1])
  BY <1>2, PinNodeKeeps
<1>6. PICK before \in range_start..Len(new_load_order) :
          before = PreviousPosition(to_pin[1])
  BY <1>5
<1>7. insert = before + 1 /\ insert \in 1..(Len(new_load_order) + 1)
      /\ insert - 1 = before
  BY <1>1, <1>2, <1>6
<1> HIDE DEF insert
<1>8. /\ Len(new_load_order') = Len(new_load_order) + 1
      /\ \A k \in 1..(insert - 1) : new_load_order'[k] = new_load_order[k]
      /\ new_load_order'[insert] = to_pin[1]
      /\ \A k \in (insert + 1)..(Len(new_load_order) + 1) :
            new_load_order'[k] = new_load_order[k - 1]
  <2>1. new_load_order \in Seq(V) /\ to_pin[1] \in V
    BY <1>5 DEF TieStateOver
  <2>2. Len(new_load_order') = Len(new_load_order) + 1
    BY <1>4, <1>7, <2>1, InsertAtType
  <2>3. /\ \A k \in 1..(insert - 1) : new_load_order'[k] = new_load_order[k]
        /\ new_load_order'[insert] = to_pin[1]
    BY <1>4, <1>7, <2>1, InsertAtElements
  <2>4. \A k \in (insert + 1)..(Len(new_load_order) + 1) :
            new_load_order'[k] = new_load_order[k - 1]
    BY <1>4, <1>7, <2>1, InsertAtElements
  <2> QED
    BY <2>2, <2>3, <2>4
<1>9. insert \in 1..(Len(new_load_order) + 1)
  BY <1>7
<1> WITNESS insert \in 1..(Len(new_load_order) + 1)
<1> QED
  BY <1>2, <1>3, <1>4, <1>5, <1>6, <1>7, <1>8

\* A pinned node goes between two nodes that have paths to and from it.
LEMMA PinNodeFits ==
    ASSUME NEW V \in SUBSET Plugins, TieInv(V), PinNode
    PROVE  (NewOrderIsPath /\ PastPlaced /\ CurrentFits /\ PinsFit)'
<1>1. GraphOver(graph, V) /\ TieStateOver(V) /\ TieStateOver(V)'
  BY PinNodeKeeps DEF TieInv
<1>2. /\ NewOrderIsPath /\ PastPlaced /\ CurrentFits /\ window > 1
      /\ \A i, j \in 1..Len(to_pin) : i < j => HasPath(graph, to_pin[i], to_pin[j])
      /\ \A i \in 1..Len(to_pin) :
            /\ range_start > 0 => HasPath(graph, new_load_order[range_start], to_pin[i])
            /\ ~Processed(current) => HasPath(graph, to_pin[i], current)
      /\ Processed(next) \/ next \in ToSet(to_pin)
  BY DEF TieInv, PinsFit, PinNode
<1>3. PICK node \in V, insert \in 1..(Len(new_load_order) + 1) :
          /\ node = to_pin[1]
          /\ insert - 1 >= range_start
          /\ Len(to_pin) > 0 /\ ~Processed(node)
          /\ graph.edges \subseteq graph'.edges
          /\ insert - 1 > range_start =>
                HasPath(graph', new_load_order[insert - 1], node)
          /\ insert <= Len(new_load_order) =>
                HasPath(graph', node, new_load_order[insert])
          /\ Len(new_load_order') = Len(new_load_order) + 1
          /\ \A k \in 1..(insert - 1) : new_load_order'[k] = new_load_order[k]
          /\ new_load_order'[insert] = node
          /\ \A k \in (insert + 1)..(Len(new_load_order) + 1) :
                new_load_order'[k] = new_load_order[k - 1]
          /\ range_start' = insert
  BY <1>1, PinNodeFacts
<1>4. /\ load_order' = load_order /\ window' = window /\ tie_pc' = tie_pc
      /\ tie_pc = "pin" /\ current' = current /\ next' = next
  BY DEF PinNode, current, next
<1>5. Len(new_load_order) \in Nat /\ range_start \in 0..Len(new_load_order)
  BY <1>1, TieFacts
<1>6. \A x, y : HasPath(graph, x, y) => HasPath(graph', x, y)
  BY <1>3, ReachMonotonic DEF HasPath
<1>7. NewOrderIsPath'
  <2> SUFFICES ASSUME NEW i \in 1..Len(new_load_order)
               PROVE  HasPath(graph', new_load_order'[i], new_load_order'[i + 1])
    BY <1>3, <1>5 DEF NewOrderIsPath
  <2>1. CASE i + 1 < insert
    <3>1. i \in 1..(Len(new_load_order) - 1)
          /\ i \in 1..(insert - 1) /\ i + 1 \in 1..(insert - 1)
      BY <1>5, <2>1
    <3> QED
      BY <1>2, <1>3, <1>6, <3>1 DEF NewOrderIsPath
  <2>2. CASE i + 1 = insert
    <3>1. i = insert - 1 /\ i \in 1..(insert - 1)
      BY <1>5, <2>2
    <3>2. HasPath(graph', new_load_order[i], node)
      <4>1. CASE i > range_start
        BY <1>3, <3>1, <4>1
      <4>2. CASE i = range_start
        BY <1>2, <1>3, <1>6, <4>2
      <4> QED
        BY <1>3, <1>5, <3>1, <4>1, <4>2
    <3> QED
      BY <1>3, <2>2, <3>1, <3>2
  <2>3. CASE i = insert
    <3>1. insert + 1 \in (insert + 1)..(Len(new_load_order) + 1)
          /\ (insert + 1) - 1 = insert /\ insert <= Len(new_load_order)
      BY <1>5, <2>3
    <3> QED
      BY <1>3, <2>3, <3>1
  <2>4. CASE i > insert
    <3>1. /\ i \in (insert + 1)..(Len(new_load_order) + 1)
          /\ i + 1 \in (insert + 1)..(Len(new_load_order) + 1)
          /\ i - 1 \in 1..(Len(new_load_order) - 1)
          /\ (i - 1) + 1 = i /\ (i + 1) - 1 = i
      BY <1>5, <2>4
    <3>2. HasPath(graph, new_load_order[i - 1], new_load_order[i])
      BY <1>2, <3>1 DEF NewOrderIsPath
    <3> QED
      BY <1>3, <1>6, <3>1, <3>2
  <2> QED
    BY <1>5, <2>1, <2>2, <2>3, <2>4
<1>8. /\ \A y : Processed(y) => Processed(y)'
      /\ Processed(node)'
  <2>1. \A y : Processed(y)' <=> \E i \in 1..Len(new_load_order') : y = new_load_order'[i]
    BY <1>1, LenProperties DEF TieStateOver, Processed, ToSet
  <2>2. ASSUME NEW y, Processed(y)
        PROVE  Processed(y)'
    <3>1. PICK i \in 1..Len(new_load_order) : y = new_load_order[i]
      BY <1>1, <2>2, TieFacts
    <3>2. CASE i < insert
      <4>1. i \in 1..(insert - 1) /\ i \in 1..(Len(new_load_order) + 1)
        BY <1>5, <3>2
      <4> QED
        BY <1>3, <2>1, <3>1, <4>1
    <3>3. CASE i >= insert
      <4>1. /\ i + 1 \in (insert + 1)..(Len(new_load_order) + 1)
            /\ i + 1 \in 1..(Len(new_load_order) + 1) /\ (i + 1) - 1 = i
        BY <1>5, <3>3
      <4> QED
        BY <1>3, <2>1, <3>1, <4>1
    <3> QED
      BY <1>5, <3>2, <3>3
  <2>3. Processed(node)'
    BY <1>3, <2>1
  <2> QED
    BY <2>2, <2>3
<1>9. PastPlaced'
  BY <1>2, <1>4, <1>8 DEF PastPlaced
<1>10. CurrentFits'
  <2> SUFFICES ASSUME window <= Len(load_order), ~Processed(current)
               PROVE  HasPath(graph', new_load_order'[Len(new_load_order) + 1], current)
    BY <1>3, <1>4, <1>8 DEF CurrentFits, Last
  <2>1. CASE insert = Len(new_load_order) + 1
    BY <1>2, <1>3, <1>6, <2>1
  <2>2. CASE insert <= Len(new_load_order)
    <3>1. /\ Len(new_load_order) + 1 \in (insert + 1)..(Len(new_load_order) + 1)
          /\ (Len(new_load_order) + 1) - 1 = Len(new_load_order)
          /\ Len(new_load_order) # 0
      BY <1>5, <2>2
    <3>2. HasPath(graph, Last(new_load_order), current)
      BY <1>1, <1>2, <3>1, TieFacts DEF CurrentFits
    <3> QED
      BY <1>3, <1>6, <3>1, <3>2 DEF Last
  <2> QED
    BY <1>5, <2>1, <2>2
<1>11. /\ Len(to_pin) \in Nat
       /\ Len(to_pin') = Len(to_pin) - 1
       /\ \A i \in 1..(Len(to_pin) - 1) : to_pin'[i] = to_pin[i + 1]
  BY <1>1, <1>3, TieFacts, HeadTailProperties, EmptySeq DEF PinNode, TieStateOver
<1>12. \A i, j \in 1..Len(to_pin') : i < j => HasPath(graph', to_pin'[i], to_pin'[j])
  <2> SUFFICES ASSUME NEW i \in 1..(Len(to_pin) - 1), NEW j \in 1..(Len(to_pin) - 1), i < j
               PROVE  HasPath(graph', to_pin[i + 1], to_pin[j + 1])
    BY <1>11
  <2>1. i + 1 \in 1..Len(to_pin) /\ j + 1 \in 1..Len(to_pin) /\ i + 1 < j + 1
    BY <1>11
  <2> QED
    BY <1>2, <1>6, <2>1
<1>13. ASSUME NEW i \in 1..Len(to_pin')
       PROVE  /\ HasPath(graph', new_load_order'[range_start'], to_pin'[i])
              /\ ~Processed(current)' => HasPath(graph', to_pin'[i], current')
  <2>1. i + 1 \in 1..Len(to_pin) /\ 1 \in 1..Len(to_pin) /\ 1 < i + 1
        /\ to_pin'[i] = to_pin[i + 1]
    BY <1>11
  <2> QED
    BY <1>2, <1>3, <1>4, <1>6, <1>8, <2>1
<1>14. Processed(next)' \/ next \in ToSet(to_pin')
  <2>1. CASE next \in ToSet(to_pin)
    <3>1. PICK k \in 1..Len(to_pin) : next = to_pin[k]
      BY <1>1, <2>1, TieFacts
    <3>2. CASE k = 1
      BY <1>3, <1>4, <1>8, <3>1, <3>2
    <3>3. CASE k > 1
      <4>1. k - 1 \in 1..(Len(to_pin) - 1) /\ (k - 1) + 1 = k
        BY <1>11, <3>3
      <4>2. to_pin'[k - 1] = next
        BY <1>11, <3>1, <4>1
      <4>3. DOMAIN to_pin' = 1..(Len(to_pin) - 1)
        BY <1>1, <1>11, LenProperties DEF TieStateOver
      <4> QED
        BY <4>1, <4>2, <4>3 DEF ToSet
    <3> QED
      BY <1>11, <3>2, <3>3
  <2> QED
    BY <1>2, <1>4, <1>8, <2>1
<1>15. PinsFit'
  BY <1>2, <1>4, <1>12, <1>13, <1>14 DEF PinsFit, Processed, current, next
<1> QED
  BY <1>7, <1>9, <1>10, <1>15

\* The end of a window with pins: current has a place or can go last.
LEMMA EndWindowFits ==
    ASSUME NEW V \in SUBSET Plugins, TieInv(V), EndWindow
    PROVE  (NewOrderIsPath /\ PastPlaced /\ CurrentFits /\ PinsFit)'
<1>1. /\ TieStateOver(V) /\ NewOrderIsPath /\ PastPlaced /\ CurrentFits
      /\ Processed(next) \/ next \in ToSet(to_pin)
  BY DEF TieInv, PinsFit, EndWindow
<1>2. /\ Len(load_order) \in Nat /\ window \in Nat /\ window >= 1
      /\ window < Len(load_order)
  BY <1>1, TieFacts DEF EndWindow, TieStateOver
<1>3. PICK c \in V, n \in V : /\ c = current /\ n = next
                             /\ c = load_order[window] /\ n = load_order[window + 1]
  BY <1>1, <1>2, TieFacts DEF current, next
<1>4. Processed(n)
  <2>1. to_pin = <<>>
    BY DEF EndWindow
  <2>2. ToSet(to_pin) = {}
    BY <2>1 DEF ToSet
  <2> QED
    BY <1>1, <1>3, <2>2
<1>5. /\ graph' = graph /\ load_order' = load_order
      /\ window' = window + 1 /\ tie_pc' = "window"
  BY DEF EndWindow
<1>6. /\ NewOrderIsPath' /\ \A y : Processed(y) => Processed(y)'
      /\ Processed(c)'
  <2>1. CASE Processed(c)
    <3>1. new_load_order' = new_load_order
      BY <1>3, <2>1 DEF EndWindow
    <3> QED
      BY <1>1, <1>5, <2>1, <3>1, SameOrderKeepsPath
  <2>2. CASE ~Processed(c)
    <3>1. new_load_order' = Append(new_load_order, c)
      BY <1>3, <2>2 DEF EndWindow
    <3>2. new_load_order # <<>> => HasPath(graph, Last(new_load_order), c)
      BY <1>1, <1>2, <1>3, <2>2 DEF CurrentFits
    <3> QED
      BY <1>1, <1>5, <3>1, <3>2, AppendKeepsPath
  <2> QED
    BY <2>1, <2>2
<1>7. PastPlaced'
  <2>1. \A i \in 1..window : Processed(load_order[i])'
    BY <1>1, <1>2, <1>3, <1>5, <1>6 DEF PastPlaced
  <2> QED
    BY <1>2, <1>5, <2>1 DEF PastPlaced
<1>8. CurrentFits'
  BY <1>2, <1>3, <1>4, <1>5, <1>6 DEF CurrentFits, current
<1> QED
  BY <1>5, <1>6, <1>7, <1>8 DEF PinsFit

\* The end of the windows changes nothing but the position in the code.
LEMMA TieDoneFits ==
    ASSUME NEW V \in SUBSET Plugins, TieInv(V), TieDone
    PROVE  (NewOrderIsPath /\ PastPlaced /\ CurrentFits /\ PinsFit)'
BY DEF TieDone, TieInv, NewOrderIsPath, PastPlaced, CurrentFits, PinsFit,
       Processed, current

\* No path goes back in a load order that satisfies every edge.
LEMMA NoPathBack ==
    ASSUME NEW V \in SUBSET Plugins, TieInv(V), WindowsLeft, InOrder
    PROVE  ~HasPath(graph, next, current)
<1>1. /\ graph.edges \subseteq V \X V /\ Len(load_order) \in Nat
      /\ window \in 1..(Len(load_order) - 1)
      /\ current = load_order[window] /\ next = load_order[window + 1]
  BY TakePathFacts DEF GraphOver
<1>2. /\ \A i \in 1..Len(load_order) : load_order[i] \in V
      /\ \A v \in V : \E i \in 1..Len(load_order) : v = load_order[i]
      /\ \A i, j \in 1..Len(load_order) : i # j => load_order[i] # load_order[j]
  BY TieFacts DEF TieInv, OrderOf
<1>3. \A i, j \in 1..Len(load_order) :
          <<load_order[i], load_order[j]>> \in graph.edges => i < j
  BY DEF InOrder
<1>4. window \in 1..Len(load_order) /\ window + 1 \in 1..Len(load_order)
      /\ ~(window + 1 <= window)
  BY <1>1
<1> QED
  BY <1>1, <1>2, <1>3, <1>4, PathGoesForward DEF HasPath

\* While the load order satisfies every edge a step takes over the current node
\* and joins it to the next one, changes no edge, or both.
LEMMA GoodOrderSteps ==
    ASSUME NEW V \in SUBSET Plugins, TieInv(V), InOrder, TieStep
    PROVE  \/ /\ KeepOrder /\ WindowsLeft
              /\ new_load_order' = Append(new_load_order, current)
              /\ window' = window + 1 /\ tie_pc' = "window"
           \/ TieDone
<1>1. tie_pc # "pin"
  BY DEF TieInv, GoodOrderTaken
<1>2. ~StartWithPath /\ ~PinPath
  <2>1. SUFFICES ASSUME WindowsLeft, NEW p \in FindPaths(graph, next, current)
                 PROVE  FALSE
    BY DEF StartWithPath, PinPath
  <2>2. /\ graph.edges \subseteq V \X V
        /\ current \in V /\ next \in V /\ current # next
    BY <2>1, TakePathFacts DEF GraphOver
  <2>3. FoundPath(V, next, current, p)
    BY <2>2, FindPathsElements
  <2>4. HasPath(graph, next, current)
    <3>1. 1 \in 1..Len(p) /\ Len(p) \in 1..Len(p) /\ 1 <= Len(p)
      BY <2>3 DEF FoundPath
    <3> QED
      BY <2>3, <3>1 DEF FoundPath
  <2> QED
    BY <2>1, <2>4, NoPathBack
<1>3. CASE KeepOrder
  <2>1. WindowsLeft
    BY <1>3 DEF KeepOrder
  <2>2. /\ window \in 1..(Len(load_order) - 1) /\ Len(load_order) \in Nat
        /\ current = load_order[window]
    BY <2>1, TakePathFacts
  <2>3. ~Processed(current)
    <3>1. \A k \in 1..Len(new_load_order) :
              \E i \in 1..(window - 1) : new_load_order[k] = load_order[i]
      BY DEF TieInv, GoodOrderTaken
    <3>2. ASSUME Processed(current)
          PROVE  FALSE
      <4>1. PICK i \in 1..(window - 1) : load_order[window] = load_order[i]
        BY <2>2, <3>1, <3>2, TieFacts DEF TieInv
      <4>2. i \in 1..Len(load_order) /\ window \in 1..Len(load_order) /\ i # window
        BY <2>2
      <4> QED
        BY <4>1, <4>2 DEF TieInv, OrderOf
    <3> QED
      BY <3>2
  <2> QED
    BY <1>3, <2>1, <2>3 DEF KeepOrder
<1> QED
  BY <1>1, <1>2, <1>3 DEF TieStep, SkipPinned, PinNode, EndWindow

\* A good order stays good.
LEMMA GoodOrderStays ==
    ASSUME NEW V \in SUBSET Plugins, TieInv(V), TieStep, InOrder
    PROVE  InOrder'
<1>1. CASE KeepOrder /\ WindowsLeft
  <2>1. /\ GraphOver(graph, V) /\ TieStateOver(V) /\ OrderOf(V)
        /\ window \in 1..(Len(load_order) - 1) /\ Len(load_order) \in Nat
        /\ current = load_order[window] /\ next = load_order[window + 1]
    BY <1>1, TakePathFacts DEF TieInv
  <2>2. /\ graph'.edges \subseteq graph.edges \cup {<<current, next>>}
        /\ load_order' = load_order
    BY <1>1, <2>1, KeepOrderKeeps DEF KeepOrder
  <2>3. SUFFICES ASSUME NEW i \in 1..Len(load_order), NEW j \in 1..Len(load_order),
                        <<load_order[i], load_order[j]>> \in graph'.edges
                 PROVE  i < j
    BY <2>2 DEF InOrder
  <2>4. CASE <<load_order[i], load_order[j]>> \in graph.edges
    BY <2>4 DEF InOrder
  <2>5. CASE load_order[i] = load_order[window] /\ load_order[j] = load_order[window + 1]
    <3>1. window \in 1..Len(load_order) /\ window + 1 \in 1..Len(load_order)
      BY <2>1
    <3>2. i = window /\ j = window + 1
      BY <2>1, <2>5, <3>1 DEF OrderOf
    <3> QED
      BY <2>1, <3>2
  <2> QED
    BY <2>1, <2>2, <2>3, <2>4, <2>5
<1>2. CASE TieDone
  BY <1>2 DEF TieDone, InOrder
<1> QED
  BY <1>1, <1>2, GoodOrderSteps

\* A step of the tie-break loops keeps the invariant.
LEMMA TieStepInv ==
    ASSUME NEW V \in SUBSET Plugins, TieInv(V), TieStep
    PROVE  TieInv(V)'
<1>1. /\ GraphOver(graph, V) /\ TieStateOver(V) /\ OrderOf(V)
  BY DEF TieInv
<1>2. /\ GraphOver(graph', V) /\ TieStateOver(V)'
      /\ graph.edges \subseteq graph'.edges
  BY <1>1, TieStepKeeps
<1>3. load_order' = load_order
  BY DEF TieStep, KeepOrder, StartWithPath, PinPath, SkipPinned, PinNode,
         EndWindow, TieDone
<1>4. OrderOf(V)'
  BY <1>1, <1>3 DEF OrderOf
<1>5. (NewOrderIsPath /\ PastPlaced /\ CurrentFits /\ PinsFit)'
  BY KeepOrderFits, StartWithPathFits, PinPathFits, SkipPinnedFits,
     PinNodeFits, EndWindowFits, TieDoneFits DEF TieStep
<1>6. GoodOrderTaken'
  <2>1. SUFFICES ASSUME InOrder'
                 PROVE  /\ tie_pc' # "pin"
                        /\ \A k \in 1..Len(new_load_order') :
                              \E i \in 1..(window' - 1) : new_load_order'[k] = load_order'[i]
    BY DEF GoodOrderTaken
  <2>2. InOrder
    BY <1>2, <1>3, <2>1 DEF InOrder
  <2>3. \A k \in 1..Len(new_load_order) :
            \E i \in 1..(window - 1) : new_load_order[k] = load_order[i]
    BY <2>2 DEF TieInv, GoodOrderTaken
  <2>4. CASE TieDone
    BY <2>3, <2>4 DEF TieDone
  <2>5. CASE /\ KeepOrder /\ WindowsLeft
             /\ new_load_order' = Append(new_load_order, current)
             /\ window' = window + 1 /\ tie_pc' = "window"
    <3>1. /\ current \in V /\ current = load_order[window]
          /\ Len(new_load_order) \in Nat /\ new_load_order \in Seq(V)
          /\ window \in Nat /\ window >= 1
      BY <1>1, <2>5, TakePathFacts, TieFacts DEF TieStateOver
    <3>2. /\ Len(new_load_order') = Len(new_load_order) + 1
          /\ \A k \in 1..Len(new_load_order) : new_load_order'[k] = new_load_order[k]
          /\ new_load_order'[Len(new_load_order) + 1] = current
      BY <2>5, <3>1, AppendProperties
    <3>3. ASSUME NEW k \in 1..(Len(new_load_order) + 1)
          PROVE  \E i \in 1..window : new_load_order'[k] = load_order[i]
      <4>1. CASE k = Len(new_load_order) + 1
        <5>1. window \in 1..window
          BY <3>1
        <5> QED
          BY <3>1, <3>2, <4>1, <5>1
      <4>2. CASE k \in 1..Len(new_load_order)
        <5>1. PICK i \in 1..(window - 1) : new_load_order[k] = load_order[i]
          BY <2>3, <4>2
        <5>2. i \in 1..window
          BY <3>1
        <5> QED
          BY <3>2, <4>2, <5>1, <5>2
      <4> QED
        BY <3>1, <4>1, <4>2
    <3> QED
      BY <1>3, <2>5, <3>1, <3>2, <3>3
  <2> QED
    BY <2>2, <2>4, <2>5, GoodOrderSteps
<1> QED
  BY <1>2, <1>4, <1>5, <1>6 DEF TieInv

-----------------------------------------------------------------------------
\* An enumeration without repetition leaves nothing out.
LEMMA EnumerationCovers ==
    ASSUME NEW V, IsFiniteSet(V), NEW n \in Nat, n = Cardinality(V),
           NEW s \in [1..n -> V],
           \A i, j \in 1..n : i # j => s[i] # s[j]
    PROVE  \A v \in V : \E i \in 1..n : v = s[i]
<1> SUFFICES ASSUME NEW v \in V, \A i \in 1..n : v # s[i]
             PROVE  FALSE
  OBVIOUS
<1>1. IsFiniteSet(V \ {v}) /\ Cardinality(V \ {v}) = n - 1
  BY FS_RemoveElement
<1>2. IsFiniteSet(1..n) /\ Cardinality(1..n) = n
  BY FS_Interval
<1>3. s \in [1..n -> V \ {v}]
  OBVIOUS
<1>4. n - 1 < n
  OBVIOUS
<1> QED
  BY <1>1, <1>2, <1>3, <1>4, FS_PigeonHole

\* Tie-breaking starts in the invariant, with any order of the nodes.
LEMMA TieStartInv ==
    ASSUME NEW V \in SUBSET Plugins, GraphOver(graph, V),
           load_order \in SetToSeqs(V), TieAtStart(load_order)
    PROVE  TieInv(V)
<1>1. IsFiniteSet(V) /\ Cardinality(V) \in Nat
  BY PluginsAssumption, FS_Subset, FS_CardinalityType
<1>2. /\ load_order \in [1..Cardinality(V) -> V]
      /\ \A i, j \in 1..Cardinality(V) : i # j => load_order[i] # load_order[j]
  BY DEF SetToSeqs
<1>3. load_order \in Seq(V) /\ Len(load_order) = Cardinality(V)
  BY <1>1, <1>2, FunctionIsSeq
<1>4. \A v \in V : \E i \in 1..Cardinality(V) : v = load_order[i]
  BY <1>1, <1>2, EnumerationCovers
<1>5. OrderOf(V)
  BY <1>2, <1>3, <1>4 DEF OrderOf
<1>6. /\ window = 1 /\ new_load_order = <<>> /\ to_pin = <<>>
      /\ range_start = 0 /\ tie_pc = "window"
  BY DEF TieAtStart
<1>7. /\ <<>> \in Seq(V) /\ Len(<<>>) = 0
  OBVIOUS
<1>8. TieStateOver(V)
  BY <1>3, <1>6, <1>7 DEF TieStateOver
<1>9. NewOrderIsPath /\ PastPlaced /\ CurrentFits /\ PinsFit /\ GoodOrderTaken
  BY <1>6, <1>7 DEF NewOrderIsPath, PastPlaced, CurrentFits, PinsFit, GoodOrderTaken
<1> QED
  BY <1>5, <1>8, <1>9 DEF TieInv

\* In the invariant, two nodes are joined by a path when the windows are done.
LEMMA TieInvBreaksTies ==
    ASSUME NEW V \in SUBSET Plugins, TieInv(V)
    PROVE  TiesBroken
<1> SUFFICES ASSUME tie_pc = "done",
                    NEW p \in ToSet(load_order), NEW q \in ToSet(load_order)
             PROVE  p = q \/ HasPath(graph, p, q) \/ HasPath(graph, q, p)
  BY DEF TiesBroken
<1>1. /\ TieStateOver(V) /\ NewOrderIsPath /\ CurrentFits
      /\ window >= Len(load_order)
      /\ \A i \in 1..(window - 1) : Processed(load_order[i])
      /\ window = 1 => new_load_order = <<>>
      /\ window > 1 => window <= Len(load_order)
  BY DEF TieInv, PastPlaced
<1>2. /\ Len(load_order) \in Nat /\ Len(new_load_order) \in Nat
      /\ window \in Nat /\ window >= 1
  BY <1>1, TieFacts
<1>3. PICK i \in 1..Len(load_order), j \in 1..Len(load_order) :
          p = load_order[i] /\ q = load_order[j]
  BY <1>1, LenProperties DEF TieStateOver, ToSet
<1>4. CASE window = 1
  BY <1>1, <1>2, <1>3, <1>4
<1>5. CASE window > 1
  <2>1. window = Len(load_order) /\ current = load_order[window]
    BY <1>1, <1>2, <1>5 DEF current
  <2>2. Processed(load_order[1])
    <3>1. 1 \in 1..(window - 1)
      BY <1>2, <1>5
    <3> QED
      BY <1>1, <3>1
  <2>3. new_load_order # <<>> /\ Len(new_load_order) > 0
    BY <1>1, <2>2, TieFacts
  <2>4. \A a, b \in 1..Len(new_load_order) :
            a <= b => HasPath(graph, new_load_order[a], new_load_order[b])
    BY <1>1, <1>2, ChainReaches DEF NewOrderIsPath, HasPath
  <2>5. \A x, y : Processed(x) /\ Processed(y) =>
                    HasPath(graph, x, y) \/ HasPath(graph, y, x)
    <3> SUFFICES ASSUME NEW x, NEW y, Processed(x), Processed(y)
                 PROVE  HasPath(graph, x, y) \/ HasPath(graph, y, x)
      OBVIOUS
    <3>1. PICK a \in 1..Len(new_load_order), b \in 1..Len(new_load_order) :
              x = new_load_order[a] /\ y = new_load_order[b]
      BY <1>1, TieFacts
    <3>2. a <= b \/ b <= a
      BY <1>2
    <3> QED
      BY <2>4, <3>1, <3>2
  <2>6. ASSUME ~Processed(current), NEW x, Processed(x)
        PROVE  HasPath(graph, x, current)
    <3>1. HasPath(graph, Last(new_load_order), current)
      BY <1>1, <1>2, <2>1, <2>3, <2>6 DEF CurrentFits
    <3>2. PICK a \in 1..Len(new_load_order) : x = new_load_order[a]
      BY <1>1, <2>6, TieFacts
    <3>3. HasPath(graph, x, Last(new_load_order))
      BY <1>2, <2>3, <2>4, <3>2 DEF Last
    <3> QED
      BY <3>1, <3>3, ReachTransitive DEF HasPath
  <2>7. \A k \in 1..Len(load_order) : Processed(load_order[k]) \/ load_order[k] = current
    BY <1>1, <1>2, <2>1
  <2> QED
    BY <1>3, <2>5, <2>6, <2>7
<1> QED
  BY <1>2, <1>4, <1>5

-----------------------------------------------------------------------------
\* Tie-breaking keeps its invariant for the nodes that the load order lists.
TieInvariant == \E V \in SUBSET Plugins : TieInv(V)

LEMMA TieInitInvariant ==
    ASSUME TieInit
    PROVE  TieInvariant
<1>1. PICK V \in SUBSET Plugins :
          graph.edges \subseteq V \X V /\ load_order \in SetToSeqs(V)
  BY DEF TieInit
<1>2. GraphOver(graph, V)
  BY <1>1 DEF TieInit, GraphOver, SoundGraph
<1> QED
  BY <1>1, <1>2, TieStartInv DEF TieInit, TieInvariant

LEMMA TieNextInvariant ==
    ASSUME TieInvariant, [TieStep]_<<graph, tieVars>>
    PROVE  TieInvariant'
<1>1. PICK V \in SUBSET Plugins : TieInv(V)
  BY DEF TieInvariant
<1>2. CASE TieStep
  BY <1>1, <1>2, TieStepInv DEF TieInvariant
<1>3. CASE UNCHANGED <<graph, tieVars>>
  <2>1. TieInv(V)'
    BY <1>1, <1>3
    DEF tieVars, TieInv, TieStateOver, OrderOf, NewOrderIsPath, PastPlaced,
        CurrentFits, PinsFit, GoodOrderTaken, InOrder, Processed, current, next
  <2> QED
    BY <2>1 DEF TieInvariant
<1> QED
  BY <1>2, <1>3

\* The load order that is recorded is a path at every step, and when the last
\* window is done no two nodes are without an order: for every set of plugins,
\* every graph without cycles and every load order.
THEOREM TiesGetBroken == TieSpec => []NewOrderBreaksTies
<1>1. TieInvariant => NewOrderBreaksTies
  BY TieInvBreaksTies DEF TieInvariant, TieInv, NewOrderBreaksTies
<1> QED
  BY <1>1, TieInitInvariant, TieNextInvariant, PTL DEF TieSpec

\* A load order that satisfies every edge is left as it is.
THEOREM GoodOrdersAreKept == TieSpec => KeepsGoodOrder
<1>1. TieInvariant /\ [TieStep]_<<graph, tieVars>> =>
          [InOrder => InOrder']_<<graph, tieVars>>
  BY GoodOrderStays DEF TieInvariant
<1> QED
  BY <1>1, TieInitInvariant, TieNextInvariant, PTL DEF TieSpec, KeepsGoodOrder
=============================================================================
