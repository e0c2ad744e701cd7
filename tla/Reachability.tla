---------------------------- MODULE Reachability ----------------------------
(***************************************************************************)
(* Paths in a finite directed graph, given as a set V of vertices and a    *)
(* set E of ordered pairs of vertices.  This is the reference the search   *)
(* and the sorting modules are measured against: nothing here models code. *)
(*                                                                         *)
(* A path from a to b exists exactly if every set of vertices that holds a *)
(* and that no edge leaves holds b as well; a graph has a cycle exactly if *)
(* some non-empty set of vertices has, from each of its members, an edge   *)
(* to one of its members.  Both forms avoid a recursion over path lengths, *)
(* which is what makes them usable in proofs.  The facts about them that   *)
(* the proof modules need follow the definitions.                          *)
(***************************************************************************)
EXTENDS Naturals, Sequences, SequencesExt, TLAPS, SequenceTheorems,
        NaturalsInduction, WellFoundedInduction

Closed(S, E) == \A e \in E : e[1] \in S => e[2] \in S

Reach(V, E, a, b) ==
    \A S \in SUBSET V : (a \in S /\ Closed(S, E)) => b \in S

Acyclic(V, E) ==
    ~ \E S \in SUBSET V : S # {} /\ \A x \in S : \E y \in S : <<x, y>> \in E

Descendants(V, E, a) == {x \in V : Reach(V, E, a, x)}

Ancestors(V, E, b) == {x \in V : Reach(V, E, x, b)}

\* A path through E as the sequence of its vertices, first to last.
IsPath(E, p, a, b) ==
    /\ Len(p) > 0
    /\ p[1] = a
    /\ p[Len(p)] = b
    /\ \A i \in 1..(Len(p) - 1) : <<p[i], p[i + 1]>> \in E

\* The enumerations of V in which every edge goes from an earlier to a later
\* vertex.
TopologicalOrders(V, E, n) ==
    {s \in [1..n -> V] :
        /\ \A i, j \in 1..n : i # j => s[i] # s[j]
        /\ \A i, j \in 1..n : <<s[i], s[j]>> \in E => i < j}

-----------------------------------------------------------------------------
(* Facts for every set V of vertices and every set E of edges between them. *)

\* Every vertex has the empty path to itself.
LEMMA ReachReflexive ==
    ASSUME NEW V, NEW E, NEW a
    PROVE  Reach(V, E, a, a)
BY DEF Reach

\* An edge is a path.
LEMMA ReachEdge ==
    ASSUME NEW V, NEW E, NEW a, NEW b, <<a, b>> \in E
    PROVE  Reach(V, E, a, b)
BY DEF Reach, Closed

\* Two paths that meet make one.
LEMMA ReachTransitive ==
    ASSUME NEW V, NEW E, NEW a, NEW b, NEW c,
           Reach(V, E, a, b), Reach(V, E, b, c)
    PROVE  Reach(V, E, a, c)
BY DEF Reach

\* A path stays a path when edges are added.
LEMMA ReachMonotonic ==
    ASSUME NEW V, NEW E, NEW F, E \subseteq F, NEW a, NEW b,
           Reach(V, E, a, b)
    PROVE  Reach(V, F, a, b)
BY DEF Reach, Closed

\* A path that goes anywhere starts with an edge.
LEMMA ReachFirstEdge ==
    ASSUME NEW V, NEW E, E \subseteq V \X V, NEW a \in V, NEW b, a # b,
           Reach(V, E, a, b)
    PROVE  \E y \in V : <<a, y>> \in E /\ Reach(V, E, y, b)
<1> DEFINE T == {w \in V : w = a \/ \E y \in V : <<a, y>> \in E
                                                 /\ Reach(V, E, y, w)}
<1>1. a \in T
  OBVIOUS
<1>2. Closed(T, E)
  <2> SUFFICES ASSUME NEW e \in E, e[1] \in T
               PROVE  e[2] \in T
    BY DEF Closed
  <2>1. /\ e = <<e[1], e[2]>>
        /\ e[1] \in V
        /\ e[2] \in V
    OBVIOUS
  <2>2. CASE e[1] = a
    <3>1. Reach(V, E, e[2], e[2])
      BY ReachReflexive
    <3> QED
      BY <2>1, <2>2, <3>1
  <2>3. CASE \E y \in V : <<a, y>> \in E /\ Reach(V, E, y, e[1])
    <3>1. PICK y \in V : <<a, y>> \in E /\ Reach(V, E, y, e[1])
      BY <2>3
    <3>2. Reach(V, E, e[1], e[2])
      BY <2>1, ReachEdge
    <3>3. Reach(V, E, y, e[2])
      BY <3>1, <3>2, ReachTransitive
    <3> QED
      BY <2>1, <3>1, <3>3
  <2> QED
    BY <2>2, <2>3
<1>3. b \in T
  BY <1>1, <1>2 DEF Reach
<1> QED
  BY <1>3

\* In a graph without cycles two different vertices have a path in at most one
\* direction.
LEMMA AcyclicAntisymmetric ==
    ASSUME NEW V, NEW E, E \subseteq V \X V, Acyclic(V, E),
           NEW a \in V, NEW b \in V, a # b, Reach(V, E, a, b)
    PROVE  ~Reach(V, E, b, a)
<1> SUFFICES ASSUME Reach(V, E, b, a)
             PROVE  FALSE
  OBVIOUS
<1> DEFINE S == {x \in V : Reach(V, E, a, x) /\ Reach(V, E, x, a)}
<1>1. a \in S
  BY ReachReflexive
<1>2. ASSUME NEW x \in S
      PROVE  \E y \in S : <<x, y>> \in E
  <2>1. PICK z \in V : x # z /\ Reach(V, E, x, z) /\ Reach(V, E, z, a)
    <3>1. CASE x = a
      BY <3>1
    <3>2. CASE x # a
      BY <3>2, ReachReflexive
    <3> QED
      BY <3>1, <3>2
  <2>2. PICK y \in V : <<x, y>> \in E /\ Reach(V, E, y, z)
    BY <2>1, ReachFirstEdge
  <2>3. Reach(V, E, y, a)
    BY <2>1, <2>2, ReachTransitive
  <2>4. Reach(V, E, x, y)
    BY <2>2, ReachEdge
  <2>5. Reach(V, E, a, y)
    BY <2>4, ReachTransitive
  <2> QED
    BY <2>2, <2>3, <2>5
<1> QED
  BY <1>1, <1>2 DEF Acyclic

\* An edge closes a cycle only if there was a path back.
LEMMA AcyclicAddEdge ==
    ASSUME NEW V, NEW E, E \subseteq V \X V, Acyclic(V, E),
           NEW u \in V, NEW v \in V, ~Reach(V, E, v, u)
    PROVE  Acyclic(V, E \cup {<<u, v>>})
<1> SUFFICES ASSUME NEW S \in SUBSET V, S # {},
                    \A x \in S : \E y \in S : <<x, y>> \in E \cup {<<u, v>>}
             PROVE  FALSE
  BY DEF Acyclic
<1>1. CASE v \notin S
  <2>1. \A x \in S : \E y \in S : <<x, y>> \in E
    BY <1>1
  <2> QED
    BY <2>1 DEF Acyclic
<1>2. CASE v \in S
  <2> DEFINE T == {x \in S : Reach(V, E, v, x)}
  <2>1. v \in T
    BY <1>2, ReachReflexive
  <2>2. ASSUME NEW x \in T
        PROVE  \E y \in T : <<x, y>> \in E
    <3>1. PICK y \in S : <<x, y>> \in E \cup {<<u, v>>}
      OBVIOUS
    <3>2. x # u
      OBVIOUS
    <3>3. <<x, y>> \in E
      BY <3>1, <3>2
    <3>4. Reach(V, E, x, y)
      BY <3>3, ReachEdge
    <3>5. Reach(V, E, v, y)
      BY <3>4, ReachTransitive
    <3> QED
      BY <3>3, <3>5
  <2> QED
    BY <2>1, <2>2 DEF Acyclic
<1> QED
  BY <1>1, <1>2

\* A path among vertices that are listed without a repetition, every edge going
\* forward in the list, goes forward.
LEMMA PathGoesForward ==
    ASSUME NEW U, NEW V \in SUBSET U, NEW E, E \subseteq V \X V,
           NEW n \in Nat, NEW s,
           \A i \in 1..n : s[i] \in V,
           \A v \in V : \E i \in 1..n : v = s[i],
           \A i, j \in 1..n : i # j => s[i] # s[j],
           \A i, j \in 1..n : <<s[i], s[j]>> \in E => i < j,
           NEW a \in 1..n, NEW b \in 1..n, Reach(U, E, s[a], s[b])
    PROVE  a <= b
<1> DEFINE S == {s[k] : k \in a..n}
<1>1. S \in SUBSET U /\ s[a] \in S
  OBVIOUS
<1>2. Closed(S, E)
  <2> SUFFICES ASSUME NEW e \in E, e[1] \in S
               PROVE  e[2] \in S
    BY DEF Closed
  <2>1. PICK k \in a..n : e[1] = s[k]
    OBVIOUS
  <2>2. PICK m \in 1..n : e[2] = s[m]
    OBVIOUS
  <2>3. e = <<s[k], s[m]>>
    BY <2>1, <2>2
  <2>4. k \in 1..n /\ k < m
    BY <2>3
  <2> QED
    BY <2>2, <2>4
<1>3. PICK k \in a..n : s[b] = s[k]
  BY <1>1, <1>2 DEF Reach
<1>4. k \in 1..n /\ k = b
  BY <1>3
<1> QED
  BY <1>4

\* Two runs of a deterministic step that start alike and cannot go on end alike.
LEMMA RunsEndAlike ==
    ASSUME NEW U, NEW E, E \subseteq U \X U,
           \A x, y, z \in U : <<x, y>> \in E /\ <<x, z>> \in E => y = z,
           NEW a \in U, NEW s \in U, NEW t \in U,
           Reach(U, E, a, s), \A x \in U : <<s, x>> \notin E,
           Reach(U, E, a, t), \A x \in U : <<t, x>> \notin E
    PROVE  s = t
<1> DEFINE S == {c \in U : Reach(U, E, c, t)}
<1>1. a \in S
  OBVIOUS
<1>2. Closed(S, E)
  <2> SUFFICES ASSUME NEW e \in E, e[1] \in S
               PROVE  e[2] \in S
    BY DEF Closed
  <2>1. e = <<e[1], e[2]>> /\ e[1] \in U /\ e[2] \in U
    OBVIOUS
  <2>2. e[1] # t
    BY <2>1
  <2>3. PICK y \in U : <<e[1], y>> \in E /\ Reach(U, E, y, t)
    BY <2>1, <2>2, ReachFirstEdge
  <2>4. y = e[2]
    BY <2>1, <2>3
  <2> QED
    BY <2>3, <2>4
<1>3. Reach(U, E, s, t)
  BY <1>1, <1>2 DEF Reach
<1> QED
  BY <1>3, ReachFirstEdge

\* With one more edge there is a path between two vertices exactly if there was
\* one before or one to its source and one from its target.
LEMMA PathsWithOneMoreEdge ==
    ASSUME NEW V, NEW E, E \subseteq V \X V, NEW a \in V, NEW b \in V,
           NEW x \in V, NEW y \in V
    PROVE  Reach(V, E \cup {<<a, b>>}, x, y) <=>
               Reach(V, E, x, y) \/ (Reach(V, E, x, a) /\ Reach(V, E, b, y))
<1> DEFINE F == E \cup {<<a, b>>}
           S == {w \in V : \/ Reach(V, E, x, w)
                           \/ Reach(V, E, x, a) /\ Reach(V, E, b, w)}
<1>1. ASSUME Reach(V, F, x, y)
      PROVE  y \in S
  <2>1. x \in S
    BY ReachReflexive
  <2>2. Closed(S, F)
    <3> SUFFICES ASSUME NEW e \in F, e[1] \in S
                 PROVE  e[2] \in S
      BY DEF Closed
    <3>1. CASE e \in E
      <4>1. e = <<e[1], e[2]>> /\ e[1] \in V /\ e[2] \in V
        BY <3>1
      <4>2. Reach(V, E, e[1], e[2])
        BY <3>1, <4>1, ReachEdge
      <4> QED
        BY <4>1, <4>2, ReachTransitive
    <3>2. CASE e = <<a, b>>
      <4>1. Reach(V, E, x, a) /\ Reach(V, E, b, b)
        BY <3>2, ReachReflexive
      <4> QED
        BY <3>2, <4>1
    <3> QED
      BY <3>1, <3>2
  <2> QED
    BY <1>1, <2>1, <2>2 DEF Reach
<1>2. \A u, v : Reach(V, E, u, v) => Reach(V, F, u, v)
  BY ReachMonotonic
<1>3. Reach(V, F, a, b)
  BY ReachEdge
<1> QED
  BY <1>1, <1>2, <1>3, ReachTransitive

-----------------------------------------------------------------------------
(* Numbers and sequences, for the proof modules. *)

\* A non-empty set of numbers has a least element.
LEMMA MinOfNumbers ==
    ASSUME NEW S, S \subseteq Nat, S # {}
    PROVE  Min(S) \in S /\ \A y \in S : Min(S) <= y
<1>1. PICK x \in S : \A y \in S : ~(<<y, x>> \in OpToRel(<, Nat))
  BY WFMin, NatLessThanWellFounded
<1>2. \A y \in S : ~(y < x)
  BY <1>1 DEF OpToRel
<1>3. \A y \in S : x <= y
  BY <1>2
<1> QED
  BY <1>3 DEF Min

\* All but the last element of a sequence.
LEMMA FrontFacts ==
    ASSUME NEW S, NEW s \in Seq(S), s # <<>>
    PROVE  /\ Front(s) \in Seq(S)
           /\ Len(Front(s)) = Len(s) - 1
           /\ \A i \in 1..(Len(s) - 1) : Front(s)[i] = s[i]
<1>1. Len(s) \in Nat \ {0}
  OBVIOUS
<1>2. 1 \in 1..(Len(s) + 1) /\ Len(s) - 1 \in 0..Len(s)
  BY <1>1
<1>3. Front(s) = SubSeq(s, 1, Len(s) - 1)
  BY DEF Front
<1>4. /\ Front(s) \in Seq(S)
      /\ Len(Front(s)) = IF 1 <= Len(s) - 1 THEN Len(s) - 1 - 1 + 1 ELSE 0
      /\ \A i \in 1..(Len(s) - 1 - 1 + 1) : Front(s)[i] = s[1 + i - 1]
  BY <1>2, <1>3, SubSeqProperties
<1>5. ASSUME NEW i \in 1..(Len(s) - 1)
      PROVE  Front(s)[i] = s[i]
  <2>1. 1 + i - 1 = i /\ i \in 1..(Len(s) - 1 - 1 + 1)
    BY <1>1
  <2> QED
    BY <1>4, <2>1
<1>6. \A n \in Nat \ {0} : (IF 1 <= n - 1 THEN n - 1 - 1 + 1 ELSE 0) = n - 1
  OBVIOUS
<1>7. Len(Front(s)) = Len(s) - 1
  BY <1>1, <1>4, <1>6
<1> QED
  BY <1>4, <1>5, <1>7
=============================================================================
