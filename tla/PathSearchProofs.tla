-------------------------- MODULE PathSearchProofs --------------------------
(***************************************************************************)
(* Correctness of one path search, for every finite graph: the answer is   *)
(* exact, the path returned is one, only true paths are cached, and the    *)
(* search implements PathContract.                                         *)
(*                                                                         *)
(* The argument: what a side has visited it can reach, and what it has     *)
(* visited and no longer waits in its queue has been expanded.  When the   *)
(* forward queue runs empty the visited vertices form a set that no edge   *)
(* leaves and that does not hold the end; when the reverse queue does, the *)
(* vertices not visited form a set that no edge leaves and that holds the  *)
(* start.  Either set shows that there is no path.                         *)
(***************************************************************************)
EXTENDS PathSearch, TLAPS, SequenceTheorems, FiniteSetTheorems

Searching == {"cached", "pop", "forward", "reverse"}

PathTo(a, b) == Reach(Vertices, graph_edges, a, b)

\* The vertices the forward side has still to expand.
ForwardOpen ==
    ToSet(forward_queue)
        \cup (IF pc = "forward" THEN {forward_current} ELSE {})

\* The vertices the reverse side has still to expand.
ReverseOpen ==
    ToSet(reverse_queue)
        \cup (IF pc \in {"forward", "reverse"} THEN {reverse_current} ELSE {})

\* Each side visits only vertices that it has a path to, and remembers a
\* neighbour to come back by.
ForwardSound ==
    /\ from_index \in forward_visited
    /\ \A v \in forward_visited :
          /\ PathTo(from_index, v)
          /\ v # from_index => /\ forward_parents[v] \in forward_visited
                               /\ <<forward_parents[v], v>> \in graph_edges

ReverseSound ==
    /\ to_index \in reverse_visited
    /\ \A v \in reverse_visited :
          /\ PathTo(v, to_index)
          /\ v # to_index => /\ reverse_children[v] \in reverse_visited
                             /\ <<v, reverse_children[v]>> \in graph_edges

\* The queues hold visited vertices.
QueuesVisited ==
    /\ ToSet(forward_queue) \subseteq forward_visited
    /\ ToSet(reverse_queue) \subseteq reverse_visited
    /\ pc \in {"forward", "reverse"} => /\ forward_current \in forward_visited
                                        /\ reverse_current \in reverse_visited

\* A visited vertex that is not open has been expanded without a meeting.
ForwardExpanded ==
    pc \in Searching =>
        \A v \in forward_visited \ ForwardOpen :
            /\ v # to_index
            /\ \A w \in Vertices : <<v, w>> \in graph_edges => w \in forward_visited

ReverseExpanded ==
    pc \in Searching =>
        \A v \in reverse_visited \ ReverseOpen :
            /\ v # from_index
            /\ \A u \in Vertices : <<u, v>> \in graph_edges => u \in reverse_visited

\* The path being rebuilt.
PathGrows ==
    /\ pc \in {"back", "on"} =>
          /\ wants_path
          /\ path # <<>>
          /\ path[Len(path)] \in reverse_visited
          /\ \A i \in 1..(Len(path) - 1) : <<path[i], path[i + 1]>> \in graph_edges
    /\ pc = "back" => path[1] \in forward_visited
    /\ pc = "on" => path[1] = from_index
    /\ pc = "cached" => ~wants_path

IInv ==
    /\ TypeOK
    /\ CacheSound
    /\ ForwardSound
    /\ ReverseSound
    /\ QueuesVisited
    /\ ForwardExpanded
    /\ ReverseExpanded
    /\ PathGrows
    /\ pc \in Searching => ~found
    /\ AnswerCorrect
    /\ PathValid

-----------------------------------------------------------------------------
\* The elements of a concatenation.
LEMMA ToSetConcat ==
    ASSUME NEW S, NEW s \in Seq(S), NEW t \in Seq(S)
    PROVE  ToSet(s \o t) = ToSet(s) \cup ToSet(t)
<1>1. /\ s \o t \in Seq(S)
      /\ Len(s \o t) = Len(s) + Len(t)
      /\ \A i \in 1..(Len(s) + Len(t)) :
            (s \o t)[i] = IF i <= Len(s) THEN s[i] ELSE t[i - Len(s)]
  BY ConcatProperties
<1>2. Len(s) \in Nat /\ Len(t) \in Nat
  BY LenProperties
<1>3. ASSUME NEW x \in ToSet(s \o t) PROVE x \in ToSet(s) \cup ToSet(t)
  <2>1. PICK i \in 1..(Len(s) + Len(t)) : x = (s \o t)[i]
    BY <1>1, LenProperties DEF ToSet
  <2>2. CASE i <= Len(s)
    BY <1>1, <1>2, <2>1, <2>2, LenProperties DEF ToSet
  <2>3. CASE ~(i <= Len(s))
    <3>1. i - Len(s) \in 1..Len(t) /\ x = t[i - Len(s)]
      BY <1>1, <1>2, <2>1, <2>3
    <3> QED
      BY <3>1, LenProperties DEF ToSet
  <2> QED
    BY <2>2, <2>3
<1>4. ASSUME NEW x \in ToSet(s) PROVE x \in ToSet(s \o t)
  <2>1. PICK i \in 1..Len(s) : x = s[i]
    BY LenProperties DEF ToSet
  <2>2. i \in 1..(Len(s) + Len(t)) /\ (s \o t)[i] = x
    BY <1>1, <1>2, <2>1
  <2> QED
    BY <1>1, <2>2, LenProperties DEF ToSet
<1>5. ASSUME NEW x \in ToSet(t) PROVE x \in ToSet(s \o t)
  <2>1. PICK i \in 1..Len(t) : x = t[i]
    BY LenProperties DEF ToSet
  <2>2. /\ i + Len(s) \in 1..(Len(s) + Len(t))
        /\ ~(i + Len(s) <= Len(s))
        /\ (i + Len(s)) - Len(s) = i
    BY <1>2
  <2>3. (s \o t)[i + Len(s)] = x
    BY <1>1, <2>1, <2>2
  <2> QED
    BY <1>1, <2>2, <2>3, LenProperties DEF ToSet
<1> QED
  BY <1>3, <1>4, <1>5

\* Taking the head off a queue.
LEMMA ToSetHeadTail ==
    ASSUME NEW S, NEW s \in Seq(S), s # <<>>
    PROVE  /\ Head(s) \in S /\ Tail(s) \in Seq(S)
           /\ ToSet(s) = {Head(s)} \cup ToSet(Tail(s))
<1>1. /\ Head(s) \in S /\ Tail(s) \in Seq(S)
      /\ Len(Tail(s)) = Len(s) - 1
      /\ \A i \in 1..Len(Tail(s)) : Tail(s)[i] = s[i + 1]
  BY HeadTailProperties
<1>2. Len(s) \in Nat \ {0} /\ Head(s) = s[1]
  BY EmptySeq
<1>3. ASSUME NEW x \in ToSet(s) PROVE x \in {Head(s)} \cup ToSet(Tail(s))
  <2>1. PICK i \in 1..Len(s) : x = s[i]
    BY LenProperties DEF ToSet
  <2>2. CASE i = 1
    BY <1>2, <2>1, <2>2
  <2>3. CASE i # 1
    <3>1. i - 1 \in 1..Len(Tail(s)) /\ (i - 1) + 1 = i
      BY <1>1, <1>2, <2>3
    <3>2. Tail(s)[i - 1] = x
      BY <1>1, <2>1, <3>1
    <3> QED
      BY <1>1, <3>1, <3>2, LenProperties DEF ToSet
  <2> QED
    BY <2>2, <2>3
<1>4. ASSUME NEW x \in ToSet(Tail(s)) PROVE x \in ToSet(s)
  <2>1. PICK i \in 1..Len(Tail(s)) : x = Tail(s)[i]
    BY <1>1, LenProperties DEF ToSet
  <2>2. i + 1 \in 1..Len(s) /\ s[i + 1] = x
    BY <1>1, <1>2, <2>1
  <2> QED
    BY <2>2, LenProperties DEF ToSet
<1>5. Head(s) \in ToSet(s)
  BY <1>2, LenProperties DEF ToSet
<1> QED
  BY <1>1, <1>3, <1>4, <1>5

\* An enumeration of a finite set is a sequence of all its elements.
LEMMA EnumerationOfSet ==
    ASSUME NEW S, IsFiniteSet(S), NEW s \in SetToSeqs(S)
    PROVE  s \in Seq(S) /\ ToSet(s) = S
<1> DEFINE n == Cardinality(S)
<1>1. n \in Nat
  BY FS_CardinalityType
<1>2. s \in [1..n -> S] /\ \A i, j \in 1..n : i # j => s[i] # s[j]
  BY DEF SetToSeqs
<1>3. s \in Injection(1..n, S)
  BY <1>2 DEF Injection, IsInjective
<1>4. Cardinality(1..n) = n
  BY <1>1, FS_Interval
<1>5. s \in Surjection(1..n, S)
  BY <1>3, <1>4, FS_Injection
<1>6. s \in Seq(S)
  BY <1>1, <1>2, SeqDef
<1> QED
  BY <1>2, <1>5, <1>6 DEF Surjection, ToSet

-----------------------------------------------------------------------------
\* If a side's queue is empty there is no path.
LEMMA ExhaustedMeansNoPath ==
    ASSUME IInv, pc = "pop", forward_queue = <<>> \/ reverse_queue = <<>>
    PROVE  ~PathTo(from_index, to_index)
<1>1. /\ graph_edges \subseteq Vertices \X Vertices
      /\ forward_visited \subseteq Vertices
      /\ from_index \in Vertices /\ to_index \in Vertices
  BY DEF IInv, TypeOK, VertexPairs
<1>2. CASE forward_queue = <<>>
  <2>1. ForwardOpen = {}
    BY <1>2 DEF ForwardOpen, ToSet
  <2>2. \A v \in forward_visited :
            /\ v # to_index
            /\ \A w \in Vertices : <<v, w>> \in graph_edges => w \in forward_visited
    BY <2>1 DEF IInv, ForwardExpanded, Searching
  <2>3. Closed(forward_visited, graph_edges)
    <3> SUFFICES ASSUME NEW e \in graph_edges, e[1] \in forward_visited
                 PROVE  e[2] \in forward_visited
      BY DEF Closed
    <3>1. e = <<e[1], e[2]>> /\ e[2] \in Vertices
      BY <1>1
    <3> QED
      BY <2>2, <3>1
  <2>4. from_index \in forward_visited /\ to_index \notin forward_visited
    BY <2>2 DEF IInv, ForwardSound
  <2> QED
    BY <1>1, <2>3, <2>4 DEF PathTo, Reach
<1>3. CASE reverse_queue = <<>>
  <2> DEFINE S == Vertices \ reverse_visited
  <2>1. ReverseOpen = {}
    BY <1>3 DEF ReverseOpen, ToSet
  <2>2. \A v \in reverse_visited :
            /\ v # from_index
            /\ \A u \in Vertices : <<u, v>> \in graph_edges => u \in reverse_visited
    BY <2>1 DEF IInv, ReverseExpanded, Searching
  <2>3. Closed(S, graph_edges)
    <3> SUFFICES ASSUME NEW e \in graph_edges, e[1] \in S
                 PROVE  e[2] \in S
      BY DEF Closed
    <3>1. e = <<e[1], e[2]>> /\ e[1] \in Vertices /\ e[2] \in Vertices
      BY <1>1
    <3> QED
      BY <2>2, <3>1
  <2>4. from_index \in S /\ to_index \notin S
    BY <1>1, <2>2 DEF IInv, ReverseSound
  <2> QED
    BY <2>3, <2>4 DEF PathTo, Reach
<1> QED
  BY <1>2, <1>3

\* Where the two sides meet there is a path.
LEMMA MeetingMeansPath ==
    ASSUME IInv, NEW v \in forward_visited, v \in reverse_visited
    PROVE  PathTo(from_index, to_index)
<1>1. PathTo(from_index, v) /\ PathTo(v, to_index)
  BY DEF IInv, ForwardSound, ReverseSound
<1> QED
  BY <1>1, ReachTransitive DEF PathTo

\* The initial states satisfy the invariant.
LEMMA InitIInv ==
    ASSUME Init
    PROVE  IInv
<1>1. TypeOK
  <2>1. /\ graph_edges \in SUBSET VertexPairs /\ cache \in SUBSET VertexPairs
        /\ from_index \in Vertices /\ to_index \in Vertices
    BY DEF Init, PathPairs
  <2>2. <<from_index>> \in Seq(Vertices) /\ <<to_index>> \in Seq(Vertices)
    BY <2>1
  <2>3. pc \in {"pop", "cached"}
    BY DEF Init
  <2>4. wants_path \in BOOLEAN /\ found \in BOOLEAN
    BY Zenon DEF Init
  <2>5. /\ forward_queue \in Seq(Vertices) /\ reverse_queue \in Seq(Vertices)
        /\ forward_visited \in SUBSET Vertices
        /\ reverse_visited \in SUBSET Vertices
        /\ forward_current \in Vertices \cup {NoVertex}
        /\ reverse_current \in Vertices \cup {NoVertex}
        /\ forward_parents \in [Vertices -> Vertices \cup {NoVertex}]
        /\ reverse_children \in [Vertices -> Vertices \cup {NoVertex}]
        /\ intersection_node \in Vertices \cup {NoVertex}
        /\ path \in Seq(Vertices)
    BY <2>1, <2>2 DEF Init
  <2> QED
    BY <2>1, <2>3, <2>4, <2>5 DEF TypeOK
<1>2. CacheSound
  BY DEF Init, CacheSound, PathPairs
<1>3. ForwardSound /\ ReverseSound
  BY ReachReflexive DEF Init, ForwardSound, ReverseSound, PathTo
<1>4. ToSet(forward_queue) = {from_index} /\ ToSet(reverse_queue) = {to_index}
  <2>1. \A v : DOMAIN <<v>> = {1} /\ <<v>>[1] = v
    OBVIOUS
  <2> QED
    BY <2>1 DEF Init, ToSet
<1>5. pc \in {"pop", "cached"}
  BY DEF Init
<1>6. QueuesVisited
  BY <1>4, <1>5 DEF Init, QueuesVisited
<1>7. ForwardExpanded /\ ReverseExpanded
  BY <1>4 DEF Init, ForwardExpanded, ReverseExpanded, ForwardOpen, ReverseOpen
<1>8. PathGrows /\ AnswerCorrect /\ PathValid
  BY DEF Init, PathGrows, AnswerCorrect, PathValid
<1> QED
  BY <1>1, <1>2, <1>3, <1>6, <1>7, <1>8 DEF Init, IInv

-----------------------------------------------------------------------------
\* The answer from the cache is right because the cache is sound.
LEMMA CheckCacheKeeps ==
    ASSUME IInv, CheckCache
    PROVE  IInv'
<1>1. UNCHANGED <<queryVars, visitVars, queueVars, intersection_node, path>>
  BY DEF CheckCache
<1>2. \/ pc' = "pop" /\ found' = FALSE
      \/ pc' = "done" /\ found' = TRUE /\ <<from_index, to_index>> \in cache
  BY DEF CheckCache
<1>3. pc = "cached" /\ ~wants_path
  BY DEF CheckCache, IInv, PathGrows
<1>4. PathTo(from_index, to_index) \/ pc' = "pop"
  BY <1>2 DEF IInv, CacheSound, PathTo
<1>5. TypeOK'
  BY <1>1, <1>2 DEF IInv, TypeOK, queryVars, visitVars, queueVars
<1>6. CacheSound' /\ ForwardSound' /\ ReverseSound'
  BY <1>1 DEF IInv, CacheSound, ForwardSound, ReverseSound, PathTo, queryVars,
              visitVars
<1>7. QueuesVisited' /\ ForwardExpanded' /\ ReverseExpanded'
  BY <1>1, <1>2, <1>3
  DEF IInv, QueuesVisited, ForwardExpanded, ReverseExpanded, ForwardOpen,
      ReverseOpen, Searching, queryVars, visitVars, queueVars
<1>8. PathGrows' /\ PathValid' /\ AnswerCorrect' /\ (pc \in Searching => ~found)'
  BY <1>1, <1>2, <1>3, <1>4
  DEF PathGrows, PathValid, AnswerCorrect, PathTo, Searching, queryVars
<1> QED
  BY <1>5, <1>6, <1>7, <1>8 DEF IInv

\* The vertices popped stay open until they are expanded.
LEMMA PopFrontKeeps ==
    ASSUME IInv, PopFront
    PROVE  IInv'
<1>1. /\ pc = "pop" /\ pc' = "forward"
      /\ UNCHANGED <<queryVars, visitVars, answerVars>>
  BY DEF PopFront
<1>2. /\ forward_current' \in Vertices /\ forward_queue' \in Seq(Vertices)
      /\ ToSet(forward_queue) = {forward_current'} \cup ToSet(forward_queue')
  BY ToSetHeadTail DEF PopFront, IInv, TypeOK
<1>3. /\ reverse_current' \in Vertices /\ reverse_queue' \in Seq(Vertices)
      /\ ToSet(reverse_queue) = {reverse_current'} \cup ToSet(reverse_queue')
  BY ToSetHeadTail DEF PopFront, IInv, TypeOK
<1>4. TypeOK'
  BY <1>1, <1>2, <1>3 DEF IInv, TypeOK, queryVars, visitVars, answerVars
<1>5. CacheSound' /\ ForwardSound' /\ ReverseSound'
  BY <1>1 DEF IInv, CacheSound, ForwardSound, ReverseSound, PathTo, queryVars,
              visitVars
<1>6. QueuesVisited'
  BY <1>1, <1>2, <1>3 DEF IInv, QueuesVisited, visitVars
<1>7. ForwardOpen' = ForwardOpen /\ ReverseOpen' = ReverseOpen
  BY <1>1, <1>2, <1>3 DEF ForwardOpen, ReverseOpen
<1>8. ForwardExpanded' /\ ReverseExpanded'
  BY <1>1, <1>7
  DEF IInv, ForwardExpanded, ReverseExpanded, Searching, queryVars, visitVars
<1>9. PathGrows' /\ PathValid' /\ AnswerCorrect' /\ (pc \in Searching => ~found)'
  BY <1>1
  DEF IInv, PathGrows, PathValid, AnswerCorrect, Searching, queryVars, answerVars
<1> QED
  BY <1>4, <1>5, <1>6, <1>8, <1>9 DEF IInv

\* A search that ends without a meeting.
LEMMA ExhaustedKeeps ==
    ASSUME IInv, Exhausted
    PROVE  IInv'
<1>1. /\ pc = "pop" /\ pc' = "done"
      /\ UNCHANGED <<queryVars, visitVars, queueVars, answerVars>>
  BY DEF Exhausted
<1>2. ~PathTo(from_index, to_index)
  BY <1>1, ExhaustedMeansNoPath DEF Exhausted
<1>3. ~found /\ ~found'
  BY <1>1 DEF IInv, Searching, answerVars
<1>4. TypeOK'
  BY <1>1 DEF IInv, TypeOK, queryVars, visitVars, queueVars, answerVars
<1>5. CacheSound' /\ ForwardSound' /\ ReverseSound'
  BY <1>1 DEF IInv, CacheSound, ForwardSound, ReverseSound, PathTo, queryVars,
              visitVars
<1>6. QueuesVisited' /\ ForwardExpanded' /\ ReverseExpanded'
  BY <1>1
  DEF IInv, QueuesVisited, ForwardExpanded, ReverseExpanded, Searching,
      visitVars, queueVars
<1>7. PathGrows' /\ PathValid' /\ AnswerCorrect' /\ (pc \in Searching => ~found)'
  BY <1>1, <1>2, <1>3
  DEF PathGrows, PathValid, AnswerCorrect, PathTo, Searching, queryVars
<1> QED
  BY <1>4, <1>5, <1>6, <1>7 DEF IInv

\* A meeting of the two sides.
LEMMA MeetKeeps ==
    ASSUME IInv, MeetForward \/ MeetReverse
    PROVE  IInv'
<1>1. pc \in {"forward", "reverse"}
  BY DEF MeetForward, MeetReverse
<1>2. PICK v \in forward_visited \cap reverse_visited : Intersect(v)
  BY <1>1 DEF MeetForward, MeetReverse, IInv, QueuesVisited, ForwardSound,
              ReverseSound
<1>3. PathTo(from_index, to_index)
  BY <1>2, MeetingMeansPath
<1>4. /\ found' = TRUE /\ intersection_node' = v /\ path' = <<v>>
      /\ UNCHANGED <<queryVars, visitVars, queueVars>>
      /\ (wants_path /\ pc' = "back") \/ (~wants_path /\ pc' = "done")
  <2>1. found' = TRUE
    BY <1>2, Zenon DEF Intersect
  <2> QED
    BY <1>2, <2>1 DEF Intersect
<1>5. v \in Vertices /\ <<v>> \in Seq(Vertices) /\ Len(<<v>>) = 1 /\ <<v>>[1] = v
  BY <1>2 DEF IInv, TypeOK
<1>6. TypeOK'
  BY <1>4, <1>5 DEF IInv, TypeOK, queryVars, visitVars, queueVars
<1>7. CacheSound' /\ ForwardSound' /\ ReverseSound'
  BY <1>4 DEF IInv, CacheSound, ForwardSound, ReverseSound, PathTo, queryVars,
              visitVars
<1>8. QueuesVisited' /\ ForwardExpanded' /\ ReverseExpanded'
  BY <1>4
  DEF IInv, QueuesVisited, ForwardExpanded, ReverseExpanded, Searching,
      visitVars, queueVars
<1>9. PathGrows'
  <2>1. \A i \in 1..(Len(path') - 1) : <<path'[i], path'[i + 1]>> \in graph_edges
    BY <1>4, <1>5
  <2>2. path' # <<>> /\ path'[1] = v /\ path'[Len(path')] = v
    BY <1>4, <1>5
  <2> QED
    BY <1>2, <1>4, <2>1, <2>2 DEF PathGrows, queryVars, visitVars
<1>10. PathValid' /\ AnswerCorrect' /\ (pc \in Searching => ~found)'
  BY <1>3, <1>4 DEF PathValid, AnswerCorrect, PathTo, Searching, queryVars
<1> QED
  BY <1>6, <1>7, <1>8, <1>9, <1>10 DEF IInv

\* The forward expansion.
LEMMA ExpandForwardKeeps ==
    ASSUME IInv, ExpandForward
    PROVE  IInv'
<1> DEFINE new == {v \in Vertices : /\ <<forward_current, v>> \in graph_edges
                                    /\ v \notin forward_visited}
<1>1. /\ pc = "forward" /\ pc' = "reverse"
      /\ forward_current # to_index
      /\ UNCHANGED <<queryVars, reverse_visited, reverse_children, reverse_queue,
                     forward_current, reverse_current, answerVars>>
  BY DEF ExpandForward
<1>2. /\ forward_visited' = forward_visited \cup new
      /\ forward_parents' = [v \in Vertices |-> IF v \in new THEN forward_current
                                                ELSE forward_parents[v]]
      /\ cache' = cache \cup {<<from_index, v>> : v \in new}
  BY DEF ExpandForward
<1>3. PICK s \in SetToSeqs(new) : forward_queue' = forward_queue \o s
  BY DEF ExpandForward
<1>4. /\ forward_current \in forward_visited
      /\ forward_visited \subseteq Vertices
      /\ reverse_current \in reverse_visited
      /\ from_index \in Vertices
  BY <1>1 DEF IInv, QueuesVisited, TypeOK
<1>5. IsFiniteSet(new) /\ new \subseteq Vertices
  BY VerticesFinite, FS_Subset
<1>6. s \in Seq(Vertices) /\ ToSet(s) = new
  BY <1>5, EnumerationOfSet, SeqMonotonic
<1>7. /\ forward_queue' \in Seq(Vertices)
      /\ ToSet(forward_queue') = ToSet(forward_queue) \cup new
  BY <1>3, <1>6, ConcatProperties, ToSetConcat DEF IInv, TypeOK
<1>8. \A v \in new : PathTo(from_index, v)
  <2> SUFFICES ASSUME NEW v \in new
               PROVE  PathTo(from_index, v)
    OBVIOUS
  <2>1. PathTo(from_index, forward_current)
    BY <1>4 DEF IInv, ForwardSound
  <2>2. PathTo(forward_current, v)
    BY ReachEdge DEF PathTo
  <2> QED
    BY <2>1, <2>2, ReachTransitive DEF PathTo
<1>9. TypeOK'
  <2>1. forward_visited' \in SUBSET Vertices
    BY <1>2, <1>4, <1>5
  <2>2. forward_parents' \in [Vertices -> Vertices \cup {NoVertex}]
    BY <1>2, <1>4 DEF IInv, TypeOK
  <2>3. cache' \in SUBSET VertexPairs
    <3>1. \A v \in new : <<from_index, v>> \in VertexPairs
      BY <1>4, <1>5 DEF VertexPairs
    <3> HIDE DEF new
    <3> QED
      BY <1>2, <3>1 DEF IInv, TypeOK
  <2> QED
    BY <1>1, <1>7, <2>1, <2>2, <2>3 DEF IInv, TypeOK, queryVars, answerVars
<1>10. CacheSound'
  <2> SUFFICES ASSUME NEW e \in cache'
               PROVE  PathTo(e[1], e[2])
    BY <1>1 DEF CacheSound, PathTo, queryVars
  <2>1. CASE e \in cache
    BY <2>1 DEF IInv, CacheSound, PathTo
  <2>2. CASE \E v \in new : e = <<from_index, v>>
    BY <1>8, <2>2
  <2> QED
    BY <1>2, <2>1, <2>2
<1>11. ForwardSound'
  <2>1. from_index' \in forward_visited'
    BY <1>1, <1>2 DEF IInv, ForwardSound, queryVars
  <2>2. ASSUME NEW v \in forward_visited'
        PROVE  /\ PathTo(from_index, v)
               /\ v # from_index => /\ forward_parents'[v] \in forward_visited'
                                    /\ <<forward_parents'[v], v>> \in graph_edges
    <3>1. CASE v \in new
      BY <1>2, <1>4, <1>8, <3>1
    <3>2. CASE v \notin new
      <4>1. v \in forward_visited /\ v \in Vertices
        BY <1>2, <1>4, <3>2
      <4>2. forward_parents'[v] = forward_parents[v]
        BY <1>2, <3>2, <4>1
      <4> QED
        BY <1>2, <4>1, <4>2 DEF IInv, ForwardSound
    <3> QED
      BY <3>1, <3>2
  <2> QED
    BY <1>1, <2>1, <2>2 DEF ForwardSound, PathTo, queryVars
<1>12. ReverseSound'
  BY <1>1 DEF IInv, ReverseSound, PathTo, queryVars
<1>13. QueuesVisited'
  BY <1>1, <1>2, <1>4, <1>7 DEF IInv, QueuesVisited
<1>14. ForwardExpanded'
  <2>1. ForwardOpen' = ToSet(forward_queue) \cup new
    BY <1>1, <1>7 DEF ForwardOpen
  <2>2. ForwardOpen = ToSet(forward_queue) \cup {forward_current}
    BY <1>1 DEF ForwardOpen
  <2>3. ASSUME NEW v \in forward_visited' \ ForwardOpen'
        PROVE  /\ v # to_index
               /\ \A w \in Vertices :
                     <<v, w>> \in graph_edges => w \in forward_visited'
    <3>1. CASE v = forward_current
      BY <1>1, <1>2, <3>1
    <3>2. CASE v # forward_current
      <4>1. v \in forward_visited \ ForwardOpen
        BY <1>2, <2>1, <2>2, <3>2
      <4> QED
        BY <1>1, <1>2, <4>1 DEF IInv, ForwardExpanded, Searching
    <3> QED
      BY <3>1, <3>2
  <2> QED
    BY <1>1, <2>3 DEF ForwardExpanded, queryVars
<1>15. ReverseExpanded'
  BY <1>1 DEF IInv, ReverseExpanded, ReverseOpen, Searching, queryVars
<1>16. PathGrows' /\ PathValid' /\ AnswerCorrect' /\ (pc \in Searching => ~found)'
  BY <1>1
  DEF IInv, PathGrows, PathValid, AnswerCorrect, Searching, queryVars, answerVars
<1> QED
  BY <1>9, <1>10, <1>11, <1>12, <1>13, <1>14, <1>15, <1>16 DEF IInv

\* The reverse expansion, against the edges.
LEMMA ExpandReverseKeeps ==
    ASSUME IInv, ExpandReverse
    PROVE  IInv'
<1> DEFINE new == {v \in Vertices : /\ <<v, reverse_current>> \in graph_edges
                                    /\ v \notin reverse_visited}
<1>1. /\ pc = "reverse" /\ pc' = "pop"
      /\ reverse_current # from_index
      /\ UNCHANGED <<queryVars, forward_visited, forward_parents, forward_queue,
                     forward_current, reverse_current, answerVars>>
  BY DEF ExpandReverse
<1>2. /\ reverse_visited' = reverse_visited \cup new
      /\ reverse_children' = [v \in Vertices |-> IF v \in new THEN reverse_current
                                                 ELSE reverse_children[v]]
      /\ cache' = cache \cup {<<v, to_index>> : v \in new}
  BY DEF ExpandReverse
<1>3. PICK s \in SetToSeqs(new) : reverse_queue' = reverse_queue \o s
  BY DEF ExpandReverse
<1>4. /\ reverse_current \in reverse_visited
      /\ reverse_visited \subseteq Vertices
      /\ forward_current \in forward_visited
      /\ to_index \in Vertices
  BY <1>1 DEF IInv, QueuesVisited, TypeOK
<1>5. IsFiniteSet(new) /\ new \subseteq Vertices
  BY VerticesFinite, FS_Subset
<1>6. s \in Seq(Vertices) /\ ToSet(s) = new
  BY <1>5, EnumerationOfSet, SeqMonotonic
<1>7. /\ reverse_queue' \in Seq(Vertices)
      /\ ToSet(reverse_queue') = ToSet(reverse_queue) \cup new
  BY <1>3, <1>6, ConcatProperties, ToSetConcat DEF IInv, TypeOK
<1>8. \A v \in new : PathTo(v, to_index)
  <2> SUFFICES ASSUME NEW v \in new
               PROVE  PathTo(v, to_index)
    OBVIOUS
  <2>1. PathTo(reverse_current, to_index)
    BY <1>4 DEF IInv, ReverseSound
  <2>2. PathTo(v, reverse_current)
    BY ReachEdge DEF PathTo
  <2> QED
    BY <2>1, <2>2, ReachTransitive DEF PathTo
<1>9. TypeOK'
  <2>1. reverse_visited' \in SUBSET Vertices
    BY <1>2, <1>4, <1>5
  <2>2. reverse_children' \in [Vertices -> Vertices \cup {NoVertex}]
    BY <1>2, <1>4 DEF IInv, TypeOK
  <2>3. cache' \in SUBSET VertexPairs
    <3>1. \A v \in new : <<v, to_index>> \in VertexPairs
      BY <1>4, <1>5 DEF VertexPairs
    <3> HIDE DEF new
    <3> QED
      BY <1>2, <3>1 DEF IInv, TypeOK
  <2> QED
    BY <1>1, <1>7, <2>1, <2>2, <2>3 DEF IInv, TypeOK, queryVars, answerVars
<1>10. CacheSound'
  <2> SUFFICES ASSUME NEW e \in cache'
               PROVE  PathTo(e[1], e[2])
    BY <1>1 DEF CacheSound, PathTo, queryVars
  <2>1. CASE e \in cache
    BY <2>1 DEF IInv, CacheSound, PathTo
  <2>2. CASE \E v \in new : e = <<v, to_index>>
    BY <1>8, <2>2
  <2> QED
    BY <1>2, <2>1, <2>2
<1>11. ReverseSound'
  <2>1. to_index' \in reverse_visited'
    BY <1>1, <1>2 DEF IInv, ReverseSound, queryVars
  <2>2. ASSUME NEW v \in reverse_visited'
        PROVE  /\ PathTo(v, to_index)
               /\ v # to_index => /\ reverse_children'[v] \in reverse_visited'
                                  /\ <<v, reverse_children'[v]>> \in graph_edges
    <3>1. CASE v \in new
      BY <1>2, <1>4, <1>8, <3>1
    <3>2. CASE v \notin new
      <4>1. v \in reverse_visited /\ v \in Vertices
        BY <1>2, <1>4, <3>2
      <4>2. reverse_children'[v] = reverse_children[v]
        BY <1>2, <3>2, <4>1
      <4> QED
        BY <1>2, <4>1, <4>2 DEF IInv, ReverseSound
    <3> QED
      BY <3>1, <3>2
  <2> QED
    BY <1>1, <2>1, <2>2 DEF ReverseSound, PathTo, queryVars
<1>12. ForwardSound'
  BY <1>1 DEF IInv, ForwardSound, PathTo, queryVars
<1>13. QueuesVisited'
  BY <1>1, <1>2, <1>4, <1>7 DEF IInv, QueuesVisited
<1>14. ReverseExpanded'
  <2>1. ReverseOpen' = ToSet(reverse_queue) \cup new
    BY <1>1, <1>7 DEF ReverseOpen
  <2>2. ReverseOpen = ToSet(reverse_queue) \cup {reverse_current}
    BY <1>1 DEF ReverseOpen
  <2>3. ASSUME NEW v \in reverse_visited' \ ReverseOpen'
        PROVE  /\ v # from_index
               /\ \A u \in Vertices :
                     <<u, v>> \in graph_edges => u \in reverse_visited'
    <3>1. CASE v = reverse_current
      BY <1>1, <1>2, <3>1
    <3>2. CASE v # reverse_current
      <4>1. v \in reverse_visited \ ReverseOpen
        BY <1>2, <2>1, <2>2, <3>2
      <4> QED
        BY <1>1, <1>2, <4>1 DEF IInv, ReverseExpanded, Searching
    <3> QED
      BY <3>1, <3>2
  <2> QED
    BY <1>1, <2>3 DEF ReverseExpanded, queryVars
<1>15. ForwardExpanded'
  BY <1>1 DEF IInv, ForwardExpanded, ForwardOpen, Searching, queryVars
<1>16. PathGrows' /\ PathValid' /\ AnswerCorrect' /\ (pc \in Searching => ~found)'
  BY <1>1
  DEF IInv, PathGrows, PathValid, AnswerCorrect, Searching, queryVars, answerVars
<1> QED
  BY <1>9, <1>10, <1>11, <1>12, <1>13, <1>14, <1>15, <1>16 DEF IInv

\* What a step of the walk leaves alone.
LEMMA WalkFrame ==
    ASSUME IInv, pc \in {"back", "on"}, pc' \in {"back", "on", "done"},
           path' \in Seq(Vertices),
           UNCHANGED <<queryVars, visitVars, queueVars, intersection_node, found>>
    PROVE  /\ TypeOK' /\ CacheSound' /\ ForwardSound' /\ ReverseSound'
           /\ QueuesVisited' /\ ForwardExpanded' /\ ReverseExpanded'
           /\ (pc \in Searching => ~found)' /\ AnswerCorrect'
<1>1. TypeOK'
  BY DEF IInv, TypeOK, queryVars, visitVars, queueVars
<1>2. CacheSound' /\ ForwardSound' /\ ReverseSound'
  BY DEF IInv, CacheSound, ForwardSound, ReverseSound, PathTo, queryVars,
         visitVars
<1>3. QueuesVisited' /\ ForwardExpanded' /\ ReverseExpanded'
  BY DEF IInv, QueuesVisited, ForwardExpanded, ReverseExpanded, Searching,
         visitVars, queueVars
<1>4. (pc \in Searching => ~found)' /\ AnswerCorrect'
  BY DEF IInv, AnswerCorrect, Searching, queryVars
<1> QED
  BY <1>1, <1>2, <1>3, <1>4

\* The walk back along the parents never meets a hole.
LEMMA WalkBackKeeps ==
    ASSUME IInv, WalkBack
    PROVE  IInv'
<1>1. /\ pc = "back"
      /\ UNCHANGED <<queryVars, visitVars, queueVars, intersection_node, found>>
  BY DEF WalkBack
<1>2. /\ path \in Seq(Vertices) /\ path # <<>> /\ wants_path
      /\ path[1] \in forward_visited /\ path[Len(path)] \in reverse_visited
      /\ \A i \in 1..(Len(path) - 1) : <<path[i], path[i + 1]>> \in graph_edges
  BY <1>1 DEF IInv, TypeOK, PathGrows
<1>3. Len(path) \in Nat \ {0}
  BY <1>2, EmptySeq
<1>4. CASE path[1] = from_index
  <2>1. pc' = "on" /\ path' = path
    BY <1>4 DEF WalkBack
  <2>2. PathGrows' /\ PathValid'
    BY <1>1, <1>2, <1>4, <2>1 DEF PathGrows, PathValid, queryVars, visitVars
  <2> QED
    BY <1>1, <1>2, <2>1, <2>2, WalkFrame DEF IInv
<1>5. CASE path[1] # from_index
  <2> DEFINE parent == forward_parents[path[1]]
  <2>1. /\ parent \in forward_visited
        /\ <<parent, path[1]>> \in graph_edges
        /\ parent \in Vertices
    BY <1>2, <1>5 DEF IInv, ForwardSound, TypeOK
  <2>2. pc' = "back" /\ path' = <<parent>> \o path
    BY <1>5, <2>1, NoVertexAssumption DEF WalkBack
  <2>3. <<parent>> \in Seq(Vertices) /\ Len(<<parent>>) = 1 /\ <<parent>>[1] = parent
    BY <2>1
  <2> HIDE DEF parent
  <2>4. /\ path' \in Seq(Vertices)
        /\ Len(path') = Len(path) + 1
        /\ path'[1] = parent
        /\ \A i \in 1..Len(path) : path'[i + 1] = path[i]
    <3>1. /\ path' \in Seq(Vertices)
          /\ Len(path') = 1 + Len(path)
          /\ \A i \in 1..(1 + Len(path)) :
                path'[i] = IF i <= 1 THEN <<parent>>[i] ELSE path[i - 1]
      BY <1>2, <2>2, <2>3, ConcatProperties
    <3>2. path'[1] = parent
      BY <1>3, <2>3, <3>1
    <3>3. ASSUME NEW i \in 1..Len(path) PROVE path'[i + 1] = path[i]
      <4>1. i + 1 \in 1..(1 + Len(path)) /\ ~(i + 1 <= 1) /\ (i + 1) - 1 = i
        BY <1>3
      <4> QED
        BY <3>1, <4>1
    <3> QED
      BY <1>3, <3>1, <3>2, <3>3
  <2>5. path'[Len(path')] = path[Len(path)]
    BY <1>3, <2>4
  <2>6. ASSUME NEW i \in 1..(Len(path') - 1)
        PROVE  <<path'[i], path'[i + 1]>> \in graph_edges
    <3>1. CASE i = 1
      BY <1>3, <2>1, <2>4, <3>1
    <3>2. CASE i # 1
      <4>1. i - 1 \in 1..(Len(path) - 1) /\ (i - 1) + 1 = i /\ i \in 1..Len(path)
        BY <1>3, <2>4, <3>2
      <4>2. path'[i] = path[i - 1] /\ path'[i + 1] = path[i]
        BY <1>3, <2>4, <4>1
      <4> QED
        BY <1>2, <4>1, <4>2
    <3> QED
      BY <3>1, <3>2
  <2>7. path' # <<>>
    BY <1>3, <2>4
  <2>8. PathGrows' /\ PathValid'
    BY <1>1, <1>2, <2>1, <2>2, <2>4, <2>5, <2>6, <2>7
    DEF PathGrows, PathValid, queryVars, visitVars
  <2> QED
    BY <1>1, <2>2, <2>4, <2>8, WalkFrame DEF IInv
<1> QED
  BY <1>4, <1>5

\* Nor does the walk on along the children.
LEMMA WalkOnKeeps ==
    ASSUME IInv, WalkOn
    PROVE  IInv'
<1>1. /\ pc = "on"
      /\ UNCHANGED <<queryVars, visitVars, queueVars, intersection_node, found>>
  BY DEF WalkOn
<1>2. /\ path \in Seq(Vertices) /\ path # <<>> /\ wants_path
      /\ path[1] = from_index /\ path[Len(path)] \in reverse_visited
      /\ \A i \in 1..(Len(path) - 1) : <<path[i], path[i + 1]>> \in graph_edges
  BY <1>1 DEF IInv, TypeOK, PathGrows
<1>3. Len(path) \in Nat \ {0}
  BY <1>2, EmptySeq
<1>4. CASE path[Len(path)] = to_index
  <2>1. pc' = "done" /\ path' = path
    BY <1>4 DEF WalkOn
  <2>2. IsPath(graph_edges, path, from_index, to_index)
    BY <1>2, <1>3, <1>4 DEF IsPath
  <2>3. PathGrows' /\ PathValid'
    BY <1>1, <2>1, <2>2 DEF PathGrows, PathValid, queryVars
  <2> QED
    BY <1>1, <1>2, <2>1, <2>3, WalkFrame DEF IInv
<1>5. CASE path[Len(path)] # to_index
  <2> DEFINE child == reverse_children[path[Len(path)]]
  <2>1. /\ child \in reverse_visited
        /\ <<path[Len(path)], child>> \in graph_edges
        /\ child \in Vertices
    BY <1>2, <1>5 DEF IInv, ReverseSound, TypeOK
  <2>2. pc' = "on" /\ path' = Append(path, child)
    BY <1>5, <2>1, NoVertexAssumption DEF WalkOn
  <2> HIDE DEF child
  <2>3. /\ path' \in Seq(Vertices) /\ path' # <<>>
        /\ Len(path') = Len(path) + 1
        /\ \A i \in 1..Len(path) : path'[i] = path[i]
        /\ path'[Len(path) + 1] = child
    BY <1>2, <2>1, <2>2, AppendProperties
  <2>4. path'[1] = from_index /\ path'[Len(path')] = child
    BY <1>2, <1>3, <2>3
  <2>5. ASSUME NEW i \in 1..(Len(path') - 1)
        PROVE  <<path'[i], path'[i + 1]>> \in graph_edges
    <3>1. CASE i = Len(path)
      BY <1>3, <2>1, <2>3, <3>1
    <3>2. CASE i # Len(path)
      <4>1. i \in 1..(Len(path) - 1) /\ i \in 1..Len(path) /\ i + 1 \in 1..Len(path)
        BY <1>3, <2>3, <3>2
      <4> QED
        BY <1>2, <2>3, <4>1
    <3> QED
      BY <3>1, <3>2
  <2>6. PathGrows' /\ PathValid'
    BY <1>1, <1>2, <2>1, <2>2, <2>3, <2>4, <2>5
    DEF PathGrows, PathValid, queryVars, visitVars
  <2> QED
    BY <1>1, <2>2, <2>3, <2>6, WalkFrame DEF IInv
<1> QED
  BY <1>4, <1>5

\* Every step keeps the invariant.
LEMMA NextIInv ==
    ASSUME IInv, [Next]_vars
    PROVE  IInv'
<1>1. CASE UNCHANGED vars
  <2>1. UNCHANGED <<queryVars, visitVars, queueVars, answerVars, pc>>
    BY <1>1 DEF vars
  <2> QED
    BY <2>1
    DEF IInv, TypeOK, CacheSound, ForwardSound, ReverseSound, QueuesVisited,
        ForwardExpanded, ReverseExpanded, ForwardOpen, ReverseOpen, PathGrows,
        PathTo, AnswerCorrect, PathValid, queryVars, visitVars, queueVars,
        answerVars
<1>2. CASE Next
  BY <1>2, CheckCacheKeeps, PopFrontKeeps, ExhaustedKeeps, MeetKeeps,
     ExpandForwardKeeps, ExpandReverseKeeps, WalkBackKeeps, WalkOnKeeps
  DEF Next
<1> QED
  BY <1>1, <1>2

-----------------------------------------------------------------------------
\* The invariant holds throughout every search.
THEOREM Invariance == Spec => []IInv
<1>1. Init => IInv
  BY InitIInv
<1>2. IInv /\ [Next]_vars => IInv'
  BY NextIInv
<1> QED
  BY <1>1, <1>2, PTL DEF Spec

\* bidirectional_bfs and path_exists say exactly whether there is a path.
THEOREM AnswersAreCorrect == Spec => []AnswerCorrect
<1>1. IInv => AnswerCorrect
  BY DEF IInv
<1> QED
  BY <1>1, Invariance, PTL

\* A search puts only paths into paths_cache.
THEOREM SearchKeepsCacheSound == Spec => []CacheSound
<1>1. IInv => CacheSound
  BY DEF IInv
<1> QED
  BY <1>1, Invariance, PTL

\* find_path returns a path from start to end and never meets the errors that
\* PathFinder::path calls impossible.
THEOREM PathsAreValid == Spec => []PathValid
<1>1. IInv => PathValid
  BY DEF IInv
<1> QED
  BY <1>1, Invariance, PTL

-----------------------------------------------------------------------------
\* The answer that the refinement mapping takes from the state.
answerOf == [done  |-> pc = "done",
             found |-> pc = "done" /\ found,
             path  |-> IF pc = "done" /\ found /\ wants_path THEN path ELSE <<>>]

\* The steps that only learn.
LEMMA ExpandLearns ==
    ASSUME IInv, IInv', ExpandForward \/ ExpandReverse
    PROVE  Contract!Learn
<1>1. /\ UNCHANGED <<graph_edges, from_index, to_index, wants_path>>
      /\ pc \in {"forward", "reverse"} /\ pc' \in {"reverse", "pop"}
  BY DEF ExpandForward, ExpandReverse, queryVars
<1>2. answerOf' = answerOf /\ answerOf.done = FALSE
  BY <1>1 DEF answerOf
<1>3. PICK X : /\ cache' = cache \cup X
               /\ \/ X \subseteq {<<from_index, v>> : v \in forward_visited'}
                  \/ X \subseteq {<<v, to_index>> : v \in reverse_visited'}
  <2>1. CASE ExpandForward
    <3> DEFINE new == {v \in Vertices : /\ <<forward_current, v>> \in graph_edges
                                        /\ v \notin forward_visited}
    <3>1. /\ forward_visited' = forward_visited \cup new
          /\ cache' = cache \cup {<<from_index, v>> : v \in new}
      BY <2>1 DEF ExpandForward
    <3> HIDE DEF new
    <3>2. {<<from_index, v>> : v \in new} \subseteq
              {<<from_index, v>> : v \in forward_visited'}
      BY <3>1
    <3> QED
      BY <3>1, <3>2
  <2>2. CASE ExpandReverse
    <3> DEFINE new == {v \in Vertices : /\ <<v, reverse_current>> \in graph_edges
                                        /\ v \notin reverse_visited}
    <3>1. /\ reverse_visited' = reverse_visited \cup new
          /\ cache' = cache \cup {<<v, to_index>> : v \in new}
      BY <2>2 DEF ExpandReverse
    <3> HIDE DEF new
    <3>2. {<<v, to_index>> : v \in new} \subseteq
              {<<v, to_index>> : v \in reverse_visited'}
      BY <3>1
    <3> QED
      BY <3>1, <3>2
  <2> QED
    BY <2>1, <2>2
<1>4. /\ forward_visited' \subseteq
             Contract!Descendants(Vertices, graph_edges, from_index)
      /\ reverse_visited' \subseteq
             Contract!Ancestors(Vertices, graph_edges, to_index)
  BY <1>1
  DEF IInv, TypeOK, ForwardSound, ReverseSound, PathTo, Contract!Descendants,
      Contract!Ancestors, Contract!Reach, Contract!Closed, Reach, Closed
<1>5. X \subseteq Contract!Learnable(Vertices, graph_edges, from_index, to_index)
  BY <1>3, <1>4 DEF Contract!Learnable
<1> QED
  BY <1>1, <1>2, <1>3, <1>5 DEF Contract!Learn, answerOf

\* The steps that answer.
LEMMA DoneAnswers ==
    ASSUME IInv, IInv', Next, pc' = "done"
    PROVE  Contract!Answer
<1>1. /\ UNCHANGED <<graph_edges, from_index, to_index, wants_path, cache>>
      /\ pc # "done"
  BY DEF Next, CheckCache, PopFront, Exhausted, MeetForward, ExpandForward,
         MeetReverse, ExpandReverse, WalkBack, WalkOn, Intersect, queryVars,
         visitVars
<1>2. /\ answerOf.done = FALSE
      /\ answerOf'.done = TRUE
      /\ answerOf'.found = found'
      /\ answerOf'.path = IF found' /\ wants_path' THEN path' ELSE <<>>
  BY <1>1 DEF answerOf, IInv, TypeOK
<1>3. found' = Contract!Reach(Vertices, graph_edges, from_index, to_index)
  BY <1>1 DEF IInv, AnswerCorrect, TypeOK, Contract!Reach, Contract!Closed, Reach,
              Closed
<1>4. answerOf'.path # <<>> =>
          Contract!IsPath(graph_edges, answerOf'.path, from_index, to_index)
  BY <1>1, <1>2 DEF IInv, PathValid, Contract!IsPath, IsPath
<1> QED
  BY <1>1, <1>2, <1>3, <1>4 DEF Contract!Answer, answerOf

\* The other steps change nothing that a caller sees.
LEMMA OtherStepsStutter ==
    ASSUME IInv, IInv', Next, pc' # "done", ~ExpandForward, ~ExpandReverse
    PROVE  UNCHANGED Contract!contractVars
<1>1. /\ UNCHANGED <<graph_edges, from_index, to_index, wants_path, cache>>
      /\ pc # "done"
  BY DEF Next, CheckCache, PopFront, Exhausted, MeetForward, MeetReverse,
         WalkBack, WalkOn, Intersect, queryVars, visitVars
<1>2. answerOf' = answerOf
  BY <1>1 DEF answerOf
<1> QED
  BY <1>1, <1>2 DEF Contract!contractVars, answerOf

\* A path search implements PathContract, which is how PluginGraph models it:
\* the answer is exact and the cache learns nothing but paths from the start
\* and paths to the end.
THEOREM SearchImplementsContract == Spec => ImplementsContract
<1>1. Init => Contract!ContractInit
  <2> SUFFICES ASSUME Init
               PROVE  Contract!ContractInit
    OBVIOUS
  <2>1. IInv
    BY InitIInv
  <2>2. pc # "done"
    BY DEF Init
  <2>3. answerOf = [done |-> FALSE, found |-> FALSE, path |-> <<>>]
    BY <2>2 DEF answerOf
  <2> QED
    BY <2>1, <2>3 DEF Contract!ContractInit, IInv, TypeOK, VertexPairs, answerOf
<1>2. IInv /\ IInv' /\ [Next]_vars =>
          [Contract!ContractNext]_(Contract!contractVars)
  <2> SUFFICES ASSUME IInv, IInv', [Next]_vars
               PROVE  [Contract!ContractNext]_(Contract!contractVars)
    OBVIOUS
  <2>1. CASE UNCHANGED vars
    BY <2>1 DEF vars, queryVars, visitVars, answerVars, Contract!contractVars
  <2>2. CASE Next
    BY <2>2, ExpandLearns, DoneAnswers, OtherStepsStutter
    DEF Contract!ContractNext
  <2> QED
    BY <2>1, <2>2
<1> QED
  BY <1>1, <1>2, Invariance, PTL
  DEF Spec, ImplementsContract, Contract!ContractSpec
=============================================================================
