----------------------------- MODULE MCSearches -----------------------------
(***************************************************************************)
(* The searches of the sorting code and the breaking of ties that rests on *)
(* them, one in each behaviour: the bidirectional search of the plugin     *)
(* graph, the search for cycles, the search for a path between two groups, *)
(* and tie-breaking.  The variables of the other three keep one value.     *)
(***************************************************************************)
EXTENDS PathSearch, CycleSearch, TieBreak

CONSTANT Unused   \* the value of a variable that the behaviour does not use

VARIABLES subject,
          lists, gg, ends, round, index, updated, distances, predecessors,
          current_group, group_path, group_result

groupVars == <<lists, gg, ends, round, index, updated, distances, predecessors,
               current_group, group_path, group_result>>
allVars == <<subject, vars, cycleVars, groupVars, graph, tieVars>>

-----------------------------------------------------------------------------
\* PathSearch on four vertices.  The vertices are interchangeable, so the two
\* queries, from 1 to 2 and from 1 to itself, stand for all sixteen.
MCVertices == 1..4
MCQueries == {<<1, 2>>, <<1, 1>>}

\* CycleSearch: every list of up to four edges between three nodes, loops and
\* several edges between two nodes included; names that differ, and a plugin
\* that was given twice.
MCEdgeLists == UNION {[1..n -> (1..3) \X (1..3)] : n \in 0..4}
MCNamings == {<<"A", "B", "C">>, <<"A", "B", "A">>}

\* GroupsPath: acyclic graphs of four groups, whose names are in five different
\* orders.  The masterlist defines all but the last of the groups, and each
\* pair is joined by an edge of one list or of none.
Kinds == {"none", "masterlist", "userlist"}
GroupPairs == {e \in (1..4) \X (1..4) : e[1] # e[2]}
After(kind, list, names) ==
    [h \in names |-> {g \in 1..4 : <<g, h>> \in GroupPairs /\ kind[<<g, h>>] = list}]

GroupGraphs ==
    LET ordered == {e \in GroupPairs : e[1] < e[2]}
        perms == {<<1, 2, 3, 4>>, <<4, 3, 2, 1>>, <<2, 4, 1, 3>>, <<3, 1, 4, 2>>, <<1, 3, 2, 4>>}
        Kind(k, e) == IF e \in ordered THEN k[e] ELSE "none"
    IN {[e \in GroupPairs |-> Kind(k, <<p[e[1]], p[e[2]]>>)] :
            p \in perms, k \in [ordered -> Kinds]}

MCLists ==
    {[masterlist |-> After(k, "masterlist", 1..3), userlist |-> After(k, "userlist", 1..4)] :
        k \in {k \in GroupGraphs : \A g \in 1..3 : k[<<4, g>>] # "masterlist"}}
    \cup {[masterlist |-> [h \in 1..3 |-> {}], userlist |-> [h \in {} |-> {}]]}

MCRivals == {p \in UNION {[1..n -> 1..4] : n \in 1..4} : IsInjective(p)}

Groups == INSTANCE GroupsPath
    WITH GroupNames <- 1..4, DefaultGroup <- 1, NoGroup <- 0, Lists <- MCLists,
         Rivals <- MCRivals, current <- current_group, path <- group_path,
         result <- group_result

\* Tie-breaking on five plugins: every graph without cycles, against one load
\* order, which is enough because tie-breaking does not look at the plugins'
\* names.  The cache starts with the edges and searches add nothing to it; the
\* run on four plugins covers what they may add.
MCPlugins == 1..5

MCDags ==
    {{<<o[e[1]], o[e[2]]>> : e \in E} :
        E \in SUBSET {e \in Pairs : e[1] < e[2]}, o \in SetToSeqs(Plugins)}

-----------------------------------------------------------------------------
NoPathSearch ==
    /\ Init
    /\ graph_edges = {} /\ cache = {} /\ from_index # to_index /\ wants_path

NoCycleSearch ==
    /\ digraph = <<>> /\ name = <<"A", "B", "C">>
    /\ CycleInit

NoGroupsPath ==
    /\ lists = Unused /\ gg = Unused /\ ends = Unused /\ round = Unused /\ index = Unused
    /\ updated = Unused /\ distances = Unused /\ predecessors = Unused
    /\ current_group = Unused /\ group_path = Unused /\ group_result = Unused

NoTies == graph = EmptyGraph /\ TieAtStart(<<>>)

MCInit ==
    \/ subject = "plugins" /\ Init /\ NoCycleSearch /\ NoGroupsPath /\ NoTies
    \/ subject = "cycle" /\ NoPathSearch /\ CycleInit /\ NoGroupsPath /\ NoTies
    \/ subject = "groups" /\ NoPathSearch /\ NoCycleSearch /\ Groups!Init /\ NoTies
    \/ /\ subject = "ties" /\ NoPathSearch /\ NoCycleSearch /\ NoGroupsPath
       /\ \E E \in MCDags : graph = [edges |-> E, cache |-> E]
       /\ TieAtStart(<<1, 2, 3, 4, 5>>)

Search ==
    \/ subject = "plugins" /\ Next /\ UNCHANGED <<cycleVars, groupVars>>
    \/ subject = "cycle" /\ CycleStep /\ UNCHANGED <<vars, groupVars>>
    \/ subject = "groups" /\ Groups!Next /\ UNCHANGED <<vars, cycleVars>>

MCNext ==
    \/ Search /\ UNCHANGED <<subject, graph, tieVars>>
    \/ subject = "ties" /\ TieStep /\ UNCHANGED <<subject, vars, cycleVars, groupVars>>

\* A search runs on one thread and never blocks.  That tie-breaking ends too is
\* checked where it is part of a sort.
MCSpec ==
    /\ MCInit /\ [][MCNext]_allVars
    /\ WF_allVars(Search /\ UNCHANGED <<subject, graph, tieVars>>)

-----------------------------------------------------------------------------
\* groups_path finds the path with most of the user's and least of the
\* masterlist's edges, and none only where there is none.
PathIsBest == subject = "groups" => Groups!PathIsBest

\* Every search returns: the bidirectional search and the walk that rebuilds the
\* path, find_cycle on cyclic graphs too, and find_path, whose predecessors
\* lead to the first group or to none.
SearchesReturn ==
    <>(\/ subject = "plugins" /\ pc = "done"
       \/ subject = "cycle" /\ result # Searching
       \/ subject = "groups" /\ group_result # "running"
       \/ subject = "ties")
=============================================================================
