---------------------------- MODULE GroupsGraph -----------------------------
(***************************************************************************)
(* The groups graph of sorting/groups.rs: which group loads after which.   *)
(*                                                                         *)
(* A list of groups is a function from the names it defines to the names   *)
(* of the groups each loads after.  A name is a number, its place in the   *)
(* lexicographical order of the names.  A groups graph is a record of its  *)
(* nodes in index order and, for every node, the targets of its edges in   *)
(* the order in which the edges were added, which is the order in which    *)
(* search.rs walks them.                                                   *)
(***************************************************************************)
EXTENDS Reachability, SequencesExt

CONSTANTS GroupNames,     \* every name a group may have
          DefaultGroup,   \* the name of the group "default"
          NoGroup         \* an absent group

ASSUME GroupNamesAssumption ==
    GroupNames \subseteq Nat /\ IsFiniteSet(GroupNames)
ASSUME DefaultGroupAssumption == DefaultGroup \in GroupNames
ASSUME NoGroupAssumption == NoGroup \notin GroupNames

IsGroupList(list) ==
    /\ DOMAIN list \subseteq GroupNames
    /\ \A g \in DOMAIN list : list[g] \subseteq GroupNames

Below(S, x) == {y \in S : y < x}

\* The i-th number of S in ascending order is the least that has i - 1 below it.
Ascending(S) ==
    [i \in 1..Cardinality(S) |->
        Min({x \in S : Cardinality(Below(S, x)) >= i - 1})]

\* The names in an after list that the list's add_groups call cannot resolve:
\* masterlist groups see only masterlist groups, user groups see both.
UndefinedGroups(masterlist, userlist) ==
    (UNION {masterlist[g] : g \in DOMAIN masterlist} \ DOMAIN masterlist)
        \cup (UNION {userlist[g] : g \in DOMAIN userlist}
                 \ (DOMAIN masterlist \cup DOMAIN userlist))

Targets(list, g) == {h \in DOMAIN list : g \in list[h]}

GroupPairs(masterlist, userlist) ==
    {e \in GroupNames \X GroupNames :
        e[2] \in Targets(masterlist, e[1]) \cup Targets(userlist, e[1])}

\* update_edge leaves an edge that the masterlist added in its place.
BuiltGroupsGraph(masterlist, userlist) ==
    [nodes |-> Ascending(DOMAIN masterlist)
                   \o Ascending(DOMAIN userlist \ DOMAIN masterlist),
     succ  |-> [g \in GroupNames |->
                   Ascending(Targets(masterlist, g))
                       \o Ascending(Targets(userlist, g)
                                       \ Targets(masterlist, g))]]

GroupEdgePairs(gg) ==
    {e \in GroupNames \X GroupNames : e[2] \in ToSet(gg.succ[e[1]])}

is_root_node(gg, g) ==
    \A h \in ToSet(gg.nodes) : g \notin ToSet(gg.succ[h])

\* depth_first_search with GroupsPathLengthVisitor: how many groups are on the
\* search's path, turn by turn.  One element of the run is one turn of the loop.
PathLengths(gg, root) ==
    LET turn(s) ==
            LET top == Last(s.stack)
                targets == gg.succ[top[1]]
                target == targets[top[2]]
                stepped == [s.stack EXCEPT ![Len(s.stack)] = <<top[1], top[2] + 1>>]
            IN IF top[2] > Len(targets)
               THEN [s EXCEPT !.stack = Front(s.stack)]
               ELSE IF target \in s.seen
                    THEN [s EXCEPT !.stack = stepped]
                    ELSE [stack |-> Append(stepped, <<target, 1>>),
                          seen  |-> s.seen \cup {target}]
        run[k \in Nat] ==
            IF k = 0
            THEN [stack |-> <<<<root, 1>>>>, seen |-> {root}]
            ELSE LET s == run[k - 1] IN IF s.stack = <<>> THEN s ELSE turn(s)
        turns == Cardinality(GroupNames) + Cardinality(GroupEdgePairs(gg))
    IN {Len(run[k].stack) : k \in 0..turns}

\* The visitor's maximum.  A path never has more groups than there are.
MaxPathLength(gg, root) ==
    Max({1} \cup (PathLengths(gg, root) \cap (1..Cardinality(GroupNames))))

\* Roots first, deepest search tree first, otherwise in index order: exactly one
\* sequence of all nodes.
sorted_group_nodes(gg) ==
    LET index(g) == CHOOSE i \in 1..Len(gg.nodes) : gg.nodes[i] = g
        key == [g \in ToSet(gg.nodes) |->
                   IF is_root_node(gg, g) THEN MaxPathLength(gg, g) ELSE 0]
    IN {s \in [1..Len(gg.nodes) -> ToSet(gg.nodes)] :
           /\ ToSet(s) = ToSet(gg.nodes)
           /\ \A i, j \in 1..Len(gg.nodes) : i < j =>
                  \/ key[s[i]] > key[s[j]]
                  \/ key[s[i]] = key[s[j]] /\ index(s[i]) < index(s[j])}
=============================================================================
