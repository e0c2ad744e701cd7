------------------------------- MODULE MCSort -------------------------------
(***************************************************************************)
(* Whole sorts.  Four plugins for tie-breaking; three for the three        *)
(* partitions with validation and early loaders, faulty groups, group      *)
(* edges and overlap edges; and two for what the documentation and the     *)
(* comments say of them.                                                   *)
(***************************************************************************)
EXTENDS PluginSort

NoFiles == [p \in Plugins |-> {}]
NoCounts == [p \in Plugins |-> 0]
NoGroups == [p \in Plugins |-> NoGroup]

\* The load-after sets that a set of (first, second) pairs stands for.
After(E) == [q \in Plugins |-> {p \in Plugins : <<p, q>> \in E}]

PlainData ==
    [is_master |-> {}, is_blueprint_plugin |-> {},
     masters |-> NoFiles, masters_unreadable |-> {}, files_after |-> NoFiles,
     masterlist_group |-> NoGroups, user_group |-> NoGroups,
     override_count |-> NoCounts, asset_count |-> NoCounts,
     records_overlap |-> {}, records_unreadable |-> {}, assets_overlap |-> {}]

DefaultOnly == [g \in {DefaultGroup} |-> {}]

Input(d, o, e, m, u) ==
    [data |-> d, order |-> o,
     metadata |-> [early |-> e, masterlist_groups |-> m, user_groups |-> u]]

Twos == {{p, q} : p, q \in Plugins} \ {{p} : p \in Plugins}

SmallSets(S, n) == UNION {kSubset(k, S) : k \in 0..n}

GroupDags(G) ==
    {E \in SUBSET {e \in G \X G : e[1] # e[2]} : Acyclic(G, E)}

GroupsAfter(E) ==
    [h \in GroupNames |-> {g \in GroupNames : <<g, h>> \in E}]

-----------------------------------------------------------------------------
FourPlugins == 1..4
OneGroup == {2}

\* Tie-breaking: every acyclic set of constraints on four plugins, up to a
\* renaming of the plugins, against every current load order.
TieInputs ==
    {Input([PlainData EXCEPT !.files_after = After(E)], o, <<>>, DefaultOnly,
           DefaultOnly) :
        E \in SUBSET {e \in Pairs : e[1] < e[2]}, o \in SetToSeqs(Plugins)}

-----------------------------------------------------------------------------
ThreePlugins == 1..3
FourGroups == 1..4

\* Partitions, validation and early loaders: every choice of kinds for three
\* plugins, up to two dependencies of either sort (a plugin may even name
\* itself) and unreadable masters.
Kinds == [Plugins -> {"master", "blueprint", "other"}]

PartitionInputs ==
    {Input([PlainData EXCEPT
               !.is_master = {p \in Plugins : k[p] # "other"},
               !.is_blueprint_plugin = {p \in Plugins : k[p] = "blueprint"},
               !.masters = After({d[2] : d \in {y \in D : y[1] = "master"}}),
               !.files_after = After({d[2] : d \in {y \in D : y[1] = "file"}}),
               !.masters_unreadable = x[1]],
           <<2, 3, 1>>, x[2], DefaultOnly, DefaultOnly) :
        k \in Kinds,
        D \in SmallSets({"master", "file"}
                           \X {<<1, 2>>, <<2, 1>>, <<2, 3>>, <<3, 1>>, <<1, 1>>},
                        2),
        x \in {<<{}, <<>>>>, <<{}, <<3, 1>>>>, <<{2}, <<>>>>}}

\* Groups that are undefined, cyclic, defined by the userlist alone or placed by
\* user metadata, and a masterlist without the default group.
BadGroupInputs ==
    {Input([PlainData EXCEPT !.masterlist_group[1] = g, !.user_group[1] = h],
           <<3, 2, 1>>, <<>>, m, u) :
        g \in {NoGroup, 1}, h \in {NoGroup, 3},
        m \in {DefaultOnly, (1 :> {2}) @@ (2 :> {}), (1 :> {3}), (2 :> {2})},
        u \in {DefaultOnly, (2 :> {1}), (2 :> {}) @@ (3 :> {1})}}
    \cup {Input([PlainData EXCEPT !.masterlist_group = [p \in Plugins |-> 1]],
                <<3, 2, 1>>, <<>>, (1 :> {}), << >>)}

\* Groups: every acyclic groups graph on three groups and every placing of
\* three plugins in them, with up to one constraint between the plugins.
GroupInputs ==
    {Input([PlainData EXCEPT
               !.files_after = After(D), !.masterlist_group = m],
           <<2, 3, 1>>, <<>>, GroupsAfter(E), DefaultOnly) :
        D \in SmallSets({<<1, 2>>, <<2, 1>>, <<2, 3>>, <<3, 1>>}, 1),
        m \in [Plugins -> GroupNames \ {4}], E \in GroupDags(GroupNames \ {4})}

\* Larger groups graphs: every acyclic graph on four groups, with one plugin in
\* each of three groups and none in the fourth.
GroupShapeInputs ==
    {Input([PlainData EXCEPT !.masterlist_group = m],
           <<3, 2, 1>>, <<>>, GroupsAfter(E), DefaultOnly) :
        m \in {<<2, 3, 4>>, <<1, 3, 4>>, <<1, 2, 4>>, <<1, 2, 3>>},
        E \in GroupDags(GroupNames)}

\* Overlaps: every choice of override counts and overlapping records for three
\* plugins, with and without archives, constraints and unreadable records.
OverlapInputs ==
    {Input([PlainData EXCEPT
               !.files_after = After(D), !.override_count = c,
               !.asset_count = x[1], !.records_overlap = r,
               !.assets_overlap = x[2], !.records_unreadable = x[3]],
           <<2, 3, 1>>, <<>>, DefaultOnly, DefaultOnly) :
        D \in {{}, {<<2, 1>>}, {<<1, 3>>}},
        c \in [Plugins -> 0..2],
        r \in SUBSET Twos,
        x \in {<<NoCounts, {}, {}>>, <<NoCounts, {}, {{2, 3}}>>,
               <<<<0, 1, 2>>, {}, {}>>, <<<<1, 2, 1>>, Twos, {}>>}}

\* (Nested to the right, each \cup looks elements up in a set TLC has sorted.)
SortInputs ==
    PartitionInputs \cup (OverlapInputs \cup (GroupInputs \cup
        (GroupShapeInputs \cup BadGroupInputs)))

-----------------------------------------------------------------------------
TwoPlugins == 1..2

OverlapDocInputs ==
    {Input([PlainData EXCEPT !.override_count = c, !.records_overlap = Twos],
           <<2, 1>>, <<>>, DefaultOnly, DefaultOnly) :
        c \in [Plugins -> 0..2]}

CrossPartInputs ==
    {Input([PlainData EXCEPT !.is_master = k, !.files_after = After(D)],
           <<2, 1>>, <<>>, DefaultOnly, DefaultOnly) :
        k \in SUBSET Plugins, D \in SUBSET {<<1, 2>>, <<2, 1>>}}
=============================================================================
