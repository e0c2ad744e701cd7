----------------------------- MODULE PluginData -----------------------------
(***************************************************************************)
(* PluginSortingData of sorting/plugins.rs: what the sort knows of each    *)
(* plugin.  The four lists of files a plugin loads after (masterlist and   *)
(* user, requirements and load-after files) give edges that differ only in *)
(* their type and are one set here.                                        *)
(***************************************************************************)
EXTENDS PluginGraph, GroupsGraph

VARIABLES
    nodes,      \* the plugins of the graph being sorted
    data        \* the plugins' sorting data: fixed during a sort

PluginDataType ==
    [is_master           : SUBSET Plugins,
     is_blueprint_plugin : SUBSET Plugins,
     masters             : [Plugins -> SUBSET Plugins],
     masters_unreadable  : SUBSET Plugins,   \* masters() fails
     files_after         : [Plugins -> SUBSET Plugins],
     masterlist_group    : [Plugins -> GroupNames \cup {NoGroup}],
     user_group          : [Plugins -> GroupNames \cup {NoGroup}],
     override_count      : [Plugins -> Nat],
     asset_count         : [Plugins -> Nat],
     records_overlap     : SUBSET (SUBSET Plugins),
     records_unreadable  : SUBSET (SUBSET Plugins),  \* do_records_overlap fails
     assets_overlap      : SUBSET (SUBSET Plugins)]

\* User metadata is preferred, and a plugin without metadata is in "default".
group(p) ==
    IF data.user_group[p] # NoGroup THEN data.user_group[p]
    ELSE IF data.masterlist_group[p] # NoGroup THEN data.masterlist_group[p]
    ELSE DefaultGroup

is_blueprint_master(p) ==
    p \in data.is_master /\ p \in data.is_blueprint_plugin

find_plugins_in_group(g) == {p \in nodes : group(p) = g}
=============================================================================
