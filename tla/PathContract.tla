---------------------------- MODULE PathContract ----------------------------
(***************************************************************************)
(* What a path search through the plugin graph promises to its caller: the *)
(* answer says whether a path exists, a returned path is one, and the only *)
(* things added to the paths cache are pairs (from, x) with a path from    *)
(* the search's start to x and pairs (x, to) with a path from x to the     *)
(* search's end.  PathSearch implements this specification; PluginGraph    *)
(* uses it as the effect of one call.                                      *)
(***************************************************************************)
EXTENDS Reachability

CONSTANT Vertices

VARIABLES graph_edges, from_index, to_index, cache, answer

contractVars == <<graph_edges, from_index, to_index, cache, answer>>

Learnable(V, E, from, to) ==
    {<<from, x>> : x \in Descendants(V, E, from)}
        \cup {<<x, to>> : x \in Ancestors(V, E, to)}

ContractInit ==
    /\ graph_edges \in SUBSET (Vertices \X Vertices)
    /\ from_index \in Vertices
    /\ to_index \in Vertices
    /\ cache \in SUBSET (Vertices \X Vertices)
    /\ answer = [done |-> FALSE, found |-> FALSE, path |-> <<>>]

Learn ==
    /\ ~answer.done
    /\ \E X \in SUBSET Learnable(Vertices, graph_edges, from_index, to_index) :
          cache' = cache \cup X
    /\ UNCHANGED <<graph_edges, from_index, to_index, answer>>

Answer ==
    /\ ~answer.done
    /\ answer'.done
    /\ answer'.found = Reach(Vertices, graph_edges, from_index, to_index)
    /\ answer'.path # <<>> =>
          IsPath(graph_edges, answer'.path, from_index, to_index)
    /\ UNCHANGED <<graph_edges, from_index, to_index, cache>>

ContractNext == Learn \/ Answer

ContractSpec == ContractInit /\ [][ContractNext]_contractVars
=============================================================================
