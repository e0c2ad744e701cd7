----------------------------- MODULE MergeKeys ------------------------------
(***************************************************************************)
(* metadata/yaml/merge.rs: the "<<" keys of a loaded document are replaced *)
(* by the entries of the mappings they name.                               *)
(*                                                                         *)
(* A node is [scalar], [seq] or [map], a map being a function from keys to *)
(* nodes.  Aliases have been resolved to copies by the YAML library.       *)
(***************************************************************************)
EXTENDS Naturals, SequencesExt, TLC

CONSTANT Nodes      \* the documents that are loaded

VARIABLES node,     \* the document as the YAML library returns it
          result    \* what becomes of it: [ok], [err] or nothing yet

vars == <<node, result>>

Pending == [pending |-> TRUE]
Err == [err |-> TRUE]
Ok(n) == [ok |-> n]
IsOk(r) == "ok" \in DOMAIN r
IsSeq(n) == "seq" \in DOMAIN n
IsMap(n) == "map" \in DOMAIN n
Merge == "<<"

\* The first mapping's entries stay: entry(key).or_insert(value).
merge_mappings(m1, m2) == m1 @@ m2

\* Mutant: the merged entries replace what was there.
merge_mappings_over(m1, m2) == m2 @@ m1

merge_into_mapping_over(m, value) ==
    IF IsMap(value) THEN Ok(merge_mappings_over(m, value.map))
    ELSE IF IsSeq(value) /\ \A i \in DOMAIN value.seq : IsMap(value.seq[i])
    THEN Ok(FoldLeft(LAMBDA acc, e : merge_mappings_over(acc, e.map), m, value.seq))
    ELSE Err

merge_into_mapping(m, value) ==
    IF IsMap(value) THEN Ok(merge_mappings(m, value.map))
    ELSE IF IsSeq(value) /\ \A i \in DOMAIN value.seq : IsMap(value.seq[i])
    THEN Ok(FoldLeft(LAMBDA acc, e : merge_mappings(acc, e.map), m, value.seq))
    ELSE Err

\* Mutant: the value of a merge key is merged as it was written.
merge_mapping_keys_raw(m, processed) ==
    LET own == [k \in DOMAIN m \ {Merge} |-> processed[k].ok]
    IN IF \E k \in DOMAIN m : ~IsOk(processed[k]) THEN Err
       ELSE IF Merge \in DOMAIN m THEN merge_into_mapping(own, m[Merge]) ELSE Ok(own)

\* processed[k] is what process_merge_keys makes of m[k].
merge_mapping_keys(m, processed) ==
    LET own == [k \in DOMAIN m \ {Merge} |-> processed[k].ok]
    IN IF \E k \in DOMAIN m : ~IsOk(processed[k]) THEN Err
       ELSE IF Merge \in DOMAIN m THEN merge_into_mapping(own, processed[Merge].ok) ELSE Ok(own)

RECURSIVE process_merge_keys(_)
process_merge_keys(n) ==
    IF IsSeq(n)
    THEN LET elements == [i \in DOMAIN n.seq |-> process_merge_keys(n.seq[i])]
         IN IF \A i \in DOMAIN elements : IsOk(elements[i])
            THEN Ok([seq |-> [i \in DOMAIN elements |-> elements[i].ok]]) ELSE Err
    ELSE IF IsMap(n)
    THEN LET merged == merge_mapping_keys(n.map,
                           [k \in DOMAIN n.map |-> process_merge_keys(n.map[k])])
         IN IF IsOk(merged) THEN Ok([map |-> merged.ok]) ELSE Err
    ELSE Ok(n)

Init == node \in Nodes /\ result = Pending

Process ==
    /\ result = Pending
    /\ result' = process_merge_keys(node)
    /\ UNCHANGED node

Spec == Init /\ [][Process]_vars

-----------------------------------------------------------------------------

RECURSIVE HasMergeKey(_)
HasMergeKey(n) ==
    \/ IsSeq(n) /\ \E i \in DOMAIN n.seq : HasMergeKey(n.seq[i])
    \/ IsMap(n) /\ (Merge \in DOMAIN n.map \/ \E k \in DOMAIN n.map : HasMergeKey(n.map[k]))

\* No merge key is left anywhere, those inside merged mappings included: a
\* second pass would change nothing.
NoMergeKeyLeft ==
    IsOk(result) => ~HasMergeKey(result.ok) /\ process_merge_keys(result.ok) = result

\* What a key stands for, by YAML's rule for merge keys: the mapping's own
\* entry, or else that of the first of the merged mappings that has one.
RECURSIVE Meaning(_, _)
Meaning(n, k) ==
    LET sources == IF Merge \notin DOMAIN n.map THEN <<>>
                   ELSE IF IsSeq(n.map[Merge]) THEN n.map[Merge].seq ELSE <<n.map[Merge]>>
        found == SelectSeq([i \in DOMAIN sources |-> Meaning(sources[i], k)],
                           LAMBDA v : v # Pending)
    IN IF k \in DOMAIN n.map THEN process_merge_keys(n.map[k]).ok
       ELSE IF found = <<>> THEN Pending ELSE Head(found)

\* Own entries win over merged ones, and earlier merged mappings over later
\* ones, through any nesting of merge keys.
OwnKeysWin ==
    (IsOk(result) /\ IsMap(node)) =>
        /\ \A k \in DOMAIN result.ok.map : result.ok.map[k] = Meaning(node, k)
        /\ \A k \in DOMAIN node.map \ {Merge} : k \in DOMAIN result.ok.map
=============================================================================
