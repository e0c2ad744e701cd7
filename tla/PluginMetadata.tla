--------------------------- MODULE PluginMetadata ---------------------------
(***************************************************************************)
(* metadata/plugin_metadata.rs and database/conditions.rs: the metadata of *)
(* one plugin, how it is written and read, merged with other metadata for  *)
(* the same plugin, and filtered by conditions.  Constraints, which only   *)
(* sorting applies, are written, read and merged, and not evaluated here.  *)
(*                                                                         *)
(* A name never ends in ".ghost": PluginName::new trims it.  NameKey is    *)
(* the name as unicase compares it.                                        *)
(***************************************************************************)
EXTENDS MetadataTypes

CONSTANTS NameKey,        \* the case-folded form of each plugin or file name
          RegexNames,     \* the plugin names that are regular expressions
          InvalidRegexes, \* those of them that do not compile
          Matches         \* the pairs of a regular expression and a name it matches

filename_eq(a, b) == NameKey[a] = NameKey[b]

NewPlugin(name) ==
    [name |-> name, group |-> None, after |-> <<>>, req |-> <<>>, inc |-> <<>>,
     msg |-> <<>>, tag |-> <<>>, dirty |-> <<>>, clean |-> <<>>, url |-> <<>>]

is_regex_plugin(p) == p.name \in RegexNames

name_matches(p, name) ==
    IF is_regex_plugin(p) THEN <<p.name, name>> \in Matches
                          ELSE filename_eq(p.name, name)

has_name_only(p) == p = NewPlugin(p.name)

-----------------------------------------------------------------------------

EmitPlugin(p) ==
    [map |-> ("name" :> write_single_quoted_str(p.name))
             @@ Optional("url", p.url # <<>>,
                         EmitSlice(p.url, LocationIsScalar, EmitLocation))
             @@ Optional("group", p.group # None, write_single_quoted_str(p.group))
             @@ Optional("after", p.after # <<>>, EmitSlice(p.after, FileIsScalar, EmitFile))
             @@ Optional("req", p.req # <<>>, EmitSlice(p.req, FileIsScalar, EmitFile))
             @@ Optional("inc", p.inc # <<>>, EmitSlice(p.inc, FileIsScalar, EmitFile))
             @@ Optional("msg", p.msg # <<>>, EmitSlice(p.msg, LAMBDA m : FALSE, EmitMessage))
             @@ Optional("tag", p.tag # <<>>,
                         EmitSlice(p.tag, LAMBDA t : t.condition = None, EmitTag))
             @@ Optional("dirty", p.dirty # <<>>,
                         EmitSlice(p.dirty, LAMBDA i : FALSE, EmitCleaning))
             @@ Optional("clean", p.clean # <<>>,
                         EmitSlice(p.clean, LAMBDA i : FALSE, EmitCleaning))]

ParsePlugin(n) ==
    IF ~IsMap(n) THEN Err
    ELSE LET name == get_required_string_value(n.map, "name")
             group == get_string_value(n.map, "group")
             after == ParseSlice(n.map, "after", ParseFile)
             req == ParseSlice(n.map, "req", ParseFile)
             inc == ParseSlice(n.map, "inc", ParseFile)
             msg == ParseSlice(n.map, "msg", ParseMessage)
             tag == ParseSlice(n.map, "tag", ParseTag)
             dirty == ParseSlice(n.map, "dirty", ParseCleaning)
             clean == ParseSlice(n.map, "clean", ParseCleaning)
             url == ParseSlice(n.map, "url", ParseLocation)
         IN IF /\ AllOk(<<name, group, after, req, inc, msg, tag, dirty, clean, url>>)
               /\ name.ok \notin InvalidRegexes
            THEN Ok([name |-> name.ok, group |-> group.ok, after |-> after.ok, req |-> req.ok,
                     inc |-> inc.ok, msg |-> msg.ok, tag |-> tag.ok, dirty |-> dirty.ok,
                     clean |-> clean.ok, url |-> url.ok])
            ELSE Err

-----------------------------------------------------------------------------

\* Only elements of the target count as present: source may repeat itself.
merge_slices(target, source) ==
    target \o SelectSeq(source, LAMBDA e : e \notin ToSet(target))

\* Files are compared by name without regard to case.
merge_files(target, source) ==
    LET FileKey(f) == [f EXCEPT !.name = NameKey[@]]
    IN target \o SelectSeq(source, LAMBDA f : \A g \in ToSet(target) : FileKey(f) # FileKey(g))

merge_metadata(p, q) ==
    IF has_name_only(q) THEN p
    ELSE [p EXCEPT !.group = IF @ = None THEN q.group ELSE @,
                   !.after = merge_files(@, q.after),
                   !.req   = merge_files(@, q.req),
                   !.inc   = merge_files(@, q.inc),
                   !.tag   = merge_slices(@, q.tag),
                   !.msg   = @ \o q.msg,
                   !.dirty = merge_slices(@, q.dirty),
                   !.clean = merge_slices(@, q.clean),
                   !.url   = merge_slices(@, q.url)]

\* answers[c] is "true", "false" or "error"; checksums has the names and the
\* checksums of the files: the checksum is a condition put in front of cleaning
\* data, whose own condition is evaluated only when the checksum matches.  The
\* result is an Option or an error.
evaluate_all_conditions(p, answers, checksums) ==
    LET Answer(e) == IF e.condition = None THEN "true" ELSE answers[e.condition]
        True(e) == Answer(e) = "true"
        IsCrc(i) == <<NameKey[p.name], i.crc>> \in checksums
        Clean(i) == IsCrc(i) /\ True(i)
        evaluated == ToSet(p.after) \cup ToSet(p.req) \cup ToSet(p.inc) \cup ToSet(p.msg)
                        \cup ToSet(p.tag)
                        \cup (IF is_regex_plugin(p) THEN {}
                              ELSE {i \in ToSet(p.dirty \o p.clean) : IsCrc(i)})
        kept == [p EXCEPT !.after = SelectSeq(@, True), !.req = SelectSeq(@, True),
                          !.inc = SelectSeq(@, True), !.msg = SelectSeq(@, True),
                          !.tag = SelectSeq(@, True),
                          !.dirty = IF is_regex_plugin(p) THEN @ ELSE SelectSeq(@, Clean),
                          !.clean = IF is_regex_plugin(p) THEN @ ELSE SelectSeq(@, Clean)]
    IN IF \E e \in evaluated : Answer(e) = "error" THEN Err
       ELSE Ok(IF has_name_only(kept) THEN <<>> ELSE <<kept>>)
=============================================================================
