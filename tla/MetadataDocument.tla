-------------------------- MODULE MetadataDocument --------------------------
(***************************************************************************)
(* metadata/metadata_document.rs: one loaded metadata list and the         *)
(* operations on it.                                                       *)
(*                                                                         *)
(* plugins maps the case-folded name of a plugin to its entry; entries     *)
(* with a regular expression for a name are kept in a list; and            *)
(* ordered_plugin_names remembers in which order both kinds came.  A file  *)
(* is the node that the YAML library reads from it.                        *)
(***************************************************************************)
EXTENDS PluginMetadata, FiniteSetsExt

EmptyMap == <<>>

EmptyDocument ==
    [bash_tags |-> <<>>, groups |-> <<>>, messages |-> <<>>, plugins |-> EmptyMap,
     regex_plugins |-> <<>>, ordered_plugin_names |-> <<>>]

DefaultDocument == [EmptyDocument EXCEPT !.groups = <<DefaultGroup>>]

\* What a reader finds in a file that is not one YAML document with a mapping.
Unreadable == [other |-> "unreadable"]

-----------------------------------------------------------------------------
(* Loading.                                                                *)

HasDuplicates(keys) == Cardinality(ToSet(keys)) # Len(keys)

WithDefaultGroup(groups) ==
    IF \E i \in DOMAIN groups : groups[i].name = DefaultGroupName
    THEN groups ELSE <<DefaultGroup>> \o groups

BashTag(n) == IF IsStr(n) THEN Ok(n.str) ELSE Err

\* The document with these entries, groups, messages and tags.
DocumentOf(entries, groups, messages, bash_tags) ==
    LET specific == SelectSeq(entries, LAMBDA p : ~is_regex_plugin(p))
        keys == [i \in DOMAIN specific |-> NameKey[specific[i].name]]
        names == [i \in DOMAIN groups |-> groups[i].name]
    IN IF HasDuplicates(keys) \/ HasDuplicates(names) THEN Err
       ELSE Ok([bash_tags |-> bash_tags,
                groups |-> WithDefaultGroup(groups),
                messages |-> messages,
                plugins |-> [k \in ToSet(keys) |->
                                specific[CHOOSE i \in DOMAIN keys : keys[i] = k]],
                regex_plugins |-> SelectSeq(entries, is_regex_plugin),
                ordered_plugin_names |-> [i \in DOMAIN entries |-> entries[i].name]])

load_from_str(file) ==
    IF ~IsMap(file) THEN Err
    ELSE LET entries == ParseSlice(file.map, "plugins", ParsePlugin)
             messages == ParseSlice(file.map, "globals", ParseMessage)
             bash_tags == ParseSlice(file.map, "bash_tags", BashTag)
             groups == ParseSlice(file.map, "groups", ParseGroup)
         IN IF AllOk(<<entries, messages, bash_tags, groups>>)
            THEN DocumentOf(entries.ok, groups.ok, messages.ok, bash_tags.ok) ELSE Err

-----------------------------------------------------------------------------
(* Saving.                                                                 *)

\* The entry that an ordered name stands for: for a regular expression always
\* the first entry with exactly that name.
EntryFor(doc, name) ==
    IF NameKey[name] \in DOMAIN doc.plugins THEN <<doc.plugins[NameKey[name]]>>
    ELSE LET found == SelectSeq(doc.regex_plugins, LAMBDA p : p.name = name)
         IN IF found = <<>> THEN <<>> ELSE <<Head(found)>>

ordered_plugins_iter(doc) ==
    FlattenSeq([i \in DOMAIN doc.ordered_plugin_names |->
                   EntryFor(doc, doc.ordered_plugin_names[i])])

write_list_with_line_breaks(nodes) ==
    IF nodes = <<>> THEN [other |-> "null"] ELSE [seq |-> nodes]

SavedWith(doc, plugins) ==
    LET written == SelectSeq(plugins, LAMBDA p : ~has_name_only(p))
    IN [map |->
          Optional("bash_tags", doc.bash_tags # <<>>,
                   write_list_with_line_breaks(
                       [i \in DOMAIN doc.bash_tags |->
                           write_unquoted_str(doc.bash_tags[i], "block")]))
          @@ Optional("groups", Len(doc.groups) > 1,
                      write_list_with_line_breaks(
                          [i \in DOMAIN doc.groups |-> EmitGroup(doc.groups[i])]))
          @@ Optional("globals", doc.messages # <<>>,
                      write_list_with_line_breaks(
                          [i \in DOMAIN doc.messages |->
                              EmitMessage(doc.messages[i], "block")]))
          @@ Optional("plugins", plugins # <<>>,
                      write_list_with_line_breaks(
                          [i \in DOMAIN written |-> EmitPlugin(written[i])]))]

\* Mutant: regular expressions are written first, then the rest in order.
save_grouped(doc) ==
    SavedWith(doc, doc.regex_plugins
                       \o SelectSeq(ordered_plugins_iter(doc), LAMBDA p : ~is_regex_plugin(p)))

save(doc) == SavedWith(doc, ordered_plugins_iter(doc))

-----------------------------------------------------------------------------
(* Reading and changing a loaded list.                                     *)

\* An Option: the empty sequence is None.
find_plugin(doc, name) ==
    LET own == IF NameKey[name] \in DOMAIN doc.plugins THEN doc.plugins[NameKey[name]]
               ELSE NewPlugin(name)
        matching == SelectSeq(doc.regex_plugins, LAMBDA p : name_matches(p, name))
        found == FoldLeft(merge_metadata, own, matching)
    IN IF has_name_only(found) THEN <<>> ELSE <<found>>

set_bash_tags(doc, tags) == [doc EXCEPT !.bash_tags = tags]
set_messages(doc, messages) == [doc EXCEPT !.messages = messages]
set_groups(doc, groups) == [doc EXCEPT !.groups = WithDefaultGroup(groups)]

\* Mutant: the name is remembered again each time an entry is replaced.
set_plugin_metadata_again(doc, p) ==
    IF is_regex_plugin(p)
    THEN [doc EXCEPT !.regex_plugins = Append(@, p),
                     !.ordered_plugin_names = Append(@, p.name)]
    ELSE [doc EXCEPT !.plugins = (NameKey[p.name] :> p) @@ @,
                     !.ordered_plugin_names = Append(@, p.name)]

set_plugin_metadata(doc, p) ==
    IF is_regex_plugin(p)
    THEN [doc EXCEPT !.regex_plugins = Append(@, p),
                     !.ordered_plugin_names = Append(@, p.name)]
    ELSE [doc EXCEPT !.plugins = (NameKey[p.name] :> p) @@ @,
                     !.ordered_plugin_names =
                         IF NameKey[p.name] \in DOMAIN doc.plugins THEN @
                         ELSE Append(@, p.name)]

\* Mutant: regular expressions that match the name are removed as well.
remove_plugin_metadata_matching(doc, name) ==
    LET Stays(p) == ~name_matches(p, name) /\ ~filename_eq(p.name, name)
        kept == SelectSeq(doc.regex_plugins, Stays)
        names == {NameKey[name]} \cup {NameKey[p.name] : p \in {q \in ToSet(doc.regex_plugins) :
                                                                    ~Stays(q)}}
    IN [doc EXCEPT !.plugins = [k \in DOMAIN @ \ {NameKey[name]} |-> @[k]],
                   !.regex_plugins = kept,
                   !.ordered_plugin_names = SelectSeq(@, LAMBDA n : NameKey[n] \notin names)]

remove_plugin_metadata(doc, name) ==
    LET key == NameKey[name]
        kept == SelectSeq(doc.regex_plugins, LAMBDA p : ~filename_eq(p.name, name))
        Forget(names) == SelectSeq(names, LAMBDA n : ~filename_eq(n, name))
    IN IF key \in DOMAIN doc.plugins
       THEN [doc EXCEPT !.plugins = [k \in DOMAIN @ \ {key} |-> @[k]],
                        !.ordered_plugin_names = Forget(@)]
       ELSE IF kept # doc.regex_plugins
       THEN [doc EXCEPT !.regex_plugins = kept, !.ordered_plugin_names = Forget(@)]
       ELSE doc

\* Mutant: the general messages are forgotten.
clear_plugins(doc) == [EmptyDocument EXCEPT !.messages = doc.messages]

clear(doc) == EmptyDocument
=============================================================================
