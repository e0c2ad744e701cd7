------------------------------ MODULE Database ------------------------------
(***************************************************************************)
(* database/mod.rs: the masterlist and the userlist, every call that loads,*)
(* writes or changes one of them, and what the queries answer.             *)
(*                                                                         *)
(* disk is the files that outlive the process.  A write may fail part of   *)
(* the way, which leaves a file that cannot be read; a restart forgets     *)
(* both lists.  What a condition evaluates to is fixed here: GameState has *)
(* the evaluator's cache.                                                  *)
(***************************************************************************)
EXTENDS MetadataDocument

CONSTANTS Paths,           \* the paths the caller uses
          OrphanPaths,     \* those whose parent directory does not exist
          InitialFiles,    \* the files on disk at first
          UserPlugins,     \* the plugin metadata the caller sets
          UserGroups,      \* the lists of groups the caller sets
          UserMessages,    \* the lists of general messages the caller sets
          UserTags,        \* the lists of Bash Tags the caller sets
          Eval,            \* what each condition evaluates to
          Checksums,       \* the pairs of a plugin and the CRC of its file
          GroupRank,       \* the place of each group name in their order
          MaxCalls         \* bound: the calls made in one behaviour

ASSUME MaxCallsAssumption == MaxCalls \in Nat
ASSUME PathsAssumption == OrphanPaths \subseteq Paths /\ DOMAIN InitialFiles \subseteq Paths

VARIABLES masterlist,   \* the two MetadataDocuments
          userlist,
          disk,         \* the files: a function from paths to what is read there
          call,         \* the last call
          failed,       \* whether it returned an error
          calls         \* how many calls have been made

vars == <<masterlist, userlist, disk, call, failed, calls>>

Init ==
    /\ masterlist = DefaultDocument
    /\ userlist = DefaultDocument
    /\ disk = InitialFiles
    /\ call = [op |-> "new"]
    /\ failed = FALSE
    /\ calls = 0

-----------------------------------------------------------------------------
(* The queries.                                                            *)

GG == INSTANCE GroupsGraph
        WITH GroupNames <- {GroupRank[g] : g \in DOMAIN GroupRank},
             DefaultGroup <- GroupRank[DefaultGroupName], NoGroup <- 0

known_bash_tags(user) == masterlist.bash_tags \o (IF user THEN userlist.bash_tags ELSE <<>>)

process_messages(messages, eval) ==
    LET Answer(m) == IF m.condition = None THEN "true" ELSE Eval[m.condition]
    IN IF ~eval THEN Ok(messages)
       ELSE IF \E i \in DOMAIN messages : Answer(messages[i]) = "error" THEN Err
       ELSE Ok(SelectSeq(messages, LAMBDA m : Answer(m) = "true"))

general_messages(user, eval) ==
    process_messages(masterlist.messages \o (IF user THEN userlist.messages ELSE <<>>), eval)

\* Mutant: a user's load-after list replaces the one of the masterlist.
merge_groups_replacing(lhs, rhs) ==
    LET Extend(groups, r) ==
            LET i == SelectInSeq(groups, LAMBDA g : g.name = r.name)
            IN IF i = 0 THEN groups
               ELSE [groups EXCEPT ![i].description =
                                       IF r.description # None THEN r.description ELSE @,
                                   ![i].after = IF r.after # <<>> THEN r.after ELSE @]
    IN FoldLeft(Extend, lhs, rhs)
           \o SelectSeq(rhs, LAMBDA r : \A i \in DOMAIN lhs : lhs[i].name # r.name)

\* Only the masterlist's own groups are extended: a name that the user's list
\* defines twice, and the masterlist does not, stays there twice.
merge_groups(lhs, rhs) ==
    LET Extend(groups, r) ==
            LET i == SelectInSeq(groups, LAMBDA g : g.name = r.name)
            IN IF i = 0 THEN groups
               ELSE [groups EXCEPT ![i].description =
                                       IF r.description # None THEN r.description ELSE @,
                                   ![i].after = @ \o r.after]
    IN FoldLeft(Extend, lhs, rhs)
           \o SelectSeq(rhs, LAMBDA r : \A i \in DOMAIN lhs : lhs[i].name # r.name)

groups(user) == IF user THEN merge_groups(masterlist.groups, userlist.groups)
                ELSE masterlist.groups

\* Mutant: the user's metadata is merged into the masterlist's.
plugin_metadata_masterlist_first(name, user, eval) ==
    LET master == find_plugin(masterlist, name)
        own == IF user THEN find_plugin(userlist, name) ELSE <<>>
        merged == IF own = <<>> \/ master = <<>> THEN own \o master
                  ELSE <<merge_metadata(master[1], own[1])>>
    IN IF eval /\ merged # <<>>
       THEN evaluate_all_conditions(merged[1], Eval, Checksums)
       ELSE Ok(merged)

\* The user's metadata is what the masterlist's is merged into.
plugin_metadata(name, user, eval) ==
    LET master == find_plugin(masterlist, name)
        own == IF user THEN find_plugin(userlist, name) ELSE <<>>
        merged == IF own = <<>> \/ master = <<>> THEN own \o master
                  ELSE <<merge_metadata(own[1], master[1])>>
    IN IF eval /\ merged # <<>>
       THEN evaluate_all_conditions(merged[1], Eval, Checksums)
       ELSE Ok(merged)

plugin_user_metadata(name, eval) ==
    LET own == find_plugin(userlist, name)
    IN IF eval /\ own # <<>>
       THEN evaluate_all_conditions(own[1], Eval, Checksums)
       ELSE Ok(own)

\* A list of groups as GroupsGraph takes it: names to the names they follow.
GroupList(list) ==
    [r \in {GroupRank[list[i].name] : i \in DOMAIN list} |->
        UNION {{GroupRank[a] : a \in ToSet(list[i].after)} :
                  i \in {j \in DOMAIN list : GroupRank[list[j].name] = r}}]

-----------------------------------------------------------------------------
(* Loading and writing.                                                    *)

Called(c, error) ==
    /\ calls < MaxCalls
    /\ calls' = calls + 1
    /\ call' = c
    /\ failed' = error

\* Mutant: the Bash Tags are stored before the groups have been read.
load_early(doc, path) ==
    LET result == IF path \in DOMAIN disk THEN load_from_str(disk[path]) ELSE Err
        tags == IF path \in DOMAIN disk /\ IsMap(disk[path])
                THEN ParseSlice(disk[path].map, "bash_tags", BashTag) ELSE Err
    IN [failed |-> ~IsOk(result),
        doc    |-> IF IsOk(result) THEN result.ok
                   ELSE IF IsOk(tags) THEN [doc EXCEPT !.bash_tags = tags.ok] ELSE doc]

\* The document is replaced only when the whole file has been understood.
Replaced(doc, result) ==
    [failed |-> ~IsOk(result), doc |-> IF IsOk(result) THEN result.ok ELSE doc]

load(doc, path) ==
    Replaced(doc, IF path \in DOMAIN disk THEN load_from_str(disk[path]) ELSE Err)

\* The prelude's text takes the place of the masterlist's own, so that a
\* prelude that is not YAML spoils a masterlist that has one.
load_with_prelude(doc, path, prelude) ==
    IF \/ path \notin DOMAIN disk
       \/ prelude \notin DOMAIN disk
       \/ /\ IsMap(disk[path])
          /\ "prelude" \in DOMAIN disk[path].map
          /\ disk[prelude] = Unreadable
    THEN [failed |-> TRUE, doc |-> doc]
    ELSE load(doc, path)

MasterlistLoaded(c, result) ==
    /\ masterlist' = result.doc
    /\ Called(c, result.failed)
    /\ UNCHANGED <<userlist, disk>>

LoadMasterlist(path) ==
    MasterlistLoaded([op |-> "load_masterlist", path |-> path], load(masterlist, path))

LoadMasterlistWithPrelude(path, prelude) ==
    MasterlistLoaded([op |-> "load_masterlist", path |-> path, prelude |-> prelude],
                     load_with_prelude(masterlist, path, prelude))

LoadUserlist(path) ==
    LET result == load(userlist, path)
    IN /\ userlist' = result.doc
       /\ Called([op |-> "load_userlist", path |-> path], result.failed)
       /\ UNCHANGED <<masterlist, disk>>

validate_write_path(path, truncate) ==
    path \notin OrphanPaths /\ (truncate \/ path \notin DOMAIN disk)

\* std::fs::write empties the file before it writes, and may then fail.
Written(path, content) ==
    \/ /\ disk' = (path :> content) @@ disk
       /\ failed' = FALSE
    \/ /\ disk' = (path :> Unreadable) @@ disk
       /\ failed' = TRUE

Write(c, content) ==
    /\ calls < MaxCalls
    /\ calls' = calls + 1
    /\ call' = c
    /\ IF validate_write_path(c.path, c.truncate) THEN Written(c.path, content)
       ELSE failed' = TRUE /\ UNCHANGED disk
    /\ UNCHANGED <<masterlist, userlist>>

WriteUserMetadata(path, truncate) ==
    Write([op |-> "write_user_metadata", path |-> path, truncate |-> truncate], save(userlist))

\* Mutant: every entry keeps its messages, too.
MinimalListKeepingMessages ==
    FoldLeft(LAMBDA doc, p : set_plugin_metadata(doc,
                 [NewPlugin(p.name) EXCEPT !.tag = p.tag, !.dirty = p.dirty, !.msg = p.msg]),
             DefaultDocument, ordered_plugins_iter(masterlist))

MinimalList ==
    FoldLeft(LAMBDA doc, p : set_plugin_metadata(doc,
                 [NewPlugin(p.name) EXCEPT !.tag = p.tag, !.dirty = p.dirty]),
             DefaultDocument, ordered_plugins_iter(masterlist))

WriteMinimalList(path, truncate) ==
    Write([op |-> "write_minimal_list", path |-> path, truncate |-> truncate], save(MinimalList))

-----------------------------------------------------------------------------
(* Changing the userlist.                                                  *)

UserChange(c, doc) ==
    /\ userlist' = doc
    /\ Called(c, FALSE)
    /\ UNCHANGED <<masterlist, disk>>

SetUserKnownBashTags(tags) ==
    UserChange([op |-> "set_user_known_bash_tags"], set_bash_tags(userlist, tags))

SetUserGeneralMessages(messages) ==
    UserChange([op |-> "set_user_general_messages"], set_messages(userlist, messages))

SetUserGroups(list) == UserChange([op |-> "set_user_groups"], set_groups(userlist, list))

SetPluginUserMetadata(p) ==
    UserChange([op |-> "set_plugin_user_metadata", plugin |-> p],
               set_plugin_metadata(userlist, p))

DiscardPluginUserMetadata(name) ==
    UserChange([op |-> "discard_plugin_user_metadata", name |-> name],
               remove_plugin_metadata(userlist, name))

DiscardAllUserMetadata ==
    UserChange([op |-> "discard_all_user_metadata"], clear(userlist))

\* The process ends and another one opens a handle for the same game.
Restart ==
    /\ masterlist' = DefaultDocument
    /\ userlist' = DefaultDocument
    /\ Called([op |-> "new"], FALSE)
    /\ UNCHANGED disk

Next ==
    \/ \E path \in Paths : LoadMasterlist(path)
    \/ \E path, prelude \in Paths : LoadMasterlistWithPrelude(path, prelude)
    \/ \E path \in Paths : LoadUserlist(path)
    \/ \E path \in Paths, truncate \in BOOLEAN : WriteUserMetadata(path, truncate)
    \/ \E path \in Paths, truncate \in BOOLEAN : WriteMinimalList(path, truncate)
    \/ \E tags \in UserTags : SetUserKnownBashTags(tags)
    \/ \E messages \in UserMessages : SetUserGeneralMessages(messages)
    \/ \E list \in UserGroups : SetUserGroups(list)
    \/ \E p \in UserPlugins : SetPluginUserMetadata(p)
    \/ \E name \in DOMAIN NameKey : DiscardPluginUserMetadata(name)
    \/ DiscardAllUserMetadata
    \/ Restart

Spec == Init /\ [][Next]_vars

-----------------------------------------------------------------------------
(* Properties.                                                             *)

\* The three collections of plugins stay in step over any sequence of calls:
\* every entry has its name in the order, a plugin once and a regular
\* expression as often as it has entries, and no name is left behind.
InStep(doc) ==
    LET Times(seq, Test(_)) == Cardinality({i \in DOMAIN seq : Test(seq[i])})
    IN \A n \in DOMAIN NameKey :
          Times(doc.ordered_plugin_names, LAMBDA m : filename_eq(m, n))
            = (IF NameKey[n] \in DOMAIN doc.plugins THEN 1 ELSE 0)
                + Times(doc.regex_plugins, LAMBDA p : filename_eq(p.name, n))

CollectionsInStep == InStep(masterlist) /\ InStep(userlist)

\* The entries that say something, in their order.
Entries(doc) == SelectSeq(ordered_plugins_iter(doc), LAMBDA p : ~has_name_only(p))

\* Two documents with the same metadata: no groups at all are the default one, and
\* an entry that says nothing has at most another spelling of a name in it.
SameMetadata(d, e) ==
    LET Groups(doc) == IF doc.groups = <<>> THEN <<DefaultGroup>> ELSE doc.groups
        Found(doc, name) == [i \in DOMAIN find_plugin(doc, name) |->
                                [find_plugin(doc, name)[i] EXCEPT !.name = NameKey[@]]]
    IN /\ d.bash_tags = e.bash_tags /\ d.messages = e.messages /\ Groups(d) = Groups(e)
       /\ Entries(d) = Entries(e)
       /\ \A name \in DOMAIN NameKey \ RegexNames : Found(d, name) = Found(e, name)

\* A document without the cases in which save leaves something out or writes what
\* cannot be loaded: a group that is defined twice, the default group alone but
\* changed, entries of which none says anything, or two for one regular expression.
Plain(doc) ==
    /\ ~HasDuplicates([i \in DOMAIN doc.groups |-> doc.groups[i].name])
    /\ Len(doc.groups) = 1 => doc.groups = <<DefaultGroup>>
    /\ Entries(doc) = <<>> => doc.ordered_plugin_names = <<>>
    /\ ~HasDuplicates([i \in DOMAIN doc.regex_plugins |-> doc.regex_plugins[i].name])

\* However the userlist came to be, writing it and loading what was written gives
\* back all its metadata, entries in the same order, unless it has one of the cases
\* that Plain excludes; nothing is said of those here.
UserlistRoundTrips ==
    Plain(userlist) =>
        LET written == load_from_str(save(userlist))
        IN IsOk(written) /\ SameMetadata(written.ok, userlist)

\* A list says of every plugin what the masterlist says about its tags and its
\* dirty info, and nothing else, unless the masterlist has two entries for one
\* regular expression.
FaithfulTo(loaded) ==
    LET Tags(option) == IF option = <<>> THEN <<>> ELSE option[1].tag
        Dirty(option) == IF option = <<>> THEN <<>> ELSE option[1].dirty
        regexes == [i \in DOMAIN masterlist.regex_plugins |-> masterlist.regex_plugins[i].name]
    IN (IsOk(loaded) /\ ~HasDuplicates(regexes)) =>
          \A name \in DOMAIN NameKey \ RegexNames :
              LET was == find_plugin(masterlist, name)
                  is == find_plugin(loaded.ok, name)
              IN /\ Tags(is) = Tags(was)
                 /\ Dirty(is) = Dirty(was)
                 /\ is # <<>> => is[1] = [NewPlugin(is[1].name) EXCEPT !.tag = is[1].tag,
                                                                      !.dirty = is[1].dirty]

\* What write_minimal_list writes, loaded as a masterlist, answers for tags and
\* dirty info as the masterlist does.
MinimalListIsFaithful == FaithfulTo(load_from_str(save(MinimalList)))

\* The groups that the caller is shown and the graph that sorting builds from
\* the two lists have the same names and the same edges.
GroupsAgreeWithGraph ==
    LET shown == GroupList(groups(TRUE))
        master == GroupList(masterlist.groups)
        user == GroupList(userlist.groups)
    IN /\ DOMAIN shown = DOMAIN master \cup DOMAIN user
       /\ GG!GroupPairs(master, user)
            = UNION {{<<a, g>> : a \in shown[g]} : g \in DOMAIN shown}

\* The user's metadata comes before the masterlist's in every list, the user's
\* group wins, and with conditions evaluated the answer is what is left of the
\* unevaluated one: no call order makes the masterlist override the user.
UserMetadataComesFirst ==
    \A name \in DOMAIN NameKey :
        LET own == plugin_user_metadata(name, FALSE).ok
            all == plugin_metadata(name, TRUE, FALSE).ok
        IN own # <<>> =>
              /\ all # <<>>
              /\ own[1].group # None => all[1].group = own[1].group
              /\ IsPrefix(own[1].after, all[1].after)
              /\ IsPrefix(own[1].tag, all[1].tag)
              /\ IsPrefix(own[1].msg, all[1].msg)

\* What is written says what is held: the userlist to a program that loads it, and
\* the minimal list to one that asks for tags and dirty info.
WrittenListsAreFaithful == UserlistRoundTrips /\ MinimalListIsFaithful

\* Queries over both lists merge them as sorting does: the groups are those of the
\* groups graph, and the user's metadata comes first.
QueriesMergeLists == GroupsAgreeWithGraph /\ UserMetadataComesFirst

\* A call that fails leaves both lists as they were, and a failed load never
\* leaves one of a list's collections new and another old.
FailureChangesNoList ==
    [][failed' => UNCHANGED <<masterlist, userlist>>]_vars

\* Once all user metadata is discarded the masterlist alone answers every query.
DiscardRestoresMasterlist ==
    [][(call'.op = "discard_all_user_metadata" /\ calls' # calls) =>
           /\ known_bash_tags(TRUE)' = known_bash_tags(FALSE)'
           /\ general_messages(TRUE, FALSE)' = general_messages(FALSE, FALSE)'
           /\ groups(TRUE)' = groups(FALSE)'
           /\ \A name \in DOMAIN NameKey :
                 plugin_metadata(name, TRUE, FALSE)' = plugin_metadata(name, FALSE, FALSE)']_vars

\* Discarding one plugin's metadata touches that plugin's entry alone: nothing
\* is left under its name in any case, and what the caller is told about other
\* plugins changes only when the name was a regular expression.
DiscardIsSpecific ==
    [][(call'.op = "discard_plugin_user_metadata" /\ calls' # calls) =>
           /\ \A i \in DOMAIN userlist'.ordered_plugin_names :
                 ~filename_eq(userlist'.ordered_plugin_names[i], call'.name)
           /\ call'.name \notin RegexNames =>
                 \A name \in DOMAIN NameKey :
                     ~filename_eq(name, call'.name) =>
                         plugin_metadata(name, TRUE, FALSE)' = plugin_metadata(name, TRUE, FALSE)]_vars

\* Discarding user metadata removes all that it names and nothing else.
DiscardIsExact == DiscardRestoresMasterlist /\ DiscardIsSpecific

-----------------------------------------------------------------------------
(* What the documentation says.                                            *)

\* "Writes a metadata file containing all loaded user-added metadata" and
\* "Loads the userlist from the given path": what was written can be loaded.
WrittenUserlistLoads == IsOk(load_from_str(save(userlist)))

\* "Writes a metadata file containing all loaded user-added metadata": what was
\* written, if it can be loaded at all, holds what the userlist holds.
WrittenUserlistIsWhole ==
    LET written == load_from_str(save(userlist))
    IN IsOk(written) => SameMetadata(written.ok, userlist)
=============================================================================
