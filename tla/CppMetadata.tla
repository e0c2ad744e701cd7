----------------------------- MODULE CppMetadata -----------------------------
(***************************************************************************)
(* The metadata of a plugin as the language wrappers hold it.              *)
(*                                                                         *)
(* The C++ API (cpp/src/api/metadata, cpp/src/api/convert.cpp) has its own *)
(* objects, with a merge and comparisons of their own and with an empty    *)
(* string wherever Rust has None; they are converted on the way to the     *)
(* database and back (cpp/src/metadata.rs).  A Python or Node.js object    *)
(* (python/src/metadata.rs, nodejs/src/metadata.rs) is the Rust object.    *)
(*                                                                         *)
(* One program edits a C++ object and stores it; another makes the same    *)
(* calls on the twin of that object in one of the other languages, with    *)
(* None for each empty string.  Trimmed gives a plugin name without .ghost *)
(* at its end.                                                             *)
(***************************************************************************)
EXTENDS MetadataDocument

CONSTANTS GivenNames,   \* the names that the programs give to new objects
          Trimmed,      \* each of them without a .ghost at its end
          Groups,       \* the names given to SetGroup
          Values,       \* the lists given to the setter of each field
          Others,       \* C++ objects given to MergeMetadata
          Rank,         \* the order of strings, and of message types
          MaxEdits      \* bound: calls made

VARIABLES held,        \* the C++ program's object
          language,    \* that of the other program
          twin,        \* its object, or None when it was refused
          comparable,  \* FALSE after a call that only the C++ program can make
          userlist,    \* the database's user metadata
          put,         \* the C++ object last stored for each plugin
          edits

vars == <<held, language, twin, comparable, userlist, put, edits>>

-----------------------------------------------------------------------------
(* From C++ to Rust: an empty string means that the field is not set.      *)

Opt(s) == IF s = "" THEN None ELSE s

new_message_content(c) == [c EXCEPT !.lang = IF @ = "" THEN DefaultLanguage ELSE @]
Contents(contents) == [i \in DOMAIN contents |-> new_message_content(contents[i])]
new_file(f) == [f EXCEPT !.display = Opt(@), !.condition = Opt(@), !.constraint = Opt(@),
                         !.detail = Contents(@)]
multilingual_message(m) == [m EXCEPT !.condition = Opt(@), !.content = Contents(@)]
new_tag(t) == [t EXCEPT !.condition = Opt(@)]
new_plugin_cleaning_data(i) == [i EXCEPT !.condition = Opt(@), !.detail = Contents(@)]
new_location(l) == [l EXCEPT !.name = Opt(@)]

\* Each element by its field; the texts of one message or detail are checked here.
ToRustElement(field, e) ==
    CASE field \in {"after", "req", "inc"} -> new_file(e)
      [] field = "msg" -> multilingual_message(e)
      [] field = "tag" -> new_tag(e)
      [] field \in {"dirty", "clean"} -> new_plugin_cleaning_data(e)
      [] field = "url" -> new_location(e)

Texts(field, e) ==
    CASE field = "msg" -> e.content
      [] field \in {"tag", "url"} -> <<>>
      [] OTHER -> e.detail

Fields == {"after", "req", "inc", "msg", "tag", "dirty", "clean", "url"}
ToRustList(field, list) == [i \in DOMAIN list |-> ToRustElement(field, list[i])]
ListConverts(field, list) ==
    \A i \in DOMAIN list :
        validate_message_contents(Texts(field, ToRustElement(field, list[i])))

Converts(p) ==
    /\ p.name \notin InvalidRegexes
    /\ \A field \in Fields : ListConverts(field, p[field])

ToRust(p) ==
    [x \in DOMAIN p |-> IF x \in Fields THEN ToRustList(x, p[x]) ELSE p[x]]

-----------------------------------------------------------------------------
(* The other program's objects, made with None for each empty string: what *)
(* is None is left as the Rust constructor sets it.                        *)

Given(option, default) == IF option = None THEN default ELSE option

PyContent(c) == [NewContent(c.text) EXCEPT !.lang = Given(Opt(c.lang), @)]
PyContents(contents) == [i \in DOMAIN contents |-> PyContent(contents[i])]
PyMessage(m) == [level |-> m.level, content |-> PyContents(m.content), condition |-> Opt(m.condition)]
PyFile(f) ==
    [NewFile(f.name) EXCEPT !.display = Opt(f.display), !.detail = PyContents(f.detail),
                            !.condition = Opt(f.condition), !.constraint = Opt(f.constraint)]
PyCleaning(i) ==
    [NewCleaning(i.crc, i.util) EXCEPT !.itm = i.itm, !.udr = i.udr, !.nav = i.nav,
                                       !.detail = PyContents(i.detail),
                                       !.condition = Opt(i.condition)]
PyTag(t) == [name |-> t.name, addition |-> t.addition, condition |-> Opt(t.condition)]
PyLocation(l) == [NewLocation(l.url) EXCEPT !.name = Opt(l.name)]

\* Node.js has the same constructors.
NodeMessage(m) == PyMessage(m)
NodeFile(f) == PyFile(f)
NodeCleaning(i) == PyCleaning(i)
NodeTag(t) == PyTag(t)
NodeLocation(l) == PyLocation(l)

ScriptElement(field, e) ==
    LET python == language = "python"
    IN CASE field \in {"after", "req", "inc"} -> IF python THEN PyFile(e) ELSE NodeFile(e)
         [] field = "msg" -> IF python THEN PyMessage(e) ELSE NodeMessage(e)
         [] field = "tag" -> IF python THEN PyTag(e) ELSE NodeTag(e)
         [] field \in {"dirty", "clean"} -> IF python THEN PyCleaning(e) ELSE NodeCleaning(e)
         [] field = "url" -> IF python THEN PyLocation(e) ELSE NodeLocation(e)

\* The constructors refuse what validate_message_contents refuses.
ScriptBuilds(field, list) ==
    \A i \in DOMAIN list : validate_message_contents(Texts(field, ScriptElement(field, list[i])))
ScriptList(field, list) == [i \in DOMAIN list |-> ScriptElement(field, list[i])]
ScriptObject(p) == [x \in DOMAIN p |-> IF x \in Fields THEN ScriptList(x, p[x]) ELSE p[x]]

-----------------------------------------------------------------------------
(* From Rust to C++.                                                       *)

Str(option) == IF option = None THEN "" ELSE option

ToCppElement(field, e) ==
    CASE field \in {"after", "req", "inc"} ->
            [e EXCEPT !.display = Str(@), !.condition = Str(@), !.constraint = Str(@)]
      [] field = "url" -> [e EXCEPT !.name = Str(@)]
      [] OTHER -> [e EXCEPT !.condition = Str(@)]

\* Mutant: the clean info is read from the dirty info.
ToCppCleanForgotten(p) ==
    [x \in DOMAIN p |->
        IF x \in Fields
        THEN LET list == p[IF x = "clean" THEN "dirty" ELSE x]
             IN [i \in DOMAIN list |-> ToCppElement(x, list[i])]
        ELSE IF x = "group" THEN Opt(Str(p.group)) ELSE p[x]]

ToCpp(p) ==
    [x \in DOMAIN p |->
        IF x \in Fields THEN [i \in DOMAIN p[x] |-> ToCppElement(x, p[x][i])]
        ELSE IF x = "group" THEN Opt(Str(p.group)) ELSE p[x]]

-----------------------------------------------------------------------------
(* The C++ objects.                                                        *)

\* The constructor of Message; those of File and PluginCleaningData check nothing.
MessageCtor(contents) ==
    Len(contents) > 1 => \E i \in DOMAIN contents : contents[i].lang = DefaultLanguage

\* operator==: file names are compared by Rust, without regard to case.
CppEqual(field, e, f) ==
    IF field \in {"after", "req", "inc"}
    THEN filename_eq(e.name, f.name) /\ [e EXCEPT !.name = f.name] = f
    ELSE e = f

\* operator<: the fields in the order in which they are compared; a list of
\* texts comes last and is compared element by element.
ContentsOrder(contents) ==
    FlattenSeq([i \in DOMAIN contents |-> <<Rank[contents[i].text], Rank[contents[i].lang]>>])
FileOrder(f) ==
    <<Rank[f.display], Rank[f.condition], Rank[f.constraint], Rank[NameKey[f.name]]>>
        \o ContentsOrder(f.detail)
MessageOrder(m) == <<Rank[m.level], Rank[m.condition]>> \o ContentsOrder(m.content)
TagOrder(t) == <<IF t.addition THEN 0 ELSE 1, Rank[t.name], Rank[t.condition]>>

\* Mutant: the condition of cleaning data is not compared.
CleaningOrderNoCondition(i) ==
    <<i.crc, Rank[i.util], i.itm, i.udr, i.nav>> \o ContentsOrder(i.detail)

CleaningOrder(i) ==
    <<i.crc, Rank[i.util], i.itm, i.udr, i.nav, Rank[i.condition]>> \o ContentsOrder(i.detail)
LocationOrder(l) == <<Rank[l.url], Rank[l.name]>>

OrderKey(field, e) ==
    CASE field \in {"after", "req", "inc"} -> FileOrder(e)
      [] field = "msg" -> MessageOrder(e)
      [] field = "tag" -> TagOrder(e)
      [] field \in {"dirty", "clean"} -> CleaningOrder(e)
      [] field = "url" -> LocationOrder(e)

CppLess(field, e, f) ==
    LET k == OrderKey(field, e)
        l == OrderKey(field, f)
    IN \E i \in DOMAIN l : /\ \A j \in 1..(i - 1) : j \in DOMAIN k /\ k[j] = l[j]
                           /\ i > Len(k) \/ k[i] < l[i]

HasNameOnly(p) == p.group = None /\ \A field \in Fields : p[field] = <<>>
IsRegexPlugin(p) == p.name \in RegexNames
NameMatches(p, name) ==
    IF p.name \in InvalidRegexes THEN Err ELSE Ok(name_matches(NewPlugin(p.name), name))

\* Mutant: what has been appended counts as present.
mergeVectorsGrowing(field, first, second) ==
    FoldLeft(LAMBDA acc, e : IF \E i \in DOMAIN acc : CppEqual(field, acc[i], e) THEN acc
                             ELSE Append(acc, e), first, second)

mergeVectors(field, first, second) ==
    first \o SelectSeq(second, LAMBDA e : \A i \in DOMAIN first : ~CppEqual(field, first[i], e))

Merged(p, q) ==
    IF HasNameOnly(q) THEN p
    ELSE [x \in DOMAIN p |->
             CASE x = "msg" -> p.msg \o q.msg
               [] x = "group" -> IF p.group = None THEN q.group ELSE p.group
               [] x \in Fields \ {"msg"} -> mergeVectors(x, p[x], q[x])
               [] OTHER -> p[x]]

-----------------------------------------------------------------------------
(* The calls.  The other program is refused what Rust refuses.             *)

Init ==
    \E name \in GivenNames :
        /\ held = NewPlugin(Trimmed[name])
        /\ comparable = (Trimmed[name] \notin InvalidRegexes)
        /\ twin = IF comparable THEN NewPlugin(Trimmed[name]) ELSE None
        /\ language \in {"python", "nodejs"}
        /\ userlist = DefaultDocument
        /\ put = EmptyMap
        /\ edits = 0

Edit(cpp, ok, rust) ==
    /\ edits < MaxEdits
    /\ edits' = edits + 1
    /\ held' = cpp
    /\ comparable' = (comparable /\ ok)
    /\ twin' = IF comparable' THEN rust ELSE twin
    /\ UNCHANGED <<language, userlist, put>>

SetGroup(group) ==
    Edit([held EXCEPT !.group = group], TRUE, [twin EXCEPT !.group = group])

UnsetGroup == Edit([held EXCEPT !.group = None], TRUE, [twin EXCEPT !.group = None])

SetField(field, list) ==
    /\ field = "msg" => \A i \in DOMAIN list : MessageCtor(list[i].content)
    /\ Edit([held EXCEPT ![field] = list], ScriptBuilds(field, list),
            [twin EXCEPT ![field] = ScriptList(field, list)])

MergeMetadata(other) ==
    Edit(Merged(held, other), \A field \in Fields : ScriptBuilds(field, other[field]),
         merge_metadata(twin, ScriptObject(other)))

\* A new object is begun with another name: the old one is stored or lost.
NewObject(name) ==
    /\ edits < MaxEdits
    /\ edits' = edits + 1
    /\ held' = NewPlugin(Trimmed[name])
    /\ comparable' = (Trimmed[name] \notin InvalidRegexes)
    /\ twin' = IF comparable' THEN NewPlugin(Trimmed[name]) ELSE None
    /\ UNCHANGED <<language, userlist, put>>

\* The conversion throws before the database is called.
SetPluginUserMetadata ==
    /\ edits < MaxEdits
    /\ edits' = edits + 1
    /\ IF Converts(held)
       THEN /\ userlist' = set_plugin_metadata(userlist, ToRust(held))
            /\ put' = IF IsRegexPlugin(held) THEN put ELSE (NameKey[held.name] :> held) @@ put
       ELSE UNCHANGED <<userlist, put>>
    /\ UNCHANGED <<held, language, twin, comparable>>

\* The program goes on with what the database has for its plugin.
GetPluginUserMetadata ==
    LET found == find_plugin(userlist, held.name)
    IN /\ edits < MaxEdits
       /\ held.name \notin InvalidRegexes
       /\ found # <<>>
       /\ edits' = edits + 1
       /\ held' = ToCpp(found[1])
       /\ twin' = found[1]
       /\ comparable' = TRUE
       /\ UNCHANGED <<language, userlist, put>>

Next ==
    \/ \E group \in Groups : SetGroup(group)
    \/ UnsetGroup
    \/ \E field \in Fields : \E list \in Values[field] : SetField(field, list)
    \/ \E other \in Others : MergeMetadata(other)
    \/ \E name \in GivenNames : NewObject(name)
    \/ SetPluginUserMetadata
    \/ GetPluginUserMetadata

Spec == Init /\ [][Next]_vars

-----------------------------------------------------------------------------
(* Properties.                                                             *)

\* The C++ class merges, compares and asks about its own fields and never calls
\* Rust for it: after the same calls it converts to the object that a Python or
\* Node.js program holds, and answers the same questions in the same way.
TwinsAgree ==
    comparable =>
        /\ Converts(held) /\ ToRust(held) = twin
        /\ HasNameOnly(held) <=> has_name_only(twin)
        /\ IsRegexPlugin(held) <=> is_regex_plugin(twin)
        /\ \A name \in DOMAIN NameKey : NameMatches(held, name) = Ok(name_matches(twin, name))

\* What the C++ program stored for a plugin it gets back field by field, through
\* both conversions and the database's list, as long as no regular expression in
\* the user metadata adds to it.
StoredAsHeld ==
    \A key \in DOMAIN put :
        LET name == put[key].name
            found == find_plugin(userlist, name)
        IN (\A i \in DOMAIN userlist.regex_plugins : ~name_matches(userlist.regex_plugins[i], name))
               => IF HasNameOnly(put[key]) THEN found = <<>>
                  ELSE found # <<>> /\ ToCpp(found[1]) = put[key]

\* The C++ comparisons of metadata objects are written out field by field, == and <
\* apart from each other: of any two objects in a list exactly one of a < b,
\* b < a and a == b holds, as sorted containers of them need.
OrderAgreesWithEquality ==
    \A field \in Fields : \A i, j \in DOMAIN held[field] :
        LET a == held[field][i]
            b == held[field][j]
        IN Cardinality({r \in 1..3 : CASE r = 1 -> CppLess(field, a, b)
                                       [] r = 2 -> CppLess(field, b, a)
                                       [] r = 3 -> CppEqual(field, a, b)}) = 1
=============================================================================
