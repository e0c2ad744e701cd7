------------------------------ MODULE MCFormats -----------------------------
(***************************************************************************)
(* What is read and written, one subject in each behaviour: metadata that  *)
(* is written and read back, anchors and aliases, preludes, merge keys,    *)
(* message texts and their languages; archives, plugins with their assets, *)
(* and plugins' descriptions.  The variables of the other subjects are     *)
(* unused.                                                                 *)
(***************************************************************************)
EXTENDS MetadataRoundTrip

CONSTANT Unused   \* the value of a variable that the behaviour does not use

VARIABLES subject,
          doc, options, anchors, written, out, common, next,              \* YamlAnchors
          masterlist, prelude, text, meta, error,                         \* Prelude
          merge_node, merged,                                             \* MergeKeys
          message, subs, pos, inPlaceholder, formatted, unused, outcome,  \* MessageFormat
          texts, language, candidate, matched, english, chosen,           \* MessageLanguage
          archive, offset, folders, assets, read,                         \* AssetPaths
          setup, at, plugin, todo, walk,                                  \* PluginLoad
          listed, description, tags, regex, version                       \* Description

anchorVars == <<doc, options, anchors, written, out, common, next>>
preludeVars == <<masterlist, prelude, text, meta, error>>
mergeVars == <<merge_node, merged>>
formatVars == <<message, subs, pos, inPlaceholder, formatted, unused, outcome>>
languageVars == <<texts, language, candidate, matched, english, chosen>>
assetVars == <<archive, offset, folders, assets, read>>
loadVars == <<setup, at, plugin, todo, walk>>
descriptionVars == <<listed, description, tags, regex, version>>

allVars == <<subject, vars, anchorVars, preludeVars, mergeVars, formatVars, languageVars,
             assetVars, loadVars, descriptionVars>>

-----------------------------------------------------------------------------
(* Metadata.                                                               *)

MCText == {"Relev", "12", "note:", "a, b", " x", "tab", "en", "fr", "say", "warn", "error",
           "default", "A.esp", "A.*", "c", "bad"}
MCDashed == [s \in {"Relev", "12", "-Relev"} |->
                CASE s = "Relev" -> "-Relev" [] s = "12" -> "-12" [] OTHER -> "--Relev"]
MCClassOf ==
    [s \in MCText \cup {"-Relev", "-12", "--Relev"} |->
        CASE s \in {"12", "-12"} -> "typed"
          [] s = "note:" -> "key"
          [] s = "a, b" -> "listed"
          [] s = " x" -> "special"
          [] s = "tab" -> "control"
          [] OTHER -> "word"]
MCNameKey == [s \in {"A.esp", "A.*"} |-> s]

Texts == {"Relev", "12", "note:", "a, b", " x", "tab"}
Conds == {None, "c", "bad"}
Content == [text : {" x", "tab"}, lang : {"en", "fr"}]
Contents == {c \in SeqOf(Content, 2) : validate_message_contents(c)}

Messages == [level : {"say", "warn", "error"}, content : Contents, condition : Conds]
Files == [name : {" x", "tab"}, display : {None, "Relev"}, detail : Contents,
          condition : Conds, constraint : Conds]
Tags == [name : {"Relev", "12", "-Relev"}, addition : BOOLEAN, condition : Conds]
            \cup [name : Texts, addition : {TRUE}, condition : Conds]
Cleanings == [crc : {0, MaxU32}, util : {"tab"}, itm : 0..1, udr : 0..1, nav : 0..1,
              detail : Contents, condition : {None, "c"}]
Locations == [url : Texts, name : {None} \cup Texts]
Groups == [name : Texts, description : {None, "12", "tab"}, after : SeqOf(Texts, 1)]

P == NewPlugin("A.esp")
FewFiles == {NewFile("tab"), [NewFile(" x") EXCEPT !.condition = "c"]}

Plugins ==
    {[P EXCEPT !.after = <<f>>] : f \in Files}
    \cup {[P EXCEPT !.req = <<f, g>>] : f, g \in FewFiles}
    \cup {[P EXCEPT !.inc = <<f>>] : f \in FewFiles}
    \cup {[P EXCEPT !.msg = <<m>>] : m \in Messages}
    \cup {[P EXCEPT !.tag = <<t>>] : t \in Tags}
    \cup {[P EXCEPT !.tag = <<t, u>>] : t, u \in {v \in Tags : v.condition = None}}
    \cup {[P EXCEPT !.dirty = <<i>>] : i \in Cleanings}
    \cup {[P EXCEPT !.clean = <<i>>] : i \in {j \in Cleanings : j.detail = <<>>}}
    \cup {[P EXCEPT !.url = <<l>>] : l \in Locations}
    \cup {[P EXCEPT !.name = n, !.group = g] : n \in {"A.esp", "A.*"}, g \in Texts \cup {None}}

Of(kind, values) == {[kind |-> kind, value |-> v] : v \in values}

MCItems == Of("plugin", Plugins) \cup Of("group", Groups)
               \cup Of("message", Messages) \cup Of("bash_tag", Texts)

-----------------------------------------------------------------------------
(* Anchors.                                                                *)

Item(type, name, contents, conditions) ==
    [type |-> type, name |-> name, contents |-> contents, conditions |-> conditions]

\* Contents and conditions shared by messages, files, tags and cleaning data.
Repeatable ==
    {Item("message", "say", "text", <<"c">>),
     Item("message", "warn", "text", <<>>),
     Item("file", "A.esp", None, <<>>),
     Item("file", "A.esp", "text", <<"c", "c">>),
     Item("file", "B.esp", None, <<"c">>),
     Item("tag", "Relev", None, <<"c">>),
     Item("info", "xEdit", "text", <<"d">>)}

MCDocuments == SeqOf(Repeatable, 4)

Anchors == INSTANCE YamlAnchors WITH Documents <- MCDocuments

-----------------------------------------------------------------------------
(* Preludes, merge keys, message texts and languages.                      *)

Preludes == INSTANCE Prelude WITH MaxLines <- 4, MaxPreludeLines <- 3, MaxColumn <- 3,
                                 UsizeValues <- 4096

Maps(keys, values) ==
    {[map |-> m] : m \in UNION {[K -> values] : K \in SUBSET keys}}

Scalars == {[scalar |-> 1], [scalar |-> 2]}
FlatMaps == Maps({"a", "b"}, Scalars)
Merging == {[map |-> m.map @@ ("<<" :> v)] : m \in Maps({"a"}, Scalars),
                v \in FlatMaps \cup {[seq |-> <<f, g>>] : f, g \in FlatMaps} \cup Scalars}

\* Mappings that merge mappings that merge, and sequences that hold them.
MCNodes ==
    Merging
    \cup {[map |-> ("b" :> [scalar |-> 1]) @@ ("<<" :> m)] : m \in Merging}
    \cup {[map |-> ("<<" :> [seq |-> <<m, f>>])] : m \in Merging, f \in FlatMaps}
    \cup {[seq |-> <<m>>] : m \in Merging}
    \cup {[map |-> ("a" :> m)] : m \in Merging}

Merges == INSTANCE MergeKeys WITH Nodes <- MCNodes, node <- merge_node, result <- merged

MCTexts == SeqOf({"{", "}", "0", "1", "x"}, 6)
MCSubLists == {<<"s">>, <<"s", "t">>}
MCDigit == [d \in {"0", "1"} |-> IF d = "0" THEN 0 ELSE 1]

Formats == INSTANCE MessageFormat
    WITH Texts <- MCTexts, SubLists <- MCSubLists, Digit <- MCDigit, text <- message,
         out <- formatted

MCCodeOf == [l \in {"en", "pt", "pt_PT", "pt_BR", "de"} |->
                IF l \in {"pt_PT", "pt_BR"} THEN "pt" ELSE l]

Localised == INSTANCE MessageLanguage
    WITH Languages <- DOMAIN MCCodeOf, CodeOf <- MCCodeOf, Locales <- {"pt_PT", "pt_BR"},
         English <- "en", MaxContents <- 4, contents <- texts,
         next <- candidate

-----------------------------------------------------------------------------
(* Archives: "0" ends a name, "r" stands for a file's record.  A BSA is laid *)
(* out as the games do, and then one of its offsets is changed.            *)

Bytes == {"a", "A", "b", "\\", "/"}
PathsOf(n) == [1..n -> Bytes]
FileNames == {<<"a">>, <<"A">>, <<"b", "a">>}

Ba2(header, count, paths) == [type |-> "ba2", header |-> header, file_count |-> count, paths |-> paths]
Bsa(header, size, inFolders, buffer, names) ==
    [type |-> "bsa", header |-> header, record_size |-> size, folders |-> inFolders,
     buffer |-> buffer, names |-> names]
Folder(name, count) == [name |-> name, count |-> count]

Block(f) == <<<<"0", "1", "2", "3", "4", "5">>[Len(f.name) + 1]>> \o f.name
                \o [j \in 1..f.count |-> "r"]

LaidOut(fs) == FlattenSeq([i \in DOMAIN fs |-> Block(fs[i])])

\* Where the games say that the records of the i-th folder are.
RightOffset(size, fs, names, i) ==
    36 + size * Len(fs) + Len(FlattenSeq(names)) + Len(names) + Len(LaidOut(SubSeq(fs, 1, i - 1)))

GoodBsa(size, fs, names) ==
    Bsa("good", size, [i \in DOMAIN fs |-> fs[i] @@ [offset |-> RightOffset(size, fs, names, i)]],
        LaidOut(fs), names)

BadBsa(fs, names, i, wrong) == [GoodBsa(16, fs, names) EXCEPT !.folders[i].offset = wrong]

Ba2s(paths) ==
    {Ba2("good", 1, <<p>>) : p \in paths}
    \cup {Ba2("good", 2, <<p, <<"a", "\\", "b">>>>) : p \in paths}
    \cup {Ba2("good", 2, <<p>>) : p \in paths}
    \cup {Ba2(h, 1, <<<<"a">>>>) : h \in {"version", "archive_type", "short"}}

TwoFolders == <<Folder(<<"A", "/", "b", "\\", "0">>, 1), Folder(<<"b", "0">>, 1)>>

Bsas ==
    {GoodBsa(size, <<Folder(f, n), Folder(<<"b", "0">>, 1)>>, names) :
        size \in {16, 24}, f \in {<<"a", "0">>, <<"A", "/", "b", "\\", "0">>, <<"0">>, <<"\\", "a">>},
        n \in 0..2, names \in UNION {[1..k -> FileNames] : k \in 0..3}}
    \cup {BadBsa(TwoFolders, <<<<"a">>, <<"b", "a">>>>, i, wrong) : i \in {1, 2}, wrong \in 0..100}
    \cup {Bsa(h, 16, <<>>, <<>>, <<>>) : h \in {"offset", "version", "big_endian",
                                             "no_folder_names", "no_file_names", "short"}}

MCArchives == Bsas \cup Ba2s(UNION {PathsOf(n) : n \in 1..4})

Archived == INSTANCE AssetPaths WITH Archives <- MCArchives, UsizeValues <- 4096, at <- offset, result <- read

-----------------------------------------------------------------------------
(* Plugins and their archives.                                             *)

Plug(dir, name, ext, inode, ghosted, fault) ==
    [dir |-> dir, name |-> name, ext |-> ext, inode |-> inode, ghosted |-> ghosted, fault |-> fault]
Arch(dir, name, ext, type, readable, held) ==
    [dir |-> dir, name |-> name, ext |-> ext, type |-> type, readable |-> readable, assets |-> held]

ArchiveContents == {(1 :> {1}), (1 :> {2} @@ 2 :> {1}), (2 :> {1} @@ 3 :> {1})}

\* Every game: names in either case, a plugin whose name begins another's, one in
\* an additional data path, ghosted plugins and plugins that fail to load.
Games == {"Morrowind", "OpenMW", "Skyrim", "SkyrimSE", "SkyrimVR", "Oblivion",
          "OblivionRemastered", "Fallout3", "FalloutNV", "Fallout4", "Fallout4VR", "Starfield"}

PluginPairs ==
    {<<Plug("data", <<"a">>, "esp", 1, FALSE, "none"), q>> :
        q \in {Plug("data", <<"a", "b">>, "esp", 2, FALSE, "none"),
               Plug("data", <<"A">>, "esp", 1, FALSE, "none"),
               Plug("data", <<"b">>, "esm", 3, FALSE, "none"),
               Plug("more", <<"b">>, "esp", 4, FALSE, "none"),
               Plug("data", <<"b">>, "esp", 5, TRUE, "none"),
               Plug("data", <<"b">>, "omwscripts", 6, FALSE, "none")}}

FailingPairs ==
    {<<Plug("data", <<"a">>, "esp", 1, FALSE, "none"),
       Plug("data", <<"b">>, "esp", 2, FALSE, fault)>> :
        fault \in {"Empty", "NonUnicode", "IoError", "ParsingError", "description"}}

Entries(ext) ==
    {<<Arch("data", n, ext, "file", r, c), Arch("data", m, ext, t, TRUE, (1 :> {1} @@ 3 :> {1})),
       Arch("more", <<"b", ".esp">>, ext, "file", TRUE, (3 :> {1}))>> :
        n \in {<<"a">>, <<"A", " - Textures">>}, c \in ArchiveContents, r \in BOOLEAN,
        m \in {<<"b">>, <<"a", "b">>, <<"b", " - Textures">>, <<"a", " - Main">>},
        t \in {"file", "symlink", "directory"}}

MCSetups ==
    {[game |-> g, scope |-> "WholePlugin", windows |-> w, plugins |-> ps, archives |-> as] :
        g \in Games, w \in BOOLEAN, ps \in PluginPairs, as \in Entries("bsa")}
    \cup
    {[game |-> g, scope |-> "WholePlugin", windows |-> w, plugins |-> ps, archives |-> as] :
        g \in {"Fallout4", "Starfield"}, w \in BOOLEAN, ps \in PluginPairs, as \in Entries("ba2")}
    \cup
    {[game |-> g, scope |-> s, windows |-> FALSE, plugins |-> ps, archives |-> <<>>] :
        g \in Games, s \in {"HeaderOnly", "WholePlugin"}, ps \in FailingPairs \cup PluginPairs}

Loads == INSTANCE PluginLoad WITH Setups <- MCSetups

-----------------------------------------------------------------------------
(* Descriptions.                                                           *)

TokenTexts(tokens, n) == UNION {[1..k -> tokens] : k \in 0..n}

\* Around a list of tags.
Around == TokenTexts({"x", " ", ",", "1", "}}"}, 2)
SomeTags == {<<>>, <<<<"x">>>>, <<<<"x">>, <<"v", ".", "x">>>>, <<<<"x", " ", "v">>, <<"1">>, <<"x">>>>}

\* A sentence, a version with the word and one without.
VersionTexts == TokenTexts({"1", ".", " ", "v", "x", "version"}, 5)
VersionEnds == {<<>>, <<"timestamp">>, <<"version", " ", "1", ".", "1">>, <<"version", ":", " ", "1">>}

Listed == INSTANCE Description
    WITH TextsBefore <- Around, TextsAfter <- Around, TagLists <- SomeTags

Versions == INSTANCE Description
    WITH TextsBefore <- VersionTexts, TextsAfter <- VersionEnds, TagLists <- {<<>>}

-----------------------------------------------------------------------------
NoRoundTrip ==
    /\ item = Unused /\ step = Unused /\ node = Unused /\ result = Unused

NoAnchors ==
    /\ doc = Unused /\ options = Unused /\ anchors = Unused /\ written = Unused
    /\ out = Unused /\ common = Unused /\ next = Unused

NoPreludes ==
    /\ masterlist = Unused /\ prelude = Unused /\ text = Unused /\ meta = Unused
    /\ error = Unused

NoMerges ==
    /\ merge_node = Unused /\ merged = Unused

NoFormats ==
    /\ message = Unused /\ subs = Unused /\ pos = Unused /\ inPlaceholder = Unused
    /\ formatted = Unused /\ unused = Unused /\ outcome = Unused

NoLocalised ==
    /\ texts = Unused /\ language = Unused /\ candidate = Unused
    /\ matched = Unused /\ english = Unused /\ chosen = Unused

NoArchived ==
    /\ archive = Unused /\ offset = Unused /\ folders = Unused /\ assets = Unused
    /\ read = Unused

NoLoads ==
    /\ setup = Unused /\ at = Unused /\ plugin = Unused /\ todo = Unused
    /\ walk = Unused

NoDescriptions ==
    /\ listed = Unused /\ description = Unused /\ tags = Unused /\ regex = Unused
    /\ version = Unused

MCInit ==
    \/ /\ subject = "metadata" /\ Init
       /\ NoAnchors /\ NoPreludes /\ NoMerges /\ NoFormats /\ NoLocalised /\ NoArchived /\
          NoLoads /\ NoDescriptions
    \/ /\ subject = "anchors" /\ Anchors!Init
       /\ NoRoundTrip /\ NoPreludes /\ NoMerges /\ NoFormats /\ NoLocalised /\ NoArchived /\
          NoLoads /\ NoDescriptions
    \/ /\ subject = "prelude" /\ Preludes!Init
       /\ NoRoundTrip /\ NoAnchors /\ NoMerges /\ NoFormats /\ NoLocalised /\ NoArchived /\
          NoLoads /\ NoDescriptions
    \/ /\ subject = "merge keys" /\ Merges!Init
       /\ NoRoundTrip /\ NoAnchors /\ NoPreludes /\ NoFormats /\ NoLocalised /\ NoArchived
          /\ NoLoads /\ NoDescriptions
    \/ /\ subject = "message text" /\ Formats!Init
       /\ NoRoundTrip /\ NoAnchors /\ NoPreludes /\ NoMerges /\ NoLocalised /\ NoArchived /\
          NoLoads /\ NoDescriptions
    \/ /\ subject = "language" /\ Localised!Init
       /\ NoRoundTrip /\ NoAnchors /\ NoPreludes /\ NoMerges /\ NoFormats /\ NoArchived /\
          NoLoads /\ NoDescriptions
    \/ /\ subject = "archive" /\ Archived!Init
       /\ NoRoundTrip /\ NoAnchors /\ NoPreludes /\ NoMerges /\ NoFormats /\ NoLocalised /\
          NoLoads /\ NoDescriptions
    \/ /\ subject = "plugins" /\ Loads!Init
       /\ NoRoundTrip /\ NoAnchors /\ NoPreludes /\ NoMerges /\ NoFormats /\ NoLocalised /\
          NoArchived /\ NoDescriptions
    \/ /\ subject = "tags" /\ Listed!Init
       /\ NoRoundTrip /\ NoAnchors /\ NoPreludes /\ NoMerges /\ NoFormats /\ NoLocalised /\
          NoArchived /\ NoLoads
    \/ /\ subject = "version" /\ Versions!Init
       /\ NoRoundTrip /\ NoAnchors /\ NoPreludes /\ NoMerges /\ NoFormats /\ NoLocalised /\
          NoArchived /\ NoLoads

MCNext ==
    \/ /\ subject = "metadata" /\ Next
       /\ UNCHANGED <<subject, anchorVars, preludeVars, mergeVars, formatVars,
             languageVars, assetVars, loadVars, descriptionVars>>
    \/ /\ subject = "anchors" /\ Anchors!Next
       /\ UNCHANGED <<subject, vars, preludeVars, mergeVars, formatVars, languageVars,
             assetVars, loadVars, descriptionVars>>
    \/ /\ subject = "prelude" /\ Preludes!Next
       /\ UNCHANGED <<subject, vars, anchorVars, mergeVars, formatVars, languageVars,
             assetVars, loadVars, descriptionVars>>
    \/ /\ subject = "merge keys" /\ Merges!Process
       /\ UNCHANGED <<subject, vars, anchorVars, preludeVars, formatVars, languageVars,
             assetVars, loadVars, descriptionVars>>
    \/ /\ subject = "message text" /\ Formats!Next
       /\ UNCHANGED <<subject, vars, anchorVars, preludeVars, mergeVars, languageVars,
             assetVars, loadVars, descriptionVars>>
    \/ /\ subject = "language" /\ Localised!Next
       /\ UNCHANGED <<subject, vars, anchorVars, preludeVars, mergeVars, formatVars,
             assetVars, loadVars, descriptionVars>>
    \/ /\ subject = "archive" /\ Archived!Next
       /\ UNCHANGED <<subject, vars, anchorVars, preludeVars, mergeVars, formatVars,
             languageVars, loadVars, descriptionVars>>
    \/ /\ subject = "plugins" /\ Loads!Next
       /\ UNCHANGED <<subject, vars, anchorVars, preludeVars, mergeVars, formatVars,
             languageVars, assetVars, descriptionVars>>
    \/ /\ subject = "tags" /\ Listed!Next
       /\ UNCHANGED <<subject, vars, anchorVars, preludeVars, mergeVars, formatVars,
             languageVars, assetVars, loadVars>>
    \/ /\ subject = "version" /\ Versions!Next
       /\ UNCHANGED <<subject, vars, anchorVars, preludeVars, mergeVars, formatVars,
             languageVars, assetVars, loadVars>>

MCSpec == MCInit /\ [][MCNext]_allVars

-----------------------------------------------------------------------------
\* Metadata that is written and read again is what it was, if it is Safe; if it is
\* not and the file can be read, it is changed in one of two known ways.
WrittenMetadataSurvives == SafeMetadataSurvives /\ ChangesAreKnown

\* Anchors and aliases of a written list can be read: an alias comes after its
\* anchor, no anchor is for nothing, no value is written twice, and with a common
\* section all anchors are in it.
AnchorsAreSound ==
    subject = "anchors" =>
        /\ Anchors!AliasesFollowAnchors /\ Anchors!AnchorsAreUsed
        /\ Anchors!NothingWrittenTwice /\ Anchors!AnchorsAreCommon

\* Reading a masterlist with a prelude and with merge keys: the position of an
\* error is in the file where its text is (unless its column overflows), replacing the
\* prelude again changes nothing, no merge key is left, and a mapping's own entries win.
ListsAreResolved ==
    /\ subject = "prelude" => Preludes!LocationsMapBack /\ Preludes!ReplacementIsStable
    /\ subject = "merge keys" => Merges!NoMergeKeyLeft /\ Merges!OwnKeysWin

\* A message is shown as its author meant it: exactly the placeholders are
\* replaced, and Rust and C++ both choose the text that is best for the language.
MessagesAsMeant ==
    /\ subject = "message text" => Formats!FormatSubstitutes
    /\ subject = "language" => Localised!BestTextChosen /\ Localised!CppChoosesTheSame

\* Assets are those that the game loads: the paths in an archive's folders, whose
\* names are read where the archive has them, counted once, and overlapping exactly when archives of both plugins have one.
AssetsAreExact ==
    /\ subject = "archive" => Archived!StoresAssetPaths /\ Archived!OffsetsAreChecked
    /\ subject = "plugins" => Loads!OverlapIffSharedAsset /\ Loads!AssetsCountedOnce

\* A description gives the Bash Tags that its author listed, and a version that is
\* not cut short within its digits and is the one after "version" if there is one.
DescriptionsAreRead ==
    /\ subject = "tags" => Listed!TagsAsListed
    /\ subject = "version" => Versions!VersionIsWhole /\ Versions!VersionWordPreferred

\* What is told about a plugin is what its files hold: the assets of its archives,
\* and the Bash Tags and the version of its description.
PluginsAreRead == AssetsAreExact /\ DescriptionsAreRead
=============================================================================
