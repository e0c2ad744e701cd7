----------------------------- MODULE PluginLoad -----------------------------
(***************************************************************************)
(* plugin/mod.rs, archive/find.rs, archive/parse.rs and archive/mod.rs:    *)
(* Plugin::new for two plugins that are loaded in parallel, the archives   *)
(* that each game loads with a plugin, and the comparison of the assets of *)
(* the two plugins that sorting depends on.                                *)
(*                                                                         *)
(* A file name is a sequence of tokens: letters, in either case, and the   *)
(* suffixes that the code knows.  A file is [dir, name, ext], a plugin     *)
(* also has an inode, whether it is ghosted, and the step of loading it    *)
(* that fails; an archive has the type of its directory entry, whether it  *)
(* can be read, and its assets, a function from folders (numbers, in their *)
(* order) to sets of file names.                                           *)
(***************************************************************************)
EXTENDS Integers, Sequences, FiniteSets, SequencesExt

CONSTANT Setups     \* [game, scope, windows, plugins, archives]

VARIABLES setup,            \* the game's folders and what is asked for
          at,               \* plugin -> the next step of Plugin::new
          plugin,           \* plugin -> the fields of the new Plugin
          todo,             \* plugin -> the archives still to be read
          walk              \* the state of do_assets_overlap

vars == <<setup, at, plugin, todo, walk>>

P == {1, 2}
None == "None"

-----------------------------------------------------------------------------
(* Paths.                                                                  *)

Fold(name) == [i \in DOMAIN name |-> IF name[i] = "A" THEN "a" ELSE name[i]]

\* Two names in one folder that the file system does not tell apart.
SameName(a, b) == IF setup.windows THEN Fold(a) = Fold(b) ELSE a = b

\* A ghosted plugin's extension is .ghost and its own is part of the stem.
file_stem(f) == IF f.ghosted THEN Append(f.name, "." \o f.ext) ELSE f.name
extension(f) == IF f.ghosted THEN "ghost" ELSE f.ext

has_ascii_extension(f, ext) == extension(f) = ext

with_file_name(f, name, ext) == [dir |-> f.dir, name |-> name, ext |-> ext]

\* The archives that a path opens.
Opened(path) == {a \in Range(setup.archives) :
                    a.dir = path.dir /\ SameName(a.name, path.name) /\ a.ext = path.ext}

\* The plugins that a path opens.
OpenedPlugins(path) == {f \in Range(setup.plugins) :
                    f.dir = path.dir /\ SameName(file_stem(f), path.name) /\ extension(f) = path.ext}

are_file_paths_equivalent(path, f) ==
    \/ path = with_file_name(f, file_stem(f), extension(f))
    \/ \E g \in OpenedPlugins(path) : g.inode = f.inode

-----------------------------------------------------------------------------
(* The archives of a plugin.                                               *)

archive_file_extension(game) == IF game \in {"Fallout4", "Fallout4VR", "Starfield"} THEN "ba2" ELSE "bsa"

allow_archive_symlinks(game) == ~setup.windows \/ game \in {"OblivionRemastered", "OpenMW"}

\* What load_plugins_common cached: the archives of every data path.
archives_iter ==
    {a \in Range(setup.archives) :
        /\ a.type = "file" \/ (allow_archive_symlinks(setup.game) /\ a.type = "symlink")
        /\ a.ext = archive_file_extension(setup.game)}

find_associated_archive(f) == Opened(with_file_name(f, file_stem(f), "bsa"))

find_associated_archives_with_suffixes(f, ext, suffixes) ==
    UNION {Opened(with_file_name(f, file_stem(f) \o suffix, ext)) : suffix \in suffixes}

\* The archive's name is cut to the length of the plugin's, and has to be the
\* name of the same file once it is given the plugin's extension.
find_associated_archives_with_arbitrary_suffixes(f) ==
    {a \in archives_iter :
        /\ Len(a.name) >= Len(file_stem(f))
        /\ are_file_paths_equivalent(
                with_file_name(f, SubSeq(a.name, 1, Len(file_stem(f))), extension(f)), f)}

find_associated_archives(f) ==
    CASE setup.game \in {"Morrowind", "OpenMW"} -> {}
      [] setup.game = "Skyrim" -> find_associated_archive(f)
      [] setup.game \in {"SkyrimSE", "SkyrimVR"} ->
            find_associated_archives_with_suffixes(f, "bsa", {<<>>, <<" - Textures">>})
      [] setup.game \in {"Oblivion", "OblivionRemastered"} ->
            IF has_ascii_extension(f, "esp")
            THEN find_associated_archives_with_arbitrary_suffixes(f) ELSE {}
      [] setup.game = "Starfield" ->
            find_associated_archives_with_suffixes(f, "ba2",
                {<<" - Main">>, <<" - Textures">>, <<" - Localization">>, <<" - Voices_en">>})
      [] OTHER -> find_associated_archives_with_arbitrary_suffixes(f)

-----------------------------------------------------------------------------
(* Plugin::new.                                                            *)

Unloaded == [name |-> None, data |-> None, crc |-> None, result |-> "loading",
             archive_paths |-> {}, archive_assets |-> <<>>]

Init ==
    /\ setup \in Setups
    /\ at = [p \in P |-> "name_string"]
    /\ plugin = [p \in P |-> Unloaded]
    /\ todo = [p \in P |-> {}]
    /\ walk = [at |-> "waiting", i |-> 1, j |-> 1]

File(p) == setup.plugins[p]

Fail(p, e) ==
    /\ plugin' = [plugin EXCEPT ![p] = [Unloaded EXCEPT !.result = e]]
    /\ at' = [at EXCEPT ![p] = "done"]
    /\ UNCHANGED <<setup, todo, walk>>

Step(p, next, fields) ==
    /\ plugin' = [plugin EXCEPT ![p] = fields]
    /\ at' = [at EXCEPT ![p] = next]
    /\ UNCHANGED <<setup, todo, walk>>

trim_dot_ghost(f) == [name |-> f.name, ext |-> f.ext, ghosted |-> FALSE]

name_string(p) ==
    /\ at[p] = "name_string"
    /\ \/ File(p).fault \in {"Empty", "NonUnicode"} /\ Fail(p, "InvalidFilename")
       \/ /\ File(p).fault \notin {"Empty", "NonUnicode"}
          /\ Step(p, "calculate_crc",
                  [plugin[p] EXCEPT !.name =
                        IF setup.game = "OpenMW"
                        THEN [name |-> File(p).name, ext |-> File(p).ext, ghosted |-> File(p).ghosted]
                        ELSE trim_dot_ghost(File(p))])

calculate_crc(p) ==
    /\ at[p] = "calculate_crc"
    /\ \/ setup.scope = "HeaderOnly" /\ Step(p, "parse_file", plugin[p])
       \/ setup.scope = "WholePlugin" /\ File(p).fault = "IoError" /\ Fail(p, "IoError")
       \/ /\ setup.scope = "WholePlugin" /\ File(p).fault # "IoError"
          /\ Step(p, "parse_file", [plugin[p] EXCEPT !.crc = File(p).inode])

IsScripts(f) == setup.game = "OpenMW" /\ has_ascii_extension(f, "omwscripts")

\* OpenMW's scripts have no data, tags, version or archives.
parse_file(p) ==
    /\ at[p] = "parse_file"
    /\ \/ IsScripts(File(p)) /\ Step(p, "done", [plugin[p] EXCEPT !.result = "ok"])
       \/ /\ ~IsScripts(File(p)) /\ File(p).fault \in {"IoError", "ParsingError", "description"}
          /\ Fail(p, "ParsingError")
       \/ /\ ~IsScripts(File(p)) /\ File(p).fault = "none"
          /\ Step(p, "find_archives", [plugin[p] EXCEPT !.data = File(p)])

FindArchives(p) ==
    /\ at[p] = "find_archives"
    /\ LET paths == find_associated_archives(File(p))
       IN /\ plugin' = [plugin EXCEPT ![p].archive_paths = paths]
          /\ todo' = [todo EXCEPT ![p] = IF setup.scope = "WholePlugin" THEN paths ELSE {}]
    /\ at' = [at EXCEPT ![p] = "assets_in_archives"]
    /\ UNCHANGED <<setup, walk>>

\* Mutant: an archive's folder replaces the same folder of another archive.
appended_replacing(assets, more) == more @@ assets

\* The assets of one more archive, added to those of the same folders.
appended(assets, more) ==
    [d \in DOMAIN assets \cup DOMAIN more |->
        (IF d \in DOMAIN assets THEN assets[d] ELSE {}) \cup (IF d \in DOMAIN more THEN more[d] ELSE {})]

CanBeRead(a) == a.readable /\ a.type # "directory"

\* An archive that cannot be read is passed over.
assets_in_archives(p) ==
    /\ at[p] = "assets_in_archives"
    /\ \E a \in todo[p] :
        /\ todo' = [todo EXCEPT ![p] = @ \ {a}]
        /\ plugin' = IF CanBeRead(a)
                     THEN [plugin EXCEPT ![p].archive_assets = appended(@, a.assets)]
                     ELSE plugin
    /\ UNCHANGED <<setup, at, walk>>

Loaded(p) ==
    /\ at[p] = "assets_in_archives" /\ todo[p] = {}
    /\ Step(p, "done", [plugin[p] EXCEPT !.result = "ok"])

-----------------------------------------------------------------------------
(* do_assets_overlap, once both are loaded.                                *)

Folders(p) == SetToSortSeq(DOMAIN plugin[p].archive_assets, <)

asset_count(p) == FoldFunction(LAMBDA files, n : n + Cardinality(files), 0, plugin[p].archive_assets)

StartWalk ==
    /\ walk.at = "waiting" /\ \A p \in P : at[p] = "done" /\ plugin[p].result = "ok"
    /\ walk' = [walk EXCEPT !.at = "walking"]
    /\ UNCHANGED <<setup, at, plugin, todo>>

\* Mutant: both iterators move on from a folder without a common file.
do_assets_overlap_both ==
    /\ walk.at = "walking"
    /\ IF walk.i > Len(Folders(1)) \/ walk.j > Len(Folders(2))
       THEN walk' = [walk EXCEPT !.at = "false"]
       ELSE IF Folders(1)[walk.i] = Folders(2)[walk.j]
                /\ plugin[1].archive_assets[Folders(1)[walk.i]]
                        \cap plugin[2].archive_assets[Folders(2)[walk.j]] # {}
            THEN walk' = [walk EXCEPT !.at = "true"]
            ELSE walk' = [walk EXCEPT !.i = @ + 1, !.j = @ + 1]
    /\ UNCHANGED <<setup, at, plugin, todo>>

do_assets_overlap ==
    /\ walk.at = "walking"
    /\ LET ended == walk.i > Len(Folders(1)) \/ walk.j > Len(Folders(2))
           folder == Folders(1)[walk.i]
           other == Folders(2)[walk.j]
           common == plugin[1].archive_assets[folder] \cap plugin[2].archive_assets[other]
       IN \/ ended /\ walk' = [walk EXCEPT !.at = "false"]
          \/ ~ended /\ folder < other /\ walk' = [walk EXCEPT !.i = @ + 1]
          \/ ~ended /\ folder > other /\ walk' = [walk EXCEPT !.j = @ + 1]
          \/ ~ended /\ folder = other /\ common # {} /\ walk' = [walk EXCEPT !.at = "true"]
          \/ ~ended /\ folder = other /\ common = {} /\ walk' = [walk EXCEPT !.i = @ + 1]
    /\ UNCHANGED <<setup, at, plugin, todo>>

Next ==
    \/ \E p \in P : \/ name_string(p) \/ calculate_crc(p) \/ parse_file(p)
                    \/ FindArchives(p) \/ assets_in_archives(p) \/ Loaded(p)
    \/ StartWalk
    \/ do_assets_overlap

Spec == Init /\ [][Next]_vars

-----------------------------------------------------------------------------
(* Properties.                                                             *)

\* The names of archives that a game loads with a plugin, as the comments in
\* find.rs give them: Skyrim "exactly the same basename", Skyrim SE also
\* " - Textures", Oblivion's .esp files and the Fallout games whatever "begin[s]
\* with the plugin basename", Starfield four suffixes.  "case-insensitively" is as
\* far as the file system is.
GameLoads(f, a) ==
    LET stem == file_stem(f)
        startsWith == Len(a.name) >= Len(stem) /\ \E g \in Range(setup.plugins) :
                            /\ g.inode = f.inode /\ g.dir = f.dir /\ extension(g) = extension(f)
                            /\ SameName(SubSeq(a.name, 1, Len(stem)), file_stem(g))
        here(s) == a.dir = f.dir /\ SameName(a.name, stem \o s)
    IN CASE setup.game = "Skyrim" -> here(<<>>)
         [] setup.game \in {"SkyrimSE", "SkyrimVR"} -> here(<<>>) \/ here(<<" - Textures">>)
         [] setup.game = "Starfield" ->
                \E s \in {" - Main", " - Textures", " - Localization", " - Voices_en"} : here(<<s>>)
         [] setup.game \in {"Oblivion", "OblivionRemastered"} -> startsWith /\ extension(f) = "esp"
         [] setup.game \in {"Morrowind", "OpenMW"} -> FALSE
         [] OTHER -> startsWith

Assets(p) ==
    IF setup.scope = "HeaderOnly" \/ IsScripts(File(p)) THEN {}
    ELSE UNION {UNION {{<<d, file>> : file \in a.assets[d]} : d \in DOMAIN a.assets} :
                 a \in {b \in Range(setup.archives) :
                            /\ b.readable /\ b.type # "directory"
                            /\ b.ext = archive_file_extension(setup.game)
                            /\ b.type = "symlink" =>
                                    \/ ~setup.windows
                                    \/ setup.game \in {"OblivionRemastered", "Skyrim", "SkyrimSE", "SkyrimVR", "Starfield"}
                            /\ GameLoads(File(p), b)}}

\* Two plugins' assets overlap exactly when some file is in the same folder of an
\* archive that the game loads with the one and of one that it loads with the
\* other, however the two are loaded and whichever archives cannot be read.
OverlapIffSharedAsset ==
    walk.at \in {"true", "false"} =>
        (walk.at = "true" <=> Assets(1) \cap Assets(2) # {})

\* A plugin's asset count, which decides which of two overlapping plugins loads
\* first, counts each asset once, also when two of its archives have it.
AssetsCountedOnce ==
    \A p \in P : at[p] = "done" /\ plugin[p].result = "ok" =>
        asset_count(p) = Cardinality(Assets(p))
=============================================================================
