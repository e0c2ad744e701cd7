----------------------------- MODULE AssetPaths -----------------------------
(***************************************************************************)
(* archive/bsa.rs and archive/ba2.rs: the paths of the assets in an        *)
(* archive, as pairs of a folder and a file name, which is what decides    *)
(* whether two plugins' assets overlap.                                    *)
(*                                                                         *)
(* A path is a sequence of bytes, of which only the separators, the NUL    *)
(* that ends a name, and a letter in either case are told apart.  A BA2 has *)
(* whole paths.  A BSA has                                                 *)
(*   folders   its folder records, which have an offset and a count of files *)
(*             (and here the folder's name, which only the properties read)  *)
(*   buffer    the folders' names, each after a byte with its length, and    *)
(*             the files' records                                            *)
(*   names     the file names                                                *)
(***************************************************************************)
EXTENDS Integers, Sequences, FiniteSets, SequencesExt

CONSTANTS Archives,    \* the archives that may be read
          UsizeValues  \* 2^64 in the code: how many values a usize has

VARIABLES archive, at, folders, assets, result

vars == <<archive, at, folders, assets, result>>

-----------------------------------------------------------------------------
(* Bytes and paths.                                                        *)

Backslash == "\\"
Slash == "/"
Nul == "0"

\* Mutant: forward slashes are left alone.
normalise_path_slashes(path) == [i \in DOMAIN path |-> IF path[i] = "A" THEN "a" ELSE path[i]]

normalise_path(path) ==
    [i \in DOMAIN path |-> CASE path[i] = Slash -> Backslash
                             [] path[i] = "A" -> "a"
                             [] OTHER -> path[i]]

\* A path without the given bytes at either end.
Trimmed(path, bytes) ==
    LET kept == {i \in DOMAIN path : path[i] \notin bytes}
    IN IF kept = {} THEN <<>> ELSE SubSeq(path, Min(kept), Max(kept))

trim_null_terminator(path) ==
    IF path # <<>> /\ Last(path) = Nul THEN Front(path) ELSE path

trim_and_normalise(path) ==
    normalise_path(Trimmed(trim_null_terminator(path), {Backslash, Slash}))

\* A path without a separator is split before its last byte.
rsplit_on(path) ==
    LET seps == {i \in DOMAIN path : path[i] = Backslash}
        first == IF seps = {} THEN path ELSE SubSeq(path, 1, Max(seps))
    IN <<IF first = <<>> THEN first ELSE Front(first),
         IF seps = {} THEN <<>> ELSE SubSeq(path, Max(seps) + 1, Len(path))>>

-----------------------------------------------------------------------------
(* The names of a BSA's folders.                                           *)

HEADER_SIZE == 36

\* A byte as a length.  No buffer here is as long as a letter says.
ByteValue(b) ==
    CASE b = Nul -> 0 [] b = "1" -> 1 [] b = "2" -> 2 [] b = "3" -> 3 [] b = "4" -> 4
      [] b = "5" -> 5 [] OTHER -> 97

total_file_names_length == Len(FlattenSeq(archive.names)) + Len(archive.names)

\* Mutant: the file names are not counted.
baseline_without_names == HEADER_SIZE + archive.record_size * Len(archive.folders)

folder_record_offset_baseline ==
    HEADER_SIZE + archive.record_size * Len(archive.folders) + total_file_names_length

\* Mutant: an offset below the baseline is taken for the first.
name_offsets_saturating(offset) ==
    {[at |-> IF offset < folder_record_offset_baseline THEN 0
             ELSE offset - folder_record_offset_baseline]}

\* What `offset - baseline` gives: where it overflows a build with overflow checks
\* panics, and the difference wraps round in one without.
name_offsets(offset) ==
    IF offset >= folder_record_offset_baseline
    THEN {[at |-> offset - folder_record_offset_baseline]}
    ELSE {[panic |-> TRUE], [at |-> UsizeValues + offset - folder_record_offset_baseline]}

read_folder_name(buffer, i) ==
    IF i >= Len(buffer) THEN [error |-> "InvalidFolderNameLengthOffset"]
    ELSE LET end == i + 1 + ByteValue(buffer[i + 1])
         IN IF end > Len(buffer) THEN [error |-> "InvalidFolderNameRange"]
            ELSE [name |-> trim_and_normalise(SubSeq(buffer, i + 2, end))]

-----------------------------------------------------------------------------
Init ==
    /\ archive \in Archives
    /\ at = 1
    /\ folders = <<>>
    /\ assets = {}
    /\ result = "reading"

Fail(e) == result' = e /\ UNCHANGED <<archive, at, folders, assets>>

\* The checks of the BSA's header, in the order they are made.
BsaHeaderError ==
    CASE archive.header = "offset" -> "InvalidRecordsOffset"
      [] archive.header = "version" -> "UnsupportedHeaderVersion"
      [] archive.header = "big_endian" -> "UsesBigEndianNumbers"
      [] archive.header = "no_folder_names" -> "DirectoryNamesNotIncluded"
      [] archive.header = "no_file_names" -> "FileNamesNotIncluded"
      [] archive.header = "short" -> "IoError"
      [] OTHER -> "none"

ReadBsaHeader ==
    /\ result = "reading" /\ archive.type = "bsa" /\ at = 1
    /\ BsaHeaderError # "none"
    /\ Fail(BsaHeaderError)

\* One folder record.
ReadFolder ==
    /\ result = "reading" /\ archive.type = "bsa" /\ BsaHeaderError = "none"
    /\ at \in DOMAIN archive.folders
    /\ \E offset \in name_offsets(archive.folders[at].offset) :
          IF "panic" \in DOMAIN offset THEN Fail("panic")
          ELSE LET found == read_folder_name(archive.buffer, offset.at)
               IN IF "error" \in DOMAIN found THEN Fail(found.error)
                  ELSE /\ folders' = Append(folders, [name |-> found.name,
                                                      count |-> archive.folders[at].count])
                       /\ at' = at + 1
                       /\ UNCHANGED <<archive, assets, result>>

\* Each folder's name as many times as it has files.
FolderNames == FlattenSeq([i \in DOMAIN folders |-> [j \in 1..folders[i].count |-> folders[i].name]])

\* The file names are split at NULs: there is an empty one after the last NUL.
FileNames == Append(archive.names, <<>>)

PairNames ==
    /\ result = "reading" /\ archive.type = "bsa" /\ BsaHeaderError = "none"
    /\ at = Len(archive.folders) + 1
    /\ assets' = {<<FolderNames[i], trim_and_normalise(FileNames[i])>> :
                     i \in DOMAIN FolderNames \cap DOMAIN FileNames}
    /\ result' = "ok"
    /\ UNCHANGED <<archive, at, folders>>

Ba2HeaderError ==
    CASE archive.header = "version" -> "UnsupportedHeaderVersion"
      [] archive.header = "archive_type" -> "UnsupportedHeaderArchiveType"
      [] archive.header = "short" -> "IoError"
      [] OTHER -> "none"

ReadBa2Header ==
    /\ result = "reading" /\ archive.type = "ba2" /\ at = 1
    /\ Ba2HeaderError # "none"
    /\ Fail(Ba2HeaderError)

\* One of file_count paths: the file may end before it.
ReadPath ==
    /\ result = "reading" /\ archive.type = "ba2" /\ Ba2HeaderError = "none"
    /\ at <= archive.file_count
    /\ \/ at \notin DOMAIN archive.paths /\ Fail("IoError")
       \/ /\ at \in DOMAIN archive.paths
          /\ assets' = assets \cup
                {rsplit_on(Trimmed(normalise_path(archive.paths[at]), {Backslash}))}
          /\ at' = at + 1
          /\ UNCHANGED <<archive, folders, result>>

EndPaths ==
    /\ result = "reading" /\ archive.type = "ba2" /\ Ba2HeaderError = "none"
    /\ at = archive.file_count + 1
    /\ result' = "ok"
    /\ UNCHANGED <<archive, at, folders, assets>>

Next == ReadBsaHeader \/ ReadFolder \/ PairNames \/ ReadBa2Header \/ ReadPath \/ EndPaths

Spec == Init /\ [][Next]_vars

-----------------------------------------------------------------------------
Joined(asset) == IF asset[1] = <<>> THEN asset[2] ELSE asset[1] \o <<Backslash>> \o asset[2]

\* A path as the game sees it: case, the kind of separator, and separators at
\* either end make no difference.
Clean(path) == Trimmed([i \in DOMAIN path |-> CASE path[i] = Slash -> Backslash
                                               [] path[i] = "A" -> "a"
                                               [] OTHER -> path[i]], {Backslash, Nul})

\* The folder of a BSA's i-th file name, from the counts of the folders.
FolderOf(i) ==
    LET before(k) == FoldLeft(LAMBDA n, f : n + f.count, 0, SubSeq(archive.folders, 1, k))
    IN archive.folders[CHOOSE k \in DOMAIN archive.folders : before(k - 1) < i /\ i <= before(k)]

FileCount == FoldLeft(LAMBDA n, f : n + f.count, 0, archive.folders)

\* Where the i-th folder's name is in the buffer: after the folders before it.
NamePlace(i) ==
    LET before == SubSeq(archive.folders, 1, i - 1)
    IN FoldLeft(LAMBDA n, f : n + 1 + Len(f.name) + f.count, 0, before)

\* The offset that the games write for a place in the buffer: where it is in the
\* file, which has the header and the folder records before it, and the length of
\* the file names, which come after it.
OffsetOf(place) ==
    36 + archive.record_size * Len(archive.folders) + place
        + FoldLeft(LAMBDA n, name : n + Len(name) + 1, 0, archive.names)

RightOffsets == \A i \in DOMAIN archive.folders : archive.folders[i].offset = OffsetOf(NamePlace(i))

\* An archive is read as the set of its assets' paths ("libloot now stores asset
\* paths instead of hashes of their paths"): paths that differ in more than case
\* and slashes stay apart, and those that do not are one.  A BSA of which the
\* offsets are right and the counts add up has each file in its own folder.
\* rsplit_on spoils the path of a file that is in no folder of a BA2; no such file
\* hides or changes another.
StoresAssetPaths ==
    result = "ok" =>
        IF archive.type = "ba2"
        THEN {Joined(a) : a \in {b \in assets : b[2] # <<>>}} =
                {p \in {Clean(archive.paths[i]) : i \in 1..archive.file_count} :
                    Backslash \in ToSet(p)}
        ELSE RightOffsets /\ FileCount = Len(archive.names) =>
                {Joined(a) : a \in assets} =
                    {Joined(<<Clean(FolderOf(i).name), Clean(archive.names[i])>>) :
                        i \in DOMAIN archive.names}

\* Every BSA with right offsets is read.  One of which an offset is before or after
\* the buffer is not, and panics only if the subtraction of the baseline overflows.
OffsetsAreChecked ==
    (archive.type = "bsa" /\ BsaHeaderError = "none" /\ result # "reading") =>
        /\ RightOffsets => result = "ok"
        /\ result = "ok" =>
              \A f \in ToSet(archive.folders) :
                  f.offset >= OffsetOf(0) /\ f.offset < OffsetOf(Len(archive.buffer))
        /\ result = "panic" => \E f \in ToSet(archive.folders) : f.offset < OffsetOf(0)
=============================================================================
