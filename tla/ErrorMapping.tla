---------------------------- MODULE ErrorMapping ----------------------------
(***************************************************************************)
(* error.rs, sorting/error.rs and the wrappers' error.rs and exception.cpp: *)
(* what becomes of an error on its way from where it is found, through the *)
(* public error types, to the exception that a C++ or Python caller        *)
(* catches.  The C++ wrapper passes an error on as text and parses it      *)
(* again, so the text of cycles has escapes.                               *)
(*                                                                         *)
(* An error is [type, kind] with the data that the kind has: a name, or a  *)
(* cycle, a sequence of [name, edge].  Names and texts are sequences of    *)
(* characters, of which those that the formats use are told apart; a       *)
(* prefix, and the name of an edge type, are one character.                *)
(***************************************************************************)
EXTENDS Integers, Sequences, FiniteSets, SequencesExt

CONSTANTS Errors,       \* the errors that may be found
          Language      \* "cpp" or "python"

VARIABLES found,        \* the error as it is found
          error,        \* the error as it has been converted so far
          at,           \* the step it is at
          text,         \* cpp: what() of the rust::Error
          pos,          \* cpp: the place in it up to which it has been parsed
          vertices      \* cpp: the vertices that have been parsed

vars == <<found, error, at, text, pos, vertices>>

Init ==
    /\ found \in Errors
    /\ error = found
    /\ at = "found"
    /\ text = <<>> /\ pos = 1 /\ vertices = <<>>

-----------------------------------------------------------------------------
(* The From implementations of the library.                                *)

\* PluginDataError::plugin_not_loaded.
plugin_not_loaded(e) == e.kind = "PluginMetadataNotFound"

\* Mutant: the cause of an error of the plugins' data is not looked at.
LoadPluginsError_opaque(e) ==
    [type |-> "LoadPluginsError", name |-> e.name, cycle |-> e.cycle,
     kind |-> IF e.type = "PoisonError" THEN "DatabaseLockPoisoned" ELSE e.type]

LoadPluginsError(e) ==
    [type |-> "LoadPluginsError", name |-> e.name, cycle |-> e.cycle,
     kind |-> CASE e.type = "PluginDataError" ->
                    (IF plugin_not_loaded(e) THEN "PluginNotLoaded" ELSE "PluginDataError")
                [] e.type = "PoisonError" -> "DatabaseLockPoisoned"
                [] e.type = "IoError" -> "IoError"
                [] e.type = "PluginValidationError" -> "PluginValidationError"]

\* Mutant: a cycle that is found while groups are added is not passed on.
SortPluginsError_involving(e) ==
    [type |-> "SortPluginsError", name |-> e.name, cycle |-> e.cycle,
     kind |-> IF e.kind = "CycleFound" /\ e.type = "SortingError" THEN "CycleFoundInvolving"
              ELSE IF e.type = "PoisonError" THEN "DatabaseLockPoisoned"
              ELSE IF e.kind = "PluginMetadataNotFound" THEN "PluginNotLoaded" ELSE e.kind]

\* A SortingError keeps its kind and a validation error has the kind of its cause;
\* of the errors of the plugins' data only those found before sorting starts are
\* looked into.
SortPluginsError(e) ==
    [type |-> "SortPluginsError", name |-> e.name, cycle |-> e.cycle,
     kind |-> CASE e.type = "PoisonError" -> "DatabaseLockPoisoned"
                [] e.type \in {"BuildGroupsGraphError", "SortingError", "PluginGraphValidationError"} ->
                        (CASE e.kind = "CycleInvolving" -> "CycleFoundInvolving"
                           [] e.kind = "PluginMetadataNotFound" -> "PluginDataError"
                           [] OTHER -> e.kind)
                [] e.type = "PluginDataError" ->
                        (IF plugin_not_loaded(e) THEN "PluginNotLoaded" ELSE "PluginDataError")
                [] e.type = "ConditionEvaluationError" -> "MetadataRetrievalError"
                [] e.type = "NotInCache" -> "PluginNotLoaded"]

GroupsPathError(e) ==
    [type |-> "GroupsPathError", name |-> e.name, cycle |-> e.cycle,
     kind |-> IF e.type = "PathfindingError" THEN "PathfindingError" ELSE e.kind]

\* From loadorder::Error or a path that is not a directory, from Game::new.
GameHandleCreationError(e) ==
    [type |-> "GameHandleCreationError", name |-> e.name, cycle |-> e.cycle, kind |-> e.kind]

Convert ==
    /\ at = "found"
    /\ error' = CASE found.call = "load_plugins" -> LoadPluginsError(found)
                  [] found.call = "sort_plugins" -> SortPluginsError(found)
                  [] found.call = "groups_path" -> GroupsPathError(found)
                  [] found.call = "new" -> GameHandleCreationError(found)
    /\ at' = "public"
    /\ UNCHANGED <<found, text, pos, vertices>>

-----------------------------------------------------------------------------
(* The wrappers' VerboseError.                                             *)

Verbose(kind, e) == [type |-> "VerboseError", kind |-> kind, name |-> e.name, cycle |-> e.cycle]

VerboseErrorCpp(e) ==
    CASE e.kind = "UndefinedGroup" -> Verbose("UndefinedGroupError", e)
      [] e.kind = "CycleFound" -> Verbose("CyclicInteractionError", e)
      [] e.kind = "PluginNotLoaded" -> Verbose("PluginNotLoadedError", e)
      [] e.kind \in {"NotADirectory", "PluginValidationError"} -> Verbose("InvalidArgument", e)
      [] OTHER -> Verbose("Other", e)

VerboseErrorPython(e) ==
    CASE e.type \in {"LoadPluginsError", "GameHandleCreationError"} -> Verbose("Other", e)
      [] e.kind = "UndefinedGroup" -> Verbose("UndefinedGroupError", e)
      [] e.kind = "CycleFound" -> Verbose("CyclicInteractionError", e)
      [] e.kind = "PluginNotLoaded" -> Verbose("PluginNotLoadedError", e)
      [] OTHER -> Verbose("Other", e)

Wrap ==
    /\ at = "public"
    /\ error' = IF Language = "cpp" THEN VerboseErrorCpp(error) ELSE VerboseErrorPython(error)
    /\ at' = IF Language = "cpp" THEN "display" ELSE "raise"
    /\ UNCHANGED <<found, text, pos, vertices>>

\* From<VerboseError> for PyErr.
Raise ==
    /\ at = "raise"
    /\ error' = IF error.kind = "Other" THEN Verbose("ValueError", error) ELSE error
    /\ at' = "caught"
    /\ UNCHANGED <<found, text, pos, vertices>>

-----------------------------------------------------------------------------
(* From Rust to C++ as text.                                               *)

\* Every occurrence of a pair, from the left and without overlap, or every
\* occurrence of one character.
Replace(s, from, to) ==
    LET n == Len(from)
        r[i \in 1..(Len(s) + 1)] ==
            IF i > Len(s) THEN <<>>
            ELSE IF i + n - 1 <= Len(s) /\ SubSeq(s, i, i + n - 1) = from THEN to \o r[i + n]
            ELSE <<s[i]>> \o r[i + 1]
    IN r[1]

Separator == <<" ", ">", " ">>

\* Mutant: the backslashes of a name are left as they are.
escape_separators(name) == Replace(name, <<">">>, <<"\\", ">">>)

escape(name) == Replace(Replace(name, <<"\\">>, <<"\\", "\\">>), <<">">>, <<"\\", ">">>)

\* Display for VerboseError: its prefix ends with ": ".
Display ==
    /\ at = "display"
    /\ text' = CASE error.kind = "CyclicInteractionError" ->
                        <<error.kind>> \o FlattenSeq([i \in DOMAIN error.cycle |->
                            escape(error.cycle[i].name) \o Separator \o <<error.cycle[i].edge>> \o Separator])
                  [] error.kind = "Other" -> <<"x">>
                  [] OTHER -> <<error.kind>> \o error.name
    /\ at' = "parse"
    /\ UNCHANGED <<found, error, pos, vertices>>

FindSeparator(from) ==
    LET hits == {i \in from..(Len(text) - 2) : SubSeq(text, i, i + 2) = Separator}
    IN IF hits = {} THEN 0 ELSE Min(hits)

unescape(name) == Replace(Replace(name, <<"\\", ">">>, <<">">>), <<"\\", "\\">>, <<"\\">>)

\* mapError: the exception is chosen by the prefix of the text.
mapError ==
    /\ at = "parse"
    /\ \/ /\ text[1] = "CyclicInteractionError"
          /\ at' = "vertices" /\ pos' = 2 /\ UNCHANGED error
       \/ /\ text[1] \in {"UndefinedGroupError", "PluginNotLoadedError", "InvalidArgument"}
          /\ error' = [type |-> "exception", kind |-> text[1], name |-> Tail(text), cycle |-> <<>>]
          /\ at' = "caught" /\ UNCHANGED pos
       \/ /\ text[1] = "x"
          /\ error' = [type |-> "exception", kind |-> "runtime_error", name |-> text, cycle |-> <<>>]
          /\ at' = "caught" /\ UNCHANGED pos
    /\ UNCHANGED <<found, text, vertices>>

\* parseCyclicError: one vertex.  Every vertex of a cycle has an edge.
parseCyclicError ==
    /\ at = "vertices" /\ pos <= Len(text)
    /\ LET sepPos == FindSeparator(pos)
           secondSepPos == FindSeparator(sepPos + 3)
       IN /\ vertices' = Append(vertices, [name |-> unescape(SubSeq(text, pos, sepPos - 1)),
                                           edge |-> text[sepPos + 3]])
          /\ pos' = secondSepPos + 3
    /\ UNCHANGED <<found, error, at, text>>

Parsed ==
    /\ at = "vertices" /\ pos > Len(text)
    /\ error' = [type |-> "exception", kind |-> "CyclicInteractionError", name |-> <<>>, cycle |-> vertices]
    /\ at' = "caught"
    /\ UNCHANGED <<found, text, pos, vertices>>

Next == Convert \/ Wrap \/ Raise \/ Display \/ mapError \/ parseCyclicError \/ Parsed

Spec == Init /\ [][Next]_vars

-----------------------------------------------------------------------------
\* The callers' exception has what they need to act on it: a cycle its vertices and
\* edges, an undefined group or an unloaded plugin its name, whatever characters are
\* in them.
CausesSurvive ==
    at = "caught" =>
        /\ found.kind = "CycleFound" =>
                error.kind = "CyclicInteractionError" /\ error.cycle = found.cycle
        /\ found.kind = "UndefinedGroup" =>
                error.kind = "UndefinedGroupError" /\ error.name = found.name
        /\ found.type = "NotInCache" =>
                error.kind = "PluginNotLoadedError" /\ error.name = found.name
        /\ error.kind \in {"CyclicInteractionError", "UndefinedGroupError"} =>
                found.kind \in {"CycleFound", "UndefinedGroup"}

\* A plugin whose metadata is not found while the loaded plugins' data is resolved
\* is PluginNotLoadedError to a C++ caller, from whichever call it comes.
PluginNotLoadedIsRaised ==
    at = "caught" /\ found.kind = "PluginMetadataNotFound" /\ found.type = "PluginDataError"
        => error.kind = "PluginNotLoadedError"
=============================================================================
