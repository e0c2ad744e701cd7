----------------------------- MODULE MCWrappers -----------------------------
(***************************************************************************)
(* The language wrappers, one subject in each behaviour: threads of a      *)
(* Python or a C++ program that call one database, threads that log while  *)
(* the logger changes, errors on their way to a caller, and metadata       *)
(* objects held in two languages.  The variables of the other subjects are *)
(* unused; a database handle that is not the subject is idle.              *)
(***************************************************************************)
EXTENDS DatabaseHandle, TLC, SequencesExt

CONSTANT Unused   \* the value of a variable that the behaviour does not use

VARIABLES subject,
          program, op_at, place, callback, level, writer, readers, waiting,
          log_poisoned, running, delivered, mutex, stored, assigning,
          raced, log_gil,                                             \* Logging
          found, error, stage, text, pos, vertices,                   \* ErrorMapping
          held, language, twin, comparable, userlist, put, edits      \* CppMetadata

logVars == <<program, op_at, place, callback, level, writer, readers, waiting,
             log_poisoned, running, delivered, mutex, stored, assigning, raced, log_gil>>
errorVars == <<found, error, stage, text, pos, vertices>>
twinVars == <<held, language, twin, comparable, userlist, put, edits>>
allVars == <<subject, vars, logVars, errorVars, twinVars>>

-----------------------------------------------------------------------------
(* Database handles: two threads share an object, the third has its own.   *)

MCHandle == [t \in {"t1", "t2", "t3"} |-> IF t = "t3" THEN "own" ELSE "shared"]

CppHandle == INSTANCE DatabaseHandle WITH Language <- "cpp", MaxCalls <- 4

-----------------------------------------------------------------------------
(* Logging: the main thread waits for a worker that logs while another     *)
(* thread changes the callback and the level.                              *)

LogOp(l) == [op |-> "log", level |-> l]
SetCallback(c) == [op |-> "set_callback", callback |-> c]
SetLevel(l) == [op |-> "set_level", level |-> l]
IsEnabled == [op |-> "is_log_enabled"]
JoinWorkers == [op |-> "join"]

LogThreads == {"m", "s", "w"}
RustCallbacks == "plain" :> "plain" @@ "loud" :> "drop_panics" @@ "bad" :> "panics"
CppCallbacks == "plain" :> "plain" @@ "loud" :> "plain" @@ "bad" :> "panics"

Programs ==
    {("m" :> <<SetCallback(c), LogOp(4), JoinWorkers>>) @@ ("s" :> s) @@ ("w" :> w) :
        c \in {"plain", "loud", "bad"},
        s \in {<<SetCallback("plain"), SetLevel(1)>>, <<SetCallback("plain"), SetLevel(3)>>,
               <<SetLevel(4), SetCallback("bad")>>,
               <<SetCallback("loud"), SetCallback("plain"), IsEnabled>>},
        w \in {<<LogOp(4), LogOp(2)>>, <<LogOp(1), IsEnabled, LogOp(4)>>}}

RustLog == INSTANCE Logging
    WITH Threads <- LogThreads, Workers <- {"w"}, Caller <- "m", Programs <- Programs,
         Behaviour <- RustCallbacks, Sink <- "rust", PythonLevel <- 3,
         next <- op_at, at <- place, poisoned <- log_poisoned, gil <- log_gil

CppLog == INSTANCE Logging
    WITH Threads <- LogThreads, Workers <- {"w"}, Caller <- "m", Programs <- Programs,
         Behaviour <- CppCallbacks, Sink <- "cpp", PythonLevel <- 3,
         next <- op_at, at <- place, poisoned <- log_poisoned, gil <- log_gil

\* A worker's message above Python's level waits for ever for the thread that
\* waits for the worker, so threads need not end here.
PythonLog == INSTANCE Logging
    WITH Threads <- LogThreads, Workers <- {"w"}, Caller <- "m", Programs <- Programs,
         Behaviour <- RustCallbacks, Sink <- "python", PythonLevel <- 3,
         next <- op_at, at <- place, poisoned <- log_poisoned, gil <- log_gil

-----------------------------------------------------------------------------
(* Errors with names made of the characters that the formats use.          *)

Names(n) == UNION {[1..k -> {"a", "\\", ">", " "}] : k \in 0..n}
Err(c, type, kind, name, cycle) ==
    [call |-> c, type |-> type, kind |-> kind, name |-> name, cycle |-> cycle]
V(name, edge) == [name |-> name, edge |-> edge]

Cycles == {<<V(n, "Master"), V(m, "User Group")>> : n \in Names(3), m \in Names(2)}
            \cup {<<V(n, "Master")>> : n \in Names(4)}

CycleErrors ==
    {Err("sort_plugins", t, "CycleFound", <<>>, c) :
        t \in {"BuildGroupsGraphError", "SortingError", "PluginGraphValidationError"}, c \in Cycles}
    \cup {Err("groups_path", "BuildGroupsGraphError", "CycleFound", <<>>, c) : c \in Cycles}

NameErrors ==
    {Err("sort_plugins", t[1], t[2], n, <<>>) :
        n \in Names(3) \cup {<<"a", ":", " ", "a">>},
        t \in {<<"BuildGroupsGraphError", "UndefinedGroup">>, <<"SortingError", "UndefinedGroup">>,
               <<"NotInCache", "PluginNotLoaded">>, <<"SortingError", "CycleInvolving">>}}
    \cup {Err("groups_path", "UndefinedGroupError", "UndefinedGroup", n, <<>>) : n \in Names(3)}

OtherErrors ==
    {Err("sort_plugins", t[1], t[2], <<>>, <<>>) :
        t \in {<<"PoisonError", "poison">>, <<"PluginGraphValidationError", "PluginDataError">>,
               <<"SortingError", "PluginDataError">>, <<"SortingError", "PathfindingError">>,
               <<"ConditionEvaluationError", "condition">>, <<"PluginDataError", "other">>}}
    \cup {Err("load_plugins", t[1], t[2], <<"a">>, <<>>) :
        t \in {<<"PoisonError", "poison">>, <<"IoError", "io">>, <<"PluginValidationError", "invalid">>,
               <<"PluginDataError", "PluginMetadataNotFound">>, <<"PluginDataError", "other">>}}
    \cup {Err("sort_plugins", "PluginDataError", "PluginMetadataNotFound", <<"a">>, <<>>)}
    \cup {Err("groups_path", "PathfindingError", "NegativeCycle", <<>>, <<>>)}
    \cup {Err("new", "GameHandle", k, <<"a">>, <<>>) : k \in {"NotADirectory", "LoadOrderError"}}

MCErrors == CycleErrors \cup NameErrors \cup OtherErrors

CppErrors == INSTANCE ErrorMapping WITH Errors <- MCErrors, Language <- "cpp", at <- stage
PythonErrors == INSTANCE ErrorMapping WITH Errors <- MCErrors, Language <- "python", at <- stage

-----------------------------------------------------------------------------
(* Metadata objects.                                                       *)

MCTrimmed == [n \in {"A.esp", "a.esp.ghost", "A.*", "*("} |->
                 IF n = "a.esp.ghost" THEN "a.esp" ELSE n]
MCNameKey == [n \in {"A.esp", "a.esp", "B.esp", "A.*", "*("} |->
                 IF n = "A.esp" THEN "a.esp" ELSE n]
MCMatches == {<<"A.*", n>> : n \in {"A.esp", "a.esp"}}
MCRank == LET names == <<"", "a.esp", "B.esp", "en", "fr", "de", "c", "d", "hello", "bye",
                         "T", "U", "say", "warn", "xEdit", "Bee">>
          IN [s \in ToSet(names) |-> CHOOSE i \in DOMAIN names : names[i] = s]

Plugins == INSTANCE PluginMetadata
    WITH ClassOf <- <<>>, ValidConditions <- {"c", "d"}, MaxU32 <- 4, Dashed <- <<>>,
         NameKey <- MCNameKey, RegexNames <- {"A.*", "*("}, InvalidRegexes <- {"*("},
         Matches <- MCMatches
Plugin(name) == Plugins!NewPlugin(name)

Text(words, lang) == [text |-> words, lang |-> lang]
File(name) == [name |-> name, display |-> "", detail |-> <<>>, condition |-> "", constraint |-> ""]
Tag(name, addition, condition) == [name |-> name, addition |-> addition, condition |-> condition]
Message(content) == [level |-> "say", content |-> content, condition |-> ""]
Cleaning(crc) == [crc |-> crc, util |-> "xEdit", itm |-> 0, udr |-> 0, nav |-> 0,
                  detail |-> <<>>, condition |-> ""]
Location(url, name) == [url |-> url, name |-> name]

TwoLanguages == <<Text("hello", "fr"), Text("bye", "en")>>
NoEnglish == <<Text("hello", "fr"), Text("bye", "de")>>

MCValues ==
    [after |-> {<<File("A.esp"), [File("a.esp") EXCEPT !.constraint = "c"]>>,
                <<[File("B.esp") EXCEPT !.detail = NoEnglish]>>},
     req   |-> {<<[File("B.esp") EXCEPT !.detail = TwoLanguages],
                  [File("B.esp") EXCEPT !.detail = SubSeq(TwoLanguages, 1, 1)]>>},
     inc   |-> {<<[File("B.esp") EXCEPT !.display = "Bee", !.condition = "c"]>>},
     msg   |-> {<<Message(TwoLanguages), [Message(<<Text("bye", "fr")>>) EXCEPT !.condition = "c"]>>,
                <<Message(NoEnglish)>>},
     tag   |-> {<<Tag("T", TRUE, ""), Tag("T", FALSE, ""), Tag("T", TRUE, "c")>>, <<>>},
     dirty |-> {<<Cleaning(1), [Cleaning(1) EXCEPT !.condition = "c"],
                  [Cleaning(1) EXCEPT !.nav = 1]>>},
     clean |-> {<<[Cleaning(2) EXCEPT !.detail = NoEnglish]>>,
                <<[Cleaning(2) EXCEPT !.udr = 1, !.detail = TwoLanguages]>>},
     url   |-> {<<Location("hello", ""), Location("hello", "Bee")>>}]

\* Objects that repeat themselves, repeat what the held object has in another
\* case, have only a name, and cannot be converted.
MCOthers ==
    {Plugin("B.esp"),
     [Plugin("B.esp") EXCEPT !.group = "d"],
     [Plugin("A.*") EXCEPT !.after = <<File("a.esp"), File("B.esp"), File("B.esp")>>,
                           !.inc = <<[File("B.esp") EXCEPT !.display = "Bee"]>>,
                           !.msg = <<Message(<<Text("hello", "fr")>>)>>],
     [Plugin("B.esp") EXCEPT !.tag = <<Tag("T", TRUE, "c"), Tag("U", TRUE, "")>>,
                             !.dirty = <<[Cleaning(1) EXCEPT !.itm = 1]>>,
                             !.url = <<Location("hello", ""), Location("bye", "")>>],
     [Plugin("B.esp") EXCEPT !.req = <<[File("B.esp") EXCEPT !.detail = NoEnglish]>>]}

Twins == INSTANCE CppMetadata
    WITH ClassOf <- <<>>, ValidConditions <- {"c", "d"}, MaxU32 <- 4, Dashed <- <<>>,
         NameKey <- MCNameKey, RegexNames <- {"A.*", "*("}, InvalidRegexes <- {"*("},
         Matches <- MCMatches, GivenNames <- DOMAIN MCTrimmed, Trimmed <- MCTrimmed,
         Groups <- {"d"}, Values <- MCValues, Others <- MCOthers, Rank <- MCRank,
         MaxEdits <- 4

-----------------------------------------------------------------------------
NoCalls == Init /\ call = [t \in Threads |-> "general_messages"]

NoLogging ==
    /\ program = Unused /\ op_at = Unused /\ place = Unused /\ callback = Unused
    /\ level = Unused /\ writer = Unused /\ readers = Unused /\ waiting = Unused
    /\ log_poisoned = Unused /\ running = Unused /\ delivered = Unused /\ mutex = Unused
    /\ stored = Unused /\ assigning = Unused /\ raced = Unused /\ log_gil = Unused

NoErrors ==
    /\ found = Unused /\ error = Unused /\ stage = Unused /\ text = Unused
    /\ pos = Unused /\ vertices = Unused

NoTwins ==
    /\ held = Unused /\ language = Unused /\ twin = Unused /\ comparable = Unused
    /\ userlist = Unused /\ put = Unused /\ edits = Unused

MCInit ==
    \/ subject = "python handle" /\ Init /\ NoLogging /\ NoErrors /\ NoTwins
    \/ subject = "cpp handle" /\ CppHandle!Init /\ NoLogging /\ NoErrors /\ NoTwins
    \/ subject = "rust log" /\ RustLog!Init /\ NoCalls /\ NoErrors /\ NoTwins
    \/ subject = "cpp log" /\ CppLog!Init /\ NoCalls /\ NoErrors /\ NoTwins
    \/ subject = "python log" /\ PythonLog!Init /\ NoCalls /\ NoErrors /\ NoTwins
    \/ subject = "cpp errors" /\ CppErrors!Init /\ NoCalls /\ NoLogging /\ NoTwins
    \/ subject = "python errors" /\ PythonErrors!Init /\ NoCalls /\ NoLogging /\ NoTwins
    \/ subject = "twins" /\ Twins!Init /\ NoCalls /\ NoLogging /\ NoErrors

CppHandleStep(t) ==
    /\ subject = "cpp handle" /\ CppHandle!Step(t)
    /\ UNCHANGED <<subject, logVars, errorVars, twinVars>>
RustLogStep(t) ==
    /\ subject = "rust log" /\ RustLog!Step(t)
    /\ UNCHANGED <<subject, vars, errorVars, twinVars>>
CppLogStep(t) ==
    /\ subject = "cpp log" /\ CppLog!Step(t)
    /\ UNCHANGED <<subject, vars, errorVars, twinVars>>

MCNext ==
    \/ /\ subject = "python handle" /\ Next
       /\ UNCHANGED <<subject, logVars, errorVars, twinVars>>
    \/ /\ subject = "cpp handle" /\ CppHandle!Next
       /\ UNCHANGED <<subject, logVars, errorVars, twinVars>>
    \/ \E t \in LogThreads : RustLogStep(t)
    \/ \E t \in LogThreads : CppLogStep(t)
    \/ /\ subject = "cpp log" /\ CppLog!Crash
       /\ UNCHANGED <<subject, vars, errorVars, twinVars>>
    \/ /\ subject = "python log" /\ PythonLog!Next
       /\ UNCHANGED <<subject, vars, errorVars, twinVars>>
    \/ /\ subject = "cpp errors" /\ CppErrors!Next
       /\ UNCHANGED <<subject, vars, logVars, twinVars>>
    \/ /\ subject = "python errors" /\ PythonErrors!Next
       /\ UNCHANGED <<subject, vars, logVars, twinVars>>
    \/ /\ subject = "twins" /\ Twins!Next
       /\ UNCHANGED <<subject, vars, logVars, errorVars>>

\* A C++ thread in a method runs on unless it waits for the lock, and the
\* scheduler runs every thread that logs and can run.
Fairness ==
    /\ \A t \in Threads : WF_allVars(CppHandleStep(t))
    /\ \A t \in LogThreads : WF_allVars(RustLogStep(t)) /\ WF_allVars(CppLogStep(t))

MCSpec == MCInit /\ [][MCNext]_allVars /\ Fairness

-----------------------------------------------------------------------------
\* A logging callback that runs is the one that is set, for a message of the level
\* that is set, so that once set_logging_callback has returned the old callback's
\* captured state may go; and no error message is lost, also not after a panic has
\* poisoned the logger's lock.  SetLoggingCallback assigns the C++ callback without
\* a lock: of it only the level and the delivery are claimed, and those only until
\* a thread has called or assigned it during an assignment.
LoggerKeepsPromises ==
    /\ subject = "rust log" =>
            RustLog!CallbackInForce /\ RustLog!LevelInForce /\ RustLog!ErrorsDelivered
    /\ subject = "cpp log" /\ ~raced => CppLog!LevelInForce /\ CppLog!ErrorsDelivered
    /\ subject = "python log" => PythonLog!CallbackInForce /\ PythonLog!LevelInForce

\* The exception that a caller catches has the cycle, group or plugin that the
\* library found, and a plugin that is not loaded is a PluginNotLoadedError to C++
\* whichever call it is from.
CausesSurvive ==
    /\ subject = "cpp errors" => CppErrors!CausesSurvive /\ CppErrors!PluginNotLoadedIsRaised
    /\ subject = "python errors" => PythonErrors!CausesSurvive

\* A C++ metadata object and its twin in another language stay the same object,
\* what a C++ program stores comes back as it was, and its == and < agree.
TwinsAgree ==
    subject = "twins" =>
        Twins!TwinsAgree /\ Twins!StoredAsHeld /\ Twins!OrderAgreesWithEquality

\* Nobody waits for ever: a method that a C++ thread calls returns, whatever the
\* other threads do to the database, and every thread that logs comes to its end
\* (in C++ unless its callback is used while it is assigned).
WaitsEnd ==
    /\ \A t \in Threads : subject = "cpp handle" /\ at[t] = "wait" ~> at[t] = "out"
    /\ LET Logs == subject = "rust log" \/ subject = "cpp log"
       IN Logs ~> (Logs /\ (raced \/ \A t \in LogThreads : CppLog!Ended(t)))
=============================================================================
