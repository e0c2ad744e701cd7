----------------------------- MODULE MCDatabase -----------------------------
EXTENDS Database

MCNameKey ==
    [n \in {"A.esp", "a.esp", "B.esp", ".*esp", ".*ESP"} |->
        CASE n \in {"A.esp", "a.esp"} -> "a.esp"
          [] n \in {".*esp", ".*ESP"} -> ".*esp"
          [] OTHER -> "b.esp"]
MCRegexNames == {".*esp", ".*ESP"}
MCMatches == {<<r, n>> : r \in MCRegexNames, n \in {"A.esp", "a.esp", "B.esp"}}

MCClassOf ==
    [s \in DOMAIN MCNameKey \cup {"T1", "T2", "-T1", "c", "d", "default", "g", "h", "en",
                                  "say", "hello", "bye", "xEdit"} |-> "word"]
MCDashed == ("T1" :> "-T1")
MCEval == [c \in {"c", "d"} |-> IF c = "c" THEN "true" ELSE "false"]
MCGroupRank == [g \in {"default", "g", "h"} |->
                   CASE g = "default" -> 1 [] g = "g" -> 2 [] OTHER -> 3]

Tag(name) == [name |-> name, addition |-> TRUE, condition |-> None]
Group(name, after) == [NewGroup(name) EXCEPT !.after = after]
Clean(crc) == NewCleaning(crc, "xEdit")

\* The masterlist has an entry and a regular expression for A.esp, and its own
\* groups; one other list defines a group twice, after an entry that is fine.
Master ==
    save([DefaultDocument EXCEPT
        !.bash_tags = <<"T1">>,
        !.groups = <<DefaultGroup, Group("g", <<"default">>)>>,
        !.messages = <<NewMessage("say", "hello")>>,
        !.plugins = ("a.esp" :> [NewPlugin("A.esp") EXCEPT !.group = "g",
                                     !.tag = <<Tag("T1"), [Tag("T2") EXCEPT !.condition = "d"]>>,
                                     !.dirty = <<Clean(1), Clean(2)>>,
                                     !.msg = <<NewMessage("say", "hello")>>])
                    @@ ("b.esp" :> [NewPlugin("B.esp") EXCEPT !.after = <<NewFile("A.esp")>>]),
        !.regex_plugins = <<[NewPlugin(".*esp") EXCEPT !.tag = <<Tag("T2")>>,
                                                     !.dirty = <<Clean(2)>>]>>,
        !.ordered_plugin_names = <<".*esp", "A.esp", "B.esp">>])

TwiceDefined ==
    save([DefaultDocument EXCEPT
        !.bash_tags = <<"T2">>,
        !.groups = <<DefaultGroup, Group("h", <<>>), Group("h", <<"g">>)>>,
        !.regex_plugins = <<[NewPlugin(".*ESP") EXCEPT !.tag = <<Tag("T1")>>]>>,
        !.ordered_plugin_names = <<".*ESP">>])

MCInitialFiles ==
    ("masterlist" :> [map |-> Master.map @@ ("prelude" :> [seq |-> <<>>])])
    @@ ("twice" :> TwiceDefined)

MasterlistOnly == [path \in {"masterlist"} |-> MCInitialFiles[path]]

MCUserPlugins ==
    {[NewPlugin("A.esp") EXCEPT !.group = "h", !.tag = <<Tag("T2")>>],
     NewPlugin("a.esp"),
     [NewPlugin(".*esp") EXCEPT !.tag = <<Tag("T1")>>],
     [NewPlugin(".*esp") EXCEPT !.msg = <<[NewMessage("say", "bye") EXCEPT !.condition = "c"]>>],
     [NewPlugin(".*ESP") EXCEPT !.after = <<NewFile("B.esp")>>]}

MCUserGroups ==
    {<<Group("default", <<"h">>)>>,
     <<Group("h", <<"g">>), Group("g", <<"h">>)>>,
     <<Group("h", <<>>), Group("h", <<"default">>)>>}

MCUserMessages == {<<[NewMessage("say", "bye") EXCEPT !.condition = "d"]>>}
MCUserTags == {<<"T2">>}
=============================================================================
