---------------------------- MODULE Description ----------------------------
(***************************************************************************)
(* plugin/mod.rs: what Plugin::new takes from a plugin's description, the  *)
(* Bash Tags and the version.                                              *)
(*                                                                         *)
(* A text is a sequence of tokens: "1" a digit, "x" another letter, "v",   *)
(* the word "version", a timestamp, punctuation, white space, and the two  *)
(* marks of a list of tags.  The regexes ignore case, so there is no upper *)
(* case.                                                                   *)
(***************************************************************************)
EXTENDS Integers, Sequences, FiniteSets, SequencesExt

CONSTANTS TextsBefore, TextsAfter,   \* the text around the list of tags
          TagLists              \* the lists, each a sequence of tags

VARIABLES listed, description, tags, regex, version

vars == <<listed, description, tags, regex, version>>

Open == "{{BASH:"
Close == "}}"
None == <<>>

\* A description as its author writes it: with a list of tags or without one.
Written(l) ==
    IF l.tags = <<>> THEN l.prefix \o l.suffix
    ELSE l.prefix \o <<Open>>
         \o FlattenSeq([i \in DOMAIN l.tags |-> (IF i = 1 THEN <<>> ELSE <<",", " ">>) \o l.tags[i]])
         \o <<Close>> \o l.suffix

Init ==
    /\ \E p \in TextsBefore, s \in TextsAfter, ts \in TagLists :
            /\ listed = [prefix |-> p, tags |-> ts, suffix |-> s]
            /\ description = Written(listed)
    /\ tags = <<>>
    /\ regex = 0
    /\ version = None

-----------------------------------------------------------------------------
(* extract_bash_tags.                                                      *)

Occurs(text, token) == {i \in DOMAIN text : text[i] = token}

\* The text before and after the first occurrence, which there has to be.
split_once(text, token) ==
    LET i == Min(Occurs(text, token))
    IN <<SubSeq(text, 1, i - 1), SubSeq(text, i + 1, Len(text))>>

split(text) ==
    LET cuts == {0, Len(text) + 1} \cup Occurs(text, ",")
        ends == SetToSortSeq(cuts, <)
    IN [k \in 1..(Len(ends) - 1) |-> SubSeq(text, ends[k] + 1, ends[k + 1] - 1)]

trim(text) ==
    LET kept == {i \in DOMAIN text : text[i] # " "}
    IN IF kept = {} THEN <<>> ELSE SubSeq(text, Min(kept), Max(kept))

\* Mutant: the end of the list is looked for from the start of the description.
bash_tags_first_close(text) ==
    IF Occurs(text, Open) = {} \/ Occurs(text, Close) = {} THEN <<>>
    ELSE LET inside == SubSeq(text, Min(Occurs(text, Open)) + 1, Min(Occurs(text, Close)) - 1)
             parts == split(inside)
         IN [k \in DOMAIN parts |-> trim(parts[k])]

bash_tags(text) ==
    IF Occurs(text, Open) = {} THEN <<>>
    ELSE LET after == split_once(text, Open)[2]
         IN IF Occurs(after, Close) = {} THEN <<>>
            ELSE LET parts == split(split_once(after, Close)[1])
                 IN [k \in DOMAIN parts |-> trim(parts[k])]

extract_bash_tags ==
    /\ regex = 0
    /\ tags' = bash_tags(description)
    /\ regex' = 1
    /\ UNCHANGED <<listed, description, version>>

-----------------------------------------------------------------------------
(* extract_version.  A match is <<s, n, e>>: it starts at s, and its group  *)
(* is the text from n to e.                                                 *)

Digit == {"1"}
Alnum == Digit \cup {"x", "v", "version"}
Separator == {"-", ".", "_", ":"}

InPseudosem(n, e) ==
    \E k \in (n + 1)..(e - 1) :
        /\ \A i \in n..(k - 1) : description[i] \in Digit
        /\ description[k] = "." /\ description[k + 1] \in Digit
        /\ \A i \in (k + 1)..e :
                \/ description[i] \in Alnum
                \/ description[i] \in Separator /\ i < e /\ description[i + 1] \in Alnum

\* Mutant: the repetitions of the expression are lazy.
pseudosem_ends_first(n) ==
    {e \in DOMAIN description : InPseudosem(n, e) /\ \A f \in n..(e - 1) : ~InPseudosem(n, f)}

\* pseudosem_regex_str at n: the ends of its group.  It backtracks from the
\* longest one until what follows is the end or not a comma.
pseudosem(n) ==
    LET ends == {e \in DOMAIN description :
                    InPseudosem(n, e) /\ (e = Len(description) \/ description[e + 1] # ",")}
    IN IF ends = {} THEN {} ELSE {Max(ends)}

Digits(n) ==
    LET ends == {e \in n..Len(description) : \A i \in n..e : description[i] \in Digit}
    IN IF ends = {} THEN {} ELSE {Max(ends)}

\* Where the group may start when the match starts at s.
AfterVersion(s, colons, spaces) ==
    IF description[s] # "version" THEN {}
    ELSE {n \in (s + 1)..(Len(description) + 1) :
            \E c \in colons : /\ c = 1 => s + 1 \in DOMAIN description /\ description[s + 1] = ":"
                              /\ \A i \in (s + c + 1)..(n - 1) : description[i] = " "
                              /\ n - 1 - s - c \in spaces}

Prefixed(s, letters) ==
    (IF s = 1 THEN {1} ELSE {}) \cup (IF description[s] \in letters THEN {s + 1} ELSE {})

MatchesOf(r) ==
    CASE r = 1 -> {<<i, i, i>> : i \in Occurs(description, "timestamp")}
      [] r = 2 -> UNION {UNION {{<<s, n, e>> : e \in pseudosem(n)} :
                            n \in AfterVersion(s, {0, 1}, {1})} : s \in DOMAIN description}
      [] r = 3 -> UNION {UNION {{<<s, n, e>> : e \in pseudosem(n)} :
                            n \in Prefixed(s, {"v", " "})} : s \in DOMAIN description}
      [] r = 4 -> UNION {UNION {{<<s, n, e>> : e \in Digits(n)} :
                            n \in Prefixed(s, {"v"}) \cup AfterVersion(s, {1}, Nat)} :
                                s \in DOMAIN description}

\* Mutant: the expression for a bare version comes before the one for a version
\* after the word.
regexes_swapped(r) == CASE r = 2 -> MatchesOf(3) [] r = 3 -> MatchesOf(2) [] OTHER -> MatchesOf(r)

\* The expressions in the order in which they are tried.
VERSION_REGEXES(r) == MatchesOf(r)

\* One round of the loop: the first match of a regex ends it.
extract_version ==
    /\ regex \in 1..4
    /\ LET found == VERSION_REGEXES(regex)
           first == CHOOSE m \in found : \A o \in found : m[1] <= o[1]
       IN \/ found = {} /\ version' = version /\ regex' = regex + 1
          \/ found # {} /\ version' = <<first[2], first[3]>> /\ regex' = 6
    /\ UNCHANGED <<listed, description, tags>>

Next == extract_bash_tags \/ extract_version

Spec == Init /\ [][Next]_vars

-----------------------------------------------------------------------------
Text(n, e) == SubSeq(description, n, e)

At(i) == IF i \in DOMAIN description THEN description[i] ELSE "end"

\* The tags that the author listed are the tags that are found, whatever else the
\* description says before and after the list.
TagsAsListed ==
    regex > 0 /\ Occurs(listed.prefix, Open) = {} /\ (listed.tags = <<>> => Occurs(listed.suffix, Open) = {})
        => tags = listed.tags

\* Where no number is followed by a comma, the version is never cut short within
\* its digits: 1.11 is not taken for 1.1, nor 1.1 for 1.
VersionIsWhole ==
    version # None /\ Occurs(description, ",") = {} /\ Text(version[1], version[2]) # <<"timestamp">> =>
        /\ At(version[2] + 1) \notin Digit
        /\ ~(At(version[2] + 1) = "." /\ At(version[2] + 2) \in Digit)

\* "should_prefer_version_prefixed_numbers_over_versions_in_sentence": after
\* "version" and a space, or "version:" and a space, a dotted number is preferred.
VersionWordPreferred ==
    LET marked == {n \in DOMAIN description :
                    /\ pseudosem(n) # {} /\ At(n - 1) = " "
                    /\ At(n - 2) = "version" \/ (At(n - 2) = ":" /\ At(n - 3) = "version")}
    IN regex = 6 /\ marked # {} /\ Occurs(description, "timestamp") = {} => version[1] = Min(marked)
=============================================================================
