---------------------------- MODULE YamlAnchors -----------------------------
(***************************************************************************)
(* Writing a list with anchors: metadata_document.rs counts the values     *)
(* that occur more than once and emit.rs writes an anchor with the first   *)
(* occurrence of each and an alias for every other.                        *)
(*                                                                         *)
(* The document is the sequence of its items in the order in which it is   *)
(* counted and written: the general messages and then every plugin's       *)
(* files, messages, tags and cleaning data.  An item is                    *)
(*    [type: "message" | "file" | "tag" | "info", name, contents,          *)
(*     conditions: a sequence of the conditions and constraints it has]    *)
(* where contents may be None, and a file is a scalar when it has neither  *)
(* contents nor conditions.                                                *)
(***************************************************************************)
EXTENDS Naturals, FiniteSets, SequencesExt

CONSTANTS Documents,   \* the sequences of items that may be written
          None         \* contents that an item does not have

VARIABLES doc,         \* the items
          options,     \* [common, file_strings]: the options beside write_anchors
          anchors,     \* the <<kind, value>> pairs that have an anchor
          written,     \* those whose anchor has been written
          out,         \* what has been written: [how, kind, value]
          common,      \* how much of out is the common section
          next         \* the item to write next; 0 until the values are counted

vars == <<doc, options, anchors, written, out, common, next>>

ScalarFile(i) == i.type = "file" /\ i.contents = None /\ i.conditions = <<>>

Init ==
    /\ doc \in Documents
    /\ options \in [common : BOOLEAN, file_strings : BOOLEAN]
    /\ anchors = <<>>
    /\ written = {}
    /\ out = <<>>
    /\ common = 0
    /\ next = 0

-----------------------------------------------------------------------------
(* Counting.                                                               *)

\* increment_for: counts is the sequence of all the values counted so far.
Seen(counts, v) == v \in ToSet(counts)

Parts(i) ==
    (IF i.contents = None THEN <<>> ELSE <<<<"contents", i.contents>>>>)
        \o [n \in DOMAIN i.conditions |-> <<"condition", i.conditions[n]>>]

HasOwnAnchor(i, fileStrings) ==
    i.type = "message" \/ (i.type = "file" /\ (fileStrings \/ ~ScalarFile(i)))

\* Mutant: a repeated message or file counts its parts again.
count_values_again(counts, i, fileStrings) ==
    (IF HasOwnAnchor(i, fileStrings) THEN Append(counts, <<i.type, i>>) ELSE counts) \o Parts(i)

\* Mutant: only the values of messages and files are counted.
count_values_without_tags(counts, i, fileStrings) ==
    IF ~HasOwnAnchor(i, fileStrings) THEN counts
    ELSE Append(counts, <<i.type, i>>)
             \o (IF Seen(counts, <<i.type, i>>) THEN <<>> ELSE Parts(i))

\* The parts of a message or file that has been seen are not counted: an alias
\* will stand for the whole of it.
count_values(counts, i, fileStrings) ==
    IF ~HasOwnAnchor(i, fileStrings) THEN counts \o Parts(i)
    ELSE Append(counts, <<i.type, i>>)
             \o (IF Seen(counts, <<i.type, i>>) THEN <<>> ELSE Parts(i))

\* In the order in which they were first counted.
into_common_values(counts) ==
    LET First(j) == \A h \in 1..(j - 1) : counts[h] # counts[j]
        Again(j) == \E h \in (j + 1)..Len(counts) : counts[h] = counts[j]
        places == SetToSortSeq({j \in DOMAIN counts : First(j) /\ Again(j)}, <)
    IN [n \in DOMAIN places |-> counts[places[n]]]

get_common_metadata_values(items, fileStrings) ==
    into_common_values(FoldLeft(LAMBDA c, i : count_values(c, i, fileStrings), <<>>, items))

OfKind(values, kind) == SelectSeq(values, LAMBDA v : v[1] = kind)

-----------------------------------------------------------------------------
(* Emitting.  e is the emitter: [written, out].                            *)

Put(e, how, value) ==
    [e EXCEPT !.out = Append(@, [how |-> how, kind |-> value[1], value |-> value])]

\* What comes before the value's own text; after an alias there is none.
write_anchored_value(e, value) ==
    IF value \notin e.all THEN Put(e, "plain", value)
    ELSE IF value \in e.written THEN Put(e, "alias", value)
    ELSE [Put(e, "anchor", value) EXCEPT !.written = @ \cup {value}]

\* Mutant: the anchor of a condition or contents is not recorded.
EmitPartUnrecorded(e, part) == Put(e, IF part \in e.all THEN "anchor" ELSE "plain", part)

EmitPart(e, part) == write_anchored_value(e, part)

EmitParts(e, i) == FoldLeft(EmitPart, e, Parts(i))

EmitItem(e, i) ==
    IF i.type \notin {"message", "file"} THEN EmitParts(e, i)
    ELSE IF <<i.type, i>> \in e.written THEN write_anchored_value(e, <<i.type, i>>)
    ELSE EmitParts(write_anchored_value(e, <<i.type, i>>), i)

\* Mutant: the contents are not put into the common section on their own.
emit_common_values_whole(e, values) ==
    LET items == OfKind(values, "message") \o OfKind(values, "file")
    IN FoldLeft(LAMBDA f, v : EmitItem(f, v[2]),
                FoldLeft(EmitPart, e, OfKind(values, "condition")), items)

\* Contents and conditions first, so that messages and files can alias them.
emit_common_values(e, values) ==
    LET parts == OfKind(values, "contents") \o OfKind(values, "condition")
        items == OfKind(values, "message") \o OfKind(values, "file")
    IN FoldLeft(LAMBDA f, v : EmitItem(f, v[2]), FoldLeft(EmitPart, e, parts), items)

Emitter(values) == [all |-> ToSet(values), written |-> written, out |-> out]

Count ==
    /\ next = 0
    /\ anchors' = get_common_metadata_values(doc, options.file_strings)
    /\ LET e == IF options.common THEN emit_common_values(Emitter(anchors'), anchors')
                ELSE Emitter(anchors')
       IN /\ written' = e.written
          /\ out' = e.out
          /\ common' = Len(e.out)
    /\ next' = 1
    /\ UNCHANGED <<doc, options>>

EmitNext ==
    /\ next \in 1..Len(doc)
    /\ LET e == EmitItem(Emitter(anchors), doc[next])
       IN written' = e.written /\ out' = e.out
    /\ next' = next + 1
    /\ UNCHANGED <<doc, options, anchors, common>>

Next == Count \/ EmitNext

Spec == Init /\ [][Next]_vars

-----------------------------------------------------------------------------
(* Properties of what has been written.                                    *)

At(n, how, value) == out[n].how = how /\ out[n].value = value

\* At every moment: an alias comes after its anchor, which YAML requires and
\* without which the file cannot be loaded, and an anchor is written once.
AliasesFollowAnchors ==
    \A n \in DOMAIN out :
        LET before == {m \in 1..(n - 1) : At(m, "anchor", out[n].value)}
        IN /\ out[n].how = "alias" => Cardinality(before) = 1
           /\ out[n].how # "alias" => before = {}

Done == next > Len(doc)

\* When all is written, no anchor is there for nothing.
AnchorsAreUsed ==
    Done => \A n \in DOMAIN out :
                out[n].how = "anchor" =>
                    \E m \in (n + 1)..Len(out) : At(m, "alias", out[n].value)

\* "conditions, constraints, files, file details, plugin cleaning data details,
\* messages and message contents that appear more than once in the metadata
\* will be deduplicated": no value is written out twice, but for the files
\* that are only a name when anchor_file_strings is off.
NothingWrittenTwice ==
    \A m, n \in DOMAIN out :
        (m < n /\ out[m].value = out[n].value /\ out[n].how # "alias") =>
            /\ ~options.file_strings
            /\ out[n].kind = "file"
            /\ ScalarFile(out[n].value[2])

\* "all YAML anchors will appear within that list": with a common section no
\* anchor is written outside of it.
AnchorsAreCommon ==
    options.common => \A n \in (common + 1)..Len(out) : out[n].how # "anchor"
=============================================================================
