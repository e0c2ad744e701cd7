--------------------------- MODULE MetadataTypes ----------------------------
(***************************************************************************)
(* The metadata types of metadata/*.rs, how each is emitted and parsed,    *)
(* and how the metadata of one plugin is merged and filtered.              *)
(*                                                                         *)
(* An emitter gives the node that a reader of the file finds.  Aliases are *)
(* resolved by that reader and are left to YamlAnchors; substitutions in   *)
(* messages are never written and are left to MessageText.                 *)
(***************************************************************************)
EXTENDS YamlScalars, TLC

CONSTANT Dashed     \* the name of a tag with a "-" in front

Optional(key, present, node) == IF present THEN key :> node ELSE <<>>

\* EmitYaml for &[T]: a single scalar goes into a flow sequence.
SliceStyle(elements, scalars) ==
    IF Len(elements) = 1 /\ elements[1] \in scalars THEN "flow" ELSE "block"

EmitSlice(elements, IsScalar(_), Emit(_, _)) ==
    LET style == SliceStyle(elements, {e \in ToSet(elements) : IsScalar(e)})
    IN [seq |-> [i \in 1..Len(elements) |-> Emit(elements[i], style)]]

ParseSlice(m, key, Parse(_)) ==
    LET slice == get_slice_value(m, key)
    IN IF IsOk(slice) THEN Collect(slice.ok, Parse) ELSE Err

write_condition(c) == write_single_quoted_str(c)

-----------------------------------------------------------------------------
(* Message contents: [text, lang].                                         *)

NewContent(text) == [text |-> text, lang |-> DefaultLanguage]

validate_message_contents(contents) ==
    Len(contents) > 1 => \E i \in 1..Len(contents) : contents[i].lang = DefaultLanguage

EmitContent(c, style) ==
    [map |-> ("lang" :> write_unquoted_str(c.lang, "block"))
             @@ ("text" :> write_single_quoted_str(c.text))]

\* Empty contents are never emitted: every caller tests for them first.
emit_message_contents(contents) ==
    IF Len(contents) = 1
    THEN write_single_quoted_str(contents[1].text)
    ELSE EmitSlice(contents, LAMBDA c : FALSE, EmitContent)

ParseContent(n) ==
    IF ~IsMap(n) THEN Err
    ELSE LET text == get_required_string_value(n.map, "text")
             lang == get_required_string_value(n.map, "lang")
         IN IF IsOk(text) /\ IsOk(lang)
            THEN Ok([text |-> text.ok, lang |-> lang.ok]) ELSE Err

parse_message_contents_yaml(n) ==
    LET contents == IF IsStr(n) THEN Ok(<<NewContent(n.str)>>)
                    ELSE IF IsSeq(n) THEN Collect(n.seq, ParseContent) ELSE Err
    IN IF IsOk(contents) /\ validate_message_contents(contents.ok) THEN contents ELSE Err

ParseDetail(m) ==
    IF "detail" \in DOMAIN m THEN parse_message_contents_yaml(m["detail"]) ELSE Ok(<<>>)

-----------------------------------------------------------------------------
(* Messages: [level, content, condition].                                  *)

NewMessage(level, text) ==
    [level |-> level, content |-> <<NewContent(text)>>, condition |-> None]

EmitMessage(msg, style) ==
    [map |-> ("type" :> write_unquoted_str(msg.level, "block"))
             @@ Optional("content", msg.content # <<>>, emit_message_contents(msg.content))
             @@ Optional("condition", msg.condition # None, write_condition(msg.condition))]

ParseMessage(n) ==
    IF ~IsMap(n) \/ "content" \notin DOMAIN n.map THEN Err
    ELSE LET level == get_required_string_value(n.map, "type")
             content == parse_message_contents_yaml(n.map["content"])
             condition == parse_condition(n.map, "condition")
         IN IF AllOk(<<level, content, condition>>)
            THEN Ok([level     |-> IF level.ok \in {"warn", "error"} THEN level.ok ELSE "say",
                     content   |-> content.ok,
                     condition |-> condition.ok])
            ELSE Err

-----------------------------------------------------------------------------
(* Files: [name, display, detail, condition, constraint].                  *)

NewFile(name) == [name |-> name, display |-> None, detail |-> <<>>,
                  condition |-> None, constraint |-> None]

FileIsScalar(f) == f = NewFile(f.name)

\* Mutant: the constraint is written only beside a condition.
EmitFileConstraintForgotten(f, style) ==
    IF FileIsScalar(f) THEN write_single_quoted_str(f.name)
    ELSE [map |-> ("name" :> write_single_quoted_str(f.name))
                  @@ Optional("display", f.display # None, write_single_quoted_str(f.display))
                  @@ Optional("detail", f.detail # <<>>, emit_message_contents(f.detail))
                  @@ Optional("condition", f.condition # None, write_condition(f.condition))
                  @@ Optional("constraint", f.condition # None /\ f.constraint # None,
                              write_condition(f.constraint))]

EmitFile(f, style) ==
    IF FileIsScalar(f) THEN write_single_quoted_str(f.name)
    ELSE [map |-> ("name" :> write_single_quoted_str(f.name))
                  @@ Optional("display", f.display # None, write_single_quoted_str(f.display))
                  @@ Optional("detail", f.detail # <<>>, emit_message_contents(f.detail))
                  @@ Optional("condition", f.condition # None, write_condition(f.condition))
                  @@ Optional("constraint", f.constraint # None, write_condition(f.constraint))]

ParseFile(n) ==
    IF IsStr(n) THEN Ok(NewFile(n.str))
    ELSE IF ~IsMap(n) THEN Err
    ELSE LET name == get_required_string_value(n.map, "name")
             display == get_string_value(n.map, "display")
             detail == ParseDetail(n.map)
             condition == parse_condition(n.map, "condition")
             constraint == parse_condition(n.map, "constraint")
         IN IF AllOk(<<name, display, detail, condition, constraint>>)
            THEN Ok([name |-> name.ok, display |-> display.ok, detail |-> detail.ok,
                     condition |-> condition.ok, constraint |-> constraint.ok])
            ELSE Err

-----------------------------------------------------------------------------
(* Bash Tags: [name, addition, condition].                                 *)

TagText(t) == IF t.addition THEN t.name ELSE Dashed[t.name]

EmitTag(t, style) ==
    IF t.condition = None THEN write_unquoted_str(TagText(t), style)
    ELSE [map |-> ("name" :> write_unquoted_str(TagText(t), "block"))
                  @@ ("condition" :> write_condition(t.condition))]

name_and_suggestion(s) ==
    IF \E name \in DOMAIN Dashed : Dashed[name] = s
    THEN [name |-> CHOOSE name \in DOMAIN Dashed : Dashed[name] = s, addition |-> FALSE]
    ELSE [name |-> s, addition |-> TRUE]

ParsedTag(s, condition) ==
    [name      |-> name_and_suggestion(s).name,
     addition  |-> name_and_suggestion(s).addition,
     condition |-> condition]

ParseTag(n) ==
    IF IsStr(n) THEN Ok(ParsedTag(n.str, None))
    ELSE IF ~IsMap(n) THEN Err
    ELSE LET name == get_required_string_value(n.map, "name")
             condition == parse_condition(n.map, "condition")
         IN IF IsOk(name) /\ IsOk(condition) THEN Ok(ParsedTag(name.ok, condition.ok)) ELSE Err

-----------------------------------------------------------------------------
(* Locations: [url, name].                                                 *)

NewLocation(url) == [url |-> url, name |-> None]

LocationIsScalar(l) == l.name = None

EmitLocation(l, style) ==
    IF LocationIsScalar(l) THEN write_single_quoted_str(l.url)
    ELSE [map |-> ("link" :> write_single_quoted_str(l.url))
                  @@ ("name" :> write_single_quoted_str(l.name))]

ParseLocation(n) ==
    IF IsStr(n) THEN Ok(NewLocation(n.str))
    ELSE IF ~IsMap(n) THEN Err
    ELSE LET url == get_required_string_value(n.map, "link")
             name == get_required_string_value(n.map, "name")
         IN IF IsOk(url) /\ IsOk(name) THEN Ok([url |-> url.ok, name |-> name.ok]) ELSE Err

-----------------------------------------------------------------------------
(* Cleaning data: [crc, util, itm, udr, nav, detail, condition].           *)

NewCleaning(crc, util) ==
    [crc |-> crc, util |-> util, itm |-> 0, udr |-> 0, nav |-> 0,
     detail |-> <<>>, condition |-> None]

EmitCleaning(i, style) ==
    [map |-> ("crc" :> write_u32(i.crc))
             @@ ("util" :> write_single_quoted_str(i.util))
             @@ Optional("itm", i.itm > 0, write_u32(i.itm))
             @@ Optional("udr", i.udr > 0, write_u32(i.udr))
             @@ Optional("nav", i.nav > 0, write_u32(i.nav))
             @@ Optional("detail", i.detail # <<>>, emit_message_contents(i.detail))
             @@ Optional("condition", i.condition # None, write_condition(i.condition))]

ParseCleaning(n) ==
    IF ~IsMap(n) \/ "crc" \notin DOMAIN n.map THEN Err
    ELSE LET crc == get_u32_value(n.map, "crc")
             util == get_required_string_value(n.map, "util")
             itm == get_u32_value(n.map, "itm")
             udr == get_u32_value(n.map, "udr")
             nav == get_u32_value(n.map, "nav")
             detail == ParseDetail(n.map)
             condition == parse_condition(n.map, "condition")
         IN IF AllOk(<<crc, util, itm, udr, nav, detail, condition>>)
            THEN Ok([crc |-> crc.ok, util |-> util.ok, itm |-> itm.ok, udr |-> udr.ok,
                     nav |-> nav.ok, detail |-> detail.ok, condition |-> condition.ok])
            ELSE Err

-----------------------------------------------------------------------------
(* Groups: [name, description, after].                                     *)

DefaultGroupName == "default"
NewGroup(name) == [name |-> name, description |-> None, after |-> <<>>]
DefaultGroup == NewGroup(DefaultGroupName)

EmitGroup(g) ==
    [map |-> ("name" :> write_single_quoted_str(g.name))
             @@ Optional("description", g.description # None,
                         write_single_quoted_str(g.description))
             @@ Optional("after", g.after # <<>>,
                         [seq |-> [i \in 1..Len(g.after) |->
                                      write_unquoted_str(g.after[i], "block")]])]

ParseGroup(n) ==
    IF ~IsMap(n) THEN Err
    ELSE LET name == get_required_string_value(n.map, "name")
             description == get_string_value(n.map, "description")
             after == get_strings_vec_value(n.map, "after")
         IN IF AllOk(<<name, description, after>>)
            THEN Ok([name |-> name.ok, description |-> description.ok, after |-> after.ok])
            ELSE Err
=============================================================================
