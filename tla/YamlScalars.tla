---------------------------- MODULE YamlScalars -----------------------------
(***************************************************************************)
(* The scalars of a metadata file: how metadata/yaml/emit.rs writes a      *)
(* string and what metadata/yaml/parse.rs finds when the file is read.     *)
(*                                                                         *)
(* A string is kept as it is and ClassOf says what matters of it: which    *)
(* quotes it needs and how a reader takes it without quotes.  A node of a  *)
(* read file is [str], [int], [other] (a boolean, a null, a mapping made   *)
(* by a stray colon), [seq] or [map]; a failure to read is Err.            *)
(***************************************************************************)
EXTENDS Integers, Sequences, SequencesExt

CONSTANTS ClassOf,          \* what each string looks like
          ValidConditions,  \* the strings the condition parser accepts
          MaxU32            \* the largest u32

StringClasses ==
    {"word",      \* plain text
     "typed",     \* a number, a boolean or a null when it has no quotes
     "key",       \* ends with a colon: a mapping when it has no quotes
     "listed",    \* holds a comma or a bracket
     "special",   \* empty, or led by an indicator, or with ": " or " #"
     "control"}   \* holds a character that has to be escaped

ASSUME MaxU32Assumption == MaxU32 \in Nat
ASSUME ClassOfAssumption == \A s \in DOMAIN ClassOf : ClassOf[s] \in StringClasses

None == "<none>"     \* an Option that is None
DefaultLanguage == "en"

-----------------------------------------------------------------------------
(* Writing.                                                                *)

can_emit_unquoted(s, style) ==
    /\ ClassOf[s] \notin {"special", "control"}
    /\ ~(style = "flow" /\ ClassOf[s] = "listed")

\* Mutant: quotes do not depend on what the string holds.
can_single_quote_anything(s) == TRUE

can_single_quote(s) == ClassOf[s] # "control"

write_string(s, preferUnquoted, style) ==
    [text   |-> s,
     quotes |-> IF preferUnquoted /\ can_emit_unquoted(s, style) THEN "none"
                ELSE IF can_single_quote(s) THEN "single" ELSE "double",
     style  |-> style]

-----------------------------------------------------------------------------
(* Reading: the YAML library's view of one written scalar.                 *)

ReadScalar(written) ==
    LET class == ClassOf[written.text]
    IN CASE written.quotes = "double" -> [str |-> written.text]
         [] written.quotes = "single" ->
                IF class = "control" THEN [other |-> written.text]
                                     ELSE [str |-> written.text]
         [] OTHER ->
                IF \/ class \in {"typed", "key", "special", "control"}
                   \/ class = "listed" /\ written.style = "flow"
                THEN [other |-> written.text] ELSE [str |-> written.text]

\* What a reader finds where the emitter wrote s.
write_unquoted_str(s, style) == ReadScalar(write_string(s, TRUE, style))
write_single_quoted_str(s) == ReadScalar(write_string(s, FALSE, "block"))
write_u32(n) == [int |-> n]

-----------------------------------------------------------------------------
(* Parsing.                                                                *)

Ok(v) == [ok |-> v]
Err == [err |-> TRUE]
IsOk(r) == "ok" \in DOMAIN r
AllOk(rs) == \A i \in DOMAIN rs : IsOk(rs[i])

IsStr(n) == "str" \in DOMAIN n
IsInt(n) == "int" \in DOMAIN n
IsSeq(n) == "seq" \in DOMAIN n
IsMap(n) == "map" \in DOMAIN n

\* collect::<Result<Vec<_>, _>>(), and the same of a parser over the elements.
Collected(results) ==
    IF AllOk(results) THEN Ok([i \in DOMAIN results |-> results[i].ok]) ELSE Err

Collect(elements, Parse(_)) ==
    Collected([i \in 1..Len(elements) |-> Parse(elements[i])])

get_string_value(m, key) ==
    IF key \notin DOMAIN m THEN Ok(None)
    ELSE IF IsStr(m[key]) THEN Ok(m[key].str) ELSE Err

get_required_string_value(m, key) ==
    IF key \notin DOMAIN m THEN Err ELSE get_string_value(m, key)

get_slice_value(m, key) ==
    IF key \notin DOMAIN m THEN Ok(<<>>)
    ELSE IF IsSeq(m[key]) THEN Ok(m[key].seq) ELSE Err

get_strings_vec_value(m, key) ==
    LET slice == get_slice_value(m, key)
        AsStr(n) == IF IsStr(n) THEN Ok(n.str) ELSE Err
    IN IF IsOk(slice) THEN Collect(slice.ok, AsStr) ELSE Err

\* With the 0 that every caller but the one for the CRC puts for a missing key.
get_u32_value(m, key) ==
    IF key \notin DOMAIN m THEN Ok(0)
    ELSE IF IsInt(m[key]) /\ m[key].int \in 0..MaxU32 THEN Ok(m[key].int) ELSE Err

parse_condition(m, key) ==
    LET value == get_string_value(m, key)
    IN IF IsOk(value) /\ value.ok \in ValidConditions \cup {None} THEN value ELSE Err
=============================================================================
