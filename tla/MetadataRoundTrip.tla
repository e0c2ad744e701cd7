-------------------------- MODULE MetadataRoundTrip -------------------------
(***************************************************************************)
(* One piece of metadata is written to a file and read back.               *)
(*                                                                         *)
(* An item is [kind, value]: a plugin's metadata, a group, a general       *)
(* message or a known Bash Tag, built through the public API.              *)
(***************************************************************************)
EXTENDS PluginMetadata

CONSTANT Items      \* what may be written

VARIABLES item,     \* what the caller has stored
          step,     \* "stored", "written" or "read"
          node,     \* what the file holds for it
          result    \* what parsing the file gives

vars == <<item, step, node, result>>

NoNode == [nothing |-> TRUE]

Init ==
    /\ item \in Items
    /\ step = "stored"
    /\ node = NoNode
    /\ result = Err

Emit(kind, v) ==
    CASE kind = "plugin"   -> EmitPlugin(v)
      [] kind = "group"    -> EmitGroup(v)
      [] kind = "message"  -> EmitMessage(v, "block")
      [] kind = "bash_tag" -> write_unquoted_str(v, "block")

Parse(kind, n) ==
    CASE kind = "plugin"   -> ParsePlugin(n)
      [] kind = "group"    -> ParseGroup(n)
      [] kind = "message"  -> ParseMessage(n)
      [] kind = "bash_tag" -> IF IsStr(n) THEN Ok(n.str) ELSE Err

Write ==
    /\ step = "stored"
    /\ step' = "written"
    /\ node' = Emit(item.kind, item.value)
    /\ UNCHANGED <<item, result>>

Read ==
    /\ step = "written"
    /\ step' = "read"
    /\ result' = Parse(item.kind, node)
    /\ UNCHANGED <<item, node>>

Next == Write \/ Read

Spec == Init /\ [][Next]_vars

-----------------------------------------------------------------------------
(* Which metadata survives.                                                *)

\* Text that is written without quotes where that changes what it is.
Misread(s) == ClassOf[s] \in {"typed", "key"}

LoneForeign(contents) == Len(contents) = 1 /\ contents[1].lang # DefaultLanguage

SafeCondition(c) == c \in ValidConditions \cup {None}

SafeMessage(m) ==
    m.content # <<>> /\ ~LoneForeign(m.content) /\ SafeCondition(m.condition)

SafeFile(f) ==
    ~LoneForeign(f.detail) /\ SafeCondition(f.condition) /\ SafeCondition(f.constraint)

SafeTag(t) ==
    /\ ~Misread(TagText(t))
    /\ t.addition => t.name \notin {Dashed[s] : s \in DOMAIN Dashed}
    /\ SafeCondition(t.condition)

SafeCleaning(i) == ~LoneForeign(i.detail) /\ SafeCondition(i.condition)

SafePlugin(p) ==
    /\ \A f \in ToSet(p.after \o p.req \o p.inc) : SafeFile(f)
    /\ \A m \in ToSet(p.msg) : SafeMessage(m)
    /\ \A t \in ToSet(p.tag) : SafeTag(t)
    /\ \A i \in ToSet(p.dirty \o p.clean) : SafeCleaning(i)

SafeGroup(g) == \A i \in DOMAIN g.after : ~Misread(g.after[i])

Safe(kind, v) ==
    CASE kind = "plugin"   -> SafePlugin(v)
      [] kind = "group"    -> SafeGroup(v)
      [] kind = "message"  -> SafeMessage(v)
      [] kind = "bash_tag" -> ~Misread(v)

\* Every string, in any style and position, every mixture of optional fields,
\* zero counts included: what save writes of a Safe value is what load reads.
\* Quoting, omitted fields and the short forms of a list, a file, a tag, a
\* location and a message text lose nothing of it.
SafeMetadataSurvives ==
    (step = "read" /\ Safe(item.kind, item.value)) => result = Ok(item.value)

\* Beyond the Safe values: a file that is read without an error and yet differs
\* from what was stored differs for one of two reasons.  A text in one language
\* other than English comes back as English, or a tag to add whose name starts
\* with "-" comes back as a tag to remove.
ChangesAreKnown ==
    (step = "read" /\ IsOk(result) /\ result.ok # item.value) =>
        LET p == item.value
            lists == CASE item.kind = "plugin" ->
                            {f.detail : f \in ToSet(p.after \o p.req \o p.inc)}
                            \cup {m.content : m \in ToSet(p.msg)}
                            \cup {i.detail : i \in ToSet(p.dirty \o p.clean)}
                       [] item.kind = "message" -> {p.content}
                       [] OTHER -> {}
        IN \/ \E contents \in lists : LoneForeign(contents)
           \/ /\ item.kind = "plugin"
              /\ \E t \in ToSet(p.tag) :
                    t.addition /\ t.name \in {Dashed[s] : s \in DOMAIN Dashed}

\* What a metadata file may have: conditions that can be parsed, and messages that
\* say something.
Loadable(kind, v) ==
    LET files == IF kind = "plugin" THEN ToSet(v.after \o v.req \o v.inc) ELSE {}
        messages == CASE kind = "plugin" -> ToSet(v.msg) [] kind = "message" -> {v} [] OTHER -> {}
        others == IF kind = "plugin" THEN ToSet(v.tag \o v.dirty \o v.clean) ELSE {}
    IN /\ \A e \in files \cup messages \cup others : SafeCondition(e.condition)
       /\ \A f \in files : SafeCondition(f.constraint)
       /\ \A m \in messages : m.content # <<>>

\* "Writes a metadata file containing all loaded user-added metadata"
\* (database/mod.rs): what can be in a metadata file is read back from the written
\* one as it was stored.
WrittenMetadataIsWhole ==
    (step = "read" /\ Loadable(item.kind, item.value)) => result = Ok(item.value)
=============================================================================
