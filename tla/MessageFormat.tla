--------------------------- MODULE MessageFormat ----------------------------
(***************************************************************************)
(* metadata/message.rs, format: how a message's substitutions are put into *)
(* its text when it is loaded.                                             *)
(*                                                                         *)
(* A text is a sequence of tokens: the two braces, digits, and other text. *)
(* One step handles one slice of text.split_inclusive(['{', '}']).         *)
(***************************************************************************)
EXTENDS Naturals, FiniteSetsExt, SequencesExt

CONSTANTS Texts,     \* the texts that are formatted
          SubLists,  \* the substitutions that a message may have: not none
          Digit      \* the value of each token that is a digit

VARIABLES text,           \* the text being formatted
          subs,           \* its substitutions
          pos,            \* where the next slice starts
          inPlaceholder,  \* maybe_in_placeholder
          out,            \* new_text
          unused,         \* unused_sub_indexes
          outcome         \* "running", "done", "missing_sub", "missing_placeholder"

vars == <<text, subs, pos, inPlaceholder, out, unused, outcome>>

Init ==
    /\ text \in Texts
    /\ subs \in SubLists
    /\ pos = 1
    /\ inPlaceholder = FALSE
    /\ out = <<>>
    /\ unused = 0..(Len(subs) - 1)
    /\ outcome = "running"

\* The place of the next brace, or of the end.
SliceEnd == Min({n \in pos..Len(text) : text[n] \in {"{", "}"}} \cup {Len(text)})
Prefix == SubSeq(text, pos, SliceEnd - 1)
IsNumber(tokens) == tokens # <<>> /\ ToSet(tokens) \subseteq DOMAIN Digit
Number(tokens) == FoldLeft(LAMBDA n, d : 10 * n + Digit[d], 0, tokens)

Running == outcome = "running" /\ pos <= Len(text)

OpenBrace ==
    /\ Running /\ text[SliceEnd] = "{"
    /\ out' = out \o (IF inPlaceholder THEN <<"{">> ELSE <<>>) \o Prefix
    /\ inPlaceholder' = TRUE
    /\ pos' = SliceEnd + 1
    /\ UNCHANGED <<text, subs, unused, outcome>>

\* A slice that ends with "}" where no placeholder can end.
CloseText ==
    /\ Running /\ text[SliceEnd] = "}"
    /\ ~(inPlaceholder /\ IsNumber(Prefix))
    /\ out' = out \o (IF inPlaceholder THEN <<"{">> ELSE <<>>) \o Append(Prefix, "}")
    /\ inPlaceholder' = FALSE
    /\ pos' = SliceEnd + 1
    /\ UNCHANGED <<text, subs, unused, outcome>>

\* Mutant: a placeholder for the number of substitutions counts as the last.
ClosePlaceholderOffByOne ==
    /\ Running /\ text[SliceEnd] = "}"
    /\ inPlaceholder /\ IsNumber(Prefix)
    /\ LET n == Number(Prefix) IN
         IF n <= Len(subs)
         THEN /\ out' = Append(out, subs[Min({n + 1, Len(subs)})])
              /\ unused' = unused \ {n}
              /\ UNCHANGED outcome
         ELSE outcome' = "missing_sub" /\ UNCHANGED <<out, unused>>
    /\ inPlaceholder' = FALSE
    /\ pos' = SliceEnd + 1
    /\ UNCHANGED <<text, subs>>

ClosePlaceholder ==
    /\ Running /\ text[SliceEnd] = "}"
    /\ inPlaceholder /\ IsNumber(Prefix)
    /\ LET n == Number(Prefix) IN
         IF n < Len(subs)
         THEN /\ out' = Append(out, subs[n + 1])
              /\ unused' = unused \ {n}
              /\ UNCHANGED outcome
         ELSE outcome' = "missing_sub" /\ UNCHANGED <<out, unused>>
    /\ inPlaceholder' = FALSE
    /\ pos' = SliceEnd + 1
    /\ UNCHANGED <<text, subs>>

LastSlice ==
    /\ Running /\ text[SliceEnd] \notin {"{", "}"}
    /\ out' = out \o (IF inPlaceholder THEN <<"{">> ELSE <<>>) \o SubSeq(text, pos, Len(text))
    /\ inPlaceholder' = FALSE
    /\ pos' = Len(text) + 1
    /\ UNCHANGED <<text, subs, unused, outcome>>

Finish ==
    /\ outcome = "running" /\ pos > Len(text)
    /\ out' = IF inPlaceholder THEN Append(out, "{") ELSE out
    /\ outcome' = IF unused # {} THEN "missing_placeholder" ELSE "done"
    /\ UNCHANGED <<text, subs, pos, inPlaceholder, unused>>

Next == OpenBrace \/ CloseText \/ ClosePlaceholder \/ LastSlice \/ Finish

Spec == Init /\ [][Next]_vars

-----------------------------------------------------------------------------

\* The places of the placeholders: a number between two braces.
Placeholders ==
    {<<i, j>> \in (DOMAIN text) \X (DOMAIN text) :
        /\ i < j /\ text[i] = "{" /\ text[j] = "}"
        /\ IsNumber(SubSeq(text, i + 1, j - 1))}

IndexOf(p) == Number(SubSeq(text, p[1] + 1, p[2] - 1))

\* The text with its placeholders replaced, by definition.
Substituted ==
    LET Piece(n) ==
            IF \E p \in Placeholders : p[1] < n /\ n <= p[2] THEN <<>>
            ELSE IF \E p \in Placeholders : p[1] = n
            THEN <<subs[IndexOf(CHOOSE p \in Placeholders : p[1] = n) + 1]>>
            ELSE <<text[n]>>
    IN FlattenSeq([n \in DOMAIN text |-> Piece(n)])

\* Whatever stray, nested or unclosed braces there are, exactly the
\* placeholders are replaced and nothing else of the text is lost or added;
\* an error is reported exactly when a placeholder has no substitution, or a
\* substitution no placeholder.
FormatSubstitutes ==
    LET used == {IndexOf(p) : p \in Placeholders}
    IN /\ outcome = "done" => used = 0..(Len(subs) - 1) /\ out = Substituted
       /\ outcome = "missing_sub" => \E n \in used : n >= Len(subs)
       /\ outcome = "missing_placeholder" => \E n \in 0..(Len(subs) - 1) : n \notin used
=============================================================================
