------------------------------ MODULE Prelude -------------------------------
(***************************************************************************)
(* Loading a masterlist with a prelude: metadata_document.rs replaces the  *)
(* value of the masterlist's prelude key by the prelude file, indented,    *)
(* and metadata/error.rs maps a position in the combined text back to the  *)
(* file that it came from.                                                 *)
(*                                                                         *)
(* A text is the sequence of its lines, one more than it has line breaks,  *)
(* and a line is [from, line, indent, class].  What decides is a line's    *)
(* first character:                                                        *)
(*   "key"     the prelude key                                             *)
(*   "top"     something else in the first column                          *)
(*   "inner"   a space or a #                                              *)
(*   "blank"   nothing, or a carriage return                               *)
(***************************************************************************)
EXTENDS Integers, SequencesExt, TLC

CONSTANTS MaxLines,          \* bound: the lines of the masterlist
          MaxPreludeLines,   \* bound: the lines of the prelude
          MaxColumn,         \* bound: the columns at which an error is found
          UsizeValues        \* 2^64 in the code: how many values a usize has

VARIABLES masterlist,  \* the masterlist file
          prelude,     \* the prelude file
          text,        \* what is parsed
          meta,        \* the PreludeDiffSpan, if a prelude was replaced
          error        \* the position reported for an error, if there is one

vars == <<masterlist, prelude, text, meta, error>>

NoMeta == [start_line |-> 0]
NoError == [line |-> 0]
Panic == [panic |-> TRUE]

File(from, classes) ==
    [n \in DOMAIN classes |-> [from |-> from, line |-> n, indent |-> 0, class |-> classes[n]]]

\* Texts have at least one line.  A prelude is a list: no line of it is a key.
Texts(classes, bound) == UNION {[1..n -> classes] : n \in 1..bound}

Init ==
    /\ \E c \in Texts({"key", "top", "inner", "blank"}, MaxLines) :
          masterlist = File("masterlist", c)
    /\ \E c \in Texts({"top", "inner", "blank"}, MaxPreludeLines) :
          prelude = File("prelude", c)
    /\ text = <<>>
    /\ meta = NoMeta
    /\ error = NoError

-----------------------------------------------------------------------------

split_on_prelude_start(t) == SelectInSeq(t, LAMBDA l : l.class = "key")

\* The line after the prelude's value, or one past the end.
split_on_prelude(t) ==
    LET start == split_on_prelude_start(t)
        rest == SelectInSeq(SubSeq(t, start + 1, Len(t)), LAMBDA l : l.class \in {"key", "top"})
    IN IF rest = 0 THEN Len(t) + 1 ELSE start + rest

count_lines(t) == Len(t)

\* Mutant: only the first line is indented.
indent_first_line(t) == [t EXCEPT ![1].indent = @ + 2, ![1].class = "inner"]

\* Blank lines stay blank.
indent_prelude(t) ==
    [n \in DOMAIN t |-> IF t[n].class = "blank" THEN t[n]
                        ELSE [t[n] EXCEPT !.indent = @ + 2, !.class = "inner"]]

replace_prelude(t, p) ==
    LET start == split_on_prelude_start(t)
        after == split_on_prelude(t)
        new == indent_prelude(p)
    IN IF start = 0 THEN [text |-> t, meta |-> NoMeta]
       ELSE [text |-> SubSeq(t, 1, start) \o new \o SubSeq(t, after, Len(t)),
             meta |-> [start_line        |-> start + 1,
                       end_line          |-> start + count_lines(new),
                       lines_added_count |-> count_lines(new) - (after - start - 1)]]

saturating_sub(a, b) == IF b > a THEN 0 ELSE a - b

\* Of a column before the second, `column - 2` panics in a build with overflow
\* checks, and wraps round in one without.
InPrelude(line, column, m) ==
    LET Moved(c) == [line |-> line - m.start_line + 1, column |-> c, from |-> "prelude"]
    IN IF column >= 2 THEN {Moved(column - 2)} ELSE {Panic, Moved(UsizeValues + column - 2)}

InMasterlist(line, column) == {[line |-> line, column |-> column, from |-> "masterlist"]}

\* Mutant: what follows the prelude is not moved back.
adjust_location_unmoved(line, column, m) ==
    IF line >= m.start_line /\ line <= m.end_line THEN InPrelude(line, column, m)
    ELSE InMasterlist(line, column)

\* The positions that may be reported, or a panic.
adjust_location(line, column, m) ==
    IF line > m.end_line
    THEN InMasterlist(saturating_sub(line, m.lines_added_count), column)
    ELSE IF line >= m.start_line THEN InPrelude(line, column, m)
    ELSE InMasterlist(line, column)

Replace ==
    /\ text = <<>>
    /\ LET result == replace_prelude(masterlist, prelude)
       IN text' = result.text /\ meta' = result.meta
    /\ UNCHANGED <<masterlist, prelude, error>>

\* Parsing fails somewhere in the text: in a line that has something in it, or
\* at the start of one that has not, the end of the text included.
Fail(line, column) ==
    /\ text # <<>> /\ error = NoError
    /\ line \in DOMAIN text
    /\ IF text[line].class = "blank" THEN column = 0 ELSE column >= text[line].indent
    /\ \E e \in IF meta = NoMeta THEN InMasterlist(line, column)
                ELSE adjust_location(line, column, meta) :
          error' = e @@ [at |-> line, found |-> column]
    /\ UNCHANGED <<masterlist, prelude, text, meta>>

Next ==
    \/ Replace
    \/ \E line \in 1..(MaxLines + MaxPreludeLines), column \in 0..MaxColumn : Fail(line, column)

Spec == Init /\ [][Next]_vars

-----------------------------------------------------------------------------

\* The position has no column before the two that were added: a blank line of the
\* prelude, which is not indented, or the end of the text in one.
Overflows == text[error.at].from = "prelude" /\ error.found < 2

\* A reported position is where the offending text really is: in the prelude file
\* or the masterlist, at its line and column there, whatever the two preludes'
\* lengths and wherever the key stands, and nothing panics.  That is not so of a
\* position that overflows, of which nothing is said here.
LocationsMapBack ==
    (error # NoError /\ ~Overflows) =>
        LET culprit == text[error.at]
        IN error = [line   |-> culprit.line,
                    column |-> error.found - culprit.indent,
                    from   |-> culprit.from,
                    at     |-> error.at,
                    found  |-> error.found]

\* Loading with a prelude leaves a text in which the prelude's value ends where
\* it should: replacing it again by the same file changes nothing.
ReplacementIsStable ==
    text # <<>> =>
        LET again == replace_prelude(text, prelude)
            Lines(t) == [n \in DOMAIN t |-> [t[n] EXCEPT !.line = 0, !.indent = 0]]
        IN Lines(again.text) = Lines(text)
=============================================================================
