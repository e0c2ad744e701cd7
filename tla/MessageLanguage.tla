-------------------------- MODULE MessageLanguage ---------------------------
(***************************************************************************)
(* metadata/message.rs, select_message_content: which of a message's texts *)
(* is shown to a reader.  One step is one turn of the loop.  The C++ API   *)
(* chooses with a loop of its own, SelectMessageContent.                   *)
(***************************************************************************)
EXTENDS Naturals, SequencesExt

CONSTANTS Languages,    \* the languages of texts and of readers
          CodeOf,       \* each language's code, without its country
          Locales,      \* the languages that have a country
          English,      \* the default language
          MaxContents   \* bound: the texts of one message

VARIABLES contents,     \* the languages of the message's texts
          language,     \* the reader's
          next,         \* the text to look at
          matched,      \* the close match kept, 0 for None
          english,      \* the text in English kept, 0 for None
          chosen        \* the place of the text returned, 0 before

vars == <<contents, language, next, matched, english, chosen>>

\* Message::multilingual and the parser ask for English among several texts.
Init ==
    /\ contents \in {c \in SeqOf(Languages, MaxContents) :
                        c # <<>> /\ (Len(c) > 1 => English \in ToSet(c))}
    /\ language \in Languages
    /\ next = 1
    /\ matched = 0
    /\ english = 0
    /\ chosen = 0

Close(l) == IF language \in Locales THEN l = CodeOf[language]
            ELSE l \in Locales /\ CodeOf[l] = language

Looking == chosen = 0 /\ Len(contents) > 1 /\ next <= Len(contents)

Exact ==
    /\ Looking /\ contents[next] = language
    /\ chosen' = next
    /\ UNCHANGED <<contents, language, next, matched, english>>

\* Mutant: a later close match replaces an earlier one.
LookReplacing ==
    /\ Looking /\ contents[next] # language
    /\ matched' = IF Close(contents[next]) THEN next ELSE matched
    /\ english' = IF contents[next] = English THEN next ELSE english
    /\ next' = next + 1
    /\ UNCHANGED <<contents, language, chosen>>

Look ==
    /\ Looking /\ contents[next] # language
    /\ IF matched # 0 THEN UNCHANGED <<matched, english>>
       ELSE /\ matched' = IF Close(contents[next]) THEN next ELSE 0
            /\ english' = IF contents[next] = English THEN next ELSE english
    /\ next' = next + 1
    /\ UNCHANGED <<contents, language, chosen>>

Return ==
    /\ chosen = 0
    /\ Len(contents) = 1 \/ next > Len(contents)
    /\ chosen' = IF Len(contents) = 1 THEN 1 ELSE IF matched # 0 THEN matched ELSE english
    /\ UNCHANGED <<contents, language, next, matched, english>>

Next == Exact \/ Look \/ Return

Spec == Init /\ [][Next]_vars

\* The text returned is the best there is: an exact match before a close one,
\* a close one before English, and the first of those that match.
BestTextChosen ==
    (chosen # 0 /\ Len(contents) > 1) =>
        LET Rank(l) == IF l = language THEN 3 ELSE IF Close(l) THEN 2
                       ELSE IF l = English THEN 1 ELSE 0
        IN \A i \in DOMAIN contents :
              /\ Rank(contents[i]) <= Rank(contents[chosen])
              /\ (Rank(contents[i]) = Rank(contents[chosen]) /\ Rank(contents[i]) > 1) =>
                     chosen <= i

-----------------------------------------------------------------------------
(* cpp/src/api/metadata/message_content.cpp.  exact, matched and english   *)
(* are the places of the texts kept, 0 for none.                           *)

\* Mutant: English is looked for until it is found.
CppTurnFirstEnglish(kept, i) ==
    LET l == contents[i]
        isCountryCodeGiven == CodeOf[language] # language
    IN IF kept.exact # 0 THEN kept
       ELSE IF l = language THEN [kept EXCEPT !.exact = i]
       ELSE IF kept.matched # 0 THEN kept
       ELSE [kept EXCEPT
                !.matched = IF \/ isCountryCodeGiven /\ l = CodeOf[language]
                               \/ ~isCountryCodeGiven /\ CodeOf[l] # l /\ CodeOf[l] = language
                            THEN i ELSE 0,
                !.english = IF @ = 0 /\ l = English THEN i ELSE @]

CppTurn(kept, i) ==
    LET l == contents[i]
        isCountryCodeGiven == CodeOf[language] # language
    IN IF kept.exact # 0 THEN kept
       ELSE IF l = language THEN [kept EXCEPT !.exact = i]
       ELSE IF kept.matched # 0 THEN kept
       ELSE [kept EXCEPT
                !.matched = IF \/ isCountryCodeGiven /\ l = CodeOf[language]
                               \/ ~isCountryCodeGiven /\ CodeOf[l] # l /\ CodeOf[l] = language
                            THEN i ELSE 0,
                !.english = IF l = English THEN i ELSE @]

SelectMessageContent ==
    LET kept == FoldLeft(CppTurn, [exact |-> 0, matched |-> 0, english |-> 0],
                         [i \in DOMAIN contents |-> i])
    IN IF Len(contents) = 1 THEN 1
       ELSE IF kept.exact # 0 THEN kept.exact
       ELSE IF kept.matched # 0 THEN kept.matched ELSE kept.english

-----------------------------------------------------------------------------

\* The C++ function, which does not call Rust, chooses the same text.
CppChoosesTheSame == chosen # 0 => chosen = SelectMessageContent
=============================================================================
