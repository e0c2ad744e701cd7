---------------------------- MODULE MCGameState ----------------------------
EXTENDS GameState, TLC

\* B's header names A as its master.
MCMasters == [p \in {"A", "B"} |-> IF p = "B" THEN {"A"} ELSE {}]

\* An update of a plugin, and one whose records cannot be parsed.
MCFileData == {[data |-> 2, header |-> TRUE, body |-> TRUE],
               [data |-> 3, header |-> TRUE, body |-> FALSE]}

\* B is ghosted.
MCInitialFiles ==
    [path \in {"A", "B"} \X {"plain", "ghost"} |->
        IF path \in {<<"A", "plain">>, <<"B", "ghost">>}
        THEN [data |-> 1, header |-> TRUE, body |-> TRUE] ELSE NoFile]

A == <<"A", "plain">>
B == <<"B", "plain">>
MCRequests == {<<A>>, <<B>>, <<A, B>>, <<A, A>>}
MCOrders == {<<"A", "B">>, <<"B", "A">>}
MCActives == {{"A"}, {"A", "B"}}
MCInitialSaved == [order |-> <<"A", "B">>, active |-> {"A"}]
MCArchivesIn == ("main" :> {"A.bsa"}) @@ ("extra" :> {"B.bsa"})
Condition(f, p) == [fn |-> f, of |-> p]
MCConditions == {Condition("active", "A"), Condition("checksum", "A"), Condition("file", "X")}
=============================================================================
