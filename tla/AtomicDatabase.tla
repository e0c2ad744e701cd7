--------------------------- MODULE AtomicDatabase ---------------------------
(***************************************************************************)
(* What a database handle promises its callers: each call either takes     *)
(* effect at one moment or is refused.  A version stands for everything    *)
(* that the database holds.                                                *)
(***************************************************************************)
EXTENDS Naturals

CONSTANT Threads

VARIABLES version,   \* the contents of the database
          result     \* what the last call of each thread returned

\* A call that reads returns the contents twice: it looks in two places.
Returned(kind) == [kind |-> kind, first |-> 0, second |-> 0]
ReadOf(a, b) == [kind |-> "read", first |-> a, second |-> b]

Init ==
    /\ version = 0
    /\ result = [t \in Threads |-> Returned("none")]

Read(t) ==
    /\ result' = [result EXCEPT ![t] = ReadOf(version, version)]
    /\ UNCHANGED version

Write(t) ==
    /\ version' = version + 1
    /\ result' = [result EXCEPT ![t] = Returned("ok")]

Refuse(t) ==
    /\ result' = [result EXCEPT ![t] = Returned("refused")]
    /\ UNCHANGED version

Next == \E t \in Threads : Read(t) \/ Write(t) \/ Refuse(t)

Spec == Init /\ [][Next]_<<version, result>>
=============================================================================
