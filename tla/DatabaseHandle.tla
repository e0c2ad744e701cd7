--------------------------- MODULE DatabaseHandle ---------------------------
(***************************************************************************)
(* The Database objects of the language wrappers (cpp/src/database.rs,     *)
(* cpp/src/api/database.cpp, nodejs/src/database.rs and                    *)
(* python/src/database.rs): any number of threads call one database, which *)
(* is behind an RwLock.                                                    *)
(*                                                                         *)
(* A method takes the lock to read or to write for the length of one       *)
(* statement, and returns an error if a thread panicked while it was       *)
(* writing.  The contents are kept in several places that a writer changes *)
(* one after the other: two parts stand for them, equal between calls.     *)
(*                                                                         *)
(* A Python thread holds the interpreter lock for as long as it runs, in a *)
(* method too: only Python's own code lets another thread run, and a       *)
(* method runs such code when it logs.  PyO3 refuses a method that takes   *)
(* &mut self while another method of the same object runs, and the other   *)
(* way round, and turns a panic into an exception; the C++ and Node.js     *)
(* wrappers do neither.  A Node.js program calls from one thread, so what  *)
(* holds of any number of threads is more than it needs.                   *)
(***************************************************************************)
EXTENDS Naturals

CONSTANTS Threads,     \* the program's threads
          Language,    \* "cpp", "node" or "python"
          Calls,       \* the methods that they call
          Handle,      \* the wrapper object that each thread uses
          MaxCalls     \* bound: calls made

\* The methods by the lock that they take.
Reads == {"write_user_metadata", "write_minimal_list", "evaluate", "known_bash_tags",
          "user_known_bash_tags", "general_messages", "user_general_messages", "groups",
          "user_groups", "groups_path", "plugin_metadata", "plugin_user_metadata"}
Loads == {"load_masterlist", "load_masterlist_with_prelude", "load_userlist"}
Writes == Loads \cup {"clear_condition_cache", "set_user_known_bash_tags",
                      "set_user_general_messages", "set_user_groups",
                      "set_plugin_user_metadata", "discard_plugin_user_metadata",
                      "discard_all_user_metadata"}
Failing == Loads \cup {"write_user_metadata", "write_minimal_list", "evaluate", "general_messages",
                       "user_general_messages", "groups_path", "plugin_metadata",
                       "plugin_user_metadata"}
MutSelf == {"set_plugin_user_metadata"}

Nobody == "nobody"

ASSUME ThreadsAssumption == Nobody \notin Threads
ASSUME LanguageAssumption == Language \in {"cpp", "node", "python"}
ASSUME CallsAssumption == Calls \subseteq Reads \cup Writes
ASSUME BoundAssumption == MaxCalls \in Nat

VARIABLES at,        \* where each thread is
          call,      \* the method it is in
          parts,     \* the contents of the database, in two places
          seen,      \* what a reader has read of the first
          poisoned,  \* the lock's flag
          gil,       \* the thread that has the Python interpreter
          logging,   \* the threads that Python's logging suspended in a method
          result,    \* what the last call of each thread returned
          made       \* how many calls were made

vars == <<at, call, parts, seen, poisoned, gil, logging, result, made>>

Returned(kind) == [kind |-> kind, first |-> 0, second |-> 0]
ReadOf(a, b) == [kind |-> "read", first |-> a, second |-> b]

Init ==
    /\ at = [t \in Threads |-> "out"]
    /\ call \in [Threads -> Calls]
    /\ parts = <<0, 0>>
    /\ seen = [t \in Threads |-> 0]
    /\ poisoned = FALSE
    /\ gil = Nobody
    /\ logging = {}
    /\ result = [t \in Threads |-> Returned("none")]
    /\ made = 0

-----------------------------------------------------------------------------
(* The interpreter.                                                        *)

Running(t) == Language # "python" \/ gil = t

Attach(t) ==
    /\ Language = "python" /\ gil = Nobody
    /\ at[t] = "out" \/ t \in logging
    /\ gil' = t
    /\ logging' = logging \ {t}
    /\ UNCHANGED <<at, call, parts, seen, poisoned, result, made>>

Detach(t) ==
    /\ gil = t /\ at[t] = "out"
    /\ gil' = Nobody
    /\ UNCHANGED <<at, call, parts, seen, poisoned, logging, result, made>>

\* A message goes to Python's logging, in which another thread may get to run.
Log(t) ==
    /\ gil = t /\ at[t] \in {"in", "half"}
    /\ gil' = Nobody
    /\ logging' = logging \cup {t}
    /\ UNCHANGED <<at, call, parts, seen, poisoned, result, made>>

-----------------------------------------------------------------------------
(* The lock.                                                               *)

Holds(t) == at[t] \in {"in", "half", "leave"}
Writing(t) == Holds(t) /\ call[t] \in Writes

\* Mutant: a method that changes the database only takes the lock to read.
CanLockShared(t) == \A u \in Threads : ~Writing(u)

CanLock(t) ==
    \A u \in Threads : ~Writing(u) /\ (call[t] \in Writes => ~Holds(u))

-----------------------------------------------------------------------------
(* A method.                                                               *)

\* PyO3's check of the object.
CanBorrow(t, c) ==
    Language = "python" =>
        \A u \in Threads \ {t} :
            (at[u] # "out" /\ Handle[u] = Handle[t]) => c \notin MutSelf /\ call[u] \notin MutSelf

Begin(t) == at[t] = "out" /\ Running(t) /\ made < MaxCalls /\ made' = made + 1

Enter(t, c) ==
    /\ Begin(t) /\ CanBorrow(t, c)
    /\ at' = [at EXCEPT ![t] = "wait"]
    /\ call' = [call EXCEPT ![t] = c]
    /\ UNCHANGED <<parts, seen, poisoned, gil, logging, result>>

BorrowError(t, c) ==
    /\ Begin(t) /\ ~CanBorrow(t, c)
    /\ result' = [result EXCEPT ![t] = Returned("refused")]
    /\ UNCHANGED <<at, call, parts, seen, poisoned, gil, logging>>

\* Mutant: who only reads looks at the contents of a poisoned lock all the same.
Lock_reading_poisoned(t) ==
    /\ at[t] = "wait" /\ Running(t) /\ CanLock(t)
    /\ IF poisoned
       THEN /\ at' = [at EXCEPT ![t] = "out"]
            /\ result' = [result EXCEPT ![t] = IF call[t] \in Reads THEN ReadOf(parts[1], parts[2])
                                                                    ELSE Returned("refused")]
       ELSE /\ at' = [at EXCEPT ![t] = "in"]
            /\ UNCHANGED result
    /\ UNCHANGED <<call, parts, seen, poisoned, gil, logging, made>>

Lock(t) ==
    /\ at[t] = "wait" /\ Running(t) /\ CanLock(t)
    /\ IF poisoned
       THEN /\ at' = [at EXCEPT ![t] = "out"]
            /\ result' = [result EXCEPT ![t] = Returned("refused")]
       ELSE /\ at' = [at EXCEPT ![t] = "in"]
            /\ UNCHANGED result
    /\ UNCHANGED <<call, parts, seen, poisoned, gil, logging, made>>

\* Mutant: the interpreter is given up while the method works.
First_detached(t) ==
    /\ at[t] = "in" /\ Running(t)
    /\ at' = [at EXCEPT ![t] = "half"]
    /\ gil' = Nobody
    /\ IF call[t] \in Writes
       THEN parts' = <<parts[1] + 1, parts[2]>> /\ UNCHANGED seen
       ELSE seen' = [seen EXCEPT ![t] = parts[1]] /\ UNCHANGED parts
    /\ UNCHANGED <<call, poisoned, logging, result, made>>

First(t) ==
    /\ at[t] = "in" /\ Running(t)
    /\ at' = [at EXCEPT ![t] = "half"]
    /\ IF call[t] \in Writes
       THEN parts' = <<parts[1] + 1, parts[2]>> /\ UNCHANGED seen
       ELSE seen' = [seen EXCEPT ![t] = parts[1]] /\ UNCHANGED parts
    /\ UNCHANGED <<call, poisoned, gil, logging, result, made>>

Second(t) ==
    /\ at[t] = "half" /\ Running(t)
    /\ at' = [at EXCEPT ![t] = "leave"]
    /\ IF call[t] \in Writes
       THEN parts' = <<parts[1], parts[1]>> /\ result' = [result EXCEPT ![t] = Returned("ok")]
       ELSE result' = [result EXCEPT ![t] = ReadOf(seen[t], parts[2])] /\ UNCHANGED parts
    /\ UNCHANGED <<call, seen, poisoned, gil, logging, made>>

\* Mutant: a list is kept before the checks that may still refuse it.
Fail_after_keeping(t) ==
    /\ at[t] = "half" /\ Running(t) /\ call[t] \in Loads
    /\ at' = [at EXCEPT ![t] = "leave"]
    /\ parts' = <<parts[1], parts[1]>>
    /\ result' = [result EXCEPT ![t] = Returned("refused")]
    /\ UNCHANGED <<call, seen, poisoned, gil, logging, made>>

\* A method that returns an error has changed nothing: a list is parsed before it is kept.
Fail(t) ==
    /\ at[t] = "in" /\ Running(t) /\ call[t] \in Failing
    /\ at' = [at EXCEPT ![t] = "leave"]
    /\ result' = [result EXCEPT ![t] = Returned("refused")]
    /\ UNCHANGED <<call, parts, seen, poisoned, gil, logging, made>>

\* A panic ends a C++ or Node.js program and is an exception to a Python program.
Panic(t) ==
    /\ Language = "python" /\ at[t] \in {"in", "half"} /\ Running(t)
    /\ at' = [at EXCEPT ![t] = "out"]
    /\ poisoned' = (poisoned \/ call[t] \in Writes)
    /\ result' = [result EXCEPT ![t] = Returned("refused")]
    /\ UNCHANGED <<call, parts, seen, gil, logging, made>>

\* Mutant: a method that changes the database keeps the lock's guard.
Leave_keeping_guard(t) ==
    /\ at[t] = "leave" /\ Running(t) /\ call[t] \notin Writes
    /\ at' = [at EXCEPT ![t] = "out"]
    /\ UNCHANGED <<call, parts, seen, poisoned, gil, logging, result, made>>

Leave(t) ==
    /\ at[t] = "leave" /\ Running(t)
    /\ at' = [at EXCEPT ![t] = "out"]
    /\ UNCHANGED <<call, parts, seen, poisoned, gil, logging, result, made>>

Step(t) == Lock(t) \/ First(t) \/ Second(t) \/ Leave(t)

Next ==
    \E t \in Threads :
        \/ Attach(t) \/ Detach(t) \/ Log(t)
        \/ \E c \in Calls : Enter(t, c) \/ BorrowError(t, c)
        \/ Lock(t) \/ First(t) \/ Second(t) \/ Fail(t) \/ Panic(t) \/ Leave(t)

Spec == Init /\ [][Next]_vars

-----------------------------------------------------------------------------
(* Properties.                                                             *)

TypeOK ==
    /\ at \in [Threads -> {"out", "wait", "in", "half", "leave"}]
    /\ call \in [Threads -> Calls]
    /\ parts \in Nat \X Nat
    /\ seen \in [Threads -> Nat]
    /\ poisoned \in BOOLEAN
    /\ gil \in Threads \cup {Nobody}
    /\ logging \subseteq Threads
    /\ made \in Nat

\* Who changes the contents is alone with them, nobody gets at what a panic left
\* behind, and otherwise the parts agree except under a writer that is halfway.
WriterAlone == \A t, u \in Threads : Writing(t) /\ Holds(u) => t = u
PoisonedUnheld == poisoned => \A t \in Threads : ~Holds(t)
PartsAgree ==
    \/ poisoned \/ parts[1] = parts[2]
    \/ \E t \in Threads : Writing(t) /\ at[t] = "half"
ReadersHaveThem ==
    \A t \in Threads : (at[t] = "half" /\ call[t] \notin Writes) => seen[t] = parts[1]
HalfIsOneStep ==
    \A t \in Threads : (Writing(t) /\ at[t] = "half") => parts[1] = parts[2] + 1

LockProtects ==
    TypeOK /\ WriterAlone /\ PoisonedUnheld /\ PartsAgree /\ ReadersHaveThem /\ HalfIsOneStep

\* The lock, held for one statement at a time by each wrapper method, is enough:
\* every call of every thread reads all of the contents at one moment, changes all
\* of them at one moment, or is refused.
Atomic == INSTANCE AtomicDatabase WITH version <- parts[2]
CallsAreAtomic == Atomic!Spec

\* After a panic has left the contents half changed, no method returns them.
PoisonedRefused == [][poisoned => \A t \in Threads : result'[t] # result[t] => result'[t] = Returned("refused")]_vars

\* A Python thread waits for the database's lock with the interpreter in its hands,
\* so nothing that needs the interpreter can end the wait: the wait is for a thread
\* that Python's logging suspended in a method, and for no other.
OnlyLoggersBlock ==
    (gil # Nobody /\ at[gil] = "wait" /\ ~CanLock(gil)) => \E t \in logging : Holds(t)
=============================================================================
