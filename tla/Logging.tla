------------------------------ MODULE Logging ------------------------------
(***************************************************************************)
(* logging.rs: the global logger, which every thread of the program and    *)
(* every worker thread that load_plugins starts reads, and which the       *)
(* program may change at any time; with the sinks that the C++ and Python  *)
(* wrappers put behind it.                                                 *)
(*                                                                         *)
(* A thread runs a program, a sequence of operations: it logs a message,   *)
(* sets the callback or the level, or waits for the workers.  A callback   *)
(* is plain, panics when it is called, or panics when it is dropped.       *)
(***************************************************************************)
EXTENDS Integers, Sequences, FiniteSets, Functions

CONSTANTS Threads, Workers,     \* Workers \subseteq Threads
          Caller,               \* the thread that calls load_plugins
          Programs,             \* the sets of programs that may be run
          Behaviour,            \* callback -> "plain", "panics", "drop_panics"
          Sink,                 \* "rust", "cpp" or "python"
          PythonLevel           \* the level of Python's own logger

VARIABLES program,              \* thread -> its operations
          next,                 \* thread -> the operation it is at
          at,                   \* thread -> its place in that operation
          callback, level,      \* the Logger
          writer, readers, waiting, poisoned,   \* its RwLock
          running,              \* thread -> the callback that it is running
          delivered,            \* thread -> how many messages a callback was given
          mutex,                \* cpp: the mutex around the context pointer
          stored,               \* cpp: STORED_CALLBACK
          assigning,            \* cpp: the threads that are assigning it
          raced,                \* cpp: it was used while it was assigned
          gil                   \* python: the thread that is attached

lockVars == <<writer, readers, waiting, poisoned>>
cppVars == <<mutex, stored, assigning, raced>>
vars == <<program, next, at, callback, level, lockVars, running, delivered, cppVars, gil>>

None == "none"
NoOp == "no_op"                 \* the callback that LOGGER starts with
Forward == "forward"            \* cpp: the one that calls STORED_CALLBACK
Trace == 0
Error == 4

Init ==
    /\ program \in Programs
    /\ next = [t \in Threads |-> 1]
    /\ at = [t \in Threads |-> "start"]
    /\ callback = NoOp
    /\ level = Trace
    /\ writer = None /\ readers = {} /\ waiting = {} /\ poisoned = FALSE
    /\ running = [t \in Threads |-> None]
    /\ delivered = [t \in Threads |-> 0]
    /\ mutex = None
    /\ stored = NoOp
    /\ assigning = {}
    /\ raced = FALSE
    /\ gil = IF Sink = "python" THEN Caller ELSE None

Ended(t) == next[t] > Len(program[t])
Op(t) == program[t][next[t]]
Doing(t, ops, place) == ~Ended(t) /\ Op(t).op \in ops /\ at[t] = place

Goto(t, place) == at' = [at EXCEPT ![t] = place] /\ UNCHANGED next

\* A thread that ends gives up the GIL: a Python call returns.
Advance(t, n) ==
    /\ next' = [next EXCEPT ![t] = n]
    /\ at' = [at EXCEPT ![t] = "start"]
    /\ gil' = IF n > Len(program[t]) /\ gil = t THEN None ELSE gil

Done(t) == Advance(t, next[t] + 1)
Unwind(t) == Advance(t, Len(program[t]) + 1)

-----------------------------------------------------------------------------
(* log!                                                                    *)

\* log::log!, which the Python wrapper forwards to Python's logging: the thread
\* has to attach to the interpreter for a message that the logger wants.
LogCrate(t) ==
    /\ Doing(t, {"log"}, "start")
    /\ Sink = "python" /\ Op(t).level >= PythonLevel => gil \in {None, t}
    /\ Goto(t, "lock")
    /\ UNCHANGED <<program, callback, level, lockVars, running, delivered, cppVars, gil>>

\* A reader waits for a writer, and for one that is already waiting.
CanRead == writer = None /\ waiting = {}

\* Mutant: the callback is copied and called once the lock has been released.
log_unlocked(t) ==
    /\ Doing(t, {"log"}, "lock") /\ CanRead
    /\ poisoned' = FALSE
    /\ running' = [running EXCEPT ![t] = callback]
    /\ Goto(t, IF Op(t).level >= level THEN "call" ELSE "unlock")
    /\ UNCHANGED <<program, callback, level, writer, readers, waiting, delivered, cppVars, gil>>

\* Mutant: a message is dropped if the lock is poisoned.
log_if_ok(t) ==
    /\ Doing(t, {"log"}, "lock") /\ CanRead
    /\ readers' = readers \cup {t}
    /\ Goto(t, IF Op(t).level >= level /\ ~poisoned THEN "call" ELSE "unlock")
    /\ UNCHANGED <<program, callback, level, writer, waiting, poisoned, running, delivered, cppVars, gil>>

\* LOGGER.read(), which also clears poison, and Logger::log.
log(t) ==
    /\ Doing(t, {"log"}, "lock") /\ CanRead
    /\ readers' = readers \cup {t}
    /\ poisoned' = FALSE
    /\ Goto(t, IF Op(t).level >= level THEN "call" ELSE "unlock")
    /\ UNCHANGED <<program, callback, level, writer, waiting, running, delivered, cppVars, gil>>

\* Callbacks that may be called: STORED_CALLBACK is the old or the new one while it
\* is assigned.
Called ==
    IF callback # Forward THEN {callback}
    ELSE {stored} \cup {Op(u).callback : u \in assigning}

\* The callback is called with the read lock held; the C++ wrapper's also locks
\* the mutex around its context.
Call(t) ==
    /\ Doing(t, {"log"}, "call")
    /\ callback = Forward => mutex = None
    /\ mutex' = IF callback = Forward THEN t ELSE mutex
    /\ \E c \in Called : running' = [running EXCEPT ![t] = IF @ = None THEN c ELSE @]
    /\ raced' = (raced \/ (callback = Forward /\ assigning # {}))
    /\ Goto(t, "return")
    /\ UNCHANGED <<program, callback, level, lockVars, delivered, stored, assigning, gil>>

\* Mutant: the mutex stays locked when a C++ callback throws.
Return_throwing(t) ==
    /\ Doing(t, {"log"}, "return")
    /\ delivered' = [delivered EXCEPT ![t] = @ + 1]
    /\ running' = [running EXCEPT ![t] = None]
    /\ mutex' = IF mutex = t /\ (running[t] = NoOp \/ Behaviour[running[t]] # "panics") THEN None ELSE mutex
    /\ Goto(t, "unlock")
    /\ UNCHANGED <<program, callback, level, lockVars, stored, assigning, raced, gil>>

\* A C++ callback may throw, which goes no further than loggingCallback; a Rust
\* one may panic, which ends the thread and does not poison a lock held to read.
Return(t) ==
    /\ Doing(t, {"log"}, "return")
    /\ delivered' = [delivered EXCEPT ![t] = @ + 1]
    /\ running' = [running EXCEPT ![t] = None]
    /\ mutex' = IF mutex = t THEN None ELSE mutex
    /\ IF Sink # "cpp" /\ running[t] # NoOp /\ Behaviour[running[t]] = "panics"
       THEN Unwind(t) /\ readers' = readers \ {t}
       ELSE Goto(t, "unlock") /\ UNCHANGED <<readers, gil>>
    /\ UNCHANGED <<program, callback, level, writer, waiting, poisoned, stored, assigning, raced>>

\* Mutant: is_log_enabled is called while the logger is still locked.
Unlock_rechecking(t) ==
    /\ Doing(t, {"log"}, "unlock")
    /\ CanRead
    /\ readers' = readers \ {t}
    /\ Done(t)
    /\ UNCHANGED <<program, callback, level, writer, waiting, poisoned, running, delivered, cppVars>>

Unlock(t) ==
    /\ Doing(t, {"log"}, "unlock")
    /\ readers' = readers \ {t}
    /\ Done(t)
    /\ UNCHANGED <<program, callback, level, writer, waiting, poisoned, running, delivered, cppVars>>

\* is_log_enabled: a read of the level, which clears poison as log! does.
is_log_enabled(t) ==
    /\ Doing(t, {"is_log_enabled"}, "start") /\ CanRead
    /\ poisoned' = FALSE
    /\ Done(t)
    /\ UNCHANGED <<program, callback, level, writer, readers, waiting, running, delivered, cppVars>>

-----------------------------------------------------------------------------
(* set_logging_callback and set_log_level.                                 *)

Setters == {"set_callback", "set_level"}

\* SetLoggingCallback assigns STORED_CALLBACK without a lock.  A thread that calls
\* it, or assigns it, at the same time is a data race.
AssignStoredCallback(t) ==
    /\ Sink = "cpp" /\ Doing(t, {"set_callback"}, "start")
    /\ assigning' = assigning \cup {t}
    /\ raced' = (raced \/ assigning # {} \/ mutex # None)
    /\ Goto(t, "assign")
    /\ UNCHANGED <<program, callback, level, lockVars, running, delivered, mutex, stored, gil>>

StoredCallbackAssigned(t) ==
    /\ Doing(t, {"set_callback"}, "assign")
    /\ assigning' = assigning \ {t}
    /\ stored' = Op(t).callback
    /\ Goto(t, "assigned")
    /\ UNCHANGED <<program, callback, level, lockVars, running, delivered, mutex, raced, gil>>

\* After a data race the process may go on or end.
Crash ==
    /\ raced
    /\ next' = [t \in Threads |-> Len(program[t]) + 1]
    /\ at' = [t \in Threads |-> "start"]
    /\ UNCHANGED <<program, callback, level, lockVars, running, delivered, cppVars, gil>>

AtLock(t) ==
    \/ Doing(t, {"set_level"}, "start")
    \/ Doing(t, {"set_callback"}, IF Sink = "cpp" THEN "assigned" ELSE "start")

Wait(t) ==
    /\ AtLock(t) /\ (writer # None \/ readers # {})
    /\ t \notin waiting
    /\ waiting' = waiting \cup {t}
    /\ UNCHANGED <<program, next, at, callback, level, writer, readers, poisoned, running, delivered, cppVars, gil>>

WriteLock(t) ==
    /\ AtLock(t) /\ writer = None /\ readers = {}
    /\ writer' = t
    /\ waiting' = waiting \ {t}
    /\ Goto(t, "set")
    /\ UNCHANGED <<program, callback, level, readers, poisoned, running, delivered, cppVars, gil>>

\* The old callback is dropped under the write lock: if that panics, the new one is
\* in place all the same and the lock is poisoned.
DropPanics == callback \notin {NoOp, Forward} /\ Behaviour[callback] = "drop_panics"

\* The C++ wrapper's callback is always the one that calls STORED_CALLBACK.
set_logging_callback(t) ==
    /\ Doing(t, {"set_callback"}, "set")
    /\ callback' = IF Sink = "cpp" THEN Forward ELSE Op(t).callback
    /\ writer' = None
    /\ poisoned' = (poisoned \/ DropPanics)
    /\ IF DropPanics THEN Unwind(t)
       ELSE IF poisoned THEN Goto(t, "clear_poison") /\ UNCHANGED gil ELSE Done(t)
    /\ UNCHANGED <<program, level, readers, waiting, running, delivered, cppVars>>

set_log_level(t) ==
    /\ Doing(t, {"set_level"}, "set")
    /\ level' = Op(t).level
    /\ writer' = None
    /\ IF poisoned THEN Goto(t, "clear_poison") /\ UNCHANGED gil ELSE Done(t)
    /\ UNCHANGED <<program, callback, readers, waiting, poisoned, running, delivered, cppVars>>

clear_poison(t) ==
    /\ Doing(t, Setters, "clear_poison")
    /\ poisoned' = FALSE
    /\ Done(t)
    /\ UNCHANGED <<program, callback, level, writer, readers, waiting, running, delivered, cppVars>>

\* load_plugins waits for the workers of its parallel iterator.
Join(t) ==
    /\ Doing(t, {"join"}, "start")
    /\ \A w \in Workers : Ended(w)
    /\ Done(t)
    /\ UNCHANGED <<program, callback, level, lockVars, running, delivered, cppVars>>

Step(t) ==
    \/ LogCrate(t) \/ log(t) \/ Call(t) \/ Return(t) \/ Unlock(t) \/ is_log_enabled(t)
    \/ AssignStoredCallback(t) \/ StoredCallbackAssigned(t)
    \/ Wait(t) \/ WriteLock(t) \/ set_logging_callback(t) \/ set_log_level(t) \/ clear_poison(t)
    \/ Join(t)

Next == (\E t \in Threads : Step(t)) \/ Crash

Spec == Init /\ [][Next]_vars

-----------------------------------------------------------------------------
(* Properties.                                                             *)

\* A callback that runs is the one that is set: once set_logging_callback has
\* returned, no thread is in or enters the old callback, so its captured state may
\* go.  It is not so in C++, where STORED_CALLBACK changes beforehand.
CallbackInForce ==
    \A t \in Threads : running[t] # None => running[t] = callback

\* A message that a callback is given is at least of the level that is set.
LevelInForce ==
    \A t \in Threads : running[t] # None => Op(t).level >= level

ErrorsLogged(t) ==
    Cardinality({i \in 1..(next[t] - 1) : program[t][i].op = "log" /\ program[t][i].level = Error})

CallbacksSet == {o.callback : o \in {p \in UNION {Range(program[t]) : t \in Threads} : p.op = "set_callback"}}

\* No message of the highest level is lost, also not after a panic has poisoned
\* the lock: a worker has run as many callbacks as it has logged errors, unless a
\* callback ended it with a panic.
ErrorsDelivered ==
    (\A c \in CallbacksSet : Behaviour[c] # "panics") =>
        \A w \in Workers : delivered[w] >= ErrorsLogged(w)
=============================================================================
