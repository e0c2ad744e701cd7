------------------------ MODULE DatabaseHandleProofs ------------------------
(***************************************************************************)
(* The lock of the database is enough, for any number of threads, calls    *)
(* and wrapper objects and for both languages: LockProtects is inductive,  *)
(* and with it every step of the handle is a step of AtomicDatabase.       *)
(***************************************************************************)
EXTENDS DatabaseHandle, TLAPS

\* The lock is free at first.
LEMMA InitLockProtects == Init => LockProtects
<1> SUFFICES ASSUME Init PROVE LockProtects
  OBVIOUS
<1>1. TypeOK
  BY DEF Init, TypeOK
<1>2. \A t \in Threads : at[t] = "out"
  BY DEF Init
<1>3. WriterAlone /\ PoisonedUnheld /\ ReadersHaveThem /\ HalfIsOneStep
  BY <1>2 DEF WriterAlone, PoisonedUnheld, ReadersHaveThem, HalfIsOneStep, Holds, Writing
<1>4. PartsAgree
  BY DEF Init, PartsAgree
<1> QED
  BY <1>1, <1>3, <1>4 DEF LockProtects

\* No step of any thread breaks what the lock protects.
LEMMA NextLockProtects == LockProtects /\ [Next]_vars => LockProtects'
<1> SUFFICES ASSUME LockProtects, [Next]_vars PROVE LockProtects'
  OBVIOUS
<1> USE DEF LockProtects, Holds, Writing
<1>1. CASE UNCHANGED vars
  BY <1>1 DEF vars, TypeOK, WriterAlone, PoisonedUnheld, PartsAgree, ReadersHaveThem, HalfIsOneStep
<1>2. CASE \E t \in Threads : Attach(t) \/ Detach(t) \/ Log(t)
  <2> PICK t \in Threads : Attach(t) \/ Detach(t) \/ Log(t)
    BY <1>2
  <2>1. TypeOK'
    BY DEF TypeOK, Attach, Detach, Log
  <2> QED
    BY <2>1 DEF Attach, Detach, Log, WriterAlone, PoisonedUnheld, PartsAgree, ReadersHaveThem,
                HalfIsOneStep
<1>3. CASE \E t \in Threads, c \in Calls : Enter(t, c) \/ BorrowError(t, c)
  <2> PICK t \in Threads, c \in Calls : Enter(t, c) \/ BorrowError(t, c)
    BY <1>3
  <2>1. TypeOK'
    BY DEF TypeOK, Enter, BorrowError, Begin
  <2>2. WriterAlone'
    BY DEF TypeOK, Enter, BorrowError, Begin, WriterAlone
  <2>3. PoisonedUnheld'
    BY DEF TypeOK, Enter, BorrowError, Begin, PoisonedUnheld
  <2>4. PartsAgree'
    BY DEF TypeOK, Enter, BorrowError, Begin, PartsAgree
  <2>5. ReadersHaveThem' /\ HalfIsOneStep'
    BY DEF TypeOK, Enter, BorrowError, Begin, ReadersHaveThem, HalfIsOneStep
  <2> QED
    BY <2>1, <2>2, <2>3, <2>4, <2>5
<1>4. CASE \E t \in Threads : Lock(t)
  <2> PICK t \in Threads : Lock(t)
    BY <1>4
  <2>1. TypeOK'
    BY DEF TypeOK, Lock
  <2>2. WriterAlone'
    BY DEF TypeOK, Lock, CanLock, WriterAlone
  <2>3. PoisonedUnheld'
    BY DEF TypeOK, Lock, PoisonedUnheld
  <2>4. PartsAgree'
    BY DEF TypeOK, Lock, PartsAgree
  <2>5. ReadersHaveThem' /\ HalfIsOneStep'
    BY DEF TypeOK, Lock, ReadersHaveThem, HalfIsOneStep
  <2> QED
    BY <2>1, <2>2, <2>3, <2>4, <2>5
<1>5. CASE \E t \in Threads : First(t)
  <2> PICK t \in Threads : First(t)
    BY <1>5
  <2>1. TypeOK'
    BY DEF TypeOK, First
  <2>2. ~poisoned /\ ~poisoned'
    BY DEF TypeOK, First, PoisonedUnheld
  <2>3. WriterAlone'
    BY DEF TypeOK, First, WriterAlone
  <2>4. \A u \in Threads : u # t /\ at[u] = "half" => call[t] \notin Writes /\ call[u] \notin Writes
    BY DEF TypeOK, First, WriterAlone
  <2>5. parts[1] = parts[2]
    BY <2>2, <2>4 DEF TypeOK, First, PartsAgree
  <2>6. PartsAgree'
    BY <2>5 DEF TypeOK, First, PartsAgree
  <2>7. ReadersHaveThem'
    BY <2>4 DEF TypeOK, First, ReadersHaveThem
  <2>8. HalfIsOneStep'
    BY <2>4, <2>5 DEF TypeOK, First, HalfIsOneStep
  <2> QED
    BY <2>1, <2>2, <2>3, <2>6, <2>7, <2>8 DEF PoisonedUnheld
<1>6. CASE \E t \in Threads : Second(t)
  <2> PICK t \in Threads : Second(t)
    BY <1>6
  <2>1. TypeOK'
    BY DEF TypeOK, Second
  <2>2. ~poisoned /\ ~poisoned'
    BY DEF TypeOK, Second, PoisonedUnheld
  <2>3. WriterAlone'
    BY DEF TypeOK, Second, WriterAlone
  <2>4. \A u \in Threads : u # t /\ at[u] = "half" => call[t] \notin Writes /\ call[u] \notin Writes
    BY DEF TypeOK, Second, WriterAlone
  <2>5. PartsAgree'
    BY <2>2, <2>4 DEF TypeOK, Second, PartsAgree
  <2>6. ReadersHaveThem' /\ HalfIsOneStep'
    BY <2>4 DEF TypeOK, Second, ReadersHaveThem, HalfIsOneStep
  <2> QED
    BY <2>1, <2>2, <2>3, <2>5, <2>6 DEF PoisonedUnheld
<1>7. CASE \E t \in Threads : Fail(t) \/ Leave(t)
  <2> PICK t \in Threads : Fail(t) \/ Leave(t)
    BY <1>7
  <2>1. TypeOK'
    BY DEF TypeOK, Fail, Leave
  <2>2. WriterAlone' /\ PoisonedUnheld'
    BY DEF TypeOK, Fail, Leave, WriterAlone, PoisonedUnheld
  <2>3. PartsAgree'
    BY DEF TypeOK, Fail, Leave, PartsAgree
  <2>4. ReadersHaveThem' /\ HalfIsOneStep'
    BY DEF TypeOK, Fail, Leave, ReadersHaveThem, HalfIsOneStep
  <2> QED
    BY <2>1, <2>2, <2>3, <2>4
<1>8. CASE \E t \in Threads : Panic(t)
  <2> PICK t \in Threads : Panic(t)
    BY <1>8
  <2>1. TypeOK'
    BY DEF TypeOK, Panic
  <2>2. ~poisoned
    BY DEF TypeOK, Panic, PoisonedUnheld
  <2>3. WriterAlone'
    BY DEF TypeOK, Panic, WriterAlone
  <2>4. PoisonedUnheld'
    BY <2>2 DEF TypeOK, Panic, WriterAlone, PoisonedUnheld
  <2>5. PartsAgree'
    BY <2>2 DEF TypeOK, Panic, PartsAgree
  <2>6. ReadersHaveThem' /\ HalfIsOneStep'
    BY DEF TypeOK, Panic, ReadersHaveThem, HalfIsOneStep
  <2> QED
    BY <2>1, <2>3, <2>4, <2>5, <2>6
<1> QED
  BY <1>1, <1>2, <1>3, <1>4, <1>5, <1>6, <1>7, <1>8 DEF Next

\* The write guard of one thread excludes the guards of all others, a lock that a
\* panic poisoned is never held again, and the contents agree with themselves except
\* under a writer: the RwLock of every wrapper's Database, in both languages.
THEOREM LockProtectsAlways == Spec => []LockProtects
<1>1. Init => LockProtects
  BY InitLockProtects
<1>2. LockProtects /\ [Next]_vars => LockProtects'
  BY NextLockProtects
<1> QED
  BY <1>1, <1>2, PTL DEF Spec

-----------------------------------------------------------------------------

\* Each step of the handle is a step of the abstract database or leaves it alone.
LEMMA StepIsAtomic ==
    LockProtects /\ [Next]_vars => [Atomic!Next]_(<<parts[2], result>>)
<1> SUFFICES ASSUME LockProtects, [Next]_vars, ~UNCHANGED <<parts[2], result>>
             PROVE  Atomic!Next
  OBVIOUS
<1> USE DEF LockProtects, Holds, Writing
<1>1. PICK t \in Threads :
          \/ \E c \in Calls : BorrowError(t, c)
          \/ Lock(t) \/ First(t) \/ Second(t) \/ Fail(t) \/ Panic(t)
  BY DEF Next, vars, Attach, Detach, Log, Enter, Leave
<1>2. CASE (\E c \in Calls : BorrowError(t, c)) \/ Fail(t) \/ Panic(t)
  <2>1. Atomic!Refuse(t)
    BY <1>2 DEF BorrowError, Fail, Panic, Atomic!Refuse, Atomic!Returned, Returned
  <2> QED
    BY <2>1 DEF Atomic!Next
<1>3. CASE Lock(t)
  <2>1. Atomic!Refuse(t)
    BY <1>3 DEF Lock, Atomic!Refuse, Atomic!Returned, Returned
  <2> QED
    BY <2>1 DEF Atomic!Next
<1>4. CASE First(t)
  BY <1>4 DEF First, TypeOK
<1>5. CASE Second(t) /\ call[t] \in Writes
  <2>1. parts[1] = parts[2] + 1
    BY <1>5 DEF Second, HalfIsOneStep
  <2>2. Atomic!Write(t)
    BY <1>5, <2>1 DEF Second, Atomic!Write, Atomic!Returned, Returned
  <2> QED
    BY <2>2 DEF Atomic!Next
<1>6. CASE Second(t) /\ call[t] \notin Writes
  <2>1. seen[t] = parts[1]
    BY <1>6 DEF Second, ReadersHaveThem
  <2>2. parts[1] = parts[2]
    BY <1>6 DEF Second, PartsAgree, PoisonedUnheld, WriterAlone
  <2>3. Atomic!Read(t)
    BY <1>6, <2>1, <2>2 DEF Second, Atomic!Read, Atomic!ReadOf, ReadOf
  <2> QED
    BY <2>3 DEF Atomic!Next
<1> QED
  BY <1>1, <1>2, <1>3, <1>4, <1>5, <1>6

\* Every call that any thread makes through a wrapper's Database takes effect at one
\* moment or is refused, a panic in the middle of another call included.
THEOREM HandleIsAtomic == Spec => CallsAreAtomic
<1>1. Init => Atomic!Init
  BY DEF Init, Atomic!Init, Atomic!Returned, Returned
<1>2. LockProtects /\ [Next]_vars => [Atomic!Next]_(<<parts[2], result>>)
  BY StepIsAtomic
<1> QED
  BY <1>1, <1>2, LockProtectsAlways, PTL DEF Spec, CallsAreAtomic, Atomic!Spec

\* Once a panic has poisoned the lock, every call that returns returns an error.
THEOREM PoisonedAlwaysRefused == Spec => PoisonedRefused
<1>1. LockProtects /\ [Next]_vars =>
          [poisoned => \A t \in Threads :
              result'[t] # result[t] => result'[t] = Returned("refused")]_vars
  <2> SUFFICES ASSUME LockProtects, Next, poisoned, NEW t \in Threads, result'[t] # result[t]
               PROVE  result'[t] = Returned("refused")
    BY DEF vars
  <2>1. \A u \in Threads : at[u] \notin {"in", "half", "leave"}
    BY DEF LockProtects, PoisonedUnheld, Holds
  <2>2. PICK u \in Threads : (\E c \in Calls : BorrowError(u, c)) \/ Lock(u)
    BY <2>1 DEF Next, Attach, Detach, Log, Enter, First, Second, Fail, Panic, Leave
  <2>3. result' = [result EXCEPT ![u] = Returned("refused")]
    BY <2>2 DEF BorrowError, Lock
  <2> QED
    BY <2>3
<1> QED
  BY <1>1, LockProtectsAlways, PTL DEF Spec, PoisonedRefused

-----------------------------------------------------------------------------

\* Of the Python threads that are in a method, only those that logging suspended
\* are without the interpreter; a C++ program has none.
InterpreterInv ==
    /\ gil # Nobody => Language = "python"
    /\ Language = "python" => \A t \in Threads : at[t] # "out" /\ gil # t => t \in logging

\* No step takes the interpreter from a thread in a method but its own logging.
LEMMA NextInterpreter == LockProtects /\ InterpreterInv /\ [Next]_vars => InterpreterInv'
<1> SUFFICES ASSUME LockProtects, InterpreterInv, [Next]_vars PROVE InterpreterInv'
  OBVIOUS
<1> USE DEF InterpreterInv
<1>1. CASE UNCHANGED vars
  BY <1>1 DEF vars
<1>2. CASE Next
  <2> PICK t \in Threads :
          \/ Attach(t) \/ Detach(t) \/ Log(t)
          \/ \E c \in Calls : Enter(t, c) \/ BorrowError(t, c)
          \/ Lock(t) \/ First(t) \/ Second(t) \/ Fail(t) \/ Panic(t) \/ Leave(t)
    BY <1>2 DEF Next
  <2> USE DEF LockProtects, TypeOK
  <2>1. CASE Attach(t)
    BY <2>1, ThreadsAssumption DEF Attach
  <2>2. CASE Detach(t) \/ Log(t)
    BY <2>2 DEF Detach, Log
  <2>3. CASE \E c \in Calls : Enter(t, c) \/ BorrowError(t, c)
    <3>1. /\ gil' = gil /\ logging' = logging /\ Running(t)
          /\ \A u \in Threads : u # t => at'[u] = at[u]
      BY <2>3 DEF Enter, BorrowError, Begin
    <3> QED
      BY <3>1, LanguageAssumption DEF Running
  <2>4. CASE Lock(t) \/ First(t) \/ Second(t) \/ Fail(t) \/ Panic(t) \/ Leave(t)
    <3>1. /\ gil' = gil /\ logging' = logging /\ Running(t)
          /\ \A u \in Threads : u # t => at'[u] = at[u]
      BY <2>4 DEF Lock, First, Second, Fail, Panic, Leave
    <3> QED
      BY <3>1, LanguageAssumption DEF Running
  <2> QED
    BY <2>1, <2>2, <2>3, <2>4
<1> QED
  BY <1>1, <1>2

\* A Python thread that waits for the database's lock waits for a thread that
\* logging suspended and for no other, however many threads and calls there are.
THEOREM OnlyLoggersEverBlock == Spec => []OnlyLoggersBlock
<1>1. Init => InterpreterInv
  BY DEF Init, InterpreterInv
<1>2. LockProtects /\ InterpreterInv /\ [Next]_vars => InterpreterInv'
  BY NextInterpreter
<1>3. LockProtects /\ InterpreterInv => OnlyLoggersBlock
  <2> SUFFICES ASSUME LockProtects, InterpreterInv, gil # Nobody, at[gil] = "wait", ~CanLock(gil)
               PROVE  \E t \in logging : Holds(t)
    BY DEF OnlyLoggersBlock
  <2>1. PICK u \in Threads : Holds(u)
    BY DEF CanLock, Writing
  <2>2. u # gil /\ at[u] # "out"
    BY <2>1 DEF Holds
  <2>3. u \in logging
    BY <2>2 DEF InterpreterInv
  <2> QED
    BY <2>1, <2>3
<1> QED
  BY <1>1, <1>2, <1>3, LockProtectsAlways, PTL DEF Spec
=============================================================================
