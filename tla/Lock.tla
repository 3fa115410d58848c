--------------------------------- MODULE Lock ---------------------------------
(***************************************************************************)
(* The reader-writer spin lock of src/Core/Lock.cpp, with which every      *)
(* other shared structure of the program is protected.  Its state is one   *)
(* 32-bit word, the id of the writing thread above the number of readers,  *)
(* and a plain 16-bit counter that only the writing thread touches.        *)
(*                                                                         *)
(* Threads use it through ReadLockGuard and WriteLockGuard, so they give   *)
(* their locks back in the opposite order.  A step is one access to        *)
(* _lockFlag or to _writeCount.                                            *)
(***************************************************************************)
EXTENDS Integers, Sequences, FiniteSets

CONSTANTS
    Threads,        \* LThreadID of the threads; ThreadManager gives them from 1 up
    MaxCount,       \* READ_COUNT_MASK, the largest value of a 16-bit half
    Scopes          \* the ways the guards of one thread may be nested, outermost first

ASSUME ThreadIds == Threads \subseteq Nat \ {0} /\ IsFiniteSet(Threads)
ASSUME MaxCountIsNumber == MaxCount \in Nat
ASSUME ScopesOfGuards == Scopes \subseteq Seq({"read", "write"})
\* A guard is constructed inside those before it.
ASSUME ScopesNest == /\ <<>> \in Scopes
                     /\ \A s \in Scopes : s # <<>> => SubSeq(s, 1, Len(s) - 1) \in Scopes
\* The writing thread gives its read locks back before a write lock, as WriteUnlock
\* requires.
ASSUME ReadsAreInnermost ==
    \A s \in Scopes : \A i, k \in DOMAIN s : s[1] = "write" /\ s[i] = "read" /\ s[k] = "write" => k < i
\* The guards that hold the lock in some way, if the threads have nested them so;
\* there are never more of them than a 16-bit half counts.
GuardsIn(nested, kind) == UNION {{t} \X {i \in DOMAIN nested[t] : nested[t][i] = kind} : t \in Threads}
ASSUME CountsFit == \A nested \in [Threads -> Scopes], kind \in {"read", "write"} :
                        Cardinality(GuardsIn(nested, kind)) <= MaxCount

VARIABLES
    lockFlag,       \* _lockFlag: its upper half and its lower half
    writeCount,     \* _writeCount
    guards,         \* guards[t]: the guards t has constructed, outermost first
    at,             \* at[t]: where t is in an operation of the Lock
    expected,       \* expected[t]: the local of ReadLock
    crashed         \* the argument of the CRASH that ended the process

vars == <<lockFlag, writeCount, guards, at, expected, crashed>>

Places == {"run", "spinWrite", "count", "addRead", "loadRead", "casRead", "uncount", "release"}

Flag(owner, count) == [owner |-> owner, count |-> count]
EMPTY_FLAG == Flag(0, 0)

\* The word plus one and minus one: a full lower half carries into the owner.
Plus1(f) == IF f.count = MaxCount THEN Flag(f.owner + 1, 0) ELSE Flag(f.owner, f.count + 1)
Minus1(f) == IF f.count = 0 THEN Flag(f.owner - 1, MaxCount) ELSE Flag(f.owner, f.count - 1)

Goto(t, place) == at' = [at EXCEPT ![t] = place]
Opened(t, kind) == guards' = [guards EXCEPT ![t] = Append(@, kind)]
Innermost(t) == guards[t][Len(guards[t])]
Closed(t) == guards' = [guards EXCEPT ![t] = SubSeq(@, 1, Len(@) - 1)]
CRASH(cause) == crashed' = cause

Init == /\ lockFlag = EMPTY_FLAG
        /\ writeCount = 0
        /\ guards = [t \in Threads |-> <<>>]
        /\ at = [t \in Threads |-> "run"]
        /\ expected = [t \in Threads |-> 0]
        /\ crashed = "no"

\* WriteLock: a thread that holds the lock for writing only counts once more.
WriteLock(t) ==
    /\ at[t] = "run" /\ Append(guards[t], "write") \in Scopes
    /\ Goto(t, IF lockFlag.owner = t THEN "count" ELSE "spinWrite")
    /\ UNCHANGED <<lockFlag, writeCount, guards, expected, crashed>>

\* The value compare_exchange expects; a fault looks at the owner alone.
NoWriter == lockFlag.owner = 0
Free == lockFlag = EMPTY_FLAG

\* WriteLock: a compare_exchange_strong that succeeds ("nobody owns or shares").
CasWrite(t) ==
    /\ at[t] = "spinWrite" /\ Free
    /\ lockFlag' = Flag(t, 0)
    /\ Goto(t, "count")
    /\ UNCHANGED <<writeCount, guards, expected, crashed>>

\* WriteLock: _writeCount++, and it returns.
CountWrite(t) ==
    /\ at[t] = "count"
    /\ writeCount' = (writeCount + 1) % (MaxCount + 1)
    /\ Opened(t, "write")
    /\ Goto(t, "run")
    /\ UNCHANGED <<lockFlag, expected, crashed>>

\* ReadLock: the writing thread may also read.
ReadLock(t) ==
    /\ at[t] = "run" /\ Append(guards[t], "read") \in Scopes
    /\ Goto(t, IF lockFlag.owner = t THEN "addRead" ELSE "loadRead")
    /\ UNCHANGED <<lockFlag, writeCount, guards, expected, crashed>>

\* ReadLock of the writing thread: fetch_add(1).
AddRead(t) ==
    /\ at[t] = "addRead"
    /\ lockFlag' = Plus1(lockFlag)
    /\ Opened(t, "read")
    /\ Goto(t, "run")
    /\ UNCHANGED <<writeCount, expected, crashed>>

\* What ReadLock expects of the word it has loaded: a count without an owner.
ExpectUnowned(count) == lockFlag = Flag(0, count)

\* ReadLock: expected = _lockFlag.load() & READ_COUNT_MASK.
LoadRead(t) ==
    /\ at[t] = "loadRead"
    /\ expected' = [expected EXCEPT ![t] = lockFlag.count]
    /\ Goto(t, "casRead")
    /\ UNCHANGED <<lockFlag, writeCount, guards, crashed>>

\* ReadLock: compare_exchange_strong, which succeeds and returns ...
CasRead(t) ==
    /\ at[t] = "casRead" /\ ExpectUnowned(expected[t])
    /\ lockFlag' = Plus1(lockFlag)
    /\ Opened(t, "read")
    /\ Goto(t, "run")
    /\ UNCHANGED <<writeCount, expected, crashed>>

\* ... or fails and spins.
RetryRead(t) ==
    /\ at[t] = "casRead" /\ ~ExpectUnowned(expected[t])
    /\ Goto(t, "loadRead")
    /\ UNCHANGED <<lockFlag, writeCount, guards, expected, crashed>>

\* WriteUnlock: not before every ReadLock is given back.
WriteUnlock(t) ==
    /\ at[t] = "run" /\ guards[t] # <<>> /\ Innermost(t) = "write"
    /\ \/ lockFlag.count = 0 /\ Goto(t, "uncount") /\ UNCHANGED crashed
       \/ lockFlag.count # 0 /\ CRASH("INVALID_UNLOCK_ORDER") /\ UNCHANGED at
    /\ UNCHANGED <<lockFlag, writeCount, guards, expected>>

\* The outermost WriteUnlock empties the word; two faults: every one does, none does.
Always(count) == TRUE
Never(count) == FALSE
Outermost(count) == count = 0

\* WriteUnlock: --_writeCount.
UncountWrite(t) ==
    /\ at[t] = "uncount"
    /\ writeCount' = (writeCount - 1) % (MaxCount + 1)
    /\ \/ Outermost(writeCount') /\ Goto(t, "release") /\ UNCHANGED guards
       \/ ~Outermost(writeCount') /\ Closed(t) /\ Goto(t, "run")
    /\ UNCHANGED <<lockFlag, expected, crashed>>

\* WriteUnlock: _lockFlag.store(EMPTY_FLAG).
Release(t) ==
    /\ at[t] = "release"
    /\ lockFlag' = EMPTY_FLAG
    /\ Closed(t)
    /\ Goto(t, "run")
    /\ UNCHANGED <<writeCount, expected, crashed>>

\* ReadUnlock: fetch_sub(1), and the check of the value it returns.
ReadUnlock(t) ==
    /\ at[t] = "run" /\ guards[t] # <<>> /\ Innermost(t) = "read"
    /\ lockFlag' = Minus1(lockFlag)
    /\ \/ lockFlag.count # 0 /\ Closed(t) /\ UNCHANGED crashed
       \/ lockFlag.count = 0 /\ CRASH("MULTIPLE_UNLOCK") /\ UNCHANGED guards
    /\ UNCHANGED <<writeCount, at, expected>>

\* WriteLock and ReadLock: ACQUIRE_TIMEOUT_TICK has passed while spinning.
TimeOut(t) ==
    /\ at[t] \in {"spinWrite", "loadRead"}
    /\ CRASH("LOCK_TIMEOUT")
    /\ UNCHANGED <<lockFlag, writeCount, guards, at, expected>>

Acquire(t) == \/ CasWrite(t) \/ CountWrite(t)
              \/ AddRead(t) \/ LoadRead(t) \/ CasRead(t) \/ RetryRead(t)
Unlock(t) == WriteUnlock(t) \/ UncountWrite(t) \/ Release(t) \/ ReadUnlock(t)
Step(t) == WriteLock(t) \/ ReadLock(t) \/ Acquire(t) \/ Unlock(t) \/ TimeOut(t)

Next == crashed = "no" /\ \E t \in Threads : Step(t)

Spec == Init /\ [][Next]_vars
(***************************************************************************)
(* Fairness: every thread runs; the scope of a guard ends, even if others  *)
(* come and go inside it; and a thread that spins runs at some of the      *)
(* moments the word is empty.                                              *)
(***************************************************************************)
Depths == {Len(s) : s \in Scopes} \ {0}
Running(A) == crashed = "no" /\ A
Fairness == \A t \in Threads : /\ WF_vars(Running(Acquire(t)))
                               /\ WF_vars(Running(Unlock(t)))
                               /\ \A n \in Depths : SF_vars(Running(Unlock(t) /\ Len(guards[t]) = n))
                               /\ SF_vars(Running(CasWrite(t)))

LiveSpec == Spec /\ Fairness

-----------------------------------------------------------------------------

\* The variables have their types.
TypeOK ==
    /\ lockFlag \in [owner : Threads \cup {0}, count : 0..MaxCount]
    /\ writeCount \in 0..MaxCount
    /\ guards \in [Threads -> Scopes]
    /\ at \in [Threads -> Places]
    /\ expected \in [Threads -> 0..MaxCount]
    /\ crashed \in {"no", "LOCK_TIMEOUT", "INVALID_UNLOCK_ORDER", "MULTIPLE_UNLOCK"}

Guards(t, kind) == {i \in DOMAIN guards[t] : guards[t][i] = kind}
Writes(t) == Guards(t, "write") # {}

\* Write locks exclude each other and every reader but the writer itself: what
\* the guarded sections of the whole program rely on.
WriterExcludes ==
    \A t, u \in Threads : t # u /\ Writes(t) => guards[u] = <<>>

\* Where a thread owns the word: from its compare_exchange to its last store.
Owns(t) == Writes(t) \/ at[t] = "count"

\* The guards that hold a count of _lockFlag's lower half.
ReadGuards == GuardsIn(guards, "read")

\* The word says exactly who holds the lock and how many readers there are, so
\* that the lock is free again when the last guard is gone.
FlagIsExact ==
    /\ lockFlag.count = Cardinality(ReadGuards)
    /\ \A t \in Threads : lockFlag.owner = t <=> Owns(t)

\* _writeCount is a plain variable: no two threads are at its increment or
\* decrement together, and it counts the guards of the writer.
WriteCountIsPrivate ==
    /\ \A t, u \in Threads : at[t] \in {"count", "uncount"} /\ at[u] \in {"count", "uncount"} => t = u
    /\ \A t \in Threads :
          Owns(t) => writeCount = Cardinality(Guards(t, "write")) - (IF at[t] = "release" THEN 1 ELSE 0)

\* Where a thread that has passed a test still finds what it tested.
TestsHold ==
    \A t \in Threads :
        /\ at[t] = "addRead" => Writes(t)
        /\ at[t] \in {"uncount", "release"} =>
              guards[t] # <<>> /\ Innermost(t) = "write" /\ lockFlag.count = 0
        /\ at[t] = "release" => Len(guards[t]) = 1

\* A thread that acquires the lock does so for a guard of one of the scopes.
AcquiresForScope ==
    \A t \in Threads :
        /\ at[t] \in {"spinWrite", "count"} => Append(guards[t], "write") \in Scopes
        /\ at[t] \in {"addRead", "loadRead", "casRead"} => Append(guards[t], "read") \in Scopes

\* Who owns the word does so alone: no other thread has a guard, its own outermost
\* guard is the one it wrote its id for; and when nobody does, nothing is counted.
OwnsAlone ==
    /\ \A t \in Threads : Owns(t) => /\ \A u \in Threads \ {t} : guards[u] = <<>>
                                     /\ guards[t] # <<>> => guards[t][1] = "write"
    /\ lockFlag.owner = 0 => writeCount = 0

\* What every step preserves: the types, and that the word, the counter, the
\* guards and the places of the threads agree.
IndInv == /\ TypeOK /\ FlagIsExact /\ WriteCountIsPrivate /\ TestsHold
          /\ AcquiresForScope /\ OwnsAlone

\* Scoped guards never run into the two CRASHes of the unlock operations.
OnlyTimeOuts == crashed \in {"no", "LOCK_TIMEOUT"}

\* As long as no acquisition times out, a thread that spins for the write lock
\* gets it, unless readers come and go so that there is always one.
GetsLock ==
    [](crashed = "no") /\ []<>(lockFlag.count = 0)
        => \A t \in Threads : at[t] = "spinWrite" ~> at[t] = "count"
=============================================================================
