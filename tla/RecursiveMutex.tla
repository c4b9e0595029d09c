--------------------------- MODULE RecursiveMutex ---------------------------
(***************************************************************************)
(* QRecursiveMutex, src/corelib/thread/qmutex.cpp: an owner and a count    *)
(* around a QMutex.  The owner is read by any thread at any time; it is    *)
(* written after the mutex was locked and before it is unlocked.           *)
(***************************************************************************)
EXTENDS Mutex, Naturals

CONSTANTS
  Nobody,   \* no owner
  MaxDepth  \* bound: calls of lock that a thread has outstanding

VARIABLES
  owner,  \* QRecursiveMutex::owner
  count,  \* QRecursiveMutex::count
  at,     \* where a thread stands in tryLock or unlock
  depth   \* history: lock calls of the thread that it has not undone

vars == <<mutex, owner, count, at, depth>>

\* "locking": in the QMutex; "locked": about to store the owner; "cleared": has
\* cleared it and not yet unlocked.
Init ==
  /\ MutexInit
  /\ owner = Nobody /\ count = 0
  /\ at = [t \in Thread |-> "idle"]
  /\ depth = [t \in Thread |-> 0]

\* tryLock of the thread that has the mutex already
LockAgain(t) ==
  /\ at[t] = "idle" /\ owner = t
  /\ depth[t] < MaxDepth
  /\ count' = count + 1
  /\ depth' = [depth EXCEPT ![t] = @ + 1]
  /\ UNCHANGED <<mutex, owner, at>>

LockFirst(t, withTimeout) ==
  /\ at[t] = "idle" /\ owner # t
  /\ at' = [at EXCEPT ![t] = "locking"]
  /\ Lock(t, withTimeout)
  /\ UNCHANGED <<owner, count, depth>>

\* The QMutex is locked, or its deadline has passed.
Locked(t) ==
  /\ at[t] = "locking"
  /\ \/ /\ lock[t] = "held"
        /\ owner' = t
        /\ depth' = [depth EXCEPT ![t] = 1]
     \/ /\ lock[t] = "out"
        /\ UNCHANGED <<owner, depth>>
  /\ at' = [at EXCEPT ![t] = "idle"]
  /\ UNCHANGED <<mutex, count>>

\* unlock() of a thread that has the mutex
UnlockInner(t) ==
  /\ at[t] = "idle" /\ depth[t] > 0
  /\ count > 0
  /\ count' = count - 1
  /\ depth' = [depth EXCEPT ![t] = @ - 1]
  /\ UNCHANGED <<mutex, owner, at>>

\* Fault: the mutex is unlocked before the owner is cleared.
UnlockThenClear(t) ==
  \/ /\ at[t] = "idle" /\ depth[t] > 0 /\ count = 0 /\ lock[t] = "held"
     /\ Unlock(t)
     /\ at' = [at EXCEPT ![t] = "unlocking"]
     /\ UNCHANGED <<owner, count, depth>>
  \/ /\ at[t] = "unlocking" /\ lock[t] = "out" /\ depth[t] > 0
     /\ owner' = Nobody
     /\ at' = [at EXCEPT ![t] = "idle"]
     /\ depth' = [depth EXCEPT ![t] = 0]
     /\ UNCHANGED <<mutex, count>>

UnlockOuter(t) ==
  \/ /\ at[t] = "idle" /\ depth[t] > 0 /\ count = 0
     /\ owner' = Nobody
     /\ depth' = [depth EXCEPT ![t] = 0]
     /\ at' = [at EXCEPT ![t] = "cleared"]
     /\ UNCHANGED <<mutex, count>>
  \/ /\ at[t] = "cleared"
     /\ Unlock(t)
     /\ at' = [at EXCEPT ![t] = "unlocking"]
     /\ UNCHANGED <<owner, count, depth>>

Unlocked(t) ==
  /\ at[t] = "unlocking" /\ lock[t] = "out" /\ depth[t] = 0
  /\ at' = [at EXCEPT ![t] = "idle"]
  /\ UNCHANGED <<mutex, owner, count, depth>>

\* A step inside the QMutex.
Inside(t) == MutexStep(t) /\ UNCHANGED <<owner, count, at, depth>>

Step(t) ==
  \/ Inside(t) \/ Locked(t) \/ Unlocked(t)
  \/ UnlockInner(t) \/ UnlockOuter(t)

Next ==
  \E t \in Thread :
    \/ LockAgain(t) \/ \E withTimeout \in BOOLEAN : LockFirst(t, withTimeout)
    \/ Step(t)
    \/ MutexEvent(t) /\ UNCHANGED <<owner, count, at, depth>>

Spec == Init /\ [][Next]_vars
-----------------------------------------------------------------------------
\* One thread at a time is inside, it is the owner, and the count is what is
\* left of its locks; nobody sleeps on a mutex that is unlocked unless a wake is
\* due, so that a thread that times out takes no wake away from another.
OneIsInside == \A s, t \in Thread : lock[s] = "held" /\ lock[t] = "held" => s = t

SleepersAreNoticed ==
  (\E t \in Thread : lock[t] = "asleep") /\ d_ptr # "dummyFutexValue"
    => \E t \in Thread : lock[t] \in {"wake", "store"}

OwnerIsInside ==
  /\ MutexTypeOK /\ OneIsInside /\ SleepersAreNoticed
  /\ \A t \in Thread : depth[t] > 0 <=> owner = t
  /\ \A t \in Thread : owner = t => lock[t] = "held" /\ depth[t] = count + 1
  /\ owner = Nobody => count = 0
=============================================================================
