-------------------------------- MODULE Mutex --------------------------------
(***************************************************************************)
(* QBasicMutex and QMutex on a futex, as on Linux:                         *)
(* src/corelib/thread/qmutex.h and qmutex.cpp.                             *)
(*                                                                         *)
(* The mutex is one atomic pointer: null, dummyLocked, or dummyFutexValue  *)
(* when somebody may be waiting.  An atomic operation is a step, as is the *)
(* kernel's comparison and going to sleep.  The module has no Init and     *)
(* Next of its own: RecursiveMutex and WaitCondition build on its steps.   *)
(***************************************************************************)
CONSTANT Thread

VARIABLES
  d_ptr,  \* the atomic pointer
  lock,   \* where a thread stands in a call of lock, tryLock or unlock
  timed   \* timed[t]: the tryLock of t has a timeout

mutex == <<d_ptr, lock, timed>>

\* "store": about to exchange the pointer; "wait": about to call futexWait;
\* "asleep": in it; "wake": has unlocked, and is about to wake a waiter.
LockStates == {"out", "store", "wait", "asleep", "held", "wake"}

MutexTypeOK ==
  /\ d_ptr \in {"null", "dummyLocked", "dummyFutexValue"}
  /\ lock \in [Thread -> LockStates]
  /\ timed \in [Thread -> BOOLEAN]

MutexInit ==
  /\ d_ptr = "null"
  /\ lock = [t \in Thread |-> "out"]
  /\ timed = [t \in Thread |-> FALSE]

LockGoes(t, l) ==
  /\ lock' = [lock EXCEPT ![t] = l]
  /\ timed' = [timed EXCEPT ![t] = @ /\ l \notin {"out", "held"}]

\* fastTryLock, and lockInternal after it.  (A tryLock without timeout that
\* fails changes nothing.)
Lock(t, withTimeout) ==
  /\ lock[t] = "out"
  /\ IF d_ptr = "null"
     THEN /\ d_ptr' = "dummyLocked"
          /\ LockGoes(t, "held")
     ELSE /\ lock' = [lock EXCEPT ![t] = "store"]
          /\ timed' = [timed EXCEPT ![t] = withTimeout]
          /\ UNCHANGED d_ptr

\* fetchAndStoreAcquire(dummyFutexValue()): there may be other threads waiting.
Store(t) ==
  /\ lock[t] = "store"
  /\ d_ptr' = "dummyFutexValue"
  /\ LockGoes(t, IF d_ptr = "null" THEN "held" ELSE "wait")

FutexWait(t) ==
  /\ lock[t] = "wait"
  /\ LockGoes(t, IF d_ptr = "dummyFutexValue" THEN "asleep" ELSE "store")
  /\ UNCHANGED d_ptr

\* A signal ends the futex call.
Interrupt(t) ==
  /\ lock[t] = "asleep"
  /\ LockGoes(t, "store")
  /\ UNCHANGED d_ptr

\* The deadline has passed when the thread sleeps, or after an exchange that
\* found the mutex locked.
Expire(t) ==
  /\ timed[t] /\ lock[t] \in {"wait", "asleep"}
  /\ LockGoes(t, "out")
  /\ UNCHANGED d_ptr

\* unlock(): fetchAndStoreRelease(nullptr)
Unlock(t) ==
  /\ lock[t] = "held"
  /\ d_ptr' = "null"
  /\ LockGoes(t, IF d_ptr = "dummyFutexValue" THEN "wake" ELSE "out")

\* unlockInternalFutex: futexWakeOne
WakeOne(t) ==
  LET asleep == {s \in Thread : lock[s] = "asleep"}
  IN  /\ lock[t] = "wake"
      /\ \/ asleep = {} /\ LockGoes(t, "out")
         \/ \E s \in asleep :
              /\ lock' = [lock EXCEPT ![t] = "out", ![s] = "store"]
              /\ UNCHANGED timed
      /\ UNCHANGED d_ptr

\* What a thread in a call does next.
MutexStep(t) == Store(t) \/ FutexWait(t) \/ WakeOne(t)

\* What may happen to it.
MutexEvent(t) == Interrupt(t) \/ Expire(t)
=============================================================================
