----------------------------- MODULE LocksProofs -----------------------------
(***************************************************************************)
(* What the locks of one word promise: a recursive mutex, a latch, and a   *)
(* wait condition with its mutex, for any number of threads.               *)
(***************************************************************************)
EXTENDS Locks, Integers, FiniteSetTheorems, TLAPS

-----------------------------------------------------------------------------
\* The recursive mutex.  The first lemmas are about the mutex below, whose
\* steps keep MutexInv wherever they are taken.

\* The pointer is null when nobody holds the mutex, and only then.
PointerIsTrue == mutex = "null" <=> \A t \in Thread : lock[t] # "held"

MutexInv == R!MutexTypeOK /\ R!OneIsInside /\ R!SleepersAreNoticed /\ PointerIsTrue

\* Lock and Unlock are the only steps that need a caller.
AnyMutexStep(t) ==
  \/ \E withTimeout \in BOOLEAN : R!Lock(t, withTimeout)
  \/ R!Unlock(t) \/ R!MutexStep(t) \/ R!MutexEvent(t)

\* A thread holds the mutex until it unlocks it.
LEMMA HeldIsKept ==
  ASSUME MutexInv, NEW t \in Thread, AnyMutexStep(t)
  PROVE  /\ R!MutexTypeOK'
         /\ \A s \in Thread \ {t} : lock[s] = "held" <=> lock'[s] = "held"
         /\ lock[t] = "held" => R!Unlock(t)
  <1>. USE DEF MutexInv, R!MutexTypeOK, R!LockStates, R!LockGoes
  <1>1. CASE \E withTimeout \in BOOLEAN : R!Lock(t, withTimeout)
    BY <1>1 DEF R!Lock
  <1>2. CASE R!Unlock(t)
    BY <1>2 DEF R!Unlock
  <1>3. CASE R!Store(t)
    BY <1>3 DEF R!Store
  <1>4. CASE R!FutexWait(t)
    BY <1>4 DEF R!FutexWait
  <1>5. CASE R!WakeOne(t)
    BY <1>5 DEF R!WakeOne
  <1>6. CASE R!Interrupt(t)
    BY <1>6 DEF R!Interrupt
  <1>7. CASE R!Expire(t)
    BY <1>7 DEF R!Expire
  <1>. QED
    BY <1>1, <1>2, <1>3, <1>4, <1>5, <1>6, <1>7 DEF AnyMutexStep, R!MutexStep, R!MutexEvent

\* Who gets the mutex found the pointer null, and who leaves it sets it to null.
LEMMA PointerIsKept ==
  ASSUME MutexInv, NEW t \in Thread, AnyMutexStep(t)
  PROVE  R!OneIsInside' /\ PointerIsTrue'
  <1>1. mutex' = "null" <=> (mutex = "null" \/ lock[t] = "held") /\ lock'[t] # "held"
    <2>. USE DEF MutexInv, R!MutexTypeOK, R!LockStates, R!LockGoes, PointerIsTrue
    <2>1. CASE \E withTimeout \in BOOLEAN : R!Lock(t, withTimeout)
      BY <2>1 DEF R!Lock
    <2>2. CASE R!Unlock(t)
      BY <2>2 DEF R!Unlock
    <2>3. CASE R!Store(t)
      BY <2>3 DEF R!Store
    <2>4. CASE R!FutexWait(t)
      BY <2>4 DEF R!FutexWait
    <2>5. CASE R!WakeOne(t)
      BY <2>5 DEF R!WakeOne
    <2>6. CASE R!Interrupt(t)
      BY <2>6 DEF R!Interrupt
    <2>7. CASE R!Expire(t)
      BY <2>7 DEF R!Expire
    <2>. QED
      BY <2>1, <2>2, <2>3, <2>4, <2>5, <2>6, <2>7 DEF AnyMutexStep, R!MutexStep, R!MutexEvent
  <1>2. lock'[t] = "held" => mutex = "null"
    <2>. USE DEF MutexInv, R!MutexTypeOK, R!LockStates, R!LockGoes
    <2>1. CASE \E withTimeout \in BOOLEAN : R!Lock(t, withTimeout)
      BY <2>1 DEF R!Lock
    <2>2. CASE R!Store(t)
      BY <2>2 DEF R!Store
    <2>3. CASE R!Unlock(t) \/ R!FutexWait(t) \/ R!WakeOne(t) \/ R!Interrupt(t) \/ R!Expire(t)
      BY <2>3 DEF R!Unlock, R!FutexWait, R!WakeOne, R!Interrupt, R!Expire
    <2>. QED
      BY <2>1, <2>2, <2>3 DEF AnyMutexStep, R!MutexStep, R!MutexEvent
  <1>. QED
    BY <1>1, <1>2, HeldIsKept DEF MutexInv, R!OneIsInside, PointerIsTrue

\* A thread that leaves the queue of the futex, or unlocks, leaves somebody
\* behind who will look again.
LEMMA SleepersAreKept ==
  ASSUME MutexInv, NEW t \in Thread, AnyMutexStep(t)
  PROVE  R!SleepersAreNoticed'
  <1>. USE DEF MutexInv, R!MutexTypeOK, R!LockStates, R!LockGoes, R!SleepersAreNoticed
  <1>1. CASE \E withTimeout \in BOOLEAN : R!Lock(t, withTimeout)
    BY <1>1 DEF R!Lock
  <1>2. CASE R!Unlock(t)
    BY <1>2 DEF R!Unlock
  <1>3. CASE R!Store(t)
    BY <1>3 DEF R!Store
  <1>4. CASE R!FutexWait(t)
    BY <1>4 DEF R!FutexWait
  <1>5. CASE R!WakeOne(t)
    BY <1>5 DEF R!WakeOne
  <1>6. CASE R!Interrupt(t)
    BY <1>6 DEF R!Interrupt
  <1>7. CASE R!Expire(t)
    BY <1>7 DEF R!Expire
  <1>. QED
    BY <1>1, <1>2, <1>3, <1>4, <1>5, <1>6, <1>7 DEF AnyMutexStep, R!MutexStep, R!MutexEvent

LEMMA MutexIsKept ==
  ASSUME MutexInv, NEW t \in Thread, AnyMutexStep(t)
  PROVE  MutexInv'
BY HeldIsKept, PointerIsKept, SleepersAreKept DEF MutexInv

-----------------------------------------------------------------------------
\* The owner is in neither lock nor unlock of the mutex.
OwnerTypeOK ==
  /\ owner \in Thread \cup {Nobody}
  /\ count \in Nat
  /\ at \in [Thread -> {"idle", "locking", "cleared", "unlocking"}]
  /\ depth \in [Thread -> Nat]

OwnerIsTrue ==
  /\ \A t \in Thread : depth[t] > 0 <=> owner = t
  /\ \A t \in Thread : owner = t => /\ at[t] = "idle" /\ lock[t] = "held"
                                    /\ depth[t] = count + 1
  /\ owner = Nobody => count = 0

OwnerInv == MutexInv /\ OwnerTypeOK /\ OwnerIsTrue

\* A step of the mutex by a thread that is not the owner, or is not any more.
LEMMA MutexStepKeepsOwner ==
  ASSUME Nobody \notin Thread, OwnerInv, NEW t \in Thread, AnyMutexStep(t), owner # t,
         UNCHANGED <<owner, count, depth>>,
         NEW where \in {"idle", "locking", "cleared", "unlocking"}, at' = [at EXCEPT ![t] = where]
  PROVE  OwnerInv'
  <1>1. MutexInv'
    BY MutexIsKept DEF OwnerInv
  <1>2. OwnerTypeOK'
    BY DEF OwnerInv, OwnerTypeOK
  <1>3. OwnerIsTrue'
    BY HeldIsKept DEF OwnerInv, OwnerTypeOK, OwnerIsTrue
  <1>. QED
    BY <1>1, <1>2, <1>3 DEF OwnerInv

\* A step that does not touch the mutex.
LEMMA OwnerStep ==
  ASSUME Nobody \notin Thread, OwnerInv, NEW t \in Thread, UNCHANGED R!mutex,
         R!LockAgain(t) \/ R!Locked(t) \/ R!UnlockInner(t) \/ R!UnlockOuter(t) \/ R!Unlocked(t)
  PROVE  OwnerInv'
  <1>1. MutexInv'
    BY DEF OwnerInv, MutexInv, R!MutexTypeOK, R!OneIsInside, R!SleepersAreNoticed, PointerIsTrue, R!mutex
  <1>2. OwnerTypeOK' /\ OwnerIsTrue'
    <2>. USE DEF OwnerInv, OwnerTypeOK, OwnerIsTrue, R!mutex
    <2>1. CASE R!LockAgain(t)
      BY <2>1 DEF R!LockAgain
    <2>2. CASE R!Locked(t)
      <3>1. CASE lock[t] = "held"
        <4>1. owner = Nobody
          BY <2>2, <3>1 DEF R!Locked, MutexInv, R!OneIsInside
        <4>2. count = 0 /\ \A s \in Thread : depth[s] = 0
          BY <4>1
        <4>. QED
          BY <2>2, <3>1, <4>1, <4>2 DEF R!Locked
      <3>2. CASE lock[t] = "out"
        BY <2>2, <3>2 DEF R!Locked
      <3>. QED
        BY <2>2, <3>1, <3>2 DEF R!Locked
    <2>3. CASE R!UnlockInner(t)
      BY <2>3 DEF R!UnlockInner
    <2>4. CASE R!UnlockOuter(t)
      <3>1. at[t] = "idle" /\ owner = t /\ count = 0 /\ owner' = Nobody
        BY <2>4 DEF R!UnlockOuter, R!Unlock, R!LockGoes, MutexInv, R!MutexTypeOK
      <3>. QED
        BY <2>4, <3>1 DEF R!UnlockOuter
    <2>5. CASE R!Unlocked(t)
      BY <2>5 DEF R!Unlocked
    <2>. QED
      BY <2>1, <2>2, <2>3, <2>4, <2>5
  <1>. QED
    BY <1>1, <1>2 DEF OwnerInv

LEMMA OwnerInit ==
  ASSUME Nobody \notin Thread, R!Init
  PROVE  OwnerInv
BY DEF R!Init, R!MutexInit, OwnerInv, MutexInv, R!MutexTypeOK, R!LockStates, R!OneIsInside,
       R!SleepersAreNoticed, PointerIsTrue, OwnerTypeOK, OwnerIsTrue

LEMMA RecursiveMutexStep ==
  ASSUME Nobody \notin Thread, OwnerInv, [R!Next]_(R!vars)
  PROVE  OwnerInv'
  <1>1. CASE UNCHANGED R!vars
    BY <1>1 DEF R!vars, R!mutex, OwnerInv, MutexInv, R!MutexTypeOK, R!OneIsInside, R!SleepersAreNoticed,
                PointerIsTrue, OwnerTypeOK, OwnerIsTrue
  <1>2. ASSUME NEW t \in Thread, R!LockAgain(t) \/ R!Locked(t) \/ R!UnlockInner(t) \/ R!Unlocked(t)
        PROVE  OwnerInv'
    BY <1>2, OwnerStep DEF R!LockAgain, R!Locked, R!UnlockInner, R!Unlocked
  <1>3. ASSUME NEW t \in Thread, NEW withTimeout \in BOOLEAN, R!LockFirst(t, withTimeout)
        PROVE  OwnerInv'
    BY <1>3, MutexStepKeepsOwner DEF R!LockFirst, AnyMutexStep
  <1>4. ASSUME NEW t \in Thread, R!UnlockOuter(t)
        PROVE  OwnerInv'
    <2>1. CASE at[t] = "idle"
      BY <1>4, <2>1, OwnerStep DEF R!UnlockOuter
    <2>2. CASE at[t] = "cleared"
      BY <1>4, <2>2, MutexStepKeepsOwner DEF R!UnlockOuter, AnyMutexStep, OwnerInv, OwnerIsTrue
    <2>. QED
      BY <1>4, <2>1, <2>2 DEF R!UnlockOuter
  <1>5. ASSUME NEW t \in Thread, R!MutexStep(t) \/ R!MutexEvent(t), UNCHANGED <<owner, count, at, depth>>
        PROVE  OwnerInv'
    <2>1. owner # t
      BY <1>5 DEF R!MutexStep, R!MutexEvent, R!Store, R!FutexWait, R!WakeOne, R!Interrupt, R!Expire,
                  OwnerInv, OwnerIsTrue
    <2>2. at' = [at EXCEPT ![t] = at[t]] /\ at[t] \in {"idle", "locking", "cleared", "unlocking"}
      BY <1>5 DEF OwnerInv, OwnerTypeOK
    <2>. QED
      BY <1>5, <2>1, <2>2, MutexStepKeepsOwner DEF AnyMutexStep
  <1>. QED
    BY <1>1, <1>2, <1>3, <1>4, <1>5 DEF R!Next, R!Step, R!Inside

\* The thread that has locked a recursive mutex is alone inside and its owner,
\* the count is what is left of its locks, and no sleeper is forgotten
\* (qmutex.cpp).
THEOREM OwnerAlone ==
  ASSUME Nobody \notin Thread
  PROVE  R!Spec => []R!OwnerIsInside
  <1>1. R!Init => OwnerInv
    BY OwnerInit
  <1>2. OwnerInv /\ [R!Next]_(R!vars) => OwnerInv'
    BY RecursiveMutexStep
  <1>3. OwnerInv => R!OwnerIsInside
    BY DEF OwnerInv, OwnerIsTrue, MutexInv, R!OwnerIsInside
  <1>. QED
    BY <1>1, <1>2, <1>3, PTL DEF R!Spec

-----------------------------------------------------------------------------
\* The latch.

\* A thread sleeps only on a value that is not zero and with the bit cleared,
\* and the bit is never set again.
WaitersAreMarked ==
  \A t \in Thread :
    /\ lpc[t] \in {"look", "wait", "asleep", "load"} => ~counter.noWaiters
    /\ lpc[t] \in {"mark", "look", "wait"} => current[t] # 0

LatchInv == L!LatchIsSound /\ WaitersAreMarked

LEMMA LatchInit ==
  ASSUME Expected \in Nat, L!Init
  PROVE  LatchInv
BY DEF L!Init, LatchInv, L!LatchIsSound, L!LatchTypeOK, L!Counter, L!NobodyPassesEarly, L!NobodySleepsOn,
       WaitersAreMarked

\* A step that does not count and makes nobody else move.
LEMMA OwnStep ==
  ASSUME Expected \in Nat, LatchInv, NEW t \in Thread,
         L!Wait(t) \/ L!Look(t) \/ L!Load(t) \/ L!FutexWait(t) \/ L!Interrupt(t) \/ L!Mark(t)
  PROVE  LatchInv'
<1>. USE DEF LatchInv, L!LatchIsSound, L!Wait, L!Look, L!Load, L!FutexWait, L!Interrupt, L!Mark, L!PassOr, L!Pass, L!Goes
<1>1. /\ counter \in L!Counter /\ counter' \in L!Counter
      /\ counter'.pending = counter.pending
      /\ counter.noWaiters = FALSE => counter'.noWaiters = FALSE
  BY DEF L!LatchTypeOK, L!Counter
<1>2. L!LatchTypeOK'
  <2>1. lpc' \in [Thread -> {"idle", "mark", "look", "wait", "asleep", "load", "wake", "arrived", "begin"}]
    BY DEF L!LatchTypeOK
  <2>2. current' \in [Thread -> 0..Expected] /\ passed' \subseteq Thread
    BY <1>1 DEF L!LatchTypeOK, L!Counter
  <2>. QED
    BY <1>1, <2>1, <2>2 DEF L!LatchTypeOK
<1>3. L!NobodyPassesEarly'
  BY <1>1 DEF L!NobodyPassesEarly, L!LatchTypeOK
<1>4. \A s \in Thread : s # t => lpc'[s] = lpc[s] /\ current'[s] = current[s]
  BY DEF L!LatchTypeOK
<1>5. L!NobodySleepsOn'
  <2>. SUFFICES ASSUME counter'.pending = 0, NEW s \in Thread, lpc'[s] = "asleep"
                PROVE  \E r \in Thread : lpc'[r] \in {"wake", "arrived"}
    BY DEF L!NobodySleepsOn
  <2>1. s # t
    BY <1>1 DEF L!LatchTypeOK, WaitersAreMarked
  <2>2. PICK r \in Thread : lpc[r] \in {"wake", "arrived"}
    BY <1>1, <1>4, <2>1 DEF L!NobodySleepsOn
  <2>. QED
    BY <1>4, <2>2
<1>6. WaitersAreMarked'
  <2>1. lpc'[t] \in {"look", "wait", "asleep", "load"} => ~counter'.noWaiters
    BY <1>1 DEF L!LatchTypeOK, L!Counter, WaitersAreMarked
  <2>2. lpc'[t] \in {"mark", "look", "wait"} => current'[t] # 0
    BY <1>1 DEF L!LatchTypeOK, L!Counter, WaitersAreMarked
  <2>. QED
    BY <1>1, <1>4, <2>1, <2>2 DEF WaitersAreMarked, L!Counter
<1>. QED
  BY <1>2, <1>3, <1>5, <1>6

LEMMA CountStep ==
  ASSUME Expected \in Nat, LatchInv, NEW t \in Thread, NEW n \in 0..Expected,
         NEW thenWaits \in BOOLEAN, L!CountDown(t, n, thenWaits)
  PROVE  LatchInv'
<1>. USE DEF LatchInv, L!LatchIsSound, L!CountDown, L!Goes
<1>1. /\ counter.pending \in Nat /\ n \in Nat /\ n <= counter.pending
      /\ counter' \in L!Counter
      /\ counter'.pending = counter.pending - n
      /\ counter'.noWaiters = counter.noWaiters
  BY DEF L!LatchTypeOK, L!Counter
<1>2. L!LatchTypeOK'
  BY <1>1 DEF L!LatchTypeOK, L!NeedsWakeUp
<1>3. L!NobodyPassesEarly'
  BY <1>1 DEF L!NobodyPassesEarly
<1>4. \A s \in Thread : s # t => lpc'[s] = lpc[s] /\ current'[s] = current[s]
  BY DEF L!LatchTypeOK
<1>5. L!NobodySleepsOn'
  <2>. SUFFICES ASSUME counter'.pending = 0, NEW s \in Thread, lpc'[s] = "asleep"
                PROVE  \E r \in Thread : lpc'[r] \in {"wake", "arrived"}
    BY DEF L!NobodySleepsOn
  <2>1. s # t
    BY DEF L!LatchTypeOK, L!NeedsWakeUp
  <2>2. ~counter.noWaiters
    BY <1>4, <2>1 DEF WaitersAreMarked
  <2>3. L!NeedsWakeUp(n)
    BY <1>1, <2>2 DEF L!NeedsWakeUp, L!LatchTypeOK, L!Counter
  <2>. QED
    BY <2>3 DEF L!LatchTypeOK
<1>6. WaitersAreMarked'
  BY <1>1, <1>4 DEF WaitersAreMarked, L!LatchTypeOK
<1>. QED
  BY <1>2, <1>3, <1>5, <1>6

LEMMA WakeStep ==
  ASSUME LatchInv, NEW t \in Thread, L!WakeUp(t)
  PROVE  LatchInv'
BY DEF LatchInv, L!LatchIsSound, L!LatchTypeOK, L!NobodyPassesEarly, L!NobodySleepsOn, WaitersAreMarked, L!WakeUp

LEMMA LatchStep ==
  ASSUME Expected \in Nat, LatchInv, [L!Next]_(L!vars)
  PROVE  LatchInv'
<1>1. CASE UNCHANGED L!vars
  BY <1>1 DEF L!vars, LatchInv, L!LatchIsSound, L!LatchTypeOK, L!Counter, L!NobodyPassesEarly, L!NobodySleepsOn,
              WaitersAreMarked
<1>2. CASE L!Next
  BY <1>2, OwnStep, CountStep, WakeStep DEF L!Next
<1>. QED
  BY <1>1, <1>2

\* Nobody passes a latch before its count is zero, and nobody sleeps on when it
\* is unless the thread that wakes everybody is about to (qlatch.cpp).
THEOREM LatchOpens ==
  ASSUME Expected \in Nat
  PROVE  L!Spec => []L!LatchIsSound
<1>1. L!Init => LatchInv
  BY LatchInit
<1>2. LatchInv /\ [L!Next]_(L!vars) => LatchInv'
  BY LatchStep
<1>3. LatchInv => L!LatchIsSound
  BY DEF LatchInv
<1>. QED
  BY <1>1, <1>2, <1>3, PTL DEF L!Spec

\* The two together, as they are checked side by side.
THEOREM MutexAndLatchHold ==
  ASSUME Nobody \notin Thread, Expected \in Nat
  PROVE  R!Spec /\ L!Spec => []MutexAndLatchAreSound
<1>. R!OwnerIsInside /\ L!LatchIsSound => MutexAndLatchAreSound
  BY DEF MutexAndLatchAreSound
<1>. QED
  BY OwnerAlone, LatchOpens, PTL

-----------------------------------------------------------------------------
\* The wait condition.  WakesAreDue speaks of the threads that block, and is
\* not inductive: before a thread blocks it is on its way to, with the pthread
\* mutex, and a thread back from the condition that finds no wakeup blocks
\* again.  DueInv asks the same as long as anybody may block without looking.

Places == W!InWait \cup {"idle", "check", "add", "added", "late", "leave"}

Waiting == {t \in Thread : place[t] \in W!InWait}

\* In wait(), and not on the way out of it.
GoingToSleep == {t \in Thread : place[t] \in {"entered", "unlocked", "blocked"}}

AllowedBack == IF Cardinality(W!Signalled) < wakeups THEN Cardinality(W!Signalled) ELSE wakeups

\* Somebody may block, or stay blocked, without another look at the items:
\* more are back from the condition than there are wakeups for.
Sleepy == GoingToSleep # {} \/ Cardinality(W!Signalled) > wakeups

DueInv ==
  /\ W!ConditionTypeOK
  /\ \A t \in Thread : place[t] \in {"entered", "unlocked"} => mu = t
  /\ waiters = Cardinality(Waiting)
  /\ Sleepy => items <= Cardinality(W!AboutToLook) + AllowedBack

Assumptions == Nobody \notin Thread /\ IsFiniteSet(Thread) /\ MaxItems \in Nat

-----------------------------------------------------------------------------
\* Sets of threads when one thread moves.

In(t, S) == IF t \in S THEN 1 ELSE 0

\* S and T have the same elements, t aside.
Beside(t, S, T) == \A s : s # t => (s \in S <=> s \in T)

LEMMA CardinalityMoves ==
  ASSUME NEW S, NEW T, NEW t, IsFiniteSet(S), Beside(t, S, T)
  PROVE  /\ IsFiniteSet(T)
         /\ Cardinality(S) \in Nat /\ Cardinality(T) \in Nat
         /\ Cardinality(T) = Cardinality(S) + In(t, T) - In(t, S)
<1>1. IsFiniteSet(S \ {t}) /\ Cardinality(S \ {t}) = Cardinality(S) - In(t, S)
  BY FS_RemoveElement, FS_CardinalityType DEF In
<1>2. CASE t \in T
  <2>1. T = (S \ {t}) \cup {t}
    BY <1>2 DEF Beside
  <2>2. IsFiniteSet(T) /\ Cardinality(T) = Cardinality(S \ {t}) + 1
    BY <1>1, <2>1, FS_AddElement
  <2> QED
    BY <1>1, <1>2, <2>2, FS_CardinalityType DEF In
<1>3. CASE t \notin T
  <2>1. T = S \ {t}
    BY <1>3 DEF Beside
  <2> QED
    BY <1>1, <1>3, <2>1, FS_CardinalityType DEF In
<1> QED
  BY <1>2, <1>3

LEMMA ThreadsAreFinite ==
  ASSUME IsFiniteSet(Thread)
  PROVE  /\ IsFiniteSet(Waiting) /\ Cardinality(Waiting) \in Nat
         /\ IsFiniteSet(W!Signalled) /\ Cardinality(W!Signalled) \in Nat
         /\ IsFiniteSet(W!AboutToLook) /\ Cardinality(W!AboutToLook) \in Nat
<1>1. Waiting \in SUBSET Thread /\ W!Signalled \in SUBSET Thread /\ W!AboutToLook \in SUBSET Thread
  BY DEF Waiting, W!Signalled, W!AboutToLook
<1> QED
  BY <1>1, FS_Subset, FS_CardinalityType

\* Those who are back from the condition and those who block are in wait().
LEMMA WaitersAreMore ==
  ASSUME IsFiniteSet(Thread), NEW s \in W!Blocked
  PROVE  Cardinality(Waiting) >= Cardinality(W!Signalled) + 1
<1>1. /\ W!Signalled \cup {s} \in SUBSET Waiting /\ s \notin W!Signalled
  BY DEF W!Blocked, W!Signalled, Waiting, W!InWait
<1>2. Cardinality(W!Signalled \cup {s}) = Cardinality(W!Signalled) + 1
  BY <1>1, ThreadsAreFinite, FS_AddElement
<1>3. Cardinality(W!Signalled \cup {s}) <= Cardinality(Waiting)
  BY <1>1, ThreadsAreFinite, FS_Subset
<1> QED
  BY <1>2, <1>3

LEMMA SignalledWait ==
  ASSUME IsFiniteSet(Thread)
  PROVE  Cardinality(W!Signalled) <= Cardinality(Waiting)
<1>1. W!Signalled \in SUBSET Waiting
  BY DEF W!Signalled, Waiting, W!InWait
<1> QED
  BY <1>1, ThreadsAreFinite, FS_Subset

-----------------------------------------------------------------------------
\* One thread goes from one place to another.

Looking == {"added", "late", "check", "expired"}

LEMMA CountsMove ==
  ASSUME IsFiniteSet(Thread), W!ConditionTypeOK, NEW t \in Thread, NEW l \in Places, W!Goes(t, l)
  PROVE  /\ place' \in [Thread -> Places]
         /\ Cardinality(Waiting') = Cardinality(Waiting) + In(l, W!InWait) - In(place[t], W!InWait)
         /\ Cardinality(W!Signalled') =
              Cardinality(W!Signalled) + In(l, {"signalled"}) - In(place[t], {"signalled"})
         /\ Cardinality(W!AboutToLook') =
              Cardinality(W!AboutToLook) + In(l, Looking) - In(place[t], Looking)
         /\ Cardinality(Waiting) \in Nat /\ Cardinality(Waiting') \in Nat
         /\ Cardinality(W!Signalled) \in Nat /\ Cardinality(W!Signalled') \in Nat
         /\ Cardinality(W!AboutToLook) \in Nat /\ Cardinality(W!AboutToLook') \in Nat
<1>1. place \in [Thread -> Places] /\ place' = [place EXCEPT ![t] = l]
  BY DEF W!ConditionTypeOK, Places, W!Goes
<1>2. place' \in [Thread -> Places]
  BY <1>1
<1>3. /\ Beside(t, Waiting, Waiting') /\ In(t, Waiting') = In(l, W!InWait)
      /\ In(t, Waiting) = In(place[t], W!InWait)
  BY <1>1 DEF Waiting, Beside, In
<1>4. /\ Beside(t, W!Signalled, W!Signalled') /\ In(t, W!Signalled') = In(l, {"signalled"})
      /\ In(t, W!Signalled) = In(place[t], {"signalled"})
  BY <1>1 DEF W!Signalled, Beside, In
<1>5. /\ Beside(t, W!AboutToLook, W!AboutToLook') /\ In(t, W!AboutToLook') = In(l, Looking)
      /\ In(t, W!AboutToLook) = In(place[t], Looking)
  BY <1>1 DEF W!AboutToLook, Looking, Beside, In
<1>6. /\ Cardinality(Waiting') = Cardinality(Waiting) + In(t, Waiting') - In(t, Waiting)
      /\ Cardinality(Waiting) \in Nat /\ Cardinality(Waiting') \in Nat
  BY <1>3, ThreadsAreFinite, CardinalityMoves
<1>7. /\ Cardinality(W!Signalled') = Cardinality(W!Signalled) + In(t, W!Signalled') - In(t, W!Signalled)
      /\ Cardinality(W!Signalled) \in Nat /\ Cardinality(W!Signalled') \in Nat
  BY <1>4, ThreadsAreFinite, CardinalityMoves
<1>8. /\ Cardinality(W!AboutToLook') = Cardinality(W!AboutToLook) + In(t, W!AboutToLook') - In(t, W!AboutToLook)
      /\ Cardinality(W!AboutToLook) \in Nat /\ Cardinality(W!AboutToLook') \in Nat
  BY <1>5, ThreadsAreFinite, CardinalityMoves
<1> QED
  BY <1>2, <1>3, <1>4, <1>5, <1>6, <1>7, <1>8

-----------------------------------------------------------------------------
\* The steps of the QMutex.

LEMMA MutexTyped ==
  ASSUME W!MutexTypeOK, NEW t \in Thread,
         W!Lock(t, FALSE) \/ W!Unlock(t) \/ W!MutexStep(t) \/ W!Interrupt(t)
  PROVE  W!MutexTypeOK'
<1>. USE DEF W!MutexTypeOK, W!LockStates, W!LockGoes
<1>1. CASE W!Lock(t, FALSE)
  BY <1>1 DEF W!Lock
<1>2. CASE W!Unlock(t)
  BY <1>2 DEF W!Unlock
<1>3. CASE W!Store(t)
  BY <1>3 DEF W!Store
<1>4. CASE W!FutexWait(t)
  BY <1>4 DEF W!FutexWait
<1>5. CASE W!WakeOne(t)
  BY <1>5 DEF W!WakeOne
<1>6. CASE W!Interrupt(t)
  BY <1>6 DEF W!Interrupt
<1> QED
  BY <1>1, <1>2, <1>3, <1>4, <1>5, <1>6 DEF W!MutexStep

LEMMA ConditionStays ==
  ASSUME DueInv, W!MutexTypeOK', UNCHANGED W!condition
  PROVE  DueInv'
<1>1. Waiting' = Waiting /\ W!Signalled' = W!Signalled /\ W!AboutToLook' = W!AboutToLook
      /\ GoingToSleep' = GoingToSleep
  BY DEF W!condition, Waiting, W!Signalled, W!AboutToLook, GoingToSleep
<1> QED
  BY <1>1 DEF W!condition, DueInv, W!ConditionTypeOK, Sleepy, AllowedBack
-----------------------------------------------------------------------------
\* The steps outside wait().  What they change of the items is made up for by
\* a thread that is about to look, or none is left.
LEMMA OutsideKeeps ==
  ASSUME Assumptions, DueInv, W!ConditionTypeOK', NEW t \in Thread, NEW l \in Places \ W!InWait,
         place[t] \notin W!InWait, W!Goes(t, l), UNCHANGED <<mu, waiters, wakeups>>,
         items' = 0 \/ items' - items <= In(l, Looking) - In(place[t], Looking)
  PROVE  DueInv'
<1>1. /\ place \in [Thread -> Places] /\ place' = [place EXCEPT ![t] = l]
      /\ items \in Nat /\ items' \in Nat /\ wakeups \in Nat
  BY DEF DueInv, W!ConditionTypeOK, Places, W!Goes, Assumptions
<1>2. /\ Cardinality(Waiting') = Cardinality(Waiting)
      /\ Cardinality(W!Signalled') = Cardinality(W!Signalled)
      /\ Cardinality(W!AboutToLook') =
           Cardinality(W!AboutToLook) + In(l, Looking) - In(place[t], Looking)
      /\ Cardinality(W!AboutToLook') \in Nat /\ Cardinality(W!AboutToLook) \in Nat
      /\ Cardinality(W!Signalled) \in Nat
  <2>1. In(l, W!InWait) = 0 /\ In(place[t], W!InWait) = 0
    BY DEF In
  <2>2. In(l, {"signalled"}) = 0 /\ In(place[t], {"signalled"}) = 0
    BY DEF In, W!InWait
  <2> QED
    BY <2>1, <2>2, CountsMove DEF DueInv, Assumptions
<1>3. GoingToSleep' = GoingToSleep
  BY <1>1 DEF GoingToSleep, W!InWait
<1>4. \A s \in Thread : place'[s] \in {"entered", "unlocked"} => mu' = s
  BY <1>1 DEF DueInv, W!InWait
<1>5. Sleepy' => items' <= Cardinality(W!AboutToLook') + AllowedBack'
  <2>1. Sleepy' <=> Sleepy
    BY <1>2, <1>3 DEF Sleepy
  <2>2. AllowedBack' = AllowedBack /\ AllowedBack \in Nat
    BY <1>1, <1>2 DEF AllowedBack
  <2>3. Sleepy => items <= Cardinality(W!AboutToLook) + AllowedBack
    BY DEF DueInv
  <2>4. In(l, Looking) \in Int /\ In(place[t], Looking) \in Int
    BY DEF In
  <2>5. CASE items' = 0
    BY <1>2, <2>2, <2>5
  <2>6. CASE items' - items <= In(l, Looking) - In(place[t], Looking)
    BY <1>1, <1>2, <2>1, <2>2, <2>3, <2>4, <2>6
  <2> QED
    BY <2>5, <2>6
<1> QED
  BY <1>2, <1>4, <1>5 DEF DueInv

\* Begin, Add, Leave, and a Check that does not wait.
LEMMA OutsideStep ==
  ASSUME Assumptions, DueInv, NEW t \in Thread,
         \/ W!Begin(t) \/ W!Add(t) \/ W!Leave(t)
         \/ W!Check(t) /\ UNCHANGED waiters
  PROVE  DueInv'
<1>1. W!ConditionTypeOK
  BY DEF DueInv
<1>2. CASE W!Begin(t)
  <2>. DEFINE l == IF t \in Consumer THEN "check" ELSE "add"
  <2>1. l \in Places \ W!InWait /\ place[t] = "idle" /\ W!Goes(t, l)
    BY <1>2 DEF W!Begin, Places, W!InWait
  <2>2. W!ConditionTypeOK'
    BY <1>1, <1>2 DEF W!ConditionTypeOK, W!Begin, W!Goes, W!mutex, W!MutexTypeOK
  <2>3. items' - items <= In(l, Looking) - In(place[t], Looking)
    BY <1>1, <1>2, <2>1 DEF W!Begin, In, Looking, W!ConditionTypeOK, Assumptions
  <2> QED
    BY <1>2, <2>1, <2>2, <2>3, OutsideKeeps DEF W!Begin, W!InWait
<1>3. CASE W!Add(t)
  <2>1. PICK l \in {"added", "leave"} :
          /\ W!Goes(t, l)
          /\ l = "added" => items' = items + 1 /\ items < MaxItems
          /\ l = "leave" => items' = items
    BY <1>3 DEF W!Add
  <2>2. l \in Places \ W!InWait /\ place[t] = "add"
    BY <1>3 DEF W!Add, Places, W!InWait
  <2>3. W!ConditionTypeOK'
    BY <1>1, <1>3, <2>1 DEF W!ConditionTypeOK, W!Add, W!Goes, W!mutex, W!MutexTypeOK, Assumptions
  <2>4. items' - items <= In(l, Looking) - In(place[t], Looking)
    BY <1>1, <2>1, <2>2 DEF In, Looking, W!ConditionTypeOK, Assumptions
  <2> QED
    BY <1>3, <2>1, <2>2, <2>3, <2>4, OutsideKeeps DEF W!Add, W!InWait
<1>4. CASE W!Leave(t)
  <2>. DEFINE l == IF place[t] = "added" THEN "late" ELSE "idle"
  <2>1. l \in Places \ W!InWait /\ place[t] \in {"leave", "added"} /\ W!Goes(t, l)
    BY <1>4 DEF W!Leave, Places, W!InWait
  <2>2. W!ConditionTypeOK'
    BY <1>1, <1>4, MutexTyped DEF W!ConditionTypeOK, W!Leave, W!Goes
  <2>3. items' - items <= In(l, Looking) - In(place[t], Looking)
    BY <1>1, <1>4, <2>1 DEF W!Leave, In, Looking, W!ConditionTypeOK, Assumptions
  <2> QED
    BY <1>4, <2>1, <2>2, <2>3, OutsideKeeps DEF W!Leave, W!InWait
<1>5. CASE W!Check(t) /\ UNCHANGED waiters
  <2>1. /\ W!Goes(t, "leave") /\ place[t] = "check" /\ UNCHANGED <<W!mutex, mu, wakeups>>
        /\ limit' = [limit EXCEPT ![t] = "forever"]
        /\ (items > 0 /\ items' = items - 1) \/ items' = 0
    BY <1>1, <1>5 DEF W!Check, W!Wait, W!ConditionTypeOK
  <2>2. "leave" \in Places \ W!InWait
    BY DEF Places, W!InWait
  <2>3. W!ConditionTypeOK'
    BY <1>1, <1>5, <2>1 DEF W!ConditionTypeOK, W!Goes, W!mutex, W!MutexTypeOK, Assumptions
  <2>4. items' = 0 \/ items' - items <= In("leave", Looking) - In(place[t], Looking)
    BY <1>1, <2>1 DEF In, Looking, W!ConditionTypeOK, Assumptions
  <2> QED
    BY <1>5, <2>1, <2>2, <2>3, <2>4, OutsideKeeps DEF W!InWait
<1> QED
  BY <1>2, <1>3, <1>4, <1>5
-----------------------------------------------------------------------------
\* The way into wait(): whoever is on it has the pthread mutex, and found no
\* item.

LEMMA NoneOnTheWay ==
  ASSUME Assumptions, DueInv, mu = Nobody
  PROVE  \A s \in Thread : place[s] \notin {"entered", "unlocked"}
BY DEF DueInv, Assumptions

LEMMA WaitStep ==
  ASSUME Assumptions, DueInv, NEW t \in Thread, NEW when \in {"forever", "running"},
         place[t] = "check", items = 0, W!Wait(t, when)
  PROVE  DueInv'
<1>1. /\ W!ConditionTypeOK /\ place \in [Thread -> Places] /\ items' = 0
      /\ "entered" \in Places /\ W!Goes(t, "entered") /\ mu = Nobody /\ mu' = t
  BY DEF DueInv, W!ConditionTypeOK, Places, W!InWait, W!Wait
<1>2. /\ Cardinality(Waiting') = Cardinality(Waiting) + In("entered", W!InWait) - In(place[t], W!InWait)
      /\ Cardinality(Waiting) \in Nat /\ place' \in [Thread -> Places]
  BY <1>1, CountsMove, ThreadsAreFinite DEF Assumptions
<1>3. waiters' = Cardinality(Waiting') /\ waiters' \in Nat
  BY <1>2 DEF DueInv, W!Wait, In, W!InWait
<1>4. W!ConditionTypeOK'
  BY <1>1, <1>2, <1>3 DEF W!ConditionTypeOK, W!Wait, W!mutex, W!MutexTypeOK, Places
<1>5. \A s \in Thread : place'[s] \in {"entered", "unlocked"} => mu' = s
  BY <1>1, NoneOnTheWay DEF W!Goes
<1>6. items' <= Cardinality(W!AboutToLook') + AllowedBack'
  <2>1. W!Signalled' \in SUBSET Thread /\ W!AboutToLook' \in SUBSET Thread
    BY DEF W!Signalled, W!AboutToLook
  <2>2. Cardinality(W!Signalled') \in Nat /\ Cardinality(W!AboutToLook') \in Nat
    BY <2>1, FS_Subset, FS_CardinalityType DEF Assumptions
  <2>3. AllowedBack' \in Nat
    BY <1>4, <2>2 DEF AllowedBack, W!ConditionTypeOK
  <2> QED
    BY <1>1, <2>2, <2>3
<1> QED
  BY <1>3, <1>4, <1>5, <1>6 DEF DueInv

\* A step within wait() of a thread that was on its way to block; it leaves
\* the counts, and wakes t at most.
LEMMA SleepyStep ==
  ASSUME Assumptions, DueInv, NEW t \in Thread, t \in GoingToSleep,
         \/ W!UnlockMutex(t) \/ W!Block(t) \/ W!SpuriousWake(t) \/ W!TimeOut(t)
  PROVE  DueInv'
<1>1. W!ConditionTypeOK /\ place \in [Thread -> Places] /\ UNCHANGED <<waiters, wakeups, items>>
  BY DEF DueInv, W!ConditionTypeOK, Places, W!UnlockMutex, W!Block, W!SpuriousWake, W!TimeOut
<1>2. PICK l \in {"unlocked", "blocked", "signalled", "expired"} :
        /\ W!Goes(t, l)
        /\ \/ place[t] = "entered" /\ l = "unlocked" /\ mu' = mu
           \/ place[t] = "unlocked" /\ l = "blocked" /\ mu' = Nobody
           \/ place[t] = "blocked" /\ l \in {"signalled", "expired"} /\ mu' = mu
  <2>1. CASE W!UnlockMutex(t)
    BY <2>1 DEF W!UnlockMutex
  <2>2. CASE W!Block(t)
    BY <2>2 DEF W!Block
  <2>3. CASE W!SpuriousWake(t)
    BY <2>3 DEF W!SpuriousWake
  <2>4. CASE W!TimeOut(t)
    BY <2>4 DEF W!TimeOut
  <2> QED
    BY <2>1, <2>2, <2>3, <2>4
<1>3. l \in Places /\ l \in W!InWait /\ place[t] \in W!InWait /\ place[t] # "signalled"
  BY <1>2 DEF Places, W!InWait
<1>4. /\ place' \in [Thread -> Places]
      /\ Cardinality(Waiting') = Cardinality(Waiting) + In(l, W!InWait) - In(place[t], W!InWait)
      /\ Cardinality(W!Signalled') =
           Cardinality(W!Signalled) + In(l, {"signalled"}) - In(place[t], {"signalled"})
      /\ Cardinality(W!AboutToLook') =
           Cardinality(W!AboutToLook) + In(l, Looking) - In(place[t], Looking)
      /\ Cardinality(Waiting) \in Nat /\ Cardinality(W!Signalled) \in Nat
      /\ Cardinality(W!AboutToLook) \in Nat
  BY <1>1, <1>2, <1>3, CountsMove, ThreadsAreFinite DEF Assumptions
<1>5. W!ConditionTypeOK'
  <2>1. W!MutexTypeOK'
    BY <1>1, MutexTyped DEF W!ConditionTypeOK, W!UnlockMutex, W!Block, W!SpuriousWake, W!TimeOut, W!mutex, W!MutexTypeOK
  <2>2. mu' \in Thread \cup {Nobody}
    BY <1>1, <1>2 DEF W!ConditionTypeOK
  <2>3. limit' \in [Thread -> {"forever", "running", "expired"}]
    BY <1>1 DEF W!ConditionTypeOK, W!UnlockMutex, W!Block, W!SpuriousWake, W!TimeOut
  <2> QED
    BY <1>1, <1>4, <2>1, <2>2, <2>3 DEF W!ConditionTypeOK, Places
<1>6. \A s \in Thread : place'[s] \in {"entered", "unlocked"} => mu' = s
  BY <1>1, <1>2 DEF DueInv, W!Goes
<1>7. waiters' = Cardinality(Waiting')
  BY <1>1, <1>3, <1>4 DEF DueInv, In
<1>8. items' <= Cardinality(W!AboutToLook') + AllowedBack'
  <2>1. items <= Cardinality(W!AboutToLook) + AllowedBack
    BY DEF DueInv, Sleepy
  <2>2. Cardinality(W!AboutToLook') >= Cardinality(W!AboutToLook) /\ Cardinality(W!AboutToLook') \in Nat
    BY <1>2, <1>4 DEF In, Looking
  <2>3. Cardinality(W!Signalled') >= Cardinality(W!Signalled) /\ Cardinality(W!Signalled') \in Nat
    BY <1>3, <1>4 DEF In
  <2>4. AllowedBack' >= AllowedBack /\ AllowedBack \in Nat /\ AllowedBack' \in Nat
    BY <1>1, <1>4, <2>3 DEF AllowedBack, W!ConditionTypeOK
  <2>5. items \in Int
    BY <1>1 DEF W!ConditionTypeOK, Assumptions
  <2> QED
    BY <1>1, <1>4, <2>1, <2>2, <2>4, <2>5
<1> QED
  BY <1>5, <1>6, <1>7, <1>8 DEF DueInv
-----------------------------------------------------------------------------
\* The way out of it.

LEMMA ResumeStep ==
  ASSUME Assumptions, DueInv, NEW t \in Thread, W!Resume(t)
  PROVE  DueInv'
<1>1. /\ W!ConditionTypeOK /\ place \in [Thread -> Places] /\ mu = Nobody
      /\ UNCHANGED <<W!mutex, mu, limit, items>>
      /\ items \in Int /\ wakeups \in Nat /\ waiters \in Nat
  BY DEF DueInv, W!ConditionTypeOK, Places, W!Resume, Assumptions
<1>2. PICK l \in {"blocked", "check"} :
        /\ W!Goes(t, l)
        /\ \/ /\ l = "blocked" /\ place[t] = "signalled" /\ wakeups = 0
              /\ UNCHANGED <<waiters, wakeups>>
           \/ /\ l = "check" /\ place[t] = "signalled" /\ wakeups > 0
              /\ waiters' = waiters - 1 /\ wakeups' = wakeups - 1
           \/ /\ l = "check" /\ place[t] = "expired"
              /\ waiters' = waiters - 1 /\ UNCHANGED wakeups
  BY DEF W!Resume
<1>3. l \in Places /\ place[t] \in W!InWait /\ (l \in W!InWait <=> l = "blocked") /\ l # "signalled"
  BY <1>2 DEF Places, W!InWait
<1>4. /\ place' \in [Thread -> Places]
      /\ Cardinality(Waiting') = Cardinality(Waiting) + In(l, W!InWait) - In(place[t], W!InWait)
      /\ Cardinality(W!Signalled') =
           Cardinality(W!Signalled) + In(l, {"signalled"}) - In(place[t], {"signalled"})
      /\ Cardinality(W!AboutToLook') =
           Cardinality(W!AboutToLook) + In(l, Looking) - In(place[t], Looking)
      /\ Cardinality(Waiting) \in Nat /\ Cardinality(Waiting') \in Nat
      /\ Cardinality(W!Signalled) \in Nat /\ Cardinality(W!Signalled') \in Nat
      /\ Cardinality(W!AboutToLook) \in Nat /\ Cardinality(W!AboutToLook') \in Nat
  BY <1>1, <1>2, <1>3, CountsMove DEF Assumptions
<1>5. waiters' = Cardinality(Waiting')
  BY <1>2, <1>3, <1>4 DEF DueInv, In
<1>6. W!ConditionTypeOK'
  BY <1>1, <1>2, <1>4, <1>5 DEF W!ConditionTypeOK, Places, W!mutex, W!MutexTypeOK
<1>7. \A s \in Thread : place'[s] \in {"entered", "unlocked"} => mu' = s
  BY <1>1, <1>2, NoneOnTheWay DEF W!Goes
<1>8. Sleepy' => items' <= Cardinality(W!AboutToLook') + AllowedBack'
  <2>. SUFFICES ASSUME Sleepy'
                PROVE  items' <= Cardinality(W!AboutToLook') + AllowedBack'
    OBVIOUS
  <2>1. Sleepy => items <= Cardinality(W!AboutToLook) + AllowedBack
    BY DEF DueInv
  <2>2. \A s \in GoingToSleep' : s = t \/ s \in GoingToSleep
    BY <1>1, <1>2 DEF GoingToSleep, W!Goes
  <2>3. CASE l = "blocked"
    <3>1. /\ Cardinality(W!Signalled') = Cardinality(W!Signalled) - 1
          /\ Cardinality(W!AboutToLook') = Cardinality(W!AboutToLook)
          /\ wakeups = 0 /\ wakeups' = 0
      BY <1>2, <1>4, <2>3 DEF In, Looking
    <3>2. Sleepy /\ AllowedBack = 0 /\ AllowedBack' = 0
      BY <1>4, <3>1 DEF Sleepy, AllowedBack
    <3> QED
      BY <1>1, <1>4, <2>1, <3>1, <3>2
  <2>4. CASE l = "check" /\ place[t] = "signalled"
    <3>1. /\ Cardinality(W!Signalled') = Cardinality(W!Signalled) - 1
          /\ Cardinality(W!AboutToLook') = Cardinality(W!AboutToLook) + 1
          /\ wakeups' = wakeups - 1 /\ wakeups > 0
      BY <1>2, <1>4, <2>4 DEF In, Looking
    <3>2. t \notin GoingToSleep'
      BY <1>1, <1>2, <2>4 DEF GoingToSleep, W!Goes
    <3>3. Sleepy /\ AllowedBack' = AllowedBack - 1 /\ AllowedBack \in Nat
      BY <1>1, <1>4, <2>2, <3>1, <3>2 DEF Sleepy, AllowedBack
    <3> QED
      BY <1>1, <1>4, <2>1, <3>1, <3>3
  <2>5. CASE place[t] = "expired"
    <3>1. /\ Cardinality(W!Signalled') = Cardinality(W!Signalled)
          /\ Cardinality(W!AboutToLook') = Cardinality(W!AboutToLook)
          /\ wakeups' = wakeups
      BY <1>2, <1>4, <2>5 DEF In, Looking
    <3>2. t \notin GoingToSleep'
      BY <1>1, <1>2, <2>5 DEF GoingToSleep, W!Goes
    <3>3. Sleepy /\ AllowedBack' = AllowedBack /\ AllowedBack \in Nat
      BY <1>1, <1>4, <2>2, <3>1, <3>2 DEF Sleepy, AllowedBack
    <3> QED
      BY <1>1, <1>4, <2>1, <3>1, <3>3
  <2> QED
    BY <1>2, <2>3, <2>4, <2>5
<1> QED
  BY <1>5, <1>6, <1>7, <1>8 DEF DueInv
-----------------------------------------------------------------------------
\* wakeOne() and wakeAll()

\* The producer t goes on to l, and the threads of S from "blocked" to
\* "signalled"; nobody is on the way to block.
Waking(t, l, S) ==
  /\ place[t] \in {"added", "late"} /\ l \in {"leave", "idle"} /\ S \subseteq W!Blocked
  /\ place \in [Thread -> Places] /\ place' \in [Thread -> Places]
  /\ \A s \in Thread : place'[s] = IF s = t THEN l ELSE IF s \in S THEN "signalled" ELSE place[s]
  /\ \A s \in Thread : place[s] \notin {"entered", "unlocked"}

LEMMA WakingCounts ==
  ASSUME IsFiniteSet(Thread), NEW t \in Thread, NEW l, NEW S, Waking(t, l, S)
  PROVE  /\ Waiting' = Waiting /\ W!Blocked' = W!Blocked \ S /\ GoingToSleep' = W!Blocked'
         /\ GoingToSleep = W!Blocked
         /\ W!Signalled' = W!Signalled \cup S
         /\ Cardinality(W!AboutToLook') = Cardinality(W!AboutToLook) - 1
         /\ Cardinality(W!AboutToLook') \in Nat /\ Cardinality(W!AboutToLook) \in Nat
<1>. USE DEF Waking
<1>1. S \subseteq Thread /\ \A s \in S : place[s] = "blocked"
  BY DEF W!Blocked
<1>2. Waiting' = Waiting
  BY <1>1 DEF Waiting, W!InWait
<1>3. W!Blocked' = W!Blocked \ S
  BY <1>1 DEF W!Blocked
<1>4. GoingToSleep' = W!Blocked' /\ GoingToSleep = W!Blocked
  BY <1>1 DEF W!Blocked, GoingToSleep
<1>5. W!Signalled' = W!Signalled \cup S
  BY <1>1 DEF W!Signalled
<1>6. Beside(t, W!AboutToLook, W!AboutToLook') /\ t \in W!AboutToLook /\ t \notin W!AboutToLook'
  BY <1>1 DEF W!AboutToLook, Beside
<1>7. /\ Cardinality(W!AboutToLook') = Cardinality(W!AboutToLook) - 1
      /\ Cardinality(W!AboutToLook') \in Nat /\ Cardinality(W!AboutToLook) \in Nat
  BY <1>6, ThreadsAreFinite, CardinalityMoves DEF In
<1> QED
  BY <1>2, <1>3, <1>4, <1>5, <1>7

\* The rest of the invariant is about the counts alone.
LEMMA WakingKeeps ==
  ASSUME Assumptions, DueInv, NEW t \in Thread, NEW l, NEW S, Waking(t, l, S),
         UNCHANGED <<W!mutex, mu, waiters, limit, items>>, wakeups' \in Nat,
         Sleepy' => Sleepy /\ AllowedBack' >= AllowedBack + 1
  PROVE  DueInv'
<1>1. W!ConditionTypeOK' /\ items \in Int /\ wakeups \in Nat
  BY DEF DueInv, W!ConditionTypeOK, Waking, Places, Assumptions, W!mutex, W!MutexTypeOK
<1>2. \A s \in Thread : place'[s] \notin {"entered", "unlocked"}
  BY DEF Waking
<1>3. waiters' = Cardinality(Waiting')
  BY WakingCounts DEF DueInv, Assumptions
<1>4. Sleepy' => items' <= Cardinality(W!AboutToLook') + AllowedBack'
  <2>. SUFFICES ASSUME Sleepy'
                PROVE  items' <= Cardinality(W!AboutToLook') + AllowedBack'
    OBVIOUS
  <2>1. items <= Cardinality(W!AboutToLook) + AllowedBack
    BY DEF DueInv
  <2>2. /\ Cardinality(W!AboutToLook') = Cardinality(W!AboutToLook) - 1
        /\ Cardinality(W!AboutToLook') \in Nat /\ Cardinality(W!AboutToLook) \in Nat
    BY WakingCounts DEF Assumptions
  <2>3. AllowedBack \in Int /\ AllowedBack' \in Int
    <3>1. W!Signalled' \in SUBSET Thread
      BY DEF W!Signalled
    <3>2. Cardinality(W!Signalled') \in Nat /\ Cardinality(W!Signalled) \in Nat
      BY <3>1, FS_Subset, FS_CardinalityType, ThreadsAreFinite DEF Assumptions
    <3> QED
      BY <1>1, <3>2 DEF AllowedBack
  <2> QED
    BY <1>1, <2>1, <2>2, <2>3
<1> QED
  BY <1>1, <1>2, <1>3, <1>4 DEF DueInv

LEMMA WakeOneStep ==
  ASSUME Assumptions, DueInv, NEW t \in Thread, NEW l \in {"leave", "idle"},
         place[t] \in {"added", "late"}, W!WakeOneWaiter(t, l)
  PROVE  DueInv'
<1>1. /\ place \in [Thread -> Places] /\ wakeups \in Nat /\ waiters \in Nat
      /\ waiters = Cardinality(Waiting)
      /\ UNCHANGED <<W!mutex, mu, waiters, limit, items>>
      /\ l \in Places
  BY DEF DueInv, W!ConditionTypeOK, Places, W!WakeOneWaiter
<1>2. \A s \in Thread : place[s] \notin {"entered", "unlocked"}
  BY NoneOnTheWay DEF W!WakeOneWaiter
<1>3. /\ wakeups' \in Nat
      /\ IF wakeups < waiters THEN wakeups' = wakeups + 1 ELSE wakeups' = waiters
  BY <1>1 DEF W!WakeOneWaiter, W!OneMoreWakeup
<1>4. Cardinality(W!Signalled) \in Nat /\ Cardinality(W!Signalled) <= waiters
  BY <1>1, ThreadsAreFinite, SignalledWait DEF Assumptions
<1>5. CASE W!Blocked = {} /\ W!Goes(t, l)
  <2>1. Waking(t, l, {})
    BY <1>1, <1>2, <1>5 DEF Waking, W!Goes
  <2>2. W!Signalled' = W!Signalled /\ GoingToSleep' = {}
    <3>1. /\ W!Signalled' = W!Signalled \cup {} /\ W!Blocked' = W!Blocked \ {}
          /\ GoingToSleep' = W!Blocked'
      BY <2>1, WakingCounts DEF Assumptions
    <3> QED
      BY <1>5, <3>1
  <2>3. Sleepy' => Sleepy /\ AllowedBack' >= AllowedBack + 1
    BY <1>1, <1>3, <1>4, <2>2 DEF Sleepy, AllowedBack
  <2> QED
    BY <1>1, <1>3, <2>1, <2>3, WakingKeeps
<1>6. CASE \E s \in W!Blocked : W!Wake(t, l, {s})
  <2>1. PICK s \in W!Blocked : W!Wake(t, l, {s})
    BY <1>6
  <2>2. Waking(t, l, {s})
    <3>1. place' \in [Thread -> Places]
      BY <1>1, <2>1 DEF W!Wake, Places, W!InWait
    <3> QED
      BY <1>1, <1>2, <2>1, <3>1 DEF Waking, W!Wake
  <2>3. s \notin W!Signalled /\ W!Signalled' = W!Signalled \cup {s}
    BY <2>1, <2>2, WakingCounts DEF Assumptions, W!Blocked, W!Signalled
  <2>4. Cardinality(W!Signalled') = Cardinality(W!Signalled) + 1
    BY <2>3, ThreadsAreFinite, FS_AddElement DEF Assumptions
  <2>5. waiters >= Cardinality(W!Signalled) + 1
    BY <1>1, <2>1, WaitersAreMore DEF Assumptions
  <2>6. AllowedBack' >= AllowedBack + 1
    BY <1>1, <1>3, <1>4, <2>4, <2>5 DEF AllowedBack
  <2>7. Sleepy
    BY <2>1, <2>2, WakingCounts DEF Sleepy, Assumptions
  <2> QED
    BY <1>1, <1>3, <2>2, <2>6, <2>7, WakingKeeps
<1> QED
  BY <1>5, <1>6 DEF W!WakeOneWaiter

LEMMA WakeAllStep ==
  ASSUME Assumptions, DueInv, NEW t \in Thread, NEW l \in {"leave", "idle"},
         place[t] \in {"added", "late"}, W!WakeAllWaiters(t, l)
  PROVE  DueInv'
<1>1. /\ place \in [Thread -> Places] /\ waiters \in Nat /\ waiters = Cardinality(Waiting)
      /\ UNCHANGED <<W!mutex, mu, waiters, limit, items>> /\ wakeups' = waiters
      /\ l \in Places
  BY DEF DueInv, W!ConditionTypeOK, Places, W!WakeAllWaiters
<1>2. Waking(t, l, W!Blocked)
  <2>1. \A s \in Thread : place[s] \notin {"entered", "unlocked"}
    BY NoneOnTheWay DEF W!WakeAllWaiters
  <2>2. place' \in [Thread -> Places]
    BY <1>1 DEF W!WakeAllWaiters, W!Wake, Places, W!InWait
  <2> QED
    BY <1>1, <2>1, <2>2 DEF Waking, W!WakeAllWaiters, W!Wake
<1>3. /\ Waiting' = Waiting /\ GoingToSleep' = {} /\ W!Signalled' \in SUBSET Waiting'
  <2>1. Waiting' = Waiting /\ GoingToSleep' = {}
    BY <1>2, WakingCounts DEF Assumptions
  <2>2. W!Signalled' \in SUBSET Waiting'
    BY DEF W!Signalled, Waiting, W!InWait
  <2> QED
    BY <2>1, <2>2
<1>4. Cardinality(W!Signalled') <= waiters /\ Cardinality(W!Signalled') \in Nat
  BY <1>1, <1>3, ThreadsAreFinite, FS_Subset, FS_CardinalityType DEF Assumptions
<1>5. ~Sleepy'
  BY <1>1, <1>3, <1>4 DEF Sleepy
<1> QED
  BY <1>1, <1>2, <1>5, WakingKeeps

-----------------------------------------------------------------------------
LEMMA ConditionInit ==
  ASSUME Assumptions, W!Init
  PROVE  DueInv
<1>1. W!ConditionTypeOK
  BY DEF W!Init, W!ConditionTypeOK, W!MutexInit, W!MutexTypeOK, W!LockStates, Assumptions
<1>2. Waiting = {} /\ W!Signalled = {}
  BY DEF W!Init, Waiting, W!Signalled, W!InWait
<1>3. Cardinality(Waiting) = 0 /\ Cardinality(W!Signalled) = 0
  BY <1>2, FS_EmptySet
<1>4. GoingToSleep = {}
  BY DEF W!Init, GoingToSleep
<1> QED
  BY <1>1, <1>3, <1>4 DEF W!Init, DueInv, Sleepy

LEMMA ConditionStep ==
  ASSUME Assumptions, DueInv, [W!Next]_(W!vars)
  PROVE  DueInv'
<1>. USE DEF W!vars
<1>1. W!MutexTypeOK
  BY DEF DueInv, W!ConditionTypeOK
<1>2. CASE UNCHANGED W!vars
  BY <1>1, <1>2, ConditionStays DEF W!mutex, W!MutexTypeOK
<1>3. ASSUME NEW t \in Thread, W!Begin(t) \/ W!Add(t) \/ W!Leave(t)
      PROVE  DueInv'
  BY <1>3, OutsideStep
<1>4. ASSUME NEW t \in Thread, W!LockMutex(t) \/ ((W!MutexStep(t) \/ W!Interrupt(t)) /\ UNCHANGED W!condition)
      PROVE  DueInv'
  BY <1>1, <1>4, MutexTyped, ConditionStays DEF W!LockMutex
<1>5. ASSUME NEW t \in Thread, W!Check(t)
      PROVE  DueInv'
  <2>1. CASE UNCHANGED waiters
    BY <1>5, <2>1, OutsideStep
  <2>2. CASE \E when \in {"forever", "running"} : items = 0 /\ W!Wait(t, when)
    BY <1>5, <2>2, WaitStep DEF W!Check
  <2> QED
    BY <1>5, <2>1, <2>2 DEF W!Check
<1>6. ASSUME NEW t \in Thread, W!Notify(t)
      PROVE  DueInv'
  BY <1>6, WakeOneStep, WakeAllStep DEF W!Notify
<1>7. ASSUME NEW t \in Thread, W!UnlockMutex(t) \/ W!Block(t) \/ W!SpuriousWake(t) \/ W!TimeOut(t)
      PROVE  DueInv'
  <2>1. t \in GoingToSleep
    BY <1>7 DEF GoingToSleep, W!UnlockMutex, W!Block, W!SpuriousWake, W!TimeOut
  <2> QED
    BY <1>7, <2>1, SleepyStep
<1>8. ASSUME NEW t \in Thread, W!Resume(t)
      PROVE  DueInv'
  BY <1>8, ResumeStep
<1> QED
  BY <1>2, <1>3, <1>4, <1>5, <1>6, <1>7, <1>8 DEF W!Next

\* While a thread blocks on the condition, as many are about to look at the
\* items or to wake another as there are items, and the count of the waiters
\* is exact: whatever the order of wakes, time-outs, spurious wakeups and
\* locks of the mutex (qwaitcondition_unix.cpp).
THEOREM NoWakeIsSwallowed ==
  ASSUME Nobody \notin Thread, IsFiniteSet(Thread), MaxItems \in Nat
  PROVE  W!Spec => []WakesAreDue
<1>1. W!Init => DueInv
  BY ConditionInit DEF Assumptions
<1>2. DueInv /\ [W!Next]_(W!vars) => DueInv'
  BY ConditionStep DEF Assumptions
<1>3. DueInv => WakesAreDue
  <2>1. W!Blocked # {} => GoingToSleep # {}
    BY DEF W!Blocked, GoingToSleep
  <2>2. W!Cardinality(W!Signalled) = Cardinality(W!Signalled)
    BY DEF W!Cardinality, Cardinality
  <2>3. W!Cardinality(W!AboutToLook) = Cardinality(W!AboutToLook)
    BY DEF W!Cardinality, Cardinality
  <2>4. W!Cardinality({t \in Thread : place[t] \in W!InWait}) = Cardinality(Waiting)
    BY DEF W!Cardinality, Cardinality, Waiting
  <2>5. W!AllowedBack = AllowedBack
    BY <2>2, Zenon DEF W!AllowedBack, AllowedBack
  <2>6. SUFFICES ASSUME DueInv
                 PROVE  W!WakesAreDue
    BY DEF WakesAreDue
  <2>7. waiters = Cardinality(Waiting) /\ W!ConditionTypeOK
    BY <2>6 DEF DueInv
  <2>8. W!Blocked # {} => items <= Cardinality(W!AboutToLook) + AllowedBack
    BY <2>1, <2>6 DEF DueInv, Sleepy
  <2> QED
    BY <2>3, <2>4, <2>5, <2>7, <2>8, Zenon DEF W!WakesAreDue
<1> QED
  BY <1>1, <1>2, <1>3, PTL DEF W!Spec
=============================================================================
