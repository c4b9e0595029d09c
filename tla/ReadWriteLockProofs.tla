------------------------- MODULE ReadWriteLockProofs -------------------------
(***************************************************************************)
(* Proofs about ReadWriteLock, for any finite set of threads and any set   *)
(* of objects on the free list.                                            *)
(*                                                                         *)
(* LockIsKept is not inductive.  The swap that installs an object needs    *)
(* its counts to be those of the pointer that it replaces, and the object  *)
(* to be in one thread's hands; an unlock that has found an object needs   *)
(* it to be still installed.  CallInv says both.  And the critical section *)
(* of an unlock takes a writer out if there is one, which is the caller    *)
(* only because readers and a writer never hold the lock together.         *)
(***************************************************************************)
EXTENDS ReadWriteLock, FiniteSetTheorems, TLAPS

CallInv ==
  \A t \in Thread :
    /\ pc[t] = "swap" => /\ d[t] = Writing \/ d[t][1] = "read"
                         /\ \E p \in Object : val[t] = {p} /\ object[p] = Held(d[t])
    /\ pc[t] # "swap" => val[t] = {}
    /\ pc[t] \in {"mutex", "wait", "awake"} => d[t][1] = "object"
    /\ pc[t] = "unlock" /\ d[t][1] = "object" => d[t] = d_ptr

Exclusive == Holders("write") # {} => Holders("read") = {}

RWInv ==
  /\ RWTypeOK
  /\ CallInv
  /\ Exclusive
  /\ CountsAgree
  /\ NobodySleepsBesideAFreeLock

-----------------------------------------------------------------------------
\* The shapes of the pointer are told apart by their first component.
LEMMA Shapes ==
  ASSUME NEW q \in Pointer
  PROVE  /\ q[1] = "null" <=> q = Null
         /\ q[1] = "write" <=> q = Writing
         /\ q[1] = "read" => q[2] \in 1..Cardinality(Thread) /\ q = Reading(q[2])
         /\ q[1] = "object" <=> \E p \in Object : q = At(p)
         /\ q[1] \in {"null", "write", "read", "object"}
  BY DEF Pointer, Null, Writing, Reading, At

LEMMA ShapesDiffer ==
  /\ Null # Writing
  /\ \A n : Null # Reading(n) /\ Writing # Reading(n) /\ Reading(n)[1] = "read" /\ Reading(n)[2] = n
  /\ \A p : Null # At(p) /\ Writing # At(p) /\ At(p)[1] = "object"
  /\ \A n, p : Reading(n) # At(p)
  /\ \A p, q : At(p) = At(q) => p = q
  /\ Null[1] = "null" /\ Writing[1] = "write"
  BY DEF Null, Writing, Reading, At

-----------------------------------------------------------------------------
\* Sets of threads when one thread moves.

In(t, S) == IF t \in S THEN 1 ELSE 0

\* S and T have the same elements, t aside.
Beside(t, S, T) == \A s : s # t => (s \in S <=> s \in T)

LEMMA CardinalityMoves ==
  ASSUME NEW S, NEW T, NEW t, IsFiniteSet(S), Beside(t, S, T)
  PROVE  /\ IsFiniteSet(T)
         /\ Cardinality(S) \in Nat /\ Cardinality(T) \in Nat
         /\ Cardinality(T) = Cardinality(S) + In(t, T) - In(t, S)
<1>1. IsFiniteSet(S \ {t}) /\ Cardinality(S \ {t}) = Cardinality(S) - In(t, S)
  BY FS_RemoveElement, FS_CardinalityType DEF In
<1>2. CASE t \in T
  <2>1. T = (S \ {t}) \cup {t}
    BY <1>2 DEF Beside
  <2>2. IsFiniteSet(T) /\ Cardinality(T) = Cardinality(S \ {t}) + 1
    BY <1>1, <2>1, FS_AddElement
  <2> QED
    BY <1>1, <1>2, <2>2, FS_CardinalityType DEF In
<1>3. CASE t \notin T
  <2>1. T = S \ {t}
    BY <1>3 DEF Beside
  <2> QED
    BY <1>1, <1>3, <2>1, FS_CardinalityType DEF In
<1> QED
  BY <1>2, <1>3

LEMMA ThreadsAreFinite ==
  /\ \A m : IsFiniteSet(Holders(m)) /\ Cardinality(Holders(m)) \in Nat
  /\ \A p, m : IsFiniteSet(Waiters(p, m)) /\ Cardinality(Waiters(p, m)) \in Nat
<1>1. \A m : Holders(m) \in SUBSET Thread
  BY DEF Holders
<1>2. \A p, m : Waiters(p, m) \in SUBSET Thread
  BY DEF Waiters
<1> QED
  BY <1>1, <1>2, RWAssumption, FS_Subset, FS_CardinalityType

\* A step moves one thread; it may wake others, which go on waiting as before.
OneMoves(t) ==
  \A s \in Thread \ {t} :
    /\ mode'[s] = mode[s] /\ d'[s] = d[s]
    /\ pc'[s] = pc[s] \/ (pc[s] = "wait" /\ pc'[s] = "awake")

LEMMA CountsMove ==
  ASSUME NEW t \in Thread, OneMoves(t)
  PROVE  /\ \A m :
              /\ Cardinality(Holders(m)') =
                   Cardinality(Holders(m)) + In(t, Holders(m)') - In(t, Holders(m))
              /\ Beside(t, Holders(m), Holders(m)')
         /\ \A p, m :
              /\ Cardinality(Waiters(p, m)') =
                   Cardinality(Waiters(p, m)) + In(t, Waiters(p, m)') - In(t, Waiters(p, m))
              /\ Beside(t, Waiters(p, m), Waiters(p, m)')
<1>1. \A m : Beside(t, Holders(m), Holders(m)')
  BY DEF Holders, OneMoves, Beside
<1>2. \A p, m : Beside(t, Waiters(p, m), Waiters(p, m)')
  BY DEF Waiters, OneMoves, Beside
<1>3. \A m : Cardinality(Holders(m)') =
               Cardinality(Holders(m)) + In(t, Holders(m)') - In(t, Holders(m))
  BY <1>1, ThreadsAreFinite, CardinalityMoves
<1>4. \A p, m : Cardinality(Waiters(p, m)') =
                  Cardinality(Waiters(p, m)) + In(t, Waiters(p, m)') - In(t, Waiters(p, m))
  BY <1>2, ThreadsAreFinite, CardinalityMoves
<1> QED
  BY <1>1, <1>2, <1>3, <1>4

-----------------------------------------------------------------------------
\* What the steps outside the lock have in common: t is counted as before.
LEMMA QuietKeeps ==
  ASSUME RWInv, NEW t \in Thread, OneMoves(t), RWTypeOK', CallInv',
         \A m \in Mode : t \in Holders(m)' <=> t \in Holders(m),
         \A p \in Object, m \in Mode : t \notin Waiters(p, m) /\ t \notin Waiters(p, m)',
         pc[t] \notin {"wait", "awake"}, pc'[t] \notin {"wait", "awake"},
         \A s \in Thread \ {t} : pc'[s] = pc[s],
         UNCHANGED d_ptr, ObjectsAreKept',
         \A p \in Object : d_ptr = At(p) => object'[p] = object[p]
  PROVE  RWInv'
<1>1. /\ Cardinality(Holders("read")') = Cardinality(Holders("read"))
      /\ Cardinality(Holders("write")') = Cardinality(Holders("write"))
      /\ \A p \in Object :
           /\ Cardinality(Waiters(p, "read")') = Cardinality(Waiters(p, "read"))
           /\ Cardinality(Waiters(p, "write")') = Cardinality(Waiters(p, "write"))
  BY CountsMove, ThreadsAreFinite DEF In, Mode
<1>2. \A p \in Object, m \in Mode :
        Sleepers(p, m)' = Sleepers(p, m) /\ Waiters(p, m)' = Waiters(p, m)
  BY DEF Sleepers, Waiters, OneMoves
<1>3. \A m \in Mode : Holders(m)' = Holders(m)
  BY DEF Holders, OneMoves
<1>4. PointerAgrees'
  <2>1. \A p \in Object : Standing(p)' = Standing(p)
    BY <1>1 DEF Standing
  <2>2. WaitersAreHere' /\ PointerStands
    BY DEF RWInv, CountsAgree, PointerAgrees, WaitersAreHere, OneMoves
  <2>3. PointerStands'
    BY <1>1, <2>1, <2>2 DEF PointerStands
  <2> QED
    BY <2>2, <2>3 DEF PointerAgrees
<1>5. Exclusive'
  BY <1>3 DEF RWInv, Exclusive, Mode
<1>6. NobodySleepsBesideAFreeLock'
  <2> SUFFICES ASSUME NEW p \in Object, Sleepers(p, "read") # {} \/ Sleepers(p, "write") # {}
               PROVE  object'[p] = object[p]
    BY <1>2 DEF RWInv, NobodySleepsBesideAFreeLock, Mode
  <2>1. d_ptr = At(p)
    BY DEF Sleepers, RWInv, CountsAgree, PointerAgrees, WaitersAreHere
  <2> QED
    BY <2>1
<1> QED
  BY <1>4, <1>5, <1>6 DEF RWInv, CountsAgree

\* t moves on in a call without touching the lock.
LEMMA CallStep ==
  ASSUME RWInv, NEW t \in Thread, UNCHANGED <<d_ptr, object, free, val>>,
         NEW l \in {"idle", "lock", "mutex", "unlock"}, pc' = [pc EXCEPT ![t] = l],
         NEW m \in Mode, mode' = [mode EXCEPT ![t] = m],
         NEW e \in {"forever", "running", "expired"}, deadline' = [deadline EXCEPT ![t] = e],
         NEW q \in Pointer, d' = [d EXCEPT ![t] = q],
         pc[t] \in {"idle", "lock", "mutex", "held", "unlock"},
         l = "unlock" <=> pc[t] \in {"held", "unlock"}, l = "unlock" => m = mode[t] /\ q = d_ptr,
         l = "mutex" => q[1] = "object"
  PROVE  RWInv'
<1>1. RWTypeOK'
  BY DEF RWInv, RWTypeOK
<1>2. /\ \A s \in Thread \ {t} : /\ mode'[s] = mode[s] /\ d'[s] = d[s] /\ pc'[s] = pc[s]
                                 /\ val'[s] = val[s]
      /\ mode'[t] = m /\ d'[t] = q /\ pc'[t] = l
  BY DEF RWInv, RWTypeOK
<1>3. CallInv'
  BY <1>2 DEF RWInv, CallInv
<1>4. ObjectsAreKept'
  BY DEF RWInv, CountsAgree, ObjectsAreKept
<1>5. OneMoves(t)
  BY <1>2 DEF OneMoves
<1>6. \A n \in Mode : t \in Holders(n)' <=> t \in Holders(n)
  BY <1>2 DEF Holders
<1>7. \A p \in Object, n \in Mode : t \notin Waiters(p, n) /\ t \notin Waiters(p, n)'
  BY <1>2 DEF Waiters
<1> QED
  BY <1>1, <1>2, <1>3, <1>4, <1>5, <1>6, <1>7, QuietKeeps

LEMMA CallKeeps ==
  ASSUME RWInv, NEW t \in Thread,
         \/ \E m \in Mode, when \in {"forever", "running", "expired"} : Lock(t, m, when)
         \/ GiveUp(t) \/ Load(t) \/ Unlock(t)
         \/ pc[t] \in {"lock", "unlock"} /\ Reload(t)
         \/ /\ pc[t] = "mutex" /\ d' = [d EXCEPT ![t] = d_ptr]
            /\ pc' = [pc EXCEPT ![t] = "lock"]
            /\ UNCHANGED <<d_ptr, object, free, mode, deadline, val>>
  PROVE  RWInv'
<1>1. /\ d_ptr \in Pointer /\ Null \in Pointer /\ mode[t] \in Mode /\ "read" \in Mode
      /\ deadline[t] \in {"forever", "running", "expired"}
      /\ mode = [mode EXCEPT ![t] = mode[t]] /\ deadline = [deadline EXCEPT ![t] = deadline[t]]
      /\ pc = [pc EXCEPT ![t] = pc[t]]
  BY DEF RWInv, RWTypeOK, Pointer, Mode
<1>2. CASE \E m \in Mode, when \in {"forever", "running", "expired"} : Lock(t, m, when)
  <2>1. PICK m \in Mode, when \in {"forever", "running", "expired"} : Lock(t, m, when)
    BY <1>2
  <2>2. /\ pc[t] = "idle" /\ pc' = [pc EXCEPT ![t] = "lock"]
        /\ mode' = [mode EXCEPT ![t] = m] /\ deadline' = [deadline EXCEPT ![t] = when]
        /\ d' = [d EXCEPT ![t] = d_ptr] /\ UNCHANGED <<d_ptr, object, free, val>>
    BY <2>1 DEF Lock
  <2> QED
    BY <1>1, <2>2, CallStep
<1>3. CASE GiveUp(t)
  BY <1>1, <1>3, CallStep DEF GiveUp, MustWait, Leave
<1>4. CASE Load(t)
  BY <1>1, <1>4, CallStep DEF Load
<1>5. CASE Unlock(t)
  BY <1>1, <1>5, CallStep DEF Unlock
<1>6. CASE pc[t] \in {"lock", "unlock"} /\ Reload(t)
  BY <1>1, <1>6, CallStep DEF Reload
<1>7. CASE /\ pc[t] = "mutex" /\ d' = [d EXCEPT ![t] = d_ptr]
           /\ pc' = [pc EXCEPT ![t] = "lock"]
           /\ UNCHANGED <<d_ptr, object, free, mode, deadline, val>>
  BY <1>1, <1>7, CallStep
<1> QED
  BY <1>2, <1>3, <1>4, <1>5, <1>6, <1>7

-----------------------------------------------------------------------------
\* The lock without an object.

LEMMA NoObject ==
  ASSUME RWInv, d_ptr[1] # "object", NEW s \in Thread
  PROVE  /\ pc[s] \notin {"wait", "awake"}
         /\ pc[s] = "unlock" => d[s][1] # "object"
         /\ \A p : d_ptr # At(p)
  BY ShapesDiffer DEF RWInv, CallInv, CountsAgree, PointerAgrees, WaitersAreHere

\* What follows from the absence of waiters.
LEMMA NoWaiters ==
  ASSUME \A s \in Thread : pc'[s] \notin {"wait", "awake"}
  PROVE  WaitersAreHere' /\ NobodySleepsBesideAFreeLock'
  BY DEF WaitersAreHere, NobodySleepsBesideAFreeLock, Sleepers

\* The swap that locks.
LEMMA TryLockKeeps ==
  ASSUME RWInv, NEW t \in Thread, TryLock(t), d_ptr = d[t],
         d_ptr' = IF mode[t] = "write" THEN Writing ELSE Reading(d[t][2] + 1),
         Succeed(t), UNCHANGED <<object, free, val>>
  PROVE  RWInv'
<1>1. /\ d_ptr \in Pointer /\ d_ptr[1] # "object" /\ pc[t] = "lock" /\ mode[t] \in Mode
      /\ d_ptr = Null \/ (mode[t] = "read" /\ d_ptr[1] = "read")
  BY ShapesDiffer DEF TryLock, RWInv, RWTypeOK
<1>2. /\ \A s \in Thread \ {t} : d'[s] = d[s] /\ pc'[s] = pc[s]
      /\ pc'[t] = "held" /\ mode' = mode /\ d'[t] = Null
  BY DEF Succeed, RWInv, RWTypeOK
<1>3. /\ OneMoves(t)
      /\ \A m \in Mode : /\ t \notin Holders(m)
                         /\ t \in Holders(m)' <=> m = mode[t]
  BY <1>1, <1>2 DEF OneMoves, Holders
<1>4. \A m \in Mode :
        Cardinality(Holders(m)') = Cardinality(Holders(m)) + IF m = mode[t] THEN 1 ELSE 0
  BY <1>3, CountsMove, ThreadsAreFinite DEF In
<1>5. /\ Cardinality(Holders("write")) = 0
      /\ \/ d_ptr = Null /\ Cardinality(Holders("read")) = 0
         \/ d_ptr = Reading(Cardinality(Holders("read"))) /\ mode[t] = "read"
  <2>1. PointerStands
    BY DEF RWInv, CountsAgree, PointerAgrees
  <2> QED
    BY <1>1, <2>1, NoObject, Shapes, ShapesDiffer DEF PointerStands
<1>6. d_ptr' = IF mode[t] = "write" THEN Writing
               ELSE Reading(Cardinality(Holders("read")) + 1)
  <2>1. Null[2] = 0
    BY DEF Null
  <2> QED
    BY <1>5, <2>1, ShapesDiffer
<1>7. PointerStands'
  <2>1. CASE mode[t] = "write"
    <3>1. /\ Cardinality(Holders("read")') = 0 /\ Cardinality(Holders("write")') = 1
          /\ d_ptr' = Writing
      BY <1>4, <1>5, <1>6, <2>1, ShapesDiffer DEF Mode
    <3> QED
      BY <3>1 DEF PointerStands
  <2>2. CASE mode[t] = "read"
    <3>1. /\ Cardinality(Holders("read")') = Cardinality(Holders("read")) + 1
          /\ Cardinality(Holders("write")') = 0
          /\ d_ptr' = Reading(Cardinality(Holders("read")) + 1)
      BY <1>4, <1>5, <1>6, <2>2 DEF Mode
    <3> QED
      BY <3>1, ShapesDiffer DEF PointerStands
  <2> QED
    BY <1>1, <2>1, <2>2 DEF Mode
<1>8. d_ptr' \in Pointer
  <2>1. Holders("read")' \in SUBSET Thread
    BY DEF Holders
  <2>2. /\ Cardinality(Holders("read")') <= Cardinality(Thread)
        /\ Cardinality(Thread) \in Nat
    BY <2>1, RWAssumption, FS_Subset, FS_CardinalityType
  <2>3. mode[t] = "read" => Cardinality(Holders("read")) + 1 \in 1..Cardinality(Thread)
    BY <1>4, <2>2, ThreadsAreFinite DEF Mode
  <2> QED
    BY <1>1, <1>6, <2>3 DEF Pointer, Mode
<1>9. RWTypeOK'
  BY <1>2, <1>8 DEF RWInv, RWTypeOK, Succeed, Pointer
<1>10. CallInv'
  BY <1>1, <1>2, NoObject DEF RWInv, CallInv
<1>11. Exclusive'
  <2>1. Holders("write") = {}
    BY <1>5, ThreadsAreFinite, FS_EmptySet
  <2>2. mode[t] = "write" => Holders("read") = {}
    BY <1>5, ThreadsAreFinite, FS_EmptySet
  <2>3. mode[t] = "write" => Holders("read")' = {}
    BY <1>2, <2>2 DEF Holders
  <2>4. mode[t] = "read" => Holders("write")' = {}
    BY <1>2, <2>1 DEF Holders
  <2> QED
    BY <1>1, <2>3, <2>4 DEF Exclusive, Mode
<1>12. ObjectsAreKept'
  <2>1. \A p \in Object : d_ptr # At(p) /\ d_ptr' # At(p)
    BY <1>1, <1>6, NoObject, ShapesDiffer
  <2> QED
    BY <2>1 DEF RWInv, CountsAgree, ObjectsAreKept
<1>13. WaitersAreHere' /\ NobodySleepsBesideAFreeLock'
  BY <1>1, <1>2, NoObject, NoWaiters
<1> QED
  BY <1>7, <1>9, <1>10, <1>11, <1>12, <1>13 DEF RWInv, CountsAgree, PointerAgrees

\* The swap that unlocks.
LEMMA UnlockSwapKeeps ==
  ASSUME RWInv, NEW t \in Thread, UnlockSwap(t), d_ptr = d[t],
         d_ptr' = IF d[t][1] = "read" /\ d[t][2] > 1 THEN Reading(d[t][2] - 1) ELSE Null,
         pc' = [pc EXCEPT ![t] = "idle"], Leave(t), UNCHANGED <<object, free, val>>
  PROVE  RWInv'
<1>1. /\ d_ptr \in Pointer /\ d_ptr[1] \in {"read", "write"} /\ pc[t] = "unlock"
      /\ mode[t] \in Mode
  BY DEF UnlockSwap, RWInv, RWTypeOK
<1>2. /\ \A s \in Thread \ {t} : d'[s] = d[s] /\ pc'[s] = pc[s] /\ mode'[s] = mode[s]
      /\ pc'[t] = "idle"
  BY DEF Leave, RWInv, RWTypeOK
<1>3. /\ OneMoves(t)
      /\ \A m \in Mode : /\ t \notin Holders(m)'
                         /\ t \in Holders(m) <=> m = mode[t]
  BY <1>1, <1>2 DEF OneMoves, Holders
<1>4. \A m \in Mode :
        Cardinality(Holders(m)') = Cardinality(Holders(m)) - IF m = mode[t] THEN 1 ELSE 0
  BY <1>3, CountsMove, ThreadsAreFinite DEF In
<1>5. \A m \in Mode : Cardinality(Holders(m)') \in Nat
  <2>1. \A m \in Mode : IsFiniteSet(Holders(m)') 
    <3>1. \A m \in Mode : Holders(m)' \in SUBSET Thread
      BY DEF Holders
    <3> QED
      BY <3>1, RWAssumption, FS_Subset
  <2> QED
    BY <2>1, FS_CardinalityType
<1>6. \/ d_ptr = Writing /\ d_ptr' = Null /\ mode[t] = "write"
         /\ Cardinality(Holders("read")) = 0 /\ Cardinality(Holders("write")) = 1
      \/ /\ d_ptr = Reading(Cardinality(Holders("read"))) /\ mode[t] = "read"
         /\ d_ptr' = IF Cardinality(Holders("read")) > 1
                     THEN Reading(Cardinality(Holders("read")) - 1) ELSE Null
         /\ Cardinality(Holders("write")) = 0
  <2>1. PointerStands
    BY DEF RWInv, CountsAgree, PointerAgrees
  <2>2. \A m \in Mode : Cardinality(Holders(m)) = 0 => mode[t] # m
    BY <1>4, <1>5
  <2>3. d_ptr = Writing => d_ptr' = Null
    BY ShapesDiffer
  <2> QED
    BY <1>1, <2>1, <2>2, <2>3, NoObject, Shapes, ShapesDiffer DEF PointerStands, Mode
<1>7. PointerStands'
  BY <1>4, <1>5, <1>6, ShapesDiffer, ThreadsAreFinite DEF PointerStands, Mode
<1>8. d_ptr' \in Pointer
  <2>1. Cardinality(Holders("read")) <= Cardinality(Thread) /\ Cardinality(Thread) \in Nat
    <3>1. Holders("read") \in SUBSET Thread
      BY DEF Holders
    <3> QED
      BY <3>1, RWAssumption, FS_Subset, FS_CardinalityType
  <2> QED
    BY <1>6, <2>1, ThreadsAreFinite DEF Pointer
<1>9. RWTypeOK'
  BY <1>2, <1>8 DEF RWInv, RWTypeOK, Leave, Pointer, Mode
<1>10. CallInv'
  BY <1>1, <1>2, NoObject DEF RWInv, CallInv
<1>11. Exclusive'
  BY <1>2 DEF RWInv, Exclusive, Holders
<1>12. ObjectsAreKept'
  <2>1. \A p \in Object : d_ptr # At(p) /\ d_ptr' # At(p)
    BY <1>1, <1>6, NoObject, ShapesDiffer
  <2> QED
    BY <2>1 DEF RWInv, CountsAgree, ObjectsAreKept
<1>13. WaitersAreHere' /\ NobodySleepsBesideAFreeLock'
  BY <1>1, <1>2, NoObject, NoWaiters
<1> QED
  BY <1>7, <1>9, <1>10, <1>11, <1>12, <1>13 DEF RWInv, CountsAgree, PointerAgrees

-----------------------------------------------------------------------------
\* Installing an object.

LEMMA HeldIsCounts ==
  ASSUME NEW q \in Pointer, q = Writing \/ q[1] = "read"
  PROVE  /\ Held(q) \in Counts /\ Held(q) # NoCounts
         /\ q = Writing => Held(q) = [readers |-> 0, writers |-> 1,
                                     waitingReaders |-> 0, waitingWriters |-> 0]
         /\ q[1] = "read" => Held(q) = [readers |-> q[2], writers |-> 0,
                                       waitingReaders |-> 0, waitingWriters |-> 0]
<1>1. CASE q = Writing
  <2>1. Held(q) = [readers |-> 0, writers |-> 1, waitingReaders |-> 0, waitingWriters |-> 0]
    BY <1>1, ShapesDiffer DEF Held
  <2> QED
    BY <1>1, <2>1, ShapesDiffer DEF Counts, NoCounts
<1>2. CASE q[1] = "read"
  <2>1. q # Writing /\ q[2] \in Nat /\ q[2] >= 1
    BY <1>2, Shapes, ShapesDiffer
  <2>2. Held(q) = [readers |-> q[2], writers |-> 0, waitingReaders |-> 0, waitingWriters |-> 0]
    BY <1>2, <2>1 DEF Held
  <2> QED
    BY <1>2, <2>1, <2>2 DEF Counts, NoCounts
<1> QED
  BY <1>1, <1>2

LEMMA AllocateKeeps ==
  ASSUME RWInv, NEW t \in Thread, Allocate(t)
  PROVE  RWInv'
<1>1. PICK p \in free : /\ free' = free \ {p}
                        /\ object' = [object EXCEPT ![p] = Held(d[t])]
                        /\ val' = [val EXCEPT ![t] = {p}]
  BY DEF Allocate
<1>2. /\ pc[t] = "lock" /\ pc' = [pc EXCEPT ![t] = "swap"]
      /\ UNCHANGED <<d_ptr, mode, deadline, d>>
      /\ d[t] \in Pointer
      /\ d[t] = Writing \/ d[t][1] = "read"
      /\ p \in Object
  BY DEF Allocate, MustWait, RWInv, RWTypeOK
<1>3. Held(d[t]) \in Counts
  BY <1>2, HeldIsCounts
<1>4. RWTypeOK'
  BY <1>1, <1>2, <1>3 DEF RWInv, RWTypeOK
<1>5. /\ \A s \in Thread \ {t} : pc'[s] = pc[s] /\ val'[s] = val[s]
      /\ pc'[t] = "swap" /\ val'[t] = {p} /\ val[t] = {}
      /\ \A q \in Object \ {p} : object'[q] = object[q]
      /\ object'[p] = Held(d[t])
  BY <1>1, <1>2 DEF RWInv, RWTypeOK, CallInv
<1>6. /\ d_ptr # At(p) /\ \A s \in Thread : p \notin val[s]
      /\ \A q \in free : object[q] = NoCounts
      /\ \A q \in Object : d_ptr = At(q) => object[q] # NoCounts
      /\ \A q \in Object : q \notin free <=> d_ptr = At(q) \/ \E s \in Thread : q \in val[s]
      /\ \A q \in Object, s \in Thread : d_ptr = At(q) => q \notin val[s]
      /\ \A r, s \in Thread : r # s => val[r] \cap val[s] = {}
  BY <1>1, <1>2 DEF RWInv, CountsAgree, ObjectsAreKept
<1>7. CallInv'
  BY <1>1, <1>2, <1>5, <1>6 DEF RWInv, CallInv
<1>8. ObjectsAreKept'
  <2>1. \A q \in Object : q \notin free'
           <=> d_ptr' = At(q) \/ \E s \in Thread : q \in val'[s]
    BY <1>1, <1>2, <1>5, <1>6
  <2>2. \A q \in Object, s \in Thread : d_ptr' = At(q) => q \notin val'[s]
    BY <1>2, <1>5, <1>6
  <2>3. \A r, s \in Thread : r # s => val'[r] \cap val'[s] = {}
    BY <1>5, <1>6
  <2>4. \A q \in free' : q \in Object /\ object'[q] = NoCounts
    BY <1>1, <1>5, <1>6 DEF RWInv, RWTypeOK
  <2>5. \A q \in Object : d_ptr' = At(q) => object'[q] # NoCounts
    BY <1>2, <1>5, <1>6
  <2>6. \A s \in Thread : val'[s] \subseteq Object
    BY <1>4 DEF RWTypeOK
  <2> QED
    BY <2>1, <2>2, <2>3, <2>4, <2>5, <2>6 DEF ObjectsAreKept
<1>9. OneMoves(t)
  BY <1>2, <1>5 DEF OneMoves
<1>10. \A m \in Mode : t \in Holders(m)' <=> t \in Holders(m)
  BY <1>2, <1>5 DEF Holders
<1>11. \A q \in Object, m \in Mode : t \notin Waiters(q, m) /\ t \notin Waiters(q, m)'
  BY <1>2, <1>5 DEF Waiters
<1> QED
  BY <1>2, <1>4, <1>5, <1>6, <1>7, <1>8, <1>9, <1>10, <1>11, QuietKeeps

LEMMA SwapFailsKeeps ==
  ASSUME RWInv, NEW t \in Thread, pc[t] = "swap", NEW p \in Object, val[t] = {p},
         d_ptr # d[t], object' = [object EXCEPT ![p] = NoCounts], free' = free \cup {p},
         d' = [d EXCEPT ![t] = d_ptr], pc' = [pc EXCEPT ![t] = "lock"],
         val' = [val EXCEPT ![t] = {}], UNCHANGED <<d_ptr, mode, deadline>>
  PROVE  RWInv'
<1>1. RWTypeOK'
  BY DEF RWInv, RWTypeOK, NoCounts, Counts
<1>2. /\ \A s \in Thread \ {t} : pc'[s] = pc[s] /\ val'[s] = val[s] /\ d'[s] = d[s]
      /\ pc'[t] = "lock" /\ val'[t] = {}
      /\ \A q \in Object \ {p} : object'[q] = object[q]
      /\ object'[p] = NoCounts
  BY DEF RWInv, RWTypeOK
<1>3. /\ d_ptr # At(p) /\ \A s \in Thread \ {t} : p \notin val[s]
      /\ \A q \in free : object[q] = NoCounts
      /\ \A q \in Object : d_ptr = At(q) => object[q] # NoCounts
      /\ \A q \in Object : q \notin free <=> d_ptr = At(q) \/ \E s \in Thread : q \in val[s]
      /\ \A q \in Object, s \in Thread : d_ptr = At(q) => q \notin val[s]
      /\ \A r, s \in Thread : r # s => val[r] \cap val[s] = {}
  BY DEF RWInv, CountsAgree, ObjectsAreKept
<1>4. CallInv'
  BY <1>2, <1>3 DEF RWInv, CallInv
<1>5. ObjectsAreKept'
  <2>1. \A q \in Object : q \notin free'
           <=> d_ptr' = At(q) \/ \E s \in Thread : q \in val'[s]
    BY <1>2, <1>3
  <2>2. \A q \in Object, s \in Thread : d_ptr' = At(q) => q \notin val'[s]
    BY <1>2, <1>3
  <2>3. \A r, s \in Thread : r # s => val'[r] \cap val'[s] = {}
    BY <1>2, <1>3
  <2>4. \A q \in free' : q \in Object /\ object'[q] = NoCounts
    BY <1>2, <1>3 DEF RWInv, RWTypeOK
  <2>5. \A q \in Object : d_ptr' = At(q) => object'[q] # NoCounts
    BY <1>2, <1>3
  <2>6. \A s \in Thread : val'[s] \subseteq Object
    BY <1>1 DEF RWTypeOK
  <2> QED
    BY <2>1, <2>2, <2>3, <2>4, <2>5, <2>6 DEF ObjectsAreKept
<1>6. OneMoves(t)
  BY <1>2 DEF OneMoves
<1>7. \A m \in Mode : t \in Holders(m)' <=> t \in Holders(m)
  BY <1>2 DEF Holders
<1>8. \A q \in Object, m \in Mode : t \notin Waiters(q, m) /\ t \notin Waiters(q, m)'
  BY <1>2 DEF Waiters
<1> QED
  BY <1>1, <1>2, <1>3, <1>4, <1>5, <1>6, <1>7, <1>8, QuietKeeps

LEMMA SwapKeeps ==
  ASSUME RWInv, NEW t \in Thread, pc[t] = "swap", NEW p \in Object, val[t] = {p},
         d_ptr = d[t], d_ptr' = At(p), d' = [d EXCEPT ![t] = At(p)],
         pc' = [pc EXCEPT ![t] = "lock"], val' = [val EXCEPT ![t] = {}],
         UNCHANGED <<object, free, mode, deadline>>
  PROVE  RWInv'
<1>1. RWTypeOK'
  BY DEF RWInv, RWTypeOK, Pointer
<1>2. /\ \A s \in Thread \ {t} : pc'[s] = pc[s] /\ val'[s] = val[s] /\ d'[s] = d[s]
      /\ pc'[t] = "lock" /\ val'[t] = {}
  BY DEF RWInv, RWTypeOK
<1>3. /\ d_ptr \in Pointer /\ d_ptr[1] # "object" /\ object[p] = Held(d_ptr)
      /\ d_ptr = Writing \/ d_ptr[1] = "read"
  BY ShapesDiffer DEF RWInv, RWTypeOK, CallInv
<1>4. /\ \A s \in Thread \ {t} : p \notin val[s]
      /\ \A q \in free : object[q] = NoCounts
      /\ \A q \in Object : q \notin free <=> d_ptr = At(q) \/ \E s \in Thread : q \in val[s]
      /\ \A r, s \in Thread : r # s => val[r] \cap val[s] = {}
  BY DEF RWInv, CountsAgree, ObjectsAreKept
<1>5. /\ CallInv' /\ WaitersAreHere' /\ NobodySleepsBesideAFreeLock'
  BY <1>2, <1>3, NoObject, NoWaiters DEF RWInv, CallInv
<1>6. \A m \in Mode, q \in Object : Holders(m)' = Holders(m) /\ Waiters(q, m)' = {}
  BY <1>2, <1>3, NoObject DEF Holders, Waiters
<1>7. Exclusive'
  BY <1>6 DEF Mode, RWInv, Exclusive
<1>8. object[p] = Standing(p)'
  <2>1. PointerStands
    BY DEF RWInv, CountsAgree, PointerAgrees
  <2>2. \/ d_ptr = Writing /\ Cardinality(Holders("read")) = 0
                          /\ Cardinality(Holders("write")) = 1
        \/ d_ptr[1] = "read" /\ Cardinality(Holders("read")) = d_ptr[2]
                             /\ Cardinality(Holders("write")) = 0
    BY <1>3, <2>1, NoObject, ShapesDiffer DEF PointerStands
  <2>3. Standing(p)' = [readers |-> Cardinality(Holders("read")),
                        writers |-> Cardinality(Holders("write")),
                        waitingReaders |-> 0, waitingWriters |-> 0]
    BY <1>6, FS_EmptySet DEF Standing, Mode
  <2> QED
    BY <1>3, <2>2, <2>3, HeldIsCounts
<1>9. PointerStands'
  BY <1>8 DEF PointerStands
<1>10. ObjectsAreKept'
  <2>1. \A q \in Object : d_ptr' = At(q) <=> q = p
    BY ShapesDiffer
  <2>2. \A q \in Object : d_ptr # At(q)
    BY <1>3, NoObject
  <2>3. \A q \in Object : q \notin free'
           <=> d_ptr' = At(q) \/ \E s \in Thread : q \in val'[s]
    BY <1>2, <1>4, <2>1, <2>2
  <2>4. \A q \in Object, s \in Thread : d_ptr' = At(q) => q \notin val'[s]
    BY <1>2, <1>4, <2>1
  <2>5. \A r, s \in Thread : r # s => val'[r] \cap val'[s] = {}
    BY <1>2, <1>4
  <2>6. \A q \in free' : q \in Object /\ object'[q] = NoCounts
    BY <1>4 DEF RWInv, RWTypeOK
  <2>7. \A q \in Object : d_ptr' = At(q) => object'[q] # NoCounts
    BY <1>3, <2>1, HeldIsCounts
  <2>8. \A s \in Thread : val'[s] \subseteq Object
    BY <1>1 DEF RWTypeOK
  <2> QED
    BY <2>3, <2>4, <2>5, <2>6, <2>7, <2>8 DEF ObjectsAreKept
<1> QED
  BY <1>1, <1>5, <1>7, <1>9, <1>10 DEF RWInv, CountsAgree, PointerAgrees

LEMMA InstallKeeps ==
  ASSUME RWInv, NEW t \in Thread, Install(t)
  PROVE  RWInv'
<1>1. PICK p \in Object : val[t] = {p}
  BY DEF Install, RWInv, CallInv
<1>2. CASE d_ptr = d[t]
  BY <1>1, <1>2, SwapKeeps DEF Install
<1>3. CASE d_ptr # d[t]
  BY <1>1, <1>3, SwapFailsKeeps DEF Install
<1> QED
  BY <1>2, <1>3

-----------------------------------------------------------------------------
\* The lock with an object.

\* What a critical section of the object's mutex has to show.
LEMMA ObjectStep ==
  ASSUME RWInv, NEW t \in Thread, OneMoves(t), NEW p \in Object, d_ptr = At(p),
         UNCHANGED <<d_ptr, free, val>>,
         NEW c, c # NoCounts, object' = [object EXCEPT ![p] = c], c = Standing(p)',
         RWTypeOK', Exclusive', pc[t] # "swap", pc'[t] \in {"idle", "held", "wait", "awake"},
         pc'[t] \in {"wait", "awake"} => d'[t] = At(p),
         Sleepers(p, "read")' # {} => c.writers > 0 \/ c.waitingWriters > 0,
         Sleepers(p, "write")' # {} => \/ c.writers > 0 \/ c.readers > 0
                                      \/ Waiters(p, "write")' # Sleepers(p, "write")'
  PROVE  RWInv'
<1>1. object'[p] = c /\ \A q \in Object \ {p} : object'[q] = object[q]
  BY DEF RWInv, RWTypeOK
<1>2. PointerStands'
  BY <1>1 DEF PointerStands
<1>3. \A s \in Thread \ {t} :
        d'[s] = d[s] /\ (pc'[s] = pc[s] \/ (pc[s] = "wait" /\ pc'[s] = "awake"))
  BY DEF OneMoves
<1>4. WaitersAreHere'
  BY <1>3 DEF RWInv, CountsAgree, PointerAgrees, WaitersAreHere
<1>5. ObjectsAreKept'
  BY <1>1, ShapesDiffer DEF RWInv, CountsAgree, ObjectsAreKept, RWTypeOK
<1>6. \A s \in Thread : p \notin val[s]
  BY DEF RWInv, CountsAgree, ObjectsAreKept
<1>7. CallInv'
  <2> SUFFICES ASSUME NEW s \in Thread
               PROVE  /\ pc'[s] = "swap" =>
                           /\ d'[s] = Writing \/ d'[s][1] = "read"
                           /\ \E q \in Object : val'[s] = {q} /\ object'[q] = Held(d'[s])
                      /\ pc'[s] # "swap" => val'[s] = {}
                      /\ pc'[s] \in {"mutex", "wait", "awake"} => d'[s][1] = "object"
                      /\ pc'[s] = "unlock" /\ d'[s][1] = "object" => d'[s] = d_ptr'
    BY DEF CallInv
  <2>1. CASE s = t
    BY <2>1, ShapesDiffer DEF RWInv, CallInv
  <2>2. CASE s # t
    BY <1>1, <1>3, <1>6, <2>2 DEF RWInv, CallInv
  <2> QED
    BY <2>1, <2>2
<1>8. NobodySleepsBesideAFreeLock'
  <2> SUFFICES ASSUME NEW q \in Object, q # p
               PROVE  Sleepers(q, "read")' = {} /\ Sleepers(q, "write")' = {}
    BY <1>1 DEF NobodySleepsBesideAFreeLock
  <2> QED
    BY <1>4, ShapesDiffer DEF WaitersAreHere, Sleepers
<1> QED
  BY <1>2, <1>4, <1>5, <1>7, <1>8 DEF RWInv, CountsAgree, PointerAgrees

LEMMA WakeKeeps ==
  ASSUME RWInv, NEW t \in Thread, TimeOut(t) \/ SpuriousWake(t)
  PROVE  RWInv'
<1>1. /\ pc[t] = "wait" /\ pc' = [pc EXCEPT ![t] = "awake"]
      /\ UNCHANGED <<d_ptr, object, free, mode, d, val>>
  BY DEF TimeOut, SpuriousWake
<1>2. PICK p \in Object : d_ptr = At(p) /\ d[t] = At(p)
  <2>1. d[t] = d_ptr /\ d[t][1] = "object" /\ d_ptr \in Pointer
    BY <1>1 DEF RWInv, CallInv, CountsAgree, PointerAgrees, WaitersAreHere, RWTypeOK
  <2> QED
    BY <2>1, Shapes
<1>3. RWTypeOK'
  BY <1>1 DEF RWInv, RWTypeOK, TimeOut, SpuriousWake
<1>4. pc'[t] = "awake" /\ \A s \in Thread \ {t} : pc'[s] = pc[s]
  BY <1>1 DEF RWInv, RWTypeOK
<1>5. OneMoves(t)
  BY <1>1, <1>4 DEF OneMoves
<1>6. \A m : /\ Holders(m)' = Holders(m) /\ Waiters(p, m)' = Waiters(p, m)
             /\ Sleepers(p, m)' = Sleepers(p, m) \ {t}
  BY <1>1, <1>4 DEF Holders, Waiters, Sleepers
<1>7. Exclusive'
  BY <1>6 DEF RWInv, Exclusive
<1>8. object[p] # NoCounts /\ object[p] = Standing(p)
  BY <1>2, ShapesDiffer
     DEF RWInv, CountsAgree, ObjectsAreKept, PointerAgrees, PointerStands
<1>9. Standing(p)' = Standing(p)
  BY <1>6 DEF Standing
<1>10. mode[t] = "write" => t \in Waiters(p, "write") /\ t \notin Sleepers(p, "write")'
  BY <1>1, <1>2, <1>4 DEF Waiters, Sleepers
<1>11. mode[t] # "write" => Sleepers(p, "write")' = Sleepers(p, "write")
  BY <1>6 DEF Sleepers
<1>12. object' = [object EXCEPT ![p] = object[p]]
  BY <1>1 DEF RWInv, RWTypeOK
<1>13. /\ Sleepers(p, "read")' # {} => object[p].writers > 0 \/ object[p].waitingWriters > 0
       /\ Sleepers(p, "write")' # {} => \/ object[p].writers > 0 \/ object[p].readers > 0
                                        \/ Waiters(p, "write")' # Sleepers(p, "write")'
  BY <1>6, <1>10, <1>11 DEF RWInv, NobodySleepsBesideAFreeLock
<1> QED
  BY <1>1, <1>2, <1>3, <1>4, <1>5, <1>7, <1>8, <1>9, <1>12, <1>13, ObjectStep

\* The waiters apart from t.
Others(p, m, t) == Waiters(p, m) \ {t}

LEMMA OthersAreFinite ==
  \A p, m, t :
    /\ Cardinality(Others(p, m, t)) \in Nat
    /\ Cardinality(Others(p, m, t)) = Cardinality(Waiters(p, m)) - In(t, Waiters(p, m))
BY ThreadsAreFinite, FS_RemoveElement, FS_CardinalityType DEF In, Others

\* A turn of the loop: the thread takes the lock, waits, or gives up.
LEMMA TakeOrWaitKeeps ==
  ASSUME RWInv, NEW t \in Thread, NEW p \in Object, pc[t] \in {"mutex", "awake"},
         d[t] = At(p), d_ptr = At(p), NEW c \in Counts, TakeOrWait(t, p, c),
         c.readers = Cardinality(Holders("read")), c.writers = Cardinality(Holders("write")),
         c.waitingReaders = Cardinality(Others(p, "read", t)),
         c.waitingWriters = Cardinality(Others(p, "write", t))
  PROVE  RWInv'
<1>1. object[p] = Standing(p) /\ object[p] \in Counts
  BY ShapesDiffer
     DEF RWInv, RWTypeOK, CountsAgree, PointerAgrees, PointerStands
<1>2. /\ c = [readers |-> c.readers, writers |-> c.writers,
             waitingReaders |-> c.waitingReaders, waitingWriters |-> c.waitingWriters]
      /\ c.readers \in Nat /\ c.writers \in 0..1
      /\ c.waitingReaders \in Nat /\ c.waitingWriters \in Nat
  BY DEF Counts
<1>3. /\ mode[t] \in Mode /\ \A m : t \notin Holders(m) /\ t \notin Sleepers(p, m)
      /\ \A m \in Mode : mode[t] # m => Others(p, m, t) = Waiters(p, m)
  BY DEF RWInv, RWTypeOK, Holders, Sleepers, Waiters, Others
<1>4. Sleepers(p, "read") # {} => c.writers > 0 \/ Cardinality(Waiters(p, "write")) > 0
  BY <1>1, <1>2 DEF RWInv, NobodySleepsBesideAFreeLock, Standing
<1>5. Sleepers(p, "write") # {} => \/ c.writers > 0 \/ c.readers > 0
                                   \/ Waiters(p, "write") # Sleepers(p, "write")
  BY <1>1, <1>2 DEF RWInv, NobodySleepsBesideAFreeLock, Standing
<1>6. UNCHANGED <<d_ptr, free, val>>
  BY DEF TakeOrWait
<1> HIDE DEF RWInv
<1>7. CASE /\ ~Blocked(c, mode[t])
           /\ object' = [object EXCEPT ![p] =
                IF mode[t] = "read" THEN [c EXCEPT !.readers = @ + 1]
                ELSE [c EXCEPT !.writers = 1]]
           /\ Succeed(t)
  <2> DEFINE e ==
        [readers |-> IF mode[t] = "read" THEN c.readers + 1 ELSE c.readers,
         writers |-> IF mode[t] = "read" THEN c.writers ELSE 1,
         waitingReaders |-> c.waitingReaders, waitingWriters |-> c.waitingWriters]
  <2>1. /\ pc' = [pc EXCEPT ![t] = "held"] /\ pc'[t] = "held" /\ mode' = mode
        /\ \A s \in Thread \ {t} : pc'[s] = pc[s] /\ d'[s] = d[s]
    BY <1>7 DEF Succeed, RWInv, RWTypeOK
  <2>2. OneMoves(t)
    BY <2>1 DEF OneMoves
  <2>3. /\ \A m : Sleepers(p, m)' = Sleepers(p, m)
        /\ \A m : Waiters(p, m)' = Others(p, m, t)
    BY <1>3, <2>1 DEF Sleepers, Waiters, Others
  <2>4. \A m \in Mode : Cardinality(Holders(m)') =
                          Cardinality(Holders(m)) + IF m = mode[t] THEN 1 ELSE 0
    <3>1. \A m \in Mode : In(t, Holders(m)) = 0 /\ In(t, Holders(m)') = IF m = mode[t] THEN 1 ELSE 0
      BY <1>3, <2>1 DEF Holders, In
    <3> QED
      BY <2>2, <3>1, CountsMove, ThreadsAreFinite
  <2>5. c.writers = 0 /\ (mode[t] = "write" => c.readers = 0)
        /\ (mode[t] = "read" => c.waitingWriters = 0)
    BY <1>2, <1>7 DEF Blocked, Counts
  <2>6. e \in Counts /\ e # NoCounts
    BY <1>2 DEF Counts, NoCounts
  <2>7. e = Standing(p)'
    <3>1. CASE mode[t] = "read"
      <4>1. /\ Cardinality(Holders("read")') = c.readers + 1
            /\ Cardinality(Holders("write")') = c.writers
        BY <2>4, <3>1, ThreadsAreFinite DEF Mode
      <4> QED
        BY <1>2, <2>3, <3>1, <4>1 DEF Standing
    <3>2. CASE mode[t] = "write"
      <4>1. /\ Cardinality(Holders("read")') = c.readers
            /\ Cardinality(Holders("write")') = 1
        BY <2>4, <2>5, <3>2, ThreadsAreFinite DEF Mode
      <4> QED
        BY <1>2, <2>3, <3>2, <4>1 DEF Standing
    <3> QED
      BY <1>3, <3>1, <3>2 DEF Mode
  <2>8. object' = [object EXCEPT ![p] = e]
    <3>1. CASE mode[t] = "read"
      <4>1. e = [c EXCEPT !.readers = @ + 1]
        BY <1>2, <3>1
      <4> QED
        BY <1>7, <3>1, <4>1
    <3>2. CASE mode[t] # "read"
      <4>1. e = [c EXCEPT !.writers = 1]
        BY <1>2, <3>2
      <4> QED
        BY <1>7, <3>2, <4>1
    <3> QED
      BY <3>1, <3>2
  <2>9. RWTypeOK'
    <3> HIDE DEF e
    <3> QED
      BY <1>6, <1>7, <2>6, <2>8 DEF RWInv, RWTypeOK, Succeed, Pointer
  <2>10. Exclusive'
    <3>1. \A m \in Mode : m # mode[t] => Holders(m)' = Holders(m)
      BY <1>3, <2>1 DEF Holders
    <3>2. Holders("write") = {} /\ (mode[t] = "write" => Holders("read") = {})
      BY <2>5, ThreadsAreFinite, FS_EmptySet
    <3> QED
      BY <1>3, <3>1, <3>2 DEF Exclusive, Mode
  <2>11. Sleepers(p, "read")' # {} => e.writers > 0 \/ e.waitingWriters > 0
    <3>1. mode[t] = "read" => Cardinality(Waiters(p, "write")) = c.waitingWriters
      BY <1>3 DEF Mode
    <3> QED
      BY <1>2, <1>3, <1>4, <2>3, <2>5, <3>1 DEF Mode, Counts
  <2>12. e.writers > 0 \/ e.readers > 0
    BY <1>2, <1>3 DEF Mode, Counts
  <2> HIDE DEF e
  <2> QED
    BY <1>6, <2>1, <2>2, <2>6, <2>7, <2>9, <2>10, <2>11, <2>12, <2>8, ObjectStep
<1>8. CASE /\ Blocked(c, mode[t])
           /\ object' = [object EXCEPT ![p] = c]
           /\ pc' = Notify(TimedOut(p, c, t), t, "idle")
           /\ Leave(t)
  <2>1. /\ pc'[t] = "idle" /\ mode'[t] = "read"
        /\ \A s \in Thread \ {t} :
             /\ d'[s] = d[s] /\ mode'[s] = mode[s]
             /\ pc'[s] = IF s \in TimedOut(p, c, t) THEN "awake" ELSE pc[s]
    BY <1>8 DEF Leave, Notify, RWInv, RWTypeOK
  <2>2. TimedOut(p, c, t) \subseteq Sleepers(p, "read")
    BY DEF TimedOut
  <2>3. OneMoves(t)
    BY <2>1, <2>2 DEF OneMoves, Sleepers
  <2>4. /\ \A m : Holders(m)' = Holders(m)
        /\ \A m : Waiters(p, m)' = Others(p, m, t)
        /\ Sleepers(p, "read")' = Sleepers(p, "read") \ TimedOut(p, c, t)
        /\ Sleepers(p, "write")' = Sleepers(p, "write")
    BY <1>3, <2>1, <2>2 DEF Holders, Waiters, Sleepers, Others
  <2>5. c = Standing(p)'
    BY <1>2, <2>4 DEF Standing
  <2>6. c # NoCounts
    BY <1>2, <1>3, <1>8 DEF Blocked, Counts, NoCounts, Mode
  <2>7. RWTypeOK'
    BY <1>2, <1>6, <1>8 DEF RWInv, RWTypeOK, Leave, Notify, Pointer, Mode
  <2>8. Exclusive'
    BY <2>4 DEF RWInv, Exclusive
  <2>9. Sleepers(p, "read")' # {} => c.writers > 0 \/ c.waitingWriters > 0
    <3>1. CASE mode[t] = "read"
      BY <1>2, <1>8, <3>1 DEF Blocked, Counts
    <3>2. CASE mode[t] = "write"
      BY <1>2, <2>4, <3>2 DEF TimedOut, Counts
    <3> QED
      BY <1>3, <3>1, <3>2 DEF Mode
  <2>10. Sleepers(p, "write")' # {} => \/ c.writers > 0 \/ c.readers > 0
                                       \/ Waiters(p, "write")' # Sleepers(p, "write")'
    <3>1. CASE mode[t] = "read"
      BY <1>3, <1>5, <2>4, <3>1 DEF Mode
    <3>2. CASE mode[t] = "write"
      BY <1>2, <1>8, <3>2 DEF Blocked, Counts
    <3> QED
      BY <1>3, <3>1, <3>2 DEF Mode
  <2> QED
    BY <1>3, <1>6, <1>8, <2>1, <2>3, <2>5, <2>6, <2>7, <2>8, <2>9, <2>10, ObjectStep
<1>9. CASE /\ Blocked(c, mode[t])
           /\ object' = [object EXCEPT ![p] =
                IF mode[t] = "read" THEN [c EXCEPT !.waitingReaders = @ + 1]
                ELSE [c EXCEPT !.waitingWriters = @ + 1]]
           /\ pc' = [pc EXCEPT ![t] = "wait"]
           /\ UNCHANGED <<mode, deadline, d>>
  <2> DEFINE e ==
        [readers |-> c.readers, writers |-> c.writers,
         waitingReaders |-> IF mode[t] = "read" THEN c.waitingReaders + 1 ELSE c.waitingReaders,
         waitingWriters |-> IF mode[t] = "read" THEN c.waitingWriters ELSE c.waitingWriters + 1]
  <2>1. pc'[t] = "wait" /\ mode' = mode /\ d' = d /\ \A s \in Thread \ {t} : pc'[s] = pc[s]
    BY <1>9 DEF RWInv, RWTypeOK
  <2>2. OneMoves(t)
    BY <2>1 DEF OneMoves
  <2>3. /\ \A m : Holders(m)' = Holders(m)
        /\ \A m \in Mode : m # mode[t] => /\ Sleepers(p, m)' = Sleepers(p, m)
                                          /\ Waiters(p, m)' = Waiters(p, m)
    BY <1>3, <2>1 DEF Holders, Sleepers, Waiters
  <2>4. \A m \in Mode : Cardinality(Waiters(p, m)') =
          Cardinality(Others(p, m, t)) + IF m = mode[t] THEN 1 ELSE 0
    <3>1. \A m \in Mode : In(t, Waiters(p, m)') = IF m = mode[t] THEN 1 ELSE 0
      BY <2>1 DEF Waiters, In
    <3>2. \A m \in Mode :
            /\ Cardinality(Waiters(p, m)) \in Nat /\ Cardinality(Others(p, m, t)) \in Nat
            /\ Cardinality(Others(p, m, t)) = Cardinality(Waiters(p, m)) - In(t, Waiters(p, m))
            /\ Cardinality(Waiters(p, m)') =
                 Cardinality(Waiters(p, m)) + In(t, Waiters(p, m)') - In(t, Waiters(p, m))
            /\ In(t, Waiters(p, m)) \in {0, 1}
      <4>1. \A m : In(t, Waiters(p, m)) \in {0, 1}
        BY DEF In
      <4> QED
        BY <2>2, <4>1, CountsMove, ThreadsAreFinite, OthersAreFinite
    <3> QED
      BY <3>1, <3>2
  <2>5. e \in Counts /\ e # NoCounts
    <3>1. c.waitingReaders + 1 \in Nat \ {0} /\ c.waitingWriters + 1 \in Nat \ {0}
      BY <1>2
    <3>2. e \in Counts
      BY <1>2, <3>1 DEF Counts
    <3>3. e.waitingReaders # 0 \/ e.waitingWriters # 0
      BY <3>1
    <3> QED
      BY <3>2, <3>3 DEF NoCounts
  <2>6. e = Standing(p)'
    <3>1. CASE mode[t] = "read"
      <4>1. /\ Cardinality(Waiters(p, "read")') = c.waitingReaders + 1
            /\ Cardinality(Waiters(p, "write")') = c.waitingWriters
        BY <2>4, <3>1, OthersAreFinite DEF Mode
      <4> QED
        BY <1>2, <2>3, <3>1, <4>1 DEF Standing
    <3>2. CASE mode[t] = "write"
      <4>1. /\ Cardinality(Waiters(p, "read")') = c.waitingReaders
            /\ Cardinality(Waiters(p, "write")') = c.waitingWriters + 1
        BY <2>4, <3>2, OthersAreFinite DEF Mode
      <4> QED
        BY <1>2, <2>3, <3>2, <4>1 DEF Standing
    <3> QED
      BY <1>3, <3>1, <3>2 DEF Mode
  <2>7. object' = [object EXCEPT ![p] = e]
    <3>1. CASE mode[t] = "read"
      <4>1. e = [c EXCEPT !.waitingReaders = @ + 1]
        BY <1>2, <3>1
      <4> QED
        BY <1>9, <3>1, <4>1
    <3>2. CASE mode[t] # "read"
      <4>1. e = [c EXCEPT !.waitingWriters = @ + 1]
        BY <1>2, <3>2
      <4> QED
        BY <1>9, <3>2, <4>1
    <3> QED
      BY <3>1, <3>2
  <2>8. RWTypeOK'
    BY <1>6, <1>9, <2>5, <2>7 DEF RWInv, RWTypeOK
  <2>9. Exclusive'
    BY <2>3 DEF RWInv, Exclusive
  <2>10. Sleepers(p, "read")' # {} => e.writers > 0 \/ e.waitingWriters > 0
    <3>1. CASE mode[t] = "read"
      BY <1>2, <1>9, <3>1 DEF Blocked, Counts
    <3>2. CASE mode[t] = "write"
      BY <1>2, <3>2 DEF Counts
    <3> QED
      BY <1>3, <3>1, <3>2 DEF Mode
  <2>11. Sleepers(p, "write")' # {} => \/ e.writers > 0 \/ e.readers > 0
                                       \/ Waiters(p, "write")' # Sleepers(p, "write")'
    <3>1. CASE mode[t] = "read"
      <4>1. e.writers = c.writers /\ e.readers = c.readers
        BY <1>2, <3>1 DEF Counts
      <4> QED
        BY <1>5, <2>3, <3>1, <4>1 DEF Mode
    <3>2. CASE mode[t] = "write"
      BY <1>2, <1>9, <3>2 DEF Blocked, Counts
    <3> QED
      BY <1>3, <3>1, <3>2 DEF Mode
  <2> HIDE DEF e
  <2> QED
    BY <1>6, <2>1, <2>2, <2>5, <2>6, <2>8, <2>9, <2>10, <2>11, <2>7, ObjectStep
<1> QED
  BY <1>7, <1>8, <1>9 DEF TakeOrWait

\* A thread enters the mutex of the lock's object, once counted out of those
\* who wait there, or turns back.
LEMMA EnterIsTurn ==
  ASSUME RWInv, NEW t \in Thread, Enter(t) \/ Resume(t)
  PROVE  \/ \E p \in Object, c \in Counts :
              /\ pc[t] \in {"mutex", "awake"} /\ d[t] = At(p) /\ d_ptr = At(p)
              /\ TakeOrWait(t, p, c)
              /\ c.readers = Cardinality(Holders("read"))
              /\ c.writers = Cardinality(Holders("write"))
              /\ c.waitingReaders = Cardinality(Others(p, "read", t))
              /\ c.waitingWriters = Cardinality(Others(p, "write", t))
         \/ /\ pc[t] = "mutex" /\ d' = [d EXCEPT ![t] = d_ptr]
            /\ pc' = [pc EXCEPT ![t] = "lock"]
            /\ UNCHANGED <<d_ptr, object, free, mode, deadline, val>>
<1>1. /\ \A p \in Object : d_ptr = At(p) => object[p] = Standing(p) /\ object[p] \in Counts
      /\ pc[t] = "awake" => d[t] = d_ptr
  BY ShapesDiffer
     DEF RWInv, RWTypeOK, CountsAgree, PointerAgrees, PointerStands, WaitersAreHere
<1>2. CASE /\ pc[t] = "mutex"
           /\ \E p \in Object : d[t] = At(p) /\ d_ptr = At(p) /\ TakeOrWait(t, p, object[p])
  <2>1. PICK p \in Object : d[t] = At(p) /\ d_ptr = At(p) /\ TakeOrWait(t, p, object[p])
    BY <1>2
  <2>2. \A m : Others(p, m, t) = Waiters(p, m)
    BY <1>2 DEF Others, Waiters
  <2>3. /\ object[p] \in Counts
        /\ object[p].readers = Cardinality(Holders("read"))
        /\ object[p].writers = Cardinality(Holders("write"))
        /\ object[p].waitingReaders = Cardinality(Others(p, "read", t))
        /\ object[p].waitingWriters = Cardinality(Others(p, "write", t))
    <3>1. object[p] = Standing(p) /\ object[p] \in Counts
      BY <1>1, <2>1
    <3>2. /\ Cardinality(Others(p, "read", t)) = Cardinality(Waiters(p, "read"))
          /\ Cardinality(Others(p, "write", t)) = Cardinality(Waiters(p, "write"))
      BY <2>2
    <3> QED
      BY <3>1, <3>2 DEF Standing
  <2> QED
    BY <1>2, <2>1, <2>3
<1>3. CASE /\ pc[t] = "mutex" /\ d' = [d EXCEPT ![t] = d_ptr]
           /\ pc' = [pc EXCEPT ![t] = "lock"]
           /\ UNCHANGED <<d_ptr, object, free, mode, deadline, val>>
  BY <1>3
<1>4. CASE Resume(t)
  <2> DEFINE c(p) == IF mode[t] = "read" THEN [object[p] EXCEPT !.waitingReaders = @ - 1]
                     ELSE [object[p] EXCEPT !.waitingWriters = @ - 1]
  <2>1. PICK p \in Object : d[t] = At(p) /\ TakeOrWait(t, p, c(p))
    BY <1>4 DEF Resume
  <2>2. pc[t] = "awake" /\ d_ptr = At(p) /\ mode[t] \in Mode
    BY <1>1, <1>4, <2>1 DEF Resume, RWInv, RWTypeOK
  <2>3. \A m \in Mode : Cardinality(Others(p, m, t)) =
                          Cardinality(Waiters(p, m)) - IF m = mode[t] THEN 1 ELSE 0
    <3>1. \A m \in Mode : In(t, Waiters(p, m)) = IF m = mode[t] THEN 1 ELSE 0
      BY <2>1, <2>2 DEF In, Waiters
    <3> QED
      BY <3>1, OthersAreFinite
  <2>4. object[p] = Standing(p) /\ object[p] \in Counts
    BY <1>1, <2>2
  <2>5. c(p) = [readers |-> Cardinality(Holders("read")),
                writers |-> Cardinality(Holders("write")),
                waitingReaders |-> Cardinality(Others(p, "read", t)),
                waitingWriters |-> Cardinality(Others(p, "write", t))]
    <3>1. CASE mode[t] = "read"
      <4>1. /\ Cardinality(Others(p, "read", t)) = Cardinality(Waiters(p, "read")) - 1
            /\ Cardinality(Others(p, "write", t)) = Cardinality(Waiters(p, "write"))
        BY <2>3, <3>1, ThreadsAreFinite DEF Mode
      <4> QED
        BY <2>4, <3>1, <4>1 DEF Standing
    <3>2. CASE mode[t] = "write"
      <4>1. /\ Cardinality(Others(p, "read", t)) = Cardinality(Waiters(p, "read"))
            /\ Cardinality(Others(p, "write", t)) = Cardinality(Waiters(p, "write")) - 1
        BY <2>3, <3>2, ThreadsAreFinite DEF Mode
      <4> QED
        BY <2>4, <3>2, <4>1 DEF Standing
    <3> QED
      BY <2>2, <3>1, <3>2 DEF Mode
  <2>6. Cardinality(Holders("write")) \in 0..1
    BY <2>4 DEF Standing, Counts
  <2> HIDE DEF c
  <2>7. /\ c(p) \in Counts
        /\ c(p).readers = Cardinality(Holders("read"))
        /\ c(p).writers = Cardinality(Holders("write"))
        /\ c(p).waitingReaders = Cardinality(Others(p, "read", t))
        /\ c(p).waitingWriters = Cardinality(Others(p, "write", t))
    BY <2>5, <2>6, ThreadsAreFinite, OthersAreFinite DEF Counts
  <2> QED
    BY <2>1, <2>2, <2>7
<1> QED
  BY <1>2, <1>3, <1>4 DEF Enter

LEMMA EnterKeeps ==
  ASSUME RWInv, NEW t \in Thread, Enter(t) \/ Resume(t)
  PROVE  RWInv'
BY EnterIsTurn, TakeOrWaitKeeps, CallKeeps

\* The last holder gives the object back when nobody waits.
LEMMA GiveBackKeeps ==
  ASSUME RWInv, NEW t \in Thread, OneMoves(t), NEW p \in Object, d_ptr = At(p),
         d_ptr' = Null, free' = free \cup {p}, UNCHANGED val,
         object' = [object EXCEPT ![p] = NoCounts], NoCounts = Standing(p)',
         RWTypeOK', pc' = [pc EXCEPT ![t] = "idle"], pc[t] = "unlock"
  PROVE  RWInv'
<1>1. /\ object'[p] = NoCounts /\ \A q \in Object \ {p} : object'[q] = object[q]
      /\ pc'[t] = "idle" /\ \A s \in Thread \ {t} : pc'[s] = pc[s] /\ d'[s] = d[s]
      /\ val' = val /\ val[t] = {}
  BY DEF RWInv, RWTypeOK, CallInv, OneMoves
<1>2. /\ Holders("read")' = {} /\ Holders("write")' = {}
      /\ Waiters(p, "read")' = {} /\ Waiters(p, "write")' = {}
  <2>1. /\ Cardinality(Holders("read")') = 0 /\ Cardinality(Holders("write")') = 0
        /\ Cardinality(Waiters(p, "read")') = 0 /\ Cardinality(Waiters(p, "write")') = 0
    BY DEF Standing, NoCounts
  <2>2. /\ IsFiniteSet(Holders("read")') /\ IsFiniteSet(Holders("write")')
        /\ IsFiniteSet(Waiters(p, "read")') /\ IsFiniteSet(Waiters(p, "write")')
    BY CountsMove, CardinalityMoves, ThreadsAreFinite
  <2> QED
    BY <2>1, <2>2, FS_EmptySet
<1>3. \A s \in Thread : pc'[s] \notin {"wait", "awake", "held", "unlock"}
  <2> SUFFICES ASSUME NEW s \in Thread
               PROVE  pc'[s] \notin {"wait", "awake", "held", "unlock"}
    OBVIOUS
  <2>1. mode'[s] \in {"read", "write"}
    BY DEF RWTypeOK, Mode
  <2>2. pc'[s] \notin {"held", "unlock"}
    BY <1>2, <2>1 DEF Holders
  <2>3. pc'[s] \in {"wait", "awake"} => d'[s] = At(p)
    BY <1>1 DEF RWInv, CountsAgree, PointerAgrees, WaitersAreHere
  <2> QED
    BY <1>2, <2>1, <2>2, <2>3 DEF Waiters
<1>4. Exclusive' /\ WaitersAreHere' /\ NobodySleepsBesideAFreeLock'
  BY <1>2, <1>3, NoWaiters DEF Exclusive
<1>5. PointerStands'
  BY <1>2, FS_EmptySet DEF PointerStands
<1>6. /\ \A s \in Thread : p \notin val[s]
      /\ \A q \in free : object[q] = NoCounts
      /\ \A q \in Object : q \notin free <=> d_ptr = At(q) \/ \E s \in Thread : q \in val[s]
      /\ \A r, s \in Thread : r # s => val[r] \cap val[s] = {}
      /\ \A q \in Object : d_ptr = At(q) <=> q = p
  BY ShapesDiffer DEF RWInv, CountsAgree, ObjectsAreKept
<1>7. ObjectsAreKept'
  <2>1. \A q \in Object : d_ptr' # At(q)
    BY ShapesDiffer
  <2>2. \A q \in Object : q \notin free' <=> \E s \in Thread : q \in val'[s]
    BY <1>1, <1>6
  <2>3. \A r, s \in Thread : r # s => val'[r] \cap val'[s] = {}
    BY <1>1, <1>6
  <2>4. \A q \in free' : q \in Object /\ object'[q] = NoCounts
    BY <1>1, <1>6 DEF RWInv, RWTypeOK
  <2>5. \A s \in Thread : val'[s] \subseteq Object
    BY DEF RWTypeOK
  <2> QED
    BY <2>1, <2>2, <2>3, <2>4, <2>5 DEF ObjectsAreKept
<1>8. CallInv'
  <2> SUFFICES ASSUME NEW s \in Thread
               PROVE  /\ pc'[s] = "swap" =>
                           /\ d'[s] = Writing \/ d'[s][1] = "read"
                           /\ \E q \in Object : val'[s] = {q} /\ object'[q] = Held(d'[s])
                      /\ pc'[s] # "swap" => val'[s] = {}
                      /\ pc'[s] = "mutex" => d'[s][1] = "object"
    BY <1>3 DEF CallInv
  <2>1. CASE s = t
    BY <1>1, <2>1
  <2>2. CASE s # t
    BY <1>1, <1>6, <2>2 DEF RWInv, CallInv
  <2> QED
    BY <2>1, <2>2
<1> QED
  BY <1>4, <1>5, <1>7, <1>8 DEF RWInv, CountsAgree, PointerAgrees

LEMMA UnlockObjectKeeps ==
  ASSUME RWInv, NEW t \in Thread, UnlockObject(t)
  PROVE  RWInv'
<1> DEFINE c(p) == IF object[p].writers > 0 THEN [object[p] EXCEPT !.writers = 0]
                   ELSE [object[p] EXCEPT !.readers = @ - 1]
<1>1. PICK p \in Object :
        /\ d[t] = At(p)
        /\ object' = [object EXCEPT ![p] = c(p)]
        /\ \/ /\ c(p).readers > 0
              /\ pc' = [pc EXCEPT ![t] = "idle"]
              /\ UNCHANGED <<d_ptr, free>>
           \/ /\ c(p).readers = 0
              /\ c(p).waitingReaders > 0 \/ c(p).waitingWriters > 0
              /\ \E S \in Woken(p, c(p)) : pc' = Notify(S, t, "idle")
              /\ UNCHANGED <<d_ptr, free>>
           \/ /\ c(p) = NoCounts
              /\ d_ptr' = Null
              /\ free' = free \cup {p}
              /\ pc' = [pc EXCEPT ![t] = "idle"]
  BY DEF UnlockObject
<1>2. /\ pc[t] = "unlock" /\ d_ptr = At(p) /\ mode[t] \in Mode
      /\ Leave(t) /\ val' = val
  BY <1>1, ShapesDiffer DEF UnlockObject, RWInv, RWTypeOK, CallInv
<1>3. object[p] = Standing(p) /\ object[p] \in Counts
  BY <1>2, ShapesDiffer
     DEF RWInv, RWTypeOK, CountsAgree, PointerAgrees, PointerStands
<1>4. PICK S : /\ S \subseteq Sleepers(p, "read") \cup Sleepers(p, "write")
               /\ pc' = Notify(S, t, "idle")
               /\ \/ c(p).readers > 0 /\ S = {} /\ UNCHANGED <<d_ptr, free>>
                  \/ /\ c(p).waitingReaders > 0 \/ c(p).waitingWriters > 0
                     /\ S \in Woken(p, c(p))
                     /\ UNCHANGED <<d_ptr, free>>
                  \/ /\ c(p) = NoCounts /\ d_ptr' = Null /\ free' = free \cup {p}
                     /\ pc' = [pc EXCEPT ![t] = "idle"]
  <2>1. pc' = [pc EXCEPT ![t] = "idle"] => pc' = Notify({}, t, "idle")
    BY <1>2 DEF Notify, RWInv, RWTypeOK
  <2>2. \A S \in Woken(p, c(p)) : S \subseteq Sleepers(p, "read") \cup Sleepers(p, "write")
    BY DEF Woken
  <2> HIDE DEF c
  <2> QED
    BY <1>1, <2>1, <2>2
<1>5. /\ pc'[t] = "idle" /\ mode'[t] = "read"
      /\ \A s \in Thread \ {t} :
           /\ d'[s] = d[s] /\ mode'[s] = mode[s]
           /\ pc'[s] = IF s \in S THEN "awake" ELSE pc[s]
  BY <1>2, <1>4 DEF Leave, Notify, RWInv, RWTypeOK
<1>6. OneMoves(t)
  BY <1>4, <1>5 DEF OneMoves, Sleepers
<1>7. /\ \A m : Holders(m)' = Holders(m) \ {t}
      /\ Waiters(p, "read")' = Waiters(p, "read") /\ Waiters(p, "write")' = Waiters(p, "write")
      /\ Sleepers(p, "read")' = Sleepers(p, "read") \ S
      /\ Sleepers(p, "write")' = Sleepers(p, "write") \ S
  BY <1>2, <1>4, <1>5 DEF Holders, Waiters, Sleepers
\* The caller is the writer if there is one.
<1>8. /\ \A m \in Mode : Cardinality(Holders(m)') =
                           Cardinality(Holders(m)) - IF m = mode[t] THEN 1 ELSE 0
      /\ mode[t] = "write" => Cardinality(Holders("write")) = 1 /\ Cardinality(Holders("read")) = 0
      /\ mode[t] = "read" => Cardinality(Holders("write")) = 0
  <2>1. \A m \in Mode : In(t, Holders(m)) = (IF m = mode[t] THEN 1 ELSE 0) /\ In(t, Holders(m)') = 0
    BY <1>2, <1>5 DEF In, Holders
  <2>2. \A m \in Mode : Cardinality(Holders(m)') =
                          Cardinality(Holders(m)) - IF m = mode[t] THEN 1 ELSE 0
    BY <1>6, <2>1, CountsMove, ThreadsAreFinite
  <2>3. t \in Holders(mode[t])
    BY <1>2 DEF Holders
  <2>4. mode[t] = "write" => Holders("read") = {}
    BY <2>3 DEF RWInv, Exclusive
  <2>5. mode[t] = "read" => Holders("write") = {}
    BY <2>3 DEF RWInv, Exclusive
  <2>6. mode[t] = "write" => Cardinality(Holders("write")) = 1
    <3>1. Cardinality(Holders("write")) \in 0..1
      BY <1>3 DEF Standing, Counts
    <3>2. mode[t] = "write" => Cardinality(Holders("write")) # 0
      BY <2>3, ThreadsAreFinite, FS_EmptySet
    <3> QED
      BY <3>1, <3>2
  <2> QED
    BY <2>2, <2>4, <2>5, <2>6, FS_EmptySet
<1>9. /\ c(p).waitingReaders = Cardinality(Waiters(p, "read"))
      /\ c(p).waitingWriters = Cardinality(Waiters(p, "write"))
      /\ c(p) = Standing(p)'
  <2>1. CASE mode[t] = "read"
    <3>1. /\ Cardinality(Holders("read")') = Cardinality(Holders("read")) - 1
          /\ Cardinality(Holders("write")') = 0 /\ Cardinality(Holders("write")) = 0
      BY <1>8, <2>1, ThreadsAreFinite DEF Mode
    <3> QED
      BY <1>3, <1>7, <3>1 DEF Standing
  <2>2. CASE mode[t] = "write"
    <3>1. /\ Cardinality(Holders("read")') = Cardinality(Holders("read"))
          /\ Cardinality(Holders("write")') = 0 /\ Cardinality(Holders("write")) = 1
      BY <1>8, <2>2, ThreadsAreFinite DEF Mode
    <3> QED
      BY <1>3, <1>7, <3>1 DEF Standing
  <2> QED
    BY <1>2, <2>1, <2>2 DEF Mode
<1>10. /\ c(p) = [readers |-> Cardinality(Holders("read")'), writers |-> 0,
                  waitingReaders |-> Cardinality(Waiters(p, "read")),
                  waitingWriters |-> Cardinality(Waiters(p, "write"))]
       /\ Cardinality(Holders("read")') \in Nat
  <2>1. Cardinality(Holders("write")') = 0
    BY <1>2, <1>8, ThreadsAreFinite DEF Mode
  <2>2. Cardinality(Holders("read")') \in Nat
    BY <1>6, CountsMove, CardinalityMoves, ThreadsAreFinite
  <2> QED
    BY <1>7, <1>9, <2>1, <2>2 DEF Standing
<1> HIDE DEF c
<1>11. c(p) \in Counts
  BY <1>10, ThreadsAreFinite DEF Counts
<1>12. RWTypeOK'
  BY <1>1, <1>2, <1>4, <1>11 DEF RWInv, RWTypeOK, Leave, Notify, Pointer, Mode
<1>13. CASE /\ c(p) = NoCounts /\ d_ptr' = Null /\ free' = free \cup {p}
            /\ pc' = [pc EXCEPT ![t] = "idle"]
  BY <1>1, <1>2, <1>6, <1>9, <1>12, <1>13, GiveBackKeeps
<1>14. CASE /\ UNCHANGED <<d_ptr, free>>
            /\ \/ c(p).readers > 0 /\ S = {}
               \/ /\ c(p).waitingReaders > 0 \/ c(p).waitingWriters > 0
                  /\ S \in Woken(p, c(p))
  <2>1. c(p) # NoCounts
    BY <1>14 DEF NoCounts
  <2>2. Exclusive'
    BY <1>7 DEF RWInv, Exclusive
  <2>3. Sleepers(p, "read")' # {} => c(p).writers > 0 \/ c(p).waitingWriters > 0
    <3>1. CASE c(p).readers > 0 /\ S = {}
      <4>1. Cardinality(Holders("write")) = 0
        BY <1>2, <1>8, <1>10, <3>1, ThreadsAreFinite DEF Mode
      <4>2. object[p].writers = 0 /\ object[p].waitingWriters = c(p).waitingWriters
        BY <1>3, <1>9, <4>1 DEF Standing
      <4> QED
        BY <1>7, <3>1, <4>2 DEF RWInv, NobodySleepsBesideAFreeLock
    <3>2. CASE S \in Woken(p, c(p))
      <4>1. c(p).waitingWriters = 0 => S = Sleepers(p, "read")
        BY <3>2 DEF Woken
      <4>2. c(p).waitingWriters \in Nat
        BY <1>11 DEF Counts
      <4> QED
        BY <1>7, <4>1, <4>2
    <3> QED
      BY <1>14, <3>1, <3>2
  <2>4. Sleepers(p, "write")' # {} => \/ c(p).writers > 0 \/ c(p).readers > 0
                                      \/ Waiters(p, "write")' # Sleepers(p, "write")'
    <3>1. CASE S \in Woken(p, c(p))
      <4>1. CASE c(p).waitingWriters = 0
        <5>1. Waiters(p, "write") = {}
          BY <1>9, <4>1, ThreadsAreFinite, FS_EmptySet
        <5> QED
          BY <1>7, <5>1 DEF Waiters, Sleepers
      <4>2. CASE c(p).waitingWriters # 0 /\ Sleepers(p, "write") # {}
        <5>1. PICK w \in Sleepers(p, "write") : S = {w}
          BY <3>1, <4>2 DEF Woken
        <5>2. w \in Waiters(p, "write")' /\ w \notin Sleepers(p, "write")'
          BY <1>7, <5>1 DEF Waiters, Sleepers
        <5> QED
          BY <5>2
      <4> QED
        BY <1>7, <4>1, <4>2
    <3> QED
      BY <1>14, <3>1
  <2> QED
    BY <1>1, <1>2, <1>5, <1>6, <1>9, <1>12, <1>14, <2>1, <2>2, <2>3, <2>4, ObjectStep
<1> QED
  BY <1>4, <1>13, <1>14

-----------------------------------------------------------------------------
LEMMA RWInitially == Init => RWInv
<1> SUFFICES ASSUME Init
             PROVE  RWInv
  OBVIOUS
<1>1. RWTypeOK
  BY DEF Init, RWTypeOK, Pointer, Counts, NoCounts, Mode
<1>2. CallInv /\ NobodySleepsBesideAFreeLock /\ WaitersAreHere
  BY DEF Init, CallInv, NobodySleepsBesideAFreeLock, Sleepers, WaitersAreHere
<1>3. \A m : Holders(m) = {}
  BY DEF Init, Holders
<1>4. Exclusive /\ PointerStands
  BY <1>3, FS_EmptySet DEF Exclusive, PointerStands, Init
<1>5. ObjectsAreKept
  BY ShapesDiffer DEF Init, ObjectsAreKept
<1> QED
  BY <1>1, <1>2, <1>4, <1>5 DEF RWInv, CountsAgree, PointerAgrees

LEMMA RWUnchanged == RWInv /\ UNCHANGED vars => RWInv'
<1> SUFFICES ASSUME RWInv, UNCHANGED vars
             PROVE  RWInv'
  OBVIOUS
<1>1. /\ d_ptr' = d_ptr /\ object' = object /\ free' = free /\ pc' = pc
      /\ mode' = mode /\ deadline' = deadline /\ d' = d /\ val' = val
  BY DEF vars
<1>2. \A p, m : /\ Holders(m)' = Holders(m) /\ Waiters(p, m)' = Waiters(p, m)
                /\ Sleepers(p, m)' = Sleepers(p, m)
  BY <1>1 DEF Holders, Waiters, Sleepers
<1>3. \A p : Standing(p)' = Standing(p)
  BY <1>2 DEF Standing
<1>4. RWTypeOK' /\ CallInv' /\ Exclusive' /\ NobodySleepsBesideAFreeLock'
  BY <1>1, <1>2 DEF RWInv, RWTypeOK, CallInv, Exclusive, NobodySleepsBesideAFreeLock
<1>5. PointerStands' /\ WaitersAreHere'
  BY <1>1, <1>2, <1>3 DEF RWInv, CountsAgree, PointerAgrees, PointerStands, WaitersAreHere
<1>6. ObjectsAreKept'
  BY <1>1 DEF RWInv, CountsAgree, ObjectsAreKept
<1> QED
  BY <1>4, <1>5, <1>6 DEF RWInv, CountsAgree, PointerAgrees

\* What t does to the pointer is a swap, or nothing.
LEMMA SwapOrReload ==
  ASSUME NEW t \in Thread
  PROVE  /\ TryLock(t) => \/ /\ d_ptr = d[t]
                             /\ d_ptr' = IF mode[t] = "write" THEN Writing ELSE Reading(d[t][2] + 1)
                             /\ Succeed(t) /\ UNCHANGED <<object, free, val>>
                          \/ pc[t] = "lock" /\ Reload(t)
         /\ UnlockSwap(t) => \/ /\ d_ptr = d[t]
                                /\ d_ptr' = IF d[t][1] = "read" /\ d[t][2] > 1
                                            THEN Reading(d[t][2] - 1) ELSE Null
                                /\ pc' = [pc EXCEPT ![t] = "idle"]
                                /\ Leave(t) /\ UNCHANGED <<object, free, val>>
                             \/ pc[t] = "unlock" /\ Reload(t)
BY DEF TryLock, UnlockSwap

LEMMA RWInductive == RWInv /\ [Next]_vars => RWInv'
<1> SUFFICES ASSUME RWInv, [Next]_vars
             PROVE  RWInv'
  OBVIOUS
<1>1. CASE UNCHANGED vars
  BY <1>1, RWUnchanged
<1>2. CASE Next
  <2>1. PICK t \in Thread :
          \/ \E m \in Mode, when \in {"forever", "running", "expired"} : Lock(t, m, when)
          \/ Step(t) \/ GiveUp(t) \/ TimeOut(t) \/ SpuriousWake(t)
    BY <1>2 DEF Next
  <2>2. CASE \/ \E m \in Mode, when \in {"forever", "running", "expired"} : Lock(t, m, when)
             \/ GiveUp(t) \/ Load(t) \/ Unlock(t)
    BY <2>2, CallKeeps
  <2>3. CASE TryLock(t) \/ UnlockSwap(t)
    BY <2>3, SwapOrReload, TryLockKeeps, UnlockSwapKeeps, CallKeeps
  <2>4. CASE Allocate(t) \/ Install(t)
    BY <2>4, AllocateKeeps, InstallKeeps
  <2>5. CASE Enter(t) \/ Resume(t)
    BY <2>5, EnterKeeps
  <2>6. CASE UnlockObject(t)
    BY <2>6, UnlockObjectKeeps
  <2>7. CASE TimeOut(t) \/ SpuriousWake(t)
    BY <2>7, WakeKeeps
  <2> QED
    BY <2>1, <2>2, <2>3, <2>4, <2>5, <2>6, <2>7 DEF Step
<1> QED
  BY <1>1, <1>2

THEOREM RWInvariant == Spec => []RWInv
BY RWInitially, RWInductive, PTL DEF Spec

\* The lock knows at every moment who holds it and who waits, in whichever of
\* its shapes; its objects are neither lost nor shared; and nobody sleeps
\* without a holder or a waiter that will wake it.  For any number of threads,
\* with timeouts and spurious wakeups.
THEOREM LockKept == Spec => []LockIsKept
<1>1. RWInv => LockIsKept
  BY DEF RWInv, LockIsKept
<1> QED
  BY <1>1, RWInvariant, PTL
-----------------------------------------------------------------------------
\* The lock implements ReadersOrWriter.

AbstractStep == [Abstract!Next]_(Abstract!vars)

LEMMA HoldersStay ==
  ASSUME \A s \in Thread : /\ pc'[s] \in {"held", "unlock"} <=> pc[s] \in {"held", "unlock"}
                           /\ pc[s] \in {"held", "unlock"} => mode'[s] = mode[s]
  PROVE  AbstractStep
<1>1. Holders("read")' = Holders("read") /\ Holders("write")' = Holders("write")
  BY DEF Holders
<1> QED
  BY <1>1 DEF AbstractStep, Abstract!vars

\* t gets the lock, when nobody has it who must not.
LEMMA HoldersGain ==
  ASSUME NEW t \in Thread, mode[t] \in Mode, pc[t] \notin {"held", "unlock"}, pc'[t] = "held",
         mode' = mode,
         \A s \in Thread \ {t} :
           pc'[s] \in {"held", "unlock"} <=> pc[s] \in {"held", "unlock"},
         Holders("write") = {}, mode[t] = "write" => Holders("read") = {}
  PROVE  AbstractStep
<1>1. CASE mode[t] = "read"
  <2>1. /\ Holders("read")' = Holders("read") \cup {t} /\ t \notin Holders("read")
        /\ Holders("write")' = Holders("write")
    BY <1>1 DEF Holders
  <2>2. Abstract!LockForRead(t)
    BY <2>1 DEF Abstract!LockForRead
  <2> QED
    BY <2>2 DEF AbstractStep, Abstract!Next
<1>2. CASE mode[t] = "write"
  <2>1. Holders("write")' = Holders("write") \cup {t} /\ Holders("read")' = Holders("read")
    BY <1>2 DEF Holders
  <2>2. Abstract!LockForWrite(t)
    BY <1>2, <2>1 DEF Abstract!LockForWrite
  <2> QED
    BY <2>2 DEF AbstractStep, Abstract!Next
<1> QED
  BY <1>1, <1>2 DEF Mode

\* t releases the lock.
LEMMA HoldersLose ==
  ASSUME NEW t \in Thread, mode[t] \in Mode, pc[t] = "unlock", pc'[t] = "idle",
         \A s \in Thread \ {t} :
           /\ mode'[s] = mode[s]
           /\ pc'[s] \in {"held", "unlock"} <=> pc[s] \in {"held", "unlock"}
  PROVE  AbstractStep
<1>1. /\ Holders("read")' = Holders("read") \ {t} /\ Holders("write")' = Holders("write") \ {t}
      /\ t \in Holders("read") \cup Holders("write")
  BY DEF Holders, Mode
<1>2. Abstract!Unlock(t)
  BY <1>1 DEF Abstract!Unlock
<1> QED
  BY <1>2 DEF AbstractStep, Abstract!Next

LEMMA TurnRefines ==
  ASSUME RWInv, NEW t \in Thread, NEW p \in Object, pc[t] \in {"mutex", "awake"},
         NEW c \in Counts, TakeOrWait(t, p, c),
         c.readers = Cardinality(Holders("read")), c.writers = Cardinality(Holders("write"))
  PROVE  AbstractStep
<1>1. mode[t] \in Mode
  BY DEF RWInv, RWTypeOK
<1>2. CASE ~Blocked(c, mode[t]) /\ Succeed(t)
  <2>1. c.readers \in Nat /\ c.writers \in Nat
    BY DEF Counts
  <2>2. Cardinality(Holders("write")) = 0 /\ (mode[t] = "write" => Cardinality(Holders("read")) = 0)
    BY <1>2, <2>1 DEF Blocked
  <2>3. Holders("write") = {} /\ (mode[t] = "write" => Holders("read") = {})
    BY <2>2, ThreadsAreFinite, FS_EmptySet
  <2>4. pc'[t] = "held" /\ mode' = mode /\ \A s \in Thread \ {t} : pc'[s] = pc[s]
    BY <1>2 DEF Succeed, RWInv, RWTypeOK
  <2> QED
    BY <1>1, <2>3, <2>4, HoldersGain
<1>3. CASE pc' = Notify(TimedOut(p, c, t), t, "idle") /\ Leave(t)
  <2>1. \A s \in TimedOut(p, c, t) : pc[s] = "wait"
    BY DEF TimedOut, Sleepers
  <2>2. /\ \A s \in Thread \ {t} :
              pc'[s] = pc[s] \/ (pc[s] = "wait" /\ pc'[s] = "awake")
        /\ pc'[t] = "idle" /\ \A s \in Thread \ {t} : mode'[s] = mode[s]
    BY <1>3, <2>1 DEF Notify, Leave, RWInv, RWTypeOK
  <2> QED
    BY <2>2, HoldersStay
<1>4. CASE pc' = [pc EXCEPT ![t] = "wait"] /\ UNCHANGED mode
  BY <1>4, HoldersStay DEF RWInv, RWTypeOK
<1> QED
  BY <1>2, <1>3, <1>4 DEF TakeOrWait

LEMMA TryLockRefines ==
  ASSUME RWInv, NEW t \in Thread, TryLock(t)
  PROVE  AbstractStep
<1>1. CASE d_ptr = d[t] /\ Succeed(t)
  <2>1. /\ pc[t] = "lock" /\ mode[t] \in Mode
        /\ d_ptr = Null \/ (mode[t] = "read" /\ d_ptr[1] = "read")
    BY <1>1 DEF TryLock, RWInv, RWTypeOK
  <2>2. PointerStands
    BY DEF RWInv, CountsAgree, PointerAgrees
  <2>3. /\ Cardinality(Holders("write")) = 0
        /\ mode[t] = "write" => Cardinality(Holders("read")) = 0
    BY <2>1, <2>2, ShapesDiffer DEF PointerStands
  <2>4. Holders("write") = {} /\ (mode[t] = "write" => Holders("read") = {})
    BY <2>3, ThreadsAreFinite, FS_EmptySet
  <2>5. pc'[t] = "held" /\ mode' = mode /\ \A s \in Thread \ {t} : pc'[s] = pc[s]
    BY <1>1 DEF Succeed, RWInv, RWTypeOK
  <2> QED
    BY <2>1, <2>4, <2>5, HoldersGain
<1>2. CASE Reload(t)
  BY <1>2, HoldersStay DEF Reload
<1> QED
  BY <1>1, <1>2 DEF TryLock

LEMMA UnlockRefines ==
  ASSUME RWInv, NEW t \in Thread, UnlockSwap(t) \/ UnlockObject(t)
  PROVE  AbstractStep
<1>1. pc[t] = "unlock" /\ mode[t] \in Mode
  BY DEF UnlockSwap, UnlockObject, RWInv, RWTypeOK
<1>2. CASE pc' = [pc EXCEPT ![t] = "idle"] /\ Leave(t)
  BY <1>1, <1>2, HoldersLose DEF Leave, RWInv, RWTypeOK
<1>3. CASE UnlockObject(t)
  <2>1. PICK p, c : \/ pc' = [pc EXCEPT ![t] = "idle"]
                    \/ \E S \in Woken(p, c) : pc' = Notify(S, t, "idle")
    BY <1>3 DEF UnlockObject
  <2>2. \A S \in Woken(p, c) : \A s \in S : pc[s] = "wait"
    BY DEF Woken, Sleepers
  <2>3. /\ \A s \in Thread \ {t} :
              pc'[s] = pc[s] \/ (pc[s] = "wait" /\ pc'[s] = "awake")
        /\ pc'[t] = "idle" /\ \A s \in Thread \ {t} : mode'[s] = mode[s]
    BY <1>3, <2>1, <2>2 DEF Notify, UnlockObject, Leave, RWInv, RWTypeOK
  <2> QED
    BY <1>1, <2>3, HoldersLose
<1>4. CASE Reload(t)
  BY <1>4, HoldersStay DEF Reload
<1> QED
  BY <1>2, <1>3, <1>4 DEF UnlockSwap
LEMMA RWRefines == RWInv /\ [Next]_vars => AbstractStep
<1> SUFFICES ASSUME RWInv, [Next]_vars
             PROVE  AbstractStep
  OBVIOUS
<1>1. CASE UNCHANGED vars
  BY <1>1, HoldersStay DEF vars
<1>2. CASE Next
  <2>1. PICK t \in Thread :
          \/ \E m \in Mode, when \in {"forever", "running", "expired"} : Lock(t, m, when)
          \/ Step(t) \/ GiveUp(t) \/ TimeOut(t) \/ SpuriousWake(t)
    BY <1>2 DEF Next
  <2>2. CASE \E m \in Mode, when \in {"forever", "running", "expired"} : Lock(t, m, when)
    <3>1. PICK m \in Mode, when \in {"forever", "running", "expired"} : Lock(t, m, when)
      BY <2>2
    <3> QED
      BY <3>1, HoldersStay DEF Lock, RWInv, RWTypeOK
  <2>3. CASE GiveUp(t)
    BY <2>3, HoldersStay DEF GiveUp, MustWait, Leave, RWInv, RWTypeOK
  <2>4. CASE TimeOut(t) \/ SpuriousWake(t)
    BY <2>4, HoldersStay DEF TimeOut, SpuriousWake, RWInv, RWTypeOK
  <2>5. CASE Allocate(t)
    BY <2>5, HoldersStay DEF Allocate, MustWait, RWInv, RWTypeOK
  <2>6. CASE Install(t)
    BY <2>6, HoldersStay DEF Install, RWInv, RWTypeOK
  <2>7. CASE Load(t)
    BY <2>7, HoldersStay DEF Load, RWInv, RWTypeOK
  <2>8. CASE Unlock(t)
    BY <2>8, HoldersStay DEF Unlock, RWInv, RWTypeOK
  <2>9. CASE TryLock(t)
    BY <2>9, TryLockRefines
  <2>10. CASE UnlockSwap(t) \/ UnlockObject(t)
    BY <2>10, UnlockRefines
  <2>11. CASE Enter(t) \/ Resume(t)
    <3>1. CASE /\ pc[t] = "mutex" /\ pc' = [pc EXCEPT ![t] = "lock"]
               /\ UNCHANGED mode
      BY <3>1, HoldersStay DEF RWInv, RWTypeOK
    <3>2. CASE \E p \in Object, c \in Counts :
                 /\ pc[t] \in {"mutex", "awake"} /\ TakeOrWait(t, p, c)
                 /\ c.readers = Cardinality(Holders("read"))
                 /\ c.writers = Cardinality(Holders("write"))
      BY <3>2, TurnRefines
    <3> QED
      BY <2>11, <3>1, <3>2, EnterIsTurn
  <2> QED
    BY <2>1, <2>2, <2>3, <2>4, <2>5, <2>6, <2>7, <2>8, <2>9, <2>10, <2>11 DEF Step
<1> QED
  BY <1>1, <1>2

\* Through fast paths, objects that come and go, timeouts and wakeups without a
\* reason, the callers have what ReadersOrWriter promises: any number of readers
\* or one writer.
THEOREM IsALock == Spec => IsReadersOrWriter
<1>1. Init => Abstract!Init
  BY DEF Init, Holders, Abstract!Init
<1>2. RWInv /\ [Next]_vars => [Abstract!Next]_(Abstract!vars)
  BY RWRefines DEF AbstractStep
<1> QED
  BY <1>1, <1>2, RWInvariant, PTL DEF Spec, IsReadersOrWriter, Abstract!Spec
=============================================================================
